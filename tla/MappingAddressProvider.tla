----------------------- MODULE MappingAddressProvider ------------------------
(***************************************************************************)
(* Handlers of the registry and of addresses providers:                    *)
(* graph/src/mapping/address-provider-registry.ts and                      *)
(* graph/src/mapping/lending-pool-address-provider.ts.  A pool of the      *)
(* index has the address of its addresses provider as its id.              *)
(*                                                                         *)
(* handleAddressSet is not modelled: no data source of the manifest calls  *)
(* it.                                                                     *)
(***************************************************************************)
EXTENDS SubgraphStore

NewPool ==
    [active |-> TRUE, pool |-> NotSet, poolImpl |-> NotSet, poolConfigurator |-> NotSet,
     poolConfiguratorImpl |-> NotSet, poolDataProviderImpl |-> NotSet,
     proxyPriceProvider |-> NotSet, bridgeProtocolFee |-> NotSet,
     flashloanPremiumTotal |-> NotSet, flashloanPremiumToProtocol |-> NotSet]

\* A provider that was registered before is left as it is, inactive or not.
handleAddressesProviderRegistered(ix, e) ==
    IF Has(ix.pools, e.addressesProvider)
    THEN getProtocol(ix)
    ELSE Follow(Create(getProtocol(ix), "pools", e.addressesProvider, NewPool, PoolEntity,
                       {"protocol", "addressProviderId", "active", "paused",
                        "lastUpdateTimestamp"}),
                "PoolAddressesProvider", e.addressesProvider)

handleAddressesProviderUnregistered(ix, e) ==
    IF Has(ix.pools, e.addressesProvider)
    THEN Save(ix, "pools", e.addressesProvider,
              [ix.pools[e.addressesProvider] EXCEPT !.active = FALSE])
    ELSE ix

-----------------------------------------------------------------------------
\* Events of a provider no registry has registered throw.
genericAddressProviderUpdate(ix, e, component, newAddress) ==
    IF Has(ix.pools, e.address)
    THEN Save(ix, "pools", e.address, [ix.pools[e.address] EXCEPT ![component] = newAddress])
    ELSE Halt(ix)

\* As if the proxies were followed without being attributed to the pool.
FollowProxyOnly(ix, e, template, component) ==
    genericAddressProviderUpdate(Follow(ix, template, e.proxyAddress), e, component, e.proxyAddress)

\* The proxies of the pool and of the configurator are new contracts to follow.
FollowProxy(ix, e, template, component) ==
    createMapContractToPool(
        genericAddressProviderUpdate(Follow(ix, template, e.proxyAddress), e, component,
                                     e.proxyAddress),
        e.proxyAddress, e.address)

handleProxyCreated(ix, e) ==
    CASE e.id = "POOL_CONFIGURATOR" -> FollowProxy(ix, e, "PoolConfigurator", "poolConfigurator")
      [] e.id = "POOL" -> FollowProxy(ix, e, "Pool", "pool")
      [] OTHER -> ix

\* The oracle is one for all pools: the last provider to name one wins.
handlePriceOracleUpdated(ix, e) ==
    LET updated == getOrInitPriceOracle(
                       genericAddressProviderUpdate(ix, e, "proxyPriceProvider", e.newAddress))
    IN  Save(updated, "priceOracles", "1",
             [PriceOracleOf(updated) EXCEPT !.proxyPriceProvider = e.newAddress])

handlePoolUpdated(ix, e) == genericAddressProviderUpdate(ix, e, "poolImpl", e.newAddress)

handlePoolConfiguratorUpdated(ix, e) ==
    genericAddressProviderUpdate(ix, e, "poolConfiguratorImpl", e.newAddress)

handlePoolDataProviderUpdated(ix, e) ==
    genericAddressProviderUpdate(ix, e, "poolDataProviderImpl", e.newAddress)
==============================================================================
