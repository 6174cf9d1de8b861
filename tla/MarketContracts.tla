--------------------------- MODULE MarketContracts ---------------------------
(***************************************************************************)
(* The contracts of a market as their owner sees them: the registry, the   *)
(* addresses provider, the ACL manager, the configurator and the oracle,   *)
(* with the events they emit.  Users and their positions are not here.     *)
(*                                                                         *)
(* The state c of all contracts is a record; a call is an operator from it *)
(* to the next one.  A call that fails a require sets reverted: whoever    *)
(* executes the transaction then keeps the state it started from.  The     *)
(* n-th contract of a kind has the address <<kind, n>>.                    *)
(***************************************************************************)
EXTENDS SubgraphEvents, WadRayMath, Sequences, FiniteSets

CONSTANTS
    Deployer,    \* the account of the scripts, owner and admin of everything
    NoAnswer     \* a price nobody answers with

ASSUME AnswersAssumption == NoAnswer \notin Nat

Nothing == [k \in {} |-> NoAddress]

NoContracts ==
    [contracts |-> {}, initialised |-> {}, slots |-> Nothing, sources |-> Nothing,
     registered |-> {}, roles |-> {}, reserves |-> Nothing, eModes |-> Nothing,
     premiumTotal |-> 0, premiumToProtocol |-> 0, bridgeFee |-> 0,
     log |-> <<>>, reverted |-> FALSE]

Checked(c, condition) == [c EXCEPT !.reverted = @ \/ ~condition]

Emitted(c, event) == [c EXCEPT !.log = Append(@, event)]

\* A mapping after an assignment to one of its keys.
Written(map, key, value) ==
    [k \in DOMAIN map \cup {key} |-> IF k = key THEN value ELSE map[k]]

\* A variable of a contract that holds an address, zero until it is set.
Slot(c, contract, key) ==
    IF <<contract, key>> \in DOMAIN c.slots THEN c.slots[contract, key] ELSE NoAddress

SetSlot(c, contract, key, value) == [c EXCEPT !.slots = Written(@, <<contract, key>>, value)]

Fresh(c, kind) == <<kind, 1 + Cardinality({a \in c.contracts : a[1] = kind})>>

Created(c, address) == [c EXCEPT !.contracts = @ \cup {address}]

\* The initializer modifier: once per contract.
initialize(c, contract) ==
    [Checked(c, contract \notin c.initialised) EXCEPT !.initialised = @ \cup {contract}]

-------------------------------------------------------------------------------
(* Registry of addresses providers.                                        *)

IsRegistered(c, registry, provider) == <<registry, provider>> \in c.registered

registerAddressesProvider(c, registry, provider) ==
    Emitted([Checked(c, ~IsRegistered(c, registry, provider)) EXCEPT
                !.registered = @ \cup {<<registry, provider>>}],
            AddressesProviderRegistered(registry, provider))

unregisterAddressesProvider(c, registry, provider) ==
    Emitted([Checked(c, IsRegistered(c, registry, provider)) EXCEPT
                !.registered = @ \ {<<registry, provider>>}],
            AddressesProviderUnregistered(registry, provider))

-------------------------------------------------------------------------------
(* Addresses provider.                                                     *)

\* The proxy of a component is created with its first implementation.  Later ones must
\* be of a higher revision than the one the proxy was initialised with; an implementation
\* the scripts deploy is not.
updateImpl(c, provider, id, impl) ==
    LET proxy == Fresh(c, id)
    IN  IF Slot(c, provider, id) # NoAddress
        THEN Checked(c, FALSE)
        ELSE Emitted(initialize(SetSlot(Created(c, proxy), provider, id, proxy), proxy),
                     ProxyCreated(provider, id, proxy))

setAddressAsProxy(c, provider, id, impl) == updateImpl(c, provider, id, impl)

setPoolImpl(c, provider, impl) ==
    Emitted(updateImpl(c, provider, "POOL", impl), PoolUpdated(provider, impl))

\* The configurator's initializer asks the provider for the pool.
setPoolConfiguratorImpl(c, provider, impl) ==
    LET updated == updateImpl(c, provider, "POOL_CONFIGURATOR", impl)
        proxy == Slot(updated, provider, "POOL_CONFIGURATOR")
    IN  Emitted(SetSlot(SetSlot(updated, proxy, "provider", provider),
                        proxy, "pool", Slot(c, provider, "POOL")),
                PoolConfiguratorUpdated(provider, impl))

setPriceOracle(c, provider, oracle) ==
    Emitted(SetSlot(c, provider, "PRICE_ORACLE", oracle), PriceOracleUpdated(provider, oracle))

setPoolDataProvider(c, provider, dataProvider) ==
    Emitted(SetSlot(c, provider, "DATA_PROVIDER", dataProvider),
            PoolDataProviderUpdated(provider, dataProvider))

setACLAdmin(c, provider, admin) == SetSlot(c, provider, "ACL_ADMIN", admin)

setACLManager(c, provider, manager) == SetSlot(c, provider, "ACL_MANAGER", manager)

-------------------------------------------------------------------------------
(* Roles.                                                                  *)

HasRole(c, manager, role, account) == <<manager, role, account>> \in c.roles

grantRole(c, manager, role, account) ==
    [Checked(c, HasRole(c, manager, "DEFAULT_ADMIN", Deployer)) EXCEPT
        !.roles = @ \cup {<<manager, role, account>>}]

revokeRole(c, manager, role, account) ==
    [Checked(c, HasRole(c, manager, "DEFAULT_ADMIN", Deployer)) EXCEPT
        !.roles = @ \ {<<manager, role, account>>}]

\* The modifiers of the configurator and of the oracle.
Allowed(c, provider, roles, sender) ==
    \E role \in roles : HasRole(c, Slot(c, provider, "ACL_MANAGER"), role, sender)

-------------------------------------------------------------------------------
(* Oracles.                                                                *)

AssetSource(c, oracle, asset, source) ==
    Emitted([c EXCEPT !.sources = Written(@, <<oracle, asset>>, source)],
            AssetSourceUpdated(oracle, asset, source))

getSourceOfAsset(c, oracle, asset) ==
    IF <<oracle, asset>> \in DOMAIN c.sources THEN c.sources[oracle, asset] ELSE NoAddress

OnlyAssetListingOrPoolAdmins(c, oracle) ==
    Checked(c, Allowed(c, Slot(c, oracle, "provider"), {"ASSET_LISTING_ADMIN", "POOL_ADMIN"}, Deployer))

\* assets and sources are sequences of the same length.
setAssetSources(c, oracle, assets, sources) ==
    LET set[i \in 0..Len(assets)] ==
            IF i = 0 THEN OnlyAssetListingOrPoolAdmins(c, oracle)
                     ELSE AssetSource(set[i - 1], oracle, assets[i], sources[i])
    IN  set[Len(assets)]

setFallbackOracle(c, oracle, fallback) ==
    Emitted(SetSlot(OnlyAssetListingOrPoolAdmins(c, oracle), oracle, "fallback", fallback),
            FallbackOracleUpdated(oracle, fallback))

\* Prices are one for whatever has one.  Asking a fallback that is no oracle reverts.
getFallbackPrice(c, oracle) ==
    LET fallback == Slot(c, oracle, "fallback")
    IN  IF fallback # NoAddress /\ fallback[1] = "PriceOracle" THEN 1 ELSE NoAnswer

getAssetPrice(c, oracle, asset) ==
    IF asset = NoAddress \/ getSourceOfAsset(c, oracle, asset) # NoAddress
    THEN 1 ELSE getFallbackPrice(c, oracle)

\* The fallback oracle of a test network: anyone may set its prices.
setAssetPrice(c, oracle, asset, price) == Emitted(c, AssetPriceUpdated(oracle, asset, price))

setEthUsdPrice(c, oracle, price) == Emitted(c, EthPriceUpdated(oracle, price))

-------------------------------------------------------------------------------
(* Creating a contract.  The ACL manager asks the provider for the admin;  *)
(* the oracle announces its parameters; token implementations belong to    *)
(* one pool.                                                               *)

Constructed(c, kind, provider) ==
    LET new == Fresh(c, kind)
        created == Created(c, new)
        admin == Slot(c, provider, "ACL_ADMIN")
    IN  CASE kind = "ACLManager" ->
               [Checked(created, admin # NoAddress) EXCEPT
                   !.roles = @ \cup {<<new, "DEFAULT_ADMIN", admin>>}]
          [] kind = "ProtocolOracle" ->
               Emitted(AssetSource(Emitted(SetSlot(created, new, "provider", provider),
                                           FallbackOracleUpdated(new, NoAddress)),
                                   new, NoAddress, NoAddress),
                       BaseCurrencySet(new, NoAddress))
          [] kind \in {"BToken", "DelegationAwareBToken", "StableDebtToken", "VariableDebtToken"} ->
               SetSlot(created, new, "pool", Slot(c, provider, "POOL"))
          [] OTHER -> created

-------------------------------------------------------------------------------
(* Listing reserves.                                                       *)

NewReserveData(bToken, sToken, vToken, strategy) ==
    [bToken |-> bToken, sToken |-> sToken, vToken |-> vToken,
     reserveInterestRateStrategy |-> strategy,
     baseLTVasCollateral |-> 0, reserveLiquidationThreshold |-> 0, reserveLiquidationBonus |-> 0,
     reserveFactor |-> 0, borrowCap |-> 0, supplyCap |-> 0, unbackedMintCap |-> 0,
     debtCeiling |-> 0, liquidationProtocolFee |-> 0, eMode |-> 0,
     isActive |-> TRUE, isFrozen |-> FALSE, isPaused |-> FALSE, borrowingEnabled |-> FALSE,
     stableBorrowRateEnabled |-> FALSE, flashLoanEnabled |-> FALSE, siloedBorrowing |-> FALSE,
     borrowableInIsolation |-> FALSE]

\* The proxy of a token is created and initialised with the configurator's pool, which
\* has to be the one its implementation was constructed for.
initTokenWithProxy(c, pool, impl, token) ==
    initialize(Created(Checked(c, Slot(c, impl, "pool") = pool), token), token)

executeInitReserve(c, configurator, input) ==
    LET pool == Slot(c, configurator, "pool")
        b == Fresh(c, "BTokenProxy")
        s == Fresh(c, "StableDebtTokenProxy")
        v == Fresh(c, "VariableDebtTokenProxy")
        tokens == initTokenWithProxy(initTokenWithProxy(initTokenWithProxy(
                      c, pool, input.bTokenImpl, b),
                      pool, input.stableDebtTokenImpl, s),
                      pool, input.variableDebtTokenImpl, v)
        announced == Emitted(Emitted(Emitted(tokens,
                         BTokenInitialized(b, input.asset, pool)),
                         STokenInitialized(s, input.asset, pool)),
                         VTokenInitialized(v, input.asset, pool))
        listed == [Checked(announced, input.asset \in c.contracts
                                      /\ <<pool, input.asset>> \notin DOMAIN c.reserves) EXCEPT
                      !.reserves = Written(@, <<pool, input.asset>>,
                                           NewReserveData(b, s, v, input.strategy))]
    IN  Emitted(listed, ReserveInitialized(configurator, input.asset, b, s, v, input.strategy))

\* inputs is a sequence.
initReserves(c, configurator, inputs) ==
    LET init[i \in 0..Len(inputs)] ==
            IF i = 0
            THEN Checked(c, Allowed(c, Slot(c, configurator, "provider"),
                                    {"ASSET_LISTING_ADMIN", "POOL_ADMIN"}, Deployer))
            ELSE executeInitReserve(init[i - 1], configurator, inputs[i])
    IN  init[Len(inputs)]

-------------------------------------------------------------------------------
(* Configuring a reserve: a setter changes one field and announces it.     *)
(* The checks for suppliers and borrowers always pass here.                *)

IsListed(c, configurator, asset) == <<Slot(c, configurator, "pool"), asset>> \in DOMAIN c.reserves

ConfigurationOf(c, configurator, asset) == c.reserves[Slot(c, configurator, "pool"), asset]

\* changed is the new reserve data.
Reconfigured(c, configurator, sender, asset, roles, changed) ==
    IF IsListed(c, configurator, asset) /\ Allowed(c, Slot(c, configurator, "provider"), roles, sender)
    THEN [c EXCEPT !.reserves = Written(@, <<Slot(c, configurator, "pool"), asset>>, changed)]
    ELSE Checked(c, FALSE)

RiskOrPoolAdmins == {"RISK_ADMIN", "POOL_ADMIN"}

EmergencyOrPoolAdmin == {"EMERGENCY_ADMIN", "POOL_ADMIN"}

\* One field, by a risk admin or the pool admin.
Field(c, configurator, sender, asset, field, value) ==
    Reconfigured(c, configurator, sender, asset, RiskOrPoolAdmins,
                 [ConfigurationOf(c, configurator, asset) EXCEPT ![field] = value])

configureReserveAsCollateral(c, configurator, sender, asset, ltv, threshold, bonus) ==
    LET valid == /\ ltv <= threshold
                 /\ IF threshold # 0
                    THEN /\ bonus > PERCENTAGE_FACTOR
                         /\ PercentMul(threshold, bonus) <= PERCENTAGE_FACTOR
                    ELSE bonus = 0
    IN  Emitted(Reconfigured(Checked(c, valid), configurator, sender, asset, RiskOrPoolAdmins,
                    [ConfigurationOf(c, configurator, asset) EXCEPT
                        !.baseLTVasCollateral = ltv, !.reserveLiquidationThreshold = threshold,
                        !.reserveLiquidationBonus = bonus]),
                CollateralConfigurationChanged(configurator, asset, ltv, threshold, bonus))

setReserveBorrowing(c, configurator, sender, asset, enabled) ==
    LET unused == IsListed(c, configurator, asset)
                  /\ ~ConfigurationOf(c, configurator, asset).stableBorrowRateEnabled
    IN  Emitted(Field(Checked(c, enabled \/ unused), configurator, sender, asset,
                      "borrowingEnabled", enabled),
                ReserveBorrowing(configurator, asset, enabled))

setReserveStableRateBorrowing(c, configurator, sender, asset, enabled) ==
    LET borrowable == IsListed(c, configurator, asset)
                      /\ ConfigurationOf(c, configurator, asset).borrowingEnabled
    IN  Emitted(Field(Checked(c, ~enabled \/ borrowable), configurator, sender, asset,
                      "stableBorrowRateEnabled", enabled),
                ReserveStableRateBorrowing(configurator, asset, enabled))

\* Its event is not among those the subgraph follows.
setReserveFlashLoaning(c, configurator, sender, asset, enabled) ==
    Field(c, configurator, sender, asset, "flashLoanEnabled", enabled)

setReserveActive(c, configurator, sender, asset, active) ==
    Emitted(Reconfigured(c, configurator, sender, asset, {"POOL_ADMIN"},
                         [ConfigurationOf(c, configurator, asset) EXCEPT !.isActive = active]),
            ReserveActive(configurator, asset, active))

setReserveFreeze(c, configurator, sender, asset, freeze) ==
    Emitted(Field(c, configurator, sender, asset, "isFrozen", freeze),
            ReserveFrozen(configurator, asset, freeze))

setBorrowableInIsolation(c, configurator, sender, asset, borrowable) ==
    Emitted(Field(c, configurator, sender, asset, "borrowableInIsolation", borrowable),
            BorrowableInIsolationChanged(configurator, asset, borrowable))

setReservePause(c, configurator, sender, asset, paused) ==
    Emitted(Reconfigured(c, configurator, sender, asset, EmergencyOrPoolAdmin,
                         [ConfigurationOf(c, configurator, asset) EXCEPT !.isPaused = paused]),
            ReservePaused(configurator, asset, paused))

setReserveFactor(c, configurator, sender, asset, factor) ==
    Emitted(Field(Checked(c, factor <= PERCENTAGE_FACTOR), configurator, sender, asset,
                  "reserveFactor", factor),
            ReserveFactorChanged(configurator, asset, factor))

setDebtCeiling(c, configurator, sender, asset, ceiling) ==
    Emitted(Field(c, configurator, sender, asset, "debtCeiling", ceiling),
            DebtCeilingChanged(configurator, asset, ceiling))

setSiloedBorrowing(c, configurator, sender, asset, siloed) ==
    Emitted(Field(c, configurator, sender, asset, "siloedBorrowing", siloed),
            SiloedBorrowingChanged(configurator, asset, siloed))

setBorrowCap(c, configurator, sender, asset, cap) ==
    Emitted(Field(c, configurator, sender, asset, "borrowCap", cap),
            BorrowCapChanged(configurator, asset, cap))

setSupplyCap(c, configurator, sender, asset, cap) ==
    Emitted(Field(c, configurator, sender, asset, "supplyCap", cap),
            SupplyCapChanged(configurator, asset, cap))

setLiquidationProtocolFee(c, configurator, sender, asset, fee) ==
    Emitted(Field(Checked(c, fee <= PERCENTAGE_FACTOR), configurator, sender, asset,
                  "liquidationProtocolFee", fee),
            LiquidationProtocolFeeChanged(configurator, asset, fee))

setUnbackedMintCap(c, configurator, sender, asset, cap) ==
    Emitted(Field(c, configurator, sender, asset, "unbackedMintCap", cap),
            UnbackedMintCapChanged(configurator, asset, cap))

setReserveInterestRateStrategyAddress(c, configurator, sender, asset, strategy) ==
    Emitted(Field(c, configurator, sender, asset, "reserveInterestRateStrategy", strategy),
            ReserveInterestRateStrategyChanged(configurator, asset, strategy))

\* A category must be more generous than every asset in it, and every asset put in it.
setEModeCategory(c, configurator, sender, category, parameters) ==
    LET pool == Slot(c, configurator, "pool")
        allowed == Allowed(c, Slot(c, configurator, "provider"), RiskOrPoolAdmins, sender)
        valid == /\ parameters.ltv # 0 /\ parameters.liquidationThreshold # 0
                 /\ parameters.ltv <= parameters.liquidationThreshold
                 /\ parameters.liquidationBonus > PERCENTAGE_FACTOR
                 /\ PercentMul(parameters.liquidationThreshold, parameters.liquidationBonus)
                       <= PERCENTAGE_FACTOR
        generous == \A r \in DOMAIN c.reserves :
                        r[1] = pool /\ c.reserves[r].eMode = category =>
                            /\ parameters.ltv > c.reserves[r].baseLTVasCollateral
                            /\ parameters.liquidationThreshold
                                  > c.reserves[r].reserveLiquidationThreshold
    IN  Emitted([Checked(c, allowed /\ valid /\ generous) EXCEPT
                    !.eModes = Written(@, category, parameters)],
                EModeCategoryAdded(configurator, category, parameters.ltv,
                                   parameters.liquidationThreshold, parameters.liquidationBonus,
                                   parameters.oracle, parameters.label))

setAssetEModeCategory(c, configurator, sender, asset, category) ==
    LET generous == /\ category \in DOMAIN c.eModes
                    /\ IsListed(c, configurator, asset)
                    /\ c.eModes[category].liquidationThreshold
                         > ConfigurationOf(c, configurator, asset).reserveLiquidationThreshold
    IN  Emitted(Field(Checked(c, category = 0 \/ generous), configurator, sender, asset,
                      "eMode", category),
                EModeAssetCategoryChanged(configurator, asset, category))

\* Every reserve of the pool, one event each.
setPoolPause(c, configurator, sender, assets, paused) ==
    LET pause[i \in 0..Len(assets)] ==
            IF i = 0
            THEN Checked(c, Allowed(c, Slot(c, configurator, "provider"), {"EMERGENCY_ADMIN"}, sender))
            ELSE setReservePause(pause[i - 1], configurator, sender, assets[i], paused)
    IN  pause[Len(assets)]

OnlyPoolAdmin(c, configurator) ==
    Checked(c, Allowed(c, Slot(c, configurator, "provider"), {"POOL_ADMIN"}, Deployer))

dropReserve(c, configurator, asset) ==
    LET dropped == <<Slot(c, configurator, "pool"), asset>>
    IN  Emitted([OnlyPoolAdmin(c, configurator) EXCEPT
                    !.reserves = [r \in DOMAIN @ \ {dropped} |-> @[r]]],
                ReserveDropped(configurator, asset))

\* The new implementation is of a higher revision.
updateBToken(c, configurator, asset, impl) ==
    Emitted(OnlyPoolAdmin(c, configurator),
            BTokenUpgraded(configurator, asset, ConfigurationOf(c, configurator, asset).bToken, impl))

updateStableDebtToken(c, configurator, asset, impl) ==
    Emitted(OnlyPoolAdmin(c, configurator),
            StableDebtTokenUpgraded(configurator, asset,
                                    ConfigurationOf(c, configurator, asset).sToken, impl))

updateVariableDebtToken(c, configurator, asset, impl) ==
    Emitted(OnlyPoolAdmin(c, configurator),
            VariableDebtTokenUpgraded(configurator, asset,
                                      ConfigurationOf(c, configurator, asset).vToken, impl))

-------------------------------------------------------------------------------
(* Fees of the pool.                                                       *)

updateBridgeProtocolFee(c, configurator, fee) ==
    Emitted([Checked(OnlyPoolAdmin(c, configurator), fee <= PERCENTAGE_FACTOR) EXCEPT
                !.bridgeFee = fee],
            BridgeProtocolFeeUpdated(configurator, fee))

updateFlashloanPremiumTotal(c, configurator, premium) ==
    Emitted([Checked(OnlyPoolAdmin(c, configurator), premium <= PERCENTAGE_FACTOR) EXCEPT
                !.premiumTotal = premium],
            FlashloanPremiumTotalUpdated(configurator, premium))

updateFlashloanPremiumToProtocol(c, configurator, premium) ==
    Emitted([Checked(OnlyPoolAdmin(c, configurator), premium <= PERCENTAGE_FACTOR) EXCEPT
                !.premiumToProtocol = premium],
            FlashloanPremiumToProtocolUpdated(configurator, premium))

-------------------------------------------------------------------------------
(* The helper the scripts configure reserves with: the sender of its calls *)
(* is the helper itself.                                                   *)

ConfigureReserve(c, helper, configurator, p) ==
    LET collateral == configureReserveAsCollateral(c, configurator, helper, p.asset,
                          p.baseLTV, p.liquidationThreshold, p.liquidationBonus)
        borrowing ==
            IF p.borrowingEnabled
            THEN setReserveStableRateBorrowing(
                     setBorrowCap(setReserveBorrowing(collateral, configurator, helper, p.asset, TRUE),
                                  configurator, helper, p.asset, p.borrowCap),
                     configurator, helper, p.asset, p.stableBorrowingEnabled)
            ELSE collateral
    IN  setReserveFactor(
            setSupplyCap(
                setReserveFlashLoaning(borrowing, configurator, helper, p.asset, p.flashLoanEnabled),
                configurator, helper, p.asset, p.supplyCap),
            configurator, helper, p.asset, p.reserveFactor)

configureReserves(c, helper, configurator, params) ==
    LET configure[i \in 0..Len(params)] ==
            IF i = 0 THEN c
                     ELSE ConfigureReserve(configure[i - 1], helper, configurator, params[i])
    IN  configure[Len(params)]
===============================================================================
