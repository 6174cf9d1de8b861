--------------------------- MODULE MarketDeployment ---------------------------
(***************************************************************************)
(* A market being deployed by the scripts, and then governed and indexed.  *)
(*                                                                         *)
(* The deployer runs the script step by step.  A transaction is estimated  *)
(* when it is sent, by a node that may or may not count what is pending;   *)
(* it waits in the mempool and is mined in the order of its nonce; if the  *)
(* script waits for it, it goes on once it is mined.  Records of deployed  *)
(* contracts are files, written after the contract exists.  The process    *)
(* may stop at any point, or a script may throw; the operator then runs    *)
(* everything again.  What was sent is still mined, and a contract whose   *)
(* record was not written is deployed again.                               *)
(*                                                                         *)
(* The subgraph's manifest needs the addresses of a finished deployment,   *)
(* so it is indexed afterwards, from the first block, and along with what  *)
(* the owner changes from then on.  A block holds one transaction.         *)
(***************************************************************************)
EXTENDS DeployScripts, MarketContracts, MappingTokenization, MappingConfigurator,
        MappingAddressProvider, MappingPriceOracle

CONSTANTS
    GovernedSymbols,  \* the assets whose settings the owner changes
    MaxPending,       \* transactions in the mempool before another one is sent
    MaxCrashes,       \* times the process stops
    MaxDisturbances   \* stops and changes by the owner, together

\* What is deployed, and the proxies that the provider and the pool create.
Kinds ==
    {Script[i].on : i \in {j \in DOMAIN Script : Script[j].do = "deploy"}}
        \cup {"POOL", "POOL_CONFIGURATOR", "REWARD_CONTROLLER",
              "BTokenProxy", "StableDebtTokenProxy", "VariableDebtTokenProxy"}

\* Neither account is a contract, and one of them is none at all.
ASSUME AccountsAssumption ==
    /\ Deployer \notin Kinds \X Nat /\ NoAddress \notin Kinds \X Nat
    /\ Deployer # NoAddress

ASSUME BoundsAssumption ==
    /\ GovernedSymbols \subseteq Symbols
    /\ {MaxPending, MaxCrashes, MaxDisturbances} \subseteq Nat

VARIABLES
    market,   \* the contracts, as of the last transaction mined
    records,  \* id -> address, on the disk of the deployer
    process,  \* the deploying process
    mempool,  \* transactions sent, and whether the process waits for each
    blocks,   \* per block not indexed: its events, and what the oracle answers at its end
    index,    \* the store of the subgraph
    crashes,  \* times the process has stopped
    enacted   \* changes by the owner

vars == <<market, records, process, mempool, blocks, index, crashes, enacted>>

-------------------------------------------------------------------------------
(* Looking contracts up.                                                   *)

Recorded(id) == IF id \in DOMAIN records THEN records[id] ELSE NoAddress

provider == Recorded("PoolAddressesProvider")

oracle == Recorded("ProtocolOracle")

Component(id) == Slot(market, provider, id)

configurator == Component("POOL_CONFIGURATOR")

Resolve(name) ==
    CASE name = "" -> NoAddress
      [] name = "deployer" -> Deployer
      [] name \in {"POOL", "POOL_CONFIGURATOR", "ACL_MANAGER", "REWARD_CONTROLLER"} -> Component(name)
      [] OTHER -> Recorded(name)

Reserve(symbol) == <<Component("POOL"), Recorded(symbol)>>

Listed(symbol) == Reserve(symbol) \in DOMAIN market.reserves

\* As if what is listed were taken as configured.
IsActiveReserve(symbol) == Listed(symbol)

\* getReserveConfigurationData: usageAsCollateralEnabled.
IsCollateral(symbol) ==
    Listed(symbol) /\ market.reserves[Reserve(symbol)].reserveLiquidationThreshold # 0

-------------------------------------------------------------------------------
(* What script 10 plans.                                                   *)

InitInput(symbol) ==
    LET config == ReservesConfig[symbol]
    IN  [asset |-> Recorded(symbol), bTokenImpl |-> Recorded(config.bTokenImpl),
         stableDebtTokenImpl |-> Recorded("StableDebtToken"),
         variableDebtTokenImpl |-> Recorded("VariableDebtToken"),
         strategy |-> Recorded(config.strategy)]

ConfigureInput(symbol) ==
    LET config == ReservesConfig[symbol]
    IN  [asset |-> Recorded(symbol), baseLTV |-> config.baseLTVAsCollateral,
         liquidationThreshold |-> config.liquidationThreshold,
         liquidationBonus |-> config.liquidationBonus, reserveFactor |-> config.reserveFactor,
         borrowCap |-> config.borrowCap, supplyCap |-> config.supplyCap,
         stableBorrowingEnabled |-> config.stableBorrowRateEnabled,
         borrowingEnabled |-> config.borrowingEnabled,
         flashLoanEnabled |-> config.flashLoanEnabled]

\* The symbols of ReservesConfig, in order, that are not yet done.
InitInputs ==
    LET left == Among({s \in Symbols : ~Listed(s)})
    IN  [i \in DOMAIN left |-> InitInput(left[i])]

ConfigureInputs ==
    LET left == Among({s \in Symbols : ~IsCollateral(s)})
    IN  [i \in DOMAIN left |-> ConfigureInput(left[i])]

initChunks == 3

enableChunks == 20

-------------------------------------------------------------------------------
(* Transactions.                                                           *)

TransactionOf(s) ==
    [call |-> s.call,
     on |-> IF s.call = "create" THEN s.on ELSE Resolve(s.on),
     with |->
        CASE s.call = "create" -> provider
          [] s.call = "initReserves" -> Chunk(process.todo, initChunks)
          [] s.call = "configureReserves" ->
               [configurator |-> Resolve(s.with), params |-> Chunk(process.todo, enableChunks)]
          [] s.call = "setAssetSources" ->
               [assets |-> [i \in DOMAIN ReserveSymbols |-> Recorded(ReserveSymbols[i])],
                sources |-> [i \in DOMAIN ReserveSymbols |->
                                Recorded(AggregatorOf(ReserveSymbols[i]))]]
          [] OTHER -> Resolve(s.with)]

\* The contracts after a transaction, or reverted.
Executed(c, tx) ==
    CASE tx.call = "create" -> Constructed(c, tx.on, tx.with)
      [] tx.call = "initialize" -> initialize(c, tx.on)
      [] tx.call = "registerAddressesProvider" -> registerAddressesProvider(c, tx.on, tx.with)
      [] tx.call = "setPoolDataProvider" -> setPoolDataProvider(c, tx.on, tx.with)
      [] tx.call = "setACLAdmin" -> setACLAdmin(c, tx.on, tx.with)
      [] tx.call = "setACLManager" -> setACLManager(c, tx.on, tx.with)
      [] tx.call = "addPoolAdmin" -> grantRole(c, tx.on, "POOL_ADMIN", tx.with)
      [] tx.call = "addEmergencyAdmin" -> grantRole(c, tx.on, "EMERGENCY_ADMIN", tx.with)
      [] tx.call = "addRiskAdmin" -> grantRole(c, tx.on, "RISK_ADMIN", tx.with)
      [] tx.call = "removeRiskAdmin" -> revokeRole(c, tx.on, "RISK_ADMIN", tx.with)
      [] tx.call = "setPriceOracle" -> setPriceOracle(c, tx.on, tx.with)
      [] tx.call = "setPoolImpl" -> setPoolImpl(c, tx.on, tx.with)
      [] tx.call = "setPoolConfiguratorImpl" -> setPoolConfiguratorImpl(c, tx.on, tx.with)
      [] tx.call = "setAddressAsProxy" ->
           setAddressAsProxy(c, tx.on, "REWARD_CONTROLLER", tx.with)
      [] tx.call = "setRewardsController" -> SetSlot(c, tx.on, "REWARD_CONTROLLER", tx.with)
      [] tx.call = "updateFlashloanPremiumTotal" ->
           updateFlashloanPremiumTotal(c, tx.on, FlashLoanPremiums.total)
      [] tx.call = "updateFlashloanPremiumToProtocol" ->
           updateFlashloanPremiumToProtocol(c, tx.on, FlashLoanPremiums.protocol)
      [] tx.call = "initReserves" -> initReserves(c, tx.on, tx.with)
      [] tx.call = "configureReserves" ->
           configureReserves(c, tx.on, tx.with.configurator, tx.with.params)
      [] tx.call = "setAssetSources" -> setAssetSources(c, tx.on, tx.with.assets, tx.with.sources)

\* The contracts once a transaction is mined, and once all of the mempool is.
Effect(c, tx) == IF Executed(c, tx).reverted THEN c ELSE Executed(c, tx)

Pending ==
    LET after[i \in 0..Len(mempool)] ==
            IF i = 0 THEN market ELSE Effect(after[i - 1], mempool[i].tx)
    IN  after[Len(mempool)]

-------------------------------------------------------------------------------
(* The deploying process.                                                  *)

Start == [pc |-> 1, phase |-> "ready", receipt |-> NoAddress, todo |-> <<>>, configuring |-> FALSE]

step == Script[process.pc]

Ready(do) == process.phase = "ready" /\ step.do \in do

Sends == {"deploy", "invoke", "tryInvoke", "send", "trySend"}

\* As if only deployments were waited for, and what is tried.
AwaitedNoCall(s) == s.do \in {"deploy", "tryInvoke"}

Awaited(s) == s.do \in {"deploy", "invoke", "tryInvoke"}

Tolerant(s) == s.do \in {"tryInvoke", "trySend"}

\* The process goes on with the next step.
Advanced(p) ==
    [p EXCEPT !.pc = @ + 1, !.phase = IF p.pc = Len(Script) THEN "finished" ELSE "ready",
              !.receipt = NoAddress]

Failed == [Start EXCEPT !.phase = "failed"]

Continue(condition) == process' = IF condition THEN Advanced(process) ELSE Failed

\* As if nothing were recognised as deployed before.
NeverDeployed(s) == FALSE

\* hardhat-deploy keeps what a record names.
AlreadyDeployed(s) == s.ids \subseteq DOMAIN records

\* As if the registry were not asked.
NeverRegistered(s) == FALSE

IsKnown(s) == IsRegistered(market, Resolve(s.on), provider)

IsSet(id) == Component(id) # NoAddress

\* As if the role were taken back only while there is something left to configure.
LeftToConfigure(s) == process.todo # <<>>

ToConfigure(s) == process.configuring

\* The conditions of the scripts under which a call is not made.
AlreadyDone(s) ==
    CASE s.call = "create" -> AlreadyDeployed(s)
      [] s.call = "registerAddressesProvider" -> IsKnown(s)
      [] s.call = "setPoolDataProvider" -> IsSet("DATA_PROVIDER")
      [] s.call = "setACLAdmin" -> IsSet("ACL_ADMIN")
      [] s.call = "setACLManager" -> IsSet("ACL_MANAGER")
      [] s.call = "addPoolAdmin" -> HasRole(market, Resolve(s.on), "POOL_ADMIN", Deployer)
      [] s.call = "addEmergencyAdmin" ->
           HasRole(market, Resolve(s.on), "EMERGENCY_ADMIN", Deployer)
      [] s.call = "setPriceOracle" -> IsSet("PRICE_ORACLE")
      [] s.call = "setPoolImpl" -> IsSet("POOL")
      [] s.call = "setPoolConfiguratorImpl" -> IsSet("POOL_CONFIGURATOR")
      [] s.call = "setAddressAsProxy" -> IsSet("REWARD_CONTROLLER")
      [] s.call = "setRewardsController" ->
           Slot(market, Resolve(s.on), "REWARD_CONTROLLER") # NoAddress
      [] s.call = "updateFlashloanPremiumTotal" -> market.premiumTotal # 0
      [] s.call = "updateFlashloanPremiumToProtocol" -> market.premiumToProtocol # 0
      [] s.call \in {"initReserves", "configureReserves"} -> process.todo = <<>>
      [] s.call \in {"addRiskAdmin", "removeRiskAdmin"} -> ~ToConfigure(s)
      [] OTHER -> FALSE

Skip ==
    /\ Ready(Sends) /\ AlreadyDone(step)
    /\ process' = Advanced(process)
    /\ UNCHANGED <<market, records, mempool, blocks, index, crashes, enacted>>

\* The node estimates a transaction on the last block or on what is pending.
SendTransaction ==
    /\ Ready(Sends) /\ ~AlreadyDone(step)
    /\ Len(mempool) < MaxPending
    /\ \E view \in {market, Pending} : ~Executed(view, TransactionOf(step)).reverted
    /\ mempool' = Append(mempool, [tx |-> TransactionOf(step), awaited |-> Awaited(step)])
    /\ process' = IF Awaited(step) THEN [process EXCEPT !.phase = "waiting"] ELSE Advanced(process)
    /\ UNCHANGED <<market, records, blocks, index, crashes, enacted>>

EstimationFails ==
    /\ Ready(Sends) /\ ~AlreadyDone(step)
    /\ \E view \in {market, Pending} : Executed(view, TransactionOf(step)).reverted
    /\ Continue(Tolerant(step))
    /\ UNCHANGED <<market, records, mempool, blocks, index, crashes, enacted>>

\* The record of a step names this address.
Saved(address) ==
    [id \in DOMAIN records \cup step.ids |-> IF id \in step.ids THEN address ELSE records[id]]

\* The transaction is mined: a new contract is recorded; the calls that take a chunk of
\* what is planned are repeated for the rest.
Wake ==
    LET size == IF step.call = "initReserves" THEN initChunks ELSE enableChunks
        rest == AfterChunk(process.todo, size)
    IN  /\ process.phase = "mined"
        /\ records' = IF step.do = "deploy" THEN Saved(process.receipt) ELSE records
        /\ process' = IF step.call \in {"initReserves", "configureReserves"}
                      THEN [process EXCEPT !.phase = "ready", !.todo = rest]
                      ELSE Advanced(process)
        /\ UNCHANGED <<market, mempool, blocks, index, crashes, enacted>>

WakeReverted ==
    /\ process.phase = "reverted"
    /\ Continue(Tolerant(step))
    /\ UNCHANGED <<market, records, mempool, blocks, index, crashes, enacted>>

\* Steps that send nothing.
LookUp ==
    /\ Ready({"get", "check"})
    /\ Continue(IF step.do = "get"
                THEN step.ids \subseteq DOMAIN records
                ELSE \A role \in {"DEFAULT_ADMIN", "POOL_ADMIN", "EMERGENCY_ADMIN"} :
                        HasRole(market, Resolve(step.on), role, Deployer))
    /\ UNCHANGED <<market, records, mempool, blocks, index, crashes, enacted>>

SaveProxy ==
    /\ Ready({"save"})
    /\ records' = Saved(Component(step.on))
    /\ process' = Advanced(process)
    /\ UNCHANGED <<market, mempool, blocks, index, crashes, enacted>>

Plan ==
    /\ Ready({"planListing", "planConfiguration"})
    /\ LET todo == IF step.do = "planListing" THEN InitInputs ELSE ConfigureInputs
       IN  process' = [Advanced(process) EXCEPT
                          !.todo = todo,
                          !.configuring = step.do = "planConfiguration" /\ todo # <<>>]
    /\ UNCHANGED <<market, records, mempool, blocks, index, crashes, enacted>>

Deploying ==
    Skip \/ SendTransaction \/ EstimationFails \/ Wake \/ WakeReverted \/ LookUp \/ SaveProxy \/ Plan

-------------------------------------------------------------------------------
(* Crashes, and running the scripts again.                                 *)

Crash ==
    /\ process.phase \notin {"failed", "finished"}
    /\ crashes < MaxCrashes /\ crashes + enacted < MaxDisturbances
    /\ crashes' = crashes + 1
    /\ process' = Failed
    /\ mempool' = [i \in DOMAIN mempool |-> [mempool[i] EXCEPT !.awaited = FALSE]]
    /\ UNCHANGED <<market, records, blocks, index, enacted>>

Rerun ==
    /\ process.phase = "failed"
    /\ process' = Start
    /\ UNCHANGED <<market, records, mempool, blocks, index, crashes, enacted>>

-------------------------------------------------------------------------------
(* Blocks.                                                                 *)

Answer(price) == IF price = NoAnswer THEN NotSet ELSE price

PricedAssets == {NoAddress} \cup {Recorded(s) : s \in Symbols}

\* The block of a transaction that leads to c; blocks without events do not matter.
Sealed(c) ==
    IF c.log = <<>> THEN blocks
    ELSE Append(blocks,
            [log |-> c.log,
             answers |-> [price |-> [a \in PricedAssets |-> Answer(getAssetPrice(c, oracle, a))],
                          fallbackPrice |-> Answer(getFallbackPrice(c, oracle))]])

Mine ==
    LET head == Head(mempool)
        next == Executed(market, head.tx)
    IN  /\ mempool # <<>>
        /\ mempool' = Tail(mempool)
        /\ market' = IF next.reverted THEN market ELSE [next EXCEPT !.log = <<>>]
        /\ blocks' = IF next.reverted THEN blocks ELSE Sealed(next)
        /\ process' =
             IF ~head.awaited THEN process
             ELSE IF next.reverted THEN [process EXCEPT !.phase = "reverted"]
             ELSE [process EXCEPT !.phase = "mined",
                                  !.receipt = IF head.tx.call = "create"
                                              THEN Fresh(market, head.tx.on) ELSE NoAddress]
        /\ UNCHANGED <<records, index, crashes, enacted>>

-------------------------------------------------------------------------------
(* The subgraph.                                                           *)

\* A contract's events go to the handlers of its data source; an event no data source
\* of the manifest names goes to none.
Handle(ix, e, answers) ==
    CASE e.name = "AddressesProviderRegistered" -> handleAddressesProviderRegistered(ix, e)
      [] e.name = "AddressesProviderUnregistered" -> handleAddressesProviderUnregistered(ix, e)
      [] e.name = "ProxyCreated" -> handleProxyCreated(ix, e)
      [] e.name = "PriceOracleUpdated" -> handlePriceOracleUpdated(ix, e)
      [] e.name = "PoolUpdated" -> handlePoolUpdated(ix, e)
      [] e.name = "PoolConfiguratorUpdated" -> handlePoolConfiguratorUpdated(ix, e)
      [] e.name = "PoolDataProviderUpdated" -> handlePoolDataProviderUpdated(ix, e)
      [] e.name = "AssetSourceUpdated" -> handleAssetSourceUpdated(ix, e, answers)
      [] e.name = "BaseCurrencySet" -> handleBaseCurrencySet(ix, e)
      [] e.name = "FallbackOracleUpdated" -> handleFallbackOracleUpdated(ix, e, answers)
      [] e.name = "AssetPriceUpdated" -> handleAssetPriceUpdated(ix, e)
      [] e.name = "EthPriceUpdated" -> handleEthPriceUpdated(ix, e)
      [] e.name = "ReserveInitialized" -> handleReserveInitialized(ix, e)
      [] e.name = "ReserveInterestRateStrategyChanged" ->
           handleReserveInterestRateStrategyChanged(ix, e)
      [] e.name = "CollateralConfigurationChanged" -> handleCollateralConfigurationChanged(ix, e)
      [] e.name = "ReserveBorrowing" -> handleReserveBorrowing(ix, e)
      [] e.name = "ReserveStableRateBorrowing" -> handleReserveStableRateBorrowing(ix, e)
      [] e.name = "ReserveActive" -> handleReserveActive(ix, e)
      [] e.name = "ReserveFrozen" -> handleReserveFrozen(ix, e)
      [] e.name = "ReservePaused" -> handleReservePaused(ix, e)
      [] e.name = "ReserveDropped" -> handleReserveDropped(ix, e)
      [] e.name = "SiloedBorrowingChanged" -> handleSiloedBorrowingChanged(ix, e)
      [] e.name = "BorrowableInIsolationChanged" -> handleBorrowableInIsolationChanged(ix, e)
      [] e.name = "ReserveFactorChanged" -> handleReserveFactorChanged(ix, e)
      [] e.name = "BorrowCapChanged" -> handleBorrowCapChanged(ix, e)
      [] e.name = "SupplyCapChanged" -> handleSupplyCapChanged(ix, e)
      [] e.name = "UnbackedMintCapChanged" -> handleUnbackedMintCapChanged(ix, e)
      [] e.name = "LiquidationProtocolFeeChanged" -> handleLiquidationProtocolFeeChanged(ix, e)
      [] e.name = "DebtCeilingChanged" -> handleDebtCeilingChanged(ix, e)
      [] e.name = "EModeAssetCategoryChanged" -> handleEModeAssetCategoryChanged(ix, e)
      [] e.name = "EModeCategoryAdded" -> handleEModeCategoryAdded(ix, e)
      [] e.name = "BTokenUpgraded" -> handleBTokenUpgraded(ix, e)
      [] e.name = "StableDebtTokenUpgraded" -> handleStableDebtTokenUpgraded(ix, e)
      [] e.name = "VariableDebtTokenUpgraded" -> handleVariableDebtTokenUpgraded(ix, e)
      [] e.name = "BridgeProtocolFeeUpdated" -> handleBridgeProtocolFeeUpdated(ix, e)
      [] e.name = "FlashloanPremiumTotalUpdated" -> handleFlashloanPremiumTotalUpdated(ix, e)
      [] e.name = "FlashloanPremiumToProtocolUpdated" ->
           handleFlashloanPremiumToProtocolUpdated(ix, e)
      [] e.name = "BTokenInitialized" -> handleBTokenInitialized(ix, e)
      [] e.name = "STokenInitialized" -> handleSTokenInitialized(ix, e)
      [] e.name = "VTokenInitialized" -> handleVTokenInitialized(ix, e)

\* A handler that throws stops everything that follows.
Delivered(ix, e, answers) == IF ix.halted THEN ix ELSE Handle(ix, e, answers)

\* The events of a block from the data sources not done yet, in order.
Pass(pass, block) ==
    LET sources == pass.ix.sources \ pass.done
        heard == SelectSeq(block.log, LAMBDA e : \E s \in sources : s[2] = e.address)
        after[i \in 0..Len(heard)] ==
            IF i = 0 THEN pass.ix ELSE Delivered(after[i - 1], heard[i], block.answers)
    IN  [done |-> pass.ix.sources, ix |-> after[Len(heard)]]

\* The data sources a block creates are given its events too, once those it had before
\* are done: a provider may create a configurator, which lists tokens.
Indexed(ix, block) == Pass(Pass(Pass([done |-> {}, ix |-> ix], block), block), block).ix

\* The manifest is written for the deployed registry and oracle.
StartIndexing ==
    /\ process.phase = "finished" /\ index.sources = {}
    /\ index' = EmptyIndex({<<"PoolAddressesProviderRegistry",
                              Recorded("PoolAddressesProviderRegistry")>>,
                            <<"ProtocolOracle", oracle>>})
    /\ UNCHANGED <<market, records, process, mempool, blocks, crashes, enacted>>

IndexBlock ==
    LET next == Indexed(index, Head(blocks))
    IN  /\ index.sources # {} /\ ~index.halted /\ blocks # <<>>
        /\ index' = IF next.halted THEN Halt(index) ELSE next
        /\ blocks' = IF next.halted THEN blocks ELSE Tail(blocks)
        /\ UNCHANGED <<market, records, process, mempool, crashes, enacted>>

CaughtUp == index.sources # {} /\ blocks = <<>> /\ ~index.halted

-------------------------------------------------------------------------------
(* Changes by the owner, one transaction each.                             *)

Enact(next) ==
    /\ CaughtUp /\ crashes + enacted < MaxDisturbances
    /\ ~next.reverted
    /\ market' = [next EXCEPT !.log = <<>>]
    /\ blocks' = Sealed(next)
    /\ enacted' = enacted + 1
    /\ UNCHANGED <<records, process, mempool, index, crashes>>

\* What counts as collateral is made stricter, or is none from now on.
GovernCollateral(a, data) ==
    \/ data.reserveLiquidationThreshold > 0
       /\ \/ Enact(configureReserveAsCollateral(market, configurator, Deployer, a, 0, 0, 0))
          \/ Enact(configureReserveAsCollateral(market, configurator, Deployer, a,
                       data.baseLTVasCollateral - 1, data.reserveLiquidationThreshold, 10100))
    \/ Enact(setDebtCeiling(market, configurator, Deployer, a, 5))
    \/ Enact(setLiquidationProtocolFee(market, configurator, Deployer, a, 1000))
    \/ Enact(setEModeCategory(market, configurator, Deployer, 1,
                 [ltv |-> 9800, liquidationThreshold |-> 9850, liquidationBonus |-> 10100,
                  oracle |-> NoAddress, label |-> "Stable-EMode"]))
    \/ Enact(setAssetEModeCategory(market, configurator, Deployer, a, 1))

GovernBorrowing(a, data) ==
    \/ Enact(setReserveBorrowing(market, configurator, Deployer, a, ~data.borrowingEnabled))
    \/ Enact(setReserveStableRateBorrowing(market, configurator, Deployer, a,
                                           ~data.stableBorrowRateEnabled))
    \/ Enact(setSiloedBorrowing(market, configurator, Deployer, a, ~data.siloedBorrowing))
    \/ Enact(setBorrowableInIsolation(market, configurator, Deployer, a,
                                      ~data.borrowableInIsolation))
    \/ Enact(setBorrowCap(market, configurator, Deployer, a, 1))
    \/ Enact(setReserveInterestRateStrategyAddress(market, configurator, Deployer, a,
                                                   Recorded("rateStrategyStableTwo")))

GovernReserve(a, data) ==
    \/ Enact(setReserveFreeze(market, configurator, Deployer, a, ~data.isFrozen))
    \/ Enact(setReservePause(market, configurator, Deployer, a, ~data.isPaused))
    \/ Enact(setReserveActive(market, configurator, Deployer, a, ~data.isActive))
    \/ Enact(setReserveFlashLoaning(market, configurator, Deployer, a, ~data.flashLoanEnabled))
    \/ Enact(setSupplyCap(market, configurator, Deployer, a, 2))
    \/ Enact(setUnbackedMintCap(market, configurator, Deployer, a, 3))
    \/ Enact(setReserveFactor(market, configurator, Deployer, a, 500))
    \/ Enact(dropReserve(market, configurator, a))
    \/ Enact(updateBToken(market, configurator, a, <<"BToken", 2>>))
    \/ Enact(updateStableDebtToken(market, configurator, a, <<"StableDebtToken", 2>>))
    \/ Enact(updateVariableDebtToken(market, configurator, a, <<"VariableDebtToken", 2>>))

\* Whatever is not about one reserve.  The new fallback may be an oracle, no oracle, or
\* none at all.
GovernMarket ==
    LET registry == Recorded("PoolAddressesProviderRegistry")
        fallback == Slot(market, oracle, "fallback")
        listed == Among({s \in Symbols : Listed(s)})
    IN  \/ Enact(updateBridgeProtocolFee(market, configurator, 10))
        \/ Enact(updateFlashloanPremiumTotal(market, configurator, 5))
        \/ Enact(updateFlashloanPremiumToProtocol(market, configurator, 3))
        \/ Enact(setPoolPause(market, configurator, Deployer,
                              [i \in DOMAIN listed |-> Recorded(listed[i])], TRUE))
        \/ Enact(unregisterAddressesProvider(market, registry, provider))
        \/ \E new \in {<<"PriceOracle", 1>>, configurator, NoAddress} :
              Enact(setFallbackOracle(market, oracle, new))
        \/ fallback # NoAddress
           /\ \/ Enact(setAssetPrice(market, fallback, Recorded(ReserveSymbols[1]), 1))
              \/ Enact(setEthUsdPrice(market, fallback, 1))

Govern ==
    \/ \E symbol \in GovernedSymbols :
          LET a == Recorded(symbol)
              data == market.reserves[Reserve(symbol)]
          IN  Listed(symbol)
              /\ (GovernCollateral(a, data) \/ GovernBorrowing(a, data) \/ GovernReserve(a, data))
    \/ GovernMarket

-------------------------------------------------------------------------------
(* Specification.                                                          *)

Init ==
    /\ market = NoContracts /\ records = Nothing /\ process = Start
    /\ mempool = <<>> /\ blocks = <<>> /\ index = EmptyIndex({})
    /\ crashes = 0 /\ enacted = 0

Next ==
    \/ Deploying \/ Crash \/ Rerun \/ Mine
    \/ StartIndexing \/ IndexBlock \/ Govern

\* What is sent is mined in the end, scripts that failed are run again, and a process that
\* can take a step does not rest.  Fairness is stated on what the steps do to one variable,
\* since no other step does the same to it.
Mined == mempool # <<>> /\ mempool' = Tail(mempool)

Restarted == process.phase = "failed" /\ process' = Start

Awake ==
    \/ process.phase \in {"mined", "reverted"}
    \/ process.phase = "ready" /\ Len(mempool) < MaxPending

Fairness ==
    /\ WF_mempool(Mined)
    /\ WF_process(Restarted)
    /\ []<>~Awake \/ []<><<TRUE>>_process

Spec == Init /\ [][Next]_vars /\ Fairness

Finished == process.phase = "finished"

-------------------------------------------------------------------------------
(* What deployment and index promise.                                      *)

\* Every variable has its shape; what is waited for is in the mempool, and only that.
TypeOK ==
    /\ process.pc \in 1..Len(Script) + 1
    /\ process.phase \in {"ready", "waiting", "mined", "reverted", "failed", "finished"}
    /\ (process.phase = "waiting") <=> (\E i \in DOMAIN mempool : mempool[i].awaited)
    /\ \A i \in DOMAIN mempool : mempool[i].awaited => i = Len(mempool)
    /\ Len(mempool) <= MaxPending
    /\ {records[id] : id \in DOMAIN records} \subseteq market.contracts
    /\ ~market.reverted /\ market.log = <<>>
    /\ DOMAIN market.reserves \subseteq market.contracts \X market.contracts
    /\ crashes + enacted <= MaxDisturbances

\* Once the scripts are through, however often they were run again, every record names
\* the contract that is part of the market: nothing the provider, the registry, the pool
\* or the emission manager uses is a leftover of an earlier run that no record names.
RecordsTruthful ==
    Finished =>
        /\ \A pair \in {<<"Pool-Proxy", "POOL">>, <<"PoolConfigurator-Proxy", "POOL_CONFIGURATOR">>,
                        <<"ACLManager", "ACL_MANAGER">>, <<"ProtocolOracle", "PRICE_ORACLE">>,
                        <<"PoolDataProvider", "DATA_PROVIDER">>,
                        <<"RewardsControllerProxy", "REWARD_CONTROLLER">>} :
              Recorded(pair[1]) # NoAddress /\ Recorded(pair[1]) = Component(pair[2])
        /\ Slot(market, Recorded("EmissionManager"), "REWARD_CONTROLLER")
               = Recorded("RewardsControllerProxy")
        /\ Slot(market, configurator, "pool") = Recorded("Pool-Proxy")
        /\ enacted = 0 =>
              /\ IsRegistered(market, Recorded("PoolAddressesProviderRegistry"), provider)
              /\ {r[2] : r \in DOMAIN market.reserves} = {Recorded(s) : s \in Symbols}

\* Once the scripts are through the market is the one configured: every reserve is listed
\* and set as ReservesConfig says, has a price source, and the owner has the roles.
MarketReady ==
    Finished /\ enacted = 0 =>
        /\ \A s \in Symbols :
              LET config == ReservesConfig[s]
                  data == market.reserves[Reserve(s)]
              IN  /\ Listed(s)
                  /\ data.baseLTVasCollateral = config.baseLTVAsCollateral
                  /\ data.reserveLiquidationThreshold = config.liquidationThreshold
                  /\ data.reserveLiquidationBonus = config.liquidationBonus
                  /\ data.borrowingEnabled = config.borrowingEnabled
                  /\ data.stableBorrowRateEnabled = config.stableBorrowRateEnabled
                  /\ data.flashLoanEnabled = config.flashLoanEnabled
                  /\ data.reserveFactor = config.reserveFactor
                  /\ data.borrowCap = config.borrowCap /\ data.supplyCap = config.supplyCap
                  /\ data.reserveInterestRateStrategy = Recorded(config.strategy)
                  /\ getAssetPrice(market, oracle, Recorded(s)) # NoAnswer
        /\ \A role \in {"DEFAULT_ADMIN", "POOL_ADMIN", "EMERGENCY_ADMIN"} :
              HasRole(market, Component("ACL_MANAGER"), role, Deployer)
        /\ market.premiumTotal = FlashLoanPremiums.total
        /\ {Recorded("TreasuryProxy"), Recorded("Treasury-Implementation"),
            Recorded("Pool-Implementation"), Recorded("BToken"), Component("POOL")}
               \subseteq market.initialised

RiskAdmins == {r \in market.roles : r[2] = "RISK_ADMIN"}

\* A deployment that was never killed takes the helper's role back, even if a script threw
\* because the role it had only just asked for was not there yet.
HelperRevoked == Finished /\ crashes = 0 => RiskAdmins = {}

\* "Set bTokenAndRatesDeployer as temporal admin", "Remove ReservesSetupHelper from risk
\* admins": no helper keeps the role once the scripts are through.
HelperIsTemporary == Finished => RiskAdmins = {}

Shown(value, unset) == IF value = NotSet THEN unset ELSE value

\* Once it has caught up, the index shows every setting of every listed reserve and the
\* fees of the pool as the contracts have them.
IndexMirrorsConfiguration ==
    CaughtUp =>
        LET pool == index.pools[provider]
        IN  /\ \A s \in {t \in Symbols : Listed(t)} :
                  LET data == market.reserves[Reserve(s)]
                      entity == index.reserves[Recorded(s), provider]
                  IN  /\ \A field \in {"bToken", "sToken", "vToken", "reserveInterestRateStrategy",
                                       "baseLTVasCollateral", "reserveLiquidationThreshold",
                                       "reserveLiquidationBonus", "reserveFactor", "isActive",
                                       "isFrozen", "isPaused", "borrowingEnabled",
                                       "stableBorrowRateEnabled", "siloedBorrowing"} :
                            entity[field] = data[field]
                      /\ \A field \in {"borrowCap", "supplyCap", "debtCeiling",
                                       "liquidationProtocolFee", "eMode"} :
                            Shown(entity[field], 0) = data[field]
                      /\ Shown(entity.borrowableInIsolation, FALSE) = data.borrowableInIsolation
                      /\ entity.usageAsCollateralEnabled = (data.reserveLiquidationThreshold > 0)
            /\ Shown(pool.flashloanPremiumTotal, 0) = market.premiumTotal
            /\ Shown(pool.flashloanPremiumToProtocol, 0) = market.premiumToProtocol
            /\ Shown(pool.bridgeProtocolFee, 0) = market.bridgeFee

\* Once it has caught up, the index knows the contracts of the market, follows the events
\* of each, and attributes them to its pool.
IndexFollowsMarket ==
    CaughtUp =>
        LET pool == index.pools[provider]
            tokens == UNION {{market.reserves[r].bToken, market.reserves[r].sToken,
                              market.reserves[r].vToken} : r \in DOMAIN market.reserves}
        IN  /\ pool.pool = Component("POOL") /\ pool.poolConfigurator = configurator
            /\ pool.poolDataProviderImpl = Component("DATA_PROVIDER")
            /\ pool.proxyPriceProvider = oracle
            /\ index.priceOracles["1"].proxyPriceProvider = oracle
            /\ ~IsRegistered(market, Recorded("PoolAddressesProviderRegistry"), provider)
                   => ~pool.active
            /\ \A c \in tokens \cup {Component("POOL"), configurator} :
                  /\ c \in {s[2] : s \in index.sources}
                  /\ Has(index.contractToPool, c) /\ index.contractToPool[c] = provider
            /\ tokens \subseteq DOMAIN index.assetPools

\* Nothing an owner does stops the index but activating or deactivating a reserve, whose
\* handler the manifest misnames, and a fallback oracle that does not answer.
IndexHaltsOnlyFor ==
    index.halted =>
        \E i \in DOMAIN Head(blocks).log :
            LET e == Head(blocks).log[i]
            IN  \/ e.name = "ReserveActive"
                \/ /\ e.name = "FallbackOracleUpdated" /\ e.fallbackOracle # NoAddress
                   /\ Head(blocks).answers.fallbackPrice = NotSet

\* Running the scripts again ends in a deployed market: no step fails for good on what an
\* earlier run did.
EventuallyDeployed == <>Finished

Listing ==
    INSTANCE MarketListing WITH
        Assets <- Symbols,
        listed <- {s \in Symbols : Listed(s)},
        configured <- {s \in Symbols : IsCollateral(s)},
        trusted <- RiskAdmins # {}

\* The scripts, crashes and repetitions included, implement the listing of a market.
ListingImplemented == Listing!Spec
===============================================================================
