----------------------- MODULE MarketDeploymentProofs -----------------------
(***************************************************************************)
(* However often the scripts stop and are run again, they only go forward. *)
(*                                                                         *)
(* A record, once written, names the same contract for good; a component   *)
(* of the provider, once set, is the recorded contract; and what a step    *)
(* behind the process has done stays done until the owner takes over.  The *)
(* transactions in the mempool may be of an earlier run: what they were    *)
(* sent for is still right when they are mined.                            *)
(***************************************************************************)
EXTENDS DeploymentStepProofs

-------------------------------------------------------------------------------
(* The records.                                                            *)

IsRecorded(id) == id \in DOMAIN records

ListingRecorded == ListingIds \subseteq DOMAIN records

NamesOK ==
    /\ \A id \in DOMAIN records : records[id] \in market.contracts
    /\ \A s, t \in Symbols \cap DOMAIN records : records[s] = records[t] => s = t

RecordsOK ==
    /\ \A j \in 1..(process.pc - 1) : Script[j].ids \subseteq DOMAIN records
    /\ process.phase \in {"waiting", "mined", "reverted"} /\ step.do = "deploy" =>
           step.ids \cap DOMAIN records = {}
    /\ process.phase = "mined" /\ step.do = "deploy" =>
           /\ IsNew(market, process.receipt)
           /\ \A id \in DOMAIN records : records[id] # process.receipt

-------------------------------------------------------------------------------
(* The components of the provider are what is recorded.                    *)

IsNamed(component, id) ==
    IsSet(component) => IsRecorded(id) /\ Component(component) = records[id]

IsSavedAs(component, id) ==
    IsRecorded(id) => IsSet(component) /\ Component(component) = records[id]

\* What the emission manager calls.
Controller == Slot(market, Recorded("EmissionManager"), "REWARD_CONTROLLER")

ComponentsOK ==
    /\ IsSet("POOL") => Component("POOL") \in market.contracts \cap market.initialised
    /\ IsSet("POOL_CONFIGURATOR") =>
           /\ IsSet("POOL")
           /\ Slot(market, configurator, "pool") = Component("POOL")
    /\ IsSet("REWARD_CONTROLLER") => Component("REWARD_CONTROLLER") \in market.contracts
    /\ IsSet("ACL_ADMIN") => Component("ACL_ADMIN") = Deployer
    /\ IsNamed("DATA_PROVIDER", "PoolDataProvider") /\ IsNamed("ACL_MANAGER", "ACLManager")
    /\ IsNamed("PRICE_ORACLE", "ProtocolOracle")
    /\ IsSavedAs("POOL", "Pool-Proxy") /\ IsSavedAs("POOL_CONFIGURATOR", "PoolConfigurator-Proxy")
    /\ IsSavedAs("REWARD_CONTROLLER", "RewardsControllerProxy")
    /\ Controller # NoAddress => Controller = Component("REWARD_CONTROLLER")

-------------------------------------------------------------------------------
(* The reserves.                                                           *)

AllListed == \A s \in Symbols : Listed(s)

AllConfigured == \A s \in Symbols : IsCollateral(s)

Priced(s) == getSourceOfAsset(market, oracle, Recorded(s)) # NoAddress

AllPriced == \A s \in Symbols : Priced(s)

\* The reserve of s as initReserves leaves it, and as configureReserves does.
Untouched(s) ==
    \A field \in {"baseLTVasCollateral", "reserveLiquidationThreshold", "reserveLiquidationBonus",
                  "reserveFactor", "borrowCap", "supplyCap", "borrowingEnabled",
                  "stableBorrowRateEnabled", "flashLoanEnabled"} :
        market.reserves[Reserve(s)][field] = Data[field]

AsConfigured(s) ==
    LET config == ReservesConfig[s]
        data == market.reserves[Reserve(s)]
    IN  /\ data.baseLTVasCollateral = config.baseLTVAsCollateral
        /\ data.reserveLiquidationThreshold = config.liquidationThreshold
        /\ data.reserveLiquidationBonus = config.liquidationBonus
        /\ data.borrowingEnabled = config.borrowingEnabled
        /\ data.stableBorrowRateEnabled = config.stableBorrowRateEnabled
        /\ data.flashLoanEnabled = config.flashLoanEnabled
        /\ data.reserveFactor = config.reserveFactor
        /\ data.borrowCap = config.borrowCap /\ data.supplyCap = config.supplyCap

ReservesOK ==
    /\ \A r \in DOMAIN market.reserves : r \in market.contracts \X market.contracts
    /\ enacted = 0 =>
        /\ DOMAIN market.reserves \subseteq {Reserve(s) : s \in Symbols \cap DOMAIN records}
        /\ \A s \in Symbols : Listed(s) =>
              /\ IsRecorded(ReservesConfig[s].strategy)
              /\ market.reserves[Reserve(s)].reserveInterestRateStrategy
                     = records[ReservesConfig[s].strategy]
              /\ Untouched(s) \/ AsConfigured(s)

-------------------------------------------------------------------------------
(* What is in the mempool.                                                 *)

Calls(tx, id) == IsRecorded(id) /\ tx.on = records[id]

Passes(tx, id) == IsRecorded(id) /\ tx.with = records[id]

\* A transaction that was sent by this or by an earlier run.
TransactionOK(tx) ==
    /\ tx.call \in OnProvider \cup Others
    /\ tx.call = "create" => tx.on \in Kinds
    /\ tx.call \in OnProvider => Calls(tx, "PoolAddressesProvider")
    /\ tx.call = "setPoolDataProvider" => Passes(tx, "PoolDataProvider")
    /\ tx.call = "setACLManager" => Passes(tx, "ACLManager")
    /\ tx.call = "setACLAdmin" => tx.with = Deployer
    /\ tx.call = "setPriceOracle" => Passes(tx, "ProtocolOracle")
    /\ tx.call = "setPoolConfiguratorImpl" => IsSet("POOL")
    /\ tx.call = "registerAddressesProvider" => Passes(tx, "PoolAddressesProvider")
    /\ tx.call = "setRewardsController" =>
           /\ Calls(tx, "EmissionManager")
           /\ IsSet("REWARD_CONTROLLER") /\ tx.with = Component("REWARD_CONTROLLER")
    /\ tx.call = "addPoolAdmin" => tx.with = Deployer
    /\ tx.call = "addRiskAdmin" => AllListed
    /\ tx.call = "removeRiskAdmin" => AllListed /\ AllConfigured
    /\ tx.call = "initReserves" =>
           /\ IsSet("POOL_CONFIGURATOR") /\ tx.on = configurator
           /\ ListingRecorded /\ tx.with \in Seq({InitInput(s) : s \in Symbols})
    /\ tx.call = "configureReserves" =>
           /\ Calls(tx, "ReservesSetupHelper") /\ AllListed
           /\ IsSet("POOL_CONFIGURATOR") /\ tx.with.configurator = configurator
           /\ ListingRecorded /\ tx.with.params \in Seq({ConfigureInput(s) : s \in Symbols})
    /\ tx.call = "setAssetSources" =>
           /\ Calls(tx, "ProtocolOracle") /\ ListingRecorded
           /\ \A s \in Symbols : IsRecorded(AggregatorOf(s))
           /\ tx.with = [assets |-> [i \in DOMAIN ReserveSymbols |-> Recorded(ReserveSymbols[i])],
                         sources |-> [i \in DOMAIN ReserveSymbols |->
                                         Recorded(AggregatorOf(ReserveSymbols[i]))]]

IsQueue(q) == q \in Seq({q[i] : i \in DOMAIN q})

Last == mempool[Len(mempool)].tx

\* What the process waits for is what its step sent.
MempoolOK ==
    /\ IsQueue(mempool)
    /\ \A i \in DOMAIN mempool :
           /\ DOMAIN mempool[i] = {"tx", "awaited"} /\ mempool[i].awaited \in BOOLEAN
           /\ TransactionOK(mempool[i].tx)
    /\ (process.phase = "waiting") <=> (\E i \in DOMAIN mempool : mempool[i].awaited)
    /\ \A i \in DOMAIN mempool : mempool[i].awaited => i = Len(mempool)
    /\ Len(mempool) <= MaxPending
    /\ process.phase \in {"mined", "reverted", "finished"} => mempool = <<>>
    /\ process.phase \in {"waiting", "mined", "reverted"} => Awaited(step)
    /\ process.phase = "waiting" =>
           /\ Last.call = step.call
           /\ step.call = "create" => Last.on = step.on
           /\ step.call = "initialize" => Last.on = Resolve(step.on)
           /\ step.call = "registerAddressesProvider" => Last.on = Resolve(step.on)
           /\ step.call = "initReserves" => Last.with = Chunk(process.todo, initChunks)
           /\ step.call = "configureReserves" =>
                  Last.with.params = Chunk(process.todo, enableChunks)

-------------------------------------------------------------------------------
(* What the process is through with is done.                               *)

\* A contract is initialised or will be.
Initialising(a) ==
    \/ a \in market.initialised
    \/ \E i \in DOMAIN mempool : mempool[i].tx.call = "initialize" /\ mempool[i].tx.on = a

IsAdministered ==
    \A role \in {"DEFAULT_ADMIN", "POOL_ADMIN", "EMERGENCY_ADMIN"} :
       HasRole(market, Recorded("ACLManager"), role, Deployer)

Done(s) ==
    CASE s.do = "check" -> IsAdministered
      [] s.call \in OnProvider \cup {"registerAddressesProvider", "setRewardsController",
                                     "updateFlashloanPremiumTotal"} -> AlreadyDone(s)
      [] s.call = "initialize" -> Initialising(Recorded(s.on))
      [] s.call = "initReserves" -> AllListed
      [] s.call = "configureReserves" -> AllConfigured
      [] s.call = "setAssetSources" -> AllPriced
      [] OTHER -> TRUE

\* The owner has no call that undoes it.
IsLasting(s) == s.call \in OnProvider \cup {"setRewardsController"}

InChunks == {"initReserves", "configureReserves"}

DoneOK ==
    /\ \A j \in 1..(process.pc - 1) :
           enacted = 0 \/ IsLasting(Script[j]) => Done(Script[j])
    /\ enacted = 0 =>
        /\ process.phase = "mined" /\ step.call \notin InChunks => Done(step)
        /\ process.phase = "reverted" /\ step.call = "initialize" =>
               Recorded(step.on) \in market.initialised

\* What of the plan is not sent yet, or sent but not mined.
Rest ==
    IF process.phase = "mined"
    THEN AfterChunk(process.todo, IF step.call = "initReserves" THEN initChunks ELSE enableChunks)
    ELSE process.todo

Planned(x) == \E i \in DOMAIN Rest : Rest[i] = x

PlanOK ==
    ~Finished =>
    /\ step.call = "initReserves" =>
          /\ Rest \in Seq({InitInput(s) : s \in Symbols})
          /\ \A s \in Symbols : Listed(s) \/ Planned(InitInput(s))
    /\ step.call \in {"addRiskAdmin", "configureReserves"} =>
          /\ Rest \in Seq({ConfigureInput(s) : s \in Symbols})
          /\ \A s \in Symbols : IsCollateral(s) \/ Planned(ConfigureInput(s))
    /\ step.call \in {"addRiskAdmin", "configureReserves", "removeRiskAdmin"} =>
          process.configuring \/ AllConfigured

ProcessOK ==
    /\ DOMAIN process = DOMAIN Start
    /\ process.pc \in 1..Len(Script) + 1
    /\ process.phase \in {"ready", "waiting", "mined", "reverted", "failed", "finished"}
    /\ Finished <=> process.pc = Len(Script) + 1
    /\ process.phase = "failed" => process = Failed
    /\ enacted \in Nat /\ crashes \in Nat /\ crashes + enacted <= MaxDisturbances
    /\ enacted > 0 \/ index.sources # {} => Finished

AccountsOK ==
    /\ \A r \in market.roles : r[2] = "POOL_ADMIN" => r[3] = Deployer
    /\ market.premiumTotal \in {0, FlashLoanPremiums.total} \/ enacted > 0

\* What is deployed, whatever the process is about to do.
WorldOK ==
    /\ IsContracts(market) /\ ~market.reverted /\ market.log = <<>>
    /\ NamesOK /\ ComponentsOK /\ ReservesOK /\ AccountsOK

IInv ==
    /\ WorldOK
    /\ RecordsOK /\ ProcessOK /\ MempoolOK /\ DoneOK /\ PlanOK

-------------------------------------------------------------------------------
(* What a step of the script may rely on.                                  *)

LEMMA ScriptFacts ==
    /\ Len(Script) \in Nat /\ Len(Script) > 0 /\ DOMAIN Script = 1..Len(Script)
    /\ \A j \in 1..Len(Script) : InOrder(Script, j, {})
    /\ \A j \in 1..Len(Script) : Script[j].do = "deploy" => Script[j].on \in Kinds
    /\ \A s \in Milestones : \E j \in 1..Len(Script) : s = Script[j]
    /\ Script[Len(Script)].call = "setAssetSources"
<1>1. IsSteps(Script) /\ Orderly(Script, {}) /\ Ends(Script) /\ Milestones \subseteq Steps(Script)
  BY ScriptIs DEF IsScript
<1>2. Len(Script) \in Nat /\ DOMAIN Script = 1..Len(Script)
  BY <1>1 DEF IsSteps
<1>3. \A s \in Milestones : \E j \in 1..Len(Script) : s = Script[j]
  BY <1>1 DEF Steps
<1>4. Len(Script) > 0
  <2>1. Check \in Milestones
    BY DEF Milestones
  <2>. QED
    BY <2>1, <1>2, <1>3
<1>5. \A j \in 1..Len(Script) : Script[j].do = "deploy" => Script[j].on \in Kinds
  BY <1>2 DEF Kinds
<1>6. Script[Len(Script)].call = "setAssetSources"
  <2>1. Script[Len(Script)] = Step("invoke", {}, "setAssetSources", "ProtocolOracle", "")
    BY <1>1, Zenon DEF Ends, Final, Invoke
  <2>2. Fits(Script[Len(Script)], "invoke", {}, "setAssetSources", "ProtocolOracle", "")
    BY <2>1, StepFits, Zenon
  <2>. QED
    BY <2>2 DEF Fits
<1>. QED
  BY <1>1, <1>2, <1>3, <1>4, <1>5, <1>6 DEF Orderly

LEMMA PreparedMore ==
    ASSUME NEW s, NEW ids, NEW calls, Prepared(s, ids, calls), NEW more, ids \subseteq more
    PROVE  Prepared(s, more, calls)
BY DEF Prepared

LEMMA PreparedBehind ==
    ASSUME NEW j \in 1..Len(Script), \A i \in 1..(j - 1) : Script[i].ids \subseteq DOMAIN records
    PROVE  /\ WellFormed(Script[j])
           /\ Prepared(Script[j], DOMAIN records, CalledBy(Script, j, {}))
<1>1. InOrder(Script, j, {})
  BY ScriptFacts
<1>2. NamedBy(Script, j, {}) \subseteq DOMAIN records
  BY DEF NamedBy, Named, Before
<1>3. Prepared(Script[j], NamedBy(Script, j, {}), CalledBy(Script, j, {}))
  BY <1>1 DEF InOrder
<1>. QED
  BY <1>1, <1>2, <1>3, PreparedMore DEF InOrder

LEMMA CalledBehind ==
    ASSUME NEW j \in 1..Len(Script), NEW c \in CalledBy(Script, j, {})
    PROVE  \E i \in 1..(j - 1) : i \in 1..Len(Script) /\ Script[i].call = c
<1>1. \E i \in 1..(j - 1) : Script[i].call = c
  BY DEF CalledBy, Called, Before
<1>. QED
  BY <1>1, ScriptFacts

LEMMA FollowsBehind ==
    ASSUME NEW j \in 1..Len(Script), Script[j].call \in Planning
    PROVE  j - 1 \in 1..Len(Script) /\ Follows(Script[j], Script[j - 1])
<1>1. j > 1 /\ Follows(Script[j], Script[j - 1])
  BY ScriptFacts DEF InOrder
<1>. QED
  BY <1>1, ScriptFacts

\* Every step the process is not past was prepared by those it is past.
LEMMA StepsPrepared ==
    ASSUME RecordsOK, ProcessOK, NEW j \in 1..Len(Script), j <= process.pc
    PROVE  /\ WellFormed(Script[j])
           /\ Prepared(Script[j], DOMAIN records, CalledBy(Script, j, {}))
<1>1. \A i \in 1..(j - 1) : i \in 1..(process.pc - 1)
  BY ScriptFacts DEF ProcessOK
<1>2. \A i \in 1..(j - 1) : Script[i].ids \subseteq DOMAIN records
  BY <1>1 DEF RecordsOK
<1>. QED
  BY <1>2, PreparedBehind

LEMMA Deployment ==
    ASSUME ProcessOK, ~Finished
    PROVE  enacted = 0 /\ process.pc \in 1..Len(Script) /\ index.sources = {}
BY ScriptFacts DEF ProcessOK

\* The cases of AlreadyDone, one by one.
LEMMA DoneBefore ==
    ASSUME NEW s
    PROVE  /\ s.call = "create" => (AlreadyDone(s) <=> AlreadyDeployed(s))
           /\ s.call = "registerAddressesProvider" => (AlreadyDone(s) <=> IsKnown(s))
           /\ s.call = "setPoolDataProvider" => (AlreadyDone(s) <=> IsSet("DATA_PROVIDER"))
           /\ s.call = "setACLAdmin" => (AlreadyDone(s) <=> IsSet("ACL_ADMIN"))
           /\ s.call = "setACLManager" => (AlreadyDone(s) <=> IsSet("ACL_MANAGER"))
           /\ s.call = "setPriceOracle" => (AlreadyDone(s) <=> IsSet("PRICE_ORACLE"))
           /\ s.call = "setPoolImpl" => (AlreadyDone(s) <=> IsSet("POOL"))
           /\ s.call = "setPoolConfiguratorImpl" => (AlreadyDone(s) <=> IsSet("POOL_CONFIGURATOR"))
           /\ s.call = "setAddressAsProxy" => (AlreadyDone(s) <=> IsSet("REWARD_CONTROLLER"))
           /\ s.call = "setRewardsController" =>
                 (AlreadyDone(s) <=> Slot(market, Resolve(s.on), "REWARD_CONTROLLER") # NoAddress)
           /\ s.call = "updateFlashloanPremiumTotal" => (AlreadyDone(s) <=> market.premiumTotal # 0)
           /\ s.call \in InChunks => (AlreadyDone(s) <=> process.todo = <<>>)
           /\ s.call \in {"addRiskAdmin", "removeRiskAdmin"} => (AlreadyDone(s) <=> ~process.configuring)
           /\ s.call \in {"initialize", "setAssetSources"} => ~AlreadyDone(s)
<1>1. s.call = "create" => (AlreadyDone(s) <=> AlreadyDeployed(s))
  BY Zenon DEF AlreadyDone
<1>2. s.call = "registerAddressesProvider" => (AlreadyDone(s) <=> IsKnown(s))
  BY Zenon DEF AlreadyDone
<1>3. s.call = "setPoolDataProvider" => (AlreadyDone(s) <=> IsSet("DATA_PROVIDER"))
  BY Zenon DEF AlreadyDone
<1>4. s.call = "setACLAdmin" => (AlreadyDone(s) <=> IsSet("ACL_ADMIN"))
  BY Zenon DEF AlreadyDone
<1>5. s.call = "setACLManager" => (AlreadyDone(s) <=> IsSet("ACL_MANAGER"))
  BY Zenon DEF AlreadyDone
<1>6. s.call = "setPriceOracle" => (AlreadyDone(s) <=> IsSet("PRICE_ORACLE"))
  BY Zenon DEF AlreadyDone
<1>7. s.call = "setPoolImpl" => (AlreadyDone(s) <=> IsSet("POOL"))
  BY Zenon DEF AlreadyDone
<1>8. s.call = "setPoolConfiguratorImpl" => (AlreadyDone(s) <=> IsSet("POOL_CONFIGURATOR"))
  BY Zenon DEF AlreadyDone
<1>9. s.call = "setAddressAsProxy" => (AlreadyDone(s) <=> IsSet("REWARD_CONTROLLER"))
  BY Zenon DEF AlreadyDone
<1>10. s.call = "setRewardsController" =>
          (AlreadyDone(s) <=> Slot(market, Resolve(s.on), "REWARD_CONTROLLER") # NoAddress)
  BY Zenon DEF AlreadyDone
<1>11. s.call = "updateFlashloanPremiumTotal" => (AlreadyDone(s) <=> market.premiumTotal # 0)
  BY Zenon DEF AlreadyDone
<1>12. s.call \in InChunks => (AlreadyDone(s) <=> process.todo = <<>>)
  BY DEF AlreadyDone, InChunks
<1>13. s.call \in {"addRiskAdmin", "removeRiskAdmin"} => (AlreadyDone(s) <=> ~process.configuring)
  BY DEF AlreadyDone, ToConfigure
<1>14. s.call \in {"initialize", "setAssetSources"} => ~AlreadyDone(s)
  BY DEF AlreadyDone
<1>. QED
  BY <1>1, <1>2, <1>3, <1>4, <1>5, <1>6, <1>7, <1>8, <1>9, <1>10, <1>11, <1>12, <1>13, <1>14

\* And those of Done.
LEMMA DoneIs ==
    ASSUME NEW s, WellFormed(s)
    PROVE  /\ s.do = "check" => (Done(s) <=> IsAdministered)
           /\ s.call \in OnProvider \cup {"registerAddressesProvider", "setRewardsController",
                                          "updateFlashloanPremiumTotal"} =>
                 (Done(s) <=> AlreadyDone(s))
           /\ s.call = "initialize" => (Done(s) <=> Initialising(Recorded(s.on)))
           /\ s.call = "initReserves" => (Done(s) <=> AllListed)
           /\ s.call = "configureReserves" => (Done(s) <=> AllConfigured)
           /\ s.call = "setAssetSources" => (Done(s) <=> AllPriced)
           /\ s.do # "check" /\ s.call \notin OnProvider
                 \cup {"registerAddressesProvider", "setRewardsController", "updateFlashloanPremiumTotal",
                       "initialize", "initReserves", "configureReserves", "setAssetSources"} => Done(s)
<1>1. s.do = "check" => s.call = ""
  BY DEF WellFormed, Sends
<1>2. "" \notin OnProvider \cup {"registerAddressesProvider", "setRewardsController",
                                 "updateFlashloanPremiumTotal", "initialize", "initReserves",
                                 "configureReserves", "setAssetSources"}
  BY DEF OnProvider
<1>3. {"initialize", "initReserves", "configureReserves", "setAssetSources"} \cap
         (OnProvider \cup {"registerAddressesProvider", "setRewardsController",
                           "updateFlashloanPremiumTotal"}) = {}
  BY DEF OnProvider
<1>4. s.do = "check" => (Done(s) <=> IsAdministered)
  <2>1. SUFFICES ASSUME s.do = "check" PROVE Done(s) <=> IsAdministered
    OBVIOUS
  <2>2. /\ s.call \notin OnProvider \cup {"registerAddressesProvider", "setRewardsController",
                                          "updateFlashloanPremiumTotal"}
        /\ s.call # "initialize" /\ s.call # "initReserves" /\ s.call # "configureReserves"
        /\ s.call # "setAssetSources"
    BY <2>1, <1>1, <1>2
  <2>. QED
    BY <2>1, <2>2, Zenon DEF Done
<1>5. s.call \in OnProvider \cup {"registerAddressesProvider", "setRewardsController",
                                          "updateFlashloanPremiumTotal"} =>
                 (Done(s) <=> AlreadyDone(s))
  <2>1. SUFFICES ASSUME s.call \in OnProvider \cup {"registerAddressesProvider",
                           "setRewardsController", "updateFlashloanPremiumTotal"}
                 PROVE  Done(s) <=> AlreadyDone(s)
    OBVIOUS
  <2>2. /\ s.do # "check"
        /\ s.call # "initialize" /\ s.call # "initReserves" /\ s.call # "configureReserves"
        /\ s.call # "setAssetSources"
    BY <2>1, <1>1, <1>2, <1>3
  <2>. QED
    BY <2>1, <2>2, Zenon DEF Done
<1>6. s.call = "initialize" => (Done(s) <=> Initialising(Recorded(s.on)))
  BY <1>1, <1>2, <1>3 DEF Done
<1>7. s.call = "initReserves" => (Done(s) <=> AllListed)
  BY <1>1, <1>2, <1>3 DEF Done
<1>8. s.call = "configureReserves" => (Done(s) <=> AllConfigured)
  BY <1>1, <1>2, <1>3 DEF Done
<1>9. s.call = "setAssetSources" => (Done(s) <=> AllPriced)
  BY <1>1, <1>2, <1>3 DEF Done
<1>10. s.do # "check" /\ s.call \notin OnProvider
                 \cup {"registerAddressesProvider", "setRewardsController", "updateFlashloanPremiumTotal",
                       "initialize", "initReserves", "configureReserves", "setAssetSources"} => Done(s)
  BY DEF Done
<1>. QED
  BY <1>4, <1>5, <1>6, <1>7, <1>8, <1>9, <1>10

-------------------------------------------------------------------------------
(* Until the owner takes over, nothing that matters is undone.             *)

Forward ==
    /\ \A id \in DOMAIN records : id \in DOMAIN records' /\ records'[id] = records[id]
    /\ market.contracts \subseteq market'.contracts
    /\ market.initialised \subseteq market'.initialised
    /\ \A id : IsSet(id) => Component(id)' = Component(id)
    /\ Controller # NoAddress => Controller' = Controller
    /\ \A s \in Symbols : /\ Listed(s) => Listed(s)'
                          /\ IsCollateral(s) => IsCollateral(s)'
                          /\ Priced(s) /\ IsRecorded(s) /\ IsRecorded("ProtocolOracle") => Priced(s)'
    /\ \A r \in market.roles : r[2] # "RISK_ADMIN" => r \in market'.roles
    /\ market.registered \subseteq market'.registered
    /\ market.premiumTotal # 0 => market'.premiumTotal # 0
    /\ \A a : Initialising(a) => Initialising(a)'

LEMMA RecordedKept ==
    ASSUME Forward, NEW id, IsRecorded(id)
    PROVE  /\ IsRecorded(id)' /\ records'[id] = records[id]
           /\ Recorded(id) = records[id] /\ Recorded(id)' = records[id]
BY DEF Forward, IsRecorded, Recorded

LEMMA ComponentKept ==
    ASSUME Forward, NEW id, IsSet(id)
    PROVE  IsSet(id)' /\ Component(id)' = Component(id)
BY DEF Forward, IsSet

LEMMA InitInputKept ==
    ASSUME Forward, ListingRecorded
    PROVE  ListingRecorded' /\ \A s \in Symbols : InitInput(s)' = InitInput(s)
<1>1. \A id \in ListingIds : IsRecorded(id)
  BY DEF ListingRecorded, IsRecorded
<1>2. ListingRecorded'
  BY <1>1, RecordedKept DEF ListingRecorded, IsRecorded
<1>3. ASSUME NEW s \in Symbols
      PROVE  InitInput(s)' = InitInput(s)
  <2>1. /\ s \in ListingIds /\ ReservesConfig[s].strategy \in ListingIds
        /\ "StableDebtToken" \in ListingIds /\ "VariableDebtToken" \in ListingIds
        /\ "BToken" \in ListingIds
    BY DEF ListingIds
  <2>2. ReservesConfig[s].bTokenImpl = "BToken"
    BY BTokenEverywhere
  <2>3. \A id \in ListingIds : Recorded(id)' = Recorded(id)
    BY <1>1, RecordedKept
  <2>4. /\ Recorded(s)' = Recorded(s) /\ Recorded("BToken")' = Recorded("BToken")
        /\ Recorded("StableDebtToken")' = Recorded("StableDebtToken")
        /\ Recorded("VariableDebtToken")' = Recorded("VariableDebtToken")
        /\ Recorded(ReservesConfig[s].strategy)' = Recorded(ReservesConfig[s].strategy)
    BY <2>1, <2>3
  <2>. QED
    BY <2>2, <2>4 DEF InitInput
<1>. QED
  BY <1>2, <1>3

LEMMA ConfigureInputKept ==
    ASSUME Forward, ListingRecorded
    PROVE  \A s \in Symbols : ConfigureInput(s)' = ConfigureInput(s)
<1>1. ASSUME NEW s \in Symbols
      PROVE  ConfigureInput(s)' = ConfigureInput(s)
  <2>1. IsRecorded(s)
    BY DEF ListingRecorded, ListingIds, IsRecorded
  <2>2. Recorded(s)' = Recorded(s)
    BY <2>1, RecordedKept
  <2>. QED
    BY <2>2 DEF ConfigureInput
<1>. QED
  BY <1>1

LEMMA ReservesKept ==
    ASSUME Forward
    PROVE  (AllListed => AllListed') /\ (AllConfigured => AllConfigured')
BY DEF Forward, AllListed, AllConfigured

LEMMA CallsKept ==
    ASSUME Forward, NEW tx, NEW id
    PROVE  (Calls(tx, id) => Calls(tx, id)') /\ (Passes(tx, id) => Passes(tx, id)')
BY RecordedKept DEF Calls, Passes

LEMMA SourcesInputKept ==
    ASSUME Forward, ListingRecorded, \A s \in Symbols : IsRecorded(AggregatorOf(s))
    PROVE  /\ [i \in DOMAIN ReserveSymbols |-> Recorded(ReserveSymbols[i])]'
                = [i \in DOMAIN ReserveSymbols |-> Recorded(ReserveSymbols[i])]
           /\ [i \in DOMAIN ReserveSymbols |-> Recorded(AggregatorOf(ReserveSymbols[i]))]'
                = [i \in DOMAIN ReserveSymbols |-> Recorded(AggregatorOf(ReserveSymbols[i]))]
<1>1. \A i \in DOMAIN ReserveSymbols : ReserveSymbols[i] \in Symbols
  BY DEF Symbols
<1>2. \A s \in Symbols : IsRecorded(s)
  BY DEF ListingRecorded, ListingIds, IsRecorded
<1>3. \A s \in Symbols : Recorded(s)' = Recorded(s) /\ Recorded(AggregatorOf(s))' = Recorded(AggregatorOf(s))
  BY <1>2, RecordedKept
<1>4. \A i \in DOMAIN ReserveSymbols :
         /\ Recorded(ReserveSymbols[i])' = Recorded(ReserveSymbols[i])
         /\ Recorded(AggregatorOf(ReserveSymbols[i]))' = Recorded(AggregatorOf(ReserveSymbols[i]))
  BY <1>1, <1>3
<1>. QED
  BY <1>4

LEMMA TransactionKept ==
    ASSUME Forward, NEW tx, TransactionOK(tx)
    PROVE  TransactionOK(tx)'
<1>1. /\ tx.call \in OnProvider => Calls(tx, "PoolAddressesProvider")'
      /\ tx.call = "setPoolDataProvider" => Passes(tx, "PoolDataProvider")'
      /\ tx.call = "setACLManager" => Passes(tx, "ACLManager")'
      /\ tx.call = "setPriceOracle" => Passes(tx, "ProtocolOracle")'
      /\ tx.call = "registerAddressesProvider" => Passes(tx, "PoolAddressesProvider")'
  BY CallsKept DEF TransactionOK
<1>2. /\ tx.call = "setPoolConfiguratorImpl" => IsSet("POOL")'
      /\ tx.call = "setRewardsController" =>
           /\ Calls(tx, "EmissionManager")'
           /\ IsSet("REWARD_CONTROLLER")' /\ tx.with = Component("REWARD_CONTROLLER")'
  BY CallsKept, ComponentKept DEF TransactionOK
<1>3. /\ tx.call = "addRiskAdmin" => AllListed'
      /\ tx.call = "removeRiskAdmin" => AllListed' /\ AllConfigured'
  BY ReservesKept DEF TransactionOK
<1>4. ASSUME tx.call = "initReserves"
      PROVE  /\ IsSet("POOL_CONFIGURATOR")' /\ tx.on = configurator'
             /\ ListingRecorded' /\ tx.with \in Seq({InitInput(s)' : s \in Symbols})
  <2>1. /\ IsSet("POOL_CONFIGURATOR") /\ tx.on = configurator
        /\ ListingRecorded /\ tx.with \in Seq({InitInput(s) : s \in Symbols})
    BY <1>4 DEF TransactionOK
  <2>2. ListingRecorded' /\ \A s \in Symbols : InitInput(s)' = InitInput(s)
    BY <2>1, InitInputKept
  <2>3. {InitInput(s)' : s \in Symbols} = {InitInput(s) : s \in Symbols}
    BY <2>2
  <2>. QED
    BY <2>1, <2>2, <2>3, ComponentKept DEF configurator
<1>5. ASSUME tx.call = "configureReserves"
      PROVE  /\ Calls(tx, "ReservesSetupHelper")' /\ AllListed'
             /\ IsSet("POOL_CONFIGURATOR")' /\ tx.with.configurator = configurator'
             /\ ListingRecorded' /\ tx.with.params \in Seq({ConfigureInput(s)' : s \in Symbols})
  <2>1. /\ Calls(tx, "ReservesSetupHelper") /\ AllListed
        /\ IsSet("POOL_CONFIGURATOR") /\ tx.with.configurator = configurator
        /\ ListingRecorded /\ tx.with.params \in Seq({ConfigureInput(s) : s \in Symbols})
    BY <1>5 DEF TransactionOK
  <2>2. ListingRecorded' /\ \A s \in Symbols : ConfigureInput(s)' = ConfigureInput(s)
    BY <2>1, InitInputKept, ConfigureInputKept
  <2>3. {ConfigureInput(s)' : s \in Symbols} = {ConfigureInput(s) : s \in Symbols}
    BY <2>2
  <2>4. IsSet("POOL_CONFIGURATOR")' /\ configurator' = configurator
    BY <2>1, ComponentKept DEF configurator
  <2>5. Calls(tx, "ReservesSetupHelper")' /\ AllListed'
    BY <2>1, CallsKept, ReservesKept
  <2>. QED
    BY <2>1, <2>2, <2>3, <2>4, <2>5
<1>6. ASSUME tx.call = "setAssetSources"
      PROVE  /\ Calls(tx, "ProtocolOracle")' /\ ListingRecorded'
             /\ \A s \in Symbols : IsRecorded(AggregatorOf(s))'
             /\ tx.with = [assets |-> [i \in DOMAIN ReserveSymbols |-> Recorded(ReserveSymbols[i])]',
                           sources |-> [i \in DOMAIN ReserveSymbols |->
                                           Recorded(AggregatorOf(ReserveSymbols[i]))]']
  <2>1. /\ Calls(tx, "ProtocolOracle") /\ ListingRecorded
        /\ \A s \in Symbols : IsRecorded(AggregatorOf(s))
        /\ tx.with = [assets |-> [i \in DOMAIN ReserveSymbols |-> Recorded(ReserveSymbols[i])],
                      sources |-> [i \in DOMAIN ReserveSymbols |->
                                         Recorded(AggregatorOf(ReserveSymbols[i]))]]
    BY <1>6 DEF TransactionOK
  <2>2. Calls(tx, "ProtocolOracle")' /\ ListingRecorded'
        /\ \A s \in Symbols : IsRecorded(AggregatorOf(s))'
    BY <2>1, CallsKept, InitInputKept, RecordedKept
  <2>. QED
    BY <2>1, <2>2, SourcesInputKept
<1>7. /\ tx.call \in OnProvider \cup Others
      /\ tx.call = "create" => tx.on \in Kinds
      /\ tx.call \in {"setACLAdmin", "addPoolAdmin"} => tx.with = Deployer
  BY DEF TransactionOK
<1>. QED
  BY <1>1, <1>2, <1>3, <1>4, <1>5, <1>6, <1>7 DEF TransactionOK

-------------------------------------------------------------------------------
(* What is done stays done.                                                *)

LEMMA Resolved ==
    /\ \A name : name \notin Reserved => Resolve(name) = Recorded(name)
    /\ Resolve("deployer") = Deployer
    /\ \A name \in {"POOL", "POOL_CONFIGURATOR", "ACL_MANAGER", "REWARD_CONTROLLER"} :
          Resolve(name) = Component(name)
<1>1. ASSUME NEW name, name \notin Reserved
      PROVE  Resolve(name) = Recorded(name)
  BY <1>1 DEF Resolve, Reserved
<1>2. Resolve("deployer") = Deployer
  BY DEF Resolve
<1>3. ASSUME NEW name \in {"POOL", "POOL_CONFIGURATOR", "ACL_MANAGER", "REWARD_CONTROLLER"}
      PROVE  Resolve(name) = Component(name)
  BY <1>3 DEF Resolve
<1>. QED
  BY <1>1, <1>2, <1>3

LEMMA ResolvedAfter ==
    /\ \A name : name \notin Reserved => Resolve(name)' = Recorded(name)'
    /\ Resolve("deployer")' = Deployer
    /\ \A name \in {"POOL", "POOL_CONFIGURATOR", "ACL_MANAGER", "REWARD_CONTROLLER"} :
          Resolve(name)' = Component(name)'
<1>1. (/\ \A name : name \notin Reserved => Resolve(name) = Recorded(name)
       /\ Resolve("deployer") = Deployer
       /\ \A name \in {"POOL", "POOL_CONFIGURATOR", "ACL_MANAGER", "REWARD_CONTROLLER"} :
             Resolve(name) = Component(name))'
  BY Resolved, PTL
<1>. QED
  BY <1>1

\* What a step of the script looks up by its own name is a record.
LEMMA ResolvedKept ==
    ASSUME Forward, NEW id, id \notin Reserved, IsRecorded(id)
    PROVE  Resolve(id) = records[id] /\ Resolve(id)' = records[id]
BY Resolved, ResolvedAfter, RecordedKept

Settles(s) == s.call \in OnProvider \cup {"registerAddressesProvider", "setRewardsController",
                                          "updateFlashloanPremiumTotal"}

LEMMA SettledStays ==
    ASSUME Forward, NEW s, NEW calls, WellFormed(s), Prepared(s, DOMAIN records, calls),
           Settles(s), AlreadyDone(s)
    PROVE  AlreadyDone(s)'
<1>1. IsSet("DATA_PROVIDER") => IsSet("DATA_PROVIDER")'
  BY ComponentKept
<1>2. IsSet("ACL_ADMIN") => IsSet("ACL_ADMIN")'
  BY ComponentKept
<1>3. IsSet("ACL_MANAGER") => IsSet("ACL_MANAGER")'
  BY ComponentKept
<1>4. IsSet("PRICE_ORACLE") => IsSet("PRICE_ORACLE")'
  BY ComponentKept
<1>5. IsSet("POOL") => IsSet("POOL")'
  BY ComponentKept
<1>6. IsSet("POOL_CONFIGURATOR") => IsSet("POOL_CONFIGURATOR")'
  BY ComponentKept
<1>7. IsSet("REWARD_CONTROLLER") => IsSet("REWARD_CONTROLLER")'
  BY ComponentKept
<1>8. ASSUME s.call = "registerAddressesProvider"
      PROVE  AlreadyDone(s)'
  <2>1. /\ s.on \in DOMAIN records \ Reserved /\ "PoolAddressesProvider" \in DOMAIN records
    BY <1>8 DEF Prepared
  <2>2. IsKnown(s)
    BY <1>8, DoneBefore
  <2>3. Resolve(s.on)' = Resolve(s.on) /\ provider' = provider
    BY <2>1, ResolvedKept, RecordedKept DEF IsRecorded, provider
  <2>4. IsKnown(s)'
    BY <2>2, <2>3 DEF IsKnown, IsRegistered, Forward
  <2>. QED
    BY <1>8, <2>4, Zenon DEF AlreadyDone
<1>9. ASSUME s.call = "setRewardsController"
      PROVE  AlreadyDone(s)'
  <2>1. s.on = "EmissionManager" /\ s.on \in DOMAIN records
    BY <1>9 DEF Prepared
  <2>2. Slot(market, Resolve(s.on), "REWARD_CONTROLLER") # NoAddress
    BY <1>9, DoneBefore
  <2>3. s.on \notin Reserved
    BY <2>1 DEF Reserved
  <2>4. Resolve(s.on) = Recorded(s.on) /\ Resolve(s.on)' = Recorded(s.on)'
    BY <2>3, Resolved, ResolvedAfter
  <2>5. Controller # NoAddress
    BY <2>1, <2>2, <2>4 DEF Controller
  <2>6. Controller' # NoAddress
    BY <2>5 DEF Forward
  <2>7. (Slot(market, Resolve(s.on), "REWARD_CONTROLLER") # NoAddress)'
    BY <2>1, <2>4, <2>6 DEF Controller
  <2>. QED
    BY <1>9, <2>7, Zenon DEF AlreadyDone
<1>10. ASSUME s.call = "updateFlashloanPremiumTotal"
       PROVE  AlreadyDone(s)'
  <2>1. market.premiumTotal # 0
    BY <1>10, DoneBefore
  <2>2. (market.premiumTotal # 0)'
    BY <2>1 DEF Forward
  <2>. QED
    BY <1>10, <2>2, Zenon DEF AlreadyDone
<1>11. s.call = "setPoolDataProvider" => AlreadyDone(s)'
  BY <1>1, DoneBefore, Zenon DEF AlreadyDone
<1>12. s.call = "setACLAdmin" => AlreadyDone(s)'
  BY <1>2, DoneBefore, Zenon DEF AlreadyDone
<1>13. s.call = "setACLManager" => AlreadyDone(s)'
  BY <1>3, DoneBefore, Zenon DEF AlreadyDone
<1>14. s.call = "setPriceOracle" => AlreadyDone(s)'
  BY <1>4, DoneBefore, Zenon DEF AlreadyDone
<1>15. s.call = "setPoolImpl" => AlreadyDone(s)'
  BY <1>5, DoneBefore, Zenon DEF AlreadyDone
<1>16. s.call = "setPoolConfiguratorImpl" => AlreadyDone(s)'
  BY <1>6, DoneBefore, Zenon DEF AlreadyDone
<1>17. s.call = "setAddressAsProxy" => AlreadyDone(s)'
  BY <1>7, DoneBefore, Zenon DEF AlreadyDone
<1>. QED
  BY <1>8, <1>9, <1>10, <1>11, <1>12, <1>13, <1>14, <1>15, <1>16, <1>17 DEF Settles, OnProvider

\* The cases of Done that look at something.
Lists(s) == s.call \in {"initialize", "initReserves", "configureReserves", "setAssetSources"}

LEMMA DoneCases ==
    \A s : WellFormed(s) =>
        /\ s.do = "check" => (Done(s) <=> IsAdministered)
        /\ Settles(s) => (Done(s) <=> AlreadyDone(s))
        /\ s.call = "initialize" => (Done(s) <=> Initialising(Recorded(s.on)))
        /\ s.call = "initReserves" => (Done(s) <=> AllListed)
        /\ s.call = "configureReserves" => (Done(s) <=> AllConfigured)
        /\ s.call = "setAssetSources" => (Done(s) <=> AllPriced)
        /\ s.do # "check" /\ ~Settles(s) /\ ~Lists(s) => Done(s)
<1>. TAKE s
<1>. HAVE WellFormed(s)
<1>1. s.do # "check" /\ ~Settles(s) /\ ~Lists(s) =>
            s.do # "check" /\ s.call \notin OnProvider
                 \cup {"registerAddressesProvider", "setRewardsController", "updateFlashloanPremiumTotal",
                       "initialize", "initReserves", "configureReserves", "setAssetSources"}
  BY DEF Settles, Lists
<1>. QED
  BY <1>1, DoneIs DEF Settles

LEMMA DoneAfter ==
    \A s : WellFormed(s) =>
           /\ s.do = "check" => (Done(s)' <=> IsAdministered')
           /\ Settles(s) => (Done(s)' <=> AlreadyDone(s)')
           /\ s.call = "initialize" => (Done(s)' <=> Initialising(Recorded(s.on))')
           /\ s.call = "initReserves" => (Done(s)' <=> AllListed')
           /\ s.call = "configureReserves" => (Done(s)' <=> AllConfigured')
           /\ s.call = "setAssetSources" => (Done(s)' <=> AllPriced')
           /\ s.do # "check" /\ ~Settles(s) /\ ~Lists(s) => Done(s)'
<1>1. (\A s : WellFormed(s) =>
           /\ s.do = "check" => (Done(s) <=> IsAdministered)
           /\ Settles(s) => (Done(s) <=> AlreadyDone(s))
           /\ s.call = "initialize" => (Done(s) <=> Initialising(Recorded(s.on)))
           /\ s.call = "initReserves" => (Done(s) <=> AllListed)
           /\ s.call = "configureReserves" => (Done(s) <=> AllConfigured)
           /\ s.call = "setAssetSources" => (Done(s) <=> AllPriced)
           /\ s.do # "check" /\ ~Settles(s) /\ ~Lists(s) => Done(s))'
  BY DoneCases, PTL
<1>. QED
  BY <1>1

LEMMA DoneKept ==
    ASSUME Forward, NEW s, NEW calls, WellFormed(s), Prepared(s, DOMAIN records, calls), Done(s)
    PROVE  Done(s)'
<1>1. CASE s.do = "check"
  <2>1. IsRecorded("ACLManager") /\ IsAdministered
    BY <1>1, DoneCases DEF Prepared, IsRecorded
  <2>2. Recorded("ACLManager")' = Recorded("ACLManager")
    BY <2>1, RecordedKept
  <2>3. ASSUME NEW role \in {"DEFAULT_ADMIN", "POOL_ADMIN", "EMERGENCY_ADMIN"}
        PROVE  HasRole(market, Recorded("ACLManager"), role, Deployer)'
    <3>. DEFINE r == <<Recorded("ACLManager"), role, Deployer>>
    <3>1. r \in market.roles /\ r[2] # "RISK_ADMIN"
      BY <2>1 DEF IsAdministered, HasRole
    <3>2. r \in market'.roles
      BY <3>1 DEF Forward
    <3>. QED
      BY <2>2, <3>2 DEF HasRole
  <2>4. IsAdministered'
    BY <2>3 DEF IsAdministered
  <2>. QED
    BY <2>4, <1>1, DoneAfter
<1>2. CASE Settles(s)
  BY <1>2, DoneCases, DoneAfter, SettledStays
<1>3. CASE s.call = "initialize"
  <2>1. s.on \in DOMAIN records /\ Initialising(Recorded(s.on))
    BY <1>3, DoneCases DEF Prepared
  <2>2. Recorded(s.on)' = Recorded(s.on)
    BY <2>1, RecordedKept DEF IsRecorded
  <2>. DEFINE a == Recorded(s.on)
  <2>3. \A b : Initialising(b) => Initialising(b)'
    BY DEF Forward
  <2>4. Initialising(Recorded(s.on))'
    BY <2>1, <2>2, <2>3 DEF Initialising
  <2>. QED
    BY <2>4, <1>3, DoneAfter
<1>4. CASE s.call = "initReserves"
  BY <1>4, DoneCases, DoneAfter, ReservesKept
<1>5. CASE s.call = "configureReserves"
  BY <1>5, DoneCases, DoneAfter, ReservesKept
<1>6. CASE s.call = "setAssetSources"
  <2>1. AllPriced /\ "ProtocolOracle" \in DOMAIN records /\ ListingIds \subseteq DOMAIN records
    BY <1>6, DoneCases DEF Prepared
  <2>2. \A x \in Symbols : IsRecorded(x) /\ IsRecorded("ProtocolOracle") /\ Priced(x)
    BY <2>1 DEF ListingIds, IsRecorded, AllPriced
  <2>3. AllPriced'
    BY <2>2 DEF Forward, AllPriced
  <2>. QED
    BY <2>3, <1>6, DoneAfter
<1>7. CASE s.do # "check" /\ ~Settles(s) /\ ~Lists(s)
  BY <1>7, DoneAfter
<1>. QED
  BY <1>1, <1>2, <1>3, <1>4, <1>5, <1>6, <1>7 DEF Lists

\* What the calls behind a step have left.
LEMMA CallsDone ==
    ASSUME RecordsOK, ProcessOK, DoneOK, enacted = 0,
           NEW j \in 1..Len(Script), j <= process.pc, NEW c \in CalledBy(Script, j, {})
    PROVE  /\ c = "setPoolImpl" => IsSet("POOL")
           /\ c = "setPoolConfiguratorImpl" => IsSet("POOL_CONFIGURATOR")
           /\ c = "setAddressAsProxy" => IsSet("REWARD_CONTROLLER")
           /\ c = "initReserves" => AllListed /\ ListingRecorded
           /\ c = "configureReserves" => AllConfigured
           /\ c = "setACLManager" => IsSet("ACL_MANAGER")
<1>1. PICK i \in 1..(j - 1) : i \in 1..Len(Script) /\ Script[i].call = c
  BY CalledBehind
<1>2. i <= process.pc /\ i \in 1..(process.pc - 1)
  BY <1>1, ScriptFacts DEF ProcessOK
<1>. DEFINE s == Script[i]
<1>3. WellFormed(s) /\ Prepared(s, DOMAIN records, CalledBy(Script, i, {})) /\ Done(s)
  BY <1>1, <1>2, StepsPrepared DEF DoneOK
<1>. HIDE DEF s
<1>4. s.call = c
  BY <1>1 DEF s
<1>5. c = "setPoolImpl" => IsSet("POOL")
  BY <1>3, <1>4, DoneCases, DoneBefore DEF Settles, OnProvider
<1>6. c = "setPoolConfiguratorImpl" => IsSet("POOL_CONFIGURATOR")
  BY <1>3, <1>4, DoneCases, DoneBefore DEF Settles, OnProvider
<1>7. c = "setAddressAsProxy" => IsSet("REWARD_CONTROLLER")
  BY <1>3, <1>4, DoneCases, DoneBefore DEF Settles, OnProvider
<1>8. c = "initReserves" => AllListed /\ ListingRecorded
  BY <1>3, <1>4, DoneCases DEF Prepared, ListingRecorded
<1>9. c = "configureReserves" => AllConfigured
  BY <1>3, <1>4, DoneCases
<1>10. c = "setACLManager" => IsSet("ACL_MANAGER")
  BY <1>3, <1>4, DoneCases, DoneBefore DEF Settles, OnProvider
<1>. QED
  BY <1>5, <1>6, <1>7, <1>8, <1>9, <1>10

-------------------------------------------------------------------------------
(* The process goes on.                                                    *)

LEMMA StartIs ==
    /\ DOMAIN Start = {"pc", "phase", "receipt", "todo", "configuring"}
    /\ Start.pc = 1 /\ Start.phase = "ready"
    /\ DOMAIN Failed = DOMAIN Start /\ Failed.pc = 1 /\ Failed.phase = "failed"
BY DEF Start, Failed

LEMMA AdvancedIs ==
    ASSUME NEW p, DOMAIN p = DOMAIN Start
    PROVE  LET q == Advanced(p)
           IN  /\ DOMAIN q = DOMAIN Start /\ q.pc = p.pc + 1
               /\ q.phase = IF p.pc = Len(Script) THEN "finished" ELSE "ready"
               /\ q.todo = p.todo /\ q.configuring = p.configuring
BY StartIs DEF Advanced

LEMMA FirstNotPlanned == Script[1].call \notin Planning
<1>1. 1 \in 1..Len(Script)
  BY ScriptFacts
<1>. QED
  BY <1>1, FollowsBehind

LEMMA BehindKept ==
    ASSUME Forward, RecordsOK, ProcessOK, DoneOK, enacted = 0
    PROVE  \A j \in 1..(process.pc - 1) : Script[j].ids \subseteq DOMAIN records' /\ Done(Script[j])'
<1>. TAKE j \in 1..(process.pc - 1)
<1>1. j \in 1..Len(Script) /\ j <= process.pc
  BY ScriptFacts DEF ProcessOK
<1>. DEFINE s == Script[j]
<1>2. WellFormed(s) /\ Prepared(s, DOMAIN records, CalledBy(Script, j, {})) /\ Done(s)
  BY <1>1, StepsPrepared DEF DoneOK
<1>3. s.ids \subseteq DOMAIN records
  BY DEF RecordsOK
<1>. HIDE DEF s
<1>4. Done(s)'
  BY <1>2, DoneKept
<1>5. s.ids \subseteq DOMAIN records'
  BY <1>3 DEF Forward
<1>. QED
  BY <1>4, <1>5 DEF s

LEMMA OneMore ==
    ASSUME NEW m \in Nat, NEW n, n = m + 1
    PROVE  \A j \in 1..(n - 1) : j \in 1..(m - 1) \/ j = m
OBVIOUS

\* It is at the next step, and has all it needs there but its plan.
GoesOn ==
    /\ DOMAIN process' = DOMAIN Start /\ process'.pc = process.pc + 1
    /\ process'.phase = IF process.pc = Len(Script) THEN "finished" ELSE "ready"

LEMMA GoesOnKeeps ==
    ASSUME IInv, Forward, ~Finished, GoesOn,
           NEW s, s = step, s.ids \subseteq DOMAIN records', Done(s)',
           enacted' = enacted, crashes' = crashes, index' = index
    PROVE  RecordsOK' /\ ProcessOK' /\ DoneOK'
<1>1. /\ RecordsOK /\ ProcessOK /\ DoneOK /\ enacted = 0 /\ process.pc \in 1..Len(Script)
      /\ index.sources = {} /\ DOMAIN process = DOMAIN Start
  BY Deployment DEF IInv, ProcessOK
<1>2. /\ DOMAIN process' = DOMAIN Start /\ process'.pc = process.pc + 1
      /\ process'.phase = IF process.pc = Len(Script) THEN "finished" ELSE "ready"
  BY DEF GoesOn
<1>3. \A j \in 1..(process.pc - 1) : Script[j].ids \subseteq DOMAIN records' /\ Done(Script[j])'
  BY <1>1, BehindKept
<1>4. \A j \in 1..(process'.pc - 1) : j \in 1..(process.pc - 1) \/ j = process.pc
  <2>1. process.pc \in Nat /\ process'.pc = process.pc + 1
    BY <1>1, <1>2, ScriptFacts
  <2>. QED
    BY <2>1, OneMore
<1>5. \A j \in 1..(process'.pc - 1) : Script[j].ids \subseteq DOMAIN records' /\ Done(Script[j])'
  BY <1>3, <1>4 DEF step
<1>6. process'.phase \notin {"waiting", "mined", "reverted"}
  BY <1>2
<1>7. RecordsOK'
  BY <1>5, <1>6 DEF RecordsOK
<1>8. DoneOK'
  BY <1>5, <1>6 DEF DoneOK
<1>9. ProcessOK'
  <2>1. Finished' <=> process'.pc = Len(Script) + 1
    BY <1>1, <1>2 DEF Finished
  <2>2. /\ process'.pc \in 1..Len(Script) + 1 /\ process'.phase \in {"ready", "finished"}
    BY <1>1, <1>2, ScriptFacts
  <2>3. crashes + enacted <= MaxDisturbances /\ enacted \in Nat /\ crashes \in Nat
    BY <1>1 DEF ProcessOK
  <2>. QED
    BY <1>1, <1>2, <2>1, <2>2, <2>3 DEF ProcessOK
<1>. QED
  BY <1>7, <1>8, <1>9

LEMMA Advances ==
    ASSUME IInv, Forward, ~Finished, process' = Advanced(process),
           NEW s, s = step, s.ids \subseteq DOMAIN records', Done(s)',
           enacted' = enacted, crashes' = crashes, index' = index
    PROVE  RecordsOK' /\ ProcessOK' /\ DoneOK'
<1>1. DOMAIN process = DOMAIN Start
  BY DEF IInv, ProcessOK
<1>2. GoesOn
  BY <1>1, AdvancedIs DEF GoesOn
<1>. QED
  BY <1>2, GoesOnKeeps

LEMMA Restarts ==
    ASSUME ProcessOK, ~Finished, process' \in {Start, Failed},
           enacted' = enacted, index' = index,
           crashes' \in Nat, crashes' + enacted <= MaxDisturbances
    PROVE  RecordsOK' /\ ProcessOK' /\ DoneOK' /\ PlanOK'
<1>1. enacted = 0 /\ index.sources = {} /\ process.pc \in 1..Len(Script)
  BY Deployment
<1>2. /\ DOMAIN process' = DOMAIN Start /\ process'.pc = 1 /\ process'.phase \in {"ready", "failed"}
      /\ process'.phase = "failed" => process' = Failed
  BY StartIs
<1>3. 1..(process'.pc - 1) = {}
  BY <1>2
<1>4. RecordsOK' /\ DoneOK'
  BY <1>2, <1>3 DEF RecordsOK, DoneOK
<1>5. ProcessOK'
  <2>1. Failed' = Failed
    BY DEF Failed, Start
  <2>2. Len(Script) \in Nat /\ Len(Script) > 0
    BY ScriptFacts
  <2>3. ~Finished' /\ process'.pc \in 1..Len(Script) + 1 /\ process'.pc # Len(Script) + 1
    BY <1>2, <2>2 DEF Finished
  <2>4. DOMAIN Start' = DOMAIN Start
    BY DEF Start
  <2>. QED
    BY <1>1, <1>2, <2>1, <2>3, <2>4 DEF ProcessOK
<1>6. step'.call \notin Planning
  BY <1>2, FirstNotPlanned DEF step
<1>7. PlanOK'
  BY <1>6 DEF PlanOK, Planning
<1>. QED
  BY <1>4, <1>5, <1>7

-------------------------------------------------------------------------------
(* The plan of script 10.                                                  *)

\* What script 10 plans with is recorded by then.
LEMMA PlanningRecorded ==
    ASSUME IInv, ~Finished, step.call \in Planning
    PROVE  ListingRecorded
<1>1. /\ RecordsOK /\ ProcessOK /\ DoneOK /\ enacted = 0 /\ process.pc \in 1..Len(Script)
      /\ process.pc <= process.pc
  BY Deployment DEF IInv
<1>2. Prepared(step, DOMAIN records, CalledBy(Script, process.pc, {}))
  BY <1>1, StepsPrepared DEF step
<1>3. CASE step.call \in InChunks
  BY <1>2, <1>3 DEF Prepared, ListingRecorded, InChunks
<1>4. CASE step.call \in {"addRiskAdmin", "removeRiskAdmin"}
  <2>1. "initReserves" \in CalledBy(Script, process.pc, {})
    BY <1>2, <1>4 DEF Prepared
  <2>. QED
    BY <2>1, <1>1, CallsDone
<1>. QED
  BY <1>3, <1>4 DEF Planning, InChunks

\* The plan of the next states is for the same inputs.
InitPlanned == \A s \in Symbols : Listed(s) \/ Planned(InitInput(s))

ConfigurePlanned == \A s \in Symbols : IsCollateral(s) \/ Planned(ConfigureInput(s))

LEMMA PlannedKept ==
    ASSUME Forward, ListingRecorded, Rest' = Rest
    PROVE  /\ Rest \in Seq({InitInput(s) : s \in Symbols}) => (Rest \in Seq({InitInput(s) : s \in Symbols}))'
           /\ InitPlanned => InitPlanned'
           /\ Rest \in Seq({ConfigureInput(s) : s \in Symbols})
                 => (Rest \in Seq({ConfigureInput(s) : s \in Symbols}))'
           /\ ConfigurePlanned => ConfigurePlanned'
<1>1. \A s \in Symbols : InitInput(s)' = InitInput(s) /\ ConfigureInput(s)' = ConfigureInput(s)
  BY InitInputKept, ConfigureInputKept
<1>2. /\ {InitInput(s)' : s \in Symbols} = {InitInput(s) : s \in Symbols}
      /\ {ConfigureInput(s)' : s \in Symbols} = {ConfigureInput(s) : s \in Symbols}
  BY <1>1
<1>3. \A s \in Symbols : /\ Planned(InitInput(s)) => Planned(InitInput(s))'
                         /\ Planned(ConfigureInput(s)) => Planned(ConfigureInput(s))'
  BY <1>1 DEF Planned
<1>4. \A s \in Symbols : (Listed(s) => Listed(s)') /\ (IsCollateral(s) => IsCollateral(s)')
  BY DEF Forward
<1>5. (InitPlanned => InitPlanned') /\ (ConfigurePlanned => ConfigurePlanned')
  BY <1>3, <1>4 DEF InitPlanned, ConfigurePlanned
<1>. QED
  BY <1>2, <1>5

LEMMA PlanStays ==
    ASSUME IInv, Forward, ~Finished, Rest' = Rest, process'.pc = process.pc,
           process'.configuring = process.configuring
    PROVE  PlanOK'
<1>1. step' = step
  BY DEF step
<1>2. CASE step.call \notin Planning
  BY <1>1, <1>2 DEF PlanOK, Planning
<1>3. CASE step.call \in Planning
  <2>1. ListingRecorded /\ PlanOK
    BY <1>3, PlanningRecorded DEF IInv
  <2>2. AllConfigured => AllConfigured'
    BY ReservesKept
  <2>3. step.call = "initReserves" =>
           Rest \in Seq({InitInput(s) : s \in Symbols}) /\ InitPlanned
    BY <2>1 DEF PlanOK, InitPlanned
  <2>4. step.call \in {"addRiskAdmin", "configureReserves"} =>
           Rest \in Seq({ConfigureInput(s) : s \in Symbols}) /\ ConfigurePlanned
    BY <2>1 DEF PlanOK, ConfigurePlanned
  <2>5. step.call = "initReserves" =>
           (Rest \in Seq({InitInput(s) : s \in Symbols}))' /\ InitPlanned'
    BY <2>1, <2>3, PlannedKept
  <2>6. step.call \in {"addRiskAdmin", "configureReserves"} =>
           (Rest \in Seq({ConfigureInput(s) : s \in Symbols}))' /\ ConfigurePlanned'
    BY <2>1, <2>4, PlannedKept
  <2>7. step.call \in {"addRiskAdmin", "configureReserves", "removeRiskAdmin"} =>
           process'.configuring \/ AllConfigured'
    BY <2>1, <2>2 DEF PlanOK
  <2>. QED
    BY <1>1, <2>5, <2>6, <2>7 DEF PlanOK, InitPlanned, ConfigurePlanned
<1>. QED
  BY <1>2, <1>3

\* The next step has the plan that its predecessor had, unless that made it.
LEMMA PlanAdvances ==
    ASSUME IInv, Forward, ~Finished, process' = Advanced(process),
           step.do \notin {"planListing", "planConfiguration"},
           process.phase = "mined" => step.call \notin {"addRiskAdmin", "configureReserves"}
    PROVE  PlanOK'
<1>1. /\ RecordsOK /\ ProcessOK /\ DoneOK /\ enacted = 0 /\ process.pc \in 1..Len(Script)
      /\ DOMAIN process = DOMAIN Start
  BY Deployment DEF IInv, ProcessOK
<1>2. /\ process'.pc = process.pc + 1 /\ process'.phase \in {"ready", "finished"}
      /\ process'.todo = process.todo /\ process'.configuring = process.configuring
      /\ process'.phase = "finished" <=> process.pc = Len(Script)
  BY <1>1, AdvancedIs
<1>. SUFFICES ASSUME ~Finished', step'.call \in Planning PROVE PlanOK'
  BY DEF PlanOK, Planning
<1>3. process'.pc \in 1..Len(Script)
  <2>1. process.pc # Len(Script) /\ Len(Script) \in Nat
    BY <1>2, ScriptFacts DEF Finished
  <2>. QED
    BY <1>1, <1>2, <2>1
<1>4. Follows(step', step)
  <2>1. process'.pc - 1 = process.pc
    BY <1>1, <1>2, ScriptFacts
  <2>2. Follows(Script[process'.pc], Script[process'.pc - 1])
    BY <1>3, FollowsBehind DEF step
  <2>. QED
    BY <2>1, <2>2 DEF step
<1>5. \/ step'.call = "configureReserves" /\ step.call = "addRiskAdmin"
      \/ step'.call = "removeRiskAdmin" /\ step.call = "configureReserves"
  BY <1>4 DEF Follows, Planning
<1>6. Rest' = Rest
  <2>1. process.phase # "mined" /\ process'.phase # "mined"
    BY <1>2, <1>5 DEF Planning
  <2>. QED
    BY <2>1, <1>2 DEF Rest
<1>7. ListingRecorded /\ PlanOK
  BY <1>5, PlanningRecorded DEF IInv, Planning
<1>8. AllConfigured => AllConfigured'
  BY ReservesKept
<1>9. /\ Rest \in Seq({ConfigureInput(s) : s \in Symbols}) /\ ConfigurePlanned
      /\ process.configuring \/ AllConfigured
  BY <1>5, <1>7 DEF PlanOK, ConfigurePlanned
<1>10. (Rest \in Seq({ConfigureInput(s) : s \in Symbols}))' /\ ConfigurePlanned'
  BY <1>6, <1>7, <1>9, PlannedKept
<1>11. process'.configuring \/ AllConfigured'
  BY <1>2, <1>8, <1>9
<1>. QED
  BY <1>5, <1>10, <1>11 DEF PlanOK, ConfigurePlanned

-------------------------------------------------------------------------------
(* Steps that leave the contracts and the records alone.                   *)

LEMMA FrameForward ==
    ASSUME market' = market, records' = records,
           \A a : Initialising(a) => Initialising(a)'
    PROVE  Forward
<1>1. \A id : Recorded(id)' = Recorded(id)
  BY DEF Recorded
<1>2. \A id : Component(id)' = Component(id)
  BY <1>1 DEF Component, provider
<1>3. Controller' = Controller
  BY <1>1 DEF Controller
<1>4. \A s \in Symbols : Reserve(s)' = Reserve(s)
  BY <1>1, <1>2 DEF Reserve
<1>5. \A s \in Symbols : Listed(s)' = Listed(s) /\ IsCollateral(s)' = IsCollateral(s)
  BY <1>4 DEF Listed, IsCollateral
<1>6. \A s \in Symbols : Priced(s)' = Priced(s)
  BY <1>1 DEF Priced, oracle
<1>. QED
  BY <1>2, <1>3, <1>5, <1>6 DEF Forward

LEMMA FrameWorld ==
    ASSUME WorldOK, market' = market, records' = records, enacted' = enacted
    PROVE  WorldOK'
<1>1. \A id : Recorded(id)' = Recorded(id)
  BY DEF Recorded
<1>2. \A id : Component(id)' = Component(id) /\ IsSet(id)' = IsSet(id)
  BY <1>1 DEF Component, provider, IsSet
<1>3. Controller' = Controller /\ configurator' = configurator
  BY <1>1, <1>2 DEF Controller, configurator
<1>4. \A s \in Symbols : Reserve(s)' = Reserve(s)
  BY <1>1, <1>2 DEF Reserve
<1>5. \A s \in Symbols : Listed(s)' = Listed(s) /\ Untouched(s)' = Untouched(s)
  BY <1>4 DEF Listed, Untouched
<1>6. \A s \in Symbols : AsConfigured(s)' = AsConfigured(s)
  BY <1>4 DEF AsConfigured
<1>7. NamesOK'
  BY DEF WorldOK, NamesOK
<1>8. ComponentsOK'
  BY <1>2, <1>3 DEF WorldOK, ComponentsOK, IsNamed, IsSavedAs, IsRecorded
<1>9. ReservesOK'
  <2>1. {Reserve(s)' : s \in Symbols \cap DOMAIN records} = {Reserve(s) : s \in Symbols \cap DOMAIN records}
    BY <1>4
  <2>2. ReservesOK
    BY DEF WorldOK
  <2>3. enacted = 0 => DOMAIN market.reserves \subseteq {Reserve(s)' : s \in Symbols \cap DOMAIN records}
    BY <2>1, <2>2 DEF ReservesOK
  <2>4. ASSUME enacted = 0, NEW s \in Symbols, Listed(s)'
        PROVE  /\ IsRecorded(ReservesConfig[s].strategy)'
               /\ market.reserves[Reserve(s)'].reserveInterestRateStrategy
                     = records[ReservesConfig[s].strategy]
               /\ Untouched(s)' \/ AsConfigured(s)'
    BY <2>2, <2>4, <1>4, <1>5, <1>6 DEF ReservesOK, IsRecorded
  <2>5. \A r \in DOMAIN market.reserves : r \in market.contracts \X market.contracts
    BY <2>2 DEF ReservesOK
  <2>. QED
    BY <2>3, <2>4, <2>5 DEF ReservesOK
<1>10. AccountsOK'
  BY DEF WorldOK, AccountsOK
<1>11. IsContracts(market)' /\ (~market.reverted)' /\ (market.log = <<>>)'
  BY DEF WorldOK, IsContracts
<1>. QED
  BY <1>7, <1>8, <1>9, <1>10, <1>11 DEF WorldOK

-------------------------------------------------------------------------------
(* The mempool.                                                            *)

LEMMA QueueIs ==
    ASSUME NEW q, IsQueue(q)
    PROVE  Len(q) \in Nat /\ DOMAIN q = 1..Len(q)
BY DEF IsQueue

LEMMA QueueOf ==
    ASSUME NEW q, NEW n \in Nat, DOMAIN q = 1..n, q = [i \in 1..n |-> q[i]]
    PROVE  IsQueue(q) /\ Len(q) = n
<1>1. \A S : (\A i \in 1..n : q[i] \in S) => q \in Seq(S)
  BY SeqDef
<1>2. Len(q) = n
  BY <1>1
<1>. QED
  BY <1>1, <1>2 DEF IsQueue

LEMMA QueueAppended ==
    ASSUME NEW q, IsQueue(q), NEW e
    PROVE  LET p == Append(q, e)
           IN  /\ IsQueue(p) /\ Len(p) = Len(q) + 1 /\ p[Len(p)] = e
               /\ \A i \in 1..Len(q) : p[i] = q[i]
<1>. DEFINE S == {q[i] : i \in DOMAIN q} \cup {e}
            p == Append(q, e)
<1>1. q \in Seq(S)
  BY SeqDef, QueueIs DEF IsQueue
<1>. HIDE DEF S
<1>2. e \in S
  BY DEF S
<1>3. /\ p \in Seq(S) /\ Len(p) = Len(q) + 1 /\ DOMAIN p = 1..Len(p) /\ Len(q) \in Nat
      /\ \A i \in 1..Len(p) : p[i] = IF i <= Len(q) THEN q[i] ELSE e
  BY <1>1, <1>2
<1>. HIDE DEF p
<1>4. p = [i \in 1..Len(p) |-> p[i]]
  <2>1. p \in Seq(S)
    BY <1>3
  <2>. QED
    BY <2>1
<1>5. IsQueue(p)
  <2>1. Len(p) \in Nat /\ DOMAIN p = 1..Len(p)
    BY <1>3
  <2>. QED
    BY <2>1, <1>4, QueueOf
<1>6. p[Len(p)] = e /\ \A i \in 1..Len(q) : p[i] = q[i]
  BY <1>3
<1>. QED
  BY <1>3, <1>5, <1>6 DEF p

LEMMA QueueTail ==
    ASSUME NEW q, IsQueue(q), q # <<>>
    PROVE  LET p == Tail(q)
           IN  /\ IsQueue(p) /\ Len(p) = Len(q) - 1 /\ Head(q) = q[1] /\ Len(q) > 0
               /\ \A i \in 1..Len(p) : p[i] = q[i + 1] /\ i + 1 \in 1..Len(q)
<1>. DEFINE p == Tail(q)
            S == {q[i] : i \in DOMAIN q}
<1>1. q \in Seq(S)
  BY DEF IsQueue
<1>. HIDE DEF S
<1>2. /\ p \in Seq(S) /\ Len(p) = Len(q) - 1 /\ DOMAIN p = 1..Len(p) /\ Len(q) \in Nat
      /\ \A i \in 1..Len(p) : p[i] = q[i + 1]
      /\ Len(q) > 0 /\ Head(q) = q[1]
  BY <1>1
<1>. HIDE DEF p
<1>3. p = [i \in 1..Len(p) |-> p[i]] /\ Len(p) \in Nat
  BY <1>2
<1>4. IsQueue(p)
  BY <1>2, <1>3, QueueOf
<1>5. \A i \in 1..Len(p) : i + 1 \in 1..Len(q)
  BY <1>2
<1>. QED
  BY <1>2, <1>4, <1>5 DEF p

-------------------------------------------------------------------------------
(* Chunks.                                                                 *)

LEMMA ChunkIs ==
    ASSUME NEW S, NEW q \in Seq(S), NEW n \in Nat
    PROVE  /\ Chunk(q, n) \in Seq(S)
           /\ \A i \in 1..Len(q) : i <= n => i \in 1..Len(Chunk(q, n)) /\ Chunk(q, n)[i] = q[i]
<1>. DEFINE m == IF Len(q) < n THEN Len(q) ELSE n
            p == Chunk(q, n)
<1>1. m \in Nat /\ m <= Len(q) /\ Len(q) \in Nat
  OBVIOUS
<1>2. p = SubSeq(q, 1, m)
  BY DEF Chunk
<1>. HIDE DEF p
<1>3. \A i \in 1..Len(q) : i <= n => i <= m
  OBVIOUS
<1>. HIDE DEF m
<1>4. 1 \in 1..Len(q) + 1 /\ m \in 1 - 1..Len(q)
  BY <1>1
<1>5. p \in Seq(S) /\ Len(p) = m - 1 + 1 /\ \A i \in 1..(m - 1 + 1) : p[i] = q[1 + i - 1]
  BY <1>2, <1>4, SubSeqProperties
<1>6. p \in Seq(S) /\ Len(p) = m /\ \A i \in 1..m : p[i] = q[i]
  BY <1>1, <1>5
<1>. QED
  BY <1>1, <1>3, <1>6 DEF p

LEMMA AfterChunkIs ==
    ASSUME NEW S, NEW q \in Seq(S), NEW n \in Nat
    PROVE  /\ AfterChunk(q, n) \in Seq(S)
           /\ \A i \in 1..Len(q) : i > n =>
                 i - n \in 1..Len(AfterChunk(q, n)) /\ AfterChunk(q, n)[i - n] = q[i]
<1>. DEFINE p == AfterChunk(q, n)
<1>1. p = SubSeq(q, n + 1, Len(q)) /\ Len(q) \in Nat
  BY DEF AfterChunk
<1>. HIDE DEF p
<1>2. CASE n <= Len(q)
  <2>1. n + 1 \in 1..Len(q) + 1 /\ Len(q) \in (n + 1) - 1..Len(q)
    BY <1>1, <1>2
  <2>2. /\ p \in Seq(S) /\ Len(p) = Len(q) - (n + 1) + 1
        /\ \A i \in 1..(Len(q) - (n + 1) + 1) : p[i] = q[(n + 1) + i - 1]
    BY <1>1, <2>1, SubSeqProperties
  <2>3. ASSUME NEW i \in 1..Len(q), i > n
        PROVE  i - n \in 1..Len(p) /\ p[i - n] = q[i]
    <3>1. i - n \in 1..(Len(q) - (n + 1) + 1) /\ (n + 1) + (i - n) - 1 = i
      BY <1>1, <2>3
    <3>. QED
      BY <3>1, <2>2
  <2>. QED
    BY <2>2, <2>3 DEF p
<1>3. CASE n > Len(q)
  <2>1. p = <<>>
    BY <1>1, <1>3
  <2>. QED
    BY <1>1, <1>3, <2>1 DEF p
<1>. QED
  BY <1>1, <1>2, <1>3

\* Whatever is in a sequence is in its first chunk or in what follows it.
LEMMA InOneOfThem ==
    ASSUME NEW S, NEW q \in Seq(S), NEW n \in Nat, NEW j \in DOMAIN q
    PROVE  \/ \E i \in DOMAIN Chunk(q, n) : Chunk(q, n)[i] = q[j]
           \/ \E i \in DOMAIN AfterChunk(q, n) : AfterChunk(q, n)[i] = q[j]
<1>1. j \in 1..Len(q)
  OBVIOUS
<1>2. Chunk(q, n) \in Seq(S) /\ AfterChunk(q, n) \in Seq(S)
  BY ChunkIs, AfterChunkIs
<1>3. DOMAIN Chunk(q, n) = 1..Len(Chunk(q, n)) /\ DOMAIN AfterChunk(q, n) = 1..Len(AfterChunk(q, n))
  BY <1>2
<1>4. CASE j <= n
  BY <1>1, <1>3, <1>4, ChunkIs
<1>5. CASE j > n
  <2>1. j - n \in 1..Len(AfterChunk(q, n)) /\ AfterChunk(q, n)[j - n] = q[j]
    BY <1>1, <1>5, AfterChunkIs
  <2>. QED
    BY <1>3, <2>1
<1>. QED
  BY <1>1, <1>4, <1>5

-------------------------------------------------------------------------------
(* What the process sends.                                                 *)

LEMMA TransactionIs ==
    ASSUME NEW s
    PROVE  LET t == TransactionOf(s)
           IN  /\ t.call = s.call
               /\ s.call = "create" => t.on = s.on /\ t.with = provider
               /\ s.call # "create" => t.on = Resolve(s.on)
               /\ s.call = "initReserves" => t.with = Chunk(process.todo, initChunks)
               /\ s.call = "configureReserves" =>
                     /\ t.with.configurator = Resolve(s.with)
                     /\ t.with.params = Chunk(process.todo, enableChunks)
               /\ s.call = "setAssetSources" =>
                     t.with = [assets |-> [i \in DOMAIN ReserveSymbols |-> Recorded(ReserveSymbols[i])],
                               sources |-> [i \in DOMAIN ReserveSymbols |->
                                               Recorded(AggregatorOf(ReserveSymbols[i]))]]
               /\ s.call \notin {"create", "initReserves", "configureReserves", "setAssetSources"} =>
                     t.with = Resolve(s.with)
<1>. DEFINE t == TransactionOf(s)
            w == CASE s.call = "create" -> provider
                   [] s.call = "initReserves" -> Chunk(process.todo, initChunks)
                   [] s.call = "configureReserves" ->
                        [configurator |-> Resolve(s.with), params |-> Chunk(process.todo, enableChunks)]
                   [] s.call = "setAssetSources" ->
                        [assets |-> [i \in DOMAIN ReserveSymbols |-> Recorded(ReserveSymbols[i])],
                         sources |-> [i \in DOMAIN ReserveSymbols |->
                                         Recorded(AggregatorOf(ReserveSymbols[i]))]]
                   [] OTHER -> Resolve(s.with)
<1>1. t = [call |-> s.call, on |-> IF s.call = "create" THEN s.on ELSE Resolve(s.on), with |-> w]
  BY Zenon DEF TransactionOf
<1>2. s.call = "create" => w = provider
  BY Zenon
<1>3. s.call = "initReserves" => w = Chunk(process.todo, initChunks)
  BY Zenon
<1>4. s.call = "configureReserves" =>
         w = [configurator |-> Resolve(s.with), params |-> Chunk(process.todo, enableChunks)]
  BY Zenon
<1>5. s.call = "setAssetSources" =>
         w = [assets |-> [i \in DOMAIN ReserveSymbols |-> Recorded(ReserveSymbols[i])],
              sources |-> [i \in DOMAIN ReserveSymbols |->
                              Recorded(AggregatorOf(ReserveSymbols[i]))]]
  BY Zenon
<1>6. s.call \notin {"create", "initReserves", "configureReserves", "setAssetSources"} =>
         w = Resolve(s.with)
  OBVIOUS
<1>. HIDE DEF w
<1>7. t.call = s.call /\ t.on = (IF s.call = "create" THEN s.on ELSE Resolve(s.on)) /\ t.with = w
  BY <1>1
<1>. HIDE DEF t
<1>8. s.call = "configureReserves" =>
         t.with.configurator = Resolve(s.with) /\ t.with.params = Chunk(process.todo, enableChunks)
  BY <1>4, <1>7
<1>. QED
  BY <1>2, <1>3, <1>5, <1>6, <1>7, <1>8 DEF t

LEMMA SentOK ==
    ASSUME IInv, process.phase = "ready", step.do \in Sends
    PROVE  TransactionOK(TransactionOf(step))
<1>. DEFINE s == step
            t == TransactionOf(s)
            calls == CalledBy(Script, process.pc, {})
<1>1. ~Finished /\ RecordsOK /\ ProcessOK /\ DoneOK /\ PlanOK /\ WorldOK
  BY DEF IInv, Finished
<1>2. enacted = 0 /\ process.pc \in 1..Len(Script)
  BY <1>1, Deployment
<1>3. process.pc <= process.pc
  BY <1>2, ScriptFacts
<1>4. WellFormed(s) /\ Prepared(s, DOMAIN records, calls)
  BY <1>1, <1>2, <1>3, StepsPrepared DEF step
<1>5. \A c \in calls : /\ c = "setPoolImpl" => IsSet("POOL")
                       /\ c = "setPoolConfiguratorImpl" => IsSet("POOL_CONFIGURATOR")
                       /\ c = "setAddressAsProxy" => IsSet("REWARD_CONTROLLER")
                       /\ c = "initReserves" => AllListed /\ ListingRecorded
                       /\ c = "configureReserves" => AllConfigured
  BY <1>1, <1>2, <1>3, CallsDone
<1>6. s.call = "create" => s.on \in Kinds
  <2>1. s.call = "create" => s.do = "deploy"
    BY <1>4 DEF WellFormed
  <2>. QED
    BY <2>1, <1>2, ScriptFacts DEF step
<1>7. s.do \in Sends
  OBVIOUS
<1>8. /\ t.call = s.call
      /\ s.call = "create" => t.on = s.on /\ t.with = provider
      /\ s.call # "create" => t.on = Resolve(s.on)
      /\ s.call = "initReserves" => t.with = Chunk(process.todo, initChunks)
      /\ s.call = "configureReserves" =>
            /\ t.with.configurator = Resolve(s.with)
            /\ t.with.params = Chunk(process.todo, enableChunks)
      /\ s.call = "setAssetSources" =>
            t.with = [assets |-> [i \in DOMAIN ReserveSymbols |-> Recorded(ReserveSymbols[i])],
                      sources |-> [i \in DOMAIN ReserveSymbols |->
                                      Recorded(AggregatorOf(ReserveSymbols[i]))]]
      /\ s.call \notin {"create", "initReserves", "configureReserves", "setAssetSources"} =>
            t.with = Resolve(s.with)
  BY TransactionIs
<1>9. Rest = process.todo
  BY DEF Rest
<1>10. /\ s.call = "initReserves" => process.todo \in Seq({InitInput(x) : x \in Symbols})
       /\ s.call = "configureReserves" => process.todo \in Seq({ConfigureInput(x) : x \in Symbols})
  BY <1>1, <1>9 DEF PlanOK
<1>. HIDE DEF s, t, calls
<1>11. s.call \in OnProvider \cup Others
  BY <1>4, <1>7 DEF WellFormed
<1>12. \A id : id \in DOMAIN records /\ id \notin Reserved /\ s.call # "create" /\ s.on = id => Calls(t, id)
  BY <1>8, Resolved DEF Calls, IsRecorded, Recorded
<1>13. \A id : id \in DOMAIN records /\ id \notin Reserved /\ s.with = id
          /\ s.call \notin {"create", "initReserves", "configureReserves", "setAssetSources"} => Passes(t, id)
  BY <1>8, Resolved DEF Passes, IsRecorded, Recorded
<1>14. /\ {"PoolAddressesProvider", "PoolDataProvider", "ACLManager", "ProtocolOracle", "EmissionManager",
           "ReservesSetupHelper"} \cap Reserved = {}
       /\ "create" \notin OnProvider /\ "initReserves" \notin OnProvider
       /\ "configureReserves" \notin OnProvider /\ "setAssetSources" \notin OnProvider
  BY DEF Reserved, OnProvider
<1>15. s.call \in OnProvider => Calls(t, "PoolAddressesProvider")
  BY <1>4, <1>12, <1>14 DEF Prepared
<1>16. s.call = "setPoolDataProvider" => Passes(t, "PoolDataProvider")
  BY <1>4, <1>13, <1>14 DEF Prepared
<1>17. s.call = "setACLManager" => Passes(t, "ACLManager")
  BY <1>4, <1>13, <1>14 DEF Prepared
<1>18. s.call = "setPriceOracle" => Passes(t, "ProtocolOracle")
  BY <1>4, <1>13, <1>14 DEF Prepared
<1>19. s.call = "registerAddressesProvider" => Passes(t, "PoolAddressesProvider")
  BY <1>4, <1>13, <1>14 DEF Prepared
<1>20. s.call \in {"setACLAdmin", "addPoolAdmin"} => t.with = Deployer
  BY <1>4, <1>8, Resolved DEF Prepared
<1>21. s.call = "setPoolConfiguratorImpl" => IsSet("POOL")
  BY <1>4, <1>5 DEF Prepared
<1>22. s.call = "setRewardsController" =>
         /\ Calls(t, "EmissionManager")
         /\ IsSet("REWARD_CONTROLLER") /\ t.with = Component("REWARD_CONTROLLER")
  <2>1. ASSUME s.call = "setRewardsController"
        PROVE  IsSet("REWARD_CONTROLLER") /\ t.with = Component("REWARD_CONTROLLER")
    BY <2>1, <1>4, <1>5, <1>8, Resolved DEF Prepared
  <2>2. s.call = "setRewardsController" => Calls(t, "EmissionManager")
    BY <1>4, <1>12, <1>14 DEF Prepared
  <2>. QED
    BY <2>1, <2>2
<1>23. /\ s.call = "addRiskAdmin" => AllListed
       /\ s.call = "removeRiskAdmin" => AllListed /\ AllConfigured
  BY <1>4, <1>5 DEF Prepared
<1>24. s.call = "initReserves" =>
         /\ IsSet("POOL_CONFIGURATOR") /\ t.on = configurator
         /\ ListingRecorded /\ t.with \in Seq({InitInput(x) : x \in Symbols})
  <2>. SUFFICES ASSUME s.call = "initReserves"
                PROVE  /\ IsSet("POOL_CONFIGURATOR") /\ t.on = configurator
                       /\ ListingRecorded /\ t.with \in Seq({InitInput(x) : x \in Symbols})
    OBVIOUS
  <2>1. IsSet("POOL_CONFIGURATOR") /\ ListingRecorded /\ s.on = "POOL_CONFIGURATOR"
    BY <1>4, <1>5 DEF Prepared, ListingRecorded
  <2>2. t.on = configurator
    BY <2>1, <1>8, Resolved DEF configurator
  <2>. DEFINE S == {InitInput(x) : x \in Symbols}
  <2>3. process.todo \in Seq(S) /\ initChunks \in Nat /\ t.with = Chunk(process.todo, initChunks)
    BY <1>8, <1>10 DEF initChunks
  <2>. HIDE DEF S
  <2>4. t.with \in Seq(S)
    BY <2>3, ChunkIs
  <2>. QED
    BY <2>1, <2>2, <2>4 DEF S
<1>25. s.call = "configureReserves" =>
         /\ Calls(t, "ReservesSetupHelper") /\ AllListed
         /\ IsSet("POOL_CONFIGURATOR") /\ t.with.configurator = configurator
         /\ ListingRecorded /\ t.with.params \in Seq({ConfigureInput(x) : x \in Symbols})
  <2>. SUFFICES ASSUME s.call = "configureReserves"
                PROVE  /\ Calls(t, "ReservesSetupHelper") /\ AllListed
                       /\ IsSet("POOL_CONFIGURATOR") /\ t.with.configurator = configurator
                       /\ ListingRecorded /\ t.with.params \in Seq({ConfigureInput(x) : x \in Symbols})
    OBVIOUS
  <2>1. IsSet("POOL_CONFIGURATOR") /\ ListingRecorded /\ AllListed /\ s.with = "POOL_CONFIGURATOR"
    BY <1>4, <1>5 DEF Prepared, ListingRecorded
  <2>2. t.with.configurator = configurator
    BY <2>1, <1>8, Resolved DEF configurator
  <2>3. Calls(t, "ReservesSetupHelper")
    BY <1>4, <1>12, <1>14 DEF Prepared
  <2>. DEFINE S == {ConfigureInput(x) : x \in Symbols}
  <2>4. process.todo \in Seq(S) /\ enableChunks \in Nat /\ t.with.params = Chunk(process.todo, enableChunks)
    BY <1>8, <1>10 DEF enableChunks
  <2>. HIDE DEF S
  <2>5. t.with.params \in Seq(S)
    BY <2>4, ChunkIs
  <2>. QED
    BY <2>1, <2>2, <2>3, <2>5 DEF S
<1>26. s.call = "setAssetSources" =>
         /\ Calls(t, "ProtocolOracle") /\ ListingRecorded
         /\ \A x \in Symbols : IsRecorded(AggregatorOf(x))
         /\ t.with = [assets |-> [i \in DOMAIN ReserveSymbols |-> Recorded(ReserveSymbols[i])],
                      sources |-> [i \in DOMAIN ReserveSymbols |->
                                      Recorded(AggregatorOf(ReserveSymbols[i]))]]
  <2>. SUFFICES ASSUME s.call = "setAssetSources"
                PROVE  /\ Calls(t, "ProtocolOracle") /\ ListingRecorded
                       /\ \A x \in Symbols : IsRecorded(AggregatorOf(x))
                       /\ t.with = [assets |-> [i \in DOMAIN ReserveSymbols |-> Recorded(ReserveSymbols[i])],
                                    sources |-> [i \in DOMAIN ReserveSymbols |->
                                                    Recorded(AggregatorOf(ReserveSymbols[i]))]]
    OBVIOUS
  <2>1. Calls(t, "ProtocolOracle")
    BY <1>4, <1>12, <1>14 DEF Prepared
  <2>2. ListingRecorded /\ {AggregatorOf(x) : x \in Symbols} \subseteq DOMAIN records
    BY <1>4 DEF Prepared, ListingRecorded
  <2>3. \A x \in Symbols : IsRecorded(AggregatorOf(x))
    BY <2>2 DEF IsRecorded
  <2>. QED
    BY <2>1, <2>2, <2>3, <1>8
<1>27. TransactionOK(t)
  BY <1>6, <1>8, <1>11, <1>15, <1>16, <1>17, <1>18, <1>19, <1>20, <1>21, <1>22, <1>23, <1>24,
     <1>25, <1>26 DEF TransactionOK
<1>. QED
  BY <1>27 DEF s, t

-------------------------------------------------------------------------------
(* What the mempool holds from one state to the next.                      *)

QueueOK ==
    /\ IsQueue(mempool) /\ Len(mempool) <= MaxPending
    /\ \A i \in DOMAIN mempool :
           /\ DOMAIN mempool[i] = {"tx", "awaited"} /\ mempool[i].awaited \in BOOLEAN
           /\ TransactionOK(mempool[i].tx)

\* The process waits for nothing: what it does next does not depend on the mempool.
NothingAwaited ==
    /\ process.phase \notin {"waiting", "mined", "reverted"}
    /\ \A i \in DOMAIN mempool : ~mempool[i].awaited
    /\ Finished => mempool = <<>>

LEMMA MempoolSplit ==
    ASSUME MempoolOK
    PROVE  QueueOK /\ Len(mempool) \in Nat /\ DOMAIN mempool = 1..Len(mempool)
BY QueueIs DEF MempoolOK, QueueOK

LEMMA NotAwaited ==
    ASSUME QueueOK, NothingAwaited
    PROVE  MempoolOK
BY DEF QueueOK, NothingAwaited, MempoolOK, Finished

LEMMA NotAwaitedAfter ==
    ASSUME QueueOK', NothingAwaited'
    PROVE  MempoolOK'
<1>1. (QueueOK /\ NothingAwaited => MempoolOK)'
  BY NotAwaited, PTL
<1>. QED
  BY <1>1

LEMMA QueueKept ==
    ASSUME Forward, QueueOK, mempool' = mempool
    PROVE  QueueOK'
BY TransactionKept DEF QueueOK

LEMMA MempoolStays ==
    ASSUME MempoolOK, Forward, mempool' = mempool, process.phase # "waiting",
           process'.phase \notin {"waiting", "mined", "reverted"},
           process'.phase = "finished" => mempool = <<>>
    PROVE  MempoolOK'
<1>1. QueueOK'
  BY MempoolSplit, QueueKept
<1>2. NothingAwaited'
  BY DEF MempoolOK, NothingAwaited, Finished
<1>. QED
  BY <1>1, <1>2, NotAwaitedAfter

\* No step before the last one needs to finish what it waits for.
LEMMA LastWaits ==
    ASSUME IInv, process.pc = Len(Script)
    PROVE  step.call = "setAssetSources" /\ Awaited(step) /\ ~AlreadyDone(step) /\ ~Tolerant(step)
           /\ step.do \in Sends
<1>1. step.call = "setAssetSources" /\ step = Script[Len(Script)]
  BY <1>1, ScriptFacts DEF step
<1>2. Len(Script) \in 1..Len(Script)
  BY ScriptFacts
<1>3. WellFormed(step)
  BY <1>1, <1>2, ScriptFacts DEF InOrder
<1>4. step.do \in Sends /\ ~Tolerant(step) /\ step.do \notin {"deploy", "send"}
  BY <1>1, <1>3 DEF WellFormed, Tolerant
<1>5. Awaited(step)
  BY <1>4 DEF Sends, Awaited, Tolerant
<1>6. ~AlreadyDone(step)
  BY <1>1, DoneBefore
<1>. QED
  BY <1>1, <1>4, <1>5, <1>6

LEMMA LookedUpSame ==
    ASSUME market' = market, records' = records
    PROVE  /\ \A id : Component(id)' = Component(id)
           /\ \A name : Resolve(name)' = Resolve(name)
<1>1. \A id : Recorded(id)' = Recorded(id)
  BY DEF Recorded
<1>2. \A id : Component(id)' = Component(id)
  BY <1>1 DEF Component, provider
<1>. QED
  BY <1>1, <1>2 DEF Resolve

\* What is sent is appended, and awaited if the step says so.
LEMMA QueueSent ==
    ASSUME IInv, Forward, Len(mempool) < MaxPending, NEW t, TransactionOK(t), NEW b \in BOOLEAN,
           NEW e, e = [tx |-> t, awaited |-> b], mempool' = Append(mempool, e)
    PROVE  /\ QueueOK' /\ Len(mempool') = Len(mempool) + 1 /\ mempool'[Len(mempool')].tx = t
           /\ mempool'[Len(mempool')].awaited = b /\ Len(mempool') \in DOMAIN mempool'
           /\ \A i \in DOMAIN mempool' : i \in DOMAIN mempool \/ i = Len(mempool')
           /\ \A i \in DOMAIN mempool : mempool'[i] = mempool[i] /\ i \in DOMAIN mempool'
<1>1. e.tx = t /\ e.awaited = b /\ DOMAIN e = {"tx", "awaited"}
  OBVIOUS
<1>2. QueueOK /\ Len(mempool) \in Nat /\ DOMAIN mempool = 1..Len(mempool) /\ MaxPending \in Nat
  BY MempoolSplit, BoundsAssumption DEF IInv
<1>3. /\ IsQueue(mempool') /\ Len(mempool') = Len(mempool) + 1 /\ mempool'[Len(mempool')] = e
      /\ \A i \in 1..Len(mempool) : mempool'[i] = mempool[i]
  BY <1>2, QueueAppended DEF QueueOK
<1>4. DOMAIN mempool' = 1..Len(mempool')
  BY <1>3, QueueIs
<1>5. \A i \in DOMAIN mempool' : i \in DOMAIN mempool \/ i = Len(mempool')
  BY <1>2, <1>3, <1>4
<1>6. TransactionOK(t)' /\ \A i \in DOMAIN mempool : \A u : u = mempool[i].tx => TransactionOK(u)'
  BY <1>2, TransactionKept DEF QueueOK
<1>7. Len(mempool') <= MaxPending /\ Len(mempool') \in DOMAIN mempool'
  BY <1>2, <1>3, <1>4
<1>8. \A i \in DOMAIN mempool' :
         mempool'[i] = e \/ (i \in DOMAIN mempool /\ mempool'[i] = mempool[i])
  BY <1>2, <1>3, <1>5
<1>9. \A i \in DOMAIN mempool' : DOMAIN mempool'[i] = {"tx", "awaited"} /\ mempool'[i].awaited \in BOOLEAN
  BY <1>1, <1>2, <1>8 DEF QueueOK
<1>10. \A i \in DOMAIN mempool' : \A u : u = mempool'[i].tx => TransactionOK(u)'
  BY <1>1, <1>6, <1>8
<1>11. QueueOK'
  BY <1>3, <1>7, <1>9, <1>10 DEF QueueOK
<1>. QED
  BY <1>1, <1>2, <1>3, <1>4, <1>5, <1>7, <1>11

LEMMA MempoolSent ==
    ASSUME IInv, Forward, process.phase = "ready", step.do \in Sends, Len(mempool) < MaxPending,
           market' = market, records' = records, NEW t, t = TransactionOf(step),
           mempool' = Append(mempool, [tx |-> t, awaited |-> Awaited(step)]),
           IF Awaited(step) THEN process' = [process EXCEPT !.phase = "waiting"]
                            ELSE process'.phase = "ready"
    PROVE  MempoolOK'
<1>. DEFINE e == [tx |-> t, awaited |-> Awaited(step)]
<1>1. TransactionOK(t) /\ Awaited(step) \in BOOLEAN
  BY SentOK DEF Awaited
<1>2. mempool' = Append(mempool, e)
  OBVIOUS
<1>3. /\ QueueOK' /\ Len(mempool') = Len(mempool) + 1 /\ mempool'[Len(mempool')].tx = t
      /\ mempool'[Len(mempool')].awaited = Awaited(step) /\ Len(mempool') \in DOMAIN mempool'
      /\ \A i \in DOMAIN mempool' : i \in DOMAIN mempool \/ i = Len(mempool')
      /\ \A i \in DOMAIN mempool : mempool'[i] = mempool[i] /\ i \in DOMAIN mempool'
  BY <1>1, <1>2, QueueSent
<1>. HIDE DEF e
<1>4. \A i \in DOMAIN mempool : ~mempool[i].awaited
  BY DEF IInv, MempoolOK
<1>5. CASE ~Awaited(step)
  <2>1. process'.phase = "ready"
    BY <1>5
  <2>2. NothingAwaited'
    BY <1>3, <1>4, <1>5, <2>1 DEF NothingAwaited, Finished
  <2>. QED
    BY <1>3, <2>2, NotAwaitedAfter
<1>6. CASE Awaited(step)
  <2>1. DOMAIN process = DOMAIN Start
    BY DEF IInv, ProcessOK
  <2>2. process'.phase = "waiting" /\ process'.pc = process.pc /\ process'.todo = process.todo
    BY <1>6, <2>1, StartIs
  <2>3. step' = step /\ Awaited(step)'
    BY <1>6, <2>2 DEF step, Awaited
  <2>4. Last' = t
    BY <1>3 DEF Last
  <2>5. \A i \in DOMAIN mempool' : mempool'[i].awaited => i = Len(mempool')
    BY <1>3, <1>4
  <2>6. \E i \in DOMAIN mempool' : mempool'[i].awaited
    BY <1>3, <1>6
  <2>7. Resolve(step.on)' = Resolve(step.on)
    BY <2>3, LookedUpSame
  <2>8. /\ t.call = step.call
        /\ step.call = "create" => t.on = step.on
        /\ step.call = "initialize" => t.on = Resolve(step.on)
        /\ step.call = "registerAddressesProvider" => t.on = Resolve(step.on)
        /\ step.call = "initReserves" => t.with = Chunk(process.todo, initChunks)
        /\ step.call = "configureReserves" => t.with.params = Chunk(process.todo, enableChunks)
    BY TransactionIs
  <2>9. /\ Last'.call = step'.call
        /\ step'.call = "create" => Last'.on = step'.on
        /\ step'.call = "initialize" => Last'.on = Resolve(step.on)'
        /\ step'.call = "registerAddressesProvider" => Last'.on = Resolve(step.on)'
        /\ step'.call = "initReserves" => Last'.with = Chunk(process'.todo, initChunks)
        /\ step'.call = "configureReserves" => Last'.with.params = Chunk(process'.todo, enableChunks)
    BY <2>2, <2>3, <2>4, <2>7, <2>8
  <2>. QED
    BY <1>3, <2>2, <2>3, <2>5, <2>6, <2>9 DEF MempoolOK, QueueOK, initChunks, enableChunks
<1>. QED
  BY <1>5, <1>6

-------------------------------------------------------------------------------
(* Executing what is in the mempool.                                       *)

\* What script 10 and the helper rely on.
IsUsable(config) ==
    /\ config.borrowingEnabled \in BOOLEAN /\ config.stableBorrowRateEnabled \in BOOLEAN
    /\ config.liquidationThreshold # 0
    /\ ~config.borrowingEnabled => config.borrowCap = 0 /\ ~config.stableBorrowRateEnabled

LEMMA ConfigurationIs == \A s \in Symbols : IsUsable(ReservesConfig[s])
<1>1. IsUsable(strategyUSDT)
  BY SMT DEF IsUsable, strategyUSDT, IReserveParams
<1>2. IsUsable(strategyDAI)
  BY SMT DEF IsUsable, strategyDAI, IReserveParams
<1>3. IsUsable(strategyUSDC)
  BY SMT DEF IsUsable, strategyUSDC, IReserveParams
<1>4. IsUsable(strategyWETH)
  BY SMT DEF IsUsable, strategyWETH, IReserveParams
<1>5. IsUsable(strategyWBTC)
  BY SMT DEF IsUsable, strategyWBTC, IReserveParams
<1>6. IsUsable(strategyBLEND)
  BY SMT DEF IsUsable, strategyBLEND, IReserveParams
<1>7. ReservesConfig \in [DOMAIN ReservesConfig -> {strategyUSDT, strategyDAI, strategyUSDC,
                             strategyWETH, strategyWBTC, strategyBLEND}]
  BY SMT DEF ReservesConfig
<1>8. \A s \in DOMAIN ReservesConfig :
         ReservesConfig[s] \in {strategyUSDT, strategyDAI, strategyUSDC,
                                strategyWETH, strategyWBTC, strategyBLEND}
  BY <1>7, SMT
<1>. QED
  BY <1>1, <1>2, <1>3, <1>4, <1>5, <1>6, <1>8, Reservations

LEMMA ConfigureInputIs ==
    ASSUME NEW s
    PROVE  LET p == ConfigureInput(s)
               config == ReservesConfig[s]
           IN  /\ p.asset = Recorded(s) /\ p.baseLTV = config.baseLTVAsCollateral
               /\ p.liquidationThreshold = config.liquidationThreshold
               /\ p.liquidationBonus = config.liquidationBonus /\ p.reserveFactor = config.reserveFactor
               /\ p.borrowCap = config.borrowCap /\ p.supplyCap = config.supplyCap
               /\ p.stableBorrowingEnabled = config.stableBorrowRateEnabled
               /\ p.borrowingEnabled = config.borrowingEnabled
               /\ p.flashLoanEnabled = config.flashLoanEnabled
BY DEF ConfigureInput

LEMMA InitInputIs ==
    ASSUME NEW s
    PROVE  LET p == InitInput(s)
           IN  p.asset = Recorded(s) /\ p.strategy = Recorded(ReservesConfig[s].strategy)
BY DEF InitInput

LEMMA NamedApart ==
    ASSUME NamesOK, ListingRecorded, NEW s \in Symbols, NEW t \in Symbols, Recorded(s) = Recorded(t)
    PROVE  s = t
BY DEF NamesOK, ListingRecorded, ListingIds, Recorded

LEMMA ParamsConsistent ==
    ASSUME NamesOK, ListingRecorded, NEW params, params \in Seq({ConfigureInput(s) : s \in Symbols})
    PROVE  IsConsistent(params)
<1>1. Len(params) \in Nat
  OBVIOUS
<1>2. \A i \in 1..Len(params) : \E s \in Symbols : params[i] = ConfigureInput(s)
  <2>. DEFINE S == {ConfigureInput(s) : s \in Symbols}
  <2>1. params \in Seq(S)
    OBVIOUS
  <2>2. \A p \in S : \E s \in Symbols : p = ConfigureInput(s)
    OBVIOUS
  <2>. HIDE DEF S
  <2>3. \A i \in 1..Len(params) : params[i] \in S
    BY <2>1
  <2>. QED
    BY <2>2, <2>3
<1>3. \A i \in 1..Len(params) : /\ params[i].borrowingEnabled \in BOOLEAN
                                /\ params[i].stableBorrowingEnabled \in BOOLEAN
  BY <1>2, ConfigureInputIs, ConfigurationIs DEF IsUsable
<1>4. ASSUME NEW i \in 1..Len(params), NEW j \in 1..Len(params), params[i].asset = params[j].asset
      PROVE  params[i] = params[j]
  <2>1. PICK s \in Symbols : params[i] = ConfigureInput(s)
    BY <1>2
  <2>2. PICK t \in Symbols : params[j] = ConfigureInput(t)
    BY <1>2
  <2>3. Recorded(s) = Recorded(t)
    BY <1>4, <2>1, <2>2, ConfigureInputIs
  <2>4. s = t
    BY <2>3, NamedApart
  <2>. QED
    BY <2>1, <2>2, <2>4
<1>. QED
  BY <1>1, <1>3, <1>4 DEF IsConsistent

LEMMA IsSendable ==
    ASSUME NamesOK, NEW tx, TransactionOK(tx), NEW c, market.contracts \subseteq c.contracts
    PROVE  Sendable(c, tx)
<1>1. \A id : Calls(tx, id) => tx.on \in c.contracts
  BY DEF Calls, IsRecorded, NamesOK
<1>2. tx.call \in OnProvider \cup {"setRewardsController"} => tx.on \in c.contracts
  BY <1>1 DEF TransactionOK
<1>3. ASSUME tx.call = "initReserves" PROVE Len(tx.with) \in Nat
  <2>1. tx.with \in Seq({InitInput(s) : s \in Symbols})
    BY <1>3 DEF TransactionOK
  <2>. QED
    BY <2>1
<1>4. ASSUME tx.call = "configureReserves" PROVE IsConsistent(tx.with.params)
  <2>1. ListingRecorded /\ tx.with.params \in Seq({ConfigureInput(s) : s \in Symbols})
    BY <1>4 DEF TransactionOK
  <2>. QED
    BY <2>1, ParamsConsistent
<1>5. ASSUME tx.call = "setAssetSources" PROVE Len(tx.with.assets) \in Nat
  <2>. DEFINE f == [i \in DOMAIN ReserveSymbols |-> Recorded(ReserveSymbols[i])]
              g == [i \in DOMAIN ReserveSymbols |-> Recorded(AggregatorOf(ReserveSymbols[i]))]
  <2>1. tx.with = [assets |-> f, sources |-> g]
    BY <1>5 DEF TransactionOK
  <2>2. Len(ReserveSymbols) \in Nat /\ DOMAIN ReserveSymbols = 1..Len(ReserveSymbols)
    BY Reservations
  <2>3. DOMAIN f = 1..Len(ReserveSymbols) /\ f = [i \in 1..Len(ReserveSymbols) |-> f[i]]
    BY <2>2
  <2>. HIDE DEF f, g
  <2>4. Len(f) = Len(ReserveSymbols)
    BY <2>2, <2>3, QueueOf
  <2>. QED
    BY <2>1, <2>2, <2>4
<1>. QED
  BY <1>2, <1>3, <1>4, <1>5 DEF Sendable, TransactionOK

PendingSteps(f) ==
    /\ f[0] = market
    /\ \A i \in 1..Len(mempool) : f[i] = Effect(f[i - 1], mempool[i].tx)
    /\ Pending = f[Len(mempool)]

LEMMA PendingUnfolds ==
    ASSUME Len(mempool) \in Nat
    PROVE  \E f : PendingSteps(f)
<1>. DEFINE n == Len(mempool)
            G(x, i) == Effect(x, mempool[i].tx)
            P(f, m) == f = [i \in 0..m |-> IF i = 0 THEN market ELSE G(f[i - 1], i)]
            F == CHOOSE f : P(f, n)
            T == {m \in Nat : \E f : P(f, m)}
<1>1. Pending = F[n]
  BY DEF Pending
<1>2. n \in Nat
  OBVIOUS
<1>. HIDE DEF G
<1>3. 0 \in T
  <2>1. P([i \in 0..0 |-> market], 0)
    OBVIOUS
  <2>. QED
    BY <2>1
<1>4. ASSUME NEW m \in Nat, m \in T PROVE m + 1 \in T
  <2>1. PICK f : P(f, m)
    BY <1>4
  <2>. DEFINE g == [i \in 0..(m + 1) |-> IF i = m + 1 THEN G(f[m], m + 1) ELSE f[i]]
  <2>2. ASSUME NEW i \in 0..(m + 1)
        PROVE  g[i] = IF i = 0 THEN market ELSE G(g[i - 1], i)
    <3>1. CASE i = m + 1
      <4>1. i # 0 /\ i - 1 = m /\ m \in 0..(m + 1) /\ m # m + 1
        BY <3>1
      <4>. QED
        BY <4>1, <3>1
    <3>2. CASE i # m + 1
      <4>1. i \in 0..m /\ (i # 0 => i - 1 \in 0..m /\ i - 1 \in 0..(m + 1) /\ i - 1 # m + 1)
        BY <3>2
      <4>. QED
        BY <4>1, <3>2, <2>1
    <3>. QED
      BY <3>1, <3>2
  <2>3. P(g, m + 1)
    <3>1. g = [i \in 0..(m + 1) |-> g[i]]
      OBVIOUS
    <3>. HIDE DEF g
    <3>. QED
      BY <2>2, <3>1
  <2>4. m + 1 \in Nat
    OBVIOUS
  <2>. QED
    BY <2>3, <2>4
<1>5. n \in T
  <2>. HIDE DEF T, n
  <2>. QED
    BY <1>2, <1>3, <1>4, InductionOverNat
<1>6. P(F, n)
  BY <1>5
<1>. HIDE DEF F
<1>7. PendingSteps(F)
  BY <1>1, <1>2, <1>6 DEF PendingSteps, G
<1>. QED
  BY <1>7

\* A contract that was there before the mempool is initialised by what is in it, or was.
LEMMA PendingIs ==
    ASSUME WorldOK, QueueOK
    PROVE  /\ IsContracts(Pending) /\ market.contracts \subseteq Pending.contracts
           /\ ~Pending.reverted
           /\ \A a \in market.contracts \cap Pending.initialised : Initialising(a)
<1>1. Len(mempool) \in Nat /\ DOMAIN mempool = 1..Len(mempool)
  BY QueueIs DEF QueueOK
<1>2. PICK f : PendingSteps(f)
  BY <1>1, PendingUnfolds
<1>. DEFINE Q(c) == /\ IsContracts(c) /\ market.contracts \subseteq c.contracts /\ ~c.reverted
                    /\ \A a \in market.contracts \cap c.initialised : Initialising(a)
            T == {i \in Nat : i <= Len(mempool) => Q(f[i])}
<1>3. 0 \in T
  BY <1>2 DEF PendingSteps, WorldOK, Initialising
<1>4. ASSUME NEW m \in Nat, m \in T PROVE m + 1 \in T
  <2>. SUFFICES ASSUME m + 1 <= Len(mempool) PROVE Q(f[m + 1])
    OBVIOUS
  <2>1. Q(f[m]) /\ m + 1 \in 1..Len(mempool) /\ (m + 1) - 1 = m
    BY <1>1, <1>4
  <2>. DEFINE c == f[m]
              d == f[m + 1]
              tx == mempool[m + 1].tx
  <2>2. d = Effect(c, tx)
    BY <1>2, <2>1 DEF PendingSteps
  <2>3. TransactionOK(tx) /\ NamesOK
    BY <1>1, <2>1 DEF QueueOK, WorldOK
  <2>4. \A a : tx.call = "initialize" /\ a = tx.on => Initialising(a)
    BY <1>1, <2>1 DEF Initialising
  <2>5. Q(c)
    BY <2>1
  <2>. HIDE DEF c, d, tx
  <2>6. CASE Executed(c, tx).reverted
    <3>1. Q(d)
      BY <2>2, <2>5, <2>6 DEF Effect
    <3>. QED
      BY <3>1 DEF d
  <2>7. CASE ~Executed(c, tx).reverted
    <3>1. d = Executed(c, tx) /\ ~d.reverted
      BY <2>2, <2>7 DEF Effect
    <3>2. Sendable(c, tx)
      BY <2>3, <2>5, IsSendable
    <3>3. Effects(c, d, tx)
      BY <2>5, <2>7, <3>1, <3>2, TransactionEffects
    <3>4. EffectOnContracts(c, d, tx)
      BY <3>3 DEF Effects
    <3>5. IsContracts(d) /\ market.contracts \subseteq d.contracts
      BY <2>5, <3>4 DEF EffectOnContracts
    <3>6. \A a \in market.contracts \cap d.initialised : Initialising(a)
      BY <2>4, <2>5, <3>4 DEF EffectOnContracts
    <3>7. Q(d)
      BY <3>1, <3>5, <3>6
    <3>. QED
      BY <3>7 DEF d
  <2>. QED
    BY <2>6, <2>7
<1>5. Len(mempool) \in T
  <2>. HIDE DEF T
  <2>. QED
    BY <1>1, <1>3, <1>4, InductionOverNat
<1>6. Q(Pending)
  BY <1>1, <1>2, <1>5 DEF PendingSteps
<1>. QED
  BY <1>6

-------------------------------------------------------------------------------
(* Steps of the process that leave everything else alone.                  *)

Elsewhere == <<market, records, mempool, blocks, index, crashes, enacted>>

LEMMA ElsewhereForward ==
    ASSUME UNCHANGED Elsewhere
    PROVE  Forward /\ (WorldOK => WorldOK')
<1>1. \A a : Initialising(a) => Initialising(a)'
  BY DEF Elsewhere, Initialising
<1>. QED
  BY <1>1, FrameForward, FrameWorld DEF Elsewhere

LEMMA OnlyAdvances ==
    ASSUME IInv, ~Finished, UNCHANGED Elsewhere, process' = Advanced(process),
           step.ids \subseteq DOMAIN records, Done(step), process.phase # "waiting",
           process.phase = "mined" => step.call \notin Planning,
           step.do \notin {"planListing", "planConfiguration"},
           process.pc # Len(Script)
    PROVE  IInv'
<1>1. Forward /\ WorldOK'
  BY ElsewhereForward DEF IInv
<1>2. /\ RecordsOK /\ ProcessOK /\ process.pc \in 1..Len(Script) /\ process.pc <= process.pc
      /\ DOMAIN process = DOMAIN Start
  BY Deployment, ScriptFacts DEF IInv, ProcessOK
<1>3. WellFormed(step) /\ Prepared(step, DOMAIN records, CalledBy(Script, process.pc, {}))
  BY <1>2, StepsPrepared DEF step
<1>4. \A s : s = step => Done(s)'
  <2>. TAKE s
  <2>. HAVE s = step
  <2>1. WellFormed(s) /\ Prepared(s, DOMAIN records, CalledBy(Script, process.pc, {})) /\ Done(s)
    BY <1>3
  <2>. QED
    BY <1>1, <2>1, DoneKept
<1>5. RecordsOK' /\ ProcessOK' /\ DoneOK'
  <2>. DEFINE s == step
  <2>1. \E t : t = step
    OBVIOUS
  <2>2. PICK t : t = step
    BY <2>1
  <2>3. t.ids \subseteq DOMAIN records' /\ Done(t)'
    BY <1>4, <2>2 DEF Elsewhere
  <2>. QED
    BY <1>1, <2>2, <2>3, Advances DEF Elsewhere
<1>6. PlanOK'
  BY <1>1, PlanAdvances DEF Planning
<1>7. process'.phase = "ready"
  BY <1>2, AdvancedIs
<1>8. MempoolOK'
  BY <1>1, <1>7, MempoolStays DEF IInv, Elsewhere
<1>. QED
  BY <1>1, <1>5, <1>6, <1>8 DEF IInv

LEMMA OnlyRestarts ==
    ASSUME IInv, ~Finished, UNCHANGED Elsewhere, process' \in {Start, Failed},
           process.phase # "waiting"
    PROVE  IInv'
<1>1. Forward /\ WorldOK'
  BY ElsewhereForward DEF IInv
<1>2. ProcessOK /\ crashes' \in Nat /\ crashes' + enacted <= MaxDisturbances
  BY DEF IInv, ProcessOK, Elsewhere
<1>3. RecordsOK' /\ ProcessOK' /\ DoneOK' /\ PlanOK'
  BY <1>2, Restarts DEF Elsewhere
<1>4. process'.phase \in {"ready", "failed"}
  BY StartIs
<1>5. MempoolOK'
  BY <1>1, <1>4, MempoolStays DEF IInv, Elsewhere
<1>. QED
  BY <1>1, <1>3, <1>5 DEF IInv

\* What the process knows of its step.
LEMMA StepIs ==
    ASSUME IInv, ~Finished
    PROVE  /\ enacted = 0 /\ process.pc \in 1..Len(Script) /\ DOMAIN process = DOMAIN Start
           /\ WellFormed(step) /\ Prepared(step, DOMAIN records, CalledBy(Script, process.pc, {}))
<1>1. /\ RecordsOK /\ ProcessOK /\ process.pc \in 1..Len(Script) /\ process.pc <= process.pc
      /\ enacted = 0 /\ DOMAIN process = DOMAIN Start
  BY Deployment, ScriptFacts DEF IInv, ProcessOK
<1>. QED
  BY <1>1, StepsPrepared DEF step

LEMMA SkipKeeps ==
    ASSUME IInv, Skip
    PROVE  IInv'
<1>1. /\ process.phase = "ready" /\ step.do \in Sends /\ AlreadyDone(step)
      /\ process' = Advanced(process) /\ UNCHANGED Elsewhere
  BY DEF Skip, Ready, Elsewhere
<1>2. ~Finished /\ process.pc # Len(Script)
  BY <1>1, LastWaits DEF Finished
<1>3. WellFormed(step)
  BY <1>2, StepIs
<1>4. step.do \notin {"planListing", "planConfiguration", "check"}
  BY <1>1 DEF Sends
<1>5. step.ids \subseteq DOMAIN records
  <2>1. step.call = "create" => AlreadyDeployed(step)
    BY <1>1, DoneBefore
  <2>2. step.call # "create" => step.ids = {}
    BY <1>1, <1>3 DEF WellFormed, Sends
  <2>. QED
    BY <2>1, <2>2 DEF AlreadyDeployed
<1>6. Rest = process.todo /\ PlanOK
  BY <1>1 DEF Rest, IInv
<1>7. step.call = "initReserves" => AllListed
  <2>. SUFFICES ASSUME step.call = "initReserves" PROVE AllListed
    OBVIOUS
  <2>1. Rest = <<>>
    BY <1>1, <1>6, DoneBefore DEF InChunks
  <2>2. \A s \in Symbols : Listed(s) \/ Planned(InitInput(s))
    BY <1>2, <1>6 DEF PlanOK
  <2>. QED
    BY <2>1, <2>2 DEF AllListed, Planned
<1>8. step.call = "configureReserves" => AllConfigured
  <2>. SUFFICES ASSUME step.call = "configureReserves" PROVE AllConfigured
    OBVIOUS
  <2>1. Rest = <<>>
    BY <1>1, <1>6, DoneBefore DEF InChunks
  <2>2. \A s \in Symbols : IsCollateral(s) \/ Planned(ConfigureInput(s))
    BY <1>2, <1>6 DEF PlanOK
  <2>. QED
    BY <2>1, <2>2 DEF AllConfigured, Planned
<1>9. step.call \notin {"initialize", "setAssetSources"}
  BY <1>1, DoneBefore
<1>10. Done(step)
  BY <1>1, <1>3, <1>4, <1>7, <1>8, <1>9, DoneCases DEF Lists
<1>. QED
  BY <1>1, <1>2, <1>4, <1>5, <1>10, OnlyAdvances

LEMMA EstimationFailsKeeps ==
    ASSUME IInv, EstimationFails
    PROVE  IInv'
<1>1. /\ process.phase = "ready" /\ step.do \in Sends /\ Continue(Tolerant(step))
      /\ UNCHANGED Elsewhere
      /\ \E view \in {market, Pending} : Executed(view, TransactionOf(step)).reverted
  BY DEF EstimationFails, Ready, Elsewhere
<1>2. ~Finished /\ WellFormed(step)
  BY <1>1, StepIs DEF Finished
<1>3. CASE ~Tolerant(step)
  <2>1. process' = Failed
    BY <1>1, <1>3 DEF Continue
  <2>. QED
    BY <1>1, <1>2, <2>1, OnlyRestarts
<1>4. CASE Tolerant(step)
  <2>1. process' = Advanced(process)
    BY <1>1, <1>4 DEF Continue
  <2>2. step.call = "initialize" /\ process.pc # Len(Script)
    BY <1>2, <1>4, LastWaits DEF WellFormed
  <2>3. step.ids = {} /\ step.do \notin {"planListing", "planConfiguration"}
    BY <1>2, <1>4, <2>2 DEF WellFormed, Tolerant
  <2>4. step.on \in DOMAIN records \ Reserved
    BY <1>2, <2>2, StepIs DEF Prepared
  <2>. DEFINE a == Recorded(step.on)
              t == TransactionOf(step)
  <2>5. t.call = "initialize" /\ t.on = a
    BY <2>2, <2>4, TransactionIs, Resolved
  <2>6. a \in market.contracts
    BY <2>4 DEF IInv, WorldOK, NamesOK, Recorded
  <2>7. PICK view \in {market, Pending} : Executed(view, t).reverted
    BY <1>1
  <2>8. QueueOK /\ WorldOK
    BY MempoolSplit DEF IInv
  <2>9. IsContracts(view) /\ ~view.reverted
    BY <2>8, PendingIs DEF WorldOK
  <2>10. Executed(view, t) = initialize(view, a)
    BY <2>5, ExecutedCalls
  <2>. HIDE DEF t, a
  <2>11. a \in view.initialised
    BY <2>7, <2>9, <2>10, ContractsAre, InitializeChanges
  <2>12. Initialising(a)
    BY <2>6, <2>8, <2>11, PendingIs DEF Initialising
  <2>13. Done(step)
    BY <1>2, <2>2, <2>12, DoneCases DEF a
  <2>. QED
    BY <1>1, <1>2, <2>1, <2>2, <2>3, <2>13, OnlyAdvances
<1>. QED
  BY <1>3, <1>4

LEMMA WakeRevertedKeeps ==
    ASSUME IInv, WakeReverted
    PROVE  IInv'
<1>1. process.phase = "reverted" /\ Continue(Tolerant(step)) /\ UNCHANGED Elsewhere
  BY DEF WakeReverted, Elsewhere
<1>2. ~Finished
  BY <1>1 DEF Finished
<1>3. WellFormed(step) /\ enacted = 0
  BY <1>2, StepIs
<1>4. CASE ~Tolerant(step)
  <2>1. process' = Failed
    BY <1>1, <1>4 DEF Continue
  <2>. QED
    BY <1>1, <1>2, <2>1, OnlyRestarts
<1>5. CASE Tolerant(step)
  <2>1. process' = Advanced(process)
    BY <1>1, <1>5 DEF Continue
  <2>2. step.call = "initialize" /\ process.pc # Len(Script)
    BY <1>3, <1>5, LastWaits DEF WellFormed
  <2>3. step.ids = {} /\ step.do \notin {"planListing", "planConfiguration"}
    BY <1>3, <1>5, <2>2 DEF WellFormed, Tolerant
  <2>4. Initialising(Recorded(step.on))
    BY <1>1, <1>3, <2>2 DEF IInv, DoneOK, Initialising
  <2>5. Done(step)
    BY <1>3, <2>2, <2>4, DoneCases
  <2>. QED
    BY <1>1, <1>2, <2>1, <2>2, <2>3, <2>5, OnlyAdvances
<1>. QED
  BY <1>4, <1>5

LEMMA LookUpKeeps ==
    ASSUME IInv, LookUp
    PROVE  IInv'
<1>. DEFINE found == IF step.do = "get" THEN step.ids \subseteq DOMAIN records
                     ELSE \A role \in {"DEFAULT_ADMIN", "POOL_ADMIN", "EMERGENCY_ADMIN"} :
                             HasRole(market, Resolve(step.on), role, Deployer)
<1>1. /\ process.phase = "ready" /\ step.do \in {"get", "check"} /\ Continue(found)
      /\ UNCHANGED Elsewhere
  BY DEF LookUp, Ready, Elsewhere
<1>2. ~Finished
  BY <1>1 DEF Finished
<1>3. WellFormed(step) /\ Prepared(step, DOMAIN records, CalledBy(Script, process.pc, {}))
  BY <1>2, StepIs
<1>4. CASE ~found
  <2>1. process' = Failed
    BY <1>1, <1>4 DEF Continue
  <2>. QED
    BY <1>1, <1>2, <2>1, OnlyRestarts
<1>5. CASE found
  <2>1. process' = Advanced(process)
    BY <1>1, <1>5 DEF Continue
  <2>2. step.call = "" /\ process.pc # Len(Script)
    BY <1>1, <1>3, LastWaits DEF WellFormed, Sends
  <2>3. step.do = "get" => step.ids \subseteq DOMAIN records
    BY <1>5
  <2>4. step.do = "check" => step.ids = {} /\ IsAdministered
    <3>. SUFFICES ASSUME step.do = "check" PROVE step.ids = {} /\ IsAdministered
      OBVIOUS
    <3>1. step.ids = {} /\ step.on = "ACLManager"
      BY <1>3 DEF WellFormed, Prepared
    <3>2. Resolve(step.on) = Recorded("ACLManager")
      BY <3>1, Resolved DEF Reserved
    <3>. QED
      BY <1>5, <3>1, <3>2 DEF IsAdministered
  <2>5. ~Settles(step) /\ ~Lists(step)
    BY <2>2 DEF Settles, Lists, OnProvider
  <2>6. Done(step)
    BY <1>1, <1>3, <2>4, <2>5, DoneCases
  <2>7. step.ids \subseteq DOMAIN records
    BY <1>1, <2>3, <2>4
  <2>. QED
    BY <1>1, <1>2, <2>1, <2>2, <2>6, <2>7, OnlyAdvances
<1>. QED
  BY <1>4, <1>5

LEMMA RerunKeeps ==
    ASSUME IInv, Rerun
    PROVE  IInv'
<1>1. process.phase = "failed" /\ process' \in {Start, Failed} /\ UNCHANGED Elsewhere
  BY DEF Rerun, Elsewhere
<1>. QED
  BY <1>1, OnlyRestarts DEF Finished

\* What was sent before a crash is still mined.
LEMMA CrashKeeps ==
    ASSUME IInv, Crash
    PROVE  IInv'
<1>1. /\ process.phase \notin {"failed", "finished"} /\ crashes + enacted < MaxDisturbances
      /\ crashes' = crashes + 1 /\ process' = Failed
      /\ mempool' = [i \in DOMAIN mempool |-> [mempool[i] EXCEPT !.awaited = FALSE]]
      /\ market' = market /\ records' = records /\ enacted' = enacted /\ index' = index
  BY DEF Crash
<1>2. ~Finished /\ ProcessOK /\ QueueOK /\ MaxDisturbances \in Nat /\ WorldOK
  BY <1>1, MempoolSplit, BoundsAssumption DEF Finished, IInv
<1>3. DOMAIN mempool' = DOMAIN mempool /\ Len(mempool) \in Nat /\ DOMAIN mempool = 1..Len(mempool)
  BY <1>1, <1>2, QueueIs DEF QueueOK
<1>4. \A i \in DOMAIN mempool : /\ DOMAIN mempool'[i] = {"tx", "awaited"}
                                /\ mempool'[i].awaited = FALSE /\ mempool'[i].tx = mempool[i].tx
  BY <1>1, <1>2 DEF QueueOK
<1>5. \A a : Initialising(a) => Initialising(a)'
  BY <1>1, <1>3, <1>4 DEF Initialising
<1>6. Forward /\ WorldOK'
  BY <1>1, <1>2, <1>5, FrameForward, FrameWorld
<1>7. IsQueue(mempool') /\ Len(mempool') = Len(mempool)
  <2>1. mempool' = [i \in 1..Len(mempool) |-> mempool'[i]]
    BY <1>1, <1>3
  <2>. QED
    BY <1>3, <2>1, QueueOf
<1>8. \A i \in DOMAIN mempool' : \A u : u = mempool'[i].tx => TransactionOK(u)'
  BY <1>2, <1>3, <1>4, <1>6, TransactionKept DEF QueueOK
<1>9. QueueOK'
  BY <1>2, <1>3, <1>4, <1>7, <1>8 DEF QueueOK
<1>10. NothingAwaited'
  BY <1>1, <1>3, <1>4, StartIs DEF NothingAwaited, Finished
<1>11. crashes' \in Nat /\ crashes' + enacted <= MaxDisturbances
  BY <1>1, <1>2 DEF ProcessOK
<1>12. RecordsOK' /\ ProcessOK' /\ DoneOK' /\ PlanOK'
  BY <1>1, <1>2, <1>11, Restarts
<1>. QED
  BY <1>6, <1>9, <1>10, <1>12, NotAwaitedAfter DEF IInv

LEMMA SentForward ==
    ASSUME MempoolOK, market' = market, records' = records, NEW e, mempool' = Append(mempool, e)
    PROVE  /\ Forward
           /\ e.tx.call = "initialize" => Initialising(e.tx.on)'
<1>1. IsQueue(mempool) /\ Len(mempool) \in Nat /\ DOMAIN mempool = 1..Len(mempool)
  BY QueueIs DEF MempoolOK
<1>2. /\ IsQueue(mempool') /\ Len(mempool') = Len(mempool) + 1 /\ mempool'[Len(mempool')] = e
      /\ \A i \in 1..Len(mempool) : mempool'[i] = mempool[i]
  BY <1>1, QueueAppended
<1>3. DOMAIN mempool' = 1..Len(mempool')
  BY <1>2, QueueIs
<1>4. DOMAIN mempool \subseteq DOMAIN mempool' /\ Len(mempool') \in DOMAIN mempool'
  BY <1>1, <1>2, <1>3
<1>5. \A a : Initialising(a) => Initialising(a)'
  BY <1>1, <1>2, <1>4 DEF Initialising
<1>6. e.tx.call = "initialize" => Initialising(e.tx.on)'
  BY <1>2, <1>4 DEF Initialising
<1>. QED
  BY <1>5, <1>6, FrameForward

LEMMA SendKeeps ==
    ASSUME IInv, SendTransaction
    PROVE  IInv'
<1>1. /\ process.phase = "ready" /\ step.do \in Sends /\ ~AlreadyDone(step) /\ Len(mempool) < MaxPending
      /\ market' = market /\ records' = records /\ crashes' = crashes /\ enacted' = enacted
      /\ index' = index
      /\ mempool' = Append(mempool, [tx |-> TransactionOf(step), awaited |-> Awaited(step)])
      /\ process' = IF Awaited(step) THEN [process EXCEPT !.phase = "waiting"] ELSE Advanced(process)
  BY DEF SendTransaction, Ready
<1>2. \E u : u = TransactionOf(step)
  OBVIOUS
<1>3. PICK t : t = TransactionOf(step)
  BY <1>2
<1>4. PICK s : s = step
  <2>1. \E u : u = step
    OBVIOUS
  <2>. QED
    BY <2>1
<1>5. ~Finished
  BY <1>1 DEF Finished
<1>6. /\ enacted = 0 /\ process.pc \in 1..Len(Script) /\ DOMAIN process = DOMAIN Start
      /\ WellFormed(s) /\ Prepared(s, DOMAIN records, CalledBy(Script, process.pc, {}))
      /\ WorldOK /\ RecordsOK /\ ProcessOK /\ DoneOK /\ MempoolOK
  BY <1>4, <1>5, StepIs DEF IInv
<1>. DEFINE e == [tx |-> t, awaited |-> Awaited(step)]
<1>7. mempool' = Append(mempool, e) /\ e.tx = t
  BY <1>1, <1>3
<1>. HIDE DEF e
<1>8. Forward /\ (t.call = "initialize" => Initialising(t.on)')
  BY <1>1, <1>6, <1>7, SentForward
<1>9. WorldOK'
  BY <1>1, <1>6, FrameWorld
<1>10. CASE Awaited(step)
  <2>1. /\ DOMAIN process' = DOMAIN process /\ process'.phase = "waiting" /\ process'.pc = process.pc
        /\ process'.todo = process.todo /\ process'.configuring = process.configuring
    BY <1>1, <1>6, <1>10, StartIs
  <2>2. MempoolOK'
    BY <1>1, <1>3, <1>8, <1>10, MempoolSent
  <2>3. Rest' = Rest
    BY <1>1, <2>1 DEF Rest
  <2>4. PlanOK'
    BY <1>5, <1>8, <2>1, <2>3, PlanStays
  <2>5. step' = step
    BY <2>1 DEF step
  <2>6. s.do = "deploy" => s.ids \cap DOMAIN records = {}
    <3>. SUFFICES ASSUME s.do = "deploy" PROVE s.ids \cap DOMAIN records = {}
      OBVIOUS
    <3>1. s.call = "create" /\ \E id \in s.ids : s.ids = {id}
      BY <1>6 DEF WellFormed
    <3>2. ~(s.ids \subseteq DOMAIN records)
      BY <1>1, <1>4, <3>1, DoneBefore DEF AlreadyDeployed
    <3>. QED
      BY <3>1, <3>2
  <2>7. RecordsOK'
    <3>1. \A j \in 1..(process.pc - 1) : Script[j].ids \subseteq DOMAIN records
      BY <1>6 DEF RecordsOK
    <3>. QED
      BY <1>1, <1>4, <2>1, <2>5, <2>6, <3>1 DEF RecordsOK
  <2>8. DoneOK'
    <3>1. \A j \in 1..(process.pc - 1) : Done(Script[j])'
      BY <1>6, <1>8, BehindKept
    <3>. QED
      BY <2>1, <3>1 DEF DoneOK
  <2>9. ProcessOK'
    <3>1. ~Finished'
      BY <2>1 DEF Finished
    <3>2. index.sources = {} /\ process.pc # Len(Script) + 1
      BY <1>5, <1>6, Deployment DEF ProcessOK
    <3>3. DOMAIN Start' = DOMAIN Start
      BY DEF Start
    <3>. QED
      BY <1>1, <1>6, <2>1, <3>1, <3>2, <3>3 DEF ProcessOK
  <2>. QED
    BY <1>9, <2>2, <2>4, <2>7, <2>8, <2>9 DEF IInv
<1>11. CASE ~Awaited(step)
  <2>1. process' = Advanced(process)
    BY <1>1, <1>11
  <2>2. process.pc # Len(Script)
    BY <1>11, LastWaits
  <2>3. process'.phase = "ready"
    BY <1>6, <2>1, <2>2, AdvancedIs
  <2>4. MempoolOK'
    BY <1>1, <1>3, <1>8, <1>11, <2>3, MempoolSent
  <2>5. s.do \in {"send", "trySend"}
    BY <1>1, <1>4, <1>11 DEF Sends, Awaited
  <2>6. /\ s.call \in {"addRiskAdmin", "initialize"} /\ s.ids = {} /\ s.do # "check"
        /\ s.do \notin {"planListing", "planConfiguration"}
    BY <1>6, <2>5 DEF WellFormed, Tolerant
  <2>7. Done(s)'
    <3>1. CASE s.call = "addRiskAdmin"
      BY <1>6, <2>6, <3>1, DoneAfter DEF Settles, Lists, OnProvider
    <3>2. CASE s.call = "initialize"
      <4>1. s.on \in DOMAIN records \ Reserved
        BY <1>6, <3>2 DEF Prepared
      <4>2. t.call = "initialize" /\ t.on = Recorded(s.on)
        BY <1>3, <1>4, <3>2, <4>1, TransactionIs, Resolved
      <4>3. \A b : b = Recorded(s.on) => Initialising(b)'
        BY <1>8, <4>2
      <4>4. Recorded(s.on)' = Recorded(s.on)
        BY <1>1 DEF Recorded
      <4>5. Initialising(Recorded(s.on))'
        <5>1. \E b : b = Recorded(s.on)
          OBVIOUS
        <5>2. PICK b : b = Recorded(s.on)
          BY <5>1
        <5>3. Initialising(b)' /\ b = Recorded(s.on)'
          BY <4>3, <4>4, <5>2
        <5>. QED
          BY <5>3 DEF Initialising
      <4>. QED
        BY <1>6, <3>2, <4>5, DoneAfter
    <3>. QED
      BY <2>6, <3>1, <3>2
  <2>8. RecordsOK' /\ ProcessOK' /\ DoneOK'
    BY <1>1, <1>4, <1>5, <1>8, <2>1, <2>6, <2>7, Advances
  <2>9. PlanOK'
    BY <1>1, <1>4, <1>5, <1>8, <2>1, <2>6, PlanAdvances
  <2>. QED
    BY <1>9, <2>4, <2>8, <2>9 DEF IInv
<1>. QED
  BY <1>10, <1>11

-------------------------------------------------------------------------------
(* Planning.                                                               *)

AmongSteps(f, chosen) ==
    /\ f[0] = <<>>
    /\ \A i \in 1..Len(ReserveSymbols) :
          f[i] = IF ReserveSymbols[i] \in chosen THEN Append(f[i - 1], ReserveSymbols[i]) ELSE f[i - 1]
    /\ Among(chosen) = f[Len(ReserveSymbols)]

LEMMA AmongUnfolds ==
    ASSUME NEW chosen
    PROVE  \E f : AmongSteps(f, chosen)
<1>. DEFINE n == Len(ReserveSymbols)
            G(x, i) == IF ReserveSymbols[i] \in chosen THEN Append(x, ReserveSymbols[i]) ELSE x
            P(f, m) == f = [i \in 0..m |-> IF i = 0 THEN <<>> ELSE G(f[i - 1], i)]
            F == CHOOSE f : P(f, n)
            T == {m \in Nat : \E f : P(f, m)}
<1>1. Among(chosen) = F[n]
  <2>. DEFINE Q(f) == f = [i \in 0..n |-> IF i = 0 THEN <<>>
                             ELSE IF ReserveSymbols[i] \in chosen THEN Append(f[i - 1], ReserveSymbols[i])
                             ELSE f[i - 1]]
  <2>1. Among(chosen) = (CHOOSE f : Q(f))[n]
    BY DEF Among
  <2>2. \A f : Q(f) <=> P(f, n)
    OBVIOUS
  <2>. QED
    BY <2>1
<1>2. n \in Nat
  BY Reservations
<1>. HIDE DEF G
<1>3. 0 \in T
  <2>1. P([i \in 0..0 |-> <<>>], 0)
    OBVIOUS
  <2>. QED
    BY <2>1
<1>4. ASSUME NEW m \in Nat, m \in T PROVE m + 1 \in T
  <2>1. PICK f : P(f, m)
    BY <1>4
  <2>. DEFINE g == [i \in 0..(m + 1) |-> IF i = m + 1 THEN G(f[m], m + 1) ELSE f[i]]
  <2>2. ASSUME NEW i \in 0..(m + 1)
        PROVE  g[i] = IF i = 0 THEN <<>> ELSE G(g[i - 1], i)
    <3>1. CASE i = m + 1
      <4>1. i # 0 /\ i - 1 = m /\ m \in 0..(m + 1) /\ m # m + 1
        BY <3>1
      <4>. QED
        BY <4>1, <3>1
    <3>2. CASE i # m + 1
      <4>1. i \in 0..m /\ (i # 0 => i - 1 \in 0..m /\ i - 1 \in 0..(m + 1) /\ i - 1 # m + 1)
        BY <3>2
      <4>. QED
        BY <4>1, <3>2, <2>1
    <3>. QED
      BY <3>1, <3>2
  <2>3. P(g, m + 1)
    <3>1. g = [i \in 0..(m + 1) |-> g[i]]
      OBVIOUS
    <3>. HIDE DEF g
    <3>. QED
      BY <2>2, <3>1
  <2>4. m + 1 \in Nat
    OBVIOUS
  <2>. QED
    BY <2>3, <2>4
<1>5. n \in T
  <2>. HIDE DEF T, n
  <2>. QED
    BY <1>2, <1>3, <1>4, InductionOverNat
<1>6. P(F, n)
  BY <1>5
<1>. HIDE DEF F
<1>7. F[0] = <<>> /\ \A i \in 1..n : F[i] = G(F[i - 1], i)
  <2>1. \A i \in 0..n : F[i] = IF i = 0 THEN <<>> ELSE G(F[i - 1], i)
    BY <1>6
  <2>2. 0 \in 0..n /\ \A i \in 1..n : i \in 0..n /\ i # 0
    BY <1>2
  <2>. QED
    BY <2>1, <2>2
<1>8. \A i \in 1..n : F[i] = IF ReserveSymbols[i] \in chosen THEN Append(F[i - 1], ReserveSymbols[i])
                                                            ELSE F[i - 1]
  BY <1>7 DEF G
<1>9. AmongSteps(F, chosen)
  BY <1>1, <1>7, <1>8 DEF AmongSteps
<1>. QED
  BY <1>9

LEMMA AmongIs ==
    ASSUME NEW chosen
    PROVE  /\ Among(chosen) \in Seq(Symbols) /\ Len(Among(chosen)) \in Nat
           /\ \A s \in Symbols \cap chosen : \E i \in 1..Len(Among(chosen)) : Among(chosen)[i] = s
<1>1. PICK f : AmongSteps(f, chosen)
  BY AmongUnfolds
<1>. DEFINE n == Len(ReserveSymbols)
            Q(i) == /\ f[i] \in Seq(Symbols)
                    /\ \A k \in 1..i : ReserveSymbols[k] \in chosen =>
                          \E j \in 1..Len(f[i]) : f[i][j] = ReserveSymbols[k]
            T == {i \in Nat : i <= n => Q(i)}
<1>2. n \in Nat
  BY Reservations
<1>3. 0 \in T
  <2>1. f[0] = <<>>
    BY <1>1 DEF AmongSteps
  <2>2. f[0] \in Seq(Symbols) /\ 1..0 = {}
    BY <2>1
  <2>3. Q(0)
    BY <2>2
  <2>. QED
    BY <2>3
<1>4. ASSUME NEW m \in Nat, m \in T PROVE m + 1 \in T
  <2>. SUFFICES ASSUME m + 1 <= n PROVE Q(m + 1)
    OBVIOUS
  <2>1. Q(m) /\ m + 1 \in 1..n /\ (m + 1) - 1 = m
    BY <1>2, <1>4
  <2>. DEFINE x == ReserveSymbols[m + 1]
              p == f[m]
              q == f[m + 1]
  <2>2. x \in Symbols
    BY <2>1, Reservations
  <2>3. q = IF x \in chosen THEN Append(p, x) ELSE p
    BY <1>1, <2>1 DEF AmongSteps
  <2>4. p \in Seq(Symbols) /\ \A k \in 1..m : ReserveSymbols[k] \in chosen =>
                                 \E j \in 1..Len(p) : p[j] = ReserveSymbols[k]
    BY <2>1
  <2>5. \A k \in 1..(m + 1) : k \in 1..m \/ ReserveSymbols[k] = x
    OBVIOUS
  <2>. HIDE DEF p, q, x
  <2>6. q \in Seq(Symbols)
    BY <2>2, <2>3, <2>4
  <2>7. \A j \in 1..Len(p) : j \in 1..Len(q) /\ q[j] = p[j]
    BY <2>2, <2>3, <2>4
  <2>8. x \in chosen => \E j \in 1..Len(q) : q[j] = x
    BY <2>2, <2>3, <2>4
  <2>9. \A k \in 1..(m + 1) : ReserveSymbols[k] \in chosen =>
           \E j \in 1..Len(q) : q[j] = ReserveSymbols[k]
    BY <2>4, <2>5, <2>7, <2>8
  <2>. QED
    BY <2>6, <2>9 DEF q
<1>5. n \in T
  <2>. HIDE DEF T, n
  <2>. QED
    BY <1>2, <1>3, <1>4, InductionOverNat
<1>6. Q(n) /\ Among(chosen) = f[n]
  BY <1>1, <1>2, <1>5 DEF AmongSteps
<1>7. \A s \in Symbols : \E i \in 1..n : s = ReserveSymbols[i]
  BY Reservations
<1>. HIDE DEF n
<1>8. Among(chosen) \in Seq(Symbols)
  BY <1>6
<1>9. \A s \in Symbols \cap chosen : \E i \in 1..Len(Among(chosen)) : Among(chosen)[i] = s
  BY <1>6, <1>7
<1>. QED
  BY <1>8, <1>9

LEMMA PlansAre ==
    /\ InitInputs \in Seq({InitInput(s) : s \in Symbols})
    /\ \A s \in Symbols : Listed(s) \/ \E i \in DOMAIN InitInputs : InitInputs[i] = InitInput(s)
    /\ ConfigureInputs \in Seq({ConfigureInput(s) : s \in Symbols})
    /\ \A s \in Symbols :
          IsCollateral(s) \/ \E i \in DOMAIN ConfigureInputs : ConfigureInputs[i] = ConfigureInput(s)
<1>1. ASSUME NEW left, left = Among({s \in Symbols : ~Listed(s)})
      PROVE  /\ InitInputs \in Seq({InitInput(s) : s \in Symbols})
             /\ \A s \in Symbols : Listed(s) \/ \E i \in DOMAIN InitInputs : InitInputs[i] = InitInput(s)
  <2>. DEFINE chosen == {s \in Symbols : ~Listed(s)}
              S == {InitInput(s) : s \in Symbols}
  <2>1. /\ left \in Seq(Symbols)
        /\ \A s \in Symbols \cap chosen : \E i \in 1..Len(left) : left[i] = s
    <3>. HIDE DEF chosen
    <3>. QED
      BY <1>1, AmongIs DEF chosen
  <2>2. InitInputs = [i \in 1..Len(left) |-> InitInput(left[i])]
    BY <1>1, <2>1 DEF InitInputs
  <2>3. \A s \in Symbols : InitInput(s) \in S
    OBVIOUS
  <2>4. \A i \in 1..Len(left) : left[i] \in Symbols
    BY <2>1
  <2>. HIDE DEF S
  <2>5. InitInputs \in Seq(S)
    BY <2>1, <2>2, <2>3, <2>4
  <2>6. ASSUME NEW s \in Symbols, ~Listed(s)
        PROVE  \E i \in DOMAIN InitInputs : InitInputs[i] = InitInput(s)
    BY <2>1, <2>2, <2>6
  <2>. QED
    BY <2>5, <2>6 DEF S
<1>2. ASSUME NEW left, left = Among({s \in Symbols : ~IsCollateral(s)})
      PROVE  /\ ConfigureInputs \in Seq({ConfigureInput(s) : s \in Symbols})
             /\ \A s \in Symbols : IsCollateral(s)
                   \/ \E i \in DOMAIN ConfigureInputs : ConfigureInputs[i] = ConfigureInput(s)
  <2>. DEFINE chosen == {s \in Symbols : ~IsCollateral(s)}
              S == {ConfigureInput(s) : s \in Symbols}
  <2>1. /\ left \in Seq(Symbols)
        /\ \A s \in Symbols \cap chosen : \E i \in 1..Len(left) : left[i] = s
    <3>. HIDE DEF chosen
    <3>. QED
      BY <1>2, AmongIs DEF chosen
  <2>2. ConfigureInputs = [i \in 1..Len(left) |-> ConfigureInput(left[i])]
    BY <1>2, <2>1 DEF ConfigureInputs
  <2>3. \A s \in Symbols : ConfigureInput(s) \in S
    OBVIOUS
  <2>4. \A i \in 1..Len(left) : left[i] \in Symbols
    BY <2>1
  <2>. HIDE DEF S
  <2>5. ConfigureInputs \in Seq(S)
    BY <2>1, <2>2, <2>3, <2>4
  <2>6. ASSUME NEW s \in Symbols, ~IsCollateral(s)
        PROVE  \E i \in DOMAIN ConfigureInputs : ConfigureInputs[i] = ConfigureInput(s)
    BY <2>1, <2>2, <2>6
  <2>. QED
    BY <2>5, <2>6 DEF S
<1>. QED
  BY <1>1, <1>2

LEMMA OneNext ==
    ASSUME NEW n \in Nat, NEW m \in 1..n, m # n, NEW k, k = m + 1
    PROVE  k \in 1..n /\ k - 1 = m
OBVIOUS

LEMMA PlanKeeps ==
    ASSUME IInv, Plan
    PROVE  IInv'
<1>. DEFINE todo == IF step.do = "planListing" THEN InitInputs ELSE ConfigureInputs
            more == step.do = "planConfiguration" /\ todo # <<>>
<1>1. /\ process.phase = "ready" /\ step.do \in {"planListing", "planConfiguration"}
      /\ process' = [Advanced(process) EXCEPT !.todo = todo, !.configuring = more]
      /\ UNCHANGED Elsewhere
  BY DEF Plan, Ready, Elsewhere
<1>. HIDE DEF todo, more
<1>2. ~Finished
  BY <1>1 DEF Finished
<1>3. /\ process.pc \in 1..Len(Script) /\ DOMAIN process = DOMAIN Start /\ enacted = 0 /\ WellFormed(step)
      /\ ProcessOK
  BY <1>2, StepIs DEF IInv
<1>4. step.call = "" /\ step.ids = {} /\ process.pc # Len(Script)
  BY <1>1, <1>3, LastWaits DEF WellFormed, Sends
<1>5. /\ DOMAIN process' = DOMAIN Start /\ process'.pc = process.pc + 1 /\ process'.phase = "ready"
      /\ process'.todo = todo /\ process'.configuring = more
  <2>. DEFINE q == Advanced(process)
  <2>1. /\ DOMAIN q = DOMAIN Start /\ q.pc = process.pc + 1 /\ q.phase = "ready"
    BY <1>3, <1>4, AdvancedIs
  <2>2. process' = [q EXCEPT !.todo = todo, !.configuring = more]
    BY <1>1
  <2>. HIDE DEF q
  <2>. QED
    BY <2>1, <2>2, StartIs
<1>6. GoesOn
  BY <1>4, <1>5 DEF GoesOn
<1>7. Forward /\ WorldOK'
  BY <1>1, ElsewhereForward DEF IInv
<1>8. PICK s : s = step
  <2>1. \E u : u = step
    OBVIOUS
  <2>. QED
    BY <2>1
<1>9. Done(s)'
  <2>1. ~Settles(s) /\ ~Lists(s) /\ s.do # "check" /\ WellFormed(s)
    BY <1>1, <1>3, <1>4, <1>8 DEF Settles, Lists, OnProvider
  <2>. QED
    BY <2>1, DoneAfter
<1>10. RecordsOK' /\ ProcessOK' /\ DoneOK'
  <2>1. s.ids \subseteq DOMAIN records'
    BY <1>4, <1>8
  <2>. QED
    BY <1>1, <1>2, <1>6, <1>7, <1>8, <1>9, <2>1, GoesOnKeeps DEF Elsewhere
<1>11. MempoolOK'
  BY <1>1, <1>5, <1>7, MempoolStays DEF IInv, Elsewhere
<1>12. PlanOK'
  <2>. SUFFICES ASSUME step'.call \in Planning PROVE PlanOK'
    BY DEF PlanOK, Planning
  <2>1. Follows(step', step)
    <3>1. process'.pc \in 1..Len(Script) /\ process'.pc - 1 = process.pc
      <4>1. Len(Script) \in Nat
        BY ScriptFacts
      <4>2. process.pc \in 1..Len(Script) /\ process.pc # Len(Script) /\ process'.pc = process.pc + 1
        BY <1>3, <1>4, <1>5
      <4>. QED
        BY <4>1, <4>2, OneNext
    <3>2. Follows(Script[process'.pc], Script[process'.pc - 1])
      BY <3>1, FollowsBehind DEF step
    <3>. QED
      BY <3>1, <3>2 DEF step
  <2>2. \/ step'.call = "initReserves" /\ step.do = "planListing"
        \/ step'.call = "addRiskAdmin" /\ step.do = "planConfiguration"
    BY <1>4, <2>1 DEF Follows, Planning
  <2>3. Rest' = todo
    BY <1>5 DEF Rest
  <2>4. market' = market /\ records' = records
    BY <1>1 DEF Elsewhere
  <2>5. \A id : Recorded(id)' = Recorded(id)
    BY <2>4 DEF Recorded
  <2>6. \A x \in Symbols : InitInput(x)' = InitInput(x) /\ ConfigureInput(x)' = ConfigureInput(x)
    BY <2>5 DEF InitInput, ConfigureInput
  <2>7. \A x \in Symbols : Listed(x)' = Listed(x) /\ IsCollateral(x)' = IsCollateral(x)
    BY <2>4, <2>5, LookedUpSame DEF Listed, IsCollateral, Reserve
  <2>8. CASE step'.call = "initReserves" /\ step.do = "planListing"
    <3>1. todo = InitInputs
      BY <2>8 DEF todo
    <3>2. {InitInput(x)' : x \in Symbols} = {InitInput(x) : x \in Symbols}
      BY <2>6
    <3>3. Rest' \in Seq({InitInput(x)' : x \in Symbols})
      BY <2>3, <3>1, <3>2, PlansAre
    <3>4. \A x \in Symbols : Listed(x)' \/ Planned(InitInput(x))'
      BY <2>3, <2>6, <2>7, <3>1, PlansAre DEF Planned
    <3>. QED
      BY <2>8, <3>3, <3>4 DEF PlanOK
  <2>9. CASE step'.call = "addRiskAdmin" /\ step.do = "planConfiguration"
    <3>1. todo = ConfigureInputs
      BY <2>9 DEF todo
    <3>2. {ConfigureInput(x)' : x \in Symbols} = {ConfigureInput(x) : x \in Symbols}
      BY <2>6
    <3>3. Rest' \in Seq({ConfigureInput(x)' : x \in Symbols})
      BY <2>3, <3>1, <3>2, PlansAre
    <3>4. \A x \in Symbols : IsCollateral(x)' \/ Planned(ConfigureInput(x))'
      BY <2>3, <2>6, <2>7, <3>1, PlansAre DEF Planned
    <3>5. process'.configuring \/ AllConfigured'
      <4>1. CASE todo = <<>>
        <5>1. \A x \in Symbols : IsCollateral(x)
          BY <4>1, <3>1, PlansAre
        <5>. QED
          BY <5>1, <2>7 DEF AllConfigured
      <4>2. CASE todo # <<>>
        BY <4>2, <1>5, <2>9 DEF more
      <4>. QED
        BY <4>1, <4>2
    <3>. QED
      BY <2>9, <3>3, <3>4, <3>5 DEF PlanOK
  <2>. QED
    BY <2>2, <2>8, <2>9
<1>. QED
  BY <1>7, <1>10, <1>11, <1>12 DEF IInv

LEMMA IndexKeeps ==
    ASSUME IInv, StartIndexing \/ IndexBlock
    PROVE  IInv'
<1>1. /\ market' = market /\ records' = records /\ process' = process /\ mempool' = mempool
      /\ crashes' = crashes /\ enacted' = enacted /\ Finished
  BY DEF StartIndexing, IndexBlock, IInv, ProcessOK, Finished
<1>2. /\ WorldOK /\ RecordsOK /\ ProcessOK /\ MempoolOK /\ DoneOK
      /\ process.phase = "finished" /\ mempool = <<>>
  BY <1>1 DEF IInv, MempoolOK, Finished
<1>3. \A a : Initialising(a) => Initialising(a)'
  BY <1>1 DEF Initialising
<1>4. Forward /\ WorldOK'
  BY <1>1, <1>2, <1>3, FrameForward, FrameWorld
<1>5. MempoolOK'
  BY <1>1, <1>2, <1>4, MempoolStays
<1>6. RecordsOK'
  BY <1>1, <1>2 DEF RecordsOK, step
<1>7. DoneOK'
  <2>1. ASSUME NEW j \in 1..(process.pc - 1), enacted = 0 \/ IsLasting(Script[j])
        PROVE  Done(Script[j])'
    <3>1. j \in 1..Len(Script) /\ j <= process.pc
      BY <1>2, ScriptFacts DEF ProcessOK
    <3>. DEFINE s == Script[j]
    <3>2. WellFormed(s) /\ Prepared(s, DOMAIN records, CalledBy(Script, j, {})) /\ Done(s)
      BY <1>2, <2>1, <3>1, StepsPrepared DEF DoneOK
    <3>. HIDE DEF s
    <3>3. Done(s)'
      BY <1>4, <3>2, DoneKept
    <3>. QED
      BY <3>3 DEF s
  <2>. QED
    BY <1>1, <1>2, <2>1 DEF DoneOK, IsLasting
<1>8. ProcessOK'
  <2>1. DOMAIN Start' = DOMAIN Start
    BY DEF Start
  <2>. QED
    BY <1>1, <1>2, <2>1 DEF ProcessOK, Finished
<1>9. PlanOK'
  BY <1>1 DEF PlanOK, Finished
<1>. QED
  BY <1>4, <1>5, <1>6, <1>7, <1>8, <1>9 DEF IInv

-------------------------------------------------------------------------------
(* A new record.                                                           *)

Extends == \A id \in DOMAIN records : id \in DOMAIN records' /\ records'[id] = records[id]

\* What holds the components is new when it is first recorded.
HolderIsNew(id) == IsRecorded(id)' => IsRecorded(id) \/ IsNew(market, records'[id])

ProxyIsSaved(component, id) ==
    IsRecorded(id)' => IsRecorded(id) \/ (IsSet(component) /\ records'[id] = Component(component))

LEMMA NewHasNone ==
    ASSUME NEW c, NEW a, IsNew(c, a), NEW key, key \notin {"pool", "provider"}
    PROVE  Slot(c, a, key) = NoAddress
BY DEF IsNew, Slot

LEMMA HoldersAre ==
    ASSUME WorldOK
    PROVE  /\ \A id : IsSet(id) => IsRecorded("PoolAddressesProvider")
           /\ Controller # NoAddress => IsRecorded("EmissionManager")
           /\ IsSet("POOL_CONFIGURATOR") => configurator \in market.contracts
           /\ \A s \in Symbols : Listed(s) => IsSet("POOL") /\ IsRecorded(s)
           /\ \A r \in DOMAIN market.reserves : r[1] # NoAddress
<1>1. IsContracts(market) /\ ComponentsOK /\ ReservesOK
  BY DEF WorldOK
<1>2. NoAddress \notin market.contracts /\ \A k : Slot(market, NoAddress, k) = NoAddress
  BY <1>1, NoContractThere, SlotsOfContracts
<1>3. \A id : IsSet(id) => IsRecorded("PoolAddressesProvider")
  BY <1>2 DEF IsSet, Component, provider, Recorded, IsRecorded
<1>4. Controller # NoAddress => IsRecorded("EmissionManager")
  BY <1>2 DEF Controller, Recorded, IsRecorded
<1>5. IsSet("POOL_CONFIGURATOR") => configurator \in market.contracts
  <2>. SUFFICES ASSUME IsSet("POOL_CONFIGURATOR") PROVE configurator \in market.contracts
    OBVIOUS
  <2>1. IsSet("POOL") /\ Slot(market, configurator, "pool") = Component("POOL")
    BY <1>1 DEF ComponentsOK
  <2>2. Slot(market, configurator, "pool") # NoAddress
    BY <2>1 DEF IsSet
  <2>. QED
    BY <1>1, <2>2, SlotsOfContracts
<1>6. \A r \in DOMAIN market.reserves : r[1] # NoAddress
  BY <1>1, <1>2 DEF ReservesOK
<1>7. ASSUME NEW s \in Symbols, Listed(s)
      PROVE  IsSet("POOL") /\ IsRecorded(s)
  <2>1. <<Component("POOL"), Recorded(s)>> \in market.contracts \X market.contracts
    BY <1>1, <1>7 DEF Listed, Reserve, ReservesOK
  <2>2. Component("POOL") # NoAddress /\ Recorded(s) # NoAddress
    BY <1>2, <2>1
  <2>. QED
    BY <2>2 DEF IsSet, IsRecorded, Recorded
<1>. QED
  BY <1>3, <1>4, <1>5, <1>6, <1>7

LEMMA AddedForward ==
    ASSUME WorldOK, market' = market, mempool' = mempool, Extends
    PROVE  /\ Forward
           /\ \A id : IsRecorded(id) => IsRecorded(id)' /\ Recorded(id)' = Recorded(id)
           /\ \A id : IsRecorded("PoolAddressesProvider") => Component(id)' = Component(id)
           /\ \A s \in Symbols : Listed(s) => Reserve(s)' = Reserve(s)
           /\ IsRecorded("EmissionManager") => Controller' = Controller
<1>1. \A id : IsRecorded(id) => IsRecorded(id)' /\ Recorded(id)' = Recorded(id)
  BY DEF Extends, IsRecorded, Recorded
<1>2. \A id : IsRecorded("PoolAddressesProvider") => Component(id)' = Component(id)
  BY <1>1 DEF Component, provider
<1>3. IsRecorded("EmissionManager") => Controller' = Controller
  BY <1>1 DEF Controller
<1>4. \A s \in Symbols : Listed(s) => Reserve(s)' = Reserve(s)
  BY <1>1, <1>2, HoldersAre DEF Reserve
<1>5. \A s \in Symbols : /\ Listed(s) => Listed(s)'
                         /\ IsCollateral(s) => IsCollateral(s)'
  BY <1>4 DEF Listed, IsCollateral
<1>6. \A s \in Symbols : Priced(s) /\ IsRecorded(s) /\ IsRecorded("ProtocolOracle") => Priced(s)'
  BY <1>1 DEF Priced, oracle
<1>7. \A a : Initialising(a) => Initialising(a)'
  BY DEF Initialising
<1>8. Forward
  BY <1>1, <1>2, <1>3, <1>5, <1>6, <1>7, HoldersAre DEF Forward, Extends, IsSet
<1>. QED
  BY <1>1, <1>2, <1>3, <1>4, <1>8

LEMMA AddedComponents ==
    ASSUME WorldOK, market' = market, mempool' = mempool, Extends,
           HolderIsNew("PoolAddressesProvider"), HolderIsNew("EmissionManager"),
           ProxyIsSaved("POOL", "Pool-Proxy"), ProxyIsSaved("POOL_CONFIGURATOR", "PoolConfigurator-Proxy"),
           ProxyIsSaved("REWARD_CONTROLLER", "RewardsControllerProxy")
    PROVE  ComponentsOK' /\ \A id : id \notin {"pool", "provider"} => Component(id)' = Component(id)
<1>1. /\ \A id : IsRecorded(id) => IsRecorded(id)' /\ Recorded(id)' = Recorded(id)
      /\ \A id : IsRecorded("PoolAddressesProvider") => Component(id)' = Component(id)
      /\ IsRecorded("EmissionManager") => Controller' = Controller
  BY AddedForward
<1>2. ~IsRecorded("PoolAddressesProvider") => \A id : Component(id) = NoAddress
  BY HoldersAre DEF IsSet
<1>3. \A k : Slot(market, NoAddress, k) = NoAddress
  BY NoContractThere, SlotsOfContracts DEF WorldOK
<1>4. \A id : id \notin {"pool", "provider"} => Component(id)' = Component(id)
  <2>. TAKE id
  <2>. HAVE id \notin {"pool", "provider"}
  <2>1. CASE IsRecorded("PoolAddressesProvider")
    BY <1>1, <2>1
  <2>2. CASE ~IsRecorded("PoolAddressesProvider")
    <3>1. Component(id) = NoAddress
      BY <1>2, <2>2
    <3>2. CASE ~IsRecorded("PoolAddressesProvider")'
      <4>1. provider' = NoAddress
        BY <3>2 DEF provider, Recorded, IsRecorded
      <4>. QED
        BY <1>3, <3>1, <4>1 DEF Component
    <3>3. CASE IsRecorded("PoolAddressesProvider")'
      <4>1. IsNew(market, provider')
        BY <2>2, <3>3 DEF HolderIsNew, provider, Recorded, IsRecorded
      <4>2. Slot(market, provider', id) = NoAddress
        BY <4>1, NewHasNone
      <4>. QED
        BY <3>1, <4>2 DEF Component
    <3>. QED
      BY <3>2, <3>3
  <2>. QED
    BY <2>1, <2>2
<1>5. Controller' = Controller
  <2>1. CASE IsRecorded("EmissionManager")
    BY <1>1, <2>1
  <2>2. CASE ~IsRecorded("EmissionManager")
    <3>1. Controller = NoAddress
      BY <2>2, HoldersAre
    <3>2. CASE ~IsRecorded("EmissionManager")'
      BY <1>3, <3>1, <3>2 DEF Controller, Recorded, IsRecorded
    <3>3. CASE IsRecorded("EmissionManager")'
      <4>. DEFINE a == records'["EmissionManager"]
      <4>1. IsNew(market, a) /\ Recorded("EmissionManager")' = a
        BY <2>2, <3>3 DEF HolderIsNew, Recorded, IsRecorded
      <4>. HIDE DEF a
      <4>2. Slot(market, a, "REWARD_CONTROLLER") = NoAddress
        BY <4>1, NewHasNone
      <4>. QED
        BY <3>1, <4>1, <4>2 DEF Controller
    <3>. QED
      BY <3>2, <3>3
  <2>. QED
    BY <2>1, <2>2
<1>6. /\ Component("POOL")' = Component("POOL") /\ configurator' = configurator
      /\ Component("REWARD_CONTROLLER")' = Component("REWARD_CONTROLLER")
      /\ Component("ACL_ADMIN")' = Component("ACL_ADMIN")
      /\ Component("DATA_PROVIDER")' = Component("DATA_PROVIDER")
      /\ Component("ACL_MANAGER")' = Component("ACL_MANAGER")
      /\ Component("PRICE_ORACLE")' = Component("PRICE_ORACLE")
      /\ Component("POOL_CONFIGURATOR")' = Component("POOL_CONFIGURATOR")
  BY <1>4 DEF configurator
<1>7. ComponentsOK
  BY DEF WorldOK
<1>8. /\ IsSet("POOL")' => Component("POOL")' \in market.contracts \cap market.initialised
      /\ IsSet("POOL_CONFIGURATOR")' =>
           /\ IsSet("POOL")'
           /\ Slot(market, configurator', "pool") = Component("POOL")'
      /\ IsSet("REWARD_CONTROLLER")' => Component("REWARD_CONTROLLER")' \in market.contracts
      /\ IsSet("ACL_ADMIN")' => Component("ACL_ADMIN")' = Deployer
      /\ Controller' # NoAddress => Controller' = Component("REWARD_CONTROLLER")'
  BY <1>5, <1>6, <1>7 DEF ComponentsOK, IsSet
<1>9. /\ IsNamed("DATA_PROVIDER", "PoolDataProvider")' /\ IsNamed("ACL_MANAGER", "ACLManager")'
      /\ IsNamed("PRICE_ORACLE", "ProtocolOracle")'
  BY <1>1, <1>6, <1>7 DEF ComponentsOK, IsNamed, IsSet, IsRecorded, Recorded
<1>10. IsSavedAs("POOL", "Pool-Proxy")'
  BY <1>1, <1>6, <1>7 DEF ComponentsOK, IsSavedAs, ProxyIsSaved, IsSet, Extends, IsRecorded
<1>11. IsSavedAs("POOL_CONFIGURATOR", "PoolConfigurator-Proxy")'
  BY <1>1, <1>6, <1>7 DEF ComponentsOK, IsSavedAs, ProxyIsSaved, IsSet, Extends, IsRecorded
<1>12. IsSavedAs("REWARD_CONTROLLER", "RewardsControllerProxy")'
  BY <1>1, <1>6, <1>7 DEF ComponentsOK, IsSavedAs, ProxyIsSaved, IsSet, Extends, IsRecorded
<1>13. ComponentsOK'
  BY <1>8, <1>9, <1>10, <1>11, <1>12 DEF ComponentsOK
<1>. QED
  BY <1>4, <1>13

-------------------------------------------------------------------------------
(* What is listed stays what it is when a record is added.                 *)

LEMMA ListedBefore ==
    ASSUME WorldOK, market' = market, mempool' = mempool, Extends, NamesOK', enacted = 0,
           NEW s \in Symbols, Listed(s)'
    PROVE  Listed(s) /\ Reserve(s)' = Reserve(s)
<1>1. /\ \A id : IsRecorded(id) => IsRecorded(id)' /\ Recorded(id)' = Recorded(id)
      /\ \A t \in Symbols : Listed(t) => Reserve(t)' = Reserve(t)
  BY AddedForward
<1>2. NoAddress \notin market.contracts
  BY NoContractThere DEF WorldOK
<1>3. Reserve(s)' \in DOMAIN market.reserves
  BY DEF Listed
<1>4. PICK t \in Symbols \cap DOMAIN records : Reserve(s)' = Reserve(t)
  BY <1>3 DEF WorldOK, ReservesOK
<1>5. Listed(t) /\ Reserve(t)' = Reserve(t) /\ IsRecorded(t)
  BY <1>1, <1>3, <1>4 DEF Listed, IsRecorded
<1>6. Recorded(s)' = Recorded(t)' /\ Recorded(t)' = records[t] /\ records[t] \in market.contracts
  BY <1>1, <1>4, <1>5 DEF Reserve, Recorded, IsRecorded, WorldOK, NamesOK
<1>7. s \in DOMAIN records' /\ records'[s] = Recorded(s)'
  BY <1>2, <1>6 DEF Recorded
<1>8. t \in DOMAIN records' /\ records'[t] = Recorded(t)'
  BY <1>1, <1>5 DEF Recorded, IsRecorded
<1>9. s = t
  BY <1>4, <1>6, <1>7, <1>8 DEF NamesOK
<1>. QED
  BY <1>5, <1>9

LEMMA AddedReserves ==
    ASSUME WorldOK, market' = market, mempool' = mempool, Extends, NamesOK', enacted' = enacted
    PROVE  ReservesOK'
<1>1. /\ \A id : IsRecorded(id) => IsRecorded(id)' /\ Recorded(id)' = Recorded(id)
      /\ \A t \in Symbols : Listed(t) => Reserve(t)' = Reserve(t)
  BY AddedForward
<1>2. ReservesOK
  BY DEF WorldOK
<1>3. (\A r \in DOMAIN market.reserves : r \in market.contracts \X market.contracts)'
  BY <1>2 DEF ReservesOK
<1>4. ASSUME enacted = 0, NEW r \in DOMAIN market.reserves
      PROVE  \E s \in Symbols \cap DOMAIN records' : r = Reserve(s)'
  <2>1. PICK s \in Symbols \cap DOMAIN records : r = Reserve(s)
    BY <1>2, <1>4 DEF ReservesOK
  <2>2. Listed(s)
    BY <2>1 DEF Listed
  <2>. QED
    BY <1>1, <2>1, <2>2 DEF Extends
<1>5. ASSUME enacted = 0, NEW s \in Symbols, Listed(s)'
      PROVE  /\ IsRecorded(ReservesConfig[s].strategy)'
             /\ market.reserves[Reserve(s)'].reserveInterestRateStrategy
                    = records'[ReservesConfig[s].strategy]
             /\ Untouched(s)' \/ AsConfigured(s)'
  <2>1. Listed(s) /\ Reserve(s)' = Reserve(s)
    BY <1>5, ListedBefore
  <2>2. /\ IsRecorded(ReservesConfig[s].strategy)
        /\ market.reserves[Reserve(s)].reserveInterestRateStrategy
               = records[ReservesConfig[s].strategy]
        /\ Untouched(s) \/ AsConfigured(s)
    BY <1>2, <1>5, <2>1 DEF ReservesOK
  <2>3. /\ IsRecorded(ReservesConfig[s].strategy)'
        /\ records'[ReservesConfig[s].strategy] = records[ReservesConfig[s].strategy]
    BY <2>2 DEF Extends, IsRecorded
  <2>4. (Untouched(s) => Untouched(s)') /\ (AsConfigured(s) => AsConfigured(s)')
    BY <2>1 DEF Untouched, AsConfigured
  <2>. QED
    BY <2>1, <2>2, <2>3, <2>4
<1>. QED
  BY <1>3, <1>4, <1>5 DEF ReservesOK

LEMMA AddedWorld ==
    ASSUME WorldOK, market' = market, mempool' = mempool, enacted' = enacted, Extends, NamesOK',
           HolderIsNew("PoolAddressesProvider"), HolderIsNew("EmissionManager"),
           ProxyIsSaved("POOL", "Pool-Proxy"), ProxyIsSaved("POOL_CONFIGURATOR", "PoolConfigurator-Proxy"),
           ProxyIsSaved("REWARD_CONTROLLER", "RewardsControllerProxy")
    PROVE  WorldOK'
<1>1. ComponentsOK'
  BY AddedComponents
<1>2. ReservesOK'
  BY AddedReserves
<1>3. AccountsOK'
  BY DEF WorldOK, AccountsOK
<1>4. (IsContracts(market) /\ ~market.reverted /\ market.log = <<>>)'
  BY DEF WorldOK
<1>. QED
  BY <1>1, <1>2, <1>3, <1>4 DEF WorldOK

-------------------------------------------------------------------------------
(* The two steps that write a record.                                      *)

\* Only id is recorded, and it is not recorded for something else already.
Records(id, address) ==
    /\ DOMAIN records' = DOMAIN records \cup {id} /\ records'[id] = address
    /\ \A other \in DOMAIN records : records'[other] = records[other]

LEMMA SavedRecords ==
    ASSUME NEW id, NEW address, records' = Saved(address), \A x : x \in step.ids <=> x = id,
           id \in DOMAIN records => records[id] = address
    PROVE  Records(id, address)
<1>1. DOMAIN records' = DOMAIN records \cup {id}
  BY DEF Saved
<1>2. \A x \in DOMAIN records' : records'[x] = IF x = id THEN address ELSE records[x]
  BY DEF Saved
<1>. QED
  BY <1>1, <1>2 DEF Records

LEMMA OneRecorded ==
    ASSUME WorldOK, market' = market, mempool' = mempool, enacted' = enacted,
           NEW id, NEW address \in market.contracts, Records(id, address),
           id \in Symbols => \A other \in DOMAIN records : records[other] # address,
           id \in {"PoolAddressesProvider", "EmissionManager"} => IsNew(market, address),
           id = "Pool-Proxy" => IsSet("POOL") /\ address = Component("POOL"),
           id = "PoolConfigurator-Proxy" =>
              IsSet("POOL_CONFIGURATOR") /\ address = Component("POOL_CONFIGURATOR"),
           id = "RewardsControllerProxy" =>
              IsSet("REWARD_CONTROLLER") /\ address = Component("REWARD_CONTROLLER")
    PROVE  WorldOK' /\ Forward
<1>1. Extends /\ \A x : IsRecorded(x)' => IsRecorded(x) \/ (x = id /\ records'[x] = address)
  BY DEF Extends, Records, IsRecorded
<1>2. NamesOK'
  <2>1. NamesOK
    BY DEF WorldOK
  <2>2. ASSUME NEW x \in DOMAIN records' PROVE records'[x] \in market.contracts
    BY <2>1, <2>2 DEF NamesOK, Records
  <2>3. ASSUME NEW s \in Symbols \cap DOMAIN records', NEW t \in Symbols \cap DOMAIN records',
               records'[s] = records'[t]
        PROVE  s = t
    <3>1. CASE s = id \/ t = id
      BY <2>3, <3>1 DEF Records
    <3>2. CASE s # id /\ t # id
      BY <2>1, <2>3, <3>2 DEF Records, NamesOK
    <3>. QED
      BY <3>1, <3>2
  <2>. QED
    BY <2>2, <2>3 DEF NamesOK
<1>3. HolderIsNew("PoolAddressesProvider") /\ HolderIsNew("EmissionManager")
  BY <1>1 DEF HolderIsNew
<1>4. /\ ProxyIsSaved("POOL", "Pool-Proxy") /\ ProxyIsSaved("POOL_CONFIGURATOR", "PoolConfigurator-Proxy")
      /\ ProxyIsSaved("REWARD_CONTROLLER", "RewardsControllerProxy")
  BY <1>1 DEF ProxyIsSaved
<1>5. Forward
  BY <1>1, AddedForward
<1>6. WorldOK'
  BY <1>1, <1>2, <1>3, <1>4, AddedWorld
<1>. QED
  BY <1>5, <1>6

LEMMA ProxySaved ==
    ASSUME IInv, SaveProxy
    PROVE  /\ ~Finished /\ step.call = "" /\ step.do = "save" /\ process.pc # Len(Script)
           /\ WorldOK' /\ Forward /\ step.ids \subseteq DOMAIN records'
<1>1. process.phase = "ready" /\ step.do = "save" /\ records' = Saved(Component(step.on))
      /\ market' = market /\ mempool' = mempool /\ enacted' = enacted
  BY DEF SaveProxy, Ready
<1>2. ~Finished
  BY <1>1 DEF Finished
<1>3. /\ enacted = 0 /\ process.pc \in 1..Len(Script)
      /\ WellFormed(step) /\ Prepared(step, DOMAIN records, CalledBy(Script, process.pc, {}))
  BY <1>2, StepIs
<1>4. step.call = ""
  BY <1>1, <1>3 DEF WellFormed, Sends
<1>5. process.pc # Len(Script)
  BY <1>1, LastWaits DEF Sends
<1>6. RecordsOK /\ ProcessOK /\ DoneOK /\ WorldOK /\ ComponentsOK
  BY DEF IInv, WorldOK
<1>7. process.pc <= process.pc
  BY <1>3
<1>8. \A c \in CalledBy(Script, process.pc, {}) :
        /\ c = "setPoolImpl" => IsSet("POOL")
        /\ c = "setPoolConfiguratorImpl" => IsSet("POOL_CONFIGURATOR")
        /\ c = "setAddressAsProxy" => IsSet("REWARD_CONTROLLER")
  BY <1>3, <1>6, <1>7, CallsDone
<1>9. PICK id : /\ step.ids = {id} /\ id \in Proxies /\ IsSet(step.on)
                /\ id = "Pool-Proxy" => step.on = "POOL"
                /\ id = "PoolConfigurator-Proxy" => step.on = "POOL_CONFIGURATOR"
                /\ id = "RewardsControllerProxy" => step.on = "REWARD_CONTROLLER"
  <2>1. CASE Saves(step, "Pool-Proxy", "POOL", "setPoolImpl", CalledBy(Script, process.pc, {}))
    BY <1>8, <2>1 DEF Saves, Proxies
  <2>2. CASE Saves(step, "PoolConfigurator-Proxy", "POOL_CONFIGURATOR",
                   "setPoolConfiguratorImpl", CalledBy(Script, process.pc, {}))
    BY <1>8, <2>2 DEF Saves, Proxies
  <2>3. CASE Saves(step, "RewardsControllerProxy", "REWARD_CONTROLLER",
                   "setAddressAsProxy", CalledBy(Script, process.pc, {}))
    BY <1>8, <2>3 DEF Saves, Proxies
  <2>. QED
    BY <1>1, <1>3, <2>1, <2>2, <2>3 DEF Prepared
<1>10. PICK address : address = Component(step.on)
  OBVIOUS
<1>11. address \in market.contracts
  <2>1. IsSet("POOL_CONFIGURATOR") => Component("POOL_CONFIGURATOR") \in market.contracts
    BY <1>6, HoldersAre DEF configurator
  <2>. QED
    BY <1>6, <1>9, <1>10, <2>1 DEF ComponentsOK, Proxies
<1>12. id \in DOMAIN records => records[id] = address
  BY <1>6, <1>9, <1>10 DEF ComponentsOK, IsSavedAs, IsRecorded, Proxies
<1>13. \A x : x \in step.ids <=> x = id
  BY <1>9
<1>14. Records(id, address)
  BY <1>1, <1>10, <1>12, <1>13, SavedRecords
<1>15. id \notin Symbols
  BY <1>9, Reservations
<1>16. id \notin {"PoolAddressesProvider", "EmissionManager"}
  BY <1>9 DEF Proxies
<1>17. WorldOK' /\ Forward
  BY <1>1, <1>6, <1>9, <1>10, <1>11, <1>14, <1>15, <1>16, OneRecorded
<1>18. step.ids \subseteq DOMAIN records'
  BY <1>13, <1>14 DEF Records
<1>. QED
  BY <1>1, <1>2, <1>4, <1>5, <1>17, <1>18

LEMMA SaveProxyKeeps ==
    ASSUME IInv, SaveProxy
    PROVE  IInv'
<1>1. /\ ~Finished /\ step.call = "" /\ step.do = "save" /\ process.pc # Len(Script)
      /\ WorldOK' /\ Forward /\ step.ids \subseteq DOMAIN records'
  BY ProxySaved
<1>2. /\ process.phase = "ready" /\ process' = Advanced(process) /\ mempool' = mempool
      /\ enacted' = enacted /\ crashes' = crashes /\ index' = index
  BY DEF SaveProxy, Ready
<1>3. PICK s : s = step
  OBVIOUS
<1>4. WellFormed(s)
  BY <1>1, <1>3, StepIs
<1>5. Done(s)'
  BY <1>1, <1>3, <1>4, DoneAfter DEF Settles, Lists, OnProvider
<1>6. RecordsOK' /\ ProcessOK' /\ DoneOK'
  BY <1>1, <1>2, <1>3, <1>5, Advances
<1>7. PlanOK'
  BY <1>1, <1>2, PlanAdvances
<1>8. process'.phase = "ready"
  <2>1. DOMAIN process = DOMAIN Start
    BY <1>1, StepIs
  <2>. QED
    BY <1>1, <1>2, <2>1, AdvancedIs
<1>9. MempoolOK'
  BY <1>1, <1>2, <1>8, MempoolStays DEF IInv
<1>. QED
  BY <1>1, <1>6, <1>7, <1>9 DEF IInv

-------------------------------------------------------------------------------
(* The process goes on once its transaction is mined.                      *)

LEMMA MinedIs ==
    ASSUME IInv, process.phase = "mined"
    PROVE  /\ ~Finished /\ enacted = 0 /\ mempool = <<>> /\ Awaited(step)
           /\ step.call # "addRiskAdmin" /\ step.call # "" /\ step.do # "check"
           /\ step.do \in Sends /\ step.do \notin {"planListing", "planConfiguration"}
           /\ (step.do = "deploy" <=> step.call = "create")
<1>1. ~Finished
  BY DEF Finished
<1>2. enacted = 0 /\ WellFormed(step)
  BY <1>1, StepIs
<1>3. mempool = <<>> /\ Awaited(step)
  BY DEF IInv, MempoolOK
<1>4. step.do \in {"deploy", "invoke", "tryInvoke"}
  BY <1>3 DEF Awaited
<1>. QED
  BY <1>1, <1>2, <1>3, <1>4 DEF WellFormed, Sends, OnProvider, Others

LEMMA CreatedWorld ==
    ASSUME IInv, process.phase = "mined", step.do = "deploy", records' = Saved(process.receipt),
           market' = market, mempool' = mempool, enacted' = enacted
    PROVE  WorldOK' /\ Forward /\ step.ids \subseteq DOMAIN records'
<1>1. WorldOK /\ RecordsOK
  BY DEF IInv
<1>2. WellFormed(step)
  BY StepIs DEF Finished
<1>3. PICK id : step.ids = {id} /\ id \notin Proxies
  BY <1>2 DEF WellFormed
<1>4. id \notin DOMAIN records
  BY <1>1, <1>3 DEF RecordsOK
<1>5. IsNew(market, process.receipt) /\ \A other \in DOMAIN records : records[other] # process.receipt
  BY <1>1 DEF RecordsOK
<1>6. PICK address : address = process.receipt
  OBVIOUS
<1>7. address \in market.contracts /\ IsNew(market, address)
      /\ \A other \in DOMAIN records : records[other] # address
  BY <1>5, <1>6 DEF IsNew
<1>8. \A x : x \in step.ids <=> x = id
  BY <1>3
<1>9. Records(id, address)
  BY <1>4, <1>6, <1>8, SavedRecords
<1>10. id \notin {"Pool-Proxy", "PoolConfigurator-Proxy", "RewardsControllerProxy"}
  BY <1>3 DEF Proxies
<1>11. WorldOK' /\ Forward
  BY <1>1, <1>7, <1>9, <1>10, OneRecorded
<1>. QED
  BY <1>8, <1>9, <1>11 DEF Records

LEMMA WakeWorld ==
    ASSUME IInv, Wake
    PROVE  WorldOK' /\ Forward
<1>1. /\ process.phase = "mined" /\ market' = market /\ mempool' = mempool /\ enacted' = enacted
      /\ step.do = "deploy" => records' = Saved(process.receipt)
      /\ step.do # "deploy" => records' = records
  BY DEF Wake
<1>2. CASE step.do = "deploy"
  BY <1>1, <1>2, CreatedWorld
<1>3. CASE step.do # "deploy"
  <2>1. \A a : Initialising(a) => Initialising(a)'
    BY <1>1 DEF Initialising
  <2>. QED
    BY <1>1, <1>3, <2>1, FrameForward, FrameWorld DEF IInv
<1>. QED
  BY <1>2, <1>3

LEMMA WakeAdvances ==
    ASSUME IInv, Wake, step.call \notin InChunks
    PROVE  IInv'
<1>1. /\ process.phase = "mined" /\ mempool' = mempool
      /\ enacted' = enacted /\ crashes' = crashes /\ index' = index
      /\ step.do = "deploy" => records' = Saved(process.receipt)
      /\ step.do # "deploy" => records' = records
      /\ process' = Advanced(process) /\ market' = market
  BY DEF Wake, InChunks
<1>2. /\ ~Finished /\ enacted = 0 /\ mempool = <<>>
      /\ step.call # "addRiskAdmin" /\ step.do \notin {"planListing", "planConfiguration"}
      /\ (step.do = "deploy" <=> step.call = "create") /\ step.do # "check"
  BY <1>1, MinedIs
<1>3. WorldOK' /\ Forward
  BY WakeWorld
<1>4. PICK s : s = step
  OBVIOUS
<1>5. WellFormed(s) /\ Prepared(s, DOMAIN records, CalledBy(Script, process.pc, {}))
  BY <1>2, <1>4, StepIs
<1>6. Done(s)'
  <2>1. CASE step.do = "deploy"
    BY <1>2, <1>4, <1>5, <2>1, DoneAfter DEF Settles, Lists, OnProvider
  <2>2. CASE step.do # "deploy"
    <3>1. Done(s)
      BY <1>1, <1>2, <1>4 DEF IInv, DoneOK
    <3>. QED
      BY <1>3, <1>5, <3>1, DoneKept
  <2>. QED
    BY <2>1, <2>2
<1>7. s.ids \subseteq DOMAIN records'
  <2>1. CASE step.do = "deploy"
    BY <1>1, <1>4, <2>1, CreatedWorld
  <2>2. CASE step.do # "deploy"
    <3>1. s.do \notin {"deploy", "get", "save"}
      BY <1>1, <1>4, <2>2, MinedIs DEF Sends
    <3>. QED
      BY <1>5, <3>1 DEF WellFormed
  <2>. QED
    BY <2>1, <2>2
<1>8. RecordsOK' /\ ProcessOK' /\ DoneOK'
  BY <1>1, <1>2, <1>3, <1>4, <1>6, <1>7, Advances
<1>9. PlanOK'
  BY <1>1, <1>2, <1>3, PlanAdvances DEF InChunks
<1>10. process'.phase \in {"ready", "finished"}
  <2>1. DOMAIN process = DOMAIN Start
    BY <1>2, StepIs
  <2>. QED
    BY <1>1, <2>1, AdvancedIs
<1>11. MempoolOK'
  BY <1>1, <1>2, <1>3, <1>10, MempoolStays DEF IInv
<1>. QED
  BY <1>3, <1>8, <1>9, <1>11 DEF IInv

LEMMA WakeRepeats ==
    ASSUME IInv, Wake, step.call \in InChunks
    PROVE  IInv'
<1>1. /\ process.phase = "mined" /\ mempool' = mempool
      /\ enacted' = enacted /\ crashes' = crashes /\ index' = index
      /\ market' = market
      /\ process' = [process EXCEPT !.phase = "ready",
                        !.todo = AfterChunk(process.todo, IF step.call = "initReserves" THEN initChunks
                                                                                   ELSE enableChunks)]
  BY DEF Wake, InChunks
<1>2. /\ ~Finished /\ enacted = 0 /\ mempool = <<>> /\ process.pc \in 1..Len(Script)
      /\ DOMAIN process = DOMAIN Start
  BY <1>1, MinedIs, StepIs
<1>3. WorldOK' /\ Forward
  BY WakeWorld
<1>4. /\ DOMAIN process' = DOMAIN Start /\ process'.pc = process.pc /\ process'.phase = "ready"
      /\ process'.configuring = process.configuring /\ process'.todo = Rest
  BY <1>1, <1>2, StartIs DEF Rest
<1>5. Rest' = Rest
  BY <1>4 DEF Rest
<1>6. PlanOK'
  BY <1>2, <1>3, <1>4, <1>5, PlanStays
<1>7. \A j \in 1..(process.pc - 1) : Script[j].ids \subseteq DOMAIN records' /\ Done(Script[j])'
  BY <1>2, <1>3, BehindKept DEF IInv
<1>8. RecordsOK' /\ DoneOK'
  BY <1>4, <1>7 DEF RecordsOK, DoneOK
<1>9. ProcessOK'
  <2>1. ProcessOK /\ ~Finished'
    BY <1>4 DEF IInv, Finished
  <2>. QED
    BY <1>1, <1>2, <1>4, <2>1 DEF ProcessOK, Finished
<1>10. MempoolOK'
  BY <1>1, <1>2, <1>3, <1>4, MempoolStays DEF IInv
<1>. QED
  BY <1>3, <1>6, <1>8, <1>9, <1>10 DEF IInv

LEMMA WakeKeeps ==
    ASSUME IInv, Wake
    PROVE  IInv'
BY WakeAdvances, WakeRepeats

-------------------------------------------------------------------------------
(* What a transaction that is mined does.                                  *)

SourcesAre(c, d, feed, assets, sources) ==
    /\ \A p, a : \/ getSourceOfAsset(d, p, a) = getSourceOfAsset(c, p, a)
                 \/ \E i \in 1..Len(assets) : getSourceOfAsset(d, p, a) = sources[i]
    /\ \A i \in 1..Len(assets) :
          \E j \in 1..Len(assets) : getSourceOfAsset(d, feed, assets[i]) = sources[j]

Mines(c, d, tx) ==
    /\ Effects(c, d, tx) /\ IsContracts(d) /\ ~d.reverted /\ d.log = <<>>
    /\ tx.call = "initReserves" => ListsAll(c, d, tx.on, tx.with, Len(tx.with))
    /\ tx.call = "configureReserves" =>
          ConfiguresAll(c, d, tx.on, tx.with.configurator, tx.with.params, Len(tx.with.params))
    /\ tx.call = "setAssetSources" => SourcesAre(c, d, tx.on, tx.with.assets, tx.with.sources)

LEMMA SettledSame ==
    ASSUME NEW d, IsContracts(d)
    PROVE  LET e == Settled(d)
           IN  /\ IsContracts(e) /\ e.reverted = d.reverted /\ e.log = <<>> /\ DOMAIN e = Fields
               /\ \A f \in Fields \ {"log"} : e[f] = d[f]
               /\ \A o, a : getSourceOfAsset(e, o, a) = getSourceOfAsset(d, o, a)
<1>. DEFINE e == Settled(d)
<1>1. /\ Changes(d, e, {}) /\ e.reverted = d.reverted /\ e.log = <<>>
      /\ \A o, a : getSourceOfAsset(e, o, a) = getSourceOfAsset(d, o, a)
  BY ContractsAre, SettledIs
<1>. HIDE DEF e
<1>2. IsContracts(e)
  BY <1>1, ContractsKept
<1>3. DOMAIN e = Fields /\ \A f \in Fields \ {"log"} : e[f] = d[f]
  BY <1>1, FieldsAre DEF Changes
<1>4. /\ IsContracts(e) /\ e.reverted = d.reverted /\ e.log = <<>> /\ DOMAIN e = Fields
      /\ \A f \in Fields \ {"log"} : e[f] = d[f]
      /\ \A o, a : getSourceOfAsset(e, o, a) = getSourceOfAsset(d, o, a)
  BY <1>1, <1>2, <1>3
<1>. QED
  BY <1>4 DEF e

LEMMA SettledChanges ==
    ASSUME NEW c, NEW d, IsContracts(d), NEW S, Changes(c, d, S)
    PROVE  Changes(c, Settled(d), S)
<1>. DEFINE e == Settled(d)
<1>1. /\ e.reverted = d.reverted /\ DOMAIN e = Fields
      /\ \A f \in Fields \ {"log"} : e[f] = d[f]
  BY SettledSame
<1>. HIDE DEF e
<1>2. Changes(c, e, S)
  BY <1>1 DEF Changes
<1>. QED
  BY <1>2 DEF e

LEMMA SettledLists ==
    ASSUME NEW c, NEW d, NEW by, NEW inputs, NEW n, ListsAll(c, d, by, inputs, n)
    PROVE  ListsAll(c, Settled(d), by, inputs, n)
<1>. DEFINE e == Settled(d)
<1>1. IsContracts(d) /\ Changes(c, d, {"contracts", "initialised", "reserves"})
  BY DEF ListsAll
<1>2. IsContracts(e) /\ e.reverted = d.reverted /\ \A f \in Fields \ {"log"} : e[f] = d[f]
  BY <1>1, SettledSame
<1>3. Changes(c, e, {"contracts", "initialised", "reserves"})
  BY <1>1, SettledChanges
<1>. HIDE DEF e
<1>4. e.contracts = d.contracts /\ e.initialised = d.initialised /\ e.reserves = d.reserves
  BY <1>2, FieldsAre
<1>5. ListsAll(c, e, by, inputs, n)
  BY <1>2, <1>3, <1>4 DEF ListsAll, Grows
<1>. QED
  BY <1>5 DEF e

LEMMA SettledConfigures ==
    ASSUME NEW c, NEW d, NEW helper, NEW by, NEW params, NEW n,
           ConfiguresAll(c, d, helper, by, params, n)
    PROVE  ConfiguresAll(c, Settled(d), helper, by, params, n)
<1>. DEFINE e == Settled(d)
<1>1. IsContracts(d) /\ Changes(c, d, {"reserves"})
  BY DEF ConfiguresAll
<1>2. IsContracts(e) /\ e.reverted = d.reverted /\ \A f \in Fields \ {"log"} : e[f] = d[f]
  BY <1>1, SettledSame
<1>3. Changes(c, e, {"reserves"})
  BY <1>1, SettledChanges
<1>. HIDE DEF e
<1>4. e.reserves = d.reserves
  BY <1>2, FieldsAre
<1>5. ConfiguresAll(c, e, helper, by, params, n)
  BY <1>2, <1>3, <1>4 DEF ConfiguresAll
<1>. QED
  BY <1>5 DEF e

LEMMA SettledSources ==
    ASSUME NEW c, NEW d, IsContracts(d), NEW feed, NEW assets, NEW sources,
           SourcesAre(c, d, feed, assets, sources)
    PROVE  SourcesAre(c, Settled(d), feed, assets, sources)
<1>. DEFINE e == Settled(d)
<1>1. \A o, a : getSourceOfAsset(e, o, a) = getSourceOfAsset(d, o, a)
  BY SettledSame
<1>. HIDE DEF e
<1>2. \A p, a : \/ getSourceOfAsset(e, p, a) = getSourceOfAsset(c, p, a)
                \/ \E i \in 1..Len(assets) : getSourceOfAsset(e, p, a) = sources[i]
  <2>. TAKE p, a
  <2>1. PICK x : x = getSourceOfAsset(d, p, a)
    OBVIOUS
  <2>2. getSourceOfAsset(e, p, a) = x
    BY <1>1, <2>1
  <2>3. x = getSourceOfAsset(c, p, a) \/ \E i \in 1..Len(assets) : x = sources[i]
    BY <2>1, Zenon DEF SourcesAre
  <2>. QED
    BY <2>2, <2>3
<1>3. \A i \in 1..Len(assets) :
          \E j \in 1..Len(assets) : getSourceOfAsset(e, feed, assets[i]) = sources[j]
  BY <1>1, Zenon DEF SourcesAre
<1>4. SourcesAre(c, e, feed, assets, sources)
  BY <1>2, <1>3, Zenon DEF SourcesAre
<1>. QED
  BY <1>4 DEF e

LEMMA SourcesSetAre ==
    ASSUME NEW c, IsContracts(c), NEW feed, NEW assets, NEW sources, Len(assets) \in Nat
    PROVE  SourcesAre(c, setAssetSources(c, feed, assets, sources), feed, assets, sources)
<1>1. LET d == setAssetSources(c, feed, assets, sources)
      IN  /\ Changes(c, d, {"sources"})
          /\ \A p, a : \/ getSourceOfAsset(d, p, a) = getSourceOfAsset(c, p, a)
                       \/ \E i \in 1..Len(assets) : getSourceOfAsset(d, p, a) = sources[i]
          /\ \A i \in 1..Len(assets) :
                \E j \in 1..Len(assets) : getSourceOfAsset(d, feed, assets[i]) = sources[j]
  BY SourcesSet
<1>. QED
  BY <1>1, Zenon DEF SourcesAre

LEMMA MinesIt ==
    ASSUME NEW c, IsContracts(c), NEW tx, Sendable(c, tx), ~Executed(c, tx).reverted
    PROVE  Mines(c, Settled(Executed(c, tx)), tx)
<1>. DEFINE d == Executed(c, tx)
<1>1. Effects(c, d, tx)
  BY TransactionEffects
<1>2. tx.call = "initReserves" => ListsAll(c, d, tx.on, tx.with, Len(tx.with))
  BY InitReservesEffects DEF Sendable
<1>3. tx.call = "configureReserves" =>
          ConfiguresAll(c, d, tx.on, tx.with.configurator, tx.with.params, Len(tx.with.params))
  BY ConfigureReservesEffects DEF Sendable
<1>4. tx.call = "setAssetSources" => SourcesAre(c, d, tx.on, tx.with.assets, tx.with.sources)
  <2>. SUFFICES ASSUME tx.call = "setAssetSources"
                PROVE  SourcesAre(c, d, tx.on, tx.with.assets, tx.with.sources)
    OBVIOUS
  <2>. DEFINE assets == tx.with.assets
              sources == tx.with.sources
  <2>1. d = setAssetSources(c, tx.on, assets, sources) /\ Len(assets) \in Nat
    BY ExecutedCalls DEF Sendable
  <2>. HIDE DEF assets, sources
  <2>2. SourcesAre(c, setAssetSources(c, tx.on, assets, sources), tx.on, assets, sources)
    BY <2>1, SourcesSetAre
  <2>3. SourcesAre(c, d, tx.on, assets, sources)
    BY <2>1, <2>2
  <2>. QED
    BY <2>3 DEF assets, sources
<1>5. ~d.reverted
  OBVIOUS
<1>. HIDE DEF d
<1>6. IsContracts(d)
  BY <1>1 DEF Effects, EffectOnContracts
<1>7. Effects(c, Settled(d), tx) /\ IsContracts(Settled(d)) /\ ~Settled(d).reverted /\ Settled(d).log = <<>>
  BY <1>1, <1>5, <1>6, SettledEffects, SettledSame
<1>8. tx.call = "initReserves" => ListsAll(c, Settled(d), tx.on, tx.with, Len(tx.with))
  BY <1>2, SettledLists
<1>9. tx.call = "configureReserves" =>
          ConfiguresAll(c, Settled(d), tx.on, tx.with.configurator, tx.with.params, Len(tx.with.params))
  BY <1>3, SettledConfigures
<1>10. tx.call = "setAssetSources" =>
          SourcesAre(c, Settled(d), tx.on, tx.with.assets, tx.with.sources)
  BY <1>4, <1>6, SettledSources
<1>11. Mines(c, Settled(d), tx)
  BY <1>7, <1>8, <1>9, <1>10 DEF Mines
<1>. QED
  BY <1>11 DEF d

-------------------------------------------------------------------------------
(* The components of the provider after a transaction.                     *)

MinedOne(tx) == TransactionOK(tx) /\ Mines(market, market', tx) /\ records' = records

\* The component is set to what the transaction passes, or to a proxy that is new.
BecomesProxy(tx, id) ==
    /\ tx.call \in DOMAIN Proxied /\ id = Proxied[tx.call]
    /\ Component(id) = NoAddress
    /\ Component(id)' \in market'.initialised \cap market'.contracts
    /\ id = "POOL_CONFIGURATOR" =>
          IsSet("POOL") /\ Slot(market', Component(id)', "pool") = Component("POOL")

BecomesPassed(tx, id) ==
    /\ Component(id)' = tx.with
    /\ \/ id = "DATA_PROVIDER" /\ Passes(tx, "PoolDataProvider")
       \/ id = "ACL_MANAGER" /\ Passes(tx, "ACLManager")
       \/ id = "PRICE_ORACLE" /\ Passes(tx, "ProtocolOracle")
       \/ id = "ACL_ADMIN" /\ tx.with = Deployer

LEMMA MinedSlots ==
    ASSUME WorldOK, NEW tx, MinedOne(tx)
    PROVE  /\ IsContracts(market) /\ IsContracts(market') /\ EffectOnSlots(market, market', tx)
           /\ provider' = provider
           /\ IsRecorded("PoolAddressesProvider") => provider \in market.contracts
           /\ ~IsRecorded("PoolAddressesProvider") =>
                 \A id : Component(id) = NoAddress /\ Component(id)' = NoAddress
<1>1. IsContracts(market) /\ IsContracts(market') /\ EffectOnSlots(market, market', tx)
      /\ NamesOK /\ records' = records
  BY DEF WorldOK, MinedOne, Mines, Effects
<1>2. provider' = provider
  BY <1>1 DEF provider, Recorded
<1>3. \A k : Slot(market, NoAddress, k) = NoAddress /\ Slot(market', NoAddress, k) = NoAddress
  <2>1. NoAddress \notin market.contracts /\ NoAddress \notin market'.contracts
    BY <1>1, NoContractThere
  <2>. QED
    BY <1>1, <2>1, SlotsOfContracts
<1>4. IsRecorded("PoolAddressesProvider") => provider \in market.contracts
  BY <1>1 DEF NamesOK, IsRecorded, provider, Recorded
<1>5. ASSUME ~IsRecorded("PoolAddressesProvider"), NEW id
      PROVE  Component(id) = NoAddress /\ Component(id)' = NoAddress
  <2>1. provider = NoAddress /\ provider' = NoAddress
    BY <1>2, <1>5 DEF IsRecorded, provider, Recorded
  <2>. QED
    BY <1>3, <2>1 DEF Component
<1>. QED
  BY <1>1, <1>2, <1>4, <1>5

LEMMA SlotKept ==
    ASSUME WorldOK, NEW tx, MinedOne(tx), NEW x, x \in market.contracts, NEW k, ~Assigns(tx, x, k)
    PROVE  Slot(market', x, k) = Slot(market, x, k)
BY MinedSlots DEF EffectOnSlots

LEMMA SetterSets ==
    ASSUME WorldOK, NEW tx, MinedOne(tx), tx.call \in DOMAIN Setter
    PROVE  Slot(market', tx.on, Setter[tx.call]) = tx.with
BY MinedSlots DEF EffectOnSlots

LEMMA ProxySets ==
    ASSUME WorldOK, NEW tx, MinedOne(tx), tx.call \in DOMAIN Proxied, provider = tx.on
    PROVE  BecomesProxy(tx, Proxied[tx.call])
<1>. DEFINE id == Proxied[tx.call]
<1>1. /\ Slot(market, tx.on, id) = NoAddress
      /\ Slot(market', tx.on, id) \in market'.initialised \cap market'.contracts
  BY MinedSlots DEF EffectOnSlots
<1>2. tx.call = "setPoolConfiguratorImpl" =>
          Slot(market', Slot(market', tx.on, "POOL_CONFIGURATOR"), "pool") = Slot(market, tx.on, "POOL")
  BY MinedSlots DEF EffectOnSlots
<1>3. tx.call = "setPoolConfiguratorImpl" => IsSet("POOL")
  BY DEF MinedOne, TransactionOK
<1>4. id = "POOL_CONFIGURATOR" => tx.call = "setPoolConfiguratorImpl"
  BY Callees
<1>5. provider' = tx.on
  BY MinedSlots
<1>. HIDE DEF id
<1>6. /\ Component(id) = NoAddress
      /\ Component(id)' \in market'.initialised \cap market'.contracts
  BY <1>1, <1>5 DEF Component
<1>7. ASSUME id = "POOL_CONFIGURATOR"
      PROVE  IsSet("POOL") /\ Slot(market', Component(id)', "pool") = Component("POOL")
  BY <1>2, <1>3, <1>4, <1>5, <1>7 DEF Component
<1>8. BecomesProxy(tx, id)
  BY <1>6, <1>7 DEF BecomesProxy, id
<1>. QED
  BY <1>8 DEF id

LEMMA MinedComponent ==
    ASSUME WorldOK, NEW tx, MinedOne(tx), NEW id
    PROVE  Component(id)' = Component(id) \/ BecomesProxy(tx, id) \/ BecomesPassed(tx, id)
<1>1. CASE ~IsRecorded("PoolAddressesProvider")
  BY <1>1, MinedSlots
<1>2. CASE IsRecorded("PoolAddressesProvider") /\ ~Assigns(tx, provider, id)
  <2>1. Slot(market', provider, id) = Slot(market, provider, id)
    BY <1>2, MinedSlots, SlotKept
  <2>. QED
    BY <2>1, MinedSlots DEF Component
<1>3. CASE Assigns(tx, provider, id) /\ tx.call \in DOMAIN Proxied /\ id = Proxied[tx.call]
  BY <1>3, ProxySets DEF Assigns
<1>4. CASE Assigns(tx, provider, id) /\ tx.call \in DOMAIN Setter /\ id = Setter[tx.call]
  <2>1. Slot(market', tx.on, id) = tx.with
    BY <1>4, SetterSets
  <2>2. Component(id)' = tx.with
    BY <1>4, <2>1, MinedSlots DEF Component, Assigns
  <2>3. TransactionOK(tx)
    BY DEF MinedOne
  <2>4. CASE tx.call = "setPoolDataProvider"
    BY <1>4, <2>2, <2>3, <2>4, Callees DEF TransactionOK, BecomesPassed
  <2>5. CASE tx.call = "setACLManager"
    BY <1>4, <2>2, <2>3, <2>5, Callees DEF TransactionOK, BecomesPassed
  <2>6. CASE tx.call = "setPriceOracle"
    BY <1>4, <2>2, <2>3, <2>6, Callees DEF TransactionOK, BecomesPassed
  <2>7. CASE tx.call = "setACLAdmin"
    BY <1>4, <2>2, <2>3, <2>7, Callees DEF TransactionOK, BecomesPassed
  <2>8. CASE tx.call = "setRewardsController"
    BY <1>4, <2>2, <2>3, <2>8, Callees DEF TransactionOK
  <2>. QED
    BY <1>4, <2>4, <2>5, <2>6, <2>7, <2>8, Callees
<1>. QED
  BY <1>1, <1>2, <1>3, <1>4 DEF Assigns

LEMMA SetComponentStays ==
    ASSUME WorldOK, NEW tx, MinedOne(tx), NEW id, IsSet(id)
    PROVE  Component(id)' = Component(id)
<1>1. ~BecomesProxy(tx, id)
  BY DEF BecomesProxy, IsSet
<1>2. ASSUME BecomesPassed(tx, id) PROVE Component(id)' = Component(id)
  <2>1. ComponentsOK
    BY DEF WorldOK
  <2>. QED
    BY <1>2, <2>1 DEF BecomesPassed, ComponentsOK, IsNamed, Passes
<1>. QED
  BY <1>1, <1>2, MinedComponent

-------------------------------------------------------------------------------
(* They are still what is recorded.                                        *)

LEMMA MinedController ==
    ASSUME WorldOK, NEW tx, MinedOne(tx)
    PROVE  /\ Controller # NoAddress => Controller' = Controller
           /\ Controller' # NoAddress => Controller' = Component("REWARD_CONTROLLER")'
<1>. DEFINE emission == Recorded("EmissionManager")
<1>1. /\ WorldOK /\ ComponentsOK /\ records' = records /\ TransactionOK(tx)
      /\ IsContracts(market) /\ IsContracts(market')
  BY MinedSlots DEF WorldOK, MinedOne
<1>2. Recorded("EmissionManager")' = emission
  BY <1>1 DEF Recorded
<1>3. emission \in market.contracts \/ emission = NoAddress
  BY <1>1 DEF WorldOK, NamesOK, Recorded
<1>. HIDE DEF emission
<1>4. Controller = Slot(market, emission, "REWARD_CONTROLLER")
      /\ Controller' = Slot(market', emission, "REWARD_CONTROLLER")
  BY <1>2 DEF Controller, emission
<1>5. IsSet("REWARD_CONTROLLER") =>
          Component("REWARD_CONTROLLER")' = Component("REWARD_CONTROLLER")
  BY <1>1, SetComponentStays
<1>6. Controller # NoAddress => Controller = Component("REWARD_CONTROLLER")
  BY <1>1 DEF ComponentsOK
<1>7. CASE emission = NoAddress
  <2>1. NoAddress \notin market.contracts /\ NoAddress \notin market'.contracts
    BY <1>1, NoContractThere
  <2>2. Controller = NoAddress /\ Controller' = NoAddress
    BY <1>1, <1>4, <1>7, <2>1, SlotsOfContracts
  <2>. QED
    BY <2>2
<1>8. CASE emission \in market.contracts /\ ~Assigns(tx, emission, "REWARD_CONTROLLER")
  <2>1. Controller' = Controller
    BY <1>1, <1>4, <1>8, SlotKept
  <2>. QED
    BY <1>5, <1>6, <2>1 DEF IsSet
<1>9. CASE tx.call = "setRewardsController"
  <2>1. /\ tx.on = emission /\ IsSet("REWARD_CONTROLLER") /\ tx.with = Component("REWARD_CONTROLLER")
    BY <1>1, <1>9 DEF TransactionOK, Calls, Recorded, IsRecorded, emission
  <2>2. Controller' = tx.with
    BY <1>1, <1>4, <1>9, <2>1, SetterSets, Callees
  <2>. QED
    BY <1>5, <1>6, <2>1, <2>2
<1>10. CASE tx.call = "setAddressAsProxy" /\ tx.on = emission
  <2>1. Slot(market, emission, "REWARD_CONTROLLER") = NoAddress
    BY <1>10, MinedSlots, Callees DEF EffectOnSlots
  <2>2. emission = provider /\ provider' = provider
    BY <1>1, <1>10, MinedSlots
        DEF TransactionOK, Calls, OnProvider, provider, Recorded, IsRecorded
  <2>3. Controller' = Component("REWARD_CONTROLLER")'
    BY <1>4, <2>2 DEF Component
  <2>. QED
    BY <1>4, <2>1, <2>3
<1>11. Assigns(tx, emission, "REWARD_CONTROLLER") =>
          tx.call = "setRewardsController" \/ (tx.call = "setAddressAsProxy" /\ tx.on = emission)
  BY Callees DEF Assigns
<1>. QED
  BY <1>3, <1>7, <1>8, <1>9, <1>10, <1>11

LEMMA MinedNamed ==
    ASSUME WorldOK, NEW tx, MinedOne(tx)
    PROVE  /\ IsNamed("DATA_PROVIDER", "PoolDataProvider")'
           /\ IsNamed("ACL_MANAGER", "ACLManager")'
           /\ IsNamed("PRICE_ORACLE", "ProtocolOracle")'
           /\ (IsSet("ACL_ADMIN") => Component("ACL_ADMIN") = Deployer)'
<1>1. ComponentsOK /\ records' = records
  BY DEF WorldOK, MinedOne
<1>2. \A id \in {"DATA_PROVIDER", "ACL_MANAGER", "PRICE_ORACLE", "ACL_ADMIN"} :
          Component(id)' = Component(id) \/ BecomesPassed(tx, id)
  BY MinedComponent, Callees DEF BecomesProxy
<1>3. IsNamed("DATA_PROVIDER", "PoolDataProvider")'
  BY <1>1, <1>2 DEF ComponentsOK, IsNamed, IsSet, BecomesPassed, Passes, IsRecorded
<1>4. IsNamed("ACL_MANAGER", "ACLManager")'
  BY <1>1, <1>2 DEF ComponentsOK, IsNamed, IsSet, BecomesPassed, Passes, IsRecorded
<1>5. IsNamed("PRICE_ORACLE", "ProtocolOracle")'
  BY <1>1, <1>2 DEF ComponentsOK, IsNamed, IsSet, BecomesPassed, Passes, IsRecorded
<1>6. (IsSet("ACL_ADMIN") => Component("ACL_ADMIN") = Deployer)'
  BY <1>1, <1>2 DEF ComponentsOK, IsSet, BecomesPassed
<1>. QED
  BY <1>3, <1>4, <1>5, <1>6

LEMMA MinedProxies ==
    ASSUME WorldOK, NEW tx, MinedOne(tx)
    PROVE  /\ IsSet("POOL")' => Component("POOL")' \in market'.contracts \cap market'.initialised
           /\ IsSet("POOL_CONFIGURATOR")' =>
                /\ IsSet("POOL")'
                /\ Slot(market', configurator', "pool") = Component("POOL")'
           /\ IsSet("REWARD_CONTROLLER")' => Component("REWARD_CONTROLLER")' \in market'.contracts
<1>1. /\ ComponentsOK /\ market.contracts \subseteq market'.contracts
      /\ market.initialised \subseteq market'.initialised
  BY DEF WorldOK, MinedOne, Mines, Effects, EffectOnContracts
<1>2. \A id \in {"POOL", "POOL_CONFIGURATOR", "REWARD_CONTROLLER"} :
          Component(id)' = Component(id) \/ BecomesProxy(tx, id)
  BY MinedComponent DEF BecomesPassed
<1>3. IsSet("POOL") => Component("POOL")' = Component("POOL") /\ IsSet("POOL")'
  BY SetComponentStays DEF IsSet
<1>4. IsSet("POOL")' => Component("POOL")' \in market'.contracts \cap market'.initialised
  BY <1>1, <1>2 DEF ComponentsOK, BecomesProxy, IsSet
<1>5. IsSet("REWARD_CONTROLLER")' => Component("REWARD_CONTROLLER")' \in market'.contracts
  BY <1>1, <1>2 DEF ComponentsOK, BecomesProxy, IsSet
<1>6. ASSUME IsSet("POOL_CONFIGURATOR")'
      PROVE  IsSet("POOL")' /\ Slot(market', configurator', "pool") = Component("POOL")'
  <2>1. CASE BecomesProxy(tx, "POOL_CONFIGURATOR")
    BY <1>3, <2>1 DEF BecomesProxy, configurator
  <2>2. CASE Component("POOL_CONFIGURATOR")' = Component("POOL_CONFIGURATOR")
    <3>1. IsSet("POOL_CONFIGURATOR") /\ configurator' = configurator
      BY <1>6, <2>2 DEF IsSet, configurator
    <3>2. IsSet("POOL") /\ Slot(market, configurator, "pool") = Component("POOL")
      BY <1>1, <3>1 DEF ComponentsOK
    <3>3. configurator \in market.contracts
      BY <3>1, HoldersAre
    <3>4. \A x : ~Assigns(tx, x, "pool")
      BY Callees DEF Assigns
    <3>5. Slot(market', configurator, "pool") = Slot(market, configurator, "pool")
      BY <3>3, <3>4, SlotKept
    <3>. QED
      BY <1>3, <3>1, <3>2, <3>5
  <2>. QED
    BY <1>2, <2>1, <2>2
<1>. QED
  BY <1>4, <1>5, <1>6

LEMMA MinedComponents ==
    ASSUME WorldOK, NEW tx, MinedOne(tx)
    PROVE  ComponentsOK'
<1>1. ComponentsOK /\ records' = records
  BY DEF WorldOK, MinedOne
<1>2. \A id : IsSet(id) => IsSet(id)' /\ Component(id)' = Component(id)
  BY SetComponentStays DEF IsSet
<1>3. /\ IsSavedAs("POOL", "Pool-Proxy")' /\ IsSavedAs("POOL_CONFIGURATOR", "PoolConfigurator-Proxy")'
      /\ IsSavedAs("REWARD_CONTROLLER", "RewardsControllerProxy")'
  BY <1>1, <1>2 DEF ComponentsOK, IsSavedAs, IsRecorded
<1>4. Controller' # NoAddress => Controller' = Component("REWARD_CONTROLLER")'
  BY MinedController
<1>. QED
  BY <1>3, <1>4, MinedNamed, MinedProxies DEF ComponentsOK

-------------------------------------------------------------------------------
(* The reserves after a transaction.                                       *)

\* What is known of the reserve of s.
ListedWell(s) ==
    /\ IsRecorded(ReservesConfig[s].strategy)
    /\ market.reserves[Reserve(s)].reserveInterestRateStrategy
           = records[ReservesConfig[s].strategy]
    /\ Untouched(s) \/ AsConfigured(s)

ReservesForward ==
    \A s \in Symbols : (Listed(s) => Listed(s)') /\ (IsCollateral(s) => IsCollateral(s)')

LEMMA ReservesAre ==
    ASSUME ReservesOK, enacted = 0
    PROVE  /\ \A r \in DOMAIN market.reserves : \E s \in Symbols \cap DOMAIN records : r = Reserve(s)
           /\ \A s \in Symbols : Listed(s) => ListedWell(s)
BY DEF ReservesOK, ListedWell

LEMMA MinedReserve ==
    ASSUME WorldOK, NEW tx, MinedOne(tx)
    PROVE  /\ \A s : IsSet("POOL") => Reserve(s)' = Reserve(s)
           /\ \A s \in Symbols : Listed(s) => Reserve(s)' = Reserve(s)
           /\ \A id : Recorded(id)' = Recorded(id) /\ IsRecorded(id)' = IsRecorded(id)
           /\ records' = records
           /\ market.contracts \subseteq market'.contracts
<1>1. records' = records /\ market.contracts \subseteq market'.contracts
  BY DEF MinedOne, Mines, Effects, EffectOnContracts
<1>2. \A id : Recorded(id)' = Recorded(id) /\ IsRecorded(id)' = IsRecorded(id)
  BY <1>1 DEF Recorded, IsRecorded
<1>3. \A s : IsSet("POOL") => Reserve(s)' = Reserve(s)
  BY <1>2, SetComponentStays DEF Reserve
<1>. QED
  BY <1>1, <1>2, <1>3, HoldersAre

\* Enough to know of the reserves that were there, and of the new ones.
LEMMA MinedReservesOK ==
    ASSUME WorldOK, NEW tx, MinedOne(tx), enacted' = enacted, enacted = 0,
           \A r \in DOMAIN market'.reserves :
              r \in DOMAIN market.reserves
                 \/ (r \in market'.contracts \X market'.contracts
                        /\ \E s \in Symbols \cap DOMAIN records : r = Reserve(s)'),
           \A s \in Symbols : Listed(s)' => ListedWell(s)'
    PROVE  ReservesOK'
<1>1. ReservesOK
  BY DEF WorldOK
<1>2. /\ \A s \in Symbols : Listed(s) => Reserve(s)' = Reserve(s)
      /\ records' = records /\ market.contracts \subseteq market'.contracts
  BY MinedReserve
<1>3. \A r \in DOMAIN market'.reserves : r \in market'.contracts \X market'.contracts
  BY <1>1, <1>2 DEF ReservesOK
<1>4. ASSUME NEW r \in DOMAIN market'.reserves
      PROVE  \E s \in Symbols \cap DOMAIN records' : r = Reserve(s)'
  <2>1. CASE r \in DOMAIN market.reserves
    <3>1. PICK s \in Symbols \cap DOMAIN records : r = Reserve(s)
      BY <1>1, <2>1, ReservesAre
    <3>2. Listed(s)
      BY <2>1, <3>1 DEF Listed
    <3>. QED
      BY <1>2, <3>1, <3>2
  <2>2. CASE r \notin DOMAIN market.reserves
    BY <1>2, <2>2
  <2>. QED
    BY <2>1, <2>2
<1>5. \A s \in Symbols : Listed(s)' =>
        /\ IsRecorded(ReservesConfig[s].strategy)'
        /\ market'.reserves[Reserve(s)'].reserveInterestRateStrategy
               = records'[ReservesConfig[s].strategy]
        /\ Untouched(s)' \/ AsConfigured(s)'
  BY DEF ListedWell
<1>. QED
  BY <1>3, <1>4, <1>5 DEF ReservesOK

\* A reserve nothing was written to.
LEMMA SameReserve ==
    ASSUME WorldOK, NEW tx, MinedOne(tx), NEW s, s \in Symbols, Listed(s),
           Reserve(s) \in DOMAIN market'.reserves,
           market'.reserves[Reserve(s)] = market.reserves[Reserve(s)]
    PROVE  /\ ListedWell(s) => ListedWell(s)'
           /\ Listed(s)' /\ (IsCollateral(s) => IsCollateral(s)')
<1>1. /\ Reserve(s)' = Reserve(s) /\ records' = records
      /\ \A id : IsRecorded(id)' = IsRecorded(id)
  BY MinedReserve
<1>2. (Untouched(s) => Untouched(s)') /\ (AsConfigured(s) => AsConfigured(s)')
  BY <1>1 DEF Untouched, AsConfigured
<1>3. Listed(s)' /\ (IsCollateral(s) => IsCollateral(s)')
  BY <1>1 DEF Listed, IsCollateral
<1>4. ListedWell(s) => ListedWell(s)'
  BY <1>1, <1>2 DEF ListedWell
<1>. QED
  BY <1>3, <1>4

LEMMA OthersKeepReserves ==
    ASSUME WorldOK, NEW tx, MinedOne(tx), enacted' = enacted, enacted = 0, tx.call \notin InChunks
    PROVE  ReservesOK' /\ ReservesForward
<1>1. market'.reserves = market.reserves /\ ReservesOK
  BY DEF MinedOne, Mines, Effects, EffectOnReserves, InChunks, WorldOK
<1>2. \A s \in Symbols : Listed(s) => Listed(s)' /\ ListedWell(s)' /\ (IsCollateral(s) => IsCollateral(s)')
  BY <1>1, SameReserve, ReservesAre DEF Listed
<1>3. ASSUME NEW s \in Symbols, Listed(s)' PROVE ListedWell(s)'
  <2>1. Reserve(s)' \in DOMAIN market.reserves
    BY <1>1, <1>3 DEF Listed
  <2>2. PICK t \in Symbols \cap DOMAIN records : Reserve(s)' = Reserve(t)
    BY <1>1, <2>1, ReservesAre
  <2>3. Listed(t)
    BY <2>1, <2>2 DEF Listed
  <2>4. IsSet("POOL") /\ IsRecorded(t)
    BY <2>3, HoldersAre
  <2>5. Recorded(s) = Recorded(t)
    BY <2>2, <2>4, MinedReserve DEF Reserve
  <2>6. Reserve(s) = Reserve(t) /\ Listed(s)
    BY <2>3, <2>5 DEF Reserve, Listed
  <2>. QED
    BY <1>2, <2>6
<1>4. ReservesForward
  BY <1>2 DEF ReservesForward, IsCollateral
<1>5. ReservesOK'
  BY <1>1, <1>3, MinedReservesOK
<1>. QED
  BY <1>4, <1>5

-------------------------------------------------------------------------------
(* What initReserves lists.                                                *)

\* The new reserves are those of symbols, and as initReserves leaves them.
ListsSymbols(tx) ==
    /\ \A r \in DOMAIN market.reserves :
          r \in DOMAIN market'.reserves /\ market'.reserves[r] = market.reserves[r]
    /\ \A r \in DOMAIN market'.reserves \ DOMAIN market.reserves :
          /\ r \in market'.contracts \X market'.contracts
          /\ \E s \in Symbols : /\ r = Reserve(s) /\ IsNewData(market'.reserves[r], InitInput(s).strategy)
                                /\ \E i \in 1..Len(tx.with) : tx.with[i] = InitInput(s)
    /\ \A s \in Symbols : (\E i \in 1..Len(tx.with) : tx.with[i] = InitInput(s)) =>
          Reserve(s) \in DOMAIN market'.reserves \ DOMAIN market.reserves

LEMMA InitReservesLists ==
    ASSUME WorldOK, NEW tx, MinedOne(tx), tx.call = "initReserves"
    PROVE  /\ ListsSymbols(tx) /\ IsSet("POOL") /\ ListingRecorded
           /\ tx.with \in Seq({InitInput(s) : s \in Symbols})
<1>1. /\ IsSet("POOL_CONFIGURATOR") /\ tx.on = configurator
      /\ ListingRecorded /\ tx.with \in Seq({InitInput(s) : s \in Symbols})
  BY DEF MinedOne, TransactionOK
<1>2. IsSet("POOL") /\ Slot(market, tx.on, "pool") = Component("POOL")
  BY <1>1 DEF WorldOK, ComponentsOK
<1>3. /\ ListsAll(market, market', tx.on, tx.with, Len(tx.with)) /\ ~market'.reverted
      /\ market.contracts \subseteq market'.contracts
  BY DEF MinedOne, Mines, Effects, EffectOnContracts
<1>4. \A i \in 1..Len(tx.with) : \E s \in Symbols : tx.with[i] = InitInput(s)
  BY <1>1
<1>5. \A s : <<Slot(market, tx.on, "pool"), InitInput(s).asset>> = Reserve(s)
  BY <1>2, InitInputIs DEF Reserve
<1>6. \A i \in 1..Len(tx.with) :
          /\ <<Slot(market, tx.on, "pool"), tx.with[i].asset>> \in DOMAIN market'.reserves
          /\ <<Slot(market, tx.on, "pool"), tx.with[i].asset>> \notin DOMAIN market.reserves
          /\ tx.with[i].asset \in market'.contracts
  BY <1>3 DEF ListsAll
<1>7. /\ \A r \in DOMAIN market.reserves :
            r \in DOMAIN market'.reserves /\ market'.reserves[r] = market.reserves[r]
      /\ \A r \in DOMAIN market'.reserves \ DOMAIN market.reserves :
            \E i \in 1..Len(tx.with) : /\ r = <<Slot(market, tx.on, "pool"), tx.with[i].asset>>
                                       /\ IsNewData(market'.reserves[r], tx.with[i].strategy)
  BY <1>3 DEF ListsAll
<1>8. Component("POOL") \in market'.contracts
  BY <1>2, <1>3 DEF WorldOK, ComponentsOK
<1>9. ASSUME NEW r \in DOMAIN market'.reserves \ DOMAIN market.reserves
      PROVE  /\ r \in market'.contracts \X market'.contracts
             /\ \E s \in Symbols : /\ r = Reserve(s) /\ IsNewData(market'.reserves[r], InitInput(s).strategy)
                                   /\ \E i \in 1..Len(tx.with) : tx.with[i] = InitInput(s)
  <2>1. PICK i \in 1..Len(tx.with) : /\ r = <<Slot(market, tx.on, "pool"), tx.with[i].asset>>
                                     /\ IsNewData(market'.reserves[r], tx.with[i].strategy)
    BY <1>7, <1>9
  <2>2. PICK s \in Symbols : tx.with[i] = InitInput(s)
    BY <1>4
  <2>3. r = Reserve(s) /\ IsNewData(market'.reserves[r], InitInput(s).strategy)
    BY <1>5, <2>1, <2>2
  <2>4. r \in market'.contracts \X market'.contracts
    BY <1>2, <1>6, <1>8, <2>1
  <2>. QED
    BY <2>2, <2>3, <2>4
<1>10. ASSUME NEW s \in Symbols, NEW i \in 1..Len(tx.with), tx.with[i] = InitInput(s)
       PROVE  Reserve(s) \in DOMAIN market'.reserves \ DOMAIN market.reserves
  BY <1>5, <1>6, <1>10
<1>11. ListsSymbols(tx)
  BY <1>7, <1>9, <1>10 DEF ListsSymbols
<1>. QED
  BY <1>1, <1>2, <1>11

LEMMA NewReserveIs ==
    ASSUME NEW data, NEW strategy, IsNewData(data, strategy)
    PROVE  /\ data.reserveInterestRateStrategy = strategy
           /\ \A field \in {"baseLTVasCollateral", "reserveLiquidationThreshold",
                            "reserveLiquidationBonus", "reserveFactor", "borrowCap", "supplyCap",
                            "borrowingEnabled", "stableBorrowRateEnabled", "flashLoanEnabled"} :
                 data[field] = Data[field]
BY SMT DEF IsNewData, NewReserveData, Data

LEMMA ListingKeepsReserves ==
    ASSUME WorldOK, NEW tx, MinedOne(tx), enacted' = enacted, enacted = 0, tx.call = "initReserves"
    PROVE  /\ ReservesOK' /\ ReservesForward
           /\ \A s \in Symbols : (\E i \in 1..Len(tx.with) : tx.with[i] = InitInput(s)) => Listed(s)'
<1>1. ListsSymbols(tx) /\ IsSet("POOL") /\ ListingRecorded
  BY InitReservesLists
<1>2. /\ \A s : Reserve(s)' = Reserve(s)
      /\ \A id : Recorded(id)' = Recorded(id) /\ IsRecorded(id)' = IsRecorded(id)
      /\ records' = records
  BY <1>1, MinedReserve
<1>3. ReservesOK /\ NamesOK
  BY DEF WorldOK
<1>4. \A s \in Symbols : Listed(s) => Listed(s)' /\ ListedWell(s)' /\ (IsCollateral(s) => IsCollateral(s)')
  BY <1>1, <1>3, SameReserve, ReservesAre DEF Listed, ListsSymbols
<1>5. ASSUME NEW s \in Symbols, Listed(s)', ~Listed(s) PROVE ListedWell(s)'
  <2>1. Reserve(s) \in DOMAIN market'.reserves \ DOMAIN market.reserves
    BY <1>2, <1>5 DEF Listed
  <2>2. PICK t \in Symbols : /\ Reserve(s) = Reserve(t)
                             /\ IsNewData(market'.reserves[Reserve(s)], InitInput(t).strategy)
    BY <1>1, <2>1 DEF ListsSymbols
  <2>3. Recorded(s) = Recorded(t)
    BY <2>2 DEF Reserve
  <2>4. s = t
    BY <1>1, <1>3, <2>3, NamedApart
  <2>5. IsRecorded(ReservesConfig[s].strategy)
    BY <1>1 DEF ListingRecorded, ListingIds, IsRecorded
  <2>6. InitInput(s).strategy = records[ReservesConfig[s].strategy]
    BY <2>5, InitInputIs DEF Recorded, IsRecorded
  <2>. DEFINE data == market'.reserves[Reserve(s)]
  <2>7. IsNewData(data, InitInput(s).strategy)
    BY <2>2, <2>4
  <2>. HIDE DEF data
  <2>8. data.reserveInterestRateStrategy = records[ReservesConfig[s].strategy]
    BY <2>6, <2>7, NewReserveIs
  <2>9. Untouched(s)'
    BY <1>2, <2>7, NewReserveIs DEF Untouched, data
  <2>. QED
    BY <1>2, <2>5, <2>8, <2>9 DEF ListedWell, data
<1>6. \A s \in Symbols : Listed(s)' => ListedWell(s)'
  BY <1>4, <1>5
<1>7. \A r \in DOMAIN market'.reserves :
        r \in DOMAIN market.reserves
           \/ (r \in market'.contracts \X market'.contracts
                  /\ \E s \in Symbols \cap DOMAIN records : r = Reserve(s)')
  <2>1. Symbols \subseteq DOMAIN records
    BY <1>1 DEF ListingRecorded, ListingIds
  <2>. QED
    BY <1>1, <1>2, <2>1 DEF ListsSymbols
<1>8. ReservesOK'
  BY <1>6, <1>7, MinedReservesOK
<1>9. ReservesForward
  BY <1>4 DEF ReservesForward, IsCollateral
<1>10. \A s \in Symbols : (\E i \in 1..Len(tx.with) : tx.with[i] = InitInput(s)) => Listed(s)'
  BY <1>1, <1>2 DEF ListsSymbols, Listed
<1>. QED
  BY <1>8, <1>9, <1>10

-------------------------------------------------------------------------------
(* What configureReserves sets.                                            *)

\* The reserves of the symbols that are passed are set as they are to be, the others stay.
SetsSymbols(tx) ==
    /\ DOMAIN market'.reserves = DOMAIN market.reserves
    /\ \A s \in Symbols : (\E i \in 1..Len(tx.with.params) : tx.with.params[i] = ConfigureInput(s)) =>
          AsIn(market'.reserves[Reserve(s)], market.reserves[Reserve(s)], ConfigureInput(s))
    /\ \A s \in Symbols :
          \/ (\E i \in 1..Len(tx.with.params) : tx.with.params[i] = ConfigureInput(s))
          \/ Listed(s) => market'.reserves[Reserve(s)] = market.reserves[Reserve(s)]

LEMMA ConfigureReservesSets ==
    ASSUME WorldOK, NEW tx, MinedOne(tx), tx.call = "configureReserves"
    PROVE  /\ SetsSymbols(tx) /\ IsSet("POOL") /\ ListingRecorded /\ AllListed
           /\ tx.with.params \in Seq({ConfigureInput(s) : s \in Symbols})
           /\ Len(tx.with.params) > 0 =>
                 Allowed(market, Slot(market, configurator, "provider"), RiskOrPoolAdmins, tx.on)
<1>. DEFINE params == tx.with.params
<1>1. /\ IsSet("POOL_CONFIGURATOR") /\ tx.with.configurator = configurator
      /\ ListingRecorded /\ AllListed /\ params \in Seq({ConfigureInput(s) : s \in Symbols})
  BY DEF MinedOne, TransactionOK
<1>2. IsSet("POOL") /\ Slot(market, configurator, "pool") = Component("POOL") /\ NamesOK
  BY <1>1 DEF WorldOK, ComponentsOK
<1>3. /\ ConfiguresAll(market, market', tx.on, configurator, params, Len(params)) /\ ~market'.reverted
  BY <1>1 DEF MinedOne, Mines
<1>. HIDE DEF params
<1>4. \A i \in 1..Len(params) : \E s \in Symbols : params[i] = ConfigureInput(s)
  BY <1>1
<1>5. \A s : KeyOf(market, configurator, ConfigureInput(s).asset) = Reserve(s)
  BY <1>2, ConfigureInputIs DEF Reserve, KeyOf
<1>6. /\ DOMAIN market'.reserves = DOMAIN market.reserves
      /\ \A r \in DOMAIN market.reserves :
            (\A i \in 1..Len(params) : r # KeyOf(market, configurator, params[i].asset)) =>
               market'.reserves[r] = market.reserves[r]
  BY <1>3 DEF ConfiguresAll
<1>7. \A i \in 1..Len(params) :
         LET key == KeyOf(market, configurator, params[i].asset)
         IN  AsIn(market'.reserves[key], market.reserves[key], params[i])
  BY <1>3, Zenon DEF ConfiguresAll
<1>8. Len(params) > 0 =>
         Allowed(market, Slot(market, configurator, "provider"), RiskOrPoolAdmins, tx.on)
  BY <1>3 DEF ConfiguresAll
<1>9. ASSUME NEW s \in Symbols, NEW i \in 1..Len(params), params[i] = ConfigureInput(s)
      PROVE  AsIn(market'.reserves[Reserve(s)], market.reserves[Reserve(s)], ConfigureInput(s))
  <2>1. KeyOf(market, configurator, params[i].asset) = Reserve(s)
    BY <1>5, <1>9
  <2>2. AsIn(market'.reserves[KeyOf(market, configurator, params[i].asset)],
             market.reserves[KeyOf(market, configurator, params[i].asset)], params[i])
    BY <1>7, Zenon
  <2>. QED
    BY <1>9, <2>1, <2>2, Zenon
<1>10. ASSUME NEW s \in Symbols, Listed(s), ~\E i \in 1..Len(params) : params[i] = ConfigureInput(s)
       PROVE  market'.reserves[Reserve(s)] = market.reserves[Reserve(s)]
  <2>1. ASSUME NEW i \in 1..Len(params), Reserve(s) = KeyOf(market, configurator, params[i].asset)
        PROVE  FALSE
    <3>1. PICK t \in Symbols : params[i] = ConfigureInput(t)
      BY <1>4
    <3>2. Reserve(s) = Reserve(t)
      BY <1>5, <2>1, <3>1
    <3>3. Recorded(s) = Recorded(t)
      BY <3>2 DEF Reserve
    <3>4. s = t
      BY <1>1, <1>2, <3>3, NamedApart
    <3>. QED
      BY <1>10, <3>1, <3>4
  <2>2. Reserve(s) \in DOMAIN market.reserves
    BY <1>10 DEF Listed
  <2>. QED
    BY <1>6, <2>1, <2>2
<1>11. /\ \A s \in Symbols : (\E i \in 1..Len(params) : params[i] = ConfigureInput(s)) =>
             AsIn(market'.reserves[Reserve(s)], market.reserves[Reserve(s)], ConfigureInput(s))
       /\ \A s \in Symbols :
             \/ (\E i \in 1..Len(params) : params[i] = ConfigureInput(s))
             \/ Listed(s) => market'.reserves[Reserve(s)] = market.reserves[Reserve(s)]
  BY <1>9, <1>10, Zenon
<1>12. SetsSymbols(tx)
  BY <1>6, <1>11, Zenon DEF SetsSymbols, params
<1>. QED
  BY <1>1, <1>2, <1>8, <1>12 DEF params

LEMMA ConfiguredIs ==
    ASSUME WorldOK, NEW tx, MinedOne(tx), NEW s \in Symbols, Listed(s), IsSet("POOL"),
           ListedWell(s), IsRecorded(ReservesConfig[s].strategy),
           DOMAIN market'.reserves = DOMAIN market.reserves,
           AsIn(market'.reserves[Reserve(s)], market.reserves[Reserve(s)], ConfigureInput(s))
    PROVE  Listed(s)' /\ ListedWell(s)' /\ IsCollateral(s)'
<1>. DEFINE new == market'.reserves[Reserve(s)]
            old == market.reserves[Reserve(s)]
            config == ReservesConfig[s]
            p == ConfigureInput(s)
<1>1. /\ Reserve(s)' = Reserve(s) /\ records' = records
      /\ \A id : IsRecorded(id)' = IsRecorded(id)
  BY MinedReserve
<1>2. AsIn(new, old, p) /\ IsUsable(config)
  BY ConfigurationIs
<1>3. /\ p.baseLTV = config.baseLTVAsCollateral
      /\ p.liquidationThreshold = config.liquidationThreshold
      /\ p.liquidationBonus = config.liquidationBonus /\ p.reserveFactor = config.reserveFactor
      /\ p.borrowCap = config.borrowCap /\ p.supplyCap = config.supplyCap
      /\ p.stableBorrowingEnabled = config.stableBorrowRateEnabled
      /\ p.borrowingEnabled = config.borrowingEnabled
      /\ p.flashLoanEnabled = config.flashLoanEnabled
  BY ConfigureInputIs
<1>4. Untouched(s) =>
         old.borrowingEnabled = FALSE /\ old.borrowCap = 0 /\ old.stableBorrowRateEnabled = FALSE
  BY DEF Untouched, Data, NewReserveData
<1>5. AsConfigured(s) =>
         /\ old.borrowingEnabled = config.borrowingEnabled /\ old.borrowCap = config.borrowCap
         /\ old.stableBorrowRateEnabled = config.stableBorrowRateEnabled
  BY DEF AsConfigured
<1>6. Untouched(s) \/ AsConfigured(s)
  BY DEF ListedWell
<1>7. old.reserveInterestRateStrategy = records[config.strategy]
  BY DEF ListedWell
<1>. HIDE DEF new, old, config, p
<1>8. /\ new.baseLTVasCollateral = config.baseLTVAsCollateral
      /\ new.reserveLiquidationThreshold = config.liquidationThreshold
      /\ new.reserveLiquidationBonus = config.liquidationBonus
      /\ new.flashLoanEnabled = config.flashLoanEnabled
      /\ new.reserveFactor = config.reserveFactor /\ new.supplyCap = config.supplyCap
      /\ new.reserveInterestRateStrategy = records[config.strategy]
  BY <1>2, <1>3, <1>7 DEF AsIn
<1>9. /\ new.borrowingEnabled = config.borrowingEnabled
      /\ new.stableBorrowRateEnabled = config.stableBorrowRateEnabled
      /\ new.borrowCap = config.borrowCap
  <2>1. CASE config.borrowingEnabled
    BY <1>2, <1>3, <2>1 DEF AsIn, IsUsable
  <2>2. CASE ~config.borrowingEnabled
    <3>1. /\ config.borrowCap = 0 /\ config.stableBorrowRateEnabled = FALSE
          /\ config.borrowingEnabled = FALSE
      BY <1>2, <2>2 DEF IsUsable
    <3>2. /\ old.borrowingEnabled = FALSE /\ old.borrowCap = 0 /\ old.stableBorrowRateEnabled = FALSE
      BY <1>4, <1>5, <1>6, <3>1
    <3>3. /\ new.borrowingEnabled = old.borrowingEnabled /\ new.borrowCap = old.borrowCap
          /\ new.stableBorrowRateEnabled = old.stableBorrowRateEnabled
      BY <1>2, <1>3, <2>2 DEF AsIn, Borrowing
    <3>. QED
      BY <3>1, <3>2, <3>3
  <2>. QED
    BY <2>1, <2>2
<1>10. AsConfigured(s)'
  BY <1>1, <1>8, <1>9 DEF AsConfigured, new, config
<1>11. ListedWell(s)'
  BY <1>1, <1>8, <1>10 DEF ListedWell, new, config
<1>12. Listed(s)' /\ IsCollateral(s)'
  BY <1>1, <1>2, <1>8 DEF Listed, IsCollateral, IsUsable, new, config
<1>. QED
  BY <1>11, <1>12

LEMMA ConfiguringKeepsReserves ==
    ASSUME WorldOK, NEW tx, MinedOne(tx), enacted' = enacted, enacted = 0,
           tx.call = "configureReserves"
    PROVE  /\ ReservesOK' /\ ReservesForward
           /\ \A s \in Symbols :
                 (\E i \in 1..Len(tx.with.params) : tx.with.params[i] = ConfigureInput(s)) =>
                    IsCollateral(s)'
<1>1. SetsSymbols(tx) /\ IsSet("POOL") /\ ListingRecorded /\ AllListed
  BY ConfigureReservesSets
<1>2. ReservesOK /\ \A s \in Symbols : Listed(s) /\ ListedWell(s) /\ IsRecorded(ReservesConfig[s].strategy)
  BY <1>1, ReservesAre DEF WorldOK, AllListed, ListedWell
<1>3. DOMAIN market'.reserves = DOMAIN market.reserves
  BY <1>1 DEF SetsSymbols
<1>4. ASSUME NEW s \in Symbols,
             \E i \in 1..Len(tx.with.params) : tx.with.params[i] = ConfigureInput(s)
      PROVE  Listed(s)' /\ ListedWell(s)' /\ IsCollateral(s)'
  BY <1>1, <1>2, <1>3, <1>4, ConfiguredIs DEF SetsSymbols
<1>5. ASSUME NEW s \in Symbols,
             ~\E i \in 1..Len(tx.with.params) : tx.with.params[i] = ConfigureInput(s)
      PROVE  Listed(s)' /\ ListedWell(s)' /\ (IsCollateral(s) => IsCollateral(s)')
  <2>1. market'.reserves[Reserve(s)] = market.reserves[Reserve(s)]
    BY <1>1, <1>2, <1>5 DEF SetsSymbols
  <2>2. Reserve(s) \in DOMAIN market'.reserves
    BY <1>2, <1>3 DEF Listed
  <2>. QED
    BY <1>2, <2>1, <2>2, SameReserve
<1>6. ReservesForward
  BY <1>4, <1>5 DEF ReservesForward
<1>7. \A s \in Symbols : ListedWell(s)'
  BY <1>4, <1>5
<1>8. ReservesOK'
  BY <1>3, <1>7, MinedReservesOK
<1>. QED
  BY <1>4, <1>6, <1>8

-------------------------------------------------------------------------------
(* What is priced, and who has which role.                                 *)

LEMMA MinedSources ==
    ASSUME WorldOK, NEW tx, MinedOne(tx)
    PROVE  /\ \A s \in Symbols : Priced(s) /\ IsRecorded(s) /\ IsRecorded("ProtocolOracle") => Priced(s)'
           /\ tx.call = "setAssetSources" => AllPriced'
<1>1. /\ NamesOK /\ IsContracts(market) /\ EffectOnSources(market, market', tx) /\ TransactionOK(tx)
  BY DEF WorldOK, MinedOne, Mines, Effects
<1>2. /\ \A id : Recorded(id)' = Recorded(id) /\ IsRecorded(id)' = IsRecorded(id)
      /\ oracle' = oracle
  BY MinedReserve DEF oracle
<1>3. NoAddress \notin market.contracts
  BY <1>1, NoContractThere
<1>4. ASSUME tx.call # "setAssetSources", NEW s \in Symbols, Priced(s), IsRecorded("ProtocolOracle")
      PROVE  Priced(s)'
  <2>1. oracle \in market.contracts
    BY <1>1, <1>4 DEF NamesOK, oracle, Recorded, IsRecorded
  <2>2. getSourceOfAsset(market', oracle, Recorded(s)) = getSourceOfAsset(market, oracle, Recorded(s))
    BY <1>1, <1>4, <2>1 DEF EffectOnSources
  <2>. QED
    BY <1>2, <1>4, <2>2 DEF Priced
<1>5. ASSUME tx.call = "setAssetSources"
      PROVE  (\A s \in Symbols : Priced(s) => Priced(s)') /\ AllPriced'
  <2>. DEFINE assets == tx.with.assets
              sources == tx.with.sources
  <2>1. /\ Calls(tx, "ProtocolOracle") /\ \A s \in Symbols : IsRecorded(AggregatorOf(s))
        /\ assets = [i \in DOMAIN ReserveSymbols |-> Recorded(ReserveSymbols[i])]
        /\ sources = [i \in DOMAIN ReserveSymbols |-> Recorded(AggregatorOf(ReserveSymbols[i]))]
    BY <1>1, <1>5 DEF TransactionOK
  <2>2. SourcesAre(market, market', tx.on, assets, sources)
    BY <1>5 DEF MinedOne, Mines
  <2>. HIDE DEF assets, sources
  <2>3. tx.on = oracle
    BY <2>1 DEF Calls, oracle, Recorded, IsRecorded
  <2>4. Len(assets) = Len(ReserveSymbols) /\ Len(ReserveSymbols) \in Nat
    <3>1. DOMAIN ReserveSymbols = 1..Len(ReserveSymbols) /\ Len(ReserveSymbols) \in Nat
      BY Reservations
    <3>. QED
      BY <2>1, <3>1, QueueOf
  <2>5. \A i \in 1..Len(assets) : sources[i] # NoAddress
    <3>. TAKE i \in 1..Len(assets)
    <3>1. ReserveSymbols[i] \in Symbols /\ i \in DOMAIN ReserveSymbols
      BY <2>4, Reservations
    <3>2. IsRecorded(AggregatorOf(ReserveSymbols[i]))
      BY <2>1, <3>1
    <3>3. sources[i] = Recorded(AggregatorOf(ReserveSymbols[i]))
      BY <2>1, <3>1
    <3>. QED
      BY <1>1, <1>3, <3>2, <3>3 DEF NamesOK, Recorded, IsRecorded
  <2>6. \A s \in Symbols : \E i \in 1..Len(assets) : assets[i] = Recorded(s)
    <3>. TAKE s \in Symbols
    <3>1. PICK i \in 1..Len(ReserveSymbols) : s = ReserveSymbols[i]
      BY Reservations
    <3>2. i \in DOMAIN ReserveSymbols /\ i \in 1..Len(assets)
      BY <2>4, Reservations
    <3>. QED
      BY <2>1, <3>1, <3>2
  <2>7. ASSUME NEW s \in Symbols PROVE Priced(s)'
    <3>1. PICK i \in 1..Len(assets) : assets[i] = Recorded(s)
      BY <2>6
    <3>2. PICK j \in 1..Len(assets) : getSourceOfAsset(market', tx.on, assets[i]) = sources[j]
      BY <2>2, Zenon DEF SourcesAre
    <3>3. getSourceOfAsset(market', oracle, Recorded(s)) = sources[j]
      BY <2>3, <3>1, <3>2
    <3>. QED
      BY <1>2, <2>5, <3>3 DEF Priced
  <2>. QED
    BY <2>7 DEF AllPriced
<1>. QED
  BY <1>4, <1>5

LEMMA MinedAccounts ==
    ASSUME WorldOK, NEW tx, MinedOne(tx), enacted' = enacted
    PROVE  /\ AccountsOK'
           /\ \A r \in market.roles : r[2] # "RISK_ADMIN" => r \in market'.roles
           /\ market.premiumTotal # 0 => market'.premiumTotal # 0
           /\ tx.call = "updateFlashloanPremiumTotal" => market'.premiumTotal # 0
           /\ market.registered \subseteq market'.registered
           /\ market.contracts \subseteq market'.contracts
           /\ market.initialised \subseteq market'.initialised
<1>1. /\ AccountsOK /\ TransactionOK(tx) /\ EffectOnRoles(market, market', tx)
      /\ EffectOnFees(market, market', tx) /\ EffectOnContracts(market, market', tx)
  BY DEF WorldOK, MinedOne, Mines, Effects
<1>2. \A r \in market'.roles : r[2] = "POOL_ADMIN" => r[3] = Deployer
  BY <1>1 DEF AccountsOK, EffectOnRoles, TransactionOK
<1>3. FlashLoanPremiums.total # 0
  BY DEF FlashLoanPremiums
<1>4. AccountsOK'
  BY <1>1, <1>2 DEF AccountsOK, EffectOnFees
<1>5. \A r \in market.roles : r[2] # "RISK_ADMIN" => r \in market'.roles
  BY <1>1 DEF EffectOnRoles
<1>. QED
  BY <1>1, <1>3, <1>4, <1>5 DEF EffectOnFees, EffectOnContracts

LEMMA MinedReserves ==
    ASSUME WorldOK, NEW tx, MinedOne(tx), enacted' = enacted, enacted = 0
    PROVE  ReservesOK' /\ ReservesForward
BY OthersKeepReserves, ListingKeepsReserves, ConfiguringKeepsReserves DEF InChunks

LEMMA MinedWorld ==
    ASSUME WorldOK, NEW tx, MinedOne(tx), enacted' = enacted, enacted = 0
    PROVE  WorldOK'
<1>1. IsContracts(market') /\ ~market'.reverted /\ market'.log = <<>> /\ records' = records
  BY DEF MinedOne, Mines
<1>2. NamesOK'
  BY <1>1, MinedAccounts DEF WorldOK, NamesOK
<1>. QED
  BY <1>1, <1>2, MinedComponents, MinedReserves, MinedAccounts DEF WorldOK

LEMMA MinedForward ==
    ASSUME WorldOK, NEW tx, MinedOne(tx), enacted' = enacted, enacted = 0,
           \A a : Initialising(a) => Initialising(a)'
    PROVE  Forward
<1>1. records' = records
  BY DEF MinedOne
<1>2. \A id : IsSet(id) => Component(id)' = Component(id)
  BY SetComponentStays
<1>. QED
  BY <1>1, <1>2, MinedController, MinedReserves, MinedSources, MinedAccounts
     DEF Forward, ReservesForward

-------------------------------------------------------------------------------
(* A block is mined.                                                       *)

\* Mine, with its transaction.
MinesHead(tx) ==
    /\ IInv /\ mempool # <<>> /\ tx = Head(mempool).tx
    /\ mempool' = Tail(mempool) /\ records' = records
    /\ index' = index /\ crashes' = crashes /\ enacted' = enacted
    /\ Executed(market, tx).reverted => market' = market
    /\ ~Executed(market, tx).reverted => market' = Settled(Executed(market, tx))
    /\ process' =
         IF ~Head(mempool).awaited THEN process
         ELSE IF Executed(market, tx).reverted THEN [process EXCEPT !.phase = "reverted"]
         ELSE [process EXCEPT !.phase = "mined",
                              !.receipt = IF tx.call = "create" THEN Fresh(market, tx.on) ELSE NoAddress]

LEMMA MineIs ==
    ASSUME IInv, Mine
    PROVE  MinesHead(Head(mempool).tx)
BY DEF Mine, MinesHead, Settled

LEMMA HeadIs ==
    ASSUME NEW tx, MinesHead(tx)
    PROVE  /\ ~Finished /\ enacted = 0 /\ process.phase \notin {"mined", "reverted", "finished"}
           /\ TransactionOK(tx) /\ Head(mempool) = mempool[1] /\ tx = mempool[1].tx
           /\ Len(mempool) \in Nat /\ Len(mempool) > 0 /\ DOMAIN mempool = 1..Len(mempool)
           /\ IsQueue(mempool') /\ Len(mempool') = Len(mempool) - 1 /\ DOMAIN mempool' = 1..Len(mempool')
           /\ \A i \in 1..Len(mempool') : mempool'[i] = mempool[i + 1] /\ i + 1 \in 1..Len(mempool)
<1>1. MempoolOK /\ IInv /\ mempool # <<>> /\ mempool' = Tail(mempool)
  BY DEF MinesHead, IInv
<1>2. QueueOK /\ IsQueue(mempool) /\ Len(mempool) \in Nat /\ DOMAIN mempool = 1..Len(mempool)
  BY <1>1, MempoolSplit DEF QueueOK
<1>3. /\ IsQueue(mempool') /\ Len(mempool') = Len(mempool) - 1 /\ Head(mempool) = mempool[1]
      /\ Len(mempool) > 0
      /\ \A i \in 1..Len(mempool') : mempool'[i] = mempool[i + 1] /\ i + 1 \in 1..Len(mempool)
  BY <1>1, <1>2, QueueTail
<1>4. process.phase \notin {"mined", "reverted", "finished"}
  BY <1>1 DEF MempoolOK
<1>5. ~Finished
  BY <1>4 DEF Finished
<1>6. enacted = 0
  BY <1>1, <1>5, Deployment DEF IInv
<1>7. 1 \in DOMAIN mempool /\ tx = mempool[1].tx
  BY <1>2, <1>3 DEF MinesHead
<1>8. TransactionOK(tx)
  BY <1>2, <1>7 DEF QueueOK
<1>9. DOMAIN mempool' = 1..Len(mempool')
  BY <1>3, QueueIs
<1>. QED
  BY <1>2, <1>3, <1>4, <1>5, <1>6, <1>7, <1>8, <1>9

LEMMA HeadMined ==
    ASSUME NEW tx, MinesHead(tx), ~Executed(market, tx).reverted
    PROVE  MinedOne(tx)
<1>1. /\ TransactionOK(tx) /\ IsContracts(market) /\ NamesOK /\ records' = records
      /\ market' = Settled(Executed(market, tx))
  BY HeadIs DEF MinesHead, IInv, WorldOK
<1>2. Sendable(market, tx)
  BY <1>1, IsSendable
<1>3. Mines(market, market', tx)
  BY <1>1, <1>2, MinesIt
<1>. QED
  BY <1>1, <1>3 DEF MinedOne

LEMMA InitialisedAlready ==
    ASSUME WorldOK, NEW tx, tx.call = "initialize", Executed(market, tx).reverted
    PROVE  tx.on \in market.initialised
<1>1. Executed(market, tx) = initialize(market, tx.on)
  BY ExecutedCalls
<1>2. DOMAIN market = Fields /\ market.reverted \in BOOLEAN /\ ~market.reverted
  BY ContractsAre DEF WorldOK
<1>. QED
  BY <1>1, <1>2, InitializeChanges

LEMMA HeadInitialises ==
    ASSUME NEW tx, MinesHead(tx)
    PROVE  /\ \A a : Initialising(a) => Initialising(a)'
           /\ tx.call = "initialize" => tx.on \in market'.initialised
<1>1. WorldOK
  BY DEF MinesHead, IInv
<1>2. market.initialised \subseteq market'.initialised
  BY <1>1, HeadMined, MinedAccounts DEF MinesHead
<1>3. tx.call = "initialize" => tx.on \in market'.initialised
  <2>1. CASE Executed(market, tx).reverted
    BY <1>1, <1>2, <2>1, InitialisedAlready
  <2>2. CASE ~Executed(market, tx).reverted
    BY <2>2, HeadMined DEF MinedOne, Mines, Effects, EffectOnContracts
  <2>. QED
    BY <2>1, <2>2
<1>4. ASSUME NEW i \in DOMAIN mempool, mempool[i].tx.call = "initialize"
      PROVE  mempool[i].tx.on \in market'.initialised
                \/ \E j \in DOMAIN mempool' : mempool'[j] = mempool[i]
  <2>1. CASE i = 1
    BY <1>3, <1>4, <2>1, HeadIs
  <2>2. CASE i # 1
    <3>1. i \in 1..Len(mempool) /\ Len(mempool) \in Nat /\ Len(mempool') = Len(mempool) - 1
      BY HeadIs
    <3>2. i - 1 \in 1..Len(mempool') /\ (i - 1) + 1 = i
      BY <2>2, <3>1
    <3>. QED
      BY <3>2, HeadIs
  <2>. QED
    BY <2>1, <2>2
<1>. QED
  BY <1>2, <1>3, <1>4 DEF Initialising

LEMMA HeadForward ==
    ASSUME NEW tx, MinesHead(tx)
    PROVE  Forward /\ WorldOK'
<1>1. /\ WorldOK /\ records' = records /\ enacted' = enacted /\ enacted = 0
      /\ \A a : Initialising(a) => Initialising(a)'
  BY HeadIs, HeadInitialises DEF MinesHead, IInv
<1>2. CASE Executed(market, tx).reverted
  <2>1. market' = market
    BY <1>2 DEF MinesHead
  <2>. QED
    BY <1>1, <2>1, FrameForward, FrameWorld
<1>3. CASE ~Executed(market, tx).reverted
  BY <1>1, <1>3, HeadMined, MinedForward, MinedWorld
<1>. QED
  BY <1>2, <1>3

LEMMA HeadQueue ==
    ASSUME NEW tx, MinesHead(tx)
    PROVE  QueueOK'
<1>1. /\ IsQueue(mempool') /\ Len(mempool') = Len(mempool) - 1 /\ Len(mempool) \in Nat
      /\ DOMAIN mempool' = 1..Len(mempool') /\ DOMAIN mempool = 1..Len(mempool)
      /\ \A i \in 1..Len(mempool') : mempool'[i] = mempool[i + 1] /\ i + 1 \in 1..Len(mempool)
  BY HeadIs
<1>2. Forward /\ QueueOK
  BY HeadForward, MempoolSplit DEF MinesHead, IInv
<1>3. ASSUME NEW i \in DOMAIN mempool'
      PROVE  /\ DOMAIN mempool'[i] = {"tx", "awaited"} /\ mempool'[i].awaited \in BOOLEAN
             /\ \A u : u = mempool'[i].tx => TransactionOK(u)'
  <2>1. mempool'[i] = mempool[i + 1] /\ i + 1 \in DOMAIN mempool
    BY <1>1, <1>3
  <2>2. /\ DOMAIN mempool[i + 1] = {"tx", "awaited"} /\ mempool[i + 1].awaited \in BOOLEAN
        /\ TransactionOK(mempool[i + 1].tx)
    BY <1>2, <2>1 DEF QueueOK
  <2>. QED
    BY <1>2, <2>1, <2>2, TransactionKept
<1>4. Len(mempool') <= MaxPending
  BY <1>1, <1>2, BoundsAssumption DEF QueueOK
<1>5. \A i \in DOMAIN mempool' : \A u : u = mempool'[i].tx => TransactionOK(u)'
  BY <1>3
<1>. QED
  BY <1>1, <1>3, <1>4, <1>5 DEF QueueOK

-------------------------------------------------------------------------------
(* The process does not notice, or its transaction reverts.                *)

\* What the process waited for.
Answered(tx) ==
    /\ process.phase = "waiting" /\ Awaited(step) /\ mempool' = <<>>
    /\ tx.call = step.call
    /\ step.call = "create" => tx.on = step.on
    /\ step.call = "initialize" => tx.on = Resolve(step.on)
    /\ step.call = "registerAddressesProvider" => tx.on = Resolve(step.on)
    /\ step.call = "initReserves" => tx.with = Chunk(process.todo, initChunks)
    /\ step.call = "configureReserves" => tx.with.params = Chunk(process.todo, enableChunks)

LEMMA AwaitedHead ==
    ASSUME NEW tx, MinesHead(tx), Head(mempool).awaited
    PROVE  Answered(tx)
<1>1. /\ MempoolOK /\ mempool[1].awaited /\ tx = mempool[1].tx
      /\ Len(mempool) \in Nat /\ Len(mempool) > 0 /\ DOMAIN mempool = 1..Len(mempool)
      /\ IsQueue(mempool') /\ Len(mempool') = Len(mempool) - 1
  BY HeadIs DEF MinesHead, IInv
<1>2. 1 \in DOMAIN mempool
  BY <1>1
<1>3. process.phase = "waiting" /\ 1 = Len(mempool)
  BY <1>1, <1>2 DEF MempoolOK
<1>4. mempool' = <<>>
  <2>1. Len(mempool') = 0
    <3>1. Len(mempool') = Len(mempool) - 1
      BY <1>1, Zenon
    <3>2. Len(mempool) = 1
      BY <1>3, Zenon
    <3>3. Len(mempool') = 1 - 1
      BY <3>1, <3>2, Zenon
    <3>. QED
      BY <3>3
  <2>2. \A q : IsQueue(q) /\ Len(q) = 0 => q = <<>>
    BY EmptySeq DEF IsQueue
  <2>. QED
    BY <1>1, <2>1, <2>2
<1>5. Last = tx
  BY <1>1, <1>3 DEF Last
<1>. QED
  BY <1>1, <1>3, <1>4, <1>5 DEF MempoolOK, Answered

LEMMA UnnoticedKeeps ==
    ASSUME NEW tx, MinesHead(tx), ~Head(mempool).awaited
    PROVE  IInv'
<1>1. /\ process' = process /\ index' = index /\ crashes' = crashes /\ enacted' = enacted
      /\ records' = records /\ MempoolOK /\ RecordsOK /\ ProcessOK /\ DoneOK /\ IInv
  BY DEF MinesHead, IInv
<1>2. Forward /\ WorldOK' /\ QueueOK'
  BY HeadForward, HeadQueue
<1>3. /\ ~Finished /\ enacted = 0 /\ process.phase \notin {"mined", "reverted", "finished"}
      /\ Len(mempool) \in Nat /\ Len(mempool') = Len(mempool) - 1
      /\ DOMAIN mempool = 1..Len(mempool) /\ DOMAIN mempool' = 1..Len(mempool')
      /\ \A i \in 1..Len(mempool') : mempool'[i] = mempool[i + 1] /\ i + 1 \in 1..Len(mempool)
      /\ Head(mempool) = mempool[1]
  BY HeadIs
<1>4. PlanOK'
  BY <1>1, <1>2, <1>3, PlanStays DEF Rest, step
<1>5. \A j \in 1..(process.pc - 1) : Script[j].ids \subseteq DOMAIN records' /\ Done(Script[j])'
  BY <1>1, <1>2, <1>3, BehindKept
<1>6. RecordsOK' /\ DoneOK'
  BY <1>1, <1>3, <1>5 DEF RecordsOK, DoneOK, step
<1>7. ProcessOK'
  BY <1>1 DEF ProcessOK, Finished
<1>8. CASE process.phase # "waiting"
  <2>1. \A i \in DOMAIN mempool : ~mempool[i].awaited
    BY <1>1, <1>8 DEF MempoolOK
  <2>2. \A i \in DOMAIN mempool' : ~mempool'[i].awaited
    BY <1>3, <2>1
  <2>3. NothingAwaited'
    BY <1>1, <1>3, <1>8, <2>2 DEF NothingAwaited, Finished
  <2>4. MempoolOK'
    BY <1>2, <2>3, NotAwaitedAfter
  <2>. QED
    BY <1>2, <1>4, <1>6, <1>7, <2>4 DEF IInv
<1>9. CASE process.phase = "waiting"
  <2>1. PICK i \in DOMAIN mempool : mempool[i].awaited
    BY <1>1, <1>9 DEF MempoolOK
  <2>2. i = Len(mempool) /\ i # 1
    BY <1>1, <1>3, <2>1 DEF MempoolOK, MinesHead
  <2>3. i - 1 = Len(mempool') /\ i - 1 \in 1..Len(mempool') /\ (i - 1) + 1 = i
    BY <1>3, <2>1, <2>2
  <2>4. mempool'[Len(mempool')] = mempool[Len(mempool)] /\ mempool'[i - 1].awaited
        /\ i - 1 \in DOMAIN mempool'
    BY <1>3, <2>1, <2>2, <2>3
  <2>5. \A k \in DOMAIN mempool' : mempool'[k].awaited => k = Len(mempool')
    <3>. TAKE k \in DOMAIN mempool'
    <3>. HAVE mempool'[k].awaited
    <3>1. k + 1 \in DOMAIN mempool /\ mempool[k + 1].awaited
      BY <1>3
    <3>2. k + 1 = Len(mempool)
      BY <1>1, <3>1 DEF MempoolOK
    <3>. QED
      BY <1>3, <3>2
  <2>6. Last' = Last
    BY <2>4 DEF Last
  <2>7. /\ step.call \in {"initialize", "registerAddressesProvider"} => Resolve(step.on)' = Resolve(step.on)
    <3>1. step.call \in {"initialize", "registerAddressesProvider"} => step.on \in DOMAIN records \ Reserved
      BY <1>1, <1>3, StepIs DEF Prepared
    <3>2. \A x : x \in DOMAIN records \ Reserved => Resolve(x) = records[x] /\ Resolve(x)' = records[x]
      BY <1>2, ResolvedKept DEF IsRecorded
    <3>3. \A x : x = step.on => Resolve(step.on)' = Resolve(x)'
      BY <1>1 DEF Resolve, step, Recorded
    <3>. QED
      BY <3>1, <3>2, <3>3
  <2>8. step' = step
    BY <1>1 DEF step
  <2>9. /\ Last.call = step.call
        /\ step.call = "create" => Last.on = step.on
        /\ step.call = "initialize" => Last.on = Resolve(step.on)
        /\ step.call = "registerAddressesProvider" => Last.on = Resolve(step.on)
        /\ step.call = "initReserves" => Last.with = Chunk(process.todo, initChunks)
        /\ step.call = "configureReserves" =>
              Last.with.params = Chunk(process.todo, enableChunks)
    BY <1>1, <1>9 DEF MempoolOK
  <2>10. /\ Last'.call = step'.call
         /\ step'.call = "create" => Last'.on = step'.on
         /\ step'.call = "initialize" => Last'.on = Resolve(step.on)'
         /\ step'.call = "registerAddressesProvider" => Last'.on = Resolve(step.on)'
         /\ step'.call = "initReserves" => Last'.with = Chunk(process'.todo, initChunks)
         /\ step'.call = "configureReserves" =>
               Last'.with.params = Chunk(process'.todo, enableChunks)
    BY <1>1, <2>6, <2>7, <2>8, <2>9
  <2>11. Awaited(step)'
    BY <1>1, <1>9, <2>8 DEF MempoolOK, Awaited
  <2>12. MempoolOK'
    BY <1>1, <1>2, <1>9, <2>4, <2>5, <2>10, <2>11 DEF MempoolOK, QueueOK
  <2>. QED
    BY <1>2, <1>4, <1>6, <1>7, <2>12 DEF IInv
<1>. QED
  BY <1>8, <1>9

-------------------------------------------------------------------------------
(* What the process waited for is mined, or reverted.                      *)

LEMMA WaitingIs ==
    ASSUME NEW tx, MinesHead(tx), Head(mempool).awaited
    PROVE  LET p == process' IN
           /\ p.phase = IF Executed(market, tx).reverted THEN "reverted" ELSE "mined"
           /\ DOMAIN p = DOMAIN Start /\ p.pc = process.pc /\ p.todo = process.todo
           /\ p.configuring = process.configuring
           /\ ~Executed(market, tx).reverted /\ tx.call = "create" => p.receipt = Fresh(market, tx.on)
           /\ step' = step /\ Rest = process.todo
<1>1. process.phase = "waiting"
  BY AwaitedHead DEF Answered
<1>2. DOMAIN process = DOMAIN Start
  BY HeadIs, StepIs DEF MinesHead
<1>3. process' = IF Executed(market, tx).reverted THEN [process EXCEPT !.phase = "reverted"]
                 ELSE [process EXCEPT !.phase = "mined",
                          !.receipt = IF tx.call = "create" THEN Fresh(market, tx.on) ELSE NoAddress]
  BY DEF MinesHead
<1>4. /\ process'.phase = IF Executed(market, tx).reverted THEN "reverted" ELSE "mined"
      /\ DOMAIN process' = DOMAIN Start /\ process'.pc = process.pc /\ process'.todo = process.todo
      /\ process'.configuring = process.configuring
      /\ ~Executed(market, tx).reverted /\ tx.call = "create" => process'.receipt = Fresh(market, tx.on)
  BY <1>2, <1>3, StartIs
<1>5. step' = step /\ Rest = process.todo
  BY <1>1, <1>4 DEF step, Rest
<1>. QED
  BY <1>4, <1>5

LEMMA WaitingFrame ==
    ASSUME NEW tx, MinesHead(tx), Head(mempool).awaited
    PROVE  /\ ProcessOK' /\ MempoolOK'
           /\ \A j \in 1..(process'.pc - 1) : Script[j].ids \subseteq DOMAIN records' /\ Done(Script[j])'
<1>1. LET p == process' IN
      /\ p.phase \in {"reverted", "mined"}
      /\ DOMAIN p = DOMAIN Start /\ p.pc = process.pc /\ step' = step
  BY WaitingIs
<1>2. /\ index' = index /\ crashes' = crashes /\ enacted' = enacted
      /\ RecordsOK /\ ProcessOK /\ DoneOK /\ MempoolOK
  BY DEF MinesHead, IInv
<1>3. mempool' = <<>> /\ Awaited(step)
  BY AwaitedHead DEF Answered
<1>4. Forward /\ QueueOK' /\ ~Finished /\ enacted = 0
  BY HeadForward, HeadQueue, HeadIs
<1>5. \A j \in 1..(process.pc - 1) : Script[j].ids \subseteq DOMAIN records' /\ Done(Script[j])'
  BY <1>2, <1>4, BehindKept
<1>6. ProcessOK'
  <2>1. ~Finished'
    BY <1>1 DEF Finished
  <2>. QED
    BY <1>1, <1>2, <1>4, <2>1, StartIs DEF ProcessOK
<1>7. MempoolOK'
  <2>1. Awaited(step)'
    BY <1>1, <1>3 DEF Awaited
  <2>2. DOMAIN mempool' = {}
    BY <1>3
  <2>. QED
    BY <1>1, <1>3, <1>4, <2>1, <2>2 DEF MempoolOK, QueueOK
<1>. QED
  BY <1>1, <1>5, <1>6, <1>7

LEMMA RevertedKeeps ==
    ASSUME NEW tx, MinesHead(tx), Head(mempool).awaited, Executed(market, tx).reverted
    PROVE  IInv'
<1>1. /\ process'.phase = "reverted" /\ process'.pc = process.pc /\ process'.todo = process.todo
      /\ process'.configuring = process.configuring /\ step' = step /\ Rest = process.todo
  BY WaitingIs
<1>2. /\ Answered(tx) /\ IInv /\ WorldOK /\ market' = market /\ records' = records
  BY AwaitedHead DEF MinesHead, IInv
<1>3. Forward /\ WorldOK' /\ ~Finished
  BY HeadForward, HeadIs
<1>4. PlanOK'
  <2>1. Rest' = Rest
    BY <1>1 DEF Rest
  <2>. QED
    BY <1>1, <1>2, <1>3, <2>1, PlanStays
<1>5. RecordsOK'
  <2>1. step.do = "deploy" => step.ids \cap DOMAIN records = {}
    BY <1>2 DEF IInv, RecordsOK, Answered
  <2>. QED
    BY <1>1, <1>2, <2>1, WaitingFrame DEF RecordsOK
<1>6. step.call = "initialize" => Recorded(step.on)' \in market'.initialised
  <2>. SUFFICES ASSUME step.call = "initialize" PROVE Recorded(step.on)' \in market'.initialised
    OBVIOUS
  <2>1. tx.call = "initialize" /\ tx.on = Resolve(step.on)
    BY <1>2 DEF Answered
  <2>2. step.on \in DOMAIN records \ Reserved
    BY <1>2, <1>3, StepIs DEF Prepared
  <2>3. tx.on = Recorded(step.on) /\ tx.on \in market.initialised
    BY <1>2, <2>1, <2>2, Resolved, InitialisedAlready
  <2>4. Recorded(step.on)' = Recorded(step.on)
    BY <1>1, <1>2 DEF Recorded
  <2>. QED
    BY <1>2, <2>3, <2>4
<1>7. DoneOK'
  BY <1>1, <1>6, WaitingFrame DEF DoneOK
<1>. QED
  BY <1>3, <1>4, <1>5, <1>7, WaitingFrame DEF IInv

LEMMA ReceiptIsNew ==
    ASSUME NEW tx, MinesHead(tx), ~Executed(market, tx).reverted, tx.call = "create",
           NEW a, a = Fresh(market, tx.on)
    PROVE  IsNew(market', a) /\ \A id \in DOMAIN records' : records'[id] # a
<1>1. /\ MinedOne(tx) /\ Effects(market, market', tx) /\ WorldOK /\ records' = records
      /\ market.contracts \subseteq market'.contracts
  BY HeadMined DEF MinedOne, Mines, MinesHead, IInv, Effects, EffectOnContracts
<1>2. a \in market'.contracts /\ a \notin market.contracts
  BY <1>1 DEF Effects, EffectOnContracts
<1>3. \A k \in DOMAIN market'.slots : k[1] = a => k[2] \in {"pool", "provider"}
  BY <1>1, <1>2 DEF Effects, EffectOnSlots
<1>4. \A r \in DOMAIN market'.reserves : r[2] # a
  <2>1. market'.reserves = market.reserves
    BY <1>1 DEF Effects, EffectOnReserves
  <2>2. \A r \in DOMAIN market.reserves : r[2] \in market.contracts
    BY <1>1 DEF WorldOK, ReservesOK
  <2>. QED
    BY <1>2, <2>1, <2>2
<1>5. \A id \in DOMAIN records' : records'[id] # a
  BY <1>1, <1>2 DEF WorldOK, NamesOK
<1>. QED
  BY <1>2, <1>3, <1>4, <1>5 DEF IsNew

-------------------------------------------------------------------------------
(* What was waited for is done.                                            *)

LEMMA ComponentDone ==
    ASSUME NEW tx, MinesHead(tx), ~Executed(market, tx).reverted, tx.call \in OnProvider
    PROVE  /\ tx.call = "setPoolDataProvider" => IsSet("DATA_PROVIDER")'
           /\ tx.call = "setACLAdmin" => IsSet("ACL_ADMIN")'
           /\ tx.call = "setACLManager" => IsSet("ACL_MANAGER")'
           /\ tx.call = "setPriceOracle" => IsSet("PRICE_ORACLE")'
           /\ tx.call = "setPoolImpl" => IsSet("POOL")'
           /\ tx.call = "setPoolConfiguratorImpl" => IsSet("POOL_CONFIGURATOR")'
           /\ tx.call = "setAddressAsProxy" => IsSet("REWARD_CONTROLLER")'
<1>1. /\ MinedOne(tx) /\ WorldOK /\ TransactionOK(tx) /\ NamesOK
      /\ IsContracts(market) /\ IsContracts(market')
  BY HeadMined, HeadIs DEF MinedOne, MinesHead, IInv, WorldOK, Mines
<1>2. tx.on = provider /\ provider' = provider
  BY <1>1, MinedSlots DEF TransactionOK, Calls, provider, Recorded, IsRecorded
<1>3. NoAddress \notin market.contracts /\ NoAddress \notin market'.contracts
  BY <1>1, NoContractThere
<1>4. ASSUME tx.call \in DOMAIN Setter, tx.with # NoAddress
      PROVE  IsSet(Setter[tx.call])'
  <2>1. Slot(market', tx.on, Setter[tx.call]) = tx.with
    BY <1>1, <1>4, SetterSets
  <2>. QED
    BY <1>2, <1>4, <2>1 DEF IsSet, Component
<1>5. ASSUME tx.call \in DOMAIN Proxied
      PROVE  IsSet(Proxied[tx.call])'
  <2>1. BecomesProxy(tx, Proxied[tx.call])
    BY <1>1, <1>2, <1>5, ProxySets
  <2>. QED
    BY <1>3, <2>1 DEF BecomesProxy, IsSet
<1>6. tx.call \in {"setPoolDataProvider", "setACLAdmin", "setACLManager", "setPriceOracle"} =>
          tx.with # NoAddress
  BY <1>1, <1>3, AccountsAssumption DEF TransactionOK, Passes, NamesOK, IsRecorded
<1>. QED
  BY <1>4, <1>5, <1>6, Callees

LEMMA MinedSettles ==
    ASSUME NEW tx, MinesHead(tx), ~Executed(market, tx).reverted, Answered(tx),
           NEW s, s = step, Settles(s)
    PROVE  AlreadyDone(s)'
<1>1. /\ MinedOne(tx) /\ WorldOK /\ TransactionOK(tx) /\ tx.call = s.call /\ IInv /\ ~Finished
      /\ EffectOnContracts(market, market', tx) /\ Forward
  BY HeadMined, HeadIs, HeadForward DEF MinedOne, MinesHead, IInv, Answered, Mines, Effects
<1>2. Prepared(s, DOMAIN records, CalledBy(Script, process.pc, {}))
  BY <1>1, StepIs
<1>3. CASE s.call = "registerAddressesProvider"
  <2>1. /\ s.on \in DOMAIN records \ Reserved /\ "PoolAddressesProvider" \in DOMAIN records
    BY <1>2, <1>3 DEF Prepared
  <2>2. <<tx.on, tx.with>> \in market'.registered
    BY <1>1, <1>3 DEF EffectOnContracts
  <2>3. tx.on = Resolve(s.on) /\ tx.with = records["PoolAddressesProvider"]
    BY <1>1, <1>3 DEF Answered, TransactionOK, Passes
  <2>4. Resolve(s.on)' = Resolve(s.on) /\ provider' = records["PoolAddressesProvider"]
    BY <1>1, <2>1, ResolvedKept, RecordedKept DEF IsRecorded, provider
  <2>5. IsKnown(s)'
    BY <2>2, <2>3, <2>4 DEF IsKnown, IsRegistered
  <2>. QED
    BY <1>3, <2>5, Zenon DEF AlreadyDone
<1>4. CASE s.call = "setRewardsController"
  <2>1. s.on = "EmissionManager" /\ s.on \in DOMAIN records /\ s.on \notin Reserved
    BY <1>2, <1>4 DEF Prepared, Reserved
  <2>2. Resolve(s.on)' = tx.on
    BY <1>1, <1>4, <2>1, ResolvedKept DEF TransactionOK, Calls, IsRecorded
  <2>3. tx.with # NoAddress
    BY <1>1, <1>4 DEF TransactionOK, IsSet
  <2>4. Slot(market', tx.on, "REWARD_CONTROLLER") = tx.with
    BY <1>1, <1>4, SetterSets, Callees
  <2>5. (Slot(market, Resolve(s.on), "REWARD_CONTROLLER") # NoAddress)'
    BY <2>2, <2>3, <2>4
  <2>. QED
    BY <1>4, <2>5, Zenon DEF AlreadyDone
<1>5. CASE s.call = "updateFlashloanPremiumTotal"
  <2>1. (market.premiumTotal # 0)'
    BY <1>1, <1>5, MinedAccounts DEF MinesHead
  <2>. QED
    BY <1>5, <2>1, Zenon DEF AlreadyDone
<1>6. CASE s.call \in OnProvider
  <2>1. /\ s.call = "setPoolDataProvider" => IsSet("DATA_PROVIDER")'
        /\ s.call = "setACLAdmin" => IsSet("ACL_ADMIN")'
        /\ s.call = "setACLManager" => IsSet("ACL_MANAGER")'
        /\ s.call = "setPriceOracle" => IsSet("PRICE_ORACLE")'
        /\ s.call = "setPoolImpl" => IsSet("POOL")'
        /\ s.call = "setPoolConfiguratorImpl" => IsSet("POOL_CONFIGURATOR")'
        /\ s.call = "setAddressAsProxy" => IsSet("REWARD_CONTROLLER")'
    BY <1>1, <1>6, ComponentDone
  <2>2. s.call = "setPoolDataProvider" => AlreadyDone(s)'
    BY <2>1, Zenon DEF AlreadyDone
  <2>3. s.call = "setACLAdmin" => AlreadyDone(s)'
    BY <2>1, Zenon DEF AlreadyDone
  <2>4. s.call = "setACLManager" => AlreadyDone(s)'
    BY <2>1, Zenon DEF AlreadyDone
  <2>5. s.call = "setPriceOracle" => AlreadyDone(s)'
    BY <2>1, Zenon DEF AlreadyDone
  <2>6. s.call = "setPoolImpl" => AlreadyDone(s)'
    BY <2>1, Zenon DEF AlreadyDone
  <2>7. s.call = "setPoolConfiguratorImpl" => AlreadyDone(s)'
    BY <2>1, Zenon DEF AlreadyDone
  <2>8. s.call = "setAddressAsProxy" => AlreadyDone(s)'
    BY <2>1, Zenon DEF AlreadyDone
  <2>. QED
    BY <1>6, <2>2, <2>3, <2>4, <2>5, <2>6, <2>7, <2>8 DEF OnProvider
<1>. QED
  BY <1>3, <1>4, <1>5, <1>6 DEF Settles

LEMMA MinedDone ==
    ASSUME NEW tx, MinesHead(tx), ~Executed(market, tx).reverted, Answered(tx),
           NEW s, s = step, s.call \notin InChunks
    PROVE  Done(s)'
<1>1. /\ MinedOne(tx) /\ WorldOK /\ tx.call = s.call /\ IInv /\ ~Finished /\ Forward
      /\ Awaited(s)
  BY HeadMined, HeadIs, HeadForward DEF MinesHead, IInv, Answered
<1>2. WellFormed(s) /\ Prepared(s, DOMAIN records, CalledBy(Script, process.pc, {}))
      /\ s.do # "check"
  BY <1>1, StepIs DEF Awaited
<1>3. CASE Settles(s)
  BY <1>2, <1>3, MinedSettles, DoneAfter
<1>4. CASE s.call = "initialize"
  <2>1. s.on \in DOMAIN records \ Reserved
    BY <1>2, <1>4 DEF Prepared
  <2>2. tx.on = Recorded(s.on) /\ tx.on \in market'.initialised
    BY <1>1, <1>4, <2>1, Resolved, HeadInitialises DEF Answered
  <2>3. Recorded(s.on)' = Recorded(s.on)
    BY DEF MinesHead, Recorded
  <2>4. Initialising(Recorded(s.on))'
    BY <2>2, <2>3 DEF Initialising
  <2>. QED
    BY <1>2, <1>4, <2>4, DoneAfter
<1>5. CASE s.call = "setAssetSources"
  BY <1>1, <1>2, <1>5, MinedSources, DoneAfter
<1>6. CASE ~Settles(s) /\ s.call \notin {"initialize", "setAssetSources"}
  BY <1>2, <1>6, DoneAfter DEF Lists, InChunks
<1>. QED
  BY <1>3, <1>4, <1>5, <1>6

-------------------------------------------------------------------------------
(* What the process waited for is mined.                                   *)

LEMMA ListingPlanMined ==
    ASSUME NEW tx, MinesHead(tx), Head(mempool).awaited, ~Executed(market, tx).reverted,
           step.call = "initReserves"
    PROVE  (Rest \in Seq({InitInput(s) : s \in Symbols}))' /\ InitPlanned'
<1>1. /\ process'.phase = "mined" /\ process'.todo = process.todo /\ step' = step
      /\ Rest = process.todo
  BY WaitingIs
<1>2. /\ Answered(tx) /\ MinedOne(tx) /\ Forward /\ ~Finished /\ enacted = 0 /\ enacted' = enacted
      /\ WorldOK /\ IInv
  BY AwaitedHead, HeadMined, HeadForward, HeadIs DEF MinesHead, IInv
<1>3. ListingRecorded /\ PlanOK
  BY <1>2, PlanningRecorded DEF IInv, Planning
<1>4. PICK q : q = process.todo
  OBVIOUS
<1>5. tx.call = "initReserves" /\ tx.with = Chunk(q, initChunks)
  BY <1>2, <1>4 DEF Answered
<1>6. q \in Seq({InitInput(s) : s \in Symbols})
      /\ \A s \in Symbols : Listed(s) \/ \E i \in DOMAIN q : q[i] = InitInput(s)
  BY <1>1, <1>2, <1>3, <1>4 DEF PlanOK, Planned
<1>7. Rest' = AfterChunk(q, initChunks)
  BY <1>1, <1>4 DEF Rest
<1>8. initChunks \in Nat
  BY DEF initChunks
<1>9. \A s \in Symbols : InitInput(s)' = InitInput(s)
  BY <1>2, <1>3, InitInputKept
<1>. DEFINE S == {InitInput(s) : s \in Symbols}
<1>10. {InitInput(s)' : s \in Symbols} = S
  BY <1>9
<1>11. q \in Seq(S)
  BY <1>6
<1>. HIDE DEF S
<1>12. AfterChunk(q, initChunks) \in Seq(S) /\ Chunk(q, initChunks) \in Seq(S)
  BY <1>8, <1>11, AfterChunkIs, ChunkIs
<1>13. DOMAIN Chunk(q, initChunks) = 1..Len(tx.with)
  BY <1>5, <1>12
<1>14. \A s \in Symbols : (\E i \in 1..Len(tx.with) : tx.with[i] = InitInput(s)) => Listed(s)'
  BY <1>2, <1>5, ListingKeepsReserves
<1>15. \A s \in Symbols : Listed(s) => Listed(s)'
  BY <1>2 DEF Forward
<1>16. ASSUME NEW s \in Symbols PROVE Listed(s)' \/ \E i \in DOMAIN Rest' : Rest'[i] = InitInput(s)
  <2>1. CASE Listed(s)
    BY <1>15, <2>1
  <2>2. CASE \E i \in DOMAIN q : q[i] = InitInput(s)
    <3>1. PICK j \in DOMAIN q : q[j] = InitInput(s)
      BY <2>2
    <3>3. \/ \E i \in DOMAIN Chunk(q, initChunks) : Chunk(q, initChunks)[i] = q[j]
          \/ \E i \in DOMAIN AfterChunk(q, initChunks) : AfterChunk(q, initChunks)[i] = q[j]
      BY <1>8, <1>11, InOneOfThem
    <3>. QED
      BY <1>5, <1>7, <1>13, <1>14, <3>1, <3>3
  <2>. QED
    BY <1>6, <2>1, <2>2
<1>17. InitPlanned'
  BY <1>9, <1>16 DEF InitPlanned, Planned
<1>. QED
  BY <1>7, <1>10, <1>12, <1>17

LEMMA ConfiguringPlanMined ==
    ASSUME NEW tx, MinesHead(tx), Head(mempool).awaited, ~Executed(market, tx).reverted,
           step.call = "configureReserves"
    PROVE  (Rest \in Seq({ConfigureInput(s) : s \in Symbols}))' /\ ConfigurePlanned'
<1>1. /\ process'.phase = "mined" /\ process'.todo = process.todo /\ step' = step
      /\ Rest = process.todo
  BY WaitingIs
<1>2. /\ Answered(tx) /\ MinedOne(tx) /\ Forward /\ ~Finished /\ enacted = 0 /\ enacted' = enacted
      /\ WorldOK /\ IInv
  BY AwaitedHead, HeadMined, HeadForward, HeadIs DEF MinesHead, IInv
<1>3. ListingRecorded /\ PlanOK
  BY <1>2, PlanningRecorded DEF IInv, Planning
<1>4. PICK q : q = process.todo
  OBVIOUS
<1>5. tx.call = "configureReserves" /\ tx.with.params = Chunk(q, enableChunks)
  BY <1>2, <1>4 DEF Answered
<1>6. q \in Seq({ConfigureInput(s) : s \in Symbols})
      /\ \A s \in Symbols : IsCollateral(s) \/ \E i \in DOMAIN q : q[i] = ConfigureInput(s)
  BY <1>1, <1>2, <1>3, <1>4 DEF PlanOK, Planned
<1>7. Rest' = AfterChunk(q, enableChunks)
  BY <1>1, <1>4 DEF Rest
<1>8. enableChunks \in Nat
  BY DEF enableChunks
<1>9. \A s \in Symbols : ConfigureInput(s)' = ConfigureInput(s)
  BY <1>2, <1>3, ConfigureInputKept
<1>. DEFINE S == {ConfigureInput(s) : s \in Symbols}
<1>10. {ConfigureInput(s)' : s \in Symbols} = S
  BY <1>9
<1>11. q \in Seq(S)
  BY <1>6
<1>. HIDE DEF S
<1>12. AfterChunk(q, enableChunks) \in Seq(S) /\ Chunk(q, enableChunks) \in Seq(S)
  BY <1>8, <1>11, AfterChunkIs, ChunkIs
<1>13. DOMAIN Chunk(q, enableChunks) = 1..Len(tx.with.params)
  BY <1>5, <1>12
<1>14. \A s \in Symbols :
          (\E i \in 1..Len(tx.with.params) : tx.with.params[i] = ConfigureInput(s)) => IsCollateral(s)'
  BY <1>2, <1>5, ConfiguringKeepsReserves
<1>15. \A s \in Symbols : IsCollateral(s) => IsCollateral(s)'
  BY <1>2 DEF Forward
<1>16. ASSUME NEW s \in Symbols
       PROVE  IsCollateral(s)' \/ \E i \in DOMAIN Rest' : Rest'[i] = ConfigureInput(s)
  <2>1. CASE IsCollateral(s)
    BY <1>15, <2>1
  <2>2. CASE \E i \in DOMAIN q : q[i] = ConfigureInput(s)
    <3>1. PICK j \in DOMAIN q : q[j] = ConfigureInput(s)
      BY <2>2
    <3>3. \/ \E i \in DOMAIN Chunk(q, enableChunks) : Chunk(q, enableChunks)[i] = q[j]
          \/ \E i \in DOMAIN AfterChunk(q, enableChunks) : AfterChunk(q, enableChunks)[i] = q[j]
      BY <1>8, <1>11, InOneOfThem
    <3>. QED
      BY <1>5, <1>7, <1>13, <1>14, <3>1, <3>3
  <2>. QED
    BY <1>6, <2>1, <2>2
<1>17. ConfigurePlanned'
  BY <1>9, <1>16 DEF ConfigurePlanned, Planned
<1>. QED
  BY <1>7, <1>10, <1>12, <1>17

LEMMA MinedKeeps ==
    ASSUME NEW tx, MinesHead(tx), Head(mempool).awaited, ~Executed(market, tx).reverted
    PROVE  IInv'
<1>1. /\ process'.phase = "mined" /\ process'.pc = process.pc /\ process'.todo = process.todo
      /\ process'.configuring = process.configuring /\ step' = step
      /\ tx.call = "create" => process'.receipt = Fresh(market, tx.on)
  BY WaitingIs
<1>2. /\ Answered(tx) /\ IInv /\ WorldOK /\ records' = records
  BY AwaitedHead DEF MinesHead, IInv
<1>3. Forward /\ WorldOK' /\ ~Finished
  BY HeadForward, HeadIs
<1>4. WellFormed(step) /\ Awaited(step)
  BY <1>2, <1>3, StepIs DEF Answered
<1>5. PlanOK'
  <2>1. step.call # "addRiskAdmin"
    BY <1>4 DEF WellFormed, Awaited
  <2>2. AllConfigured => AllConfigured'
    BY <1>3, ReservesKept
  <2>3. step.call \in {"addRiskAdmin", "configureReserves", "removeRiskAdmin"} =>
           process'.configuring \/ AllConfigured'
    BY <1>1, <1>2, <1>3, <2>2 DEF IInv, PlanOK
  <2>4. step.call = "initReserves" =>
           (Rest \in Seq({InitInput(s) : s \in Symbols}))' /\ InitPlanned'
    BY ListingPlanMined
  <2>5. step.call = "configureReserves" =>
           (Rest \in Seq({ConfigureInput(s) : s \in Symbols}))' /\ ConfigurePlanned'
    BY ConfiguringPlanMined
  <2>. QED
    BY <1>1, <2>1, <2>3, <2>4, <2>5 DEF PlanOK, InitPlanned, ConfigurePlanned
<1>6. RecordsOK'
  <2>. SUFFICES ASSUME step.do = "deploy"
                PROVE  /\ step.ids \cap DOMAIN records' = {}
                       /\ IsNew(market', process'.receipt)
                       /\ \A id \in DOMAIN records' : records'[id] # process'.receipt
    BY <1>1, WaitingFrame DEF RecordsOK
  <2>1. step.ids \cap DOMAIN records = {}
    BY <1>2 DEF IInv, RecordsOK, Answered
  <2>2. tx.call = "create"
    BY <1>2, <1>4 DEF Answered, WellFormed
  <2>. QED
    BY <1>1, <1>2, <2>1, <2>2, ReceiptIsNew
<1>7. step.call \notin InChunks => Done(step)'
  <2>1. PICK s : s = step
    OBVIOUS
  <2>2. s.call \notin InChunks => Done(s)'
    BY <1>2, <2>1, MinedDone
  <2>. QED
    BY <1>1, <2>1, <2>2
<1>8. DoneOK'
  BY <1>1, <1>7, WaitingFrame DEF DoneOK
<1>. QED
  BY <1>3, <1>5, <1>6, <1>8, WaitingFrame DEF IInv

LEMMA MineKeeps ==
    ASSUME IInv, Mine
    PROVE  IInv'
<1>1. PICK tx : tx = Head(mempool).tx
  OBVIOUS
<1>2. MinesHead(tx)
  BY <1>1, MineIs
<1>. QED
  BY <1>2, UnnoticedKeeps, RevertedKeeps, MinedKeeps

-------------------------------------------------------------------------------
(* Once the scripts are through.                                           *)

LEMMA MilestoneDone ==
    ASSUME IInv, Finished, NEW s \in Milestones
    PROVE  /\ WellFormed(s) /\ s.ids \subseteq DOMAIN records
           /\ \E calls : Prepared(s, DOMAIN records, calls)
           /\ enacted = 0 \/ IsLasting(s) => Done(s)
<1>1. RecordsOK /\ ProcessOK /\ DoneOK
  BY DEF IInv
<1>2. process.pc = Len(Script) + 1 /\ Len(Script) \in Nat
  BY <1>1, ScriptFacts DEF ProcessOK
<1>3. PICK j \in 1..Len(Script) : s = Script[j]
  BY ScriptFacts
<1>4. j \in 1..(process.pc - 1) /\ j <= process.pc
  BY <1>2, <1>3
<1>5. WellFormed(Script[j]) /\ Prepared(Script[j], DOMAIN records, CalledBy(Script, j, {}))
  BY <1>1, <1>4, StepsPrepared
<1>6. Script[j].ids \subseteq DOMAIN records
  BY <1>1, <1>4 DEF RecordsOK
<1>7. enacted = 0 \/ IsLasting(Script[j]) => Done(Script[j])
  BY <1>1, <1>4 DEF DoneOK
<1>. QED
  BY <1>3, <1>5, <1>6, <1>7

LEMMA ComponentsSet ==
    ASSUME IInv, Finished
    PROVE  /\ IsSet("DATA_PROVIDER") /\ IsSet("ACL_MANAGER") /\ IsSet("PRICE_ORACLE")
           /\ IsRecorded("Pool-Proxy") /\ IsRecorded("PoolConfigurator-Proxy")
           /\ IsRecorded("RewardsControllerProxy")
<1>1. IsSet("DATA_PROVIDER")
  <2>1. PICK s \in Milestones :
           s = Invoke("setPoolDataProvider", "PoolAddressesProvider", "PoolDataProvider")
    BY DEF Milestones
  <2>2. s.call = "setPoolDataProvider"
    BY <2>1 DEF Invoke, Step
  <2>. QED
    BY <2>2, MilestoneDone, DoneCases, DoneBefore DEF IsLasting, Settles, OnProvider
<1>2. IsSet("ACL_MANAGER")
  <2>1. PICK s \in Milestones : s = Invoke("setACLManager", "PoolAddressesProvider", "ACLManager")
    BY DEF Milestones
  <2>2. s.call = "setACLManager"
    BY <2>1 DEF Invoke, Step
  <2>. QED
    BY <2>2, MilestoneDone, DoneCases, DoneBefore DEF IsLasting, Settles, OnProvider
<1>3. IsSet("PRICE_ORACLE")
  <2>1. PICK s \in Milestones : s = Invoke("setPriceOracle", "PoolAddressesProvider", "ProtocolOracle")
    BY DEF Milestones
  <2>2. s.call = "setPriceOracle"
    BY <2>1 DEF Invoke, Step
  <2>. QED
    BY <2>2, MilestoneDone, DoneCases, DoneBefore DEF IsLasting, Settles, OnProvider
<1>4. IsRecorded("Pool-Proxy")
  <2>1. PICK s \in Milestones : s = SaveAs("Pool-Proxy", "POOL")
    BY DEF Milestones
  <2>2. "Pool-Proxy" \in s.ids
    BY <2>1 DEF SaveAs, Step
  <2>. QED
    BY <2>2, MilestoneDone DEF IsRecorded
<1>5. IsRecorded("PoolConfigurator-Proxy")
  <2>1. PICK s \in Milestones : s = SaveAs("PoolConfigurator-Proxy", "POOL_CONFIGURATOR")
    BY DEF Milestones
  <2>2. "PoolConfigurator-Proxy" \in s.ids
    BY <2>1 DEF SaveAs, Step
  <2>. QED
    BY <2>2, MilestoneDone DEF IsRecorded
<1>6. IsRecorded("RewardsControllerProxy")
  <2>1. PICK s \in Milestones : s = SaveAs("RewardsControllerProxy", "REWARD_CONTROLLER")
    BY DEF Milestones
  <2>2. "RewardsControllerProxy" \in s.ids
    BY <2>1 DEF SaveAs, Step
  <2>. QED
    BY <2>2, MilestoneDone DEF IsRecorded
<1>. QED
  BY <1>1, <1>2, <1>3, <1>4, <1>5, <1>6

LEMMA ComponentsRecorded ==
    ASSUME IInv, Finished
    PROVE  /\ IsSet("POOL") /\ Component("POOL") = records["Pool-Proxy"]
           /\ IsSet("POOL_CONFIGURATOR") /\ configurator = records["PoolConfigurator-Proxy"]
           /\ IsSet("REWARD_CONTROLLER") /\ Component("REWARD_CONTROLLER") = records["RewardsControllerProxy"]
           /\ IsRecorded("PoolDataProvider") /\ Component("DATA_PROVIDER") = records["PoolDataProvider"]
           /\ IsRecorded("ACLManager") /\ Component("ACL_MANAGER") = records["ACLManager"]
           /\ IsRecorded("ProtocolOracle") /\ Component("PRICE_ORACLE") = records["ProtocolOracle"]
           /\ Slot(market, configurator, "pool") = records["Pool-Proxy"]
<1>1. ComponentsOK
  BY DEF IInv, WorldOK
<1>. QED
  BY <1>1, ComponentsSet DEF ComponentsOK, IsSavedAs, IsNamed, configurator

LEMMA ControllerSet ==
    ASSUME IInv, Finished
    PROVE  Controller = records["RewardsControllerProxy"]
<1>1. PICK s \in Milestones : s = Invoke("setRewardsController", "EmissionManager", "REWARD_CONTROLLER")
  BY DEF Milestones
<1>2. s.call = "setRewardsController" /\ s.on = "EmissionManager"
  BY <1>1 DEF Invoke, Step
<1>3. s.on \in DOMAIN records /\ s.on \notin Reserved /\ AlreadyDone(s)
  BY <1>2, MilestoneDone, DoneCases DEF Prepared, Reserved, IsLasting, Settles
<1>4. Slot(market, Resolve(s.on), "REWARD_CONTROLLER") # NoAddress
  BY <1>2, <1>3, DoneBefore
<1>5. Resolve(s.on) = Recorded("EmissionManager")
  BY <1>2, <1>3, Resolved DEF IsRecorded
<1>6. Controller = Component("REWARD_CONTROLLER")
  BY <1>4, <1>5 DEF IInv, WorldOK, ComponentsOK, Controller
<1>. QED
  BY <1>6, ComponentsRecorded

LEMMA Deployed ==
    ASSUME IInv, Finished, enacted = 0
    PROVE  /\ IsRegistered(market, Recorded("PoolAddressesProviderRegistry"), provider)
           /\ AllListed /\ AllConfigured /\ AllPriced /\ IsAdministered /\ market.premiumTotal # 0
           /\ \A id \in {"TreasuryProxy", "Treasury-Implementation", "Pool-Implementation", "BToken"} :
                 Recorded(id) \in market.initialised
<1>1. IsRegistered(market, Recorded("PoolAddressesProviderRegistry"), provider)
  <2>1. PICK s \in Milestones :
           s = Invoke("registerAddressesProvider", "PoolAddressesProviderRegistry", "PoolAddressesProvider")
    BY DEF Milestones
  <2>2. s.call = "registerAddressesProvider" /\ s.on = "PoolAddressesProviderRegistry"
    BY <2>1 DEF Invoke, Step
  <2>3. IsKnown(s) /\ s.on \in DOMAIN records \ Reserved
    BY <2>2, MilestoneDone, DoneCases, DoneBefore DEF Settles, Prepared
  <2>4. Resolve(s.on) = Recorded("PoolAddressesProviderRegistry")
    BY <2>2, <2>3, Resolved DEF IsRecorded
  <2>. QED
    BY <2>3, <2>4 DEF IsKnown
<1>2. AllListed
  <2>1. PICK s \in Milestones : s = Invoke("initReserves", "POOL_CONFIGURATOR", "")
    BY DEF Milestones
  <2>2. s.call = "initReserves"
    BY <2>1 DEF Invoke, Step
  <2>. QED
    BY <2>2, MilestoneDone, DoneCases
<1>3. AllConfigured
  <2>1. PICK s \in Milestones : s = Invoke("configureReserves", "ReservesSetupHelper", "POOL_CONFIGURATOR")
    BY DEF Milestones
  <2>2. s.call = "configureReserves"
    BY <2>1 DEF Invoke, Step
  <2>. QED
    BY <2>2, MilestoneDone, DoneCases
<1>4. AllPriced
  <2>1. PICK s \in Milestones : s = Invoke("setAssetSources", "ProtocolOracle", "")
    BY DEF Milestones
  <2>2. s.call = "setAssetSources"
    BY <2>1 DEF Invoke, Step
  <2>. QED
    BY <2>2, MilestoneDone, DoneCases
<1>5. IsAdministered
  <2>1. PICK s \in Milestones : s = Check
    BY DEF Milestones
  <2>2. s.do = "check"
    BY <2>1 DEF Check, Step
  <2>. QED
    BY <2>2, MilestoneDone, DoneCases
<1>6. market.premiumTotal # 0
  <2>1. PICK s \in Milestones : s = Invoke("updateFlashloanPremiumTotal", "POOL_CONFIGURATOR", "")
    BY DEF Milestones
  <2>2. s.call = "updateFlashloanPremiumTotal"
    BY <2>1 DEF Invoke, Step
  <2>. QED
    BY <2>2, MilestoneDone, DoneCases, DoneBefore DEF Settles
<1>7. \A s \in Milestones : s.call = "initialize" => Recorded(s.on) \in market.initialised
  <2>1. mempool = <<>>
    BY DEF IInv, MempoolOK, Finished
  <2>2. \A a : Initialising(a) => a \in market.initialised
    BY <2>1 DEF Initialising
  <2>. QED
    BY <2>2, MilestoneDone, DoneCases
<1>8. Recorded("TreasuryProxy") \in market.initialised
  <2>1. PICK s \in Milestones : s = TrySend("initialize", "TreasuryProxy", "Treasury-Implementation")
    BY DEF Milestones
  <2>2. s.call = "initialize" /\ s.on = "TreasuryProxy"
    BY <2>1 DEF TrySend, TryInvoke, Step
  <2>. QED
    BY <1>7, <2>2
<1>9. Recorded("Treasury-Implementation") \in market.initialised
  <2>1. PICK s \in Milestones : s = TrySend("initialize", "Treasury-Implementation", "")
    BY DEF Milestones
  <2>2. s.call = "initialize" /\ s.on = "Treasury-Implementation"
    BY <2>1 DEF TrySend, TryInvoke, Step
  <2>. QED
    BY <1>7, <2>2
<1>10. Recorded("Pool-Implementation") \in market.initialised
  <2>1. PICK s \in Milestones : s = TryInvoke("initialize", "Pool-Implementation", "")
    BY DEF Milestones
  <2>2. s.call = "initialize" /\ s.on = "Pool-Implementation"
    BY <2>1 DEF TrySend, TryInvoke, Step
  <2>. QED
    BY <1>7, <2>2
<1>11. Recorded("BToken") \in market.initialised
  <2>1. PICK s \in Milestones : s = TryInvoke("initialize", "BToken", "")
    BY DEF Milestones
  <2>2. s.call = "initialize" /\ s.on = "BToken"
    BY <2>1 DEF TrySend, TryInvoke, Step
  <2>. QED
    BY <1>7, <2>2
<1>. QED
  BY <1>1, <1>2, <1>3, <1>4, <1>5, <1>6, <1>8, <1>9, <1>10, <1>11

-------------------------------------------------------------------------------
(* The owner changes the market.                                           *)

Enacts(next) ==
    /\ Enact(next)
    /\ Adjusts(market, next) \/ \E s \in Symbols : Listed(s) /\ Retires(market, next, Reserve(s))

LEMMA EnactIs ==
    ASSUME IInv, NEW next, Enact(next)
    PROVE  /\ Finished /\ ~next.reverted /\ IsContracts(market)
           /\ oracle \in market.contracts /\ Slot(market, configurator, "pool") = Component("POOL")
<1>1. index.sources # {} /\ ~next.reverted
  BY DEF Enact, CaughtUp
<1>2. Finished
  BY <1>1 DEF IInv, ProcessOK
<1>3. oracle \in market.contracts
  BY <1>2, ComponentsRecorded DEF IInv, WorldOK, NamesOK, oracle, Recorded, IsRecorded
<1>4. Slot(market, configurator, "pool") = Component("POOL")
  BY <1>2, ComponentsRecorded
<1>. QED
  BY <1>1, <1>2, <1>3, <1>4 DEF IInv, WorldOK

LEMMA AdjustsEnacts ==
    ASSUME NEW next, Enact(next), Adjusts(market, next)
    PROVE  \E x : Enacts(x)
BY DEF Enacts

LEMMA GovernCollateralEnacts ==
    ASSUME IInv, NEW s \in Symbols, Listed(s), NEW a, a = Recorded(s),
           NEW data, data = market.reserves[Reserve(s)], GovernCollateral(a, data)
    PROVE  \E next : Enacts(next)
<1>1. IsContracts(market)
  BY DEF IInv, WorldOK
<1>2. ASSUME NEW next, Enact(next)
      PROVE  KeyOf(market, configurator, a) = Reserve(s) /\ ~next.reverted
  BY <1>2, EnactIs DEF KeyOf, Reserve
<1>3. ASSUME NEW next, next = configureReserveAsCollateral(market, configurator, Deployer, a, 0, 0, 0),
             Enact(next)
      PROVE  \E x : Enacts(x)
  <2>1. PICK ltv, bonus : ltv = 0 /\ bonus = 0
    OBVIOUS
  <2>2. next = configureReserveAsCollateral(market, configurator, Deployer, a, ltv, 0, bonus)
    BY <1>3, <2>1
  <2>3. Retires(market, next, KeyOf(market, configurator, a))
    BY <1>1, <1>2, <1>3, <2>2, RetireCall
  <2>4. Retires(market, next, Reserve(s))
    BY <1>2, <1>3, <2>3
  <2>. QED
    BY <1>3, <2>4 DEF Enacts
<1>4. ASSUME NEW next, NEW threshold, threshold = data.reserveLiquidationThreshold,
             NEW ltv, NEW bonus,
             next = configureReserveAsCollateral(market, configurator, Deployer, a, ltv, threshold, bonus),
             Enact(next)
      PROVE  \E x : Enacts(x)
  <2>1. KeyOf(market, configurator, a) = Reserve(s) /\ ~next.reverted
    BY <1>2, <1>4
  <2>2. Reserve(s) \in DOMAIN market.reserves
    BY DEF Listed
  <2>3. KeyOf(market, configurator, a) \in DOMAIN market.reserves
        /\ threshold = market.reserves[KeyOf(market, configurator, a)].reserveLiquidationThreshold
    BY <1>4, <2>1, <2>2
  <2>4. Adjusts(market, next)
    BY <1>1, <1>4, <2>1, <2>3, StricterCall
  <2>. QED
    BY <1>4, <2>4, AdjustsEnacts
<1>5. CASE Enact(configureReserveAsCollateral(market, configurator, Deployer, a, 0, 0, 0))
  BY <1>3, <1>5
<1>6. CASE Enact(configureReserveAsCollateral(market, configurator, Deployer, a,
                     data.baseLTVasCollateral - 1, data.reserveLiquidationThreshold, 10100))
  <2>1. PICK ltv, bonus : ltv = data.baseLTVasCollateral - 1 /\ bonus = 10100
    OBVIOUS
  <2>2. PICK threshold : threshold = data.reserveLiquidationThreshold
    OBVIOUS
  <2>3. Enact(configureReserveAsCollateral(market, configurator, Deployer, a, ltv, threshold, bonus))
    BY <1>6, <2>1, <2>2
  <2>. QED
    BY <1>4, <2>2, <2>3
<1>7. CASE Enact(setDebtCeiling(market, configurator, Deployer, a, 5))
  BY <1>1, <1>7, CollateralCalls, AdjustsEnacts
<1>8. CASE Enact(setLiquidationProtocolFee(market, configurator, Deployer, a, 1000))
  BY <1>1, <1>8, CollateralCalls, AdjustsEnacts
<1>9. CASE Enact(setEModeCategory(market, configurator, Deployer, 1,
                 [ltv |-> 9800, liquidationThreshold |-> 9850, liquidationBonus |-> 10100,
                  oracle |-> NoAddress, label |-> "Stable-EMode"]))
  BY <1>1, <1>9, EModeCalls, AdjustsEnacts
<1>10. CASE Enact(setAssetEModeCategory(market, configurator, Deployer, a, 1))
  BY <1>1, <1>10, CollateralCalls, AdjustsEnacts
<1>11. CASE /\ data.reserveLiquidationThreshold > 0
            /\ \/ Enact(configureReserveAsCollateral(market, configurator, Deployer, a, 0, 0, 0))
               \/ Enact(configureReserveAsCollateral(market, configurator, Deployer, a,
                            data.baseLTVasCollateral - 1, data.reserveLiquidationThreshold, 10100))
  BY <1>5, <1>6, <1>11
<1>. QED
  BY <1>7, <1>8, <1>9, <1>10, <1>11 DEF GovernCollateral

LEMMA GovernBorrowingEnacts ==
    ASSUME IInv, NEW s \in Symbols, Listed(s), NEW a, a = Recorded(s),
           NEW data, data = market.reserves[Reserve(s)], GovernBorrowing(a, data)
    PROVE  \E next : Enacts(next)
<1>1. IsContracts(market)
  BY DEF IInv, WorldOK
<1>2. CASE Enact(setReserveBorrowing(market, configurator, Deployer, a, ~data.borrowingEnabled))
  <2>1. PICK value \in BOOLEAN : value = (~data.borrowingEnabled)
    OBVIOUS
  <2>. QED
    BY <1>1, <1>2, <2>1, BorrowingCalls, AdjustsEnacts
<1>3. CASE Enact(setReserveStableRateBorrowing(market, configurator, Deployer, a,
                                           ~data.stableBorrowRateEnabled))
  <2>1. PICK value \in BOOLEAN : value = (~data.stableBorrowRateEnabled)
    OBVIOUS
  <2>. QED
    BY <1>1, <1>3, <2>1, BorrowingCalls, AdjustsEnacts
<1>4. CASE Enact(setSiloedBorrowing(market, configurator, Deployer, a, ~data.siloedBorrowing))
  BY <1>1, <1>4, BorrowingCalls, AdjustsEnacts
<1>5. CASE Enact(setBorrowableInIsolation(market, configurator, Deployer, a,
                                      ~data.borrowableInIsolation))
  BY <1>1, <1>5, BorrowingCalls, AdjustsEnacts
<1>6. CASE Enact(setBorrowCap(market, configurator, Deployer, a, 1))
  BY <1>1, <1>6, BorrowingCalls, AdjustsEnacts
<1>7. CASE Enact(setReserveInterestRateStrategyAddress(market, configurator, Deployer, a,
                                                   Recorded("rateStrategyStableTwo")))
  BY <1>1, <1>7, BorrowingCalls, AdjustsEnacts
<1>. QED
  BY <1>2, <1>3, <1>4, <1>5, <1>6, <1>7, Zenon DEF GovernBorrowing

LEMMA GovernReserveEnacts ==
    ASSUME IInv, NEW s \in Symbols, Listed(s), NEW a, a = Recorded(s),
           NEW data, data = market.reserves[Reserve(s)], GovernReserve(a, data)
    PROVE  \E next : Enacts(next)
<1>1. IsContracts(market)
  BY DEF IInv, WorldOK
<1>2. CASE Enact(setReserveFreeze(market, configurator, Deployer, a, ~data.isFrozen))
  BY <1>1, <1>2, ReserveCalls, AdjustsEnacts
<1>3. CASE Enact(setReservePause(market, configurator, Deployer, a, ~data.isPaused))
  BY <1>1, <1>3, ReserveCalls, AdjustsEnacts
<1>4. CASE Enact(setReserveActive(market, configurator, Deployer, a, ~data.isActive))
  BY <1>1, <1>4, ReserveCalls, AdjustsEnacts
<1>5. CASE Enact(setReserveFlashLoaning(market, configurator, Deployer, a, ~data.flashLoanEnabled))
  BY <1>1, <1>5, ReserveCalls, AdjustsEnacts
<1>6. CASE Enact(setSupplyCap(market, configurator, Deployer, a, 2))
  BY <1>1, <1>6, ReserveCalls, AdjustsEnacts
<1>7. CASE Enact(setUnbackedMintCap(market, configurator, Deployer, a, 3))
  BY <1>1, <1>7, ReserveCalls, AdjustsEnacts
<1>8. CASE Enact(setReserveFactor(market, configurator, Deployer, a, 500))
  BY <1>1, <1>8, ReserveCalls, AdjustsEnacts
<1>9. CASE Enact(dropReserve(market, configurator, a))
  <2>1. PICK next : next = dropReserve(market, configurator, a)
    OBVIOUS
  <2>2. Enact(next) /\ Retires(market, next, KeyOf(market, configurator, a))
    BY <1>1, <1>9, <2>1, DropCall
  <2>3. KeyOf(market, configurator, a) = Reserve(s)
    BY <2>2, EnactIs DEF KeyOf, Reserve
  <2>. QED
    BY <2>2, <2>3 DEF Enacts
<1>10. CASE Enact(updateBToken(market, configurator, a, <<"BToken", 2>>))
  BY <1>1, <1>10, UpgradeCalls, AdjustsEnacts
<1>11. CASE Enact(updateStableDebtToken(market, configurator, a, <<"StableDebtToken", 2>>))
  BY <1>1, <1>11, UpgradeCalls, AdjustsEnacts
<1>12. CASE Enact(updateVariableDebtToken(market, configurator, a, <<"VariableDebtToken", 2>>))
  BY <1>1, <1>12, UpgradeCalls, AdjustsEnacts
<1>. QED
  BY <1>2, <1>3, <1>4, <1>5, <1>6, <1>7, <1>8, <1>9, <1>10, <1>11, <1>12, Zenon DEF GovernReserve

LEMMA GovernMarketEnacts ==
    ASSUME IInv, GovernMarket
    PROVE  \E next : Enacts(next)
<1>1. IsContracts(market)
  BY DEF IInv, WorldOK
<1>. DEFINE registry == Recorded("PoolAddressesProviderRegistry")
            fallback == Slot(market, oracle, "fallback")
            listed == Among({s \in Symbols : Listed(s)})
            assets == [i \in DOMAIN listed |-> Recorded(listed[i])]
<1>2. CASE Enact(updateBridgeProtocolFee(market, configurator, 10))
  BY <1>1, <1>2, FeeCalls, AdjustsEnacts
<1>3. CASE Enact(updateFlashloanPremiumTotal(market, configurator, 5))
  BY <1>1, <1>3, FeeCalls, AdjustsEnacts
<1>4. CASE Enact(updateFlashloanPremiumToProtocol(market, configurator, 3))
  BY <1>1, <1>4, FeeCalls, AdjustsEnacts
<1>5. CASE Enact(setPoolPause(market, configurator, Deployer, assets, TRUE))
  <2>1. Len(assets) \in Nat
    <3>1. listed \in Seq(Symbols)
      BY AmongIs
    <3>. HIDE DEF listed
    <3>2. DOMAIN assets = 1..Len(listed) /\ Len(listed) \in Nat
      BY <3>1
    <3>3. assets \in Seq({assets[i] : i \in 1..Len(listed)})
      BY <3>2, SeqDef
    <3>. HIDE DEF assets
    <3>. QED
      BY <3>3
  <2>. HIDE DEF assets
  <2>. QED
    BY <1>1, <1>5, <2>1, PauseCall, AdjustsEnacts
<1>6. CASE Enact(unregisterAddressesProvider(market, registry, provider))
  BY <1>1, <1>6, UnregisterCall, AdjustsEnacts
<1>7. CASE \E new \in {<<"PriceOracle", 1>>, configurator, NoAddress} :
              Enact(setFallbackOracle(market, oracle, new))
  <2>1. PICK new : Enact(setFallbackOracle(market, oracle, new))
    BY <1>7
  <2>2. PICK next : next = setFallbackOracle(market, oracle, new)
    OBVIOUS
  <2>3. Enact(next)
    BY <2>1, <2>2
  <2>4. oracle \in market.contracts
    BY <2>3, EnactIs
  <2>5. Adjusts(market, next)
    BY <1>1, <2>2, <2>4, FallbackCall
  <2>. QED
    BY <2>3, <2>5, AdjustsEnacts
<1>8. CASE Enact(setAssetPrice(market, fallback, Recorded(ReserveSymbols[1]), 1))
  BY <1>1, <1>8, PriceCalls, AdjustsEnacts
<1>9. CASE Enact(setEthUsdPrice(market, fallback, 1))
  BY <1>1, <1>9, PriceCalls, AdjustsEnacts
<1>. QED
  BY <1>2, <1>3, <1>4, <1>5, <1>6, <1>7, <1>8, <1>9, Zenon DEF GovernMarket

LEMMA GovernEnacts ==
    ASSUME IInv, Govern
    PROVE  \E next : Enacts(next)
<1>1. ASSUME NEW s \in Symbols, Listed(s), NEW a, a = Recorded(s),
             NEW data, data = market.reserves[Reserve(s)],
             GovernCollateral(a, data) \/ GovernBorrowing(a, data) \/ GovernReserve(a, data)
      PROVE  \E next : Enacts(next)
  BY <1>1, GovernCollateralEnacts, GovernBorrowingEnacts, GovernReserveEnacts
<1>2. CASE GovernMarket
  BY <1>2, GovernMarketEnacts
<1>3. CASE ~GovernMarket
  <2>1. PICK s \in GovernedSymbols :
           /\ Listed(s)
           /\ \/ GovernCollateral(Recorded(s), market.reserves[Reserve(s)])
              \/ GovernBorrowing(Recorded(s), market.reserves[Reserve(s)])
              \/ GovernReserve(Recorded(s), market.reserves[Reserve(s)])
    BY <1>3, Zenon DEF Govern
  <2>2. PICK a, data : a = Recorded(s) /\ data = market.reserves[Reserve(s)]
    OBVIOUS
  <2>3. GovernCollateral(a, data) \/ GovernBorrowing(a, data) \/ GovernReserve(a, data)
    BY <2>1, <2>2
  <2>. QED
    BY <1>1, <2>1, <2>2, <2>3, BoundsAssumption
<1>. QED
  BY <1>2, <1>3

-------------------------------------------------------------------------------
(* After a change by the owner.                                            *)

\* What no change by the owner touches.
Governed ==
    /\ Finished /\ enacted \in Nat /\ enacted' = enacted + 1
    /\ UNCHANGED <<records, process, mempool, index, crashes>>
    /\ IsContracts(market') /\ ~market'.reverted /\ market'.log = <<>>
    /\ \A f \in {"contracts", "initialised", "roles", "sources"} : market'[f] = market[f]
    /\ \A x, k : k # "fallback" => Slot(market', x, k) = Slot(market, x, k)
    /\ DOMAIN market'.reserves \subseteq DOMAIN market.reserves

LEMMA EnactedIs ==
    ASSUME NEW next, Enact(next), IsContracts(next)
    PROVE  /\ IsContracts(market') /\ ~market'.reverted /\ market'.log = <<>>
           /\ \A f \in Fields \ {"log"} : market'[f] = next[f]
<1>1. market' = Settled(next) /\ ~next.reverted
  BY DEF Enact, Settled
<1>2. LET e == Settled(next)
      IN  /\ IsContracts(e) /\ e.reverted = next.reverted /\ e.log = <<>>
          /\ \A f \in Fields \ {"log"} : e[f] = next[f]
  BY SettledSame
<1>. QED
  BY <1>1, <1>2

LEMMA EnactGoverns ==
    ASSUME IInv, NEW next, Enact(next), Governs(market, next)
    PROVE  Governed
<1>1. IsContracts(next) /\ Changes(market, next, {"slots", "registered", "reserves", "eModes", "premiumTotal",
                      "premiumToProtocol", "bridgeFee"})
  BY DEF Governs
<1>2. /\ IsContracts(market') /\ ~market'.reverted /\ market'.log = <<>>
      /\ \A f \in Fields \ {"log"} : market'[f] = next[f]
  BY <1>1, EnactedIs
<1>3. \A f \in {"contracts", "initialised", "roles", "sources"} : market'[f] = market[f]
  BY <1>1, <1>2, FieldsAre DEF Changes
<1>4. market'.slots = next.slots /\ market'.reserves = next.reserves
  BY <1>2, FieldsAre
<1>5. \A x, k : Slot(market', x, k) = Slot(next, x, k)
  BY <1>4, SlotOfSlots
<1>6. \A x, k : k # "fallback" => Slot(market', x, k) = Slot(market, x, k)
  BY <1>5 DEF Governs
<1>7. DOMAIN market'.reserves \subseteq DOMAIN market.reserves
  BY <1>4 DEF Governs
<1>8. Finished /\ enacted \in Nat
  BY EnactIs DEF IInv, ProcessOK
<1>9. enacted' = enacted + 1 /\ UNCHANGED <<records, process, mempool, index, crashes>>
  BY DEF Enact
<1>. QED
  BY <1>2, <1>3, <1>6, <1>7, <1>8, <1>9 DEF Governed

LEMMA GovernedFrame ==
    ASSUME Governed
    PROVE  /\ \A id : Recorded(id)' = Recorded(id)
           /\ \A id : id # "fallback" => Component(id)' = Component(id) /\ IsSet(id)' = IsSet(id)
           /\ Controller' = Controller /\ configurator' = configurator /\ provider' = provider
           /\ \A k : k # "fallback" => Slot(market, configurator, k)' = Slot(market, configurator, k)
           /\ \A s \in Symbols : Reserve(s)' = Reserve(s)
           /\ enacted' # 0 /\ Finished' /\ step' = step /\ oracle' = oracle
<1>1. records' = records /\ process' = process
  BY DEF Governed
<1>2. \A id : Recorded(id)' = Recorded(id)
  BY <1>1 DEF Recorded
<1>3. provider' = provider /\ oracle' = oracle
  BY <1>2 DEF provider, oracle
<1>4. \A id : id # "fallback" => Component(id)' = Component(id)
  BY <1>3 DEF Component, Governed
<1>5. \A id : id # "fallback" => IsSet(id)' = IsSet(id)
  BY <1>4 DEF IsSet
<1>6. configurator' = configurator
  BY <1>4 DEF configurator
<1>7. \A k : k # "fallback" => Slot(market, configurator, k)' = Slot(market, configurator, k)
  BY <1>6 DEF Governed
<1>8. Controller' = Controller
  <2>1. PICK x : x = Recorded("EmissionManager")
    OBVIOUS
  <2>2. Slot(market', x, "REWARD_CONTROLLER") = Slot(market, x, "REWARD_CONTROLLER")
    BY DEF Governed
  <2>. QED
    BY <1>2, <2>1, <2>2 DEF Controller
<1>9. \A s \in Symbols : Reserve(s)' = Reserve(s)
  BY <1>2, <1>4 DEF Reserve
<1>10. enacted' # 0
  BY DEF Governed
<1>11. Finished' /\ step' = step
  BY <1>1 DEF Governed, Finished, step
<1>. QED
  BY <1>2, <1>3, <1>4, <1>5, <1>6, <1>7, <1>8, <1>9, <1>10, <1>11

LEMMA GovernedWorld ==
    ASSUME IInv, Governed
    PROVE  WorldOK'
<1>1. WorldOK /\ records' = records /\ enacted' # 0
  BY GovernedFrame DEF IInv, Governed
<1>2. NamesOK'
  BY <1>1 DEF WorldOK, NamesOK, Governed
<1>3. ComponentsOK'
  <2>1. ComponentsOK
    BY <1>1 DEF WorldOK
  <2>2. \A component, id : component # "fallback" =>
           /\ IsNamed(component, id) => IsNamed(component, id)'
           /\ IsSavedAs(component, id) => IsSavedAs(component, id)'
    BY <1>1, GovernedFrame DEF IsNamed, IsSavedAs, IsRecorded
  <2>3. /\ IsSet("POOL")' => Component("POOL")' \in market'.contracts \cap market'.initialised
        /\ IsSet("REWARD_CONTROLLER")' => Component("REWARD_CONTROLLER")' \in market'.contracts
        /\ IsSet("ACL_ADMIN")' => Component("ACL_ADMIN")' = Deployer
    BY <2>1, GovernedFrame DEF ComponentsOK, Governed
  <2>4. /\ IsSet("POOL_CONFIGURATOR")' =>
              IsSet("POOL")' /\ Slot(market, configurator, "pool")' = Component("POOL")'
        /\ Controller' # NoAddress => Controller' = Component("REWARD_CONTROLLER")'
    BY <2>1, GovernedFrame DEF ComponentsOK
  <2>. QED
    BY <2>1, <2>2, <2>3, <2>4 DEF ComponentsOK
<1>4. ReservesOK'
  BY <1>1 DEF WorldOK, ReservesOK, Governed
<1>5. AccountsOK'
  BY <1>1, GovernedFrame DEF WorldOK, AccountsOK, Governed
<1>. QED
  BY <1>2, <1>3, <1>4, <1>5 DEF WorldOK, Governed

LEMMA GovernedDone ==
    ASSUME IInv, Governed
    PROVE  DoneOK'
<1>1. process' = process /\ Finished' /\ enacted' # 0
  BY GovernedFrame DEF Governed
<1>2. ASSUME NEW j \in 1..(process.pc - 1), IsLasting(Script[j])
      PROVE  Done(Script[j])'
  <2>1. PICK s : s = Script[j]
    OBVIOUS
  <2>2. /\ WellFormed(s) /\ Prepared(s, DOMAIN records, CalledBy(Script, j, {}))
    <3>1. RecordsOK /\ ProcessOK
      BY DEF IInv
    <3>2. process.pc \in Nat /\ j <= process.pc /\ j \in 1..Len(Script)
      BY <3>1, ScriptFacts DEF ProcessOK
    <3>. QED
      BY <2>1, <3>1, <3>2, StepsPrepared
  <2>3. Settles(s) /\ IsLasting(s)
    BY <1>2, <2>1 DEF Settles, IsLasting
  <2>4. AlreadyDone(s)
    BY <1>2, <2>1, <2>2, <2>3, DoneCases DEF IInv, DoneOK
  <2>5. AlreadyDone(s)'
    <3>1. ASSUME s.call = "setRewardsController"
          PROVE  AlreadyDone(s)'
      <4>1. s.on = "EmissionManager"
        BY <2>2, <3>1 DEF Prepared
      <4>2. Slot(market, Resolve(s.on), "REWARD_CONTROLLER") # NoAddress
        BY <2>4, <3>1, DoneBefore
      <4>3. s.on \notin Reserved
        BY <4>1 DEF Reserved
      <4>4. Resolve(s.on) = Recorded(s.on) /\ Resolve(s.on)' = Recorded(s.on)'
        BY <4>3, Resolved, ResolvedAfter
      <4>5. Controller # NoAddress
        BY <4>1, <4>2, <4>4 DEF Controller
      <4>6. Controller' # NoAddress
        BY <4>5, GovernedFrame
      <4>7. (Slot(market, Resolve(s.on), "REWARD_CONTROLLER") # NoAddress)'
        BY <4>1, <4>4, <4>6 DEF Controller
      <4>. QED
        BY <3>1, <4>7, Zenon DEF AlreadyDone
    <3>2. \A id \in {"DATA_PROVIDER", "ACL_ADMIN", "ACL_MANAGER", "PRICE_ORACLE", "POOL",
                     "POOL_CONFIGURATOR", "REWARD_CONTROLLER"} : IsSet(id)' = IsSet(id)
      BY GovernedFrame
    <3>3. s.call = "setPoolDataProvider" => AlreadyDone(s)'
      BY <2>4, <3>2, DoneBefore, Zenon DEF AlreadyDone
    <3>4. s.call = "setACLAdmin" => AlreadyDone(s)'
      BY <2>4, <3>2, DoneBefore, Zenon DEF AlreadyDone
    <3>5. s.call = "setACLManager" => AlreadyDone(s)'
      BY <2>4, <3>2, DoneBefore, Zenon DEF AlreadyDone
    <3>6. s.call = "setPriceOracle" => AlreadyDone(s)'
      BY <2>4, <3>2, DoneBefore, Zenon DEF AlreadyDone
    <3>7. s.call = "setPoolImpl" => AlreadyDone(s)'
      BY <2>4, <3>2, DoneBefore, Zenon DEF AlreadyDone
    <3>8. s.call = "setPoolConfiguratorImpl" => AlreadyDone(s)'
      BY <2>4, <3>2, DoneBefore, Zenon DEF AlreadyDone
    <3>9. s.call = "setAddressAsProxy" => AlreadyDone(s)'
      BY <2>4, <3>2, DoneBefore, Zenon DEF AlreadyDone
    <3>. QED
      BY <2>3, <3>1, <3>3, <3>4, <3>5, <3>6, <3>7, <3>8, <3>9 DEF IsLasting, OnProvider
  <2>6. Done(s)'
    BY <2>2, <2>3, <2>5, DoneAfter
  <2>. QED
    BY <2>1, <2>6
<1>. QED
  BY <1>1, <1>2 DEF DoneOK

LEMMA GovernedKeeps ==
    ASSUME IInv, Governed, crashes + enacted < MaxDisturbances
    PROVE  IInv'
<1>1. /\ process' = process /\ records' = records /\ mempool' = mempool /\ index' = index
      /\ crashes' = crashes /\ enacted' = enacted + 1 /\ Finished /\ Finished' /\ step' = step
  BY GovernedFrame DEF Governed
<1>2. mempool = <<>> /\ process.phase = "finished"
  BY <1>1 DEF IInv, MempoolOK, Finished
<1>3. RecordsOK'
  BY <1>1, <1>2 DEF IInv, RecordsOK
<1>4. ProcessOK'
  BY <1>1, BoundsAssumption DEF IInv, ProcessOK
<1>5. MempoolOK'
  <2>1. MempoolOK
    BY DEF IInv
  <2>. QED
    BY <1>1, <1>2, <2>1 DEF MempoolOK
<1>6. PlanOK'
  BY <1>1 DEF PlanOK
<1>. QED
  BY <1>3, <1>4, <1>5, <1>6, GovernedWorld, GovernedDone DEF IInv

LEMMA GovernKeeps ==
    ASSUME IInv, Govern
    PROVE  IInv' /\ Governed
<1>1. PICK next : Enacts(next)
  BY GovernEnacts
<1>2. Governs(market, next)
  BY <1>1 DEF Enacts, Adjusts, Retires
<1>3. Governed
  BY <1>1, <1>2, EnactGoverns DEF Enacts
<1>4. crashes + enacted < MaxDisturbances
  BY <1>1 DEF Enacts, Enact
<1>. QED
  BY <1>3, <1>4, GovernedKeeps

-------------------------------------------------------------------------------
(* The invariant holds from the first block on.                            *)

LEMMA NothingThere ==
    /\ IsContracts(NoContracts) /\ ~NoContracts.reverted /\ NoContracts.log = <<>>
    /\ NoContracts.roles = {} /\ NoContracts.premiumTotal = 0 /\ NoContracts.contracts = {}
    /\ DOMAIN NoContracts.reserves = {} /\ DOMAIN Nothing = {}
    /\ \A x, k : Slot(NoContracts, x, k) = NoAddress
<1>1. /\ NoContracts.contracts = {} /\ NoContracts.slots = Nothing /\ NoContracts.reserves = Nothing
      /\ NoContracts.reverted = FALSE /\ NoContracts.log = <<>> /\ NoContracts.roles = {}
      /\ NoContracts.premiumTotal = 0
  BY DEF NoContracts
<1>2. DOMAIN Nothing = {}
  BY DEF Nothing
<1>3. Numbered(NoContracts.contracts)
  BY <1>1, FS_EmptySet DEF Numbered
<1>4. IsContracts(NoContracts)
  BY <1>1, <1>2, <1>3 DEF IsContracts
<1>. QED
  BY <1>1, <1>2, <1>4 DEF Slot

LEMMA InitWorld ==
    ASSUME Init
    PROVE  WorldOK
<1>1. market = NoContracts /\ DOMAIN records = {} /\ enacted = 0
  BY NothingThere DEF Init
<1>2. \A id : Component(id) = NoAddress
  BY <1>1, NothingThere DEF Component
<1>3. Controller = NoAddress
  BY <1>1, NothingThere DEF Controller
<1>4. \A s \in Symbols : ~Listed(s)
  BY <1>1, NothingThere DEF Listed
<1>5. NamesOK
  BY <1>1 DEF NamesOK
<1>6. ComponentsOK
  BY <1>1, <1>2, <1>3 DEF ComponentsOK, IsSet, IsNamed, IsSavedAs, IsRecorded
<1>7. ReservesOK
  BY <1>1, <1>4, NothingThere DEF ReservesOK
<1>8. AccountsOK
  BY <1>1, NothingThere DEF AccountsOK
<1>. QED
  BY <1>1, <1>5, <1>6, <1>7, <1>8, NothingThere DEF WorldOK

LEMMA InitProcess ==
    ASSUME Init
    PROVE  RecordsOK /\ ProcessOK /\ MempoolOK /\ DoneOK /\ PlanOK
<1>1. /\ process = Start /\ mempool = <<>> /\ index.sources = {} /\ crashes = 0 /\ enacted = 0
  BY DEF Init, EmptyIndex
<1>2. process.pc = 1 /\ process.phase = "ready" /\ DOMAIN process = DOMAIN Start
  BY <1>1, StartIs
<1>3. 1..(process.pc - 1) = {}
  BY <1>2
<1>4. RecordsOK /\ DoneOK
  BY <1>2, <1>3 DEF RecordsOK, DoneOK
<1>5. MaxDisturbances \in Nat
  BY BoundsAssumption
<1>6. ProcessOK
  BY <1>1, <1>2, <1>5, ScriptFacts DEF ProcessOK, Finished
<1>7. MempoolOK
  <2>1. MaxPending \in Nat
    BY BoundsAssumption
  <2>2. IsQueue(mempool) /\ Len(mempool) = 0 /\ DOMAIN mempool = {}
    BY <1>1 DEF IsQueue
  <2>. QED
    BY <1>2, <2>1, <2>2 DEF MempoolOK
<1>8. PlanOK
  <2>1. step.call \notin Planning
    BY <1>2, FirstNotPlanned DEF step
  <2>. QED
    BY <2>1 DEF PlanOK, Planning
<1>. QED
  BY <1>4, <1>6, <1>7, <1>8

LEMMA StutterKeeps ==
    ASSUME IInv, UNCHANGED vars
    PROVE  IInv'
<1>1. /\ market' = market /\ records' = records /\ process' = process /\ mempool' = mempool
      /\ index' = index /\ crashes' = crashes /\ enacted' = enacted
  BY DEF vars
<1>2. \A a : Initialising(a)' <=> Initialising(a)
  BY <1>1 DEF Initialising
<1>3. Forward /\ WorldOK'
  BY <1>1, <1>2, FrameForward, FrameWorld DEF IInv
<1>4. step' = step /\ (Finished' <=> Finished)
  BY <1>1 DEF step, Finished
<1>5. RecordsOK'
  BY <1>1, <1>4 DEF IInv, RecordsOK
<1>6. ProcessOK'
  BY <1>1, <1>4 DEF IInv, ProcessOK
<1>7. MempoolOK'
  <2>1. MempoolOK
    BY DEF IInv
  <2>2. \A i \in DOMAIN mempool : TransactionOK(mempool[i].tx)'
    <3>. TAKE i \in DOMAIN mempool
    <3>1. PICK tx : tx = mempool[i].tx
      OBVIOUS
    <3>2. TransactionOK(tx)'
      BY <1>3, <2>1, <3>1, TransactionKept DEF MempoolOK
    <3>. QED
      BY <1>1, <3>1, <3>2
  <2>3. \A id : Recorded(id)' = Recorded(id)
    BY <1>1 DEF Recorded
  <2>4. \A id : Component(id)' = Component(id)
    BY <1>1, <2>3 DEF Component, provider
  <2>5. Resolve(step.on)' = Resolve(step.on)
    BY <1>4, <2>3, <2>4 DEF Resolve
  <2>6. Last' = Last
    BY <1>1 DEF Last
  <2>. QED
    BY <1>1, <1>4, <2>1, <2>2, <2>5, <2>6 DEF MempoolOK
<1>8. DoneOK'
  <2>1. /\ RecordsOK /\ ProcessOK /\ DoneOK
    BY DEF IInv
  <2>2. ASSUME NEW j \in 1..Len(Script), j <= process.pc, Done(Script[j])
        PROVE  Done(Script[j])'
    <3>1. PICK s : s = Script[j]
      OBVIOUS
    <3>2. WellFormed(s) /\ Prepared(s, DOMAIN records, CalledBy(Script, j, {})) /\ Done(s)
      BY <2>1, <2>2, <3>1, StepsPrepared
    <3>3. Done(s)'
      BY <1>3, <3>2, DoneKept
    <3>. QED
      BY <3>1, <3>3
  <2>3. \A j \in 1..(process.pc - 1) : j \in 1..Len(Script) /\ j <= process.pc
    BY <2>1, ScriptFacts DEF ProcessOK
  <2>4. \A j \in 1..(process.pc - 1) : enacted = 0 \/ IsLasting(Script[j]) => Done(Script[j])'
    BY <2>1, <2>2, <2>3 DEF DoneOK
  <2>5. ASSUME enacted = 0, process.phase = "mined", step.call \notin InChunks
        PROVE  Done(step)'
    <3>1. PICK j : j = process.pc
      OBVIOUS
    <3>2. j \in 1..Len(Script) /\ j <= process.pc
      BY <2>1, <2>5, <3>1, ScriptFacts DEF ProcessOK, Finished
    <3>3. Script[j] = step
      BY <3>1 DEF step
    <3>4. Done(Script[j])
      BY <2>1, <2>5, <3>3 DEF DoneOK
    <3>5. Done(Script[j])'
      BY <2>2, <3>2, <3>4
    <3>6. PICK s : s = step
      OBVIOUS
    <3>7. Done(s)'
      BY <3>3, <3>5, <3>6
    <3>. QED
      BY <1>4, <3>6, <3>7
  <2>8. Recorded(step.on)' = Recorded(step.on)
    BY <1>1, <1>4 DEF Recorded
  <2>. QED
    BY <1>1, <1>4, <2>1, <2>4, <2>5, <2>8 DEF DoneOK, IsLasting
<1>9. PlanOK'
  <2>1. CASE Finished
    BY <1>4, <2>1 DEF PlanOK
  <2>2. CASE ~Finished
    <3>1. Rest' = Rest
      BY <1>1, <1>4 DEF Rest
    <3>. QED
      BY <1>1, <1>3, <2>2, <3>1, PlanStays
  <2>. QED
    BY <2>1, <2>2
<1>. QED
  BY <1>3, <1>5, <1>6, <1>7, <1>8, <1>9 DEF IInv

LEMMA NextKeeps ==
    ASSUME IInv, [Next]_vars
    PROVE  IInv'
<1>1. CASE Deploying
  BY <1>1, SkipKeeps, SendKeeps, EstimationFailsKeeps, WakeKeeps, WakeRevertedKeeps, LookUpKeeps,
     SaveProxyKeeps, PlanKeeps DEF Deploying
<1>2. CASE Crash \/ Rerun
  BY <1>2, CrashKeeps, RerunKeeps
<1>3. CASE Mine
  BY <1>3, MineKeeps
<1>4. CASE StartIndexing \/ IndexBlock
  BY <1>4, IndexKeeps
<1>5. CASE Govern
  BY <1>5, GovernKeeps
<1>6. CASE UNCHANGED vars
  BY <1>6, StutterKeeps
<1>. QED
  BY <1>1, <1>2, <1>3, <1>4, <1>5, <1>6 DEF Next

\* However often the scripts stop and are run again, whatever was sent and is mined late,
\* and whatever the owner does afterwards, they only go forward.
THEOREM DeploymentInvariant == Spec => []IInv
<1>1. Init => IInv
  BY InitWorld, InitProcess DEF IInv
<1>2. IInv /\ [Next]_vars => IInv'
  BY NextKeeps
<1>. QED
  BY <1>1, <1>2, PTL DEF Spec

\* The process is at a step of the script, what it waits for and only that is awaited in
\* the mempool, and every record names a contract that exists.
THEOREM DeploymentTypeCorrect == Spec => []TypeOK
<1>1. ASSUME IInv
      PROVE  TypeOK
  <2>1. process.pc \in 1..Len(Script) + 1
        /\ process.phase \in {"ready", "waiting", "mined", "reverted", "failed", "finished"}
        /\ crashes + enacted <= MaxDisturbances
    BY <1>1 DEF IInv, ProcessOK
  <2>2. /\ (process.phase = "waiting") <=> (\E i \in DOMAIN mempool : mempool[i].awaited)
        /\ \A i \in DOMAIN mempool : mempool[i].awaited => i = Len(mempool)
        /\ Len(mempool) <= MaxPending
    BY <1>1 DEF IInv, MempoolOK
  <2>3. ~market.reverted /\ market.log = <<>>
        /\ {records[id] : id \in DOMAIN records} \subseteq market.contracts
        /\ DOMAIN market.reserves \subseteq market.contracts \X market.contracts
    BY <1>1 DEF IInv, WorldOK, NamesOK, ReservesOK
  <2>. QED
    BY <2>1, <2>2, <2>3 DEF TypeOK
<1>2. IInv => TypeOK
  BY <1>1
<1>. QED
  BY <1>2, DeploymentInvariant, PTL

-------------------------------------------------------------------------------
(* What deployment promises.                                               *)

LEMMA ReservesAreListed ==
    ASSUME IInv, Finished, enacted = 0
    PROVE  {r[2] : r \in DOMAIN market.reserves} = {Recorded(s) : s \in Symbols}
<1>1. AllListed /\ ReservesOK
  BY Deployed DEF IInv, WorldOK
<1>2. \A r \in DOMAIN market.reserves : \E s \in Symbols : r = Reserve(s)
  BY <1>1 DEF ReservesOK
<1>3. \A s \in Symbols : Reserve(s) \in DOMAIN market.reserves /\ Reserve(s)[2] = Recorded(s)
  BY <1>1 DEF AllListed, Listed, Reserve
<1>4. ASSUME NEW a \in {r[2] : r \in DOMAIN market.reserves}
      PROVE  a \in {Recorded(s) : s \in Symbols}
  <2>1. PICK r \in DOMAIN market.reserves : a = r[2]
    OBVIOUS
  <2>2. PICK s \in Symbols : r = Reserve(s)
    BY <1>2
  <2>. QED
    BY <1>3, <2>1, <2>2
<1>5. ASSUME NEW s \in Symbols
      PROVE  Recorded(s) \in {r[2] : r \in DOMAIN market.reserves}
  BY <1>3
<1>. QED
  BY <1>4, <1>5

\* Once the scripts are through, every record names the contract that is part of the
\* market: nothing the provider, the registry, the pool or the emission manager uses is a
\* leftover of an earlier run.
THEOREM RecordsTruthfulAlways == Spec => []RecordsTruthful
<1>1. ASSUME IInv, Finished
      PROVE  RecordsTruthful
  <2>. DEFINE Pairs == {<<"Pool-Proxy", "POOL">>, <<"PoolConfigurator-Proxy", "POOL_CONFIGURATOR">>,
                        <<"ACLManager", "ACL_MANAGER">>, <<"ProtocolOracle", "PRICE_ORACLE">>,
                        <<"PoolDataProvider", "DATA_PROVIDER">>,
                        <<"RewardsControllerProxy", "REWARD_CONTROLLER">>}
  <2>1. \A id \in DOMAIN records : Recorded(id) = records[id] /\ records[id] # NoAddress
    BY <1>1, NoContractThere DEF IInv, WorldOK, NamesOK, Recorded
  <2>2. \A pair \in Pairs : pair[1] \in DOMAIN records /\ Component(pair[2]) = records[pair[1]]
    BY <1>1, ComponentsSet, ComponentsRecorded DEF IsRecorded, configurator
  <2>3. \A pair \in Pairs : Recorded(pair[1]) # NoAddress /\ Recorded(pair[1]) = Component(pair[2])
    BY <2>1, <2>2
  <2>4. Slot(market, Recorded("EmissionManager"), "REWARD_CONTROLLER") = Recorded("RewardsControllerProxy")
    BY <1>1, <2>1, ComponentsSet, ControllerSet DEF IsRecorded, Controller
  <2>5. Slot(market, configurator, "pool") = Recorded("Pool-Proxy")
    BY <1>1, <2>1, ComponentsSet, ComponentsRecorded DEF IsRecorded
  <2>6. enacted = 0 =>
           /\ IsRegistered(market, Recorded("PoolAddressesProviderRegistry"), provider)
           /\ {r[2] : r \in DOMAIN market.reserves} = {Recorded(s) : s \in Symbols}
    BY <1>1, Deployed, ReservesAreListed
  <2>. QED
    BY <2>3, <2>4, <2>5, <2>6 DEF RecordsTruthful
<1>2. IInv => RecordsTruthful
  BY <1>1 DEF RecordsTruthful
<1>. QED
  BY <1>2, DeploymentInvariant, PTL

LEMMA ReserveIsConfigured ==
    ASSUME IInv, Finished, enacted = 0, NEW s \in Symbols
    PROVE  /\ Listed(s) /\ AsConfigured(s)
           /\ market.reserves[Reserve(s)].reserveInterestRateStrategy = Recorded(ReservesConfig[s].strategy)
           /\ getAssetPrice(market, oracle, Recorded(s)) # NoAnswer
<1>1. ReservesOK /\ IsCollateral(s) /\ Priced(s)
  BY Deployed DEF IInv, WorldOK, AllConfigured, AllPriced
<1>2. Listed(s) /\ market.reserves[Reserve(s)].reserveLiquidationThreshold # 0
  BY <1>1 DEF IsCollateral
<1>3. ~Untouched(s)
  <2>1. Data.reserveLiquidationThreshold = 0
    BY DEF Data, NewReserveData
  <2>. QED
    BY <1>2, <2>1 DEF Untouched
<1>4. /\ IsRecorded(ReservesConfig[s].strategy) /\ AsConfigured(s)
      /\ market.reserves[Reserve(s)].reserveInterestRateStrategy = records[ReservesConfig[s].strategy]
  BY <1>1, <1>2, <1>3 DEF ReservesOK
<1>5. getAssetPrice(market, oracle, Recorded(s)) = 1
  BY <1>1 DEF getAssetPrice, Priced
<1>. QED
  BY <1>2, <1>4, <1>5, AnswersAssumption DEF Recorded, IsRecorded

\* Once the scripts are through and before the owner changes anything, every asset is
\* listed and set as its configuration says, has a price source and its strategy, the
\* owner has the roles, the premium is set and what must be initialised is.
THEOREM MarketReadyAlways == Spec => []MarketReady
<1>1. ASSUME IInv, Finished, enacted = 0
      PROVE  MarketReady
  <2>1. \A s \in Symbols :
           /\ Listed(s) /\ AsConfigured(s)
           /\ market.reserves[Reserve(s)].reserveInterestRateStrategy
                  = Recorded(ReservesConfig[s].strategy)
           /\ getAssetPrice(market, oracle, Recorded(s)) # NoAnswer
    BY <1>1, ReserveIsConfigured
  <2>2. \A role \in {"DEFAULT_ADMIN", "POOL_ADMIN", "EMERGENCY_ADMIN"} :
           HasRole(market, Component("ACL_MANAGER"), role, Deployer)
    BY <1>1, Deployed, ComponentsRecorded DEF IsAdministered, IsRecorded, Recorded
  <2>3. market.premiumTotal = FlashLoanPremiums.total
    BY <1>1, Deployed DEF IInv, WorldOK, AccountsOK
  <2>4. {Recorded("TreasuryProxy"), Recorded("Treasury-Implementation"),
         Recorded("Pool-Implementation"), Recorded("BToken"), Component("POOL")}
            \subseteq market.initialised
    <3>1. Component("POOL") \in market.initialised
      BY <1>1, ComponentsRecorded DEF IInv, WorldOK, ComponentsOK
    <3>. QED
      BY <1>1, <3>1, Deployed
  <2>. QED
    BY <2>1, <2>2, <2>3, <2>4, Zenon DEF MarketReady, AsConfigured
<1>2. IInv => MarketReady
  BY <1>1 DEF MarketReady
<1>. QED
  BY <1>2, DeploymentInvariant, PTL

-------------------------------------------------------------------------------
(* Steps that list and configure nothing.                                  *)

ListingStays ==
    \A s \in Symbols : (Listed(s)' <=> Listed(s)) /\ (IsCollateral(s)' <=> IsCollateral(s))

TrustStays == (RiskAdmins' = {}) <=> (RiskAdmins = {})

LEMMA NothingListed ==
    ASSUME ListingStays, TrustStays
    PROVE  UNCHANGED Listing!listing
<1>1. {s \in Symbols : Listed(s)}' = {s \in Symbols : Listed(s)}
  BY DEF ListingStays
<1>2. {s \in Symbols : IsCollateral(s)}' = {s \in Symbols : IsCollateral(s)}
  BY DEF ListingStays
<1>3. (RiskAdmins # {})' = (RiskAdmins # {})
  BY DEF TrustStays
<1>. QED
  BY <1>1, <1>2, <1>3 DEF Listing!listing

LEMMA QuietStep ==
    ASSUME market' = market, records' = records
    PROVE  ListingStays /\ TrustStays
<1>1. \A s \in Symbols : Reserve(s)' = Reserve(s)
  BY DEF Reserve, Component, provider, Recorded
<1>2. RiskAdmins' = RiskAdmins
  BY DEF RiskAdmins
<1>. QED
  BY <1>1, <1>2 DEF ListingStays, TrustStays, Listed, IsCollateral

LEMMA RecordingStep ==
    ASSUME WorldOK, WorldOK', Forward, market' = market, mempool' = mempool, enacted = 0
    PROVE  ListingStays /\ TrustStays
<1>1. Extends
  BY DEF Forward, Extends
<1>2. ASSUME NEW s \in Symbols
      PROVE  (Listed(s)' <=> Listed(s)) /\ (IsCollateral(s)' <=> IsCollateral(s))
  <2>1. Listed(s)' => Listed(s) /\ Reserve(s)' = Reserve(s)
    BY <1>1, ListedBefore DEF WorldOK
  <2>2. Listed(s) => Listed(s)'
    BY DEF Forward
  <2>. QED
    BY <2>1, <2>2 DEF IsCollateral
<1>3. RiskAdmins' = RiskAdmins
  BY DEF RiskAdmins
<1>. QED
  BY <1>2, <1>3 DEF ListingStays, TrustStays

LEMMA DeployingListsNothing ==
    ASSUME IInv, Deploying \/ Crash \/ Rerun \/ StartIndexing \/ IndexBlock \/ UNCHANGED vars
    PROVE  ListingStays /\ TrustStays
<1>1. CASE Wake
  <2>1. WorldOK /\ WorldOK' /\ Forward /\ enacted = 0 /\ market' = market /\ mempool' = mempool
    BY <1>1, WakeWorld, MinedIs DEF Wake, IInv
  <2>. QED
    BY <2>1, RecordingStep
<1>2. CASE SaveProxy
  <2>1. WorldOK /\ WorldOK' /\ Forward /\ enacted = 0 /\ market' = market /\ mempool' = mempool
    BY <1>2, ProxySaved, Deployment DEF SaveProxy, IInv
  <2>. QED
    BY <2>1, RecordingStep
<1>3. CASE Deploying /\ ~Wake /\ ~SaveProxy
  <2>1. market' = market /\ records' = records
    BY <1>3 DEF Deploying, Skip, SendTransaction, EstimationFails, WakeReverted, LookUp, Plan
  <2>. QED
    BY <2>1, QuietStep
<1>4. CASE Crash \/ Rerun \/ StartIndexing \/ IndexBlock \/ UNCHANGED vars
  <2>1. market' = market /\ records' = records
    BY <1>4 DEF Crash, Rerun, StartIndexing, IndexBlock, vars
  <2>. QED
    BY <2>1, QuietStep
<1>. QED
  BY <1>1, <1>2, <1>3, <1>4

-------------------------------------------------------------------------------
(* What the owner changes retires an asset or nothing.                     *)

LEMMA AdjustingListsNothing ==
    ASSUME IInv, NEW next, Enact(next), Adjusts(market, next)
    PROVE  ListingStays /\ TrustStays
<1>1. Governed
  BY EnactGoverns DEF Adjusts
<1>2. market'.reserves = next.reserves
  BY EnactedIs, FieldsAre DEF Adjusts, Governs
<1>3. \A s \in Symbols : Reserve(s)' = Reserve(s)
  BY <1>1, GovernedFrame
<1>4. DOMAIN market'.reserves \subseteq DOMAIN market.reserves
  BY <1>1 DEF Governed
<1>5. \A r \in DOMAIN market.reserves :
         /\ r \in DOMAIN market'.reserves
         /\ market'.reserves[r].reserveLiquidationThreshold
                = market.reserves[r].reserveLiquidationThreshold
  BY <1>2 DEF Adjusts, SameThreshold
<1>6. ListingStays
  BY <1>3, <1>4, <1>5 DEF ListingStays, Listed, IsCollateral
<1>7. RiskAdmins' = RiskAdmins
  BY <1>1 DEF RiskAdmins, Governed
<1>. QED
  BY <1>6, <1>7 DEF TrustStays

LEMMA ListedApart ==
    ASSUME WorldOK, NEW s \in Symbols, NEW t \in Symbols, Listed(s), Listed(t), Reserve(s) = Reserve(t)
    PROVE  s = t
<1>1. IsRecorded(s) /\ IsRecorded(t)
  BY HoldersAre
<1>2. Recorded(s) = Recorded(t)
  BY DEF Reserve
<1>. QED
  BY <1>1, <1>2 DEF WorldOK, NamesOK, Recorded, IsRecorded

LEMMA RetiringRetires ==
    ASSUME IInv, NEW next, Enact(next), NEW s \in Symbols, Listed(s), Retires(market, next, Reserve(s))
    PROVE  Listing!Retire(s)
<1>1. Governed
  BY EnactGoverns DEF Retires
<1>2. market'.reserves = next.reserves
  BY EnactedIs, FieldsAre DEF Retires, Governs
<1>3. \A t \in Symbols : Reserve(t)' = Reserve(t)
  BY <1>1, GovernedFrame
<1>4. DOMAIN market'.reserves \subseteq DOMAIN market.reserves
  BY <1>1 DEF Governed
<1>5. \A r \in DOMAIN market.reserves : r # Reserve(s) =>
         /\ r \in DOMAIN market'.reserves
         /\ market'.reserves[r].reserveLiquidationThreshold
                = market.reserves[r].reserveLiquidationThreshold
  BY <1>2 DEF Retires, SameThreshold
<1>6. ASSUME NEW t \in Symbols, t # s
      PROVE  (Listed(t)' <=> Listed(t)) /\ (IsCollateral(t)' <=> IsCollateral(t))
  <2>1. Listed(t) => Reserve(t) # Reserve(s)
    BY <1>6, ListedApart DEF IInv
  <2>. QED
    BY <1>3, <1>4, <1>5, <2>1 DEF Listed, IsCollateral
<1>7. ~IsCollateral(s)'
  BY <1>2, <1>3 DEF Retires, IsCollateral, Listed
<1>8. {t \in Symbols : IsCollateral(t)}' = {t \in Symbols : IsCollateral(t)} \ {s}
  BY <1>6, <1>7
<1>9. {t \in Symbols : Listed(t)}' \in {{t \in Symbols : Listed(t)}, {t \in Symbols : Listed(t)} \ {s}}
  <2>1. CASE Listed(s)'
    <3>1. {t \in Symbols : Listed(t)}' = {t \in Symbols : Listed(t)}
      BY <1>6, <2>1
    <3>. QED
      BY <3>1
  <2>2. CASE ~Listed(s)'
    <3>1. {t \in Symbols : Listed(t)}' = {t \in Symbols : Listed(t)} \ {s}
      BY <1>6, <2>2
    <3>. QED
      BY <3>1
  <2>. QED
    BY <2>1, <2>2
<1>10. RiskAdmins' = RiskAdmins
  BY <1>1 DEF RiskAdmins, Governed
<1>. QED
  BY <1>8, <1>9, <1>10 DEF Listing!Retire

LEMMA GovernRefines ==
    ASSUME IInv, Govern
    PROVE  [Listing!Next]_(Listing!listing)
<1>1. PICK next : Enacts(next)
  BY GovernEnacts
<1>2. CASE Adjusts(market, next)
  BY <1>1, <1>2, AdjustingListsNothing, NothingListed DEF Enacts
<1>3. CASE ~Adjusts(market, next)
  <2>1. PICK s \in Symbols : Listed(s) /\ Retires(market, next, Reserve(s))
    BY <1>1, <1>3 DEF Enacts
  <2>2. Listing!Retire(s)
    BY <1>1, <2>1, RetiringRetires DEF Enacts
  <2>. QED
    BY <2>2 DEF Listing!Next
<1>. QED
  BY <1>2, <1>3

-------------------------------------------------------------------------------
(* A transaction that is mined lists, trusts, configures or distrusts.     *)

LEMMA MinedTrust ==
    ASSUME NEW tx, MinedOne(tx)
    PROVE  /\ tx.call # "removeRiskAdmin" => RiskAdmins \subseteq RiskAdmins'
           /\ tx.call # "addRiskAdmin" => RiskAdmins' \subseteq RiskAdmins
<1>1. EffectOnRoles(market, market', tx)
  BY DEF MinedOne, Mines, Effects
<1>. QED
  BY <1>1 DEF EffectOnRoles, RiskAdmins

\* Nothing is listed before there is a pool.
LEMMA ListedKeepsReserve ==
    ASSUME WorldOK, enacted = 0, NEW tx, MinedOne(tx)
    PROVE  /\ \A s \in Symbols : Listed(s) => Reserve(s)' = Reserve(s)
           /\ DOMAIN market.reserves = {} \/ \A s \in Symbols : Reserve(s)' = Reserve(s)
<1>1. /\ \A s : IsSet("POOL") => Reserve(s)' = Reserve(s)
      /\ \A s \in Symbols : Listed(s) => Reserve(s)' = Reserve(s)
  BY MinedReserve
<1>2. \A r \in DOMAIN market.reserves : \E s \in Symbols \cap DOMAIN records : r = Reserve(s)
  BY ReservesAre DEF WorldOK
<1>3. DOMAIN market.reserves # {} => IsSet("POOL")
  BY <1>2, HoldersAre DEF Listed
<1>. QED
  BY <1>1, <1>3

LEMMA OthersListNothing ==
    ASSUME WorldOK, enacted = 0, NEW tx, MinedOne(tx), tx.call \notin InChunks
    PROVE  ListingStays
<1>1. market'.reserves = market.reserves
  BY DEF MinedOne, Mines, Effects, EffectOnReserves, InChunks
<1>2. /\ \A s \in Symbols : Listed(s) => Reserve(s)' = Reserve(s)
      /\ DOMAIN market.reserves = {} \/ \A s \in Symbols : Reserve(s)' = Reserve(s)
  BY ListedKeepsReserve
<1>. QED
  BY <1>1, <1>2 DEF ListingStays, Listed, IsCollateral

\* What is listed is not configured yet.
LEMMA ListingConfiguresNothing ==
    ASSUME WorldOK, enacted = 0, NEW tx, MinedOne(tx), tx.call = "initReserves"
    PROVE  \A s \in Symbols : (Listed(s) => Listed(s)') /\ (IsCollateral(s)' <=> IsCollateral(s))
<1>1. ListsSymbols(tx) /\ IsSet("POOL")
  BY InitReservesLists
<1>2. \A s : Reserve(s)' = Reserve(s)
  BY <1>1, MinedReserve
<1>3. \A r \in DOMAIN market.reserves :
         r \in DOMAIN market'.reserves /\ market'.reserves[r] = market.reserves[r]
  BY <1>1 DEF ListsSymbols
<1>4. \A s \in Symbols : Listed(s) => Listed(s)'
  BY <1>2, <1>3 DEF Listed
<1>5. \A r \in DOMAIN market'.reserves \ DOMAIN market.reserves :
         market'.reserves[r].reserveLiquidationThreshold = 0
  <2>1. Data.reserveLiquidationThreshold = 0
    BY DEF Data, NewReserveData
  <2>2. \A r \in DOMAIN market'.reserves \ DOMAIN market.reserves :
           \E s \in Symbols : IsNewData(market'.reserves[r], InitInput(s).strategy)
    BY <1>1 DEF ListsSymbols
  <2>. QED
    BY <2>1, <2>2, NewReserveIs
<1>6. \A s \in Symbols : IsCollateral(s)' <=> IsCollateral(s)
  BY <1>2, <1>3, <1>5 DEF IsCollateral, Listed
<1>. QED
  BY <1>4, <1>6

LEMMA ListingRefines ==
    ASSUME WorldOK, enacted = 0, NEW tx, MinedOne(tx), tx.call = "initReserves"
    PROVE  [Listing!Next]_(Listing!listing)
<1>. DEFINE listed == {s \in Symbols : Listed(s)}
            chunk == {s \in Symbols : Listed(s)' /\ ~Listed(s)}
<1>1. \A s \in Symbols : (Listed(s) => Listed(s)') /\ (IsCollateral(s)' <=> IsCollateral(s))
  BY ListingConfiguresNothing
<1>2. {s \in Symbols : IsCollateral(s)}' = {s \in Symbols : IsCollateral(s)}
  BY <1>1
<1>3. TrustStays
  BY MinedTrust DEF TrustStays
<1>4. (RiskAdmins # {})' = (RiskAdmins # {})
  BY <1>3 DEF TrustStays
<1>5. CASE chunk = {}
  <2>1. \A s \in Symbols : Listed(s)' <=> Listed(s)
    BY <1>1, <1>5
  <2>2. ListingStays
    BY <1>1, <2>1 DEF ListingStays
  <2>. QED
    BY <1>3, <2>2, NothingListed
<1>6. CASE chunk # {}
  <2>1. chunk \cap listed = {}
    OBVIOUS
  <2>2. {s \in Symbols : Listed(s)}' = listed \cup chunk
    BY <1>1
  <2>3. chunk \in SUBSET Symbols
    OBVIOUS
  <2>. HIDE DEF chunk
  <2>4. Listing!List(chunk)
    BY <1>2, <1>4, <1>6, <2>1, <2>2 DEF Listing!List
  <2>. QED
    BY <2>3, <2>4 DEF Listing!Next
<1>. QED
  BY <1>5, <1>6

LEMMA HelperIsTrusted ==
    ASSUME WorldOK, NEW helper \in market.contracts, NEW holder,
           Allowed(market, holder, RiskOrPoolAdmins, helper)
    PROVE  RiskAdmins # {}
<1>1. PICK role \in RiskOrPoolAdmins : <<Slot(market, holder, "ACL_MANAGER"), role, helper>> \in market.roles
  BY DEF Allowed, HasRole
<1>2. helper # Deployer
  BY NoContractThere DEF WorldOK
<1>3. role = "RISK_ADMIN"
  BY <1>1, <1>2 DEF WorldOK, AccountsOK, RiskOrPoolAdmins
<1>. QED
  BY <1>1, <1>3 DEF RiskAdmins

LEMMA ConfiguringRefines ==
    ASSUME WorldOK, enacted = 0, enacted' = enacted, NEW tx, MinedOne(tx), tx.call = "configureReserves"
    PROVE  [Listing!Next]_(Listing!listing)
<1>. DEFINE Asked(s) == \E i \in 1..Len(tx.with.params) : tx.with.params[i] = ConfigureInput(s)
            listed == {s \in Symbols : Listed(s)}
            configured == {s \in Symbols : IsCollateral(s)}
            chunk == {s \in Symbols : Asked(s)}
<1>1. /\ SetsSymbols(tx) /\ IsSet("POOL") /\ AllListed
      /\ tx.with.params \in Seq({ConfigureInput(s) : s \in Symbols})
      /\ Len(tx.with.params) > 0 =>
            Allowed(market, Slot(market, configurator, "provider"), RiskOrPoolAdmins, tx.on)
  BY ConfigureReservesSets
<1>2. \A s : Reserve(s)' = Reserve(s)
  BY <1>1, MinedReserve
<1>3. \A s \in Symbols : Listed(s) /\ Listed(s)'
  BY <1>1, <1>2 DEF AllListed, Listed, SetsSymbols
<1>4. \A s \in Symbols : Asked(s) => IsCollateral(s)'
  BY ConfiguringKeepsReserves
<1>5. \A s \in Symbols : ~Asked(s) => (IsCollateral(s)' <=> IsCollateral(s))
  <2>1. \A s \in Symbols : ~Asked(s) => market'.reserves[Reserve(s)] = market.reserves[Reserve(s)]
    BY <1>1, <1>3 DEF SetsSymbols
  <2>. QED
    BY <1>2, <1>3, <2>1 DEF IsCollateral
<1>6. TrustStays
  BY MinedTrust DEF TrustStays
<1>7. (RiskAdmins # {})' = (RiskAdmins # {})
  BY <1>6 DEF TrustStays
<1>8. {s \in Symbols : Listed(s)}' = listed
  BY <1>3
<1>9. CASE chunk = {}
  <2>1. \A s \in Symbols : ~Asked(s)
    BY <1>9
  <2>2. ListingStays
    BY <1>3, <1>5, <2>1 DEF ListingStays
  <2>. QED
    BY <1>6, <2>2, NothingListed
<1>10. CASE chunk # {}
  <2>1. RiskAdmins # {}
    <3>1. Len(tx.with.params) \in Nat
      BY <1>1
    <3>2. Len(tx.with.params) > 0
      BY <1>10, <3>1
    <3>3. tx.on \in market.contracts
      BY <1>1 DEF MinedOne, TransactionOK, Calls, IsRecorded, WorldOK, NamesOK
    <3>. QED
      BY <1>1, <3>2, <3>3, HelperIsTrusted
  <2>2. {s \in Symbols : IsCollateral(s)}' = configured \cup chunk
    BY <1>4, <1>5
  <2>3. chunk \in SUBSET Symbols /\ chunk \subseteq listed
    BY <1>3
  <2>. HIDE DEF chunk
  <2>4. Listing!Configure(chunk)
    BY <1>7, <1>8, <1>10, <2>1, <2>2, <2>3 DEF Listing!Configure
  <2>. QED
    BY <2>3, <2>4 DEF Listing!Next
<1>. QED
  BY <1>9, <1>10

LEMMA TrustingRefines ==
    ASSUME WorldOK, enacted = 0, NEW tx, MinedOne(tx), tx.call \in {"addRiskAdmin", "removeRiskAdmin"}
    PROVE  [Listing!Next]_(Listing!listing)
<1>1. ListingStays
  BY OthersListNothing DEF InChunks
<1>2. {s \in Symbols : Listed(s)}' = {s \in Symbols : Listed(s)}
  BY <1>1 DEF ListingStays
<1>3. {s \in Symbols : IsCollateral(s)}' = {s \in Symbols : IsCollateral(s)}
  BY <1>1 DEF ListingStays
<1>4. CASE TrustStays
  BY <1>1, <1>4, NothingListed
<1>5. CASE ~TrustStays /\ tx.call = "addRiskAdmin"
  <2>1. {s \in Symbols : Listed(s)} = Symbols
    BY <1>5 DEF MinedOne, TransactionOK, AllListed
  <2>2. (RiskAdmins # {})' = TRUE
    BY <1>5, MinedTrust DEF TrustStays
  <2>3. Listing!Trust
    BY <1>2, <1>3, <2>1, <2>2 DEF Listing!Trust
  <2>. QED
    BY <2>3 DEF Listing!Next
<1>6. CASE ~TrustStays /\ tx.call = "removeRiskAdmin"
  <2>1. {s \in Symbols : IsCollateral(s)} = Symbols
    BY <1>6 DEF MinedOne, TransactionOK, AllConfigured
  <2>2. (RiskAdmins # {})' = FALSE
    BY <1>6, MinedTrust DEF TrustStays
  <2>3. Listing!Distrust
    BY <1>2, <1>3, <2>1, <2>2 DEF Listing!Distrust
  <2>. QED
    BY <2>3 DEF Listing!Next
<1>. QED
  BY <1>4, <1>5, <1>6

LEMMA MineRefines ==
    ASSUME IInv, Mine
    PROVE  [Listing!Next]_(Listing!listing)
<1>1. PICK tx : tx = Head(mempool).tx
  OBVIOUS
<1>2. MinesHead(tx)
  BY <1>1, MineIs
<1>3. WorldOK /\ enacted = 0 /\ enacted' = enacted
  BY <1>2, HeadIs DEF IInv, MinesHead
<1>4. CASE Executed(market, tx).reverted
  <2>1. market' = market /\ records' = records
    BY <1>2, <1>4 DEF MinesHead
  <2>. QED
    BY <2>1, QuietStep, NothingListed
<1>5. CASE ~Executed(market, tx).reverted
  <2>1. MinedOne(tx)
    BY <1>2, <1>5, HeadMined
  <2>2. CASE tx.call = "initReserves"
    BY <1>3, <2>1, <2>2, ListingRefines
  <2>3. CASE tx.call = "configureReserves"
    BY <1>3, <2>1, <2>3, ConfiguringRefines
  <2>4. CASE tx.call \in {"addRiskAdmin", "removeRiskAdmin"}
    BY <1>3, <2>1, <2>4, TrustingRefines
  <2>5. CASE tx.call \notin InChunks \cup {"addRiskAdmin", "removeRiskAdmin"}
    <3>1. ListingStays
      BY <1>3, <2>1, <2>5, OthersListNothing
    <3>2. TrustStays
      BY <2>1, <2>5, MinedTrust DEF TrustStays
    <3>. QED
      BY <3>1, <3>2, NothingListed
  <2>. QED
    BY <2>2, <2>3, <2>4, <2>5 DEF InChunks
<1>. QED
  BY <1>4, <1>5

-------------------------------------------------------------------------------
(* The refinement.                                                         *)

LEMMA NextRefines ==
    ASSUME IInv, [Next]_vars
    PROVE  [Listing!Next]_(Listing!listing)
<1>1. CASE Mine
  BY <1>1, MineRefines
<1>2. CASE Govern
  BY <1>2, GovernRefines
<1>3. CASE Deploying \/ Crash \/ Rerun \/ StartIndexing \/ IndexBlock \/ UNCHANGED vars
  BY <1>3, DeployingListsNothing, NothingListed
<1>. QED
  BY <1>1, <1>2, <1>3 DEF Next

LEMMA InitRefines ==
    ASSUME Init
    PROVE  Listing!Init
<1>1. market = NoContracts
  BY DEF Init
<1>2. \A s \in Symbols : ~Listed(s) /\ ~IsCollateral(s)
  BY <1>1, NothingThere DEF Listed, IsCollateral
<1>3. RiskAdmins = {}
  BY <1>1, NothingThere DEF RiskAdmins
<1>. QED
  BY <1>2, <1>3 DEF Listing!Init

\* The scripts, crashes and repetitions included, and the changes by the owner, implement
\* the listing of a market: nothing is configured before all is listed or by a helper that
\* is not trusted, and the trust ends only when there is nothing left to configure.
THEOREM ListingIsImplemented == Spec => ListingImplemented
<1>1. Init => Listing!Init
  BY InitRefines
<1>2. IInv /\ [Next]_vars => [Listing!Next]_(Listing!listing)
  BY NextRefines
<1>. QED
  BY <1>1, <1>2, DeploymentInvariant, PTL DEF Spec, ListingImplemented, Listing!Spec

-------------------------------------------------------------------------------
(* Who is a risk admin: nobody but the helper that is recorded.            *)

Helper == "ReservesSetupHelper"

CanBeTrusted == IsRecorded(Helper) /\ IsSet("ACL_MANAGER")

HelperRole == <<Component("ACL_MANAGER"), "RISK_ADMIN", Recorded(Helper)>>

OwnerDecides == HasRole(market, Component("ACL_MANAGER"), "DEFAULT_ADMIN", Deployer)

\* What grants the role or takes it back is about the helper.
IsAboutHelper(tx) ==
    tx.call \in {"addRiskAdmin", "removeRiskAdmin"} =>
        CanBeTrusted /\ tx.on = Component("ACL_MANAGER") /\ tx.with = Recorded(Helper)

AdminsOK == RiskAdmins # {} => CanBeTrusted /\ OwnerDecides /\ RiskAdmins = {HelperRole}

QueueTrusts == \A i \in DOMAIN mempool : IsAboutHelper(mempool[i].tx)

RolesOK == AdminsOK /\ QueueTrusts

LEMMA HelperKept ==
    ASSUME Forward, CanBeTrusted
    PROVE  /\ CanBeTrusted' /\ HelperRole' = HelperRole
           /\ Component("ACL_MANAGER")' = Component("ACL_MANAGER")
           /\ Recorded(Helper)' = Recorded(Helper)
           /\ OwnerDecides => OwnerDecides'
<1>1. IsSet("ACL_MANAGER")' /\ Component("ACL_MANAGER")' = Component("ACL_MANAGER")
  BY ComponentKept DEF CanBeTrusted
<1>2. IsRecorded(Helper)' /\ Recorded(Helper)' = Recorded(Helper)
  BY RecordedKept DEF CanBeTrusted
<1>3. OwnerDecides => OwnerDecides'
  <2>. DEFINE r == <<Component("ACL_MANAGER"), "DEFAULT_ADMIN", Deployer>>
  <2>1. r[2] # "RISK_ADMIN"
    OBVIOUS
  <2>2. r \in market.roles => r \in market'.roles
    BY <2>1 DEF Forward
  <2>. QED
    BY <1>1, <2>2 DEF OwnerDecides, HasRole
<1>. QED
  BY <1>1, <1>2, <1>3 DEF CanBeTrusted, HelperRole

LEMMA AboutHelperKept ==
    ASSUME Forward, NEW tx, IsAboutHelper(tx)
    PROVE  IsAboutHelper(tx)'
BY HelperKept DEF IsAboutHelper

LEMMA AdminsKept ==
    ASSUME Forward, AdminsOK, RiskAdmins' = RiskAdmins
    PROVE  AdminsOK'
BY HelperKept DEF AdminsOK

LEMMA QueueTrustsKept ==
    ASSUME Forward, QueueTrusts,
           \A i \in DOMAIN mempool' : \E j \in DOMAIN mempool : mempool'[i].tx = mempool[j].tx
    PROVE  QueueTrusts'
<1>1. ASSUME NEW i \in DOMAIN mempool'
      PROVE  \A u : u = mempool'[i].tx => IsAboutHelper(u)'
  BY AboutHelperKept DEF QueueTrusts
<1>. QED
  BY <1>1 DEF QueueTrusts

-------------------------------------------------------------------------------
(* The calls that grant the role and take it back.                         *)

LEMMA TrustCalls ==
    ASSUME NEW c, IsContracts(c), ~c.reverted, NEW tx, tx.call \in {"addRiskAdmin", "removeRiskAdmin"}
    PROVE  LET d == Executed(c, tx)
               role == <<tx.on, "RISK_ADMIN", tx.with>>
           IN  /\ d.reverted <=> ~HasRole(c, tx.on, "DEFAULT_ADMIN", Deployer)
               /\ tx.call = "addRiskAdmin" => d.roles = c.roles \cup {role}
               /\ tx.call = "removeRiskAdmin" => d.roles = c.roles \ {role}
<1>. DEFINE d == Executed(c, tx)
            role == <<tx.on, "RISK_ADMIN", tx.with>>
            allowed == HasRole(c, tx.on, "DEFAULT_ADMIN", Deployer)
            e == Checked(c, allowed)
<1>1. DOMAIN c = Fields /\ c.reverted \in BOOLEAN
  BY ContractsAre
<1>2. allowed \in BOOLEAN
  BY DEF HasRole
<1>3. /\ tx.call = "addRiskAdmin" => d = [e EXCEPT !.roles = @ \cup {role}]
      /\ tx.call = "removeRiskAdmin" => d = [e EXCEPT !.roles = @ \ {role}]
  BY ExecutedCalls DEF grantRole, revokeRole
<1>. HIDE DEF allowed, role, d
<1>4. DOMAIN e = Fields /\ (e.reverted <=> ~allowed) /\ e.roles = c.roles
  BY <1>1, <1>2, FieldsAre DEF Checked
<1>. HIDE DEF e
<1>5. /\ d.reverted <=> ~allowed
      /\ tx.call = "addRiskAdmin" => d.roles = c.roles \cup {role}
      /\ tx.call = "removeRiskAdmin" => d.roles = c.roles \ {role}
  BY <1>3, <1>4, FieldsAre
<1>. QED
  BY <1>5 DEF d, role, allowed

\* Mined, such a call fails if the owner may not decide, and else does what it says.
LEMMA TrustMined ==
    ASSUME NEW tx, MinesHead(tx), IsAboutHelper(tx), tx.call \in {"addRiskAdmin", "removeRiskAdmin"}
    PROVE  /\ ~OwnerDecides => market' = market
           /\ OwnerDecides =>
                 /\ tx.call = "addRiskAdmin" => market'.roles = market.roles \cup {HelperRole}
                 /\ tx.call = "removeRiskAdmin" => market'.roles = market.roles \ {HelperRole}
<1>. DEFINE d == Executed(market, tx)
<1>1. IsContracts(market) /\ ~market.reverted
  BY DEF MinesHead, IInv, WorldOK
<1>2. tx.on = Component("ACL_MANAGER") /\ <<tx.on, "RISK_ADMIN", tx.with>> = HelperRole
  BY DEF IsAboutHelper, HelperRole
<1>3. /\ d.reverted <=> ~OwnerDecides
      /\ tx.call = "addRiskAdmin" => d.roles = market.roles \cup {HelperRole}
      /\ tx.call = "removeRiskAdmin" => d.roles = market.roles \ {HelperRole}
  BY <1>1, <1>2, TrustCalls DEF OwnerDecides
<1>4. IsContracts(d)
  <2>1. Effects(market, d, tx)
    BY <1>1, RoleEffects
  <2>. QED
    BY <2>1 DEF Effects, EffectOnContracts
<1>5. IF d.reverted THEN market' = market ELSE market' = Settled(d)
  BY DEF MinesHead
<1>. HIDE DEF d
<1>6. ~d.reverted => market'.roles = d.roles
  BY <1>4, <1>5, SettledSame, FieldsAre
<1>. QED
  BY <1>3, <1>5, <1>6

LEMMA RevokingRevokes ==
    ASSUME NEW tx, MinesHead(tx), RolesOK, tx.call = "removeRiskAdmin"
    PROVE  RiskAdmins' = {}
<1>1. IsAboutHelper(tx)
  BY HeadIs DEF RolesOK, QueueTrusts
<1>2. RiskAdmins # {} => OwnerDecides /\ RiskAdmins = {HelperRole}
  BY DEF RolesOK, AdminsOK
<1>3. ~OwnerDecides => market' = market
  BY <1>1, TrustMined
<1>4. OwnerDecides => market'.roles = market.roles \ {HelperRole}
  BY <1>1, TrustMined
<1>. QED
  BY <1>2, <1>3, <1>4 DEF RiskAdmins

LEMMA MineRoles ==
    ASSUME NEW tx, MinesHead(tx), RolesOK
    PROVE  RolesOK'
<1>1. Forward /\ AdminsOK /\ QueueTrusts
  BY HeadForward DEF RolesOK
<1>2. QueueTrusts'
  <2>1. \A i \in DOMAIN mempool' : \E j \in DOMAIN mempool : mempool'[i].tx = mempool[j].tx
    BY HeadIs
  <2>. QED
    BY <1>1, <2>1, QueueTrustsKept
<1>3. IsAboutHelper(tx)
  BY <1>1, HeadIs DEF QueueTrusts
<1>. SUFFICES AdminsOK'
  BY <1>2 DEF RolesOK
<1>4. CASE tx.call = "removeRiskAdmin"
  BY <1>4, RevokingRevokes DEF AdminsOK
<1>5. CASE tx.call = "addRiskAdmin"
  <2>1. CASE ~OwnerDecides
    <3>1. RiskAdmins' = RiskAdmins
      BY <1>3, <1>5, <2>1, TrustMined DEF RiskAdmins
    <3>. QED
      BY <1>1, <3>1, AdminsKept
  <2>2. CASE OwnerDecides
    <3>1. market'.roles = market.roles \cup {HelperRole}
      BY <1>3, <1>5, <2>2, TrustMined
    <3>2. HelperRole[2] = "RISK_ADMIN"
      BY DEF HelperRole
    <3>3. RiskAdmins' = {HelperRole}
      BY <1>1, <3>1, <3>2 DEF RiskAdmins, AdminsOK
    <3>4. CanBeTrusted
      BY <1>3, <1>5 DEF IsAboutHelper
    <3>. QED
      BY <1>1, <2>2, <3>3, <3>4, HelperKept DEF AdminsOK
  <2>. QED
    BY <2>1, <2>2
<1>6. CASE tx.call \notin {"addRiskAdmin", "removeRiskAdmin"}
  <2>1. RiskAdmins' = RiskAdmins
    <3>1. CASE Executed(market, tx).reverted
      BY <3>1 DEF MinesHead, RiskAdmins
    <3>2. CASE ~Executed(market, tx).reverted
      BY <1>6, <3>2, HeadMined, MinedTrust
    <3>. QED
      BY <3>1, <3>2
  <2>. QED
    BY <1>1, <2>1, AdminsKept
<1>. QED
  BY <1>4, <1>5, <1>6

-------------------------------------------------------------------------------
(* The other steps.                                                        *)

LEMMA SentIsAboutHelper ==
    ASSUME IInv, process.phase = "ready", step.do \in Sends
    PROVE  IsAboutHelper(TransactionOf(step))
<1>. DEFINE t == TransactionOf(step)
<1>1. ~Finished
  BY DEF Finished
<1>2. PICK s : s = step
  <2>1. \E u : u = step
    OBVIOUS
  <2>. QED
    BY <2>1
<1>3. /\ process.pc \in 1..Len(Script) /\ process.pc <= process.pc /\ enacted = 0
      /\ Prepared(s, DOMAIN records, CalledBy(Script, process.pc, {}))
      /\ RecordsOK /\ ProcessOK /\ DoneOK
  BY <1>1, <1>2, StepIs, ScriptFacts DEF IInv
<1>. SUFFICES ASSUME t.call \in {"addRiskAdmin", "removeRiskAdmin"}
              PROVE  CanBeTrusted /\ t.on = Component("ACL_MANAGER") /\ t.with = Recorded(Helper)
  BY DEF IsAboutHelper
<1>4. s.call \in {"addRiskAdmin", "removeRiskAdmin"}
  BY <1>2, TransactionIs
<1>5. /\ s.on = "ACL_MANAGER" /\ "setACLManager" \in CalledBy(Script, process.pc, {})
      /\ s.with = Helper /\ s.with \in DOMAIN records
  BY <1>3, <1>4 DEF Prepared, Helper
<1>6. IsSet("ACL_MANAGER")
  BY <1>3, <1>5, CallsDone
<1>7. t.on = Resolve(s.on) /\ t.with = Resolve(s.with)
  BY <1>2, <1>4, TransactionIs
<1>8. Resolve(s.on) = Component("ACL_MANAGER") /\ Resolve(s.with) = Recorded(Helper)
  BY <1>5, Resolved DEF Reserved, Helper
<1>. QED
  BY <1>5, <1>6, <1>7, <1>8 DEF CanBeTrusted, IsRecorded

LEMMA RolesStay ==
    ASSUME Forward, RolesOK, market' = market, mempool' = mempool
    PROVE  RolesOK'
<1>1. RiskAdmins' = RiskAdmins
  BY DEF RiskAdmins
<1>2. \A i \in DOMAIN mempool' : \E j \in DOMAIN mempool : mempool'[i].tx = mempool[j].tx
  OBVIOUS
<1>. QED
  BY <1>1, <1>2, AdminsKept, QueueTrustsKept DEF RolesOK

LEMMA SendRoles ==
    ASSUME IInv, RolesOK, SendTransaction
    PROVE  RolesOK'
<1>. DEFINE e == [tx |-> TransactionOf(step), awaited |-> Awaited(step)]
<1>1. /\ process.phase = "ready" /\ step.do \in Sends /\ market' = market /\ records' = records
      /\ mempool' = Append(mempool, e)
  BY DEF SendTransaction, Ready
<1>2. IsAboutHelper(e.tx)
  BY <1>1, SentIsAboutHelper
<1>. HIDE DEF e
<1>3. MempoolOK /\ AdminsOK /\ QueueTrusts
  BY DEF IInv, RolesOK
<1>4. Forward
  BY <1>1, <1>3, SentForward
<1>5. /\ IsQueue(mempool) /\ DOMAIN mempool = 1..Len(mempool)
      /\ DOMAIN mempool' = 1..Len(mempool') /\ Len(mempool') = Len(mempool) + 1 /\ Len(mempool) \in Nat
      /\ mempool'[Len(mempool')] = e /\ \A i \in 1..Len(mempool) : mempool'[i] = mempool[i]
  <2>1. IsQueue(mempool)
    BY <1>3 DEF MempoolOK
  <2>. QED
    BY <1>1, <2>1, QueueAppended, QueueIs
<1>6. \A i \in DOMAIN mempool' : i \in DOMAIN mempool \/ i = Len(mempool')
  BY <1>5
<1>7. ASSUME NEW i \in DOMAIN mempool'
      PROVE  \A u : u = mempool'[i].tx => IsAboutHelper(u)'
  <2>1. mempool'[i] = e \/ \E j \in DOMAIN mempool : mempool'[i] = mempool[j]
    BY <1>5, <1>6
  <2>2. \A u : u = mempool'[i].tx => IsAboutHelper(u)
    BY <1>2, <1>3, <2>1 DEF QueueTrusts
  <2>. QED
    BY <1>4, <2>2, AboutHelperKept
<1>8. QueueTrusts'
  BY <1>7 DEF QueueTrusts
<1>9. AdminsOK'
  <2>1. RiskAdmins' = RiskAdmins
    BY <1>1 DEF RiskAdmins
  <2>. QED
    BY <1>3, <1>4, <2>1, AdminsKept
<1>. QED
  BY <1>8, <1>9 DEF RolesOK

LEMMA CrashRoles ==
    ASSUME IInv, RolesOK, Crash
    PROVE  RolesOK'
<1>1. /\ mempool' = [i \in DOMAIN mempool |-> [mempool[i] EXCEPT !.awaited = FALSE]]
      /\ market' = market /\ records' = records
  BY DEF Crash
<1>2. QueueOK /\ AdminsOK /\ QueueTrusts
  BY MempoolSplit DEF IInv, RolesOK
<1>3. DOMAIN mempool' = DOMAIN mempool /\ \A i \in DOMAIN mempool : mempool'[i].tx = mempool[i].tx
  BY <1>1, <1>2 DEF QueueOK
<1>4. \A a : Initialising(a) => Initialising(a)'
  BY <1>1, <1>3 DEF Initialising
<1>5. Forward
  BY <1>1, <1>4, FrameForward
<1>6. RiskAdmins' = RiskAdmins
  BY <1>1 DEF RiskAdmins
<1>. QED
  BY <1>2, <1>3, <1>5, <1>6, AdminsKept, QueueTrustsKept DEF RolesOK

LEMMA GovernedRoles ==
    ASSUME RolesOK, Governed
    PROVE  RolesOK'
<1>1. /\ Component("ACL_MANAGER")' = Component("ACL_MANAGER")
      /\ IsSet("ACL_MANAGER")' = IsSet("ACL_MANAGER") /\ Recorded(Helper)' = Recorded(Helper)
  BY GovernedFrame
<1>2. market'.roles = market.roles /\ records' = records /\ mempool' = mempool
  BY DEF Governed
<1>3. CanBeTrusted' = CanBeTrusted /\ HelperRole' = HelperRole /\ OwnerDecides' = OwnerDecides
  BY <1>1, <1>2 DEF CanBeTrusted, HelperRole, OwnerDecides, HasRole, IsRecorded
<1>4. RiskAdmins' = RiskAdmins
  BY <1>2 DEF RiskAdmins
<1>5. AdminsOK'
  BY <1>3, <1>4 DEF RolesOK, AdminsOK
<1>6. ASSUME NEW tx, IsAboutHelper(tx)
      PROVE  IsAboutHelper(tx)'
  BY <1>1, <1>3, <1>6 DEF IsAboutHelper
<1>7. QueueTrusts'
  BY <1>2, <1>6 DEF RolesOK, QueueTrusts
<1>. QED
  BY <1>5, <1>7 DEF RolesOK

\* Whatever happens, nobody but the recorded helper is a risk admin.
LEMMA NextRoles ==
    ASSUME IInv, RolesOK, [Next]_vars
    PROVE  RolesOK'
<1>1. CASE Mine
  <2>1. \E tx : tx = Head(mempool).tx
    OBVIOUS
  <2>2. PICK tx : tx = Head(mempool).tx
    BY <2>1
  <2>. QED
    BY <1>1, <2>2, MineIs, MineRoles
<1>2. CASE SendTransaction
  BY <1>2, SendRoles
<1>3. CASE Crash
  BY <1>3, CrashRoles
<1>4. CASE Govern
  BY <1>4, GovernKeeps, GovernedRoles
<1>5. CASE Wake \/ SaveProxy
  <2>1. Forward /\ market' = market /\ mempool' = mempool
    BY <1>5, WakeWorld, ProxySaved DEF Wake, SaveProxy
  <2>. QED
    BY <2>1, RolesStay
<1>6. CASE \/ Deploying /\ ~SendTransaction /\ ~Wake /\ ~SaveProxy
           \/ Rerun \/ StartIndexing \/ IndexBlock \/ UNCHANGED vars
  <2>1. market' = market /\ records' = records /\ mempool' = mempool
    BY <1>6 DEF Deploying, Skip, EstimationFails, WakeReverted, LookUp, Plan, Rerun, StartIndexing,
                IndexBlock, vars
  <2>2. \A a : Initialising(a) => Initialising(a)'
    BY <2>1 DEF Initialising
  <2>3. Forward
    BY <2>1, <2>2, FrameForward
  <2>. QED
    BY <2>1, <2>3, RolesStay
<1>. QED
  BY <1>1, <1>2, <1>3, <1>4, <1>5, <1>6 DEF Next, Deploying

-------------------------------------------------------------------------------
(* What is planned fits into one chunk, and is nothing once all is done.   *)

LEMMA FewReserves == Len(ReserveSymbols) <= 6
<1>. DEFINE n == Len(ReserveSymbols)
            names == {"USDT", "DAI", "USDC", "WETH", "WBTC", "BLEND"}
<1>1. DOMAIN ReservesConfig = names
  BY DEF ReservesConfig
<1>2. n \in Nat /\ \A i \in 1..n : ReserveSymbols[i] \in names
  BY <1>1, ReserveSymbolsAssumption
<1>3. \A i, j \in 1..n : ReserveSymbols[i] = ReserveSymbols[j] => i = j
  BY <1>1, ReserveSymbolsAssumption
<1>. SUFFICES ASSUME n > 6 PROVE FALSE
  BY <1>2
<1>4. 1 \in 1..n /\ 2 \in 1..n /\ 3 \in 1..n /\ 4 \in 1..n /\ 5 \in 1..n /\ 6 \in 1..n /\ 7 \in 1..n
  BY <1>2
<1>5. \A i, j \in {1, 2, 3, 4, 5, 6, 7} : i # j => ReserveSymbols[i] # ReserveSymbols[j]
  BY <1>3, <1>4
<1>6. \A i \in {1, 2, 3, 4, 5, 6, 7} : ReserveSymbols[i] \in names
  BY <1>2, <1>4
<1>. QED
  BY <1>5, <1>6, SMTT(60)

LEMMA AmongBounds ==
    ASSUME NEW chosen
    PROVE  /\ Len(Among(chosen)) <= Len(ReserveSymbols)
           /\ Among(chosen) # <<>> => \E s \in Symbols : s \in chosen
<1>1. PICK f : AmongSteps(f, chosen)
  BY AmongUnfolds
<1>. DEFINE n == Len(ReserveSymbols)
            Q(i) == /\ f[i] \in Seq(Symbols) /\ Len(f[i]) <= i
                    /\ f[i] # <<>> => \E s \in Symbols : s \in chosen
            T == {i \in Nat : i <= n => Q(i)}
<1>2. n \in Nat
  BY Reservations
<1>3. 0 \in T
  <2>1. f[0] = <<>>
    BY <1>1 DEF AmongSteps
  <2>2. f[0] \in Seq(Symbols) /\ Len(f[0]) <= 0
    BY <2>1
  <2>. QED
    BY <2>1, <2>2
<1>4. ASSUME NEW m \in Nat, m \in T PROVE m + 1 \in T
  <2>. SUFFICES ASSUME m + 1 <= n PROVE Q(m + 1)
    OBVIOUS
  <2>1. Q(m) /\ m + 1 \in 1..n /\ (m + 1) - 1 = m
    BY <1>2, <1>4
  <2>. DEFINE x == ReserveSymbols[m + 1]
              p == f[m]
              q == f[m + 1]
  <2>2. x \in Symbols
    BY <2>1, Reservations
  <2>3. q = IF x \in chosen THEN Append(p, x) ELSE p
    BY <1>1, <2>1 DEF AmongSteps
  <2>4. p \in Seq(Symbols) /\ Len(p) <= m /\ (p # <<>> => \E s \in Symbols : s \in chosen)
    BY <2>1
  <2>. HIDE DEF p, q, x
  <2>5. q \in Seq(Symbols) /\ Len(q) <= m + 1
    BY <2>2, <2>3, <2>4
  <2>6. q # <<>> => \E s \in Symbols : s \in chosen
    BY <2>2, <2>3, <2>4
  <2>. QED
    BY <2>5, <2>6 DEF q
<1>5. n \in T
  <2>. HIDE DEF T, n
  <2>. QED
    BY <1>2, <1>3, <1>4, InductionOverNat
<1>6. Q(n) /\ Among(chosen) = f[n]
  BY <1>1, <1>2, <1>5 DEF AmongSteps
<1>. HIDE DEF n
<1>. QED
  BY <1>6 DEF n

LEMMA ConfigurationPlanned ==
    /\ ConfigureInputs \in Seq({ConfigureInput(s) : s \in Symbols})
    /\ Len(ConfigureInputs) <= enableChunks
    /\ ConfigureInputs # <<>> => ~AllConfigured
<1>. DEFINE chosen == {s \in Symbols : ~IsCollateral(s)}
            left == Among(chosen)
<1>1. ConfigureInputs = [i \in DOMAIN left |-> ConfigureInput(left[i])]
  BY DEF ConfigureInputs
<1>2. left \in Seq(Symbols) /\ Len(left) <= 6 /\ (left # <<>> => \E s \in Symbols : s \in chosen)
  <2>. HIDE DEF chosen
  <2>1. Len(left) \in Nat /\ left \in Seq(Symbols) /\ Len(left) <= Len(ReserveSymbols)
    BY AmongIs, AmongBounds
  <2>2. left # <<>> => \E s \in Symbols : s \in chosen
    BY AmongBounds
  <2>3. Len(ReserveSymbols) \in Nat
    BY Reservations
  <2>. QED
    BY <2>1, <2>2, <2>3, FewReserves
<1>3. (\E s \in Symbols : s \in chosen) => ~AllConfigured
  BY DEF AllConfigured
<1>. HIDE DEF left, chosen
<1>4. Len(ConfigureInputs) = Len(left)
  <2>1. ConfigureInputs = [i \in 1..Len(left) |-> ConfigureInput(left[i])] /\ Len(left) \in Nat
    BY <1>1, <1>2
  <2>. QED
    BY <2>1
<1>5. ConfigureInputs # <<>> => left # <<>>
  BY <1>1
<1>. QED
  BY <1>2, <1>3, <1>4, <1>5, PlansAre DEF enableChunks

-------------------------------------------------------------------------------
(* The helper is trusted, or about to be, only while there is something    *)
(* left to configure, or while the process is on its way to revoke it.     *)

Trusting == RiskAdmins # {} \/ \E i \in DOMAIN mempool : mempool[i].tx.call = "addRiskAdmin"

Helps == {"configureReserves", "removeRiskAdmin"}

TrustOK == Trusting => ~Finished /\ (~AllConfigured \/ (process.configuring /\ step.call \in Helps))

\* What is in the mempool and not waited for.
QueuedOK ==
    \A i \in DOMAIN mempool :
       mempool[i].awaited \/ mempool[i].tx.call \in {"initialize", "addRiskAdmin"}

TodoOK ==
    step.call \in {"addRiskAdmin", "configureReserves"} =>
       /\ Len(process.todo) <= enableChunks
       /\ process.phase # "mined" /\ process.todo # <<>> => ~AllConfigured

GrantOK == step.call = "addRiskAdmin" /\ process.configuring => process.todo # <<>>

WaitOK ==
    step.call = "configureReserves" /\ process.phase \in {"waiting", "reverted"} =>
       process.todo # <<>>

\* The configuration is mined, and the role was asked for before it.
EmptyOK ==
    /\ process.configuring /\ process.phase = "ready"
    /\ step.call = "removeRiskAdmin" \/ (step.call = "configureReserves" /\ process.todo = <<>>)
    => mempool = <<>>

RevokeOK ==
    step.call = "removeRiskAdmin" =>
       /\ process.phase = "waiting" => Len(mempool) = 1
       /\ process.phase \in {"mined", "reverted"} => RiskAdmins = {}

HelpOK == ~Finished => TodoOK /\ GrantOK /\ WaitOK /\ EmptyOK /\ RevokeOK

HelperOK == TrustOK /\ QueuedOK /\ HelpOK

LEMMA NotHelping ==
    ASSUME Finished' \/ step'.call \notin {"addRiskAdmin", "configureReserves", "removeRiskAdmin"}
    PROVE  HelpOK'
BY DEF HelpOK, TodoOK, GrantOK, WaitOK, EmptyOK, RevokeOK

LEMMA FinishedIsConfigured == IInv /\ Finished /\ enacted = 0 => AllConfigured
BY Deployed

LEMMA NothingLeft ==
    ASSUME IInv', enacted' = 0, Trusting' => ~AllConfigured'
    PROVE  TrustOK'
<1>1. Finished' => AllConfigured'
  <2>1. (IInv /\ Finished /\ enacted = 0 => AllConfigured)'
    BY FinishedIsConfigured, PTL
  <2>. QED
    BY <2>1
<1>. QED
  BY <1>1 DEF TrustOK

LEMMA ConfiguredStays ==
    ASSUME ListingStays
    PROVE  AllConfigured' <=> AllConfigured
BY DEF ListingStays, AllConfigured

LEMMA StepAfter ==
    ASSUME IInv, ~Finished, process'.pc = process.pc + 1,
           process'.phase = IF process.pc = Len(Script) THEN "finished" ELSE "ready"
    PROVE  Finished' \/ (step'.call \in Planning => Follows(step', step))
<1>1. process.pc \in 1..Len(Script) /\ Len(Script) \in Nat
  BY StepIs, ScriptFacts
<1>2. CASE process.pc = Len(Script)
  BY <1>2 DEF Finished
<1>3. CASE process.pc # Len(Script)
  <2>1. process'.pc \in 1..Len(Script) /\ process'.pc - 1 = process.pc
    BY <1>1, <1>3, OneNext
  <2>2. Script[process'.pc].call \in Planning => Follows(Script[process'.pc], Script[process'.pc - 1])
    BY <2>1, FollowsBehind
  <2>. QED
    BY <2>1, <2>2 DEF step
<1>. QED
  BY <1>2, <1>3

\* The process goes on, and nothing else changes.
LEMMA OnlyGoesOn ==
    ASSUME IInv, IInv', HelperOK, ~Finished, enacted' = 0, mempool' = mempool, ListingStays,
           RiskAdmins' = RiskAdmins, Trusting => ~AllConfigured,
           Finished' \/ step'.call \notin {"addRiskAdmin", "configureReserves", "removeRiskAdmin"}
    PROVE  HelperOK'
<1>1. Trusting' => ~AllConfigured'
  BY ConfiguredStays DEF Trusting
<1>2. TrustOK' /\ HelpOK'
  BY <1>1, NothingLeft, NotHelping
<1>3. QueuedOK'
  BY DEF HelperOK, QueuedOK
<1>. QED
  BY <1>2, <1>3 DEF HelperOK

LEMMA RestartHelps ==
    ASSUME IInv, IInv', HelperOK, ~Finished, UNCHANGED Elsewhere, process' \in {Start, Failed},
           Trusting => ~AllConfigured
    PROVE  HelperOK'
<1>1. step' = Script[1]
  BY StartIs DEF step
<1>2. step'.call \notin {"addRiskAdmin", "configureReserves", "removeRiskAdmin"}
  BY <1>1, FirstNotPlanned DEF Planning
<1>3. ListingStays /\ RiskAdmins' = RiskAdmins
  BY QuietStep DEF Elsewhere, RiskAdmins
<1>4. enacted' = 0 /\ mempool' = mempool
  BY StepIs DEF Elsewhere
<1>. QED
  BY <1>2, <1>3, <1>4, OnlyGoesOn

\* What the process knows when it is ready for a call that it has yet to make.
LEMMA SkipHelps ==
    ASSUME IInv, IInv', HelperOK, Skip
    PROVE  HelperOK'
<1>1. /\ process.phase = "ready" /\ step.do \in Sends /\ AlreadyDone(step)
      /\ process' = Advanced(process) /\ UNCHANGED Elsewhere
  BY DEF Skip, Ready, Elsewhere
<1>2. ~Finished
  BY <1>1 DEF Finished
<1>3. WellFormed(step) /\ DOMAIN process = DOMAIN Start /\ enacted = 0 /\ process.pc \in 1..Len(Script)
  BY <1>2, StepIs
<1>4. /\ process'.pc = process.pc + 1 /\ process'.todo = process.todo
      /\ process'.configuring = process.configuring
      /\ process'.phase = IF process.pc = Len(Script) THEN "finished" ELSE "ready"
  BY <1>1, <1>3, AdvancedIs
<1>5. /\ ListingStays /\ RiskAdmins' = RiskAdmins /\ mempool' = mempool /\ enacted' = 0
      /\ (Trusting' <=> Trusting) /\ QueuedOK'
  BY <1>1, <1>3, QuietStep DEF Elsewhere, RiskAdmins, Trusting, HelperOK, QueuedOK
<1>6. AllConfigured' <=> AllConfigured
  BY <1>5, ConfiguredStays
<1>7. step.do \notin {"planListing", "planConfiguration"}
  BY <1>1 DEF Sends
<1>8. Finished' \/ (step'.call \in Planning => Follows(step', step))
  BY <1>2, <1>4, StepAfter
<1>9. \/ Finished' \/ step'.call \notin {"addRiskAdmin", "configureReserves", "removeRiskAdmin"}
      \/ step'.call = "configureReserves" /\ step.call = "addRiskAdmin"
      \/ step'.call = "removeRiskAdmin" /\ step.call = "configureReserves"
  BY <1>7, <1>8 DEF Planning, Follows
<1>10. step.call \in {"addRiskAdmin", "removeRiskAdmin"} => ~process.configuring /\ AllConfigured /\ ~Trusting
  <2>1. step.call \in {"addRiskAdmin", "removeRiskAdmin"} => ~process.configuring
    BY <1>1, DoneBefore
  <2>2. step.call \in {"addRiskAdmin", "removeRiskAdmin"} => process.configuring \/ AllConfigured
    BY <1>2 DEF IInv, PlanOK
  <2>. QED
    BY <2>1, <2>2 DEF HelperOK, TrustOK
<1>11. CASE step.call = "configureReserves"
  <2>1. process.todo = <<>>
    BY <1>1, <1>11, DoneBefore DEF InChunks
  <2>2. process.pc < Len(Script) /\ Script[process.pc + 1].call = "removeRiskAdmin"
    <3>1. InOrder(Script, process.pc, {})
      BY <1>3, ScriptFacts
    <3>. QED
      BY <1>11, <3>1 DEF InOrder, step
  <2>3. step'.call = "removeRiskAdmin" /\ process'.phase = "ready" /\ ~Finished'
    BY <1>3, <1>4, <2>2, ScriptFacts DEF step, Finished
  <2>4. process.configuring => mempool = <<>>
    BY <1>1, <1>2, <1>11, <2>1 DEF HelperOK, HelpOK, EmptyOK
  <2>5. HelpOK'
    BY <1>4, <1>5, <2>3, <2>4 DEF HelpOK, TodoOK, GrantOK, WaitOK, EmptyOK, RevokeOK
  <2>6. TrustOK'
    BY <1>4, <1>5, <1>6, <1>11, <2>3 DEF HelperOK, TrustOK, Helps
  <2>. QED
    BY <1>5, <2>5, <2>6 DEF HelperOK
<1>12. CASE step.call = "addRiskAdmin" /\ ~Finished' /\ step'.call = "configureReserves"
  <2>1. ~Trusting' /\ process'.phase = "ready" /\ ~process'.configuring
    BY <1>4, <1>5, <1>10, <1>12 DEF Finished
  <2>2. TrustOK'
    BY <2>1 DEF TrustOK
  <2>3. TodoOK
    BY <1>2 DEF HelperOK, HelpOK
  <2>4. HelpOK'
    BY <1>1, <1>4, <1>6, <1>12, <2>1, <2>3 DEF HelpOK, TodoOK, GrantOK, WaitOK, EmptyOK, RevokeOK
  <2>. QED
    BY <1>5, <2>2, <2>4 DEF HelperOK
<1>13. CASE /\ step.call # "configureReserves"
            /\ Finished' \/ step'.call \notin {"addRiskAdmin", "configureReserves", "removeRiskAdmin"}
  <2>1. Trusting => ~AllConfigured
    BY <1>10, <1>13 DEF HelperOK, TrustOK, Helps
  <2>. QED
    BY <1>2, <1>5, <1>13, <2>1, OnlyGoesOn
<1>. QED
  BY <1>9, <1>11, <1>12, <1>13

LEMMA AdvanceHelps ==
    ASSUME IInv, IInv', HelperOK, ~Finished, process' = Advanced(process), mempool' = mempool,
           ListingStays, RiskAdmins' = RiskAdmins, enacted' = enacted,
           step.do # "planConfiguration", step.call \notin {"addRiskAdmin", "configureReserves"},
           Trusting => ~AllConfigured
    PROVE  HelperOK'
<1>1. WellFormed(step) /\ DOMAIN process = DOMAIN Start /\ enacted = 0
  BY StepIs
<1>2. /\ process'.pc = process.pc + 1
      /\ process'.phase = IF process.pc = Len(Script) THEN "finished" ELSE "ready"
  BY <1>1, AdvancedIs
<1>3. Finished' \/ (step'.call \in Planning => Follows(step', step))
  BY <1>2, StepAfter
<1>4. Finished' \/ step'.call \notin {"addRiskAdmin", "configureReserves", "removeRiskAdmin"}
  BY <1>3 DEF Planning, Follows
<1>. QED
  BY <1>1, <1>4, OnlyGoesOn

LEMMA LookUpHelps ==
    ASSUME IInv, IInv', HelperOK, LookUp
    PROVE  HelperOK'
<1>1. /\ process.phase = "ready" /\ step.do \in {"get", "check"} /\ UNCHANGED Elsewhere
      /\ process' \in {Advanced(process), Failed}
  BY DEF LookUp, Ready, Elsewhere, Continue
<1>2. ~Finished
  BY <1>1 DEF Finished
<1>3. step.call = ""
  BY <1>1, <1>2, StepIs DEF WellFormed, Sends
<1>4. Trusting => ~AllConfigured
  BY <1>3 DEF HelperOK, TrustOK, Helps
<1>5. /\ ListingStays /\ RiskAdmins' = RiskAdmins /\ mempool' = mempool /\ enacted' = enacted
  BY <1>1, QuietStep DEF Elsewhere, RiskAdmins
<1>. QED
  BY <1>1, <1>2, <1>3, <1>4, <1>5, RestartHelps, AdvanceHelps

LEMMA SaveProxyHelps ==
    ASSUME IInv, IInv', HelperOK, SaveProxy
    PROVE  HelperOK'
<1>1. /\ ~Finished /\ step.call = "" /\ step.do = "save"
      /\ process' = Advanced(process) /\ mempool' = mempool /\ market' = market /\ enacted' = enacted
  BY ProxySaved DEF SaveProxy
<1>2. Trusting => ~AllConfigured
  BY <1>1 DEF HelperOK, TrustOK, Helps
<1>3. ListingStays /\ RiskAdmins' = RiskAdmins
  BY <1>1, DeployingListsNothing DEF Deploying, RiskAdmins
<1>. QED
  BY <1>1, <1>2, <1>3, AdvanceHelps

LEMMA RerunHelps ==
    ASSUME IInv, IInv', HelperOK, Rerun
    PROVE  HelperOK'
<1>1. process.phase = "failed" /\ process' \in {Start, Failed} /\ UNCHANGED Elsewhere
  BY DEF Rerun, Elsewhere
<1>2. ~Finished
  BY <1>1 DEF Finished
<1>3. step = Script[1]
  BY <1>1, StartIs DEF IInv, ProcessOK, step
<1>4. step.call \notin Helps
  BY <1>3, FirstNotPlanned DEF Planning, Helps
<1>5. Trusting => ~AllConfigured
  BY <1>4 DEF HelperOK, TrustOK
<1>. QED
  BY <1>1, <1>2, <1>5, RestartHelps

-------------------------------------------------------------------------------
(* What is planned, sent, estimated and noticed keeps the helper in check. *)

\* What script 10 plans is what there is left to configure.
LEMMA PlanHelps ==
    ASSUME IInv, IInv', HelperOK, Plan
    PROVE  HelperOK'
<1>. DEFINE todo == IF step.do = "planListing" THEN InitInputs ELSE ConfigureInputs
            more == step.do = "planConfiguration" /\ todo # <<>>
<1>1. /\ process.phase = "ready" /\ step.do \in {"planListing", "planConfiguration"}
      /\ process' = [Advanced(process) EXCEPT !.todo = todo, !.configuring = more]
      /\ UNCHANGED Elsewhere
  BY DEF Plan, Ready, Elsewhere
<1>2. step.do = "planConfiguration" => todo = ConfigureInputs /\ (more => todo # <<>>)
  OBVIOUS
<1>. HIDE DEF todo, more
<1>3. ~Finished
  BY <1>1 DEF Finished
<1>4. enacted = 0 /\ DOMAIN process = DOMAIN Start /\ WellFormed(step)
  BY <1>3, StepIs
<1>5. /\ process'.pc = process.pc + 1
      /\ process'.phase = IF process.pc = Len(Script) THEN "finished" ELSE "ready"
      /\ process'.todo = todo /\ process'.configuring = more
  <2>. DEFINE q == Advanced(process)
  <2>1. /\ DOMAIN q = DOMAIN Start /\ q.pc = process.pc + 1
        /\ q.phase = IF process.pc = Len(Script) THEN "finished" ELSE "ready"
    BY <1>4, AdvancedIs
  <2>2. process' = [q EXCEPT !.todo = todo, !.configuring = more]
    BY <1>1
  <2>. HIDE DEF q
  <2>. QED
    BY <2>1, <2>2, StartIs
<1>6. step.call = ""
  BY <1>1, <1>4 DEF WellFormed, Sends
<1>7. Trusting => ~AllConfigured
  BY <1>6 DEF HelperOK, TrustOK, Helps
<1>8. /\ ListingStays /\ RiskAdmins' = RiskAdmins /\ mempool' = mempool /\ enacted' = 0
      /\ (Trusting' <=> Trusting) /\ QueuedOK'
  BY <1>1, <1>4, QuietStep DEF Elsewhere, RiskAdmins, Trusting, HelperOK, QueuedOK
<1>9. AllConfigured' <=> AllConfigured
  BY <1>8, ConfiguredStays
<1>10. Finished' \/ (step'.call \in Planning => Follows(step', step))
  BY <1>3, <1>5, StepAfter
<1>11. \/ Finished' \/ step'.call \notin {"addRiskAdmin", "configureReserves", "removeRiskAdmin"}
       \/ step'.call = "addRiskAdmin" /\ step.do = "planConfiguration"
  BY <1>6, <1>10 DEF Planning, Follows
<1>12. CASE Finished' \/ step'.call \notin {"addRiskAdmin", "configureReserves", "removeRiskAdmin"}
  BY <1>3, <1>7, <1>8, <1>12, OnlyGoesOn
<1>13. CASE step'.call = "addRiskAdmin" /\ step.do = "planConfiguration"
  <2>1. process'.configuring => process'.todo # <<>>
    BY <1>2, <1>5, <1>13
  <2>2. Len(process'.todo) <= enableChunks /\ (process'.todo # <<>> => ~AllConfigured')
    BY <1>2, <1>5, <1>9, <1>13, ConfigurationPlanned
  <2>3. HelpOK'
    BY <1>13, <2>1, <2>2 DEF HelpOK, TodoOK, GrantOK, WaitOK, EmptyOK, RevokeOK, enableChunks
  <2>4. TrustOK'
    BY <1>7, <1>8, <1>9, NothingLeft
  <2>. QED
    BY <1>8, <2>3, <2>4 DEF HelperOK
<1>. QED
  BY <1>11, <1>12, <1>13

\* Where a script throws, there is something left to configure or nobody is trusted.
LEMMA TrustedNeedsConfiguring ==
    ASSUME IInv, RolesOK, HelperOK, process.phase = "ready", step.do \in Sends, ~AlreadyDone(step),
           NEW view \in {market, Pending}, Executed(view, TransactionOf(step)).reverted
    PROVE  Trusting => ~AllConfigured
<1>1. ~Finished
  BY DEF Finished
<1>2. CASE step.call \notin Helps
  BY <1>2 DEF HelperOK, TrustOK
<1>3. CASE step.call = "configureReserves"
  <2>1. process.todo # <<>>
    BY <1>3, DoneBefore DEF InChunks
  <2>2. TodoOK
    BY <1>1 DEF HelperOK, HelpOK
  <2>. QED
    BY <1>3, <2>1, <2>2 DEF TodoOK
<1>4. CASE step.call = "removeRiskAdmin"
  <2>1. process.configuring
    BY <1>4, DoneBefore
  <2>2. mempool = <<>>
    BY <1>1, <1>4, <2>1 DEF HelperOK, HelpOK, EmptyOK
  <2>3. Len(mempool) = 0
    BY <2>2
  <2>4. Pending = market
    <3>1. Len(mempool) \in Nat
      BY <2>3
    <3>2. PICK f : PendingSteps(f)
      BY <3>1, PendingUnfolds
    <3>. QED
      BY <2>3, <3>2 DEF PendingSteps
  <2>5. view = market
    BY <2>4
  <2>6. PICK tx : tx = TransactionOf(step)
    <3>1. \E u : u = TransactionOf(step)
      OBVIOUS
    <3>. QED
      BY <3>1
  <2>7. IsAboutHelper(tx)
    BY <2>6, SentIsAboutHelper
  <2>8. tx.call = "removeRiskAdmin"
    BY <1>4, <2>6, TransactionIs
  <2>9. tx.on = Component("ACL_MANAGER")
    BY <2>7, <2>8 DEF IsAboutHelper
  <2>10. IsContracts(market) /\ ~market.reverted
    BY DEF IInv, WorldOK
  <2>11. ~HasRole(market, tx.on, "DEFAULT_ADMIN", Deployer)
    <3>1. Executed(market, tx).reverted
      BY <2>5, <2>6
    <3>2. Executed(market, tx).reverted <=> ~HasRole(market, tx.on, "DEFAULT_ADMIN", Deployer)
      BY <2>8, <2>10, TrustCalls
    <3>. QED
      BY <3>1, <3>2
  <2>12. RiskAdmins = {}
    BY <2>9, <2>11 DEF RolesOK, AdminsOK, OwnerDecides
  <2>13. ~Trusting
    BY <2>2, <2>12 DEF Trusting
  <2>. QED
    BY <2>13
<1>. QED
  BY <1>2, <1>3, <1>4 DEF Helps

LEMMA EstimationFailsHelps ==
    ASSUME IInv, IInv', RolesOK, HelperOK, EstimationFails
    PROVE  HelperOK'
<1>1. /\ process.phase = "ready" /\ step.do \in Sends /\ ~AlreadyDone(step)
      /\ Continue(Tolerant(step)) /\ UNCHANGED Elsewhere
      /\ \E view \in {market, Pending} : Executed(view, TransactionOf(step)).reverted
  BY DEF EstimationFails, Ready, Elsewhere
<1>2. ~Finished
  BY <1>1 DEF Finished
<1>3. Trusting => ~AllConfigured
  BY <1>1, TrustedNeedsConfiguring
<1>4. CASE ~Tolerant(step)
  <2>1. process' = Failed
    BY <1>1, <1>4 DEF Continue
  <2>. QED
    BY <1>1, <1>2, <1>3, <2>1, RestartHelps
<1>5. CASE Tolerant(step)
  <2>1. process' = Advanced(process)
    BY <1>1, <1>5 DEF Continue
  <2>2. step.call = "initialize" /\ step.do # "planConfiguration"
    BY <1>2, <1>5, StepIs DEF WellFormed, Tolerant
  <2>3. ListingStays /\ RiskAdmins' = RiskAdmins /\ mempool' = mempool /\ enacted' = enacted
    BY <1>1, QuietStep DEF Elsewhere, RiskAdmins
  <2>. QED
    BY <1>2, <1>3, <2>1, <2>2, <2>3, AdvanceHelps
<1>. QED
  BY <1>4, <1>5

LEMMA WakeRevertedHelps ==
    ASSUME IInv, IInv', HelperOK, WakeReverted
    PROVE  HelperOK'
<1>1. process.phase = "reverted" /\ Continue(Tolerant(step)) /\ UNCHANGED Elsewhere
  BY DEF WakeReverted, Elsewhere
<1>2. ~Finished /\ mempool = <<>>
  BY <1>1 DEF Finished, IInv, MempoolOK
<1>3. Trusting => ~AllConfigured
  <2>1. CASE step.call \notin Helps
    BY <2>1 DEF HelperOK, TrustOK
  <2>2. CASE step.call = "configureReserves"
    BY <1>1, <1>2, <2>2 DEF HelperOK, HelpOK, WaitOK, TodoOK
  <2>3. CASE step.call = "removeRiskAdmin"
    <3>1. RiskAdmins = {}
      BY <1>1, <1>2, <2>3 DEF HelperOK, HelpOK, RevokeOK
    <3>. QED
      BY <1>2, <3>1 DEF Trusting
  <2>. QED
    BY <2>1, <2>2, <2>3 DEF Helps
<1>4. CASE ~Tolerant(step)
  <2>1. process' = Failed
    BY <1>1, <1>4 DEF Continue
  <2>. QED
    BY <1>1, <1>2, <1>3, <2>1, RestartHelps
<1>5. CASE Tolerant(step)
  <2>1. process' = Advanced(process)
    BY <1>1, <1>5 DEF Continue
  <2>2. step.call = "initialize" /\ step.do # "planConfiguration"
    BY <1>2, <1>5, StepIs DEF WellFormed, Tolerant
  <2>3. ListingStays /\ RiskAdmins' = RiskAdmins /\ mempool' = mempool /\ enacted' = enacted
    BY <1>1, QuietStep DEF Elsewhere, RiskAdmins
  <2>. QED
    BY <1>2, <1>3, <2>1, <2>2, <2>3, AdvanceHelps
<1>. QED
  BY <1>4, <1>5

\* What a step sends, and what the process is about to do then.
LEMMA SendHelps ==
    ASSUME IInv, IInv', HelperOK, SendTransaction
    PROVE  HelperOK'
<1>. DEFINE t == TransactionOf(step)
            e == [tx |-> t, awaited |-> Awaited(step)]
<1>1. /\ process.phase = "ready" /\ step.do \in Sends /\ ~AlreadyDone(step) /\ Len(mempool) < MaxPending
      /\ market' = market /\ records' = records /\ enacted' = enacted /\ mempool' = Append(mempool, e)
      /\ process' = IF Awaited(step) THEN [process EXCEPT !.phase = "waiting"] ELSE Advanced(process)
  BY DEF SendTransaction, Ready
<1>2. ~Finished
  BY <1>1 DEF Finished
<1>3. enacted' = 0 /\ DOMAIN process = DOMAIN Start /\ WellFormed(step) /\ MempoolOK
  BY <1>1, <1>2, StepIs DEF IInv
<1>4. TransactionOK(t) /\ Awaited(step) \in BOOLEAN /\ t.call = step.call
  <2>1. TransactionOK(TransactionOf(step))
    BY <1>1, SentOK
  <2>2. TransactionOf(step).call = step.call
    BY TransactionIs
  <2>. QED
    BY <2>1, <2>2 DEF Awaited
<1>. HIDE DEF t
<1>5. Forward
  <2>. HIDE DEF e
  <2>. QED
    BY <1>1, <1>3, SentForward
<1>6. /\ Len(mempool') = Len(mempool) + 1 /\ mempool'[Len(mempool')].tx = t
      /\ mempool'[Len(mempool')].awaited = Awaited(step)
      /\ \A i \in DOMAIN mempool' : i \in DOMAIN mempool \/ i = Len(mempool')
      /\ \A i \in DOMAIN mempool : mempool'[i] = mempool[i]
  BY <1>1, <1>4, <1>5, QueueSent
<1>. HIDE DEF e
<1>7. ListingStays /\ RiskAdmins' = RiskAdmins
  BY <1>1, QuietStep DEF RiskAdmins
<1>8. AllConfigured' <=> AllConfigured
  BY <1>7, ConfiguredStays
<1>9. step.call # "addRiskAdmin" => (Trusting' => Trusting)
  BY <1>4, <1>6, <1>7 DEF Trusting
<1>10. step.call = "configureReserves" => process.todo # <<>>
  BY <1>1, DoneBefore DEF InChunks
<1>11. step.call \in {"addRiskAdmin", "removeRiskAdmin"} => process.configuring
  BY <1>1, DoneBefore
<1>12. TodoOK /\ GrantOK /\ EmptyOK /\ TrustOK /\ QueuedOK
  BY <1>2 DEF HelperOK, HelpOK
<1>13. CASE Awaited(step)
  <2>1. /\ process'.phase = "waiting" /\ process'.pc = process.pc /\ process'.todo = process.todo
        /\ process'.configuring = process.configuring
    BY <1>1, <1>3, <1>13, StartIs
  <2>2. step' = step /\ ~Finished'
    BY <2>1 DEF step, Finished
  <2>3. step.call # "addRiskAdmin"
    BY <1>3, <1>13 DEF WellFormed, Awaited
  <2>4. TrustOK'
    BY <1>2, <1>8, <1>9, <1>12, <2>1, <2>2, <2>3 DEF TrustOK
  <2>5. QueuedOK'
    BY <1>6, <1>12, <1>13 DEF QueuedOK
  <2>6. TodoOK' /\ GrantOK' /\ WaitOK' /\ EmptyOK'
    BY <1>1, <1>8, <1>10, <1>12, <2>1, <2>2, <2>3 DEF TodoOK, GrantOK, WaitOK, EmptyOK, enableChunks
  <2>7. step.call = "removeRiskAdmin" => Len(mempool') = 1
    <3>. SUFFICES ASSUME step.call = "removeRiskAdmin" PROVE Len(mempool') = 1
      OBVIOUS
    <3>1. mempool = <<>>
      BY <1>1, <1>11, <1>12 DEF EmptyOK
    <3>2. Len(mempool) = 0
      BY <3>1
    <3>. QED
      BY <1>6, <3>2
  <2>8. RevokeOK'
    BY <2>1, <2>2, <2>7 DEF RevokeOK
  <2>. QED
    BY <2>4, <2>5, <2>6, <2>8 DEF HelperOK, HelpOK
<1>14. CASE ~Awaited(step)
  <2>1. /\ process'.pc = process.pc + 1 /\ process'.todo = process.todo
        /\ process'.phase = IF process.pc = Len(Script) THEN "finished" ELSE "ready"
    BY <1>1, <1>3, <1>14, AdvancedIs
  <2>2. step.call \in {"initialize", "addRiskAdmin"} /\ step.do # "planConfiguration"
    BY <1>1, <1>3, <1>14 DEF WellFormed, Awaited, Sends, Tolerant
  <2>3. QueuedOK'
    BY <1>4, <1>6, <1>12, <2>2 DEF QueuedOK
  <2>4. Finished' \/ (step'.call \in Planning => Follows(step', step))
    BY <1>2, <2>1, StepAfter
  <2>5. \/ Finished' \/ step'.call \notin {"addRiskAdmin", "configureReserves", "removeRiskAdmin"}
        \/ step'.call = "configureReserves" /\ step.call = "addRiskAdmin"
    BY <2>2, <2>4 DEF Planning, Follows
  <2>6. step.call = "addRiskAdmin" => process.todo # <<>> /\ ~AllConfigured
    BY <1>1, <1>11, <1>12 DEF GrantOK, TodoOK
  <2>7. step.call = "initialize" => (Trusting' => ~AllConfigured)
    BY <1>9, <1>12 DEF TrustOK, Helps
  <2>8. TrustOK'
    BY <1>3, <1>8, <2>2, <2>6, <2>7, NothingLeft
  <2>9. HelpOK'
    <3>1. CASE Finished' \/ step'.call \notin {"addRiskAdmin", "configureReserves", "removeRiskAdmin"}
      BY <3>1, NotHelping
    <3>2. CASE step'.call = "configureReserves" /\ step.call = "addRiskAdmin" /\ ~Finished'
      <4>1. process'.phase = "ready"
        BY <2>1, <3>2 DEF Finished
      <4>. QED
        BY <1>8, <1>12, <2>1, <2>6, <3>2, <4>1
           DEF HelpOK, TodoOK, GrantOK, WaitOK, EmptyOK, RevokeOK, enableChunks
    <3>. QED
      BY <2>5, <3>1, <3>2
  <2>. QED
    BY <2>3, <2>8, <2>9 DEF HelperOK
<1>. QED
  BY <1>13, <1>14

LEMMA WakeHelps ==
    ASSUME IInv, IInv', HelperOK, Wake
    PROVE  HelperOK'
<1>. DEFINE size == IF step.call = "initReserves" THEN initChunks ELSE enableChunks
            rest == AfterChunk(process.todo, size)
<1>1. /\ process.phase = "mined" /\ market' = market /\ mempool' = mempool /\ enacted' = enacted
      /\ process' = IF step.call \in {"initReserves", "configureReserves"}
                    THEN [process EXCEPT !.phase = "ready", !.todo = rest] ELSE Advanced(process)
  BY DEF Wake
<1>2. /\ ~Finished /\ enacted = 0 /\ mempool = <<>> /\ Awaited(step) /\ step.call # "addRiskAdmin"
      /\ step.do # "planConfiguration"
  BY <1>1, MinedIs
<1>3. ListingStays /\ RiskAdmins' = RiskAdmins
  BY <1>1, DeployingListsNothing DEF Deploying, RiskAdmins
<1>4. DOMAIN process = DOMAIN Start
  BY <1>2, StepIs
<1>. HIDE DEF rest
<1>5. CASE step.call \in {"initReserves", "configureReserves"}
  <2>1. /\ process'.phase = "ready" /\ process'.todo = rest /\ process'.pc = process.pc
        /\ process'.configuring = process.configuring
    BY <1>1, <1>4, <1>5, StartIs
  <2>2. step' = step /\ ~Finished'
    BY <2>1 DEF step, Finished
  <2>3. AllConfigured' <=> AllConfigured
    BY <1>3, ConfiguredStays
  <2>4. TrustOK'
    <3>1. Trusting' <=> Trusting
      BY <1>1, <1>3 DEF Trusting
    <3>. QED
      BY <1>2, <2>1, <2>2, <2>3, <3>1 DEF HelperOK, TrustOK
  <2>5. QueuedOK'
    BY <1>1 DEF HelperOK, QueuedOK
  <2>6. step.call = "configureReserves" => rest = <<>>
    <3>. SUFFICES ASSUME step.call = "configureReserves" PROVE rest = <<>>
      OBVIOUS
    <3>1. Len(process.todo) <= enableChunks
      BY <1>2 DEF HelperOK, HelpOK, TodoOK
    <3>2. rest = AfterChunk(process.todo, enableChunks)
      BY DEF rest
    <3>. QED
      BY <3>1, <3>2 DEF AfterChunk, enableChunks
  <2>7. HelpOK'
    <3>1. CASE step.call = "initReserves"
      BY <2>2, <3>1, NotHelping
    <3>2. CASE step.call = "configureReserves"
      <4>1. process'.todo = <<>> /\ mempool' = <<>> /\ Len(process'.todo) = 0
        BY <1>1, <1>2, <2>1, <2>6, <3>2
      <4>. QED
        BY <2>1, <2>2, <3>2, <4>1
           DEF HelpOK, TodoOK, GrantOK, WaitOK, EmptyOK, RevokeOK, enableChunks
    <3>. QED
      BY <1>5, <3>1, <3>2
  <2>. QED
    BY <2>4, <2>5, <2>7 DEF HelperOK
<1>6. CASE step.call \notin {"initReserves", "configureReserves"}
  <2>1. Trusting => ~AllConfigured
    <3>1. CASE step.call = "removeRiskAdmin"
      <4>1. RiskAdmins = {}
        BY <1>1, <1>2, <3>1 DEF HelperOK, HelpOK, RevokeOK
      <4>. QED
        BY <1>2, <4>1 DEF Trusting
    <3>2. CASE step.call # "removeRiskAdmin"
      BY <1>6, <3>2 DEF HelperOK, TrustOK, Helps
    <3>. QED
      BY <3>1, <3>2
  <2>. QED
    BY <1>1, <1>2, <1>3, <1>6, <2>1, AdvanceHelps
<1>. QED
  BY <1>5, <1>6

-------------------------------------------------------------------------------
(* What is mined keeps the helper in check.                                *)

LEMMA MinedConfigures ==
    ASSUME NEW tx, MinesHead(tx), tx.call # "configureReserves"
    PROVE  AllConfigured' => AllConfigured
<1>1. WorldOK /\ enacted = 0 /\ records' = records
  BY HeadIs DEF MinesHead, IInv
<1>2. CASE Executed(market, tx).reverted
  <2>1. market' = market
    BY <1>2 DEF MinesHead
  <2>. QED
    BY <1>1, <2>1, QuietStep, ConfiguredStays
<1>3. CASE ~Executed(market, tx).reverted
  <2>1. MinedOne(tx)
    BY <1>3, HeadMined
  <2>2. CASE tx.call = "initReserves"
    BY <1>1, <2>1, <2>2, ListingConfiguresNothing DEF AllConfigured
  <2>3. CASE tx.call # "initReserves"
    BY <1>1, <2>1, <2>3, OthersListNothing, ConfiguredStays DEF InChunks
  <2>. QED
    BY <2>2, <2>3
<1>. QED
  BY <1>2, <1>3

LEMMA MinedTrusts ==
    ASSUME NEW tx, MinesHead(tx)
    PROVE  Trusting' => Trusting
<1>1. /\ tx = mempool[1].tx /\ 1 \in DOMAIN mempool
      /\ \A i \in DOMAIN mempool' : mempool'[i] = mempool[i + 1] /\ i + 1 \in DOMAIN mempool
  BY HeadIs
<1>2. CASE tx.call = "addRiskAdmin"
  BY <1>1, <1>2 DEF Trusting
<1>3. CASE tx.call # "addRiskAdmin"
  <2>1. RiskAdmins' \subseteq RiskAdmins
    <3>1. Executed(market, tx).reverted => RiskAdmins' = RiskAdmins
      BY DEF MinesHead, RiskAdmins
    <3>2. ~Executed(market, tx).reverted => RiskAdmins' \subseteq RiskAdmins
      BY <1>3, HeadMined, MinedTrust
    <3>. QED
      BY <3>1, <3>2
  <2>. QED
    BY <1>1, <2>1 DEF Trusting
<1>. QED
  BY <1>2, <1>3

\* What the process does not wait for.
LEMMA UnnoticedHelps ==
    ASSUME NEW tx, MinesHead(tx), HelperOK, ~Head(mempool).awaited
    PROVE  HelperOK'
<1>1. /\ ~Finished /\ process.phase \notin {"mined", "reverted", "finished"}
      /\ tx = mempool[1].tx /\ Head(mempool) = mempool[1] /\ 1 \in DOMAIN mempool
      /\ \A i \in DOMAIN mempool' : mempool'[i] = mempool[i + 1] /\ i + 1 \in DOMAIN mempool
  BY HeadIs
<1>2. process' = process /\ mempool # <<>> /\ MempoolOK
  BY DEF MinesHead, IInv
<1>3. step' = step /\ ~Finished'
  BY <1>1, <1>2 DEF step, Finished
<1>4. tx.call \in {"initialize", "addRiskAdmin"}
  BY <1>1 DEF HelperOK, QueuedOK
<1>5. AllConfigured' <=> AllConfigured
  BY <1>4, HeadForward, ReservesKept, MinedConfigures
<1>6. TrustOK'
  BY <1>1, <1>2, <1>3, <1>5, MinedTrusts DEF HelperOK, TrustOK
<1>7. QueuedOK'
  BY <1>1 DEF HelperOK, QueuedOK
<1>8. TodoOK' /\ GrantOK' /\ WaitOK'
  BY <1>1, <1>2, <1>3, <1>5 DEF HelperOK, HelpOK, TodoOK, GrantOK, WaitOK, enableChunks
<1>9. EmptyOK'
  <2>1. EmptyOK
    BY <1>1 DEF HelperOK, HelpOK
  <2>. QED
    BY <1>2, <1>3, <2>1 DEF EmptyOK
<1>10. RevokeOK'
  <2>. SUFFICES ASSUME step.call = "removeRiskAdmin", process.phase = "waiting" PROVE FALSE
    BY <1>1, <1>2, <1>3 DEF RevokeOK
  <2>1. Len(mempool) = 1
    BY <1>1 DEF HelperOK, HelpOK, RevokeOK
  <2>2. PICK i \in DOMAIN mempool : mempool[i].awaited
    BY <1>2 DEF MempoolOK
  <2>3. i = 1
    BY <1>2, <2>1, <2>2 DEF MempoolOK
  <2>. QED
    BY <1>1, <2>2, <2>3
<1>. QED
  BY <1>6, <1>7, <1>8, <1>9, <1>10 DEF HelperOK, HelpOK

\* What it waits for: the configuration, the end of the trust, or something else.
LEMMA AnsweredHelps ==
    ASSUME NEW tx, MinesHead(tx), IInv', RolesOK, HelperOK, Head(mempool).awaited
    PROVE  HelperOK'
<1>1. process.phase = "waiting" /\ Awaited(step) /\ mempool' = <<>> /\ tx.call = step.call
  BY AwaitedHead DEF Answered
<1>2. /\ process'.phase = IF Executed(market, tx).reverted THEN "reverted" ELSE "mined"
      /\ process'.todo = process.todo /\ process'.configuring = process.configuring /\ step' = step
  BY WaitingIs
<1>3. ~Finished /\ enacted' = 0 /\ IInv
  BY HeadIs DEF MinesHead
<1>4. process'.phase \in {"reverted", "mined"} /\ ~Finished'
  BY <1>2 DEF Finished
<1>5. step.call # "addRiskAdmin"
  BY <1>1, <1>3, StepIs DEF WellFormed, Awaited
<1>6. QueuedOK' /\ (Trusting' => RiskAdmins' # {})
  <2>1. DOMAIN mempool' = {}
    BY <1>1
  <2>. QED
    BY <2>1 DEF QueuedOK, Trusting
<1>7. GrantOK' /\ EmptyOK'
  BY <1>2, <1>4, <1>5 DEF GrantOK, EmptyOK
<1>8. CASE step.call = "configureReserves"
  <2>1. process.todo # <<>> /\ Len(process.todo) <= enableChunks /\ ~AllConfigured
    BY <1>1, <1>3, <1>8 DEF HelperOK, HelpOK, WaitOK, TodoOK
  <2>2. process.configuring
    BY <1>3, <1>8, <2>1 DEF IInv, PlanOK
  <2>3. TrustOK'
    BY <1>2, <1>4, <1>8, <2>2 DEF TrustOK, Helps
  <2>4. process'.phase = "reverted" => ~AllConfigured'
    <3>. SUFFICES ASSUME process'.phase = "reverted" PROVE ~AllConfigured'
      OBVIOUS
    <3>1. market' = market /\ records' = records
      BY <1>2 DEF MinesHead
    <3>. QED
      BY <2>1, <3>1, QuietStep, ConfiguredStays
  <2>5. TodoOK' /\ WaitOK' /\ RevokeOK'
    BY <1>2, <1>4, <1>8, <2>1, <2>4 DEF TodoOK, WaitOK, RevokeOK, enableChunks
  <2>. QED
    BY <1>6, <1>7, <2>3, <2>5 DEF HelperOK, HelpOK
<1>9. CASE step.call = "removeRiskAdmin"
  <2>1. RiskAdmins' = {}
    BY <1>1, <1>9, RevokingRevokes
  <2>2. TrustOK'
    BY <1>6, <2>1 DEF TrustOK
  <2>3. TodoOK' /\ WaitOK' /\ RevokeOK'
    BY <1>2, <1>4, <1>9, <2>1 DEF TodoOK, WaitOK, RevokeOK
  <2>. QED
    BY <1>6, <1>7, <2>2, <2>3 DEF HelperOK, HelpOK
<1>10. CASE step.call \notin Helps
  <2>1. Trusting' => ~AllConfigured'
    BY <1>1, <1>10, MinedTrusts, MinedConfigures DEF HelperOK, TrustOK, Helps
  <2>2. TrustOK'
    BY <1>3, <2>1, NothingLeft
  <2>3. HelpOK'
    BY <1>2, <1>5, <1>10, NotHelping DEF Helps
  <2>. QED
    BY <1>6, <2>2, <2>3 DEF HelperOK
<1>. QED
  BY <1>8, <1>9, <1>10 DEF Helps

LEMMA MineHelps ==
    ASSUME IInv, IInv', RolesOK, HelperOK, Mine
    PROVE  HelperOK'
<1>1. \E tx : tx = Head(mempool).tx
  OBVIOUS
<1>2. PICK tx : tx = Head(mempool).tx
  BY <1>1
<1>3. MinesHead(tx)
  BY <1>2, MineIs
<1>. QED
  BY <1>3, UnnoticedHelps, AnsweredHelps

\* Once the scripts are through, nobody is trusted any more.
LEMMA AfterwardsHelps ==
    ASSUME HelperOK, Finished, Finished', mempool' = mempool, RiskAdmins' = RiskAdmins
    PROVE  HelperOK'
<1>1. ~Trusting
  BY DEF HelperOK, TrustOK
<1>2. TrustOK'
  BY <1>1 DEF TrustOK, Trusting
<1>3. QueuedOK' /\ HelpOK'
  BY NotHelping DEF HelperOK, QueuedOK
<1>. QED
  BY <1>2, <1>3 DEF HelperOK

LEMMA StutterHelps ==
    ASSUME HelperOK, UNCHANGED vars
    PROVE  HelperOK'
<1>1. /\ market' = market /\ records' = records /\ process' = process /\ mempool' = mempool
  BY DEF vars
<1>2. step' = step /\ (Finished' <=> Finished) /\ RiskAdmins' = RiskAdmins
  BY <1>1 DEF step, Finished, RiskAdmins
<1>3. AllConfigured' <=> AllConfigured
  BY <1>1, QuietStep, ConfiguredStays
<1>4. TrustOK' /\ QueuedOK'
  BY <1>1, <1>2, <1>3 DEF HelperOK, TrustOK, QueuedOK, Trusting
<1>5. HelpOK'
  BY <1>1, <1>2, <1>3
     DEF HelperOK, HelpOK, TodoOK, GrantOK, WaitOK, EmptyOK, RevokeOK, enableChunks
<1>. QED
  BY <1>4, <1>5 DEF HelperOK

LEMMA NextHelps ==
    ASSUME IInv, RolesOK, crashes = 0 => HelperOK, [Next]_vars
    PROVE  crashes' = 0 => HelperOK'
<1>1. IInv'
  BY NextKeeps
<1>2. CASE Crash
  <2>1. crashes' = crashes + 1 /\ crashes \in Nat
    BY <1>2 DEF Crash, IInv, ProcessOK
  <2>. QED
    BY <2>1
<1>3. CASE ~Crash
  <2>1. crashes' = crashes
    <3>1. CASE Govern
      BY <3>1, GovernKeeps DEF Governed
    <3>2. CASE ~Govern
      BY <1>3, <3>2 DEF Next, Deploying, Skip, SendTransaction, EstimationFails, Wake, WakeReverted,
                        LookUp, SaveProxy, Plan, Rerun, Mine, StartIndexing, IndexBlock, vars
    <3>. QED
      BY <3>1, <3>2
  <2>. SUFFICES ASSUME HelperOK PROVE HelperOK'
    BY <2>1
  <2>2. CASE Deploying \/ Rerun
    BY <1>1, <2>2, SkipHelps, SendHelps, EstimationFailsHelps, WakeHelps, WakeRevertedHelps, LookUpHelps,
       SaveProxyHelps, PlanHelps, RerunHelps DEF Deploying
  <2>3. CASE Mine
    BY <1>1, <2>3, MineHelps
  <2>4. CASE Govern
    <3>1. /\ Finished /\ process' = process /\ mempool' = mempool /\ market'.roles = market.roles
      BY <2>4, GovernKeeps DEF Governed
    <3>2. Finished' /\ RiskAdmins' = RiskAdmins
      BY <3>1 DEF Finished, RiskAdmins
    <3>. QED
      BY <3>1, <3>2, AfterwardsHelps
  <2>5. CASE StartIndexing \/ IndexBlock
    <3>1. /\ market' = market /\ process' = process /\ mempool' = mempool
          /\ process.phase = "finished" \/ index.sources # {}
      BY <2>5 DEF StartIndexing, IndexBlock
    <3>2. Finished
      BY <3>1 DEF IInv, ProcessOK, Finished
    <3>3. Finished' /\ RiskAdmins' = RiskAdmins
      BY <3>1, <3>2 DEF Finished, RiskAdmins
    <3>. QED
      BY <3>1, <3>2, <3>3, AfterwardsHelps
  <2>6. CASE UNCHANGED vars
    BY <2>6, StutterHelps
  <2>. QED
    BY <1>3, <2>2, <2>3, <2>4, <2>5, <2>6 DEF Next
<1>. QED
  BY <1>2, <1>3

LEMMA InitHelps ==
    ASSUME Init
    PROVE  RolesOK /\ HelperOK
<1>1. RiskAdmins = {} /\ mempool = <<>> /\ step = Script[1]
  BY NothingThere, StartIs DEF Init, RiskAdmins, step
<1>2. DOMAIN mempool = {}
  BY <1>1
<1>3. ~Trusting
  BY <1>1, <1>2 DEF Trusting
<1>4. step.call \notin Planning
  BY <1>1, FirstNotPlanned
<1>5. HelpOK
  BY <1>4 DEF Planning, HelpOK, TodoOK, GrantOK, WaitOK, EmptyOK, RevokeOK
<1>. QED
  BY <1>1, <1>2, <1>3, <1>5 DEF RolesOK, AdminsOK, QueueTrusts, HelperOK, TrustOK, QueuedOK

-------------------------------------------------------------------------------
(* The helper loses its role.                                              *)

\* Whenever nothing has been killed, the scripts end with nobody holding the role of the
\* helper: however often a script threw, was run again, and what it had sent was mined.
THEOREM HelperRevokedAlways == Spec => []HelperRevoked
<1>. DEFINE HInv == RolesOK /\ (crashes = 0 => HelperOK)
<1>1. Init => HInv
  BY InitHelps
<1>2. IInv /\ HInv /\ [Next]_vars => HInv'
  BY NextRoles, NextHelps
<1>3. HInv => HelperRevoked
  BY DEF HelperRevoked, HelperOK, TrustOK, Trusting
<1>. HIDE DEF HInv
<1>. QED
  BY <1>1, <1>2, <1>3, DeploymentInvariant, PTL DEF Spec

\* Nobody but the helper that is recorded is ever a risk admin of the market, killed or not,
\* and as long as it is one the owner can take the role back.
THEOREM OnlyHelperIsTrusted == Spec => []AdminsOK
<1>1. Init => RolesOK
  BY InitHelps
<1>2. IInv /\ RolesOK /\ [Next]_vars => RolesOK'
  BY NextRoles
<1>3. RolesOK => AdminsOK
  BY DEF RolesOK
<1>. QED
  BY <1>1, <1>2, <1>3, DeploymentInvariant, PTL DEF Spec

===============================================================================
