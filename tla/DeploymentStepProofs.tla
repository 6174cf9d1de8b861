------------------------ MODULE DeploymentStepProofs ------------------------
(***************************************************************************)
(* What a call of a contract does to the contracts of a market, and what   *)
(* each step of the scripts may rely on.                                   *)
(*                                                                         *)
(* The first part gives every call of MarketContracts its effects: what it *)
(* may change, what it leaves alone, and what it has done if it does not   *)
(* revert.  The second part walks through the eleven scripts: a step looks *)
(* up a record or a component only after the steps that write it, and the  *)
(* steps that plan the listing come in one run.                            *)
(***************************************************************************)
EXTENDS MarketDeployment, ArithmeticProofs, SequenceTheorems

-------------------------------------------------------------------------------
(* The contracts.                                                          *)

\* No contract has a higher number than there are contracts of its kind.
Numbered(S) ==
    /\ IsFiniteSet(S) /\ S \subseteq Kinds \X Nat
    /\ \A a \in S : a[2] <= Cardinality({b \in S : b[1] = a[1]})

Data == NewReserveData(NoAddress, NoAddress, NoAddress, NoAddress)

\* What every call of a contract relies on and leaves.
IsContracts(c) ==
    /\ DOMAIN c = DOMAIN NoContracts
    /\ Numbered(c.contracts)
    /\ \A k \in DOMAIN c.slots : k = <<k[1], k[2]>> /\ k[1] \in c.contracts
    /\ \A r \in DOMAIN c.reserves : DOMAIN c.reserves[r] = DOMAIN Data
    /\ c.reverted \in BOOLEAN

\* Nothing has happened to a contract that was just created but in its constructor.
IsNew(c, a) ==
    /\ a \in c.contracts
    /\ \A k \in DOMAIN c.slots : k[1] = a => k[2] \in {"pool", "provider"}
    /\ \A r \in DOMAIN c.reserves : r[2] # a

-------------------------------------------------------------------------------
(* What the scripts send.                                                  *)

OnProvider ==
    {"setPoolDataProvider", "setACLAdmin", "setACLManager", "setPriceOracle", "setPoolImpl",
     "setPoolConfiguratorImpl", "setAddressAsProxy"}

Others ==
    {"create", "initialize", "registerAddressesProvider", "addPoolAdmin", "addEmergencyAdmin",
     "addRiskAdmin", "removeRiskAdmin", "setRewardsController", "updateFlashloanPremiumTotal",
     "updateFlashloanPremiumToProtocol", "initReserves", "configureReserves", "setAssetSources"}

\* What script 10 looks up before it plans.
ListingIds ==
    Symbols \cup {ReservesConfig[s].strategy : s \in Symbols}
        \cup {"BToken", "StableDebtToken", "VariableDebtToken"}

-------------------------------------------------------------------------------
(* What a call changes.                                                    *)

Fields == DOMAIN NoContracts

\* d is c after a call that changes only these fields and may fail.
Changes(c, d, fields) ==
    /\ DOMAIN d = Fields
    /\ \A f \in Fields \ (fields \cup {"log", "reverted"}) : d[f] = c[f]
    /\ d.reverted \in BOOLEAN /\ (c.reverted => d.reverted)

LEMMA FieldsAre ==
    Fields = {"contracts", "initialised", "slots", "sources", "registered", "roles", "reserves",
              "eModes", "premiumTotal", "premiumToProtocol", "bridgeFee", "log", "reverted"}
BY DEF Fields, NoContracts

LEMMA ChangesTrans ==
    ASSUME NEW c, NEW d, NEW e, NEW S, NEW T, Changes(c, d, S), Changes(d, e, T)
    PROVE  Changes(c, e, S \cup T)
BY DEF Changes

LEMMA ChangesMore ==
    ASSUME NEW c, NEW d, NEW S, NEW T, Changes(c, d, S), S \subseteq T
    PROVE  Changes(c, d, T)
BY DEF Changes

LEMMA CheckedChanges ==
    ASSUME NEW c, DOMAIN c = Fields, c.reverted \in BOOLEAN, NEW b \in BOOLEAN
    PROVE  /\ Changes(c, Checked(c, b), {})
           /\ Checked(c, b).reverted = (c.reverted \/ ~b)
BY FieldsAre DEF Changes, Checked

LEMMA EmittedChanges ==
    ASSUME NEW c, DOMAIN c = Fields, c.reverted \in BOOLEAN, NEW e
    PROVE  /\ Changes(c, Emitted(c, e), {})
           /\ Emitted(c, e).reverted = c.reverted
BY FieldsAre DEF Changes, Emitted

LEMMA SetSlotChanges ==
    ASSUME NEW c, DOMAIN c = Fields, c.reverted \in BOOLEAN, NEW x, NEW k, NEW v
    PROVE  /\ Changes(c, SetSlot(c, x, k, v), {"slots"})
           /\ SetSlot(c, x, k, v).reverted = c.reverted
           /\ DOMAIN SetSlot(c, x, k, v).slots = DOMAIN c.slots \cup {<<x, k>>}
           /\ \A y, l : Slot(SetSlot(c, x, k, v), y, l)
                          = IF y = x /\ l = k THEN v ELSE Slot(c, y, l)
BY FieldsAre DEF Changes, SetSlot, Written, Slot

LEMMA CreatedChanges ==
    ASSUME NEW c, DOMAIN c = Fields, c.reverted \in BOOLEAN, NEW a
    PROVE  /\ Changes(c, Created(c, a), {"contracts"})
           /\ Created(c, a).reverted = c.reverted
           /\ Created(c, a).contracts = c.contracts \cup {a}
BY FieldsAre DEF Changes, Created

LEMMA InitializeChanges ==
    ASSUME NEW c, DOMAIN c = Fields, c.reverted \in BOOLEAN, NEW a
    PROVE  /\ Changes(c, initialize(c, a), {"initialised"})
           /\ initialize(c, a).initialised = c.initialised \cup {a}
           /\ initialize(c, a).reverted = (c.reverted \/ a \in c.initialised)
BY FieldsAre DEF Changes, initialize, Checked

\* Slots are read in one field.
LEMMA SlotOfSlots ==
    ASSUME NEW c, NEW d, c.slots = d.slots
    PROVE  \A x, k : Slot(c, x, k) = Slot(d, x, k)
BY DEF Slot

-------------------------------------------------------------------------------
(* Numbering.                                                              *)

LEMMA FreshIsNew ==
    ASSUME NEW c, Numbered(c.contracts), NEW kind \in Kinds
    PROVE  /\ Fresh(c, kind) \notin c.contracts
           /\ Fresh(c, kind) \in Kinds \X Nat /\ Fresh(c, kind)[1] = kind
           /\ Numbered(c.contracts \cup {Fresh(c, kind)})
<1>. DEFINE S == c.contracts
            K(k) == {a \in S : a[1] = k}
            a == Fresh(c, kind)
            T == S \cup {a}
<1>1. \A k : IsFiniteSet(K(k)) /\ Cardinality(K(k)) \in Nat
  BY FS_Subset, FS_CardinalityType DEF Numbered
<1>2. a = <<kind, 1 + Cardinality(K(kind))>>
  BY DEF Fresh
<1>3. a \in Kinds \X Nat /\ a[1] = kind /\ a[2] = 1 + Cardinality(K(kind))
  <2>. HIDE DEF K, a
  <2>1. 1 + Cardinality(K(kind)) \in Nat
    BY <1>1
  <2>. QED
    BY <1>2, <2>1
<1>4. a \notin S
  <2>. SUFFICES ASSUME a \in S PROVE FALSE
    OBVIOUS
  <2>1. a[2] <= Cardinality(K(kind))
    BY <1>3 DEF Numbered
  <2>2. Cardinality(K(kind)) \in Nat
    BY <1>1
  <2>. HIDE DEF K, a
  <2>. QED
    BY <2>1, <2>2, <1>3
<1>5. IsFiniteSet(T) /\ T \subseteq Kinds \X Nat
  BY <1>3, FS_AddElement DEF Numbered
<1>6. ASSUME NEW b \in T PROVE b[2] <= Cardinality({x \in T : x[1] = b[1]})
  <2>1. CASE b[1] = kind
    <3>1. {x \in T : x[1] = b[1]} = K(kind) \cup {a} /\ a \notin K(kind)
      BY <2>1, <1>3, <1>4
    <3>. HIDE DEF K, a
    <3>2. Cardinality(K(kind) \cup {a}) = Cardinality(K(kind)) + 1
      BY <3>1, <1>1, FS_AddElement
    <3>3. b = a \/ b \in S
      OBVIOUS
    <3>4. b \in S => b[2] <= Cardinality(K(kind)) /\ b[2] \in Nat
      BY <2>1 DEF Numbered, K
    <3>5. Cardinality(K(kind)) \in Nat
      BY <1>1
    <3>6. b[2] <= Cardinality(K(kind)) + 1
      BY <3>3, <3>4, <3>5, <1>3
    <3>. QED
      BY <3>1, <3>2, <3>6
  <2>2. CASE b[1] # kind
    <3>1. {x \in T : x[1] = b[1]} = K(b[1]) /\ b \in S
      BY <2>2, <1>3
    <3>. QED
      BY <3>1 DEF Numbered
  <2>. QED
    BY <2>1, <2>2
<1>. QED
  BY <1>3, <1>4, <1>5, <1>6 DEF Numbered

LEMMA ContractsKept ==
    ASSUME NEW c, IsContracts(c), NEW d, NEW S, Changes(c, d, S),
           S \cap {"contracts", "slots", "reserves"} = {}
    PROVE  IsContracts(d)
BY FieldsAre DEF Changes, IsContracts, Fields

LEMMA ContractsAre ==
    ASSUME NEW c, IsContracts(c)
    PROVE  DOMAIN c = Fields /\ c.reverted \in BOOLEAN
BY DEF IsContracts, Fields

LEMMA SlotSetKept ==
    ASSUME NEW c, IsContracts(c), NEW x \in c.contracts, NEW k, NEW v
    PROVE  IsContracts(SetSlot(c, x, k, v))
<1>. DEFINE d == SetSlot(c, x, k, v)
<1>1. Changes(c, d, {"slots"}) /\ DOMAIN d.slots = DOMAIN c.slots \cup {<<x, k>>}
  BY ContractsAre, SetSlotChanges
<1>. HIDE DEF d
<1>2. d.contracts = c.contracts /\ d.reserves = c.reserves
  BY <1>1, FieldsAre DEF Changes
<1>3. DOMAIN d = DOMAIN NoContracts /\ d.reverted \in BOOLEAN
  BY <1>1 DEF Changes, Fields
<1>4. \A l \in DOMAIN c.slots : l = <<l[1], l[2]>> /\ l[1] \in c.contracts
  BY DEF IsContracts
<1>5. \A l \in DOMAIN d.slots : l = <<l[1], l[2]>> /\ l[1] \in c.contracts
  BY <1>1, <1>4
<1>6. Numbered(d.contracts)
  BY <1>2 DEF IsContracts
<1>7. \A r \in DOMAIN d.reserves : DOMAIN d.reserves[r] = DOMAIN Data
  BY <1>2 DEF IsContracts
<1>8. IsContracts(d)
  BY <1>2, <1>3, <1>5, <1>6, <1>7 DEF IsContracts
<1>. QED
  BY <1>8 DEF d

LEMMA CreatedKept ==
    ASSUME NEW c, IsContracts(c), NEW kind \in Kinds
    PROVE  IsContracts(Created(c, Fresh(c, kind)))
<1>. DEFINE a == Fresh(c, kind)
            d == Created(c, a)
<1>1. Changes(c, d, {"contracts"}) /\ d.contracts = c.contracts \cup {a}
  BY ContractsAre, CreatedChanges
<1>2. Numbered(c.contracts \cup {a})
  BY FreshIsNew DEF IsContracts
<1>. HIDE DEF d, a
<1>3. d.slots = c.slots /\ d.reserves = c.reserves
  BY <1>1, FieldsAre DEF Changes
<1>4. DOMAIN d = DOMAIN NoContracts /\ d.reverted \in BOOLEAN
  BY <1>1 DEF Changes, Fields
<1>5. \A k \in DOMAIN d.slots : k = <<k[1], k[2]>> /\ k[1] \in d.contracts
  BY <1>1, <1>3 DEF IsContracts
<1>6. Numbered(d.contracts)
  BY <1>1, <1>2
<1>7. \A r \in DOMAIN d.reserves : DOMAIN d.reserves[r] = DOMAIN Data
  BY <1>3 DEF IsContracts
<1>8. IsContracts(d)
  BY <1>4, <1>5, <1>6, <1>7 DEF IsContracts
<1>. QED
  BY <1>8 DEF d, a

\* A contract that does not exist has no slots.
LEMMA SlotsOfContracts ==
    ASSUME NEW c, IsContracts(c), NEW x, x \notin c.contracts
    PROVE  \A k : Slot(c, x, k) = NoAddress
BY DEF IsContracts, Slot

LEMMA NoContractThere ==
    ASSUME NEW c, IsContracts(c)
    PROVE  NoAddress \notin c.contracts /\ Deployer \notin c.contracts
BY AccountsAssumption DEF IsContracts, Numbered

-------------------------------------------------------------------------------
(* What a transaction does, one part of the contracts after the other.     *)

Setter ==
    [setPoolDataProvider |-> "DATA_PROVIDER", setACLAdmin |-> "ACL_ADMIN",
     setACLManager |-> "ACL_MANAGER", setPriceOracle |-> "PRICE_ORACLE",
     setRewardsController |-> "REWARD_CONTROLLER"]

Proxied ==
    [setPoolImpl |-> "POOL", setPoolConfiguratorImpl |-> "POOL_CONFIGURATOR",
     setAddressAsProxy |-> "REWARD_CONTROLLER"]

Assigns(tx, x, k) ==
    /\ x = tx.on
    /\ \/ tx.call \in DOMAIN Setter /\ k = Setter[tx.call]
       \/ tx.call \in DOMAIN Proxied /\ k = Proxied[tx.call]

EffectOnContracts(c, d, tx) ==
    /\ IsContracts(d)
    /\ c.contracts \subseteq d.contracts /\ c.initialised \subseteq d.initialised
    /\ \A a \in d.initialised \ c.initialised :
           a \notin c.contracts \/ (tx.call = "initialize" /\ a = tx.on)
    /\ c.registered \subseteq d.registered
    /\ tx.call = "create" => Fresh(c, tx.on) \in d.contracts \ c.contracts
    /\ tx.call = "initialize" => tx.on \in d.initialised
    /\ tx.call = "registerAddressesProvider" => <<tx.on, tx.with>> \in d.registered

EffectOnSlots(c, d, tx) ==
    /\ \A x \in c.contracts : \A k :
           Slot(d, x, k) # Slot(c, x, k) => Assigns(tx, x, k)
    /\ tx.call \in DOMAIN Setter => Slot(d, tx.on, Setter[tx.call]) = tx.with
    /\ tx.call \in DOMAIN Proxied =>
           /\ Slot(c, tx.on, Proxied[tx.call]) = NoAddress
           /\ Slot(d, tx.on, Proxied[tx.call]) \in d.initialised \cap (d.contracts \ c.contracts)
    /\ tx.call = "setPoolConfiguratorImpl" =>
           Slot(d, Slot(d, tx.on, "POOL_CONFIGURATOR"), "pool") = Slot(c, tx.on, "POOL")
    /\ tx.call = "create" =>
           \A k \in DOMAIN d.slots : k[1] \notin c.contracts => k[2] \in {"pool", "provider"}

\* Nobody becomes a pool admin but whom addPoolAdmin names.
EffectOnRoles(c, d, tx) ==
    /\ \A r \in c.roles \ d.roles : r[2] = "RISK_ADMIN" /\ tx.call = "removeRiskAdmin"
    /\ \A r \in d.roles \ c.roles :
           /\ r[2] = "RISK_ADMIN" => tx.call = "addRiskAdmin"
           /\ r[2] = "POOL_ADMIN" => tx.call = "addPoolAdmin" /\ r[3] = tx.with

EffectOnSources(c, d, tx) ==
    tx.call # "setAssetSources" =>
        \A o \in c.contracts : \A a : getSourceOfAsset(d, o, a) = getSourceOfAsset(c, o, a)

EffectOnFees(c, d, tx) ==
    IF tx.call = "updateFlashloanPremiumTotal" THEN d.premiumTotal = FlashLoanPremiums.total
                                               ELSE d.premiumTotal = c.premiumTotal

EffectOnReserves(c, d, tx) ==
    tx.call \notin {"initReserves", "configureReserves"} => d.reserves = c.reserves

Effects(c, d, tx) ==
    /\ EffectOnContracts(c, d, tx) /\ EffectOnSlots(c, d, tx) /\ EffectOnRoles(c, d, tx)
    /\ EffectOnSources(c, d, tx) /\ EffectOnFees(c, d, tx) /\ EffectOnReserves(c, d, tx)

LEMMA Callees ==
    /\ DOMAIN Setter = {"setPoolDataProvider", "setACLAdmin", "setACLManager", "setPriceOracle",
                        "setRewardsController"}
    /\ DOMAIN Proxied = {"setPoolImpl", "setPoolConfiguratorImpl", "setAddressAsProxy"}
    /\ Setter["setPoolDataProvider"] = "DATA_PROVIDER" /\ Setter["setACLAdmin"] = "ACL_ADMIN"
    /\ Setter["setACLManager"] = "ACL_MANAGER" /\ Setter["setPriceOracle"] = "PRICE_ORACLE"
    /\ Setter["setRewardsController"] = "REWARD_CONTROLLER"
    /\ Proxied["setPoolImpl"] = "POOL" /\ Proxied["setPoolConfiguratorImpl"] = "POOL_CONFIGURATOR"
    /\ Proxied["setAddressAsProxy"] = "REWARD_CONTROLLER"
BY DEF Setter, Proxied

\* A call has no effect on what it does not write.
LEMMA NoEffects ==
    ASSUME NEW c, IsContracts(c), NEW d, NEW S, Changes(c, d, S), NEW tx
    PROVE  /\ "slots" \notin S /\ tx.call \notin DOMAIN Setter \cup DOMAIN Proxied \cup {"create"} =>
                 EffectOnSlots(c, d, tx)
           /\ "roles" \notin S => EffectOnRoles(c, d, tx)
           /\ "sources" \notin S => EffectOnSources(c, d, tx)
           /\ "premiumTotal" \notin S /\ tx.call # "updateFlashloanPremiumTotal" =>
                 EffectOnFees(c, d, tx)
           /\ "reserves" \notin S => EffectOnReserves(c, d, tx)
           /\ S \cap {"contracts", "slots", "reserves", "initialised", "registered"} = {}
                 /\ tx.call \notin {"create", "initialize", "registerAddressesProvider"} =>
                 EffectOnContracts(c, d, tx)
<1>1. ASSUME "slots" \notin S, tx.call \notin DOMAIN Setter \cup DOMAIN Proxied \cup {"create"}
      PROVE  EffectOnSlots(c, d, tx)
  <2>1. d.slots = c.slots
    BY <1>1, FieldsAre DEF Changes
  <2>2. \A x, k : Slot(c, x, k) = Slot(d, x, k)
    BY <2>1, SlotOfSlots
  <2>. QED
    BY <2>2, <1>1, Callees DEF EffectOnSlots, Assigns
<1>2. ASSUME "roles" \notin S PROVE EffectOnRoles(c, d, tx)
  BY <1>2, FieldsAre DEF Changes, EffectOnRoles
<1>3. ASSUME "sources" \notin S PROVE EffectOnSources(c, d, tx)
  BY <1>3, FieldsAre DEF Changes, EffectOnSources, getSourceOfAsset
<1>4. ASSUME "premiumTotal" \notin S, tx.call # "updateFlashloanPremiumTotal"
      PROVE  EffectOnFees(c, d, tx)
  BY <1>4, FieldsAre DEF Changes, EffectOnFees
<1>5. ASSUME "reserves" \notin S PROVE EffectOnReserves(c, d, tx)
  BY <1>5, FieldsAre DEF Changes, EffectOnReserves
<1>6. ASSUME S \cap {"contracts", "slots", "reserves", "initialised", "registered"} = {},
             tx.call \notin {"create", "initialize", "registerAddressesProvider"}
      PROVE  EffectOnContracts(c, d, tx)
  <2>1. IsContracts(d)
    BY <1>6, ContractsKept
  <2>. QED
    BY <1>6, <2>1, FieldsAre DEF Changes, EffectOnContracts
<1>. QED
  BY <1>1, <1>2, <1>3, <1>4, <1>5, <1>6

LEMMA ExecutedCalls ==
    ASSUME NEW c, NEW tx
    PROVE  /\ tx.call = "create" => Executed(c, tx) = Constructed(c, tx.on, tx.with)
           /\ tx.call = "initialize" => Executed(c, tx) = initialize(c, tx.on)
           /\ tx.call = "registerAddressesProvider" =>
                 Executed(c, tx) = registerAddressesProvider(c, tx.on, tx.with)
           /\ tx.call = "setPoolDataProvider" => Executed(c, tx) = setPoolDataProvider(c, tx.on, tx.with)
           /\ tx.call = "setACLAdmin" => Executed(c, tx) = setACLAdmin(c, tx.on, tx.with)
           /\ tx.call = "setACLManager" => Executed(c, tx) = setACLManager(c, tx.on, tx.with)
           /\ tx.call = "addPoolAdmin" => Executed(c, tx) = grantRole(c, tx.on, "POOL_ADMIN", tx.with)
           /\ tx.call = "addEmergencyAdmin" =>
                 Executed(c, tx) = grantRole(c, tx.on, "EMERGENCY_ADMIN", tx.with)
           /\ tx.call = "addRiskAdmin" => Executed(c, tx) = grantRole(c, tx.on, "RISK_ADMIN", tx.with)
           /\ tx.call = "removeRiskAdmin" =>
                 Executed(c, tx) = revokeRole(c, tx.on, "RISK_ADMIN", tx.with)
           /\ tx.call = "setPriceOracle" => Executed(c, tx) = setPriceOracle(c, tx.on, tx.with)
           /\ tx.call = "setPoolImpl" => Executed(c, tx) = setPoolImpl(c, tx.on, tx.with)
           /\ tx.call = "setPoolConfiguratorImpl" =>
                 Executed(c, tx) = setPoolConfiguratorImpl(c, tx.on, tx.with)
           /\ tx.call = "setAddressAsProxy" =>
                 Executed(c, tx) = setAddressAsProxy(c, tx.on, "REWARD_CONTROLLER", tx.with)
           /\ tx.call = "setRewardsController" =>
                 Executed(c, tx) = SetSlot(c, tx.on, "REWARD_CONTROLLER", tx.with)
           /\ tx.call = "updateFlashloanPremiumTotal" =>
                 Executed(c, tx) = updateFlashloanPremiumTotal(c, tx.on, FlashLoanPremiums.total)
           /\ tx.call = "updateFlashloanPremiumToProtocol" =>
                 Executed(c, tx)
                    = updateFlashloanPremiumToProtocol(c, tx.on, FlashLoanPremiums.protocol)
           /\ tx.call = "initReserves" => Executed(c, tx) = initReserves(c, tx.on, tx.with)
           /\ tx.call = "configureReserves" =>
                 Executed(c, tx) = configureReserves(c, tx.on, tx.with.configurator, tx.with.params)
           /\ tx.call = "setAssetSources" =>
                 Executed(c, tx) = setAssetSources(c, tx.on, tx.with.assets, tx.with.sources)
BY Zenon DEF Executed

LEMMA InitializeEffects ==
    ASSUME NEW c, IsContracts(c), NEW tx, tx.call = "initialize"
    PROVE  Effects(c, Executed(c, tx), tx)
<1>. DEFINE d == Executed(c, tx)
<1>1. d = initialize(c, tx.on)
  BY ExecutedCalls
<1>2. Changes(c, d, {"initialised"}) /\ d.initialised = c.initialised \cup {tx.on}
  BY <1>1, ContractsAre, InitializeChanges
<1>. HIDE DEF d
<1>3. IsContracts(d)
  BY <1>2, ContractsKept
<1>4. EffectOnContracts(c, d, tx)
  BY <1>2, <1>3, FieldsAre DEF Changes, EffectOnContracts
<1>5. Effects(c, d, tx)
  BY <1>2, <1>4, NoEffects, Callees DEF Effects
<1>. QED
  BY <1>5 DEF d

LEMMA RegisterEffects ==
    ASSUME NEW c, IsContracts(c), NEW tx, tx.call = "registerAddressesProvider"
    PROVE  Effects(c, Executed(c, tx), tx)
<1>. DEFINE known == IsRegistered(c, tx.on, tx.with)
            d == Checked(c, ~known)
            e == [d EXCEPT !.registered = @ \cup {<<tx.on, tx.with>>}]
            f == Executed(c, tx)
<1>1. f = Emitted(e, AddressesProviderRegistered(tx.on, tx.with))
  BY ExecutedCalls DEF registerAddressesProvider
<1>2. known \in BOOLEAN
  BY DEF IsRegistered
<1>3. Changes(c, d, {})
  BY <1>2, ContractsAre, CheckedChanges
<1>. HIDE DEF d, known
<1>4. Changes(d, e, {"registered"}) /\ e.registered = d.registered \cup {<<tx.on, tx.with>>}
  BY <1>3, FieldsAre DEF Changes
<1>. HIDE DEF e
<1>5. Changes(e, f, {})
  BY <1>1, <1>4, EmittedChanges DEF Changes
<1>. HIDE DEF f
<1>6. Changes(c, f, {"registered"})
  BY <1>3, <1>4, <1>5, FieldsAre DEF Changes
<1>7. f.registered = c.registered \cup {<<tx.on, tx.with>>}
  BY <1>3, <1>4, <1>5, FieldsAre DEF Changes
<1>8. IsContracts(f)
  BY <1>6, ContractsKept
<1>9. EffectOnContracts(c, f, tx)
  BY <1>6, <1>7, <1>8, FieldsAre DEF Changes, EffectOnContracts
<1>10. Effects(c, f, tx)
  BY <1>6, <1>9, NoEffects, Callees DEF Effects
<1>. QED
  BY <1>10 DEF f

LEMMA SetterEffects ==
    ASSUME NEW c, IsContracts(c), NEW tx, tx.call \in DOMAIN Setter, tx.on \in c.contracts
    PROVE  Effects(c, Executed(c, tx), tx)
<1>. DEFINE k == Setter[tx.call]
            d == SetSlot(c, tx.on, k, tx.with)
            e == Executed(c, tx)
<1>a. IsContracts(d)
  <2>. HIDE DEF k
  <2>. QED
    BY SlotSetKept
<1>b. /\ Changes(c, d, {"slots"})
      /\ \A y, l : Slot(d, y, l) = IF y = tx.on /\ l = k THEN tx.with ELSE Slot(c, y, l)
  <2>. HIDE DEF k
  <2>. QED
    BY ContractsAre, SetSlotChanges
<1>2. Changes(c, d, {"slots"}) /\ DOMAIN d = Fields /\ d.reverted \in BOOLEAN
      /\ (\A y, l : Slot(d, y, l) = IF y = tx.on /\ l = k THEN tx.with ELSE Slot(c, y, l))
      /\ IsContracts(d)
  <2>. HIDE DEF d, k
  <2>. QED
    BY <1>a, <1>b DEF Changes
<1>3. e = d \/ \E x : e = Emitted(d, x)
  BY ExecutedCalls, Callees
     DEF Setter, setPoolDataProvider, setACLAdmin, setACLManager, setPriceOracle
<1>. HIDE DEF d, e, k
<1>4. Changes(d, e, {})
  <2>1. CASE e = d
    BY <2>1, <1>2 DEF Changes
  <2>2. ASSUME NEW x, e = Emitted(d, x) PROVE Changes(d, e, {})
    BY <2>2, <1>2, EmittedChanges
  <2>. QED
    BY <1>3, <2>1, <2>2
<1>5. Changes(c, e, {"slots"}) /\ e.slots = d.slots
  BY <1>2, <1>4, FieldsAre DEF Changes
<1>6. \A y, l : Slot(e, y, l) = IF y = tx.on /\ l = k THEN tx.with ELSE Slot(c, y, l)
  BY <1>2, <1>5, SlotOfSlots
<1>7. tx.call \notin DOMAIN Proxied \cup {"create", "setPoolConfiguratorImpl"} /\ k = Setter[tx.call]
  BY Callees DEF k
<1>8. EffectOnSlots(c, e, tx)
  BY <1>6, <1>7 DEF EffectOnSlots, Assigns
<1>9. IsContracts(e)
  BY <1>2, <1>4, ContractsKept
<1>10. EffectOnContracts(c, e, tx)
  BY <1>5, <1>9, <1>7, Callees, FieldsAre DEF Changes, EffectOnContracts
<1>11. Effects(c, e, tx)
  BY <1>5, <1>8, <1>10, NoEffects, Callees DEF Effects
<1>. QED
  BY <1>11 DEF e

LEMMA RoleEffects ==
    ASSUME NEW c, IsContracts(c), NEW tx,
           tx.call \in {"addPoolAdmin", "addEmergencyAdmin", "addRiskAdmin", "removeRiskAdmin"}
    PROVE  Effects(c, Executed(c, tx), tx)
<1>. DEFINE allowed == HasRole(c, tx.on, "DEFAULT_ADMIN", Deployer)
            d == Checked(c, allowed)
            e == Executed(c, tx)
<1>1. allowed \in BOOLEAN
  BY DEF HasRole
<1>2. Changes(c, d, {})
  BY <1>1, ContractsAre, CheckedChanges
<1>3. \E role \in {"POOL_ADMIN", "EMERGENCY_ADMIN", "RISK_ADMIN"} :
        /\ e = [d EXCEPT !.roles = @ \cup {<<tx.on, role, tx.with>>}]
        /\ role = "RISK_ADMIN" => tx.call = "addRiskAdmin"
        /\ role = "POOL_ADMIN" => tx.call = "addPoolAdmin"
      \/ /\ e = [d EXCEPT !.roles = @ \ {<<tx.on, role, tx.with>>}]
         /\ role = "RISK_ADMIN" /\ tx.call = "removeRiskAdmin"
  BY ExecutedCalls DEF grantRole, revokeRole
<1>. HIDE DEF d, e, allowed
<1>4. Changes(d, e, {"roles"})
  BY <1>2, <1>3, FieldsAre DEF Changes
<1>5. EffectOnRoles(d, e, tx)
  BY <1>2, <1>3, FieldsAre DEF Changes, EffectOnRoles
<1>6. c.roles = d.roles /\ Changes(c, e, {"roles"})
  BY <1>2, <1>4, FieldsAre DEF Changes
<1>7. EffectOnRoles(c, e, tx)
  BY <1>5, <1>6 DEF EffectOnRoles
<1>8. Effects(c, e, tx)
  BY <1>6, <1>7, NoEffects, Callees DEF Effects
<1>. QED
  BY <1>8 DEF e

\* The provider creates a proxy for a component, once.
ProxyCreates(c, d, p, id) ==
    LET proxy == Fresh(c, id)
    IN  /\ IsContracts(d) /\ proxy \notin c.contracts /\ Slot(c, p, id) = NoAddress
        /\ Changes(c, d, {"contracts", "slots", "initialised"})
        /\ d.contracts = c.contracts \cup {proxy} /\ d.initialised = c.initialised \cup {proxy}
        /\ \A y, l : Slot(d, y, l) = IF y = p /\ l = id THEN proxy ELSE Slot(c, y, l)

LEMMA UpdateImplCreates ==
    ASSUME NEW c, IsContracts(c), NEW p \in c.contracts, NEW id \in Kinds, NEW impl
    PROVE  /\ DOMAIN updateImpl(c, p, id, impl) = Fields
           /\ updateImpl(c, p, id, impl).reverted \in BOOLEAN
           /\ ~updateImpl(c, p, id, impl).reverted => ProxyCreates(c, updateImpl(c, p, id, impl), p, id)
<1>. DEFINE d == updateImpl(c, p, id, impl)
            proxy == Fresh(c, id)
            e1 == Created(c, proxy)
            e2 == SetSlot(e1, p, id, proxy)
            e3 == initialize(e2, proxy)
            event == ProxyCreated(p, id, proxy)
<1>1. CASE Slot(c, p, id) # NoAddress
  <2>1. d = Checked(c, FALSE)
    BY <1>1 DEF updateImpl
  <2>2. Changes(c, d, {}) /\ d.reverted
    BY <2>1, ContractsAre, CheckedChanges
  <2>. HIDE DEF d
  <2>3. DOMAIN d = Fields /\ d.reverted \in BOOLEAN /\ d.reverted
    BY <2>2 DEF Changes
  <2>. QED
    BY <2>3 DEF d
<1>2. CASE Slot(c, p, id) = NoAddress
  <2>1. d = Emitted(e3, event)
    BY <1>2 DEF updateImpl
  <2>2. proxy \notin c.contracts
    BY FreshIsNew DEF IsContracts
  <2>. HIDE DEF proxy
  <2>3. Changes(c, e1, {"contracts"}) /\ e1.contracts = c.contracts \cup {proxy} /\ IsContracts(e1)
    BY ContractsAre, CreatedChanges, CreatedKept DEF proxy
  <2>. HIDE DEF e1
  <2>4. p \in e1.contracts
    BY <2>3
  <2>5. IsContracts(e2)
    BY <2>3, <2>4, SlotSetKept
  <2>6. Changes(e1, e2, {"slots"})
        /\ \A y, l : Slot(e2, y, l) = IF y = p /\ l = id THEN proxy ELSE Slot(e1, y, l)
    BY <2>3, ContractsAre, SetSlotChanges
  <2>. HIDE DEF e2
  <2>7. Changes(e2, e3, {"initialised"}) /\ e3.initialised = e2.initialised \cup {proxy}
    BY <2>5, ContractsAre, InitializeChanges
  <2>. HIDE DEF e3, event
  <2>8. IsContracts(e3)
    BY <2>5, <2>7, ContractsKept
  <2>9. Changes(e3, d, {})
    BY <2>1, <2>8, ContractsAre, EmittedChanges
  <2>. HIDE DEF d
  <2>10. IsContracts(d)
    BY <2>8, <2>9, ContractsKept
  <2>11. c.slots = e1.slots /\ d.slots = e2.slots
    BY <2>3, <2>7, <2>9, FieldsAre DEF Changes
  <2>12. \A y, l : Slot(d, y, l) = IF y = p /\ l = id THEN proxy ELSE Slot(c, y, l)
    BY <2>6, <2>11, SlotOfSlots
  <2>13. Changes(c, d, {"contracts", "slots", "initialised"})
    BY <2>3, <2>6, <2>7, <2>9 DEF Changes
  <2>14. d.contracts = c.contracts \cup {proxy} /\ d.initialised = c.initialised \cup {proxy}
    BY <2>3, <2>6, <2>7, <2>9, FieldsAre DEF Changes
  <2>15. ProxyCreates(c, d, p, id)
    BY <1>2, <2>2, <2>10, <2>12, <2>13, <2>14 DEF ProxyCreates, proxy
  <2>16. DOMAIN d = Fields /\ d.reverted \in BOOLEAN
    BY <2>10, ContractsAre
  <2>. QED
    BY <2>15, <2>16 DEF d
<1>. QED
  BY <1>1, <1>2

LEMMA ProxyKinds == {"POOL", "POOL_CONFIGURATOR", "REWARD_CONTROLLER", "BTokenProxy",
                     "StableDebtTokenProxy", "VariableDebtTokenProxy"} \subseteq Kinds
BY DEF Kinds

\* What all calls that create a proxy have in common.
LEMMA ProxyEffects ==
    ASSUME NEW c, IsContracts(c), NEW tx, tx.call \in DOMAIN Proxied, tx.on \in c.contracts,
           NEW d, ProxyCreates(c, d, tx.on, Proxied[tx.call]),
           NEW e, IsContracts(e), Changes(d, e, {"slots"}),
           \A x \in c.contracts : \A k : Slot(e, x, k) = Slot(d, x, k),
           tx.call = "setPoolConfiguratorImpl" =>
              Slot(e, Slot(e, tx.on, "POOL_CONFIGURATOR"), "pool") = Slot(c, tx.on, "POOL")
    PROVE  Effects(c, e, tx)
<1>. DEFINE id == Proxied[tx.call]
            proxy == Fresh(c, id)
<1>1. /\ IsContracts(d) /\ proxy \notin c.contracts /\ Slot(c, tx.on, id) = NoAddress
      /\ Changes(c, d, {"contracts", "slots", "initialised"})
      /\ d.contracts = c.contracts \cup {proxy} /\ d.initialised = c.initialised \cup {proxy}
      /\ \A y, l : Slot(d, y, l) = IF y = tx.on /\ l = id THEN proxy ELSE Slot(c, y, l)
  BY DEF ProxyCreates
<1>. HIDE DEF proxy, id
<1>2. Changes(c, e, {"contracts", "slots", "initialised"})
  BY <1>1, FieldsAre DEF Changes
<1>3. e.contracts = c.contracts \cup {proxy} /\ e.initialised = c.initialised \cup {proxy}
      /\ e.registered = c.registered
  BY <1>1, FieldsAre DEF Changes
<1>4. tx.call \notin DOMAIN Setter
      /\ tx.call \notin {"create", "initialize", "registerAddressesProvider", "addPoolAdmin",
                         "addRiskAdmin", "removeRiskAdmin", "updateFlashloanPremiumTotal"}
  BY Callees
<1>5. EffectOnContracts(c, e, tx)
  BY <1>1, <1>3, <1>4 DEF EffectOnContracts
<1>6. Slot(e, tx.on, id) = proxy
  BY <1>1
<1>7. EffectOnSlots(c, e, tx)
  <2>1. ASSUME NEW x \in c.contracts, NEW k, Slot(e, x, k) # Slot(c, x, k) PROVE Assigns(tx, x, k)
    BY <1>1, <2>1 DEF Assigns, id
  <2>2. /\ Slot(c, tx.on, Proxied[tx.call]) = NoAddress
        /\ Slot(e, tx.on, Proxied[tx.call]) \in e.initialised \cap (e.contracts \ c.contracts)
    BY <1>1, <1>3, <1>6 DEF id
  <2>. QED
    BY <2>1, <2>2, <1>4 DEF EffectOnSlots
<1>. QED
  BY <1>2, <1>4, <1>5, <1>7, NoEffects DEF Effects

LEMMA ProxiedEffects ==
    ASSUME NEW c, IsContracts(c), NEW tx, tx.call \in DOMAIN Proxied, tx.on \in c.contracts,
           ~Executed(c, tx).reverted
    PROVE  Effects(c, Executed(c, tx), tx)
<1>. DEFINE id == Proxied[tx.call]
            d == updateImpl(c, tx.on, id, tx.with)
            e == Executed(c, tx)
<1>1. id \in Kinds
  BY Callees, ProxyKinds
<1>2. DOMAIN d = Fields /\ d.reverted \in BOOLEAN
      /\ (~d.reverted => ProxyCreates(c, d, tx.on, id))
  <2>. HIDE DEF id
  <2>. QED
    BY <1>1, UpdateImplCreates
<1>3. CASE tx.call = "setAddressAsProxy"
  <2>1. e = d
    BY <1>3, ExecutedCalls, Callees DEF setAddressAsProxy
  <2>. HIDE DEF d, e
  <2>2. ProxyCreates(c, e, tx.on, id) /\ IsContracts(e) /\ Changes(e, e, {"slots"})
    BY <1>2, <2>1 DEF ProxyCreates, Changes, e
  <2>3. Effects(c, e, tx)
    BY <2>2, <1>3, ProxyEffects
  <2>. QED
    BY <2>3 DEF e
<1>4. CASE tx.call = "setPoolImpl"
  <2>1. e = Emitted(d, PoolUpdated(tx.on, tx.with))
    BY <1>4, ExecutedCalls, Callees DEF setPoolImpl
  <2>. HIDE DEF d
  <2>2. Changes(d, e, {}) /\ e.reverted = d.reverted
    BY <1>2, <2>1, EmittedChanges
  <2>. HIDE DEF e
  <2>3. ~e.reverted
    BY DEF e
  <2>4. ProxyCreates(c, d, tx.on, id) /\ IsContracts(d)
    BY <1>2, <2>2, <2>3 DEF ProxyCreates
  <2>5. Changes(d, e, {"slots"}) /\ e.slots = d.slots
    BY <2>2, FieldsAre DEF Changes
  <2>a. IsContracts(e)
    BY <2>2, <2>4, ContractsKept
  <2>6. \A x, k : Slot(e, x, k) = Slot(d, x, k)
    BY <2>5, SlotOfSlots
  <2>7. Effects(c, e, tx)
    BY <2>4, <2>5, <2>a, <2>6, <1>4, ProxyEffects
  <2>. QED
    BY <2>7 DEF e
<1>5. CASE tx.call = "setPoolConfiguratorImpl"
  <2>. DEFINE proxy == Slot(d, tx.on, "POOL_CONFIGURATOR")
              pool == Slot(c, tx.on, "POOL")
              e1 == SetSlot(d, proxy, "provider", tx.on)
              e2 == SetSlot(e1, proxy, "pool", pool)
              event == PoolConfiguratorUpdated(tx.on, tx.with)
  <2>1. e = Emitted(e2, event) /\ id = "POOL_CONFIGURATOR"
    BY <1>5, ExecutedCalls, Callees DEF setPoolConfiguratorImpl
  <2>. HIDE DEF d, proxy, event, id, pool
  <2>2. Changes(d, e1, {"slots"})
        /\ \A y, l : Slot(e1, y, l) = IF y = proxy /\ l = "provider" THEN tx.on ELSE Slot(d, y, l)
    BY <1>2, SetSlotChanges
  <2>. HIDE DEF e1
  <2>3. Changes(e1, e2, {"slots"})
        /\ \A y, l : Slot(e2, y, l) = IF y = proxy /\ l = "pool" THEN pool ELSE Slot(e1, y, l)
    BY <2>2, SetSlotChanges DEF Changes
  <2>. HIDE DEF e2
  <2>4. Changes(e2, e, {})
    BY <2>1, <2>3, EmittedChanges DEF Changes
  <2>. HIDE DEF e
  <2>5. ~e.reverted
    BY DEF e
  <2>6. ~d.reverted
    BY <2>2, <2>3, <2>4, <2>5 DEF Changes
  <2>7. ProxyCreates(c, d, tx.on, id) /\ IsContracts(d)
    BY <1>2, <2>6 DEF ProxyCreates
  <2>8. proxy \in d.contracts /\ proxy \notin c.contracts
    BY <2>7, <2>1 DEF ProxyCreates, proxy
  <2>9. IsContracts(e1)
    BY <2>7, <2>8, SlotSetKept DEF e1
  <2>10. proxy \in e1.contracts
    BY <2>8, <2>2, FieldsAre DEF Changes
  <2>11. IsContracts(e2)
    BY <2>9, <2>10, SlotSetKept DEF e2
  <2>a. IsContracts(e)
    BY <2>11, <2>4, ContractsKept
  <2>b. e.slots = e2.slots
    BY <2>4, FieldsAre DEF Changes
  <2>12. IsContracts(e) /\ e.slots = e2.slots
    BY <2>a, <2>b
  <2>13. Changes(d, e, {"slots"})
    BY <2>2, <2>3, <2>4, FieldsAre DEF Changes
  <2>14. \A y, l : Slot(e, y, l) = Slot(e2, y, l)
    BY <2>12, SlotOfSlots
  <2>15. \A x \in c.contracts : \A k : Slot(e, x, k) = Slot(d, x, k)
    BY <2>14, <2>3, <2>2, <2>8
  <2>16. Slot(e, tx.on, "POOL_CONFIGURATOR") = proxy
    BY <2>15 DEF proxy
  <2>17. Slot(e, proxy, "pool") = Slot(c, tx.on, "POOL")
    BY <2>14, <2>3 DEF pool
  <2>18. ProxyCreates(c, d, tx.on, Proxied[tx.call])
    BY <2>7 DEF id
  <2>19. Effects(c, e, tx)
    BY <2>18, <2>12, <2>13, <2>15, <2>16, <2>17, ProxyEffects
  <2>. QED
    BY <2>19 DEF e
<1>. QED
  BY <1>3, <1>4, <1>5, Callees

-------------------------------------------------------------------------------
(* Calls that repeat the same for each member of a sequence.               *)

SourcesSteps(f, c, feed, assets, sources) ==
    /\ f[0] = OnlyAssetListingOrPoolAdmins(c, feed)
    /\ \A i \in 1..Len(assets) : f[i] = AssetSource(f[i - 1], feed, assets[i], sources[i])
    /\ setAssetSources(c, feed, assets, sources) = f[Len(assets)]

LEMMA SetAssetSourcesUnfolds ==
    ASSUME NEW c, NEW feed, NEW assets, NEW sources, Len(assets) \in Nat
    PROVE  \E f : SourcesSteps(f, c, feed, assets, sources)
<1>. DEFINE start == OnlyAssetListingOrPoolAdmins(c, feed)
            G(x, i) == AssetSource(x, feed, assets[i], sources[i])
            P(f, m) == f = [i \in 0..m |-> IF i = 0 THEN start ELSE G(f[i - 1], i)]
            F == CHOOSE f : P(f, Len(assets))
            T == {m \in Nat : \E f : P(f, m)}
<1>1. setAssetSources(c, feed, assets, sources) = F[Len(assets)]
  BY DEF setAssetSources
<1>2. Len(assets) \in Nat
  OBVIOUS
<1>. HIDE DEF start, G
<1>3. 0 \in T
  <2>1. P([i \in 0..0 |-> start], 0)
    OBVIOUS
  <2>. QED
    BY <2>1
<1>4. ASSUME NEW m \in Nat, m \in T PROVE m + 1 \in T
  <2>1. PICK f : P(f, m)
    BY <1>4
  <2>. DEFINE g == [i \in 0..(m + 1) |-> IF i = m + 1 THEN G(f[m], m + 1) ELSE f[i]]
  <2>2. ASSUME NEW i \in 0..(m + 1)
        PROVE  g[i] = IF i = 0 THEN start ELSE G(g[i - 1], i)
    <3>1. CASE i = m + 1
      <4>1. i # 0 /\ i - 1 = m /\ m \in 0..(m + 1) /\ m # m + 1
        BY <3>1
      <4>. QED
        BY <4>1, <3>1
    <3>2. CASE i # m + 1
      <4>1. i \in 0..m /\ (i # 0 => i - 1 \in 0..m /\ i - 1 \in 0..(m + 1) /\ i - 1 # m + 1)
        BY <3>2
      <4>. QED
        BY <4>1, <3>2, <2>1
    <3>. QED
      BY <3>1, <3>2
  <2>3. P(g, m + 1)
    <3>. HIDE DEF G
    <3>1. g = [i \in 0..(m + 1) |-> g[i]]
      OBVIOUS
    <3>. HIDE DEF g
    <3>. QED
      BY <2>2, <3>1
  <2>4. m + 1 \in Nat
    OBVIOUS
  <2>. QED
    BY <2>3, <2>4
<1>5. \E f : P(f, Len(assets))
  <2>1. Nat \subseteq T
    <3>. HIDE DEF T
    <3>. QED
      BY <1>3, <1>4, InductionOverNat
  <2>. QED
    BY <2>1, <1>2
<1>6. P(F, Len(assets))
  <2>. HIDE DEF P
  <2>. QED
    BY <1>5
<1>7. F[0] = start /\ \A i \in 1..Len(assets) : F[i] = G(F[i - 1], i)
  <2>. HIDE DEF F
  <2>1. \A i \in 0..Len(assets) : F[i] = IF i = 0 THEN start ELSE G(F[i - 1], i)
    BY <1>6
  <2>2. 0 \in 0..Len(assets) /\ \A i \in 1..Len(assets) : i \in 0..Len(assets) /\ i # 0
    BY <1>2
  <2>. QED
    BY <2>1, <2>2
<1>. QED
  BY <1>1, <1>7 DEF start, G, SourcesSteps

ListingSteps(f, c, by, inputs) ==
    /\ f[0] = Checked(c, Allowed(c, Slot(c, by, "provider"),
                                           {"ASSET_LISTING_ADMIN", "POOL_ADMIN"}, Deployer))
    /\ \A i \in 1..Len(inputs) : f[i] = executeInitReserve(f[i - 1], by, inputs[i])
    /\ initReserves(c, by, inputs) = f[Len(inputs)]

LEMMA InitReservesUnfolds ==
    ASSUME NEW c, NEW by, NEW inputs, Len(inputs) \in Nat
    PROVE  \E f : ListingSteps(f, c, by, inputs)
<1>. DEFINE start == Checked(c, Allowed(c, Slot(c, by, "provider"),
                                           {"ASSET_LISTING_ADMIN", "POOL_ADMIN"}, Deployer))
            G(x, i) == executeInitReserve(x, by, inputs[i])
            P(f, m) == f = [i \in 0..m |-> IF i = 0 THEN start ELSE G(f[i - 1], i)]
            F == CHOOSE f : P(f, Len(inputs))
            T == {m \in Nat : \E f : P(f, m)}
<1>1. initReserves(c, by, inputs) = F[Len(inputs)]
  BY DEF initReserves
<1>2. Len(inputs) \in Nat
  OBVIOUS
<1>. HIDE DEF start, G
<1>3. 0 \in T
  <2>1. P([i \in 0..0 |-> start], 0)
    OBVIOUS
  <2>. QED
    BY <2>1
<1>4. ASSUME NEW m \in Nat, m \in T PROVE m + 1 \in T
  <2>1. PICK f : P(f, m)
    BY <1>4
  <2>. DEFINE g == [i \in 0..(m + 1) |-> IF i = m + 1 THEN G(f[m], m + 1) ELSE f[i]]
  <2>2. ASSUME NEW i \in 0..(m + 1)
        PROVE  g[i] = IF i = 0 THEN start ELSE G(g[i - 1], i)
    <3>1. CASE i = m + 1
      <4>1. i # 0 /\ i - 1 = m /\ m \in 0..(m + 1) /\ m # m + 1
        BY <3>1
      <4>. QED
        BY <4>1, <3>1
    <3>2. CASE i # m + 1
      <4>1. i \in 0..m /\ (i # 0 => i - 1 \in 0..m /\ i - 1 \in 0..(m + 1) /\ i - 1 # m + 1)
        BY <3>2
      <4>. QED
        BY <4>1, <3>2, <2>1
    <3>. QED
      BY <3>1, <3>2
  <2>3. P(g, m + 1)
    <3>. HIDE DEF G
    <3>1. g = [i \in 0..(m + 1) |-> g[i]]
      OBVIOUS
    <3>. HIDE DEF g
    <3>. QED
      BY <2>2, <3>1
  <2>4. m + 1 \in Nat
    OBVIOUS
  <2>. QED
    BY <2>3, <2>4
<1>5. \E f : P(f, Len(inputs))
  <2>1. Nat \subseteq T
    <3>. HIDE DEF T
    <3>. QED
      BY <1>3, <1>4, InductionOverNat
  <2>. QED
    BY <2>1, <1>2
<1>6. P(F, Len(inputs))
  <2>. HIDE DEF P
  <2>. QED
    BY <1>5
<1>7. F[0] = start /\ \A i \in 1..Len(inputs) : F[i] = G(F[i - 1], i)
  <2>. HIDE DEF F
  <2>1. \A i \in 0..Len(inputs) : F[i] = IF i = 0 THEN start ELSE G(F[i - 1], i)
    BY <1>6
  <2>2. 0 \in 0..Len(inputs) /\ \A i \in 1..Len(inputs) : i \in 0..Len(inputs) /\ i # 0
    BY <1>2
  <2>. QED
    BY <2>1, <2>2
<1>. QED
  BY <1>1, <1>7 DEF start, G, ListingSteps

ConfigureSteps(f, c, helper, by, params) ==
    /\ f[0] = c
    /\ \A i \in 1..Len(params) : f[i] = ConfigureReserve(f[i - 1], helper, by, params[i])
    /\ configureReserves(c, helper, by, params) = f[Len(params)]

LEMMA ConfigureReservesUnfolds ==
    ASSUME NEW c, NEW helper, NEW by, NEW params, Len(params) \in Nat
    PROVE  \E f : ConfigureSteps(f, c, helper, by, params)
<1>. DEFINE start == c
            G(x, i) == ConfigureReserve(x, helper, by, params[i])
            P(f, m) == f = [i \in 0..m |-> IF i = 0 THEN start ELSE G(f[i - 1], i)]
            F == CHOOSE f : P(f, Len(params))
            T == {m \in Nat : \E f : P(f, m)}
<1>1. configureReserves(c, helper, by, params) = F[Len(params)]
  BY DEF configureReserves
<1>2. Len(params) \in Nat
  OBVIOUS
<1>. HIDE DEF start, G
<1>3. 0 \in T
  <2>1. P([i \in 0..0 |-> start], 0)
    OBVIOUS
  <2>. QED
    BY <2>1
<1>4. ASSUME NEW m \in Nat, m \in T PROVE m + 1 \in T
  <2>1. PICK f : P(f, m)
    BY <1>4
  <2>. DEFINE g == [i \in 0..(m + 1) |-> IF i = m + 1 THEN G(f[m], m + 1) ELSE f[i]]
  <2>2. ASSUME NEW i \in 0..(m + 1)
        PROVE  g[i] = IF i = 0 THEN start ELSE G(g[i - 1], i)
    <3>1. CASE i = m + 1
      <4>1. i # 0 /\ i - 1 = m /\ m \in 0..(m + 1) /\ m # m + 1
        BY <3>1
      <4>. QED
        BY <4>1, <3>1
    <3>2. CASE i # m + 1
      <4>1. i \in 0..m /\ (i # 0 => i - 1 \in 0..m /\ i - 1 \in 0..(m + 1) /\ i - 1 # m + 1)
        BY <3>2
      <4>. QED
        BY <4>1, <3>2, <2>1
    <3>. QED
      BY <3>1, <3>2
  <2>3. P(g, m + 1)
    <3>. HIDE DEF G
    <3>1. g = [i \in 0..(m + 1) |-> g[i]]
      OBVIOUS
    <3>. HIDE DEF g
    <3>. QED
      BY <2>2, <3>1
  <2>4. m + 1 \in Nat
    OBVIOUS
  <2>. QED
    BY <2>3, <2>4
<1>5. \E f : P(f, Len(params))
  <2>1. Nat \subseteq T
    <3>. HIDE DEF T
    <3>. QED
      BY <1>3, <1>4, InductionOverNat
  <2>. QED
    BY <2>1, <1>2
<1>6. P(F, Len(params))
  <2>. HIDE DEF P
  <2>. QED
    BY <1>5
<1>7. F[0] = start /\ \A i \in 1..Len(params) : F[i] = G(F[i - 1], i)
  <2>. HIDE DEF F
  <2>1. \A i \in 0..Len(params) : F[i] = IF i = 0 THEN start ELSE G(F[i - 1], i)
    BY <1>6
  <2>2. 0 \in 0..Len(params) /\ \A i \in 1..Len(params) : i \in 0..Len(params) /\ i # 0
    BY <1>2
  <2>. QED
    BY <2>1, <2>2
<1>. QED
  BY <1>1, <1>7 DEF start, G, ConfigureSteps

PauseSteps(f, c, by, sender, assets, paused) ==
    /\ f[0] = Checked(c, Allowed(c, Slot(c, by, "provider"), {"EMERGENCY_ADMIN"}, sender))
    /\ \A i \in 1..Len(assets) : f[i] = setReservePause(f[i - 1], by, sender, assets[i], paused)
    /\ setPoolPause(c, by, sender, assets, paused) = f[Len(assets)]

LEMMA SetPoolPauseUnfolds ==
    ASSUME NEW c, NEW by, NEW sender, NEW assets, NEW paused, Len(assets) \in Nat
    PROVE  \E f : PauseSteps(f, c, by, sender, assets, paused)
<1>. DEFINE start == Checked(c, Allowed(c, Slot(c, by, "provider"), {"EMERGENCY_ADMIN"}, sender))
            G(x, i) == setReservePause(x, by, sender, assets[i], paused)
            P(f, m) == f = [i \in 0..m |-> IF i = 0 THEN start ELSE G(f[i - 1], i)]
            F == CHOOSE f : P(f, Len(assets))
            T == {m \in Nat : \E f : P(f, m)}
<1>1. setPoolPause(c, by, sender, assets, paused) = F[Len(assets)]
  BY DEF setPoolPause
<1>2. Len(assets) \in Nat
  OBVIOUS
<1>. HIDE DEF start, G
<1>3. 0 \in T
  <2>1. P([i \in 0..0 |-> start], 0)
    OBVIOUS
  <2>. QED
    BY <2>1
<1>4. ASSUME NEW m \in Nat, m \in T PROVE m + 1 \in T
  <2>1. PICK f : P(f, m)
    BY <1>4
  <2>. DEFINE g == [i \in 0..(m + 1) |-> IF i = m + 1 THEN G(f[m], m + 1) ELSE f[i]]
  <2>2. ASSUME NEW i \in 0..(m + 1)
        PROVE  g[i] = IF i = 0 THEN start ELSE G(g[i - 1], i)
    <3>1. CASE i = m + 1
      <4>1. i # 0 /\ i - 1 = m /\ m \in 0..(m + 1) /\ m # m + 1
        BY <3>1
      <4>. QED
        BY <4>1, <3>1
    <3>2. CASE i # m + 1
      <4>1. i \in 0..m /\ (i # 0 => i - 1 \in 0..m /\ i - 1 \in 0..(m + 1) /\ i - 1 # m + 1)
        BY <3>2
      <4>. QED
        BY <4>1, <3>2, <2>1
    <3>. QED
      BY <3>1, <3>2
  <2>3. P(g, m + 1)
    <3>. HIDE DEF G
    <3>1. g = [i \in 0..(m + 1) |-> g[i]]
      OBVIOUS
    <3>. HIDE DEF g
    <3>. QED
      BY <2>2, <3>1
  <2>4. m + 1 \in Nat
    OBVIOUS
  <2>. QED
    BY <2>3, <2>4
<1>5. \E f : P(f, Len(assets))
  <2>1. Nat \subseteq T
    <3>. HIDE DEF T
    <3>. QED
      BY <1>3, <1>4, InductionOverNat
  <2>. QED
    BY <2>1, <1>2
<1>6. P(F, Len(assets))
  <2>. HIDE DEF P
  <2>. QED
    BY <1>5
<1>7. F[0] = start /\ \A i \in 1..Len(assets) : F[i] = G(F[i - 1], i)
  <2>. HIDE DEF F
  <2>1. \A i \in 0..Len(assets) : F[i] = IF i = 0 THEN start ELSE G(F[i - 1], i)
    BY <1>6
  <2>2. 0 \in 0..Len(assets) /\ \A i \in 1..Len(assets) : i \in 0..Len(assets) /\ i # 0
    BY <1>2
  <2>. QED
    BY <2>1, <2>2
<1>. QED
  BY <1>1, <1>7 DEF start, G, PauseSteps

LEMMA AssetSourceChanges ==
    ASSUME NEW c, DOMAIN c = Fields, c.reverted \in BOOLEAN, NEW o, NEW a, NEW v
    PROVE  /\ Changes(c, AssetSource(c, o, a, v), {"sources"})
           /\ AssetSource(c, o, a, v).reverted = c.reverted
           /\ \A p, b : getSourceOfAsset(AssetSource(c, o, a, v), p, b)
                          = IF p = o /\ b = a THEN v ELSE getSourceOfAsset(c, p, b)
<1>. DEFINE d == [c EXCEPT !.sources = Written(@, <<o, a>>, v)]
            e == AssetSource(c, o, a, v)
<1>1. e = Emitted(d, AssetSourceUpdated(o, a, v))
  BY DEF AssetSource
<1>2. Changes(c, d, {"sources"}) /\ d.reverted = c.reverted
  BY FieldsAre DEF Changes
<1>3. \A p, b : getSourceOfAsset(d, p, b) = IF p = o /\ b = a THEN v ELSE getSourceOfAsset(c, p, b)
  BY FieldsAre DEF getSourceOfAsset, Written
<1>. HIDE DEF d
<1>4. Changes(d, e, {}) /\ e.reverted = d.reverted
  BY <1>1, <1>2, EmittedChanges DEF Changes
<1>. HIDE DEF e
<1>5. e.sources = d.sources
  BY <1>4, FieldsAre DEF Changes
<1>6. Changes(c, e, {"sources"})
  BY <1>2, <1>4, FieldsAre DEF Changes
<1>7. \A p, b : getSourceOfAsset(e, p, b) = getSourceOfAsset(d, p, b)
  BY <1>5 DEF getSourceOfAsset
<1>. QED
  BY <1>2, <1>3, <1>4, <1>6, <1>7 DEF e

LEMMA AllowedIsBoolean ==
    ASSUME NEW c, NEW p, NEW roles, NEW sender
    PROVE  Allowed(c, p, roles, sender) \in BOOLEAN
BY DEF Allowed

LEMMA SourcesSet ==
    ASSUME NEW c, IsContracts(c), NEW feed, NEW assets, NEW sources, Len(assets) \in Nat
    PROVE  LET d == setAssetSources(c, feed, assets, sources)
           IN  /\ Changes(c, d, {"sources"})
               /\ \A p, a : \/ getSourceOfAsset(d, p, a) = getSourceOfAsset(c, p, a)
                            \/ \E i \in 1..Len(assets) : getSourceOfAsset(d, p, a) = sources[i]
               /\ \A i \in 1..Len(assets) :
                     \E j \in 1..Len(assets) : getSourceOfAsset(d, feed, assets[i]) = sources[j]
<1>0. PICK f : SourcesSteps(f, c, feed, assets, sources)
  BY SetAssetSourcesUnfolds
<1>. DEFINE base == OnlyAssetListingOrPoolAdmins(c, feed)
            n == Len(assets)
            d == setAssetSources(c, feed, assets, sources)
<1>1. /\ f[0] = base
      /\ \A i \in 1..n : f[i] = AssetSource(f[i - 1], feed, assets[i], sources[i])
      /\ d = f[n]
  BY <1>0 DEF SourcesSteps
<1>. DEFINE Q(i) == /\ Changes(c, f[i], {"sources"})
                    /\ \A p, a : \/ getSourceOfAsset(f[i], p, a) = getSourceOfAsset(c, p, a)
                                 \/ \E j \in 1..i : getSourceOfAsset(f[i], p, a) = sources[j]
                    /\ \A k \in 1..i :
                          \E j \in 1..i : getSourceOfAsset(f[i], feed, assets[k]) = sources[j]
            T == {i \in Nat : i <= n => Q(i)}
<1>2. Changes(c, base, {}) /\ base.sources = c.sources
  <2>. DEFINE allowed == Allowed(c, Slot(c, feed, "provider"), {"ASSET_LISTING_ADMIN", "POOL_ADMIN"},
                                 Deployer)
  <2>1. allowed \in BOOLEAN /\ base = Checked(c, allowed)
    BY AllowedIsBoolean DEF OnlyAssetListingOrPoolAdmins
  <2>. HIDE DEF allowed, base
  <2>2. Changes(c, base, {})
    BY <2>1, ContractsAre, CheckedChanges
  <2>. QED
    BY <2>2, FieldsAre DEF Changes
<1>. HIDE DEF base, d
<1>3. 0 \in T
  <2>1. Changes(c, f[0], {"sources"})
    BY <1>1, <1>2 DEF Changes
  <2>2. \A p, a : getSourceOfAsset(f[0], p, a) = getSourceOfAsset(c, p, a)
    BY <1>1, <1>2 DEF getSourceOfAsset
  <2>. QED
    BY <2>1, <2>2
<1>4. ASSUME NEW m \in Nat, m \in T PROVE m + 1 \in T
  <2>. SUFFICES ASSUME m + 1 <= n PROVE Q(m + 1)
    OBVIOUS
  <2>1. Q(m) /\ m + 1 \in 1..n /\ (m + 1) - 1 = m
    BY <1>4
  <2>2. f[m + 1] = AssetSource(f[m], feed, assets[m + 1], sources[m + 1])
    BY <1>1, <2>1
  <2>3. DOMAIN f[m] = Fields /\ f[m].reverted \in BOOLEAN
    BY <2>1 DEF Changes
  <2>4. /\ Changes(f[m], f[m + 1], {"sources"})
        /\ \A p, b : getSourceOfAsset(f[m + 1], p, b)
                       = IF p = feed /\ b = assets[m + 1] THEN sources[m + 1]
                                                          ELSE getSourceOfAsset(f[m], p, b)
    BY <2>2, <2>3, AssetSourceChanges
  <2>5. Changes(c, f[m + 1], {"sources"})
    BY <2>1, <2>4 DEF Changes
  <2>6. 1..(m + 1) = 1..m \cup {m + 1} /\ m + 1 \in 1..(m + 1)
    OBVIOUS
  <2>7. ASSUME NEW p, NEW a
        PROVE  \/ getSourceOfAsset(f[m + 1], p, a) = getSourceOfAsset(c, p, a)
               \/ \E j \in 1..(m + 1) : getSourceOfAsset(f[m + 1], p, a) = sources[j]
    BY <2>1, <2>4, <2>6
  <2>8. ASSUME NEW k \in 1..(m + 1)
        PROVE  \E j \in 1..(m + 1) : getSourceOfAsset(f[m + 1], feed, assets[k]) = sources[j]
    <3>1. CASE assets[k] = assets[m + 1]
      BY <3>1, <2>4, <2>6
    <3>2. CASE assets[k] # assets[m + 1]
      <4>1. k \in 1..m
        BY <3>2, <2>6
      <4>. QED
        BY <4>1, <3>2, <2>1, <2>4, <2>6
    <3>. QED
      BY <3>1, <3>2
  <2>. QED
    BY <2>5, <2>7, <2>8
<1>5. n \in Nat
  OBVIOUS
<1>6. Q(n)
  <2>1. Nat \subseteq T
    <3>. HIDE DEF T
    <3>. QED
      BY <1>3, <1>4, InductionOverNat
  <2>. QED
    BY <2>1, <1>5
<1>. QED
  BY <1>6, <1>1 DEF d

LEMMA SetAssetSourcesEffects ==
    ASSUME NEW c, IsContracts(c), NEW tx, tx.call = "setAssetSources", Len(tx.with.assets) \in Nat
    PROVE  Effects(c, Executed(c, tx), tx)
<1>. DEFINE d == Executed(c, tx)
<1>1. d = setAssetSources(c, tx.on, tx.with.assets, tx.with.sources)
  BY ExecutedCalls
<1>2. Changes(c, d, {"sources"})
  BY <1>1, SourcesSet
<1>. HIDE DEF d
<1>3. EffectOnSources(c, d, tx)
  BY DEF EffectOnSources
<1>4. Effects(c, d, tx)
  BY <1>2, <1>3, NoEffects, Callees DEF Effects
<1>. QED
  BY <1>4 DEF d

LEMMA OnlyPoolAdminChanges ==
    ASSUME NEW c, IsContracts(c), NEW a
    PROVE  Changes(c, OnlyPoolAdmin(c, a), {})
<1>. DEFINE allowed == Allowed(c, Slot(c, a, "provider"), {"POOL_ADMIN"}, Deployer)
            d == OnlyPoolAdmin(c, a)
<1>1. allowed \in BOOLEAN /\ d = Checked(c, allowed)
  BY AllowedIsBoolean DEF OnlyPoolAdmin
<1>. HIDE DEF allowed, d
<1>2. Changes(c, d, {})
  BY <1>1, ContractsAre, CheckedChanges
<1>. QED
  BY <1>2 DEF d

LEMMA PremiumTotalChanges ==
    ASSUME NEW c, IsContracts(c), NEW a, NEW premium
    PROVE  /\ Changes(c, updateFlashloanPremiumTotal(c, a, premium), {"premiumTotal"})
           /\ updateFlashloanPremiumTotal(c, a, premium).premiumTotal = premium
<1>. DEFINE d == OnlyPoolAdmin(c, a)
            fits == premium <= PERCENTAGE_FACTOR
            d1 == Checked(d, fits)
            d2 == [d1 EXCEPT !.premiumTotal = premium]
            event == FlashloanPremiumTotalUpdated(a, premium)
            e == updateFlashloanPremiumTotal(c, a, premium)
<1>1. e = Emitted(d2, event)
  BY DEF updateFlashloanPremiumTotal
<1>2. fits \in BOOLEAN
  OBVIOUS
<1>3. Changes(c, d, {})
  BY OnlyPoolAdminChanges
<1>. HIDE DEF fits, d, event, e
<1>8. DOMAIN d = Fields /\ d.reverted \in BOOLEAN
  BY <1>3 DEF Changes
<1>4. Changes(d, d1, {})
  BY <1>2, <1>8, CheckedChanges
<1>. HIDE DEF d1
<1>5. Changes(d1, d2, {"premiumTotal"}) /\ d2.premiumTotal = premium
  BY <1>4, FieldsAre DEF Changes
<1>. HIDE DEF d2
<1>6. Changes(d2, e, {})
  BY <1>1, <1>5, EmittedChanges DEF Changes
<1>7. Changes(c, e, {"premiumTotal"}) /\ e.premiumTotal = premium
  BY <1>3, <1>4, <1>5, <1>6, FieldsAre DEF Changes
<1>. QED
  BY <1>7 DEF e

LEMMA PremiumToProtocolChanges ==
    ASSUME NEW c, IsContracts(c), NEW a, NEW premium
    PROVE  Changes(c, updateFlashloanPremiumToProtocol(c, a, premium), {"premiumToProtocol"})
<1>. DEFINE d == OnlyPoolAdmin(c, a)
            fits == premium <= PERCENTAGE_FACTOR
            d1 == Checked(d, fits)
            d2 == [d1 EXCEPT !.premiumToProtocol = premium]
            event == FlashloanPremiumToProtocolUpdated(a, premium)
            e == updateFlashloanPremiumToProtocol(c, a, premium)
<1>1. e = Emitted(d2, event)
  BY DEF updateFlashloanPremiumToProtocol
<1>2. fits \in BOOLEAN
  OBVIOUS
<1>3. Changes(c, d, {})
  BY OnlyPoolAdminChanges
<1>. HIDE DEF fits, d, event, e
<1>8. DOMAIN d = Fields /\ d.reverted \in BOOLEAN
  BY <1>3 DEF Changes
<1>4. Changes(d, d1, {})
  BY <1>2, <1>8, CheckedChanges
<1>. HIDE DEF d1
<1>5. Changes(d1, d2, {"premiumToProtocol"})
  BY <1>4, FieldsAre DEF Changes
<1>. HIDE DEF d2
<1>6. Changes(d2, e, {})
  BY <1>1, <1>5, EmittedChanges DEF Changes
<1>7. Changes(c, e, {"premiumToProtocol"})
  BY <1>3, <1>4, <1>5, <1>6, FieldsAre DEF Changes
<1>. QED
  BY <1>7 DEF e

LEMMA FeeEffects ==
    ASSUME NEW c, IsContracts(c), NEW tx,
           tx.call \in {"updateFlashloanPremiumTotal", "updateFlashloanPremiumToProtocol"}
    PROVE  Effects(c, Executed(c, tx), tx)
<1>. DEFINE e == Executed(c, tx)
<1>1. CASE tx.call = "updateFlashloanPremiumTotal"
  <2>1. Changes(c, e, {"premiumTotal"}) /\ e.premiumTotal = FlashLoanPremiums.total
    BY <1>1, ExecutedCalls, PremiumTotalChanges
  <2>. HIDE DEF e
  <2>2. EffectOnFees(c, e, tx)
    BY <1>1, <2>1 DEF EffectOnFees
  <2>3. Effects(c, e, tx)
    BY <1>1, <2>1, <2>2, NoEffects, Callees DEF Effects
  <2>. QED
    BY <2>3 DEF e
<1>2. CASE tx.call = "updateFlashloanPremiumToProtocol"
  <2>1. Changes(c, e, {"premiumToProtocol"})
    BY <1>2, ExecutedCalls, PremiumToProtocolChanges
  <2>. HIDE DEF e
  <2>2. Effects(c, e, tx)
    BY <1>2, <2>1, NoEffects, Callees DEF Effects
  <2>. QED
    BY <2>2 DEF e
<1>. QED
  BY <1>1, <1>2

\* What all constructors leave: a new contract of which at most two slots are set.
Constructs(c, d, kind) ==
    /\ IsContracts(d)
    /\ Changes(c, d, {"contracts", "slots", "sources", "roles"})
    /\ d.contracts = c.contracts \cup {Fresh(c, kind)}
    /\ \A x \in c.contracts : \A k : Slot(d, x, k) = Slot(c, x, k)
    /\ \A k \in DOMAIN d.slots : k \in DOMAIN c.slots \/ k[2] \in {"pool", "provider"}
    /\ c.roles \subseteq d.roles
    /\ \A r \in d.roles \ c.roles : r[2] = "DEFAULT_ADMIN"
    /\ \A o \in c.contracts : \A a : getSourceOfAsset(d, o, a) = getSourceOfAsset(c, o, a)

LEMMA CreatedConstructs ==
    ASSUME NEW c, IsContracts(c), NEW kind \in Kinds
    PROVE  Constructs(c, Created(c, Fresh(c, kind)), kind)
<1>. DEFINE new == Fresh(c, kind)
            d == Created(c, new)
<1>1. Changes(c, d, {"contracts"}) /\ d.contracts = c.contracts \cup {new}
  BY ContractsAre, CreatedChanges
<1>2. IsContracts(d)
  BY CreatedKept
<1>. HIDE DEF d, new
<1>3. d.slots = c.slots /\ d.sources = c.sources /\ d.roles = c.roles
      /\ Changes(c, d, {"contracts", "slots", "sources", "roles"})
  BY <1>1, FieldsAre DEF Changes
<1>4. \A x, k : Slot(d, x, k) = Slot(c, x, k)
  BY <1>3, SlotOfSlots
<1>5. \A o, a : getSourceOfAsset(d, o, a) = getSourceOfAsset(c, o, a)
  BY <1>3 DEF getSourceOfAsset
<1>6. Constructs(c, d, kind)
  BY <1>1, <1>2, <1>3, <1>4, <1>5 DEF Constructs, new
<1>. QED
  BY <1>6 DEF d, new

LEMMA SlotConstructs ==
    ASSUME NEW c, IsContracts(c), NEW kind \in Kinds, NEW d, Constructs(c, d, kind),
           NEW key \in {"pool", "provider"}, NEW value
    PROVE  Constructs(c, SetSlot(d, Fresh(c, kind), key, value), kind)
<1>. DEFINE new == Fresh(c, kind)
            e == SetSlot(d, new, key, value)
<1>1. new \notin c.contracts /\ IsContracts(d) /\ new \in d.contracts
  BY FreshIsNew DEF IsContracts, Constructs
<1>. HIDE DEF new
<1>2. IsContracts(e)
  BY <1>1, SlotSetKept
<1>3. /\ Changes(d, e, {"slots"}) /\ DOMAIN e.slots = DOMAIN d.slots \cup {<<new, key>>}
      /\ \A y, l : Slot(e, y, l) = IF y = new /\ l = key THEN value ELSE Slot(d, y, l)
  BY <1>1, ContractsAre, SetSlotChanges
<1>. HIDE DEF e
<1>4. e.contracts = d.contracts /\ e.sources = d.sources /\ e.roles = d.roles
  BY <1>3, FieldsAre DEF Changes
<1>5. Changes(c, d, {"contracts", "slots", "sources", "roles"})
  BY DEF Constructs
<1>6. Changes(c, e, {"contracts", "slots", "sources", "roles"})
  BY <1>3, <1>5, FieldsAre DEF Changes
<1>7. \A o, a : getSourceOfAsset(e, o, a) = getSourceOfAsset(d, o, a)
  BY <1>4 DEF getSourceOfAsset
<1>8. \A x \in c.contracts : \A k : Slot(e, x, k) = Slot(c, x, k)
  BY <1>1, <1>3 DEF Constructs
<1>9. \A k \in DOMAIN e.slots : k \in DOMAIN c.slots \/ k[2] \in {"pool", "provider"}
  BY <1>3 DEF Constructs
<1>10. Constructs(c, e, kind)
  BY <1>2, <1>4, <1>6, <1>7, <1>8, <1>9 DEF Constructs
<1>. QED
  BY <1>10 DEF e, new

LEMMA EmittedConstructs ==
    ASSUME NEW c, NEW kind, NEW d, Constructs(c, d, kind), NEW event
    PROVE  Constructs(c, Emitted(d, event), kind)
<1>. DEFINE e == Emitted(d, event)
<1>1. IsContracts(d) /\ Changes(c, d, {"contracts", "slots", "sources", "roles"})
  BY DEF Constructs
<1>2. Changes(d, e, {})
  BY <1>1, ContractsAre, EmittedChanges
<1>. HIDE DEF e
<1>3. IsContracts(e)
  BY <1>1, <1>2, ContractsKept
<1>4. e.contracts = d.contracts /\ e.sources = d.sources /\ e.roles = d.roles /\ e.slots = d.slots
  BY <1>2, FieldsAre DEF Changes
<1>5. Changes(c, e, {"contracts", "slots", "sources", "roles"})
  BY <1>1, <1>2, FieldsAre DEF Changes
<1>6. \A o, a : getSourceOfAsset(e, o, a) = getSourceOfAsset(d, o, a)
  BY <1>4 DEF getSourceOfAsset
<1>7. \A x, k : Slot(e, x, k) = Slot(d, x, k)
  BY <1>4, SlotOfSlots
<1>8. Constructs(c, e, kind)
  BY <1>3, <1>4, <1>5, <1>6, <1>7 DEF Constructs
<1>. QED
  BY <1>8 DEF e

LEMMA SourceConstructs ==
    ASSUME NEW c, IsContracts(c), NEW kind \in Kinds, NEW d, Constructs(c, d, kind), NEW a, NEW v
    PROVE  Constructs(c, AssetSource(d, Fresh(c, kind), a, v), kind)
<1>. DEFINE new == Fresh(c, kind)
            e == AssetSource(d, new, a, v)
<1>1. IsContracts(d) /\ Changes(c, d, {"contracts", "slots", "sources", "roles"})
  BY DEF Constructs
<1>2. new \notin c.contracts
  BY FreshIsNew DEF IsContracts
<1>. HIDE DEF new
<1>3. /\ Changes(d, e, {"sources"})
      /\ \A p, b : getSourceOfAsset(e, p, b)
                     = IF p = new /\ b = a THEN v ELSE getSourceOfAsset(d, p, b)
  BY <1>1, ContractsAre, AssetSourceChanges
<1>. HIDE DEF e
<1>4. IsContracts(e)
  BY <1>1, <1>3, ContractsKept
<1>5. e.contracts = d.contracts /\ e.roles = d.roles /\ e.slots = d.slots
  BY <1>3, FieldsAre DEF Changes
<1>6. Changes(c, e, {"contracts", "slots", "sources", "roles"})
  BY <1>1, <1>3, FieldsAre DEF Changes
<1>7. \A x, k : Slot(e, x, k) = Slot(d, x, k)
  BY <1>5, SlotOfSlots
<1>8. \A p \in c.contracts : \A b : getSourceOfAsset(e, p, b) = getSourceOfAsset(c, p, b)
  BY <1>2, <1>3 DEF Constructs
<1>9. Constructs(c, e, kind)
  BY <1>4, <1>5, <1>6, <1>7, <1>8 DEF Constructs
<1>. QED
  BY <1>9 DEF e, new

LEMMA AdminConstructs ==
    ASSUME NEW c, NEW kind, NEW d, Constructs(c, d, kind), NEW b \in BOOLEAN, NEW new, NEW admin
    PROVE  Constructs(c, [Checked(d, b) EXCEPT
                             !.roles = @ \cup {<<new, "DEFAULT_ADMIN", admin>>}], kind)
<1>. DEFINE d1 == Checked(d, b)
            e == [d1 EXCEPT !.roles = @ \cup {<<new, "DEFAULT_ADMIN", admin>>}]
<1>1. IsContracts(d) /\ Changes(c, d, {"contracts", "slots", "sources", "roles"})
  BY DEF Constructs
<1>2. Changes(d, d1, {})
  BY <1>1, ContractsAre, CheckedChanges
<1>. HIDE DEF d1
<1>3. Changes(d1, e, {"roles"}) /\ e.roles = d1.roles \cup {<<new, "DEFAULT_ADMIN", admin>>}
  BY <1>2, FieldsAre DEF Changes
<1>. HIDE DEF e
<1>4. Changes(d, e, {"roles"}) /\ e.roles = d.roles \cup {<<new, "DEFAULT_ADMIN", admin>>}
  BY <1>2, <1>3, FieldsAre DEF Changes
<1>5. IsContracts(e)
  BY <1>1, <1>4, ContractsKept
<1>6. e.contracts = d.contracts /\ e.sources = d.sources /\ e.slots = d.slots
  BY <1>4, FieldsAre DEF Changes
<1>7. Changes(c, e, {"contracts", "slots", "sources", "roles"})
  BY <1>1, <1>4, FieldsAre DEF Changes
<1>8. \A o, a : getSourceOfAsset(e, o, a) = getSourceOfAsset(d, o, a)
  BY <1>6 DEF getSourceOfAsset
<1>9. \A x, k : Slot(e, x, k) = Slot(d, x, k)
  BY <1>6, SlotOfSlots
<1>10. c.roles \subseteq e.roles /\ \A r \in e.roles \ c.roles : r[2] = "DEFAULT_ADMIN"
  BY <1>4 DEF Constructs
<1>11. Constructs(c, e, kind)
  BY <1>5, <1>6, <1>7, <1>8, <1>9, <1>10 DEF Constructs
<1>. QED
  BY <1>11 DEF e, d1

LEMMA ConstructedConstructs ==
    ASSUME NEW c, IsContracts(c), NEW kind \in Kinds, NEW maker
    PROVE  Constructs(c, Constructed(c, kind, maker), kind)
<1>. DEFINE new == Fresh(c, kind)
            created == Created(c, new)
            admin == Slot(c, maker, "ACL_ADMIN")
            pool == Slot(c, maker, "POOL")
            d == Constructed(c, kind, maker)
            manager == [Checked(created, admin # NoAddress) EXCEPT
                           !.roles = @ \cup {<<new, "DEFAULT_ADMIN", admin>>}]
            named == SetSlot(created, new, "provider", maker)
            announced == Emitted(named, FallbackOracleUpdated(new, NoAddress))
            priced == AssetSource(announced, new, NoAddress, NoAddress)
            feed == Emitted(priced, BaseCurrencySet(new, NoAddress))
            token == SetSlot(created, new, "pool", pool)
<1>1. \/ d = manager \/ d = feed \/ d = token \/ d = created
  <2>. HIDE DEF created, new, admin, pool
  <2>1. d = CASE kind = "ACLManager" -> manager
               [] kind = "ProtocolOracle" -> feed
               [] kind \in {"BToken", "DelegationAwareBToken", "StableDebtToken",
                            "VariableDebtToken"} -> token
               [] OTHER -> created
    BY Zenon DEF Constructed, created, new, admin, pool
  <2>. HIDE DEF d, manager, feed, token
  <2>. QED
    BY <2>1
<1>2. Constructs(c, created, kind)
  BY CreatedConstructs
<1>. HIDE DEF created, admin, pool
<1>3. Constructs(c, manager, kind)
  <2>. DEFINE set == admin # NoAddress
  <2>1. set \in BOOLEAN
    OBVIOUS
  <2>. HIDE DEF set, new
  <2>2. Constructs(c, [Checked(created, set) EXCEPT
                          !.roles = @ \cup {<<new, "DEFAULT_ADMIN", admin>>}], kind)
    BY <1>2, <2>1, AdminConstructs
  <2>. QED
    BY <2>2 DEF set, new
<1>4. Constructs(c, token, kind)
  BY <1>2, SlotConstructs
<1>5. Constructs(c, named, kind)
  BY <1>2, SlotConstructs
<1>. HIDE DEF named
<1>6. Constructs(c, announced, kind)
  BY <1>5, EmittedConstructs
<1>. HIDE DEF announced
<1>7. Constructs(c, priced, kind)
  BY <1>6, SourceConstructs
<1>. HIDE DEF priced
<1>8. Constructs(c, feed, kind)
  BY <1>7, EmittedConstructs
<1>. HIDE DEF feed, token, manager, d
<1>9. Constructs(c, d, kind)
  BY <1>1, <1>2, <1>3, <1>4, <1>8
<1>. QED
  BY <1>9 DEF d

LEMMA CreateEffects ==
    ASSUME NEW c, IsContracts(c), NEW tx, tx.call = "create", tx.on \in Kinds
    PROVE  Effects(c, Executed(c, tx), tx)
<1>. DEFINE d == Executed(c, tx)
            new == Fresh(c, tx.on)
<1>1. Constructs(c, d, tx.on)
  BY ExecutedCalls, ConstructedConstructs
<1>2. new \notin c.contracts
  BY FreshIsNew DEF IsContracts
<1>. HIDE DEF d
<1>3. Changes(c, d, {"contracts", "slots", "sources", "roles"})
  BY <1>1 DEF Constructs
<1>4. d.contracts = c.contracts \cup {new} /\ IsContracts(d)
  BY <1>1 DEF Constructs
<1>5. d.initialised = c.initialised /\ d.registered = c.registered
  BY <1>3, FieldsAre DEF Changes
<1>6. EffectOnContracts(c, d, tx)
  BY <1>2, <1>4, <1>5 DEF EffectOnContracts
<1>7. \A k \in DOMAIN c.slots : k[1] \in c.contracts
  BY DEF IsContracts
<1>8. EffectOnSlots(c, d, tx)
  <2>1. tx.call \notin DOMAIN Setter \cup DOMAIN Proxied
    BY Callees
  <2>. QED
    BY <1>1, <1>7, <2>1 DEF EffectOnSlots, Constructs
<1>9. EffectOnRoles(c, d, tx)
  BY <1>1 DEF Constructs, EffectOnRoles
<1>10. EffectOnSources(c, d, tx)
  BY <1>1 DEF Constructs, EffectOnSources
<1>11. Effects(c, d, tx)
  BY <1>3, <1>6, <1>8, <1>9, <1>10, NoEffects DEF Effects
<1>. QED
  BY <1>11 DEF d

\* There are new contracts, and only new ones are initialised.
Grows(c, d) ==
    /\ c.contracts \subseteq d.contracts /\ c.initialised \subseteq d.initialised
    /\ \A a \in d.initialised \ c.initialised : a \notin c.contracts

LEMMA GrowsTrans ==
    ASSUME NEW c, NEW d, NEW e, Grows(c, d), Grows(d, e)
    PROVE  Grows(c, e)
BY DEF Grows

LEMMA TokenCreated ==
    ASSUME NEW c, IsContracts(c), NEW kind \in Kinds, NEW pool, NEW impl,
           NEW token, token = Fresh(c, kind)
    PROVE  LET d == initTokenWithProxy(c, pool, impl, token)
           IN  /\ IsContracts(d) /\ Changes(c, d, {"contracts", "initialised"})
               /\ Grows(c, d)
               /\ \A k : k # kind => Fresh(d, k) = Fresh(c, k)
<1>. DEFINE matches == Slot(c, impl, "pool") = pool
            c1 == Checked(c, matches)
            c2 == Created(c1, token)
            d == initTokenWithProxy(c, pool, impl, token)
<1>1. d = initialize(c2, token)
  BY DEF initTokenWithProxy
<1>2. matches \in BOOLEAN
  OBVIOUS
<1>. HIDE DEF d, matches
<1>3. Changes(c, c1, {})
  BY <1>2, ContractsAre, CheckedChanges
<1>. HIDE DEF c1
<1>4. IsContracts(c1)
  BY <1>3, ContractsKept
<1>5. c1.contracts = c.contracts
  BY <1>3, FieldsAre DEF Changes
<1>6. token = Fresh(c1, kind)
  BY <1>5 DEF Fresh
<1>7. IsContracts(c2)
  BY <1>4, <1>6, CreatedKept
<1>8. Changes(c1, c2, {"contracts"}) /\ c2.contracts = c1.contracts \cup {token}
  BY <1>4, ContractsAre, CreatedChanges
<1>. HIDE DEF c2
<1>9. Changes(c2, d, {"initialised"}) /\ d.initialised = c2.initialised \cup {token}
  BY <1>1, <1>7, ContractsAre, InitializeChanges
<1>10. IsContracts(d)
  BY <1>7, <1>9, ContractsKept
<1>11. Changes(c, d, {"contracts", "initialised"})
  BY <1>3, <1>8, <1>9, FieldsAre DEF Changes
<1>12. d.contracts = c.contracts \cup {token} /\ d.initialised = c.initialised \cup {token}
  BY <1>3, <1>8, <1>9, FieldsAre DEF Changes
<1>a. token \notin c.contracts
  BY FreshIsNew DEF IsContracts
<1>13. ASSUME NEW k, k # kind PROVE Fresh(d, k) = Fresh(c, k)
  <2>1. token[1] = kind
    BY FreshIsNew DEF IsContracts
  <2>2. {a \in d.contracts : a[1] = k} = {a \in c.contracts : a[1] = k}
    BY <1>12, <1>13, <2>1
  <2>. QED
    BY <2>2 DEF Fresh
<1>14. /\ IsContracts(d) /\ Changes(c, d, {"contracts", "initialised"})
       /\ Grows(c, d)
       /\ \A k : k # kind => Fresh(d, k) = Fresh(c, k)
  BY <1>10, <1>11, <1>12, <1>13, <1>a DEF Grows
<1>. QED
  BY <1>14 DEF d

IsNewData(data, strategy) == \E b, s, v : data = NewReserveData(b, s, v, strategy)

\* What listing one reserve does, and what it asks for.
ListsOne(c, d, by, input) ==
    LET key == <<Slot(c, by, "pool"), input.asset>>
    IN  /\ IsContracts(d) /\ Changes(c, d, {"contracts", "initialised", "reserves"})
        /\ Grows(c, d)
        /\ ~d.reverted => input.asset \in c.contracts /\ key \notin DOMAIN c.reserves
        /\ DOMAIN d.reserves = DOMAIN c.reserves \cup {key}
        /\ IsNewData(d.reserves[key], input.strategy)
        /\ \A r \in DOMAIN c.reserves : r # key => d.reserves[r] = c.reserves[r]

LEMMA OneIsListed ==
    ASSUME NEW c, IsContracts(c), NEW by, NEW input
    PROVE  ListsOne(c, executeInitReserve(c, by, input), by, input)
<1>. DEFINE pool == Slot(c, by, "pool")
            key == <<pool, input.asset>>
            b == Fresh(c, "BTokenProxy")
            s == Fresh(c, "StableDebtTokenProxy")
            v == Fresh(c, "VariableDebtTokenProxy")
            c1 == initTokenWithProxy(c, pool, input.bTokenImpl, b)
            c2 == initTokenWithProxy(c1, pool, input.stableDebtTokenImpl, s)
            c3 == initTokenWithProxy(c2, pool, input.variableDebtTokenImpl, v)
            e1 == Emitted(c3, BTokenInitialized(b, input.asset, pool))
            e2 == Emitted(e1, STokenInitialized(s, input.asset, pool))
            e3 == Emitted(e2, VTokenInitialized(v, input.asset, pool))
            valid == input.asset \in c.contracts /\ key \notin DOMAIN c.reserves
            e4 == Checked(e3, valid)
            data == NewReserveData(b, s, v, input.strategy)
            e5 == [e4 EXCEPT !.reserves = Written(@, key, data)]
            event == ReserveInitialized(by, input.asset, b, s, v, input.strategy)
            d == executeInitReserve(c, by, input)
<1>1. d = Emitted(e5, event)
  BY Zenon DEF executeInitReserve
<1>2. {"BTokenProxy", "StableDebtTokenProxy", "VariableDebtTokenProxy"} \subseteq Kinds
  BY ProxyKinds
<1>3. valid \in BOOLEAN
  OBVIOUS
<1>4. valid => input.asset \in c.contracts /\ key \notin DOMAIN c.reserves
  OBVIOUS
<1>5. IsNewData(data, input.strategy) /\ DOMAIN data = DOMAIN Data
  BY DEF IsNewData, Data, NewReserveData
<1>. HIDE DEF d, event, valid, data
<1>6. /\ IsContracts(c1) /\ Changes(c, c1, {"contracts", "initialised"})
      /\ Grows(c, c1)
      /\ \A k : k # "BTokenProxy" => Fresh(c1, k) = Fresh(c, k)
  <2>. HIDE DEF pool
  <2>. QED
    BY <1>2, TokenCreated
<1>. HIDE DEF c1
<1>7. s = Fresh(c1, "StableDebtTokenProxy") /\ v = Fresh(c1, "VariableDebtTokenProxy")
  BY <1>6
<1>. HIDE DEF b, s, v
<1>8. /\ IsContracts(c2) /\ Changes(c1, c2, {"contracts", "initialised"})
      /\ Grows(c1, c2)
      /\ \A k : k # "StableDebtTokenProxy" => Fresh(c2, k) = Fresh(c1, k)
  <2>. HIDE DEF pool
  <2>. QED
    BY <1>2, <1>6, <1>7, TokenCreated
<1>. HIDE DEF c2
<1>9. v = Fresh(c2, "VariableDebtTokenProxy")
  BY <1>7, <1>8
<1>10. /\ IsContracts(c3) /\ Changes(c2, c3, {"contracts", "initialised"})
       /\ Grows(c2, c3)
  <2>. HIDE DEF pool
  <2>. QED
    BY <1>2, <1>8, <1>9, TokenCreated
<1>. HIDE DEF c3
<1>11. Changes(c, c3, {"contracts", "initialised"})
       /\ Grows(c, c3)
  BY <1>6, <1>8, <1>10, FieldsAre DEF Changes, Grows
<1>12. Changes(c3, e1, {}) /\ DOMAIN e1 = Fields /\ e1.reverted \in BOOLEAN
  <2>1. Changes(c3, e1, {})
    BY <1>10, ContractsAre, EmittedChanges
  <2>. QED
    BY <2>1 DEF Changes
<1>. HIDE DEF e1
<1>13. Changes(e1, e2, {}) /\ DOMAIN e2 = Fields /\ e2.reverted \in BOOLEAN
  <2>1. Changes(e1, e2, {})
    BY <1>12, EmittedChanges
  <2>. QED
    BY <2>1 DEF Changes
<1>. HIDE DEF e2
<1>14. Changes(e2, e3, {}) /\ DOMAIN e3 = Fields /\ e3.reverted \in BOOLEAN
  <2>1. Changes(e2, e3, {})
    BY <1>13, EmittedChanges
  <2>. QED
    BY <2>1 DEF Changes
<1>. HIDE DEF e3
<1>15. Changes(e3, e4, {}) /\ (~e4.reverted => valid)
  BY <1>3, <1>14, CheckedChanges
<1>. HIDE DEF e4
<1>16. IsContracts(e4)
  <2>1. Changes(c3, e4, {})
    BY <1>12, <1>13, <1>14, <1>15 DEF Changes
  <2>. QED
    BY <2>1, <1>10, ContractsKept
<1>17. Changes(c, e4, {"contracts", "initialised"})
       /\ Grows(c, e4)
  BY <1>11, <1>12, <1>13, <1>14, <1>15, FieldsAre DEF Changes, Grows
<1>18. e4.reserves = c.reserves
  BY <1>17, FieldsAre DEF Changes
<1>. HIDE DEF key, pool
<1>19. Changes(e4, e5, {"reserves"}) /\ e5.reserves = Written(e4.reserves, key, data)
       /\ e5.reverted = e4.reverted
  BY <1>17, FieldsAre DEF Changes
<1>. HIDE DEF e5
<1>20. Changes(e5, d, {}) /\ d.reverted = e5.reverted
  <2>1. DOMAIN e5 = Fields /\ e5.reverted \in BOOLEAN
    BY <1>19 DEF Changes
  <2>. QED
    BY <1>1, <2>1, EmittedChanges
<1>21. d.reserves = Written(c.reserves, key, data)
  BY <1>18, <1>19, <1>20, FieldsAre DEF Changes
<1>22. /\ DOMAIN d.reserves = DOMAIN c.reserves \cup {key}
       /\ d.reserves[key] = data
       /\ \A r \in DOMAIN c.reserves : r # key => d.reserves[r] = c.reserves[r]
  <2>. DEFINE old == c.reserves
              new == Written(old, key, data)
  <2>. HIDE DEF old
  <2>1. /\ DOMAIN new = DOMAIN old \cup {key} /\ new[key] = data
        /\ \A k \in DOMAIN old : k # key => new[k] = old[k]
    BY DEF Written
  <2>2. d.reserves = new
    BY <1>21 DEF old
  <2>. HIDE DEF new
  <2>3. /\ DOMAIN d.reserves = DOMAIN old \cup {key} /\ d.reserves[key] = data
        /\ \A r \in DOMAIN old : r # key => d.reserves[r] = old[r]
    BY <2>1, <2>2
  <2>. QED
    BY <2>3 DEF old
<1>23. Changes(e4, d, {"reserves"})
  BY <1>19, <1>20, FieldsAre DEF Changes
<1>24. Changes(c, d, {"contracts", "initialised", "reserves"})
       /\ Grows(c, d)
  BY <1>17, <1>23, FieldsAre DEF Changes, Grows
<1>25. IsContracts(d)
  <2>1. d.contracts = e4.contracts /\ d.slots = e4.slots
    BY <1>23, FieldsAre DEF Changes
  <2>2. \A r \in DOMAIN d.reserves : DOMAIN d.reserves[r] = DOMAIN Data
    BY <1>22, <1>5 DEF IsContracts
  <2>3. DOMAIN d = DOMAIN NoContracts /\ d.reverted \in BOOLEAN
    BY <1>23 DEF Changes, Fields
  <2>. QED
    BY <1>16, <2>1, <2>2, <2>3 DEF IsContracts
<1>26. ~d.reverted => input.asset \in c.contracts /\ key \notin DOMAIN c.reserves
  BY <1>15, <1>19, <1>20 DEF valid
<1>27. key = <<Slot(c, by, "pool"), input.asset>>
  BY DEF key, pool
<1>28. ListsOne(c, d, by, input)
  BY <1>5, <1>22, <1>24, <1>25, <1>26, <1>27 DEF ListsOne
<1>. QED
  BY <1>28 DEF d

\* What listing a chunk of reserves does, and what it asks for.
ListsAll(c, d, by, inputs, n) ==
    LET key(i) == <<Slot(c, by, "pool"), inputs[i].asset>>
    IN  /\ IsContracts(d) /\ Changes(c, d, {"contracts", "initialised", "reserves"})
        /\ Grows(c, d)
        /\ DOMAIN d.reserves = DOMAIN c.reserves \cup {key(i) : i \in 1..n}
        /\ ~d.reverted =>
              \A i \in 1..n : inputs[i].asset \in d.contracts /\ key(i) \notin DOMAIN c.reserves
        /\ ~d.reverted => \A r \in DOMAIN c.reserves : d.reserves[r] = c.reserves[r]
        /\ \A r \in DOMAIN d.reserves \ DOMAIN c.reserves :
              \E i \in 1..n : r = key(i) /\ IsNewData(d.reserves[r], inputs[i].strategy)

LEMMA AllAreListed ==
    ASSUME NEW c, IsContracts(c), NEW by, NEW inputs, Len(inputs) \in Nat
    PROVE  ListsAll(c, initReserves(c, by, inputs), by, inputs, Len(inputs))
<1>1. PICK f : ListingSteps(f, c, by, inputs)
  BY InitReservesUnfolds
<1>. DEFINE n == Len(inputs)
            pool == Slot(c, by, "pool")
            key(i) == <<pool, inputs[i].asset>>
            allowed == Allowed(c, Slot(c, by, "provider"), {"ASSET_LISTING_ADMIN", "POOL_ADMIN"},
                               Deployer)
            T == {i \in Nat : i <= n => ListsAll(c, f[i], by, inputs, i)}
<1>2. f[0] = Checked(c, allowed) /\ initReserves(c, by, inputs) = f[n]
      /\ \A i \in 1..n : f[i] = executeInitReserve(f[i - 1], by, inputs[i])
  BY <1>1 DEF ListingSteps
<1>3. allowed \in BOOLEAN
  BY AllowedIsBoolean
<1>. HIDE DEF allowed
<1>4. 0 \in T
  <2>1. Changes(c, f[0], {})
    BY <1>2, <1>3, ContractsAre, CheckedChanges
  <2>2. IsContracts(f[0])
    BY <2>1, ContractsKept
  <2>3. Changes(c, f[0], {"contracts", "initialised", "reserves"})
        /\ f[0].contracts = c.contracts /\ f[0].initialised = c.initialised
        /\ f[0].reserves = c.reserves
    BY <2>1, FieldsAre DEF Changes
  <2>4. 1..0 = {}
    OBVIOUS
  <2>5. ListsAll(c, f[0], by, inputs, 0)
    BY <2>2, <2>3, <2>4 DEF ListsAll, Grows
  <2>. QED
    BY <2>5
<1>5. ASSUME NEW m \in Nat, m \in T PROVE m + 1 \in T
  <2>. SUFFICES ASSUME m + 1 <= n PROVE ListsAll(c, f[m + 1], by, inputs, m + 1)
    OBVIOUS
  <2>. DEFINE d == f[m]
              e == f[m + 1]
              input == inputs[m + 1]
              new == key(m + 1)
  <2>1. ListsAll(c, d, by, inputs, m) /\ m + 1 \in 1..n /\ (m + 1) - 1 = m
    BY <1>5
  <2>2. e = executeInitReserve(d, by, input)
    BY <1>2, <2>1
  <2>3. IsContracts(d)
    BY <2>1 DEF ListsAll
  <2>. HIDE DEF d, e, input
  <2>4. ListsOne(d, e, by, input)
    BY <2>2, <2>3, OneIsListed
  <2>5. d.slots = c.slots
    BY <2>1, FieldsAre DEF ListsAll, Changes
  <2>6. Slot(d, by, "pool") = pool
    BY <2>5, SlotOfSlots
  <2>7. new = <<Slot(d, by, "pool"), input.asset>>
    BY <2>6 DEF input
  <2>8. /\ IsContracts(e) /\ Changes(d, e, {"contracts", "initialised", "reserves"})
        /\ Grows(d, e)
        /\ ~e.reverted => input.asset \in d.contracts /\ new \notin DOMAIN d.reserves
        /\ DOMAIN e.reserves = DOMAIN d.reserves \cup {new}
        /\ IsNewData(e.reserves[new], input.strategy)
        /\ \A r \in DOMAIN d.reserves : r # new => e.reserves[r] = d.reserves[r]
    BY <2>4, <2>7 DEF ListsOne
  <2>9. /\ Changes(c, d, {"contracts", "initialised", "reserves"})
        /\ Grows(c, d)
        /\ DOMAIN d.reserves = DOMAIN c.reserves \cup {key(i) : i \in 1..m}
        /\ ~d.reverted =>
              \A i \in 1..m : inputs[i].asset \in d.contracts /\ key(i) \notin DOMAIN c.reserves
        /\ ~d.reverted => \A r \in DOMAIN c.reserves : d.reserves[r] = c.reserves[r]
        /\ \A r \in DOMAIN d.reserves \ DOMAIN c.reserves :
              \E i \in 1..m : r = key(i) /\ IsNewData(d.reserves[r], inputs[i].strategy)
    BY <2>1 DEF ListsAll
  <2>10. 1..(m + 1) = 1..m \cup {m + 1}
    OBVIOUS
  <2>11. Changes(c, e, {"contracts", "initialised", "reserves"})
    BY <2>8, <2>9 DEF Changes
  <2>12. ~e.reverted => ~d.reverted
    BY <2>8 DEF Changes
  <2>13. {key(i) : i \in 1..(m + 1)} = {key(i) : i \in 1..m} \cup {new}
    <3>. HIDE DEF key
    <3>. QED
      BY <2>10
  <2>14. DOMAIN e.reserves = DOMAIN c.reserves \cup {key(i) : i \in 1..(m + 1)}
    BY <2>8, <2>9, <2>13
  <2>15. ASSUME ~e.reverted, NEW i \in 1..(m + 1)
         PROVE  inputs[i].asset \in e.contracts /\ key(i) \notin DOMAIN c.reserves
    BY <2>8, <2>9, <2>10, <2>12, <2>15 DEF input, Grows
  <2>16. ASSUME ~e.reverted, NEW r \in DOMAIN c.reserves PROVE e.reserves[r] = c.reserves[r]
    <3>1. r \in DOMAIN d.reserves /\ r # new
      BY <2>8, <2>9, <2>16
    <3>. QED
      BY <3>1, <2>8, <2>9, <2>12, <2>16
  <2>17. ASSUME NEW r \in DOMAIN e.reserves \ DOMAIN c.reserves
         PROVE  \E i \in 1..(m + 1) : r = key(i) /\ IsNewData(e.reserves[r], inputs[i].strategy)
    <3>1. CASE r = new
      BY <3>1, <2>8, <2>10 DEF input
    <3>2. CASE r # new
      <4>1. r \in DOMAIN d.reserves \ DOMAIN c.reserves /\ e.reserves[r] = d.reserves[r]
        BY <3>2, <2>8
      <4>. QED
        BY <4>1, <2>9, <2>10
    <3>. QED
      BY <3>1, <3>2
  <2>18. IsContracts(e) /\ Grows(c, e)
    BY <2>8, <2>9, GrowsTrans
  <2>19. ListsAll(c, e, by, inputs, m + 1)
    BY <2>11, <2>14, <2>15, <2>16, <2>17, <2>18 DEF ListsAll
  <2>. QED
    BY <2>19 DEF e
<1>6. ListsAll(c, f[n], by, inputs, n)
  <2>1. Nat \subseteq T
    <3>. HIDE DEF T
    <3>. QED
      BY <1>4, <1>5, InductionOverNat
  <2>. QED
    BY <2>1
<1>. QED
  BY <1>2, <1>6

-------------------------------------------------------------------------------
(* Setters of one reserve.                                                 *)

KeyOf(c, by, asset) == <<Slot(c, by, "pool"), asset>>

\* A setter touches these fields of one reserve, or fails.
Rewrites(c, d, by, asset, fields) ==
    LET key == KeyOf(c, by, asset)
    IN  /\ IsContracts(d) /\ Changes(c, d, {"reserves"})
        /\ DOMAIN d.reserves = DOMAIN c.reserves
        /\ \A r \in DOMAIN c.reserves : r # key => d.reserves[r] = c.reserves[r]
        /\ key \in DOMAIN c.reserves =>
              \A f \in DOMAIN Data \ fields : d.reserves[key][f] = c.reserves[key][f]
        /\ ~d.reverted => key \in DOMAIN c.reserves

LEMMA ReconfiguredRewrites ==
    ASSUME NEW c, IsContracts(c), NEW by, NEW sender, NEW asset, NEW roles, NEW changed, NEW fields,
           IsListed(c, by, asset) =>
              /\ DOMAIN changed = DOMAIN Data
              /\ \A f \in DOMAIN Data \ fields : changed[f] = ConfigurationOf(c, by, asset)[f]
    PROVE  LET d == Reconfigured(c, by, sender, asset, roles, changed)
           IN  /\ Rewrites(c, d, by, asset, fields)
               /\ ~d.reverted => /\ Allowed(c, Slot(c, by, "provider"), roles, sender)
                                 /\ d.reserves[KeyOf(c, by, asset)] = changed
<1>. DEFINE key == KeyOf(c, by, asset)
            able == Allowed(c, Slot(c, by, "provider"), roles, sender)
            d == Reconfigured(c, by, sender, asset, roles, changed)
<1>1. (IsListed(c, by, asset) <=> key \in DOMAIN c.reserves)
      /\ ConfigurationOf(c, by, asset) = c.reserves[key]
  BY DEF IsListed, ConfigurationOf, KeyOf
<1>2. d = IF IsListed(c, by, asset) /\ able
          THEN [c EXCEPT !.reserves = Written(@, key, changed)] ELSE Checked(c, FALSE)
  BY DEF Reconfigured, KeyOf
<1>. HIDE DEF d, able, key
<1>3. CASE IsListed(c, by, asset) /\ able
  <2>1. Changes(c, d, {"reserves"}) /\ d.reserves = Written(c.reserves, key, changed)
    BY <1>2, <1>3, ContractsAre, FieldsAre DEF Changes
  <2>2. /\ DOMAIN d.reserves = DOMAIN c.reserves /\ d.reserves[key] = changed
        /\ \A r \in DOMAIN c.reserves : r # key => d.reserves[r] = c.reserves[r]
    BY <2>1, <1>1, <1>3 DEF Written
  <2>3. d.contracts = c.contracts /\ d.slots = c.slots
    BY <2>1, FieldsAre DEF Changes
  <2>4. DOMAIN changed = DOMAIN Data
    BY <1>3
  <2>5. \A r \in DOMAIN d.reserves : DOMAIN d.reserves[r] = DOMAIN Data
    BY <2>2, <2>4 DEF IsContracts
  <2>6. DOMAIN d = DOMAIN NoContracts /\ d.reverted \in BOOLEAN
    BY <2>1 DEF Changes, Fields
  <2>7. IsContracts(d)
    BY <2>3, <2>5, <2>6 DEF IsContracts
  <2>8. \A f \in DOMAIN Data \ fields : d.reserves[key][f] = c.reserves[key][f]
    BY <2>2, <1>1, <1>3
  <2>9. Rewrites(c, d, by, asset, fields) /\ d.reserves[key] = changed /\ able
    BY <2>1, <2>2, <2>7, <2>8, <1>1, <1>3 DEF Rewrites, key
  <2>. QED
    BY <2>9 DEF d, key, able
<1>4. CASE ~(IsListed(c, by, asset) /\ able)
  <2>1. d = Checked(c, FALSE)
    BY <1>2, <1>4
  <2>2. Changes(c, d, {}) /\ d.reverted
    BY <2>1, ContractsAre, CheckedChanges
  <2>3. IsContracts(d)
    BY <2>2, ContractsKept
  <2>4. d.reserves = c.reserves /\ Changes(c, d, {"reserves"})
    BY <2>2, FieldsAre DEF Changes
  <2>5. Rewrites(c, d, by, asset, fields) /\ d.reverted
    BY <2>2, <2>3, <2>4 DEF Rewrites
  <2>. QED
    BY <2>5 DEF d
<1>. QED
  BY <1>3, <1>4

\* Requirements checked first and events announced last do not matter.
LEMMA CheckedRewrites ==
    ASSUME NEW c, IsContracts(c), NEW b \in BOOLEAN
    PROVE  /\ IsContracts(Checked(c, b)) /\ Changes(c, Checked(c, b), {})
           /\ \A by, asset : KeyOf(Checked(c, b), by, asset) = KeyOf(c, by, asset)
           /\ \A p, roles, sender : Allowed(Checked(c, b), p, roles, sender) <=> Allowed(c, p, roles, sender)
           /\ \A x, k : Slot(Checked(c, b), x, k) = Slot(c, x, k)
           /\ \A d, by, asset, fields :
                 Rewrites(Checked(c, b), d, by, asset, fields) => Rewrites(c, d, by, asset, fields)
<1>. DEFINE c1 == Checked(c, b)
<1>1. Changes(c, c1, {})
  BY ContractsAre, CheckedChanges
<1>. HIDE DEF c1
<1>2. IsContracts(c1)
  BY <1>1, ContractsKept
<1>3. c1.slots = c.slots /\ c1.roles = c.roles /\ c1.reserves = c.reserves
  BY <1>1, FieldsAre DEF Changes
<1>4. \A x, k : Slot(c1, x, k) = Slot(c, x, k)
  BY <1>3, SlotOfSlots
<1>5. \A by, asset : KeyOf(c1, by, asset) = KeyOf(c, by, asset)
  BY <1>4 DEF KeyOf
<1>6. \A p, roles, sender : Allowed(c1, p, roles, sender) <=> Allowed(c, p, roles, sender)
  BY <1>3, <1>4 DEF Allowed, HasRole
<1>7. ASSUME NEW d, NEW by, NEW asset, NEW fields, Rewrites(c1, d, by, asset, fields)
      PROVE  Rewrites(c, d, by, asset, fields)
  <2>1. Changes(c1, d, {"reserves"})
    BY <1>7 DEF Rewrites
  <2>2. Changes(c, d, {"reserves"})
    BY <2>1, <1>1 DEF Changes
  <2>3. KeyOf(c1, by, asset) = KeyOf(c, by, asset)
    BY <1>5
  <2>. QED
    BY <2>2, <2>3, <1>3, <1>7 DEF Rewrites
<1>8. /\ IsContracts(c1) /\ Changes(c, c1, {})
      /\ \A by, asset : KeyOf(c1, by, asset) = KeyOf(c, by, asset)
      /\ \A p, roles, sender : Allowed(c1, p, roles, sender) <=> Allowed(c, p, roles, sender)
      /\ \A x, k : Slot(c1, x, k) = Slot(c, x, k)
      /\ \A d, by, asset, fields : Rewrites(c1, d, by, asset, fields) => Rewrites(c, d, by, asset, fields)
  BY <1>1, <1>2, <1>4, <1>5, <1>6, <1>7
<1>. QED
  BY <1>8 DEF c1

LEMMA EmittedRewrites ==
    ASSUME NEW c, NEW d, NEW by, NEW asset, NEW fields, Rewrites(c, d, by, asset, fields), NEW event
    PROVE  /\ Rewrites(c, Emitted(d, event), by, asset, fields)
           /\ Emitted(d, event).reverted = d.reverted
           /\ Emitted(d, event).reserves = d.reserves
<1>. DEFINE e == Emitted(d, event)
<1>1. IsContracts(d) /\ Changes(c, d, {"reserves"})
  BY DEF Rewrites
<1>2. Changes(d, e, {}) /\ e.reverted = d.reverted
  BY <1>1, ContractsAre, EmittedChanges
<1>. HIDE DEF e
<1>3. IsContracts(e)
  BY <1>1, <1>2, ContractsKept
<1>4. Changes(c, e, {"reserves"}) /\ e.reserves = d.reserves
  BY <1>1, <1>2, FieldsAre DEF Changes
<1>5. Rewrites(c, e, by, asset, fields)
  BY <1>2, <1>3, <1>4 DEF Rewrites
<1>. QED
  BY <1>2, <1>4, <1>5 DEF e

\* The value of one field is set.
Sets(c, d, by, asset, field, value) ==
    /\ Rewrites(c, d, by, asset, {field})
    /\ ~d.reverted => d.reserves[KeyOf(c, by, asset)][field] = value

LEMMA FieldSets ==
    ASSUME NEW c, IsContracts(c), NEW by, NEW sender, NEW asset, NEW field \in DOMAIN Data, NEW value
    PROVE  Sets(c, Field(c, by, sender, asset, field, value), by, asset, field, value)
<1>. DEFINE old == ConfigurationOf(c, by, asset)
            changed == [old EXCEPT ![field] = value]
            d == Field(c, by, sender, asset, field, value)
<1>1. d = Reconfigured(c, by, sender, asset, RiskOrPoolAdmins, changed)
  BY DEF Field
<1>2. IsListed(c, by, asset) => DOMAIN old = DOMAIN Data
  BY DEF IsListed, ConfigurationOf, IsContracts
<1>. HIDE DEF old
<1>3. IsListed(c, by, asset) =>
         /\ DOMAIN changed = DOMAIN Data /\ changed[field] = value
         /\ \A f \in DOMAIN Data \ {field} : changed[f] = old[f]
  BY <1>2
<1>. HIDE DEF d, changed
<1>4. /\ Rewrites(c, d, by, asset, {field})
      /\ ~d.reverted => d.reserves[KeyOf(c, by, asset)] = changed
  <2>1. IsListed(c, by, asset) =>
           /\ DOMAIN changed = DOMAIN Data
           /\ \A f \in DOMAIN Data \ {field} : changed[f] = ConfigurationOf(c, by, asset)[f]
    BY <1>3 DEF old
  <2>. QED
    BY <1>1, <2>1, ReconfiguredRewrites
<1>5. ~d.reverted => IsListed(c, by, asset)
  BY <1>4 DEF Rewrites, IsListed, KeyOf
<1>6. Sets(c, d, by, asset, field, value)
  BY <1>3, <1>4, <1>5 DEF Sets
<1>. QED
  BY <1>6 DEF d

LEMMA EmittedSets ==
    ASSUME NEW c, NEW d, NEW by, NEW asset, NEW field, NEW value,
           Sets(c, d, by, asset, field, value), NEW event
    PROVE  Sets(c, Emitted(d, event), by, asset, field, value)
<1>1. Rewrites(c, d, by, asset, {field})
  BY DEF Sets
<1>. DEFINE e == Emitted(d, event)
<1>2. Rewrites(c, e, by, asset, {field}) /\ e.reverted = d.reverted /\ e.reserves = d.reserves
  BY <1>1, EmittedRewrites
<1>. HIDE DEF e
<1>3. Sets(c, e, by, asset, field, value)
  BY <1>2 DEF Sets
<1>. QED
  BY <1>3 DEF e

LEMMA CheckedFieldSets ==
    ASSUME NEW c, IsContracts(c), NEW b \in BOOLEAN, NEW by, NEW sender, NEW asset,
           NEW field \in DOMAIN Data, NEW value
    PROVE  Sets(c, Field(Checked(c, b), by, sender, asset, field, value), by, asset, field, value)
<1>. DEFINE c1 == Checked(c, b)
            d == Field(c1, by, sender, asset, field, value)
<1>1. /\ IsContracts(c1) /\ KeyOf(c1, by, asset) = KeyOf(c, by, asset)
      /\ Rewrites(c1, d, by, asset, {field}) => Rewrites(c, d, by, asset, {field})
  BY CheckedRewrites
<1>. HIDE DEF c1
<1>2. Sets(c1, d, by, asset, field, value)
  BY <1>1, FieldSets
<1>. HIDE DEF d
<1>3. Sets(c, d, by, asset, field, value)
  BY <1>1, <1>2 DEF Sets
<1>. QED
  BY <1>3 DEF d, c1

LEMMA DataFields ==
    DOMAIN Data = {"bToken", "sToken", "vToken", "reserveInterestRateStrategy",
                   "baseLTVasCollateral", "reserveLiquidationThreshold", "reserveLiquidationBonus",
                   "reserveFactor", "borrowCap", "supplyCap", "unbackedMintCap", "debtCeiling",
                   "liquidationProtocolFee", "eMode", "isActive", "isFrozen", "isPaused",
                   "borrowingEnabled", "stableBorrowRateEnabled", "flashLoanEnabled",
                   "siloedBorrowing", "borrowableInIsolation"}
BY DEF Data, NewReserveData

\* The three settings of the collateral are set together, by who may.
SetsCollateral(c, d, by, sender, asset, ltv, threshold, bonus) ==
    /\ Rewrites(c, d, by, asset,
                {"baseLTVasCollateral", "reserveLiquidationThreshold", "reserveLiquidationBonus"})
    /\ ~d.reverted =>
          LET data == d.reserves[KeyOf(c, by, asset)]
          IN  /\ data.baseLTVasCollateral = ltv /\ data.reserveLiquidationThreshold = threshold
              /\ data.reserveLiquidationBonus = bonus
              /\ Allowed(c, Slot(c, by, "provider"), RiskOrPoolAdmins, sender)

LEMMA CollateralIsSet ==
    ASSUME NEW c, IsContracts(c), NEW by, NEW sender, NEW asset, NEW ltv, NEW threshold, NEW bonus
    PROVE  SetsCollateral(c, configureReserveAsCollateral(c, by, sender, asset, ltv, threshold, bonus),
                          by, sender, asset, ltv, threshold, bonus)
<1>. DEFINE valid == /\ ltv <= threshold
                     /\ IF threshold # 0
                        THEN /\ bonus > PERCENTAGE_FACTOR
                             /\ PercentMul(threshold, bonus) <= PERCENTAGE_FACTOR
                        ELSE bonus = 0
            c1 == Checked(c, valid)
            old == ConfigurationOf(c, by, asset)
            changed == [old EXCEPT !.baseLTVasCollateral = ltv,
                                   !.reserveLiquidationThreshold = threshold,
                                   !.reserveLiquidationBonus = bonus]
            touched == {"baseLTVasCollateral", "reserveLiquidationThreshold",
                        "reserveLiquidationBonus"}
            d == Reconfigured(c1, by, sender, asset, RiskOrPoolAdmins, changed)
            event == CollateralConfigurationChanged(by, asset, ltv, threshold, bonus)
            e == configureReserveAsCollateral(c, by, sender, asset, ltv, threshold, bonus)
<1>1. e = Emitted(d, event)
  BY Zenon DEF configureReserveAsCollateral
<1>2. valid \in BOOLEAN
  OBVIOUS
<1>. HIDE DEF valid, e, event
<1>3. /\ IsContracts(c1) /\ Changes(c, c1, {}) /\ KeyOf(c1, by, asset) = KeyOf(c, by, asset)
      /\ Slot(c1, by, "provider") = Slot(c, by, "provider")
      /\ \A p : Allowed(c1, p, RiskOrPoolAdmins, sender) <=> Allowed(c, p, RiskOrPoolAdmins, sender)
      /\ \A x : Rewrites(c1, x, by, asset, touched) => Rewrites(c, x, by, asset, touched)
  <2>. HIDE DEF touched
  <2>. QED
    BY <1>2, CheckedRewrites
<1>. HIDE DEF c1
<1>4. c1.reserves = c.reserves
  BY <1>3, FieldsAre DEF Changes
<1>5. ConfigurationOf(c1, by, asset) = old /\ (IsListed(c1, by, asset) <=> IsListed(c, by, asset))
  BY <1>3, <1>4 DEF ConfigurationOf, IsListed, KeyOf
<1>6. IsListed(c1, by, asset) => DOMAIN old = DOMAIN Data
  BY <1>3, <1>5 DEF IsListed, ConfigurationOf, IsContracts
<1>. HIDE DEF old
<1>7. IsListed(c1, by, asset) =>
         /\ DOMAIN changed = DOMAIN Data /\ changed.baseLTVasCollateral = ltv
         /\ changed.reserveLiquidationThreshold = threshold
         /\ changed.reserveLiquidationBonus = bonus
         /\ \A f \in DOMAIN Data \ touched : changed[f] = old[f]
  BY <1>6, DataFields
<1>. HIDE DEF changed, touched
<1>8. /\ Rewrites(c1, d, by, asset, touched)
      /\ ~d.reverted => /\ Allowed(c1, Slot(c1, by, "provider"), RiskOrPoolAdmins, sender)
                        /\ d.reserves[KeyOf(c1, by, asset)] = changed
  <2>1. IsListed(c1, by, asset) =>
           /\ DOMAIN changed = DOMAIN Data
           /\ \A f \in DOMAIN Data \ touched : changed[f] = ConfigurationOf(c1, by, asset)[f]
    BY <1>5, <1>7
  <2>. QED
    BY <1>3, <2>1, ReconfiguredRewrites
<1>. HIDE DEF d
<1>9. /\ Rewrites(c, d, by, asset, touched)
      /\ ~d.reverted => /\ Allowed(c, Slot(c, by, "provider"), RiskOrPoolAdmins, sender)
                        /\ d.reserves[KeyOf(c, by, asset)] = changed
  BY <1>3, <1>8
<1>10. ~d.reverted => IsListed(c1, by, asset)
  BY <1>5, <1>9 DEF Rewrites, IsListed, KeyOf
<1>11. Rewrites(c, e, by, asset, touched) /\ e.reverted = d.reverted /\ e.reserves = d.reserves
  BY <1>1, <1>9, EmittedRewrites
<1>12. SetsCollateral(c, e, by, sender, asset, ltv, threshold, bonus)
  BY <1>7, <1>9, <1>10, <1>11 DEF SetsCollateral, touched
<1>. QED
  BY <1>12 DEF e

LEMMA SettersSet ==
    ASSUME NEW c, IsContracts(c), NEW by, NEW sender, NEW asset, NEW value
    PROVE  /\ Sets(c, setBorrowCap(c, by, sender, asset, value), by, asset, "borrowCap", value)
           /\ Sets(c, setSupplyCap(c, by, sender, asset, value), by, asset, "supplyCap", value)
           /\ Sets(c, setReserveFactor(c, by, sender, asset, value), by, asset,
                   "reserveFactor", value)
           /\ Sets(c, setReserveFlashLoaning(c, by, sender, asset, value), by, asset,
                   "flashLoanEnabled", value)
<1>1. Sets(c, setBorrowCap(c, by, sender, asset, value), by, asset, "borrowCap", value)
  <2>. DEFINE d == Field(c, by, sender, asset, "borrowCap", value)
              event == BorrowCapChanged(by, asset, value)
  <2>1. setBorrowCap(c, by, sender, asset, value) = Emitted(d, event)
    BY DEF setBorrowCap
  <2>2. Sets(c, d, by, asset, "borrowCap", value)
    BY DataFields, FieldSets
  <2>. HIDE DEF d, event
  <2>. QED
    BY <2>1, <2>2, EmittedSets
<1>2. Sets(c, setSupplyCap(c, by, sender, asset, value), by, asset, "supplyCap", value)
  <2>. DEFINE d == Field(c, by, sender, asset, "supplyCap", value)
              event == SupplyCapChanged(by, asset, value)
  <2>1. setSupplyCap(c, by, sender, asset, value) = Emitted(d, event)
    BY DEF setSupplyCap
  <2>2. Sets(c, d, by, asset, "supplyCap", value)
    BY DataFields, FieldSets
  <2>. HIDE DEF d, event
  <2>. QED
    BY <2>1, <2>2, EmittedSets
<1>3. Sets(c, setReserveFactor(c, by, sender, asset, value), by, asset, "reserveFactor", value)
  <2>. DEFINE fits == value <= PERCENTAGE_FACTOR
              d == Field(Checked(c, fits), by, sender, asset, "reserveFactor", value)
              event == ReserveFactorChanged(by, asset, value)
  <2>1. setReserveFactor(c, by, sender, asset, value) = Emitted(d, event) /\ fits \in BOOLEAN
    BY DEF setReserveFactor
  <2>. HIDE DEF fits
  <2>2. Sets(c, d, by, asset, "reserveFactor", value)
    BY <2>1, DataFields, CheckedFieldSets
  <2>. HIDE DEF d, event
  <2>. QED
    BY <2>1, <2>2, EmittedSets
<1>4. Sets(c, setReserveFlashLoaning(c, by, sender, asset, value), by, asset,
           "flashLoanEnabled", value)
  BY DataFields, FieldSets DEF setReserveFlashLoaning
<1>. QED
  BY <1>1, <1>2, <1>3, <1>4

LEMMA BorrowingIsSet ==
    ASSUME NEW c, IsContracts(c), NEW by, NEW sender, NEW asset, NEW value \in BOOLEAN
    PROVE  /\ Sets(c, setReserveBorrowing(c, by, sender, asset, value), by, asset,
                   "borrowingEnabled", value)
           /\ Sets(c, setReserveStableRateBorrowing(c, by, sender, asset, value), by, asset,
                   "stableBorrowRateEnabled", value)
<1>1. Sets(c, setReserveBorrowing(c, by, sender, asset, value), by, asset, "borrowingEnabled", value)
  <2>. DEFINE unused == IsListed(c, by, asset)
                        /\ ~ConfigurationOf(c, by, asset).stableBorrowRateEnabled
              able == value \/ unused
              d == Field(Checked(c, able), by, sender, asset, "borrowingEnabled", value)
              event == ReserveBorrowing(by, asset, value)
  <2>1. setReserveBorrowing(c, by, sender, asset, value) = Emitted(d, event)
    BY Zenon DEF setReserveBorrowing
  <2>2. able \in BOOLEAN
    OBVIOUS
  <2>. HIDE DEF able
  <2>3. Sets(c, d, by, asset, "borrowingEnabled", value)
    BY <2>2, DataFields, CheckedFieldSets
  <2>. HIDE DEF d, event
  <2>. QED
    BY <2>1, <2>3, EmittedSets
<1>2. Sets(c, setReserveStableRateBorrowing(c, by, sender, asset, value), by, asset,
           "stableBorrowRateEnabled", value)
  <2>. DEFINE borrowable == IsListed(c, by, asset) /\ ConfigurationOf(c, by, asset).borrowingEnabled
              able == ~value \/ borrowable
              d == Field(Checked(c, able), by, sender, asset, "stableBorrowRateEnabled", value)
              event == ReserveStableRateBorrowing(by, asset, value)
  <2>1. setReserveStableRateBorrowing(c, by, sender, asset, value) = Emitted(d, event)
    BY Zenon DEF setReserveStableRateBorrowing
  <2>2. able \in BOOLEAN
    OBVIOUS
  <2>. HIDE DEF able
  <2>3. Sets(c, d, by, asset, "stableBorrowRateEnabled", value)
    BY <2>2, DataFields, CheckedFieldSets
  <2>. HIDE DEF d, event
  <2>. QED
    BY <2>1, <2>3, EmittedSets
<1>. QED
  BY <1>1, <1>2

LEMMA RewritesKept ==
    ASSUME NEW c, NEW d, NEW e, NEW by, NEW asset, NEW F, NEW G,
           Rewrites(c, d, by, asset, F), Rewrites(d, e, by, asset, G)
    PROVE  /\ KeyOf(d, by, asset) = KeyOf(c, by, asset)
           /\ ~e.reverted =>
                 /\ ~d.reverted
                 /\ \A f \in DOMAIN Data \ G :
                       e.reserves[KeyOf(c, by, asset)][f] = d.reserves[KeyOf(c, by, asset)][f]
<1>. DEFINE key == KeyOf(c, by, asset)
<1>1. Changes(c, d, {"reserves"}) /\ Changes(d, e, {"reserves"})
  BY DEF Rewrites
<1>2. c.slots = d.slots
  BY <1>1, FieldsAre DEF Changes
<1>3. KeyOf(d, by, asset) = key
  BY <1>2, SlotOfSlots DEF KeyOf
<1>. HIDE DEF key
<1>4. ~e.reverted => ~d.reverted
  BY <1>1, FieldsAre DEF Changes
<1>5. DOMAIN d.reserves = DOMAIN c.reserves /\ (~d.reverted => key \in DOMAIN c.reserves)
  BY DEF Rewrites, key
<1>6. key \in DOMAIN d.reserves =>
         \A f \in DOMAIN Data \ G : e.reserves[key][f] = d.reserves[key][f]
  BY <1>3 DEF Rewrites
<1>7. ~e.reverted => /\ ~d.reverted
                     /\ \A f \in DOMAIN Data \ G : e.reserves[key][f] = d.reserves[key][f]
  BY <1>4, <1>5, <1>6
<1>. QED
  BY <1>3, <1>7 DEF key

LEMMA RewritesTrans ==
    ASSUME NEW c, NEW d, NEW e, NEW by, NEW asset, NEW F, NEW G,
           Rewrites(c, d, by, asset, F), Rewrites(d, e, by, asset, G)
    PROVE  Rewrites(c, e, by, asset, F \cup G)
<1>. DEFINE key == KeyOf(c, by, asset)
<1>1. Changes(c, d, {"reserves"}) /\ Changes(d, e, {"reserves"}) /\ IsContracts(e)
  BY DEF Rewrites
<1>2. KeyOf(d, by, asset) = key /\ (~e.reverted => ~d.reverted)
  BY RewritesKept
<1>. HIDE DEF key
<1>3. Changes(c, e, {"reserves"})
  BY <1>1, FieldsAre DEF Changes
<1>4. /\ DOMAIN d.reserves = DOMAIN c.reserves
      /\ \A r \in DOMAIN c.reserves : r # key => d.reserves[r] = c.reserves[r]
      /\ key \in DOMAIN c.reserves =>
            \A f \in DOMAIN Data \ F : d.reserves[key][f] = c.reserves[key][f]
      /\ ~d.reverted => key \in DOMAIN c.reserves
  BY DEF Rewrites, key
<1>5. /\ DOMAIN e.reserves = DOMAIN d.reserves
      /\ \A r \in DOMAIN d.reserves : r # key => e.reserves[r] = d.reserves[r]
      /\ key \in DOMAIN d.reserves =>
            \A f \in DOMAIN Data \ G : e.reserves[key][f] = d.reserves[key][f]
  BY <1>2 DEF Rewrites
<1>. QED
  BY <1>1, <1>2, <1>3, <1>4, <1>5 DEF Rewrites, key

Collateral == {"baseLTVasCollateral", "reserveLiquidationThreshold", "reserveLiquidationBonus"}

Borrowing == {"borrowingEnabled", "borrowCap", "stableBorrowRateEnabled"}

Limits == {"flashLoanEnabled", "supplyCap", "reserveFactor"}

\* What ConfigureReserve does for an asset that can be borrowed.
SetBorrowing(c, by, sender, asset, cap, stable) ==
    setReserveStableRateBorrowing(
        setBorrowCap(setReserveBorrowing(c, by, sender, asset, TRUE), by, sender, asset, cap),
        by, sender, asset, stable)

SetsBorrowing(c, d, by, asset, cap, stable) ==
    /\ Rewrites(c, d, by, asset, Borrowing)
    /\ ~d.reverted =>
          LET data == d.reserves[KeyOf(c, by, asset)]
          IN  /\ data.borrowingEnabled = TRUE /\ data.borrowCap = cap
              /\ data.stableBorrowRateEnabled = stable

LEMMA BorrowingPart ==
    ASSUME NEW c, IsContracts(c), NEW by, NEW sender, NEW asset, NEW cap, NEW stable \in BOOLEAN
    PROVE  SetsBorrowing(c, SetBorrowing(c, by, sender, asset, cap, stable), by, asset, cap, stable)
<1>. DEFINE key == KeyOf(c, by, asset)
            c1 == setReserveBorrowing(c, by, sender, asset, TRUE)
            c2 == setBorrowCap(c1, by, sender, asset, cap)
            d == SetBorrowing(c, by, sender, asset, cap, stable)
<1>0. d = setReserveStableRateBorrowing(c2, by, sender, asset, stable)
  BY DEF SetBorrowing
<1>1. Sets(c, c1, by, asset, "borrowingEnabled", TRUE)
  BY BorrowingIsSet
<1>. HIDE DEF c1
<1>2. IsContracts(c1)
  BY <1>1 DEF Sets, Rewrites
<1>3. Sets(c1, c2, by, asset, "borrowCap", cap)
  BY <1>2, SettersSet
<1>. HIDE DEF c2
<1>4. IsContracts(c2)
  BY <1>3 DEF Sets, Rewrites
<1>5. Sets(c2, d, by, asset, "stableBorrowRateEnabled", stable)
  BY <1>0, <1>4, BorrowingIsSet
<1>. HIDE DEF d, key
<1>6. /\ Rewrites(c, c2, by, asset, {"borrowingEnabled"} \cup {"borrowCap"})
      /\ KeyOf(c1, by, asset) = key
      /\ ~c2.reverted =>
            /\ ~c1.reverted
            /\ \A f \in DOMAIN Data \ {"borrowCap"} : c2.reserves[key][f] = c1.reserves[key][f]
  <2>1. Rewrites(c, c1, by, asset, {"borrowingEnabled"}) /\ Rewrites(c1, c2, by, asset, {"borrowCap"})
    BY <1>1, <1>3 DEF Sets
  <2>. QED
    BY <2>1, RewritesTrans, RewritesKept DEF key
<1>7. /\ Rewrites(c, d, by, asset, ({"borrowingEnabled"} \cup {"borrowCap"})
                                      \cup {"stableBorrowRateEnabled"})
      /\ KeyOf(c2, by, asset) = key
      /\ ~d.reverted =>
            /\ ~c2.reverted
            /\ \A f \in DOMAIN Data \ {"stableBorrowRateEnabled"} :
                  d.reserves[key][f] = c2.reserves[key][f]
  <2>1. Rewrites(c2, d, by, asset, {"stableBorrowRateEnabled"})
    BY <1>5 DEF Sets
  <2>2. Rewrites(c, d, by, asset, ({"borrowingEnabled"} \cup {"borrowCap"})
                                        \cup {"stableBorrowRateEnabled"})
    BY <1>6, <2>1, RewritesTrans
  <2>3. /\ KeyOf(c2, by, asset) = KeyOf(c, by, asset)
        /\ ~d.reverted =>
              /\ ~c2.reverted
              /\ \A f \in DOMAIN Data \ {"stableBorrowRateEnabled"} :
                    d.reserves[KeyOf(c, by, asset)][f] = c2.reserves[KeyOf(c, by, asset)][f]
    BY <1>6, <2>1, RewritesKept
  <2>. QED
    BY <2>2, <2>3 DEF key
<1>8. ({"borrowingEnabled"} \cup {"borrowCap"}) \cup {"stableBorrowRateEnabled"} = Borrowing
  BY DEF Borrowing
<1>9. ASSUME ~d.reverted
      PROVE  /\ d.reserves[key].borrowingEnabled = TRUE /\ d.reserves[key].borrowCap = cap
             /\ d.reserves[key].stableBorrowRateEnabled = stable
  BY <1>1, <1>3, <1>5, <1>6, <1>7, <1>9, DataFields DEF Sets, key
<1>10. Rewrites(c, d, by, asset, Borrowing)
  BY <1>7, <1>8
<1>11. SetsBorrowing(c, d, by, asset, cap, stable)
  BY <1>9, <1>10 DEF SetsBorrowing, key
<1>. QED
  BY <1>11 DEF d

LEMMA LimitsPart ==
    ASSUME NEW c, IsContracts(c), NEW by, NEW sender, NEW asset, NEW flash, NEW cap, NEW factor
    PROVE  LET d == setReserveFactor(
                        setSupplyCap(setReserveFlashLoaning(c, by, sender, asset, flash),
                                     by, sender, asset, cap),
                        by, sender, asset, factor)
               data == d.reserves[KeyOf(c, by, asset)]
           IN  /\ Rewrites(c, d, by, asset, Limits)
               /\ ~d.reverted => /\ data.flashLoanEnabled = flash /\ data.supplyCap = cap
                                 /\ data.reserveFactor = factor
<1>. DEFINE key == KeyOf(c, by, asset)
            c1 == setReserveFlashLoaning(c, by, sender, asset, flash)
            c2 == setSupplyCap(c1, by, sender, asset, cap)
            d == setReserveFactor(c2, by, sender, asset, factor)
<1>1. Sets(c, c1, by, asset, "flashLoanEnabled", flash)
  BY SettersSet
<1>. HIDE DEF c1
<1>2. IsContracts(c1)
  BY <1>1 DEF Sets, Rewrites
<1>3. Sets(c1, c2, by, asset, "supplyCap", cap)
  BY <1>2, SettersSet
<1>. HIDE DEF c2
<1>4. IsContracts(c2)
  BY <1>3 DEF Sets, Rewrites
<1>5. Sets(c2, d, by, asset, "reserveFactor", factor)
  BY <1>4, SettersSet
<1>. HIDE DEF d, key
<1>6. /\ Rewrites(c, c2, by, asset, {"flashLoanEnabled"} \cup {"supplyCap"})
      /\ KeyOf(c1, by, asset) = key
      /\ ~c2.reverted =>
            /\ ~c1.reverted
            /\ \A f \in DOMAIN Data \ {"supplyCap"} : c2.reserves[key][f] = c1.reserves[key][f]
  <2>1. Rewrites(c, c1, by, asset, {"flashLoanEnabled"}) /\ Rewrites(c1, c2, by, asset, {"supplyCap"})
    BY <1>1, <1>3 DEF Sets
  <2>. QED
    BY <2>1, RewritesTrans, RewritesKept DEF key
<1>7. /\ Rewrites(c, d, by, asset, ({"flashLoanEnabled"} \cup {"supplyCap"}) \cup {"reserveFactor"})
      /\ KeyOf(c2, by, asset) = key
      /\ ~d.reverted =>
            /\ ~c2.reverted
            /\ \A f \in DOMAIN Data \ {"reserveFactor"} : d.reserves[key][f] = c2.reserves[key][f]
  <2>1. Rewrites(c2, d, by, asset, {"reserveFactor"})
    BY <1>5 DEF Sets
  <2>2. Rewrites(c, d, by, asset, ({"flashLoanEnabled"} \cup {"supplyCap"}) \cup {"reserveFactor"})
    BY <1>6, <2>1, RewritesTrans
  <2>3. /\ KeyOf(c2, by, asset) = KeyOf(c, by, asset)
        /\ ~d.reverted =>
              /\ ~c2.reverted
              /\ \A f \in DOMAIN Data \ {"reserveFactor"} :
                    d.reserves[KeyOf(c, by, asset)][f] = c2.reserves[KeyOf(c, by, asset)][f]
    BY <1>6, <2>1, RewritesKept
  <2>. QED
    BY <2>2, <2>3 DEF key
<1>8. ({"flashLoanEnabled"} \cup {"supplyCap"}) \cup {"reserveFactor"} = Limits
  BY DEF Limits
<1>9. ASSUME ~d.reverted
      PROVE  /\ d.reserves[key].flashLoanEnabled = flash /\ d.reserves[key].supplyCap = cap
             /\ d.reserves[key].reserveFactor = factor
  BY <1>1, <1>3, <1>5, <1>6, <1>7, <1>9, DataFields DEF Sets, key
<1>10. Rewrites(c, d, by, asset, Limits)
  BY <1>7, <1>8
<1>. QED
  BY <1>9, <1>10 DEF d, c2, c1, key

\* The settings of a reserve are those of p; it was old before.
AsIn(data, old, p) ==
    /\ data.baseLTVasCollateral = p.baseLTV
    /\ data.reserveLiquidationThreshold = p.liquidationThreshold
    /\ data.reserveLiquidationBonus = p.liquidationBonus
    /\ data.flashLoanEnabled = p.flashLoanEnabled
    /\ data.supplyCap = p.supplyCap /\ data.reserveFactor = p.reserveFactor
    /\ data.reserveInterestRateStrategy = old.reserveInterestRateStrategy
    /\ IF p.borrowingEnabled
       THEN /\ data.borrowingEnabled = TRUE /\ data.borrowCap = p.borrowCap
            /\ data.stableBorrowRateEnabled = p.stableBorrowingEnabled
       ELSE \A f \in Borrowing : data[f] = old[f]

ConfiguresOne(c, d, helper, by, p) ==
    /\ Rewrites(c, d, by, p.asset, Collateral \cup Borrowing \cup Limits)
    /\ ~d.reverted =>
          /\ AsIn(d.reserves[KeyOf(c, by, p.asset)], c.reserves[KeyOf(c, by, p.asset)], p)
          /\ Allowed(c, Slot(c, by, "provider"), RiskOrPoolAdmins, helper)

LEMMA RewritesMore ==
    ASSUME NEW c, NEW d, NEW by, NEW asset, NEW F, NEW G, Rewrites(c, d, by, asset, F), F \subseteq G
    PROVE  Rewrites(c, d, by, asset, G)
BY DEF Rewrites

LEMMA OneIsConfigured ==
    ASSUME NEW c, IsContracts(c), NEW helper, NEW by, NEW p,
           p.borrowingEnabled \in BOOLEAN, p.stableBorrowingEnabled \in BOOLEAN
    PROVE  ConfiguresOne(c, ConfigureReserve(c, helper, by, p), helper, by, p)
<1>. DEFINE a == p.asset
            key == KeyOf(c, by, a)
            c1 == configureReserveAsCollateral(c, by, helper, a, p.baseLTV,
                                               p.liquidationThreshold, p.liquidationBonus)
            set == SetBorrowing(c1, by, helper, a, p.borrowCap, p.stableBorrowingEnabled)
            c2 == IF p.borrowingEnabled THEN set ELSE c1
            d == setReserveFactor(
                     setSupplyCap(setReserveFlashLoaning(c2, by, helper, a, p.flashLoanEnabled),
                                  by, helper, a, p.supplyCap),
                     by, helper, a, p.reserveFactor)
<1>1. ConfigureReserve(c, helper, by, p) = d
  BY Zenon DEF ConfigureReserve, SetBorrowing
<1>2. SetsCollateral(c, c1, by, helper, a, p.baseLTV, p.liquidationThreshold, p.liquidationBonus)
  BY CollateralIsSet
<1>. HIDE DEF c1
<1>3. Rewrites(c, c1, by, a, Collateral) /\ IsContracts(c1)
  <2>1. Rewrites(c, c1, by, a, Collateral)
    BY <1>2 DEF SetsCollateral, Collateral
  <2>. QED
    BY <2>1 DEF Rewrites
<1>4. KeyOf(c1, by, a) = key
  <2>2. Changes(c, c1, {"reserves"})
    BY <1>3 DEF Rewrites
  <2>3. c1.slots = c.slots
    BY <2>2, FieldsAre DEF Changes
  <2>. QED
    BY <2>3, SlotOfSlots DEF KeyOf
<1>. HIDE DEF key, a
<1>5. /\ Rewrites(c, c2, by, a, Collateral \cup Borrowing) /\ IsContracts(c2)
      /\ KeyOf(c2, by, a) = key
      /\ ~c2.reverted =>
            /\ ~c1.reverted
            /\ \A f \in DOMAIN Data \ Borrowing : c2.reserves[key][f] = c1.reserves[key][f]
            /\ IF p.borrowingEnabled
               THEN /\ c2.reserves[key].borrowingEnabled = TRUE
                    /\ c2.reserves[key].borrowCap = p.borrowCap
                    /\ c2.reserves[key].stableBorrowRateEnabled = p.stableBorrowingEnabled
               ELSE \A f \in Borrowing : c2.reserves[key][f] = c.reserves[key][f]
  <2>1. CASE p.borrowingEnabled
    <3>1. /\ Rewrites(c1, set, by, a, Borrowing)
          /\ ~set.reverted => /\ set.reserves[KeyOf(c1, by, a)].borrowingEnabled = TRUE
                              /\ set.reserves[KeyOf(c1, by, a)].borrowCap = p.borrowCap
                              /\ set.reserves[KeyOf(c1, by, a)].stableBorrowRateEnabled
                                   = p.stableBorrowingEnabled
      <4>1. SetsBorrowing(c1, set, by, a, p.borrowCap, p.stableBorrowingEnabled)
        BY <1>3, BorrowingPart
      <4>. QED
        BY <4>1 DEF SetsBorrowing
    <3>2. c2 = set
      BY <2>1
    <3>. HIDE DEF set, c2
    <3>3. Rewrites(c1, c2, by, a, Borrowing)
      BY <3>1, <3>2
    <3>4. /\ Rewrites(c, c2, by, a, Collateral \cup Borrowing)
          /\ ~c2.reverted =>
                /\ ~c1.reverted
                /\ \A f \in DOMAIN Data \ Borrowing :
                      c2.reserves[KeyOf(c, by, a)][f] = c1.reserves[KeyOf(c, by, a)][f]
      BY <1>3, <3>3, RewritesTrans, RewritesKept
    <3>5. IsContracts(c2) /\ Changes(c1, c2, {"reserves"})
      BY <3>3 DEF Rewrites
    <3>6. c2.slots = c1.slots
      BY <3>5, FieldsAre DEF Changes
    <3>7. KeyOf(c2, by, a) = KeyOf(c1, by, a)
      BY <3>6, SlotOfSlots DEF KeyOf
    <3>. QED
      BY <3>1, <3>2, <3>4, <3>5, <3>7, <1>4, <2>1 DEF key
  <2>2. CASE ~p.borrowingEnabled
    <3>1. c2 = c1
      BY <2>2
    <3>. HIDE DEF c2
    <3>2. Rewrites(c, c2, by, a, Collateral \cup Borrowing)
      BY <3>1, <1>3, RewritesMore
    <3>3. ASSUME ~c2.reverted, NEW f \in Borrowing PROVE c2.reserves[key][f] = c.reserves[key][f]
      <4>1. key \in DOMAIN c.reserves
        BY <3>1, <3>3, <1>3 DEF Rewrites, key
      <4>2. f \in DOMAIN Data \ Collateral
        BY DataFields DEF Borrowing, Collateral
      <4>. QED
        BY <4>1, <4>2, <3>1, <1>3 DEF Rewrites, key
    <3>. QED
      BY <3>1, <3>2, <3>3, <1>3, <1>4, <2>2
  <2>. QED
    BY <2>1, <2>2
<1>. HIDE DEF c2
<1>6. /\ Rewrites(c2, d, by, a, Limits)
      /\ ~d.reverted => /\ d.reserves[KeyOf(c2, by, a)].flashLoanEnabled = p.flashLoanEnabled
                        /\ d.reserves[KeyOf(c2, by, a)].supplyCap = p.supplyCap
                        /\ d.reserves[KeyOf(c2, by, a)].reserveFactor = p.reserveFactor
  BY <1>5, LimitsPart
<1>. HIDE DEF d
<1>7. /\ Rewrites(c, d, by, a, Collateral \cup Borrowing \cup Limits)
      /\ ~d.reverted =>
            /\ ~c2.reverted
            /\ \A f \in DOMAIN Data \ Limits : d.reserves[key][f] = c2.reserves[key][f]
  <2>1. /\ Rewrites(c, d, by, a, (Collateral \cup Borrowing) \cup Limits)
        /\ ~d.reverted =>
              /\ ~c2.reverted
              /\ \A f \in DOMAIN Data \ Limits :
                    d.reserves[KeyOf(c, by, a)][f] = c2.reserves[KeyOf(c, by, a)][f]
    BY <1>5, <1>6, RewritesTrans, RewritesKept
  <2>. QED
    BY <2>1 DEF key
<1>8. ASSUME ~d.reverted
      PROVE  /\ AsIn(d.reserves[key], c.reserves[key], p)
             /\ Allowed(c, Slot(c, by, "provider"), RiskOrPoolAdmins, helper)
  <2>. DEFINE data == d.reserves[key]
              old == c.reserves[key]
  <2>1. ~c2.reverted /\ ~c1.reverted
    BY <1>5, <1>7, <1>8
  <2>2. /\ Allowed(c, Slot(c, by, "provider"), RiskOrPoolAdmins, helper)
        /\ c1.reserves[key].baseLTVasCollateral = p.baseLTV
        /\ c1.reserves[key].reserveLiquidationThreshold = p.liquidationThreshold
        /\ c1.reserves[key].reserveLiquidationBonus = p.liquidationBonus
    BY <1>2, <2>1 DEF SetsCollateral, key, a
  <2>3. \A f \in Collateral : data[f] = c1.reserves[key][f]
    <3>1. Collateral \subseteq (DOMAIN Data \ Borrowing) \cap (DOMAIN Data \ Limits)
      BY DataFields DEF Collateral, Borrowing, Limits
    <3>. QED
      BY <3>1, <1>5, <1>7, <1>8, <2>1
  <2>4. \A f \in Borrowing : data[f] = c2.reserves[key][f]
    <3>1. Borrowing \subseteq DOMAIN Data \ Limits
      BY DataFields DEF Borrowing, Limits
    <3>. QED
      BY <3>1, <1>7, <1>8
  <2>5. data.flashLoanEnabled = p.flashLoanEnabled /\ data.supplyCap = p.supplyCap
        /\ data.reserveFactor = p.reserveFactor
    BY <1>5, <1>6, <1>8
  <2>6. data.reserveInterestRateStrategy = old.reserveInterestRateStrategy
    <3>1. "reserveInterestRateStrategy" \in DOMAIN Data \ (Collateral \cup Borrowing \cup Limits)
      BY DataFields DEF Collateral, Borrowing, Limits
    <3>. QED
      BY <3>1, <1>7, <1>8 DEF Rewrites, key
  <2>. HIDE DEF data, old
  <2>7. data.baseLTVasCollateral = p.baseLTV
        /\ data.reserveLiquidationThreshold = p.liquidationThreshold
        /\ data.reserveLiquidationBonus = p.liquidationBonus
    BY <2>2, <2>3 DEF Collateral
  <2>8. IF p.borrowingEnabled
        THEN /\ data.borrowingEnabled = TRUE /\ data.borrowCap = p.borrowCap
             /\ data.stableBorrowRateEnabled = p.stableBorrowingEnabled
        ELSE \A f \in Borrowing : data[f] = old[f]
    BY <2>1, <2>4, <1>5 DEF Borrowing, old
  <2>9. AsIn(data, old, p)
    BY <2>5, <2>6, <2>7, <2>8 DEF AsIn
  <2>. QED
    BY <2>2, <2>9 DEF data, old
<1>9. ConfiguresOne(c, d, helper, by, p)
  BY <1>7, <1>8 DEF ConfiguresOne, key, a
<1>. QED
  BY <1>1, <1>9

\* What configuring a chunk of reserves does, and what it asks for.
ConfiguresAll(c, d, helper, by, params, n) ==
    /\ IsContracts(d) /\ Changes(c, d, {"reserves"})
    /\ DOMAIN d.reserves = DOMAIN c.reserves
    /\ \A r \in DOMAIN c.reserves :
          (\A i \in 1..n : r # KeyOf(c, by, params[i].asset)) => d.reserves[r] = c.reserves[r]
    /\ ~d.reverted =>
          /\ \A i \in 1..n :
                LET key == KeyOf(c, by, params[i].asset)
                IN  key \in DOMAIN c.reserves /\ AsIn(d.reserves[key], c.reserves[key], params[i])
          /\ n > 0 => Allowed(c, Slot(c, by, "provider"), RiskOrPoolAdmins, helper)

LEMMA AsInTrans ==
    ASSUME NEW x, NEW y, NEW z, NEW p, AsIn(y, x, p), AsIn(z, y, p)
    PROVE  AsIn(z, x, p)
BY DEF AsIn

LEMMA AllAreConfigured ==
    ASSUME NEW c, IsContracts(c), NEW helper, NEW by, NEW params, Len(params) \in Nat,
           \A i \in 1..Len(params) : /\ params[i].borrowingEnabled \in BOOLEAN
                                     /\ params[i].stableBorrowingEnabled \in BOOLEAN,
           \A i, j \in 1..Len(params) :
              params[i].asset = params[j].asset => params[i] = params[j]
    PROVE  ConfiguresAll(c, configureReserves(c, helper, by, params), helper, by, params, Len(params))
<1>1. PICK f : ConfigureSteps(f, c, helper, by, params)
  BY ConfigureReservesUnfolds
<1>. DEFINE n == Len(params)
            key(i) == KeyOf(c, by, params[i].asset)
            T == {i \in Nat : i <= n => ConfiguresAll(c, f[i], helper, by, params, i)}
<1>2. /\ f[0] = c /\ configureReserves(c, helper, by, params) = f[n]
      /\ \A i \in 1..n : f[i] = ConfigureReserve(f[i - 1], helper, by, params[i])
  BY <1>1 DEF ConfigureSteps
<1>3. 0 \in T
  <2>1. Changes(c, f[0], {"reserves"})
    BY <1>2, ContractsAre DEF Changes
  <2>2. 1..0 = {}
    OBVIOUS
  <2>3. ConfiguresAll(c, f[0], helper, by, params, 0)
    BY <1>2, <2>1, <2>2 DEF ConfiguresAll
  <2>. QED
    BY <2>3
<1>4. ASSUME NEW m \in Nat, m \in T PROVE m + 1 \in T
  <2>. SUFFICES ASSUME m + 1 <= n PROVE ConfiguresAll(c, f[m + 1], helper, by, params, m + 1)
    OBVIOUS
  <2>. DEFINE d == f[m]
              e == f[m + 1]
              p == params[m + 1]
              new == key(m + 1)
  <2>1. ConfiguresAll(c, d, helper, by, params, m) /\ m + 1 \in 1..n /\ (m + 1) - 1 = m
    BY <1>4
  <2>2. e = ConfigureReserve(d, helper, by, p)
    BY <1>2, <2>1
  <2>3. IsContracts(d) /\ p.borrowingEnabled \in BOOLEAN /\ p.stableBorrowingEnabled \in BOOLEAN
    BY <2>1 DEF ConfiguresAll
  <2>. HIDE DEF d, e, p
  <2>4. ConfiguresOne(d, e, helper, by, p)
    BY <2>2, <2>3, OneIsConfigured
  <2>5. Changes(c, d, {"reserves"})
    BY <2>1 DEF ConfiguresAll
  <2>6. d.slots = c.slots /\ d.roles = c.roles
    BY <2>5, FieldsAre DEF Changes
  <2>7. \A x, k : Slot(d, x, k) = Slot(c, x, k)
    BY <2>6, SlotOfSlots
  <2>8. KeyOf(d, by, p.asset) = new
    BY <2>7 DEF KeyOf, p
  <2>9. Allowed(d, Slot(d, by, "provider"), RiskOrPoolAdmins, helper)
           => Allowed(c, Slot(c, by, "provider"), RiskOrPoolAdmins, helper)
    BY <2>6, <2>7 DEF Allowed, HasRole
  <2>. HIDE DEF new
  <2>10. /\ IsContracts(e) /\ Changes(d, e, {"reserves"}) /\ DOMAIN e.reserves = DOMAIN d.reserves
         /\ \A r \in DOMAIN d.reserves : r # new => e.reserves[r] = d.reserves[r]
    BY <2>4, <2>8 DEF ConfiguresOne, Rewrites
  <2>11. ~e.reverted =>
            /\ new \in DOMAIN d.reserves /\ AsIn(e.reserves[new], d.reserves[new], p)
            /\ Allowed(d, Slot(d, by, "provider"), RiskOrPoolAdmins, helper)
    BY <2>4, <2>8 DEF ConfiguresOne, Rewrites
  <2>12. Changes(c, e, {"reserves"}) /\ (~e.reverted => ~d.reverted)
    BY <2>5, <2>10 DEF Changes
  <2>13. 1..(m + 1) = 1..m \cup {m + 1} /\ m + 1 > 0 /\ 1..m \subseteq 1..n
    BY <2>1
  <2>14. DOMAIN e.reserves = DOMAIN c.reserves /\ DOMAIN d.reserves = DOMAIN c.reserves
    BY <2>1, <2>10 DEF ConfiguresAll
  <2>15. ASSUME NEW r \in DOMAIN c.reserves, \A i \in 1..(m + 1) : r # key(i)
         PROVE  e.reserves[r] = c.reserves[r]
    <3>1. r # new /\ \A i \in 1..m : r # key(i)
      BY <2>13, <2>15 DEF new
    <3>2. d.reserves[r] = c.reserves[r]
      BY <3>1, <2>1 DEF ConfiguresAll
    <3>. QED
      BY <3>1, <3>2, <2>10, <2>14
  <2>16. ASSUME ~e.reverted, NEW i \in 1..(m + 1)
         PROVE  key(i) \in DOMAIN c.reserves /\ AsIn(e.reserves[key(i)], c.reserves[key(i)], params[i])
    <3>1. \A j \in 1..m :
             key(j) \in DOMAIN c.reserves /\ AsIn(d.reserves[key(j)], c.reserves[key(j)], params[j])
      BY <2>1, <2>12, <2>16 DEF ConfiguresAll
    <3>2. ASSUME NEW j \in 1..m, key(j) = new PROVE params[j] = p
      <4>1. params[j].asset = params[m + 1].asset
        BY <3>2 DEF new, KeyOf
      <4>2. j \in 1..n /\ m + 1 \in 1..n
        BY <2>1, <2>13
      <4>. QED
        BY <4>1, <4>2 DEF p
    <3>3. CASE i \in 1..m /\ key(i) # new
      <4>. HIDE DEF key
      <4>. QED
        BY <3>1, <3>3, <2>10, <2>14
    <3>4. CASE i \in 1..m /\ key(i) = new
      <4>1. params[i] = p
        BY <3>2, <3>4
      <4>2. AsIn(d.reserves[new], c.reserves[new], p) /\ new \in DOMAIN c.reserves
        BY <3>1, <3>4, <4>1
      <4>3. AsIn(e.reserves[new], c.reserves[new], p)
        BY <4>2, <2>11, <2>16, AsInTrans
      <4>. QED
        BY <4>1, <4>2, <4>3, <3>4
    <3>5. CASE i = m + 1
      <4>1. key(i) = new /\ params[i] = p
        BY <3>5 DEF new, p
      <4>2. CASE \E j \in 1..m : key(j) = new
        <5>1. PICK j \in 1..m : key(j) = new
          BY <4>2
        <5>2. AsIn(d.reserves[new], c.reserves[new], p)
          BY <5>1, <3>1, <3>2
        <5>3. AsIn(e.reserves[new], c.reserves[new], p)
          BY <5>2, <2>11, <2>16, AsInTrans
        <5>. QED
          BY <5>3, <4>1, <2>11, <2>14, <2>16
      <4>3. CASE \A j \in 1..m : key(j) # new
        <5>1. d.reserves[new] = c.reserves[new]
          BY <4>3, <2>1, <2>11, <2>14, <2>16 DEF ConfiguresAll
        <5>. QED
          BY <5>1, <4>1, <2>11, <2>14, <2>16
      <4>. QED
        BY <4>2, <4>3
    <3>. QED
      BY <3>3, <3>4, <3>5, <2>13
  <2>17. ConfiguresAll(c, e, helper, by, params, m + 1)
    BY <2>9, <2>10, <2>11, <2>12, <2>14, <2>15, <2>16 DEF ConfiguresAll
  <2>. QED
    BY <2>17 DEF e
<1>5. ConfiguresAll(c, f[n], helper, by, params, n)
  <2>1. Nat \subseteq T
    <3>. HIDE DEF T
    <3>. QED
      BY <1>3, <1>4, InductionOverNat
  <2>. QED
    BY <2>1
<1>. QED
  BY <1>2, <1>5

\* A list of settings is consistent if those of one asset are the same.
IsConsistent(params) ==
    /\ Len(params) \in Nat
    /\ \A i \in 1..Len(params) : /\ params[i].borrowingEnabled \in BOOLEAN
                                 /\ params[i].stableBorrowingEnabled \in BOOLEAN
    /\ \A i, j \in 1..Len(params) : params[i].asset = params[j].asset => params[i] = params[j]

LEMMA InitReservesEffects ==
    ASSUME NEW c, IsContracts(c), NEW tx, tx.call = "initReserves", Len(tx.with) \in Nat
    PROVE  /\ Effects(c, Executed(c, tx), tx)
           /\ ListsAll(c, Executed(c, tx), tx.on, tx.with, Len(tx.with))
<1>. DEFINE d == Executed(c, tx)
<1>1. ListsAll(c, d, tx.on, tx.with, Len(tx.with))
  BY ExecutedCalls, AllAreListed
<1>. HIDE DEF d
<1>2. /\ IsContracts(d) /\ Changes(c, d, {"contracts", "initialised", "reserves"})
      /\ Grows(c, d)
  BY <1>1 DEF ListsAll
<1>3. d.registered = c.registered
  BY <1>2, FieldsAre DEF Changes
<1>4. EffectOnContracts(c, d, tx)
  BY <1>2, <1>3 DEF EffectOnContracts, Grows
<1>5. EffectOnReserves(c, d, tx)
  BY DEF EffectOnReserves
<1>6. Effects(c, d, tx)
  BY <1>2, <1>4, <1>5, NoEffects, Callees DEF Effects
<1>. QED
  BY <1>1, <1>6 DEF d

LEMMA ConfigureReservesEffects ==
    ASSUME NEW c, IsContracts(c), NEW tx, tx.call = "configureReserves",
           IsConsistent(tx.with.params)
    PROVE  /\ Effects(c, Executed(c, tx), tx)
           /\ ConfiguresAll(c, Executed(c, tx), tx.on, tx.with.configurator, tx.with.params,
                            Len(tx.with.params))
<1>. DEFINE d == Executed(c, tx)
            params == tx.with.params
            by == tx.with.configurator
<1>1. ConfiguresAll(c, d, tx.on, by, params, Len(params))
  <2>1. d = configureReserves(c, tx.on, by, params)
    BY ExecutedCalls
  <2>. HIDE DEF d, params, by
  <2>2. IsConsistent(params)
    BY DEF params
  <2>3. ConfiguresAll(c, configureReserves(c, tx.on, by, params), tx.on, by, params, Len(params))
    BY <2>2, AllAreConfigured DEF IsConsistent
  <2>. QED
    BY <2>1, <2>3
<1>. HIDE DEF d, params, by
<1>2. IsContracts(d) /\ Changes(c, d, {"reserves"})
  BY <1>1 DEF ConfiguresAll
<1>3. d.contracts = c.contracts /\ d.initialised = c.initialised /\ d.registered = c.registered
  BY <1>2, FieldsAre DEF Changes
<1>4. EffectOnContracts(c, d, tx)
  BY <1>2, <1>3 DEF EffectOnContracts
<1>5. EffectOnReserves(c, d, tx)
  BY DEF EffectOnReserves
<1>6. Effects(c, d, tx)
  BY <1>2, <1>4, <1>5, NoEffects, Callees DEF Effects
<1>. QED
  BY <1>1, <1>6 DEF d, params, by

\* What the deployer may send.
Sendable(c, tx) ==
    /\ tx.call \in OnProvider \cup Others
    /\ tx.call = "create" => tx.on \in Kinds
    /\ tx.call \in OnProvider \cup {"setRewardsController"} => tx.on \in c.contracts
    /\ tx.call = "initReserves" => Len(tx.with) \in Nat
    /\ tx.call = "configureReserves" => IsConsistent(tx.with.params)
    /\ tx.call = "setAssetSources" => Len(tx.with.assets) \in Nat

LEMMA TransactionEffects ==
    ASSUME NEW c, IsContracts(c), NEW tx, Sendable(c, tx), ~Executed(c, tx).reverted
    PROVE  Effects(c, Executed(c, tx), tx)
<1>1. \/ tx.call \in DOMAIN Setter \/ tx.call \in DOMAIN Proxied \/ tx.call = "create"
      \/ tx.call = "initialize" \/ tx.call = "registerAddressesProvider"
      \/ tx.call \in {"addPoolAdmin", "addEmergencyAdmin", "addRiskAdmin", "removeRiskAdmin"}
      \/ tx.call \in {"updateFlashloanPremiumTotal", "updateFlashloanPremiumToProtocol"}
      \/ tx.call = "initReserves" \/ tx.call = "configureReserves" \/ tx.call = "setAssetSources"
  BY Callees DEF Sendable, OnProvider, Others
<1>2. CASE tx.call \in DOMAIN Setter
  <2>1. tx.on \in c.contracts
    BY <1>2, Callees DEF Sendable, OnProvider
  <2>. QED
    BY <1>2, <2>1, SetterEffects
<1>3. CASE tx.call \in DOMAIN Proxied
  <2>1. tx.on \in c.contracts
    BY <1>3, Callees DEF Sendable, OnProvider
  <2>. QED
    BY <1>3, <2>1, ProxiedEffects
<1>4. CASE tx.call = "create"
  BY <1>4, CreateEffects DEF Sendable
<1>5. CASE tx.call = "initialize"
  BY <1>5, InitializeEffects
<1>6. CASE tx.call = "registerAddressesProvider"
  BY <1>6, RegisterEffects
<1>7. CASE tx.call \in {"addPoolAdmin", "addEmergencyAdmin", "addRiskAdmin", "removeRiskAdmin"}
  BY <1>7, RoleEffects
<1>8. CASE tx.call \in {"updateFlashloanPremiumTotal", "updateFlashloanPremiumToProtocol"}
  BY <1>8, FeeEffects
<1>9. CASE tx.call = "initReserves"
  BY <1>9, InitReservesEffects DEF Sendable
<1>10. CASE tx.call = "configureReserves"
  BY <1>10, ConfigureReservesEffects DEF Sendable
<1>11. CASE tx.call = "setAssetSources"
  BY <1>11, SetAssetSourcesEffects DEF Sendable
<1>. QED
  BY <1>1, <1>2, <1>3, <1>4, <1>5, <1>6, <1>7, <1>8, <1>9, <1>10, <1>11

\* Once a transaction is mined its log is in the block.
Settled(c) == [c EXCEPT !.log = <<>>]

LEMMA SettledIs ==
    ASSUME NEW c, DOMAIN c = Fields, c.reverted \in BOOLEAN
    PROVE  /\ Changes(c, Settled(c), {}) /\ Settled(c).reverted = c.reverted
           /\ Settled(c).log = <<>>
           /\ \A x, k : Slot(Settled(c), x, k) = Slot(c, x, k)
           /\ \A o, a : getSourceOfAsset(Settled(c), o, a) = getSourceOfAsset(c, o, a)
<1>. DEFINE d == Settled(c)
<1>1. Changes(c, d, {}) /\ d.reverted = c.reverted /\ d.log = <<>>
  BY FieldsAre DEF Changes, Settled
<1>. HIDE DEF d
<1>2. d.slots = c.slots /\ d.sources = c.sources
  BY <1>1, FieldsAre DEF Changes
<1>3. \A x, k : Slot(d, x, k) = Slot(c, x, k)
  BY <1>2, SlotOfSlots
<1>4. \A o, a : getSourceOfAsset(d, o, a) = getSourceOfAsset(c, o, a)
  BY <1>2 DEF getSourceOfAsset
<1>5. /\ Changes(c, d, {}) /\ d.reverted = c.reverted /\ d.log = <<>>
      /\ \A x, k : Slot(d, x, k) = Slot(c, x, k)
      /\ \A o, a : getSourceOfAsset(d, o, a) = getSourceOfAsset(c, o, a)
  BY <1>1, <1>3, <1>4
<1>. QED
  BY <1>5 DEF d

LEMMA SettledEffects ==
    ASSUME NEW c, NEW d, IsContracts(d), NEW tx, Effects(c, d, tx)
    PROVE  Effects(c, Settled(d), tx)
<1>. DEFINE e == Settled(d)
<1>1. /\ Changes(d, e, {})
      /\ \A x, k : Slot(e, x, k) = Slot(d, x, k)
      /\ \A o, a : getSourceOfAsset(e, o, a) = getSourceOfAsset(d, o, a)
  BY ContractsAre, SettledIs
<1>. HIDE DEF e
<1>2. IsContracts(e)
  BY <1>1, ContractsKept
<1>3. e.contracts = d.contracts /\ e.initialised = d.initialised /\ e.registered = d.registered
      /\ e.slots = d.slots /\ e.roles = d.roles /\ e.premiumTotal = d.premiumTotal
      /\ e.reserves = d.reserves
  BY <1>1, FieldsAre DEF Changes
<1>4. EffectOnContracts(c, e, tx)
  BY <1>2, <1>3 DEF Effects, EffectOnContracts
<1>5. EffectOnSlots(c, e, tx)
  BY <1>1, <1>3 DEF Effects, EffectOnSlots
<1>6. EffectOnRoles(c, e, tx) /\ EffectOnFees(c, e, tx) /\ EffectOnReserves(c, e, tx)
  BY <1>3 DEF Effects, EffectOnRoles, EffectOnFees, EffectOnReserves
<1>7. EffectOnSources(c, e, tx)
  BY <1>1 DEF Effects, EffectOnSources
<1>8. Effects(c, e, tx)
  BY <1>4, <1>5, <1>6, <1>7 DEF Effects
<1>. QED
  BY <1>8 DEF e

-------------------------------------------------------------------------------
(* What the owner changes.                                                 *)

\* The contracts stay, who has which role, and by which address they know each other.
Governs(c, d) ==
    /\ IsContracts(d)
    /\ Changes(c, d, {"slots", "registered", "reserves", "eModes", "premiumTotal",
                      "premiumToProtocol", "bridgeFee"})
    /\ \A x, k : k # "fallback" => Slot(d, x, k) = Slot(c, x, k)
    /\ DOMAIN d.reserves \subseteq DOMAIN c.reserves

\* It is none of the owner's changes that makes collateral of what was none.
SameThreshold(c, d, r) ==
    /\ r \in DOMAIN d.reserves
    /\ d.reserves[r].reserveLiquidationThreshold = c.reserves[r].reserveLiquidationThreshold

Adjusts(c, d) == Governs(c, d) /\ \A r \in DOMAIN c.reserves : SameThreshold(c, d, r)

\* A reserve is dropped, or is no collateral from now on.
Retires(c, d, key) ==
    /\ Governs(c, d)
    /\ \A r \in DOMAIN c.reserves : r # key => SameThreshold(c, d, r)
    /\ key \in DOMAIN d.reserves => d.reserves[key].reserveLiquidationThreshold = 0

LEMMA OtherFieldsAdjust ==
    ASSUME NEW c, IsContracts(c), NEW d,
           Changes(c, d, {"registered", "eModes", "premiumTotal", "premiumToProtocol", "bridgeFee"})
    PROVE  Adjusts(c, d)
<1>1. IsContracts(d)
  BY ContractsKept
<1>2. d.slots = c.slots /\ d.reserves = c.reserves
  BY FieldsAre DEF Changes
<1>3. \A x, k : Slot(d, x, k) = Slot(c, x, k)
  BY <1>2, SlotOfSlots
<1>4. Changes(c, d, {"slots", "registered", "reserves", "eModes", "premiumTotal",
                     "premiumToProtocol", "bridgeFee"})
  BY DEF Changes
<1>. QED
  BY <1>1, <1>2, <1>3, <1>4 DEF Adjusts, Governs, SameThreshold

LEMMA NothingAdjusts ==
    ASSUME NEW c, IsContracts(c), NEW d, Changes(c, d, {})
    PROVE  Adjusts(c, d)
<1>1. Changes(c, d, {"registered", "eModes", "premiumTotal", "premiumToProtocol", "bridgeFee"})
  BY DEF Changes
<1>. QED
  BY <1>1, OtherFieldsAdjust

LEMMA RewritesGoverns ==
    ASSUME NEW c, IsContracts(c), NEW d, NEW by, NEW asset, NEW fields,
           Rewrites(c, d, by, asset, fields)
    PROVE  /\ Governs(c, d) /\ DOMAIN d.reserves = DOMAIN c.reserves
           /\ \A r \in DOMAIN c.reserves : r # KeyOf(c, by, asset) => SameThreshold(c, d, r)
           /\ "reserveLiquidationThreshold" \notin fields => Adjusts(c, d)
<1>. DEFINE key == KeyOf(c, by, asset)
<1>1. /\ IsContracts(d) /\ Changes(c, d, {"reserves"}) /\ DOMAIN d.reserves = DOMAIN c.reserves
      /\ \A r \in DOMAIN c.reserves : r # key => d.reserves[r] = c.reserves[r]
      /\ key \in DOMAIN c.reserves =>
            \A f \in DOMAIN Data \ fields : d.reserves[key][f] = c.reserves[key][f]
  BY DEF Rewrites
<1>. HIDE DEF key
<1>2. d.slots = c.slots
  BY <1>1, FieldsAre DEF Changes
<1>3. \A x, k : Slot(d, x, k) = Slot(c, x, k)
  BY <1>2, SlotOfSlots
<1>4. Changes(c, d, {"slots", "registered", "reserves", "eModes", "premiumTotal",
                     "premiumToProtocol", "bridgeFee"})
  BY <1>1 DEF Changes
<1>5. Governs(c, d)
  BY <1>1, <1>3, <1>4 DEF Governs
<1>6. \A r \in DOMAIN c.reserves : r # key => SameThreshold(c, d, r)
  BY <1>1 DEF SameThreshold
<1>7. ASSUME "reserveLiquidationThreshold" \notin fields PROVE Adjusts(c, d)
  <2>1. "reserveLiquidationThreshold" \in DOMAIN Data \ fields
    BY <1>7, DataFields
  <2>2. key \in DOMAIN c.reserves => SameThreshold(c, d, key)
    BY <1>1, <2>1 DEF SameThreshold
  <2>. QED
    BY <1>5, <1>6, <2>2 DEF Adjusts
<1>. QED
  BY <1>1, <1>5, <1>6, <1>7 DEF key

LEMMA SetsAdjusts ==
    ASSUME NEW c, IsContracts(c), NEW d, NEW by, NEW asset, NEW field, NEW value,
           Sets(c, d, by, asset, field, value), field # "reserveLiquidationThreshold"
    PROVE  Adjusts(c, d)
<1>. DEFINE fields == {field}
<1>1. Rewrites(c, d, by, asset, fields) /\ "reserveLiquidationThreshold" \notin fields
  BY DEF Sets
<1>. HIDE DEF fields
<1>. QED
  BY <1>1, RewritesGoverns

LEMMA AdjustsTrans ==
    ASSUME NEW c, NEW d, NEW e, Adjusts(c, d), Adjusts(d, e)
    PROVE  Adjusts(c, e)
<1>1. Changes(c, e, {"slots", "registered", "reserves", "eModes", "premiumTotal",
                     "premiumToProtocol", "bridgeFee"})
  BY DEF Changes, Adjusts, Governs
<1>2. /\ IsContracts(e) /\ DOMAIN e.reserves \subseteq DOMAIN c.reserves
      /\ \A x, k : k # "fallback" => Slot(e, x, k) = Slot(c, x, k)
  BY DEF Adjusts, Governs
<1>3. Governs(c, e)
  BY <1>1, <1>2 DEF Governs
<1>. QED
  BY <1>3 DEF Adjusts, SameThreshold

\* Announcing a change is no change.
LEMMA AnnouncedAdjusts ==
    ASSUME NEW c, NEW d, Adjusts(c, d), NEW event
    PROVE  Adjusts(c, Emitted(d, event))
<1>. DEFINE e == Emitted(d, event)
<1>1. IsContracts(d)
  BY DEF Adjusts, Governs
<1>2. Changes(d, e, {})
  BY <1>1, ContractsAre, EmittedChanges
<1>. HIDE DEF e
<1>3. Adjusts(c, e)
  BY <1>1, <1>2, NothingAdjusts, AdjustsTrans
<1>. QED
  BY <1>3 DEF e

\* The common forms of a setter.
LEMMA FieldAdjusts ==
    ASSUME NEW c, IsContracts(c), NEW by, NEW sender, NEW asset, NEW field \in DOMAIN Data,
           field # "reserveLiquidationThreshold", NEW value, NEW event
    PROVE  Adjusts(c, Emitted(Field(c, by, sender, asset, field, value), event))
<1>1. Sets(c, Field(c, by, sender, asset, field, value), by, asset, field, value)
  BY FieldSets
<1>2. Adjusts(c, Field(c, by, sender, asset, field, value))
  BY <1>1, SetsAdjusts
<1>. QED
  BY <1>2, AnnouncedAdjusts

LEMMA CheckedFieldAdjusts ==
    ASSUME NEW c, IsContracts(c), NEW b \in BOOLEAN, NEW by, NEW sender, NEW asset,
           NEW field \in DOMAIN Data, field # "reserveLiquidationThreshold", NEW value, NEW event
    PROVE  Adjusts(c, Emitted(Field(Checked(c, b), by, sender, asset, field, value), event))
<1>1. Sets(c, Field(Checked(c, b), by, sender, asset, field, value), by, asset, field, value)
  BY CheckedFieldSets
<1>2. Adjusts(c, Field(Checked(c, b), by, sender, asset, field, value))
  BY <1>1, SetsAdjusts
<1>. QED
  BY <1>2, AnnouncedAdjusts

\* One that names who may call it.
LEMMA ReconfiguredAdjusts ==
    ASSUME NEW c, IsContracts(c), NEW by, NEW sender, NEW asset, NEW roles, NEW changed, NEW event,
           IsListed(c, by, asset) =>
              /\ DOMAIN changed = DOMAIN Data
              /\ changed.reserveLiquidationThreshold
                     = ConfigurationOf(c, by, asset).reserveLiquidationThreshold
    PROVE  Adjusts(c, Emitted(Reconfigured(c, by, sender, asset, roles, changed), event))
<1>. DEFINE fields == DOMAIN Data \ {"reserveLiquidationThreshold"}
            d == Reconfigured(c, by, sender, asset, roles, changed)
<1>1. /\ \A f \in DOMAIN Data \ fields : f = "reserveLiquidationThreshold"
      /\ "reserveLiquidationThreshold" \notin fields
  OBVIOUS
<1>. HIDE DEF fields
<1>2. IsListed(c, by, asset) =>
         /\ DOMAIN changed = DOMAIN Data
         /\ \A f \in DOMAIN Data \ fields : changed[f] = ConfigurationOf(c, by, asset)[f]
  BY <1>1
<1>3. Rewrites(c, d, by, asset, fields)
  BY <1>2, ReconfiguredRewrites
<1>. HIDE DEF d
<1>4. Adjusts(c, d)
  BY <1>1, <1>3, RewritesGoverns
<1>5. Adjusts(c, Emitted(d, event))
  BY <1>4, AnnouncedAdjusts
<1>. QED
  BY <1>5 DEF d

-------------------------------------------------------------------------------
(* The calls of the owner, one by one.                                     *)

LEMMA CollateralCalls ==
    ASSUME NEW c, IsContracts(c), NEW by, NEW sender, NEW asset, NEW value
    PROVE  /\ Adjusts(c, setDebtCeiling(c, by, sender, asset, value))
           /\ Adjusts(c, setLiquidationProtocolFee(c, by, sender, asset, value))
           /\ Adjusts(c, setAssetEModeCategory(c, by, sender, asset, value))
<1>1. Adjusts(c, setDebtCeiling(c, by, sender, asset, value))
  BY DataFields, FieldAdjusts DEF setDebtCeiling
<1>2. Adjusts(c, setLiquidationProtocolFee(c, by, sender, asset, value))
  <2>. DEFINE b == value <= PERCENTAGE_FACTOR
              event == LiquidationProtocolFeeChanged(by, asset, value)
  <2>1. b \in BOOLEAN
    OBVIOUS
  <2>2. setLiquidationProtocolFee(c, by, sender, asset, value)
           = Emitted(Field(Checked(c, b), by, sender, asset, "liquidationProtocolFee", value), event)
    BY DEF setLiquidationProtocolFee
  <2>. HIDE DEF b, event
  <2>. QED
    BY <2>1, <2>2, DataFields, CheckedFieldAdjusts
<1>3. Adjusts(c, setAssetEModeCategory(c, by, sender, asset, value))
  <2>. DEFINE generous == /\ value \in DOMAIN c.eModes
                          /\ IsListed(c, by, asset)
                          /\ c.eModes[value].liquidationThreshold
                               > ConfigurationOf(c, by, asset).reserveLiquidationThreshold
              b == value = 0 \/ generous
              event == EModeAssetCategoryChanged(by, asset, value)
  <2>1. b \in BOOLEAN
    OBVIOUS
  <2>2. setAssetEModeCategory(c, by, sender, asset, value)
           = Emitted(Field(Checked(c, b), by, sender, asset, "eMode", value), event)
    BY Zenon DEF setAssetEModeCategory
  <2>. HIDE DEF b, event
  <2>. QED
    BY <2>1, <2>2, DataFields, CheckedFieldAdjusts
<1>. QED
  BY <1>1, <1>2, <1>3

LEMMA EModeCalls ==
    ASSUME NEW c, IsContracts(c), NEW by, NEW sender, NEW category, NEW parameters
    PROVE  Adjusts(c, setEModeCategory(c, by, sender, category, parameters))
<1>. DEFINE generous ==
                \A r \in DOMAIN c.reserves :
                    r[1] = Slot(c, by, "pool") /\ c.reserves[r].eMode = category =>
                        /\ parameters.ltv > c.reserves[r].baseLTVasCollateral
                        /\ parameters.liquidationThreshold
                              > c.reserves[r].reserveLiquidationThreshold
            valid == /\ parameters.ltv # 0 /\ parameters.liquidationThreshold # 0
                     /\ parameters.ltv <= parameters.liquidationThreshold
                     /\ parameters.liquidationBonus > PERCENTAGE_FACTOR
                     /\ PercentMul(parameters.liquidationThreshold, parameters.liquidationBonus)
                           <= PERCENTAGE_FACTOR
            b == /\ Allowed(c, Slot(c, by, "provider"), RiskOrPoolAdmins, sender)
                 /\ valid /\ generous
            c1 == Checked(c, b)
            d == [c1 EXCEPT !.eModes = Written(@, category, parameters)]
            event == EModeCategoryAdded(by, category, parameters.ltv,
                                        parameters.liquidationThreshold,
                                        parameters.liquidationBonus,
                                        parameters.oracle, parameters.label)
<1>1. setEModeCategory(c, by, sender, category, parameters) = Emitted(d, event)
  BY Zenon DEF setEModeCategory
<1>2. b \in BOOLEAN
  OBVIOUS
<1>. HIDE DEF generous, valid, b, event
<1>3. Changes(c, c1, {})
  BY <1>2, ContractsAre, CheckedChanges
<1>. HIDE DEF c1
<1>4. Changes(c, d, {"registered", "eModes", "premiumTotal", "premiumToProtocol", "bridgeFee"})
  BY <1>3, FieldsAre DEF Changes
<1>. HIDE DEF d
<1>. QED
  BY <1>1, <1>4, OtherFieldsAdjust, AnnouncedAdjusts

LEMMA BorrowingCalls ==
    ASSUME NEW c, IsContracts(c), NEW by, NEW sender, NEW asset, NEW value
    PROVE  /\ value \in BOOLEAN => Adjusts(c, setReserveBorrowing(c, by, sender, asset, value))
           /\ value \in BOOLEAN => Adjusts(c, setReserveStableRateBorrowing(c, by, sender, asset, value))
           /\ Adjusts(c, setSiloedBorrowing(c, by, sender, asset, value))
           /\ Adjusts(c, setBorrowableInIsolation(c, by, sender, asset, value))
           /\ Adjusts(c, setBorrowCap(c, by, sender, asset, value))
           /\ Adjusts(c, setReserveInterestRateStrategyAddress(c, by, sender, asset, value))
<1>1. ASSUME value \in BOOLEAN
      PROVE  /\ Adjusts(c, setReserveBorrowing(c, by, sender, asset, value))
             /\ Adjusts(c, setReserveStableRateBorrowing(c, by, sender, asset, value))
  BY <1>1, BorrowingIsSet, SetsAdjusts
<1>2. Adjusts(c, setSiloedBorrowing(c, by, sender, asset, value))
  BY DataFields, FieldAdjusts DEF setSiloedBorrowing
<1>3. Adjusts(c, setBorrowableInIsolation(c, by, sender, asset, value))
  BY DataFields, FieldAdjusts DEF setBorrowableInIsolation
<1>4. Adjusts(c, setBorrowCap(c, by, sender, asset, value))
  BY SettersSet, SetsAdjusts
<1>5. Adjusts(c, setReserveInterestRateStrategyAddress(c, by, sender, asset, value))
  BY DataFields, FieldAdjusts DEF setReserveInterestRateStrategyAddress
<1>. QED
  BY <1>1, <1>2, <1>3, <1>4, <1>5

LEMMA ReserveCalls ==
    ASSUME NEW c, IsContracts(c), NEW by, NEW sender, NEW asset, NEW value
    PROVE  /\ Adjusts(c, setReserveFreeze(c, by, sender, asset, value))
           /\ Adjusts(c, setReservePause(c, by, sender, asset, value))
           /\ Adjusts(c, setReserveActive(c, by, sender, asset, value))
           /\ Adjusts(c, setReserveFlashLoaning(c, by, sender, asset, value))
           /\ Adjusts(c, setSupplyCap(c, by, sender, asset, value))
           /\ Adjusts(c, setUnbackedMintCap(c, by, sender, asset, value))
           /\ Adjusts(c, setReserveFactor(c, by, sender, asset, value))
<1>1. Adjusts(c, setReserveFreeze(c, by, sender, asset, value))
  BY DataFields, FieldAdjusts DEF setReserveFreeze
<1>2. Adjusts(c, setReservePause(c, by, sender, asset, value))
  <2>. DEFINE old == ConfigurationOf(c, by, asset)
              changed == [old EXCEPT !.isPaused = value]
              event == ReservePaused(by, asset, value)
              roles == EmergencyOrPoolAdmin
  <2>1. setReservePause(c, by, sender, asset, value)
          = Emitted(Reconfigured(c, by, sender, asset, roles, changed), event)
    BY DEF setReservePause
  <2>2. IsListed(c, by, asset) => DOMAIN old = DOMAIN Data
    BY DEF IsListed, ConfigurationOf, IsContracts
  <2>. HIDE DEF old, event, roles
  <2>3. IsListed(c, by, asset) =>
           /\ DOMAIN changed = DOMAIN Data
           /\ changed.reserveLiquidationThreshold = old.reserveLiquidationThreshold
    BY <2>2, DataFields
  <2>. HIDE DEF changed
  <2>4. IsListed(c, by, asset) =>
           /\ DOMAIN changed = DOMAIN Data
           /\ changed.reserveLiquidationThreshold
                  = ConfigurationOf(c, by, asset).reserveLiquidationThreshold
    BY <2>3 DEF old
  <2>. QED
    BY <2>1, <2>4, ReconfiguredAdjusts
<1>3. Adjusts(c, setReserveActive(c, by, sender, asset, value))
  <2>. DEFINE old == ConfigurationOf(c, by, asset)
              changed == [old EXCEPT !.isActive = value]
              event == ReserveActive(by, asset, value)
              roles == {"POOL_ADMIN"}
  <2>1. setReserveActive(c, by, sender, asset, value)
          = Emitted(Reconfigured(c, by, sender, asset, roles, changed), event)
    BY DEF setReserveActive
  <2>2. IsListed(c, by, asset) => DOMAIN old = DOMAIN Data
    BY DEF IsListed, ConfigurationOf, IsContracts
  <2>. HIDE DEF old, event, roles
  <2>3. IsListed(c, by, asset) =>
           /\ DOMAIN changed = DOMAIN Data
           /\ changed.reserveLiquidationThreshold = old.reserveLiquidationThreshold
    BY <2>2, DataFields
  <2>. HIDE DEF changed
  <2>4. IsListed(c, by, asset) =>
           /\ DOMAIN changed = DOMAIN Data
           /\ changed.reserveLiquidationThreshold
                  = ConfigurationOf(c, by, asset).reserveLiquidationThreshold
    BY <2>3 DEF old
  <2>. QED
    BY <2>1, <2>4, ReconfiguredAdjusts
<1>4. Adjusts(c, setReserveFlashLoaning(c, by, sender, asset, value))
  BY SettersSet, SetsAdjusts
<1>5. Adjusts(c, setSupplyCap(c, by, sender, asset, value))
  BY SettersSet, SetsAdjusts
<1>6. Adjusts(c, setUnbackedMintCap(c, by, sender, asset, value))
  BY DataFields, FieldAdjusts DEF setUnbackedMintCap
<1>7. Adjusts(c, setReserveFactor(c, by, sender, asset, value))
  BY SettersSet, SetsAdjusts
<1>. QED
  BY <1>1, <1>2, <1>3, <1>4, <1>5, <1>6, <1>7

-------------------------------------------------------------------------------
(* The calls of the owner that are not about the settings of one reserve.  *)

LEMMA UpgradeCalls ==
    ASSUME NEW c, IsContracts(c), NEW by, NEW asset, NEW impl
    PROVE  /\ Adjusts(c, updateBToken(c, by, asset, impl))
           /\ Adjusts(c, updateStableDebtToken(c, by, asset, impl))
           /\ Adjusts(c, updateVariableDebtToken(c, by, asset, impl))
<1>1. Adjusts(c, OnlyPoolAdmin(c, by))
  BY OnlyPoolAdminChanges, NothingAdjusts
<1>2. \A event : Adjusts(c, Emitted(OnlyPoolAdmin(c, by), event))
  BY <1>1, AnnouncedAdjusts
<1>. QED
  BY <1>2 DEF updateBToken, updateStableDebtToken, updateVariableDebtToken

LEMMA FeeCalls ==
    ASSUME NEW c, IsContracts(c), NEW by, NEW fee
    PROVE  /\ Adjusts(c, updateBridgeProtocolFee(c, by, fee))
           /\ Adjusts(c, updateFlashloanPremiumTotal(c, by, fee))
           /\ Adjusts(c, updateFlashloanPremiumToProtocol(c, by, fee))
<1>1. Adjusts(c, updateBridgeProtocolFee(c, by, fee))
  <2>. DEFINE d == OnlyPoolAdmin(c, by)
              fits == fee <= PERCENTAGE_FACTOR
              d1 == Checked(d, fits)
              d2 == [d1 EXCEPT !.bridgeFee = fee]
              event == BridgeProtocolFeeUpdated(by, fee)
  <2>1. updateBridgeProtocolFee(c, by, fee) = Emitted(d2, event)
    BY DEF updateBridgeProtocolFee
  <2>2. fits \in BOOLEAN /\ Changes(c, d, {})
    BY OnlyPoolAdminChanges
  <2>. HIDE DEF fits, d, event
  <2>3. DOMAIN d = Fields /\ d.reverted \in BOOLEAN
    BY <2>2 DEF Changes
  <2>4. Changes(d, d1, {})
    BY <2>2, <2>3, CheckedChanges
  <2>. HIDE DEF d1
  <2>5. Changes(c, d2, {"registered", "eModes", "premiumTotal", "premiumToProtocol", "bridgeFee"})
    BY <2>2, <2>4, FieldsAre DEF Changes
  <2>. HIDE DEF d2
  <2>. QED
    BY <2>1, <2>5, OtherFieldsAdjust, AnnouncedAdjusts
<1>2. Adjusts(c, updateFlashloanPremiumTotal(c, by, fee))
  <2>. DEFINE e == updateFlashloanPremiumTotal(c, by, fee)
  <2>1. Changes(c, e, {"premiumTotal"})
    BY PremiumTotalChanges
  <2>. HIDE DEF e
  <2>2. Changes(c, e, {"registered", "eModes", "premiumTotal", "premiumToProtocol", "bridgeFee"})
    BY <2>1 DEF Changes
  <2>3. Adjusts(c, e)
    BY <2>2, OtherFieldsAdjust
  <2>. QED
    BY <2>3 DEF e
<1>3. Adjusts(c, updateFlashloanPremiumToProtocol(c, by, fee))
  <2>. DEFINE e == updateFlashloanPremiumToProtocol(c, by, fee)
  <2>1. Changes(c, e, {"premiumToProtocol"})
    BY PremiumToProtocolChanges
  <2>. HIDE DEF e
  <2>2. Changes(c, e, {"registered", "eModes", "premiumTotal", "premiumToProtocol", "bridgeFee"})
    BY <2>1 DEF Changes
  <2>3. Adjusts(c, e)
    BY <2>2, OtherFieldsAdjust
  <2>. QED
    BY <2>3 DEF e
<1>. QED
  BY <1>1, <1>2, <1>3

LEMMA UnregisterCall ==
    ASSUME NEW c, IsContracts(c), NEW registry, NEW p
    PROVE  Adjusts(c, unregisterAddressesProvider(c, registry, p))
<1>. DEFINE b == IsRegistered(c, registry, p)
            c1 == Checked(c, b)
            d == [c1 EXCEPT !.registered = @ \ {<<registry, p>>}]
            event == AddressesProviderUnregistered(registry, p)
<1>1. unregisterAddressesProvider(c, registry, p) = Emitted(d, event)
  BY DEF unregisterAddressesProvider
<1>2. b \in BOOLEAN
  BY DEF IsRegistered
<1>. HIDE DEF b, event
<1>3. Changes(c, c1, {})
  BY <1>2, ContractsAre, CheckedChanges
<1>. HIDE DEF c1
<1>4. Changes(c, d, {"registered", "eModes", "premiumTotal", "premiumToProtocol", "bridgeFee"})
  BY <1>3, FieldsAre DEF Changes
<1>. HIDE DEF d
<1>. QED
  BY <1>1, <1>4, OtherFieldsAdjust, AnnouncedAdjusts

LEMMA PriceCalls ==
    ASSUME NEW c, IsContracts(c), NEW feed, NEW asset, NEW price
    PROVE  /\ Adjusts(c, setAssetPrice(c, feed, asset, price))
           /\ Adjusts(c, setEthUsdPrice(c, feed, price))
<1>1. Adjusts(c, c)
  BY NothingAdjusts, ContractsAre DEF Changes
<1>2. \A event : Adjusts(c, Emitted(c, event))
  BY <1>1, AnnouncedAdjusts
<1>. QED
  BY <1>2 DEF setAssetPrice, setEthUsdPrice

LEMMA FallbackCall ==
    ASSUME NEW c, IsContracts(c), NEW feed \in c.contracts, NEW fallback
    PROVE  Adjusts(c, setFallbackOracle(c, feed, fallback))
<1>. DEFINE allowed == Allowed(c, Slot(c, feed, "provider"), {"ASSET_LISTING_ADMIN", "POOL_ADMIN"},
                               Deployer)
            c1 == Checked(c, allowed)
            d == SetSlot(c1, feed, "fallback", fallback)
            event == FallbackOracleUpdated(feed, fallback)
<1>1. setFallbackOracle(c, feed, fallback) = Emitted(d, event)
  BY DEF setFallbackOracle, OnlyAssetListingOrPoolAdmins
<1>2. allowed \in BOOLEAN
  BY AllowedIsBoolean
<1>. HIDE DEF allowed, event
<1>3. Changes(c, c1, {})
  BY <1>2, ContractsAre, CheckedChanges
<1>. HIDE DEF c1
<1>4. IsContracts(c1) /\ c1.contracts = c.contracts /\ c1.slots = c.slots /\ c1.reserves = c.reserves
      /\ DOMAIN c1 = Fields /\ c1.reverted \in BOOLEAN
  <2>1. IsContracts(c1)
    BY <1>3, ContractsKept
  <2>. QED
    BY <1>3, <2>1, FieldsAre DEF Changes
<1>5. IsContracts(d)
  BY <1>4, SlotSetKept
<1>6. /\ Changes(c1, d, {"slots"})
      /\ \A y, l : Slot(d, y, l) = IF y = feed /\ l = "fallback" THEN fallback ELSE Slot(c1, y, l)
  BY <1>4, SetSlotChanges
<1>. HIDE DEF d
<1>7. \A x, k : k # "fallback" => Slot(d, x, k) = Slot(c, x, k)
  BY <1>4, <1>6, SlotOfSlots
<1>8. Changes(c, d, {"slots", "registered", "reserves", "eModes", "premiumTotal",
                     "premiumToProtocol", "bridgeFee"}) /\ d.reserves = c.reserves
  BY <1>3, <1>4, <1>6, FieldsAre DEF Changes
<1>9. Adjusts(c, d)
  BY <1>5, <1>7, <1>8 DEF Adjusts, Governs, SameThreshold
<1>. QED
  BY <1>1, <1>9, AnnouncedAdjusts

LEMMA PauseCall ==
    ASSUME NEW c, IsContracts(c), NEW by, NEW sender, NEW assets, Len(assets) \in Nat, NEW paused
    PROVE  Adjusts(c, setPoolPause(c, by, sender, assets, paused))
<1>1. PICK f : PauseSteps(f, c, by, sender, assets, paused)
  BY SetPoolPauseUnfolds
<1>. DEFINE n == Len(assets)
            T == {i \in Nat : i <= n => Adjusts(c, f[i])}
<1>2. /\ f[0] = Checked(c, Allowed(c, Slot(c, by, "provider"), {"EMERGENCY_ADMIN"}, sender))
      /\ \A i \in 1..n : f[i] = setReservePause(f[i - 1], by, sender, assets[i], paused)
      /\ setPoolPause(c, by, sender, assets, paused) = f[n]
  BY <1>1 DEF PauseSteps
<1>3. 0 \in T
  <2>. DEFINE allowed == Allowed(c, Slot(c, by, "provider"), {"EMERGENCY_ADMIN"}, sender)
  <2>1. allowed \in BOOLEAN /\ f[0] = Checked(c, allowed)
    BY <1>2, AllowedIsBoolean
  <2>. HIDE DEF allowed
  <2>2. Changes(c, f[0], {})
    BY <2>1, ContractsAre, CheckedChanges
  <2>3. Adjusts(c, f[0])
    BY <2>2, NothingAdjusts
  <2>. QED
    BY <2>3
<1>4. ASSUME NEW m \in Nat, m \in T PROVE m + 1 \in T
  <2>. SUFFICES ASSUME m + 1 <= n PROVE Adjusts(c, f[m + 1])
    OBVIOUS
  <2>1. Adjusts(c, f[m]) /\ m + 1 \in 1..n /\ (m + 1) - 1 = m
    BY <1>4
  <2>2. f[m + 1] = setReservePause(f[m], by, sender, assets[m + 1], paused)
    BY <1>2, <2>1
  <2>3. IsContracts(f[m])
    BY <2>1 DEF Adjusts, Governs
  <2>4. Adjusts(f[m], f[m + 1])
    BY <2>2, <2>3, ReserveCalls
  <2>. QED
    BY <2>1, <2>4, AdjustsTrans
<1>5. Nat \subseteq T
  <2>. HIDE DEF T
  <2>. QED
    BY <1>3, <1>4, InductionOverNat
<1>6. n \in Nat
  OBVIOUS
<1>. QED
  BY <1>2, <1>5, <1>6

-------------------------------------------------------------------------------
(* The calls that end a reserve, or make its collateral count for less.    *)

LEMMA DropCall ==
    ASSUME NEW c, IsContracts(c), NEW by, NEW asset
    PROVE  Retires(c, dropReserve(c, by, asset), KeyOf(c, by, asset))
<1>. DEFINE key == KeyOf(c, by, asset)
            d == OnlyPoolAdmin(c, by)
            e == [d EXCEPT !.reserves = [r \in DOMAIN @ \ {key} |-> @[r]]]
            event == ReserveDropped(by, asset)
            f == Emitted(e, event)
<1>1. dropReserve(c, by, asset) = f
  BY DEF dropReserve, KeyOf
<1>2. Changes(c, d, {})
  BY OnlyPoolAdminChanges
<1>. HIDE DEF event, d, key
<1>3. Changes(c, e, {"reserves"}) /\ e.reserves = [r \in DOMAIN c.reserves \ {key} |-> c.reserves[r]]
  BY <1>2, FieldsAre DEF Changes
<1>. HIDE DEF e
<1>4. DOMAIN e = Fields /\ e.reverted \in BOOLEAN
  BY <1>3 DEF Changes
<1>5. Changes(e, f, {})
  BY <1>4, EmittedChanges
<1>. HIDE DEF f
<1>6. Changes(c, f, {"reserves"}) /\ f.reserves = e.reserves
  BY <1>3, <1>5, FieldsAre DEF Changes
<1>7. /\ DOMAIN f.reserves = DOMAIN c.reserves \ {key}
      /\ \A r \in DOMAIN f.reserves : f.reserves[r] = c.reserves[r]
  BY <1>3, <1>6
<1>8. f.slots = c.slots /\ f.contracts = c.contracts /\ DOMAIN f = Fields /\ f.reverted \in BOOLEAN
  BY <1>6, FieldsAre DEF Changes
<1>9. IsContracts(f)
  BY <1>7, <1>8 DEF IsContracts, Fields
<1>10. \A x, k : Slot(f, x, k) = Slot(c, x, k)
  BY <1>8, SlotOfSlots
<1>11. Changes(c, f, {"slots", "registered", "reserves", "eModes", "premiumTotal",
                      "premiumToProtocol", "bridgeFee"})
  BY <1>6 DEF Changes
<1>12. Governs(c, f)
  BY <1>7, <1>9, <1>10, <1>11 DEF Governs
<1>13. Retires(c, f, key)
  BY <1>7, <1>12 DEF Retires, SameThreshold
<1>. QED
  BY <1>1, <1>13 DEF key

LEMMA RetireCall ==
    ASSUME NEW c, IsContracts(c), NEW by, NEW sender, NEW asset, NEW ltv, NEW bonus,
           NEW d, d = configureReserveAsCollateral(c, by, sender, asset, ltv, 0, bonus), ~d.reverted
    PROVE  Retires(c, d, KeyOf(c, by, asset))
<1>. DEFINE key == KeyOf(c, by, asset)
            fields == {"baseLTVasCollateral", "reserveLiquidationThreshold", "reserveLiquidationBonus"}
<1>1. PICK zero : zero = 0
  OBVIOUS
<1>2. SetsCollateral(c, d, by, sender, asset, ltv, zero, bonus)
  BY <1>1, CollateralIsSet
<1>3. Rewrites(c, d, by, asset, fields) /\ d.reserves[key].reserveLiquidationThreshold = zero
  BY <1>2 DEF SetsCollateral
<1>. HIDE DEF fields
<1>4. Governs(c, d) /\ \A r \in DOMAIN c.reserves : r # key => SameThreshold(c, d, r)
  BY <1>3, RewritesGoverns
<1>. QED
  BY <1>1, <1>3, <1>4 DEF Retires

LEMMA StricterCall ==
    ASSUME NEW c, IsContracts(c), NEW by, NEW sender, NEW asset, NEW ltv, NEW threshold, NEW bonus,
           KeyOf(c, by, asset) \in DOMAIN c.reserves,
           threshold = c.reserves[KeyOf(c, by, asset)].reserveLiquidationThreshold,
           NEW d, d = configureReserveAsCollateral(c, by, sender, asset, ltv, threshold, bonus),
           ~d.reverted
    PROVE  Adjusts(c, d)
<1>. DEFINE key == KeyOf(c, by, asset)
            fields == {"baseLTVasCollateral", "reserveLiquidationThreshold", "reserveLiquidationBonus"}
<1>2. SetsCollateral(c, d, by, sender, asset, ltv, threshold, bonus)
  BY CollateralIsSet
<1>3. Rewrites(c, d, by, asset, fields) /\ d.reserves[key].reserveLiquidationThreshold = threshold
  BY <1>2 DEF SetsCollateral
<1>. HIDE DEF fields
<1>4. /\ Governs(c, d) /\ DOMAIN d.reserves = DOMAIN c.reserves
      /\ \A r \in DOMAIN c.reserves : r # key => SameThreshold(c, d, r)
  BY <1>3, RewritesGoverns
<1>. QED
  BY <1>3, <1>4 DEF Adjusts, SameThreshold

-------------------------------------------------------------------------------
(* The script, step by step.                                               *)

Steps(q) == {q[i] : i \in 1..Len(q)}

Named(B) == UNION {s.ids : s \in B}

Called(B) == {s.call : s \in B}

Proxies == {"Pool-Proxy", "PoolConfigurator-Proxy", "RewardsControllerProxy"}

\* Names that are no ids of records.
Reserved == {"", "deployer", "POOL", "POOL_CONFIGURATOR", "ACL_MANAGER", "REWARD_CONTROLLER"}

\* What the kinds of steps are.
WellFormed(s) ==
    /\ IF s.do \in Sends THEN s.call \in OnProvider \cup Others
       ELSE s.call = "" /\ s.do \in {"get", "check", "save", "planListing", "planConfiguration"}
    /\ s.do = "deploy" <=> s.call = "create"
    /\ s.do = "send" <=> s.call = "addRiskAdmin"
    /\ Tolerant(s) => s.call = "initialize"
    /\ s.do \notin {"deploy", "get", "save"} => s.ids = {}
    /\ s.do = "deploy" => s.ids \cap Proxies = {} /\ \E id \in s.ids : s.ids = {id}

\* The proxy of a component is saved once the component is set.
Saves(s, id, component, call, calls) ==
    s.ids = {id} /\ s.on = component /\ call \in calls

\* What a step relies on are ids that have been recorded and calls that have been made.
Prepared(s, ids, calls) ==
    /\ s.do = "save" => \/ Saves(s, "Pool-Proxy", "POOL", "setPoolImpl", calls)
                        \/ Saves(s, "PoolConfigurator-Proxy", "POOL_CONFIGURATOR",
                                 "setPoolConfiguratorImpl", calls)
                        \/ Saves(s, "RewardsControllerProxy", "REWARD_CONTROLLER",
                                 "setAddressAsProxy", calls)
    /\ s.do = "check" => s.on = "ACLManager" /\ s.on \in ids
    /\ s.call \in {"initialize", "registerAddressesProvider"} => s.on \in ids \ Reserved
    /\ s.call = "registerAddressesProvider" =>
          s.with = "PoolAddressesProvider" /\ s.with \in ids
    /\ s.call \in OnProvider => s.on = "PoolAddressesProvider" /\ s.on \in ids
    /\ s.call = "setPoolDataProvider" => s.with = "PoolDataProvider" /\ s.with \in ids
    /\ s.call = "setACLManager" => s.with = "ACLManager" /\ s.with \in ids
    /\ s.call = "setPriceOracle" => s.with = "ProtocolOracle" /\ s.with \in ids
    /\ s.call \in {"setACLAdmin", "addPoolAdmin"} => s.with = "deployer"
    /\ s.call = "setPoolConfiguratorImpl" => "setPoolImpl" \in calls
    /\ s.call = "setRewardsController" =>
          /\ s.on = "EmissionManager" /\ s.on \in ids
          /\ s.with = "REWARD_CONTROLLER" /\ "setAddressAsProxy" \in calls
    /\ s.call \in {"addRiskAdmin", "removeRiskAdmin", "configureReserves"} =>
          "initReserves" \in calls
    /\ s.call \in {"addRiskAdmin", "removeRiskAdmin"} =>
          /\ s.on = "ACL_MANAGER" /\ "setACLManager" \in calls
          /\ s.with = "ReservesSetupHelper" /\ s.with \in ids
    /\ s.call = "removeRiskAdmin" => "configureReserves" \in calls
    /\ s.call \in {"initReserves", "configureReserves", "setAssetSources"} => ListingIds \subseteq ids
    /\ s.call \in {"initReserves", "configureReserves"} => "setPoolConfiguratorImpl" \in calls
    /\ s.call = "initReserves" => s.on = "POOL_CONFIGURATOR"
    /\ s.call = "configureReserves" =>
          /\ s.on = "ReservesSetupHelper" /\ s.on \in ids
          /\ s.with = "POOL_CONFIGURATOR"
    /\ s.call = "setAssetSources" =>
          /\ s.on = "ProtocolOracle" /\ s.on \in ids
          /\ {AggregatorOf(x) : x \in Symbols} \subseteq ids

\* The calls that need a plan come after it.
Follows(s, before) ==
    /\ s.call = "initReserves" => before.do = "planListing"
    /\ s.call = "addRiskAdmin" => before.do = "planConfiguration"
    /\ s.call = "configureReserves" => before.call = "addRiskAdmin"
    /\ s.call = "removeRiskAdmin" => before.call = "configureReserves"

Planning == {"initReserves", "addRiskAdmin", "configureReserves", "removeRiskAdmin"}

\* What is recorded and called before the j-th step of q, if the steps of B come before q.
Before(q, j, B) == B \cup {q[i] : i \in 1..(j - 1)}

NamedBy(q, j, B) == Named(Before(q, j, B))

CalledBy(q, j, B) == Called(Before(q, j, B))

InOrder(q, j, B) ==
    /\ WellFormed(q[j]) /\ Prepared(q[j], NamedBy(q, j, B), CalledBy(q, j, B))
    /\ q[j].call \in Planning => j > 1 /\ Follows(q[j], q[j - 1])
    /\ q[j].call = "configureReserves" => j < Len(q) /\ q[j + 1].call = "removeRiskAdmin"

Orderly(q, B) == \A j \in 1..Len(q) : InOrder(q, j, B)

-------------------------------------------------------------------------------
(* Putting scripts together.                                               *)

IsSteps(q) == q \in Seq(Steps(q))

LEMMA StepsOfBoth ==
    ASSUME NEW p, IsSteps(p), NEW q, IsSteps(q)
    PROVE  /\ Len(p) \in Nat /\ Len(q) \in Nat /\ Len(p \o q) = Len(p) + Len(q)
           /\ \A i \in 1..Len(p) : (p \o q)[i] = p[i]
           /\ \A i \in 1..Len(q) : (p \o q)[Len(p) + i] = q[i]
           /\ Steps(p \o q) = Steps(p) \cup Steps(q) /\ IsSteps(p \o q)
<1>. DEFINE S == Steps(p) \cup Steps(q)
            r == p \o q
<1>1. p \in Seq(S) /\ q \in Seq(S)
  BY SeqDef DEF IsSteps
<1>. HIDE DEF S
<1>2. /\ Len(p) \in Nat /\ Len(q) \in Nat /\ r \in Seq(S) /\ Len(r) = Len(p) + Len(q)
      /\ \A i \in 1..Len(r) : r[i] = IF i <= Len(p) THEN p[i] ELSE q[i - Len(p)]
  BY <1>1
<1>. HIDE DEF r
<1>3. \A i \in 1..Len(p) : i \in 1..Len(r) /\ r[i] = p[i]
  BY <1>2
<1>4. \A i \in 1..Len(q) : Len(p) + i \in 1..Len(r) /\ r[Len(p) + i] = q[i]
  BY <1>2
<1>5. \A i \in 1..Len(r) : i \in 1..Len(p) \/ (i - Len(p) \in 1..Len(q) /\ r[i] = q[i - Len(p)])
  BY <1>2
<1>6. Steps(r) = Steps(p) \cup Steps(q)
  <2>1. ASSUME NEW s \in Steps(r) PROVE s \in Steps(p) \cup Steps(q)
    <3>1. PICK i \in 1..Len(r) : s = r[i]
      BY DEF Steps
    <3>. QED
      BY <3>1, <1>3, <1>5 DEF Steps
  <2>2. ASSUME NEW s \in Steps(p) PROVE s \in Steps(r)
    BY <1>3 DEF Steps
  <2>3. ASSUME NEW s \in Steps(q) PROVE s \in Steps(r)
    BY <1>4 DEF Steps
  <2>. QED
    BY <2>1, <2>2, <2>3
<1>7. IsSteps(r)
  BY <1>2, <1>6 DEF IsSteps, S
<1>. QED
  BY <1>2, <1>3, <1>4, <1>6, <1>7 DEF r

LEMMA OrderlyBoth ==
    ASSUME NEW p, IsSteps(p), NEW q, IsSteps(q), NEW B,
           Orderly(p, B), Orderly(q, B \cup Steps(p))
    PROVE  Orderly(p \o q, B)
<1>. DEFINE r == p \o q
            m == Len(p)
<1>1. /\ m \in Nat /\ Len(q) \in Nat /\ Len(r) = m + Len(q)
      /\ \A i \in 1..m : r[i] = p[i]
      /\ \A i \in 1..Len(q) : r[m + i] = q[i]
  BY StepsOfBoth
<1>. HIDE DEF r, m
<1>2. ASSUME NEW j \in 1..m
      PROVE  InOrder(r, j, B)
  <2>1. Before(r, j, B) = Before(p, j, B)
    <3>1. \A i \in 1..(j - 1) : i \in 1..m
      BY <1>1
    <3>. QED
      BY <3>1, <1>1 DEF Before
  <2>2. /\ WellFormed(p[j]) /\ Prepared(p[j], NamedBy(p, j, B), CalledBy(p, j, B))
        /\ p[j].call \in Planning => j > 1 /\ Follows(p[j], p[j - 1])
        /\ p[j].call = "configureReserves" => j < m /\ p[j + 1].call = "removeRiskAdmin"
    BY DEF Orderly, InOrder, m
  <2>3. r[j] = p[j] /\ (j > 1 => r[j - 1] = p[j - 1])
    BY <1>1
  <2>4. j < m => j < Len(r) /\ r[j + 1] = p[j + 1]
    BY <1>1
  <2>. QED
    BY <2>1, <2>2, <2>3, <2>4 DEF InOrder, NamedBy, CalledBy
<1>3. ASSUME NEW k \in 1..Len(q)
      PROVE  InOrder(r, m + k, B)
  <2>1. Before(r, m + k, B) = Before(q, k, B \cup Steps(p))
    <3>1. \A i \in 1..((m + k) - 1) :
             (i \in 1..m /\ r[i] = p[i])
                \/ (i - m \in 1..(k - 1) /\ r[i] = q[i - m])
      <4>. TAKE i \in 1..((m + k) - 1)
      <4>1. CASE i <= m
        BY <4>1, <1>1
      <4>2. CASE i > m
        <5>1. i - m \in 1..Len(q) /\ i - m \in 1..(k - 1) /\ m + (i - m) = i
          BY <4>2, <1>1
        <5>2. r[m + (i - m)] = q[i - m]
          BY <5>1, <1>1
        <5>. QED
          BY <5>1, <5>2
      <4>. QED
        BY <4>1, <4>2, <1>1
    <3>2. \A i \in 1..m : i \in 1..((m + k) - 1) /\ r[i] = p[i]
      BY <1>1
    <3>3. \A i \in 1..(k - 1) : m + i \in 1..((m + k) - 1) /\ r[m + i] = q[i]
      BY <1>1
    <3>4. Steps(p) = {p[i] : i \in 1..m}
      BY DEF Steps, m
    <3>. QED
      BY <3>1, <3>2, <3>3, <3>4 DEF Before
  <2>2. /\ WellFormed(q[k])
        /\ Prepared(q[k], NamedBy(q, k, B \cup Steps(p)), CalledBy(q, k, B \cup Steps(p)))
        /\ q[k].call \in Planning => k > 1 /\ Follows(q[k], q[k - 1])
        /\ q[k].call = "configureReserves" => k < Len(q) /\ q[k + 1].call = "removeRiskAdmin"
    BY DEF Orderly, InOrder
  <2>3. r[m + k] = q[k]
    BY <1>1
  <2>4. ASSUME k > 1 PROVE r[(m + k) - 1] = q[k - 1] /\ m + k > 1
    <3>1. k - 1 \in 1..Len(q) /\ m + (k - 1) = (m + k) - 1
      BY <2>4, <1>1
    <3>2. r[m + (k - 1)] = q[k - 1]
      BY <3>1, <1>1
    <3>. QED
      BY <3>1, <3>2, <2>4, <1>1
  <2>5. ASSUME k < Len(q) PROVE m + k < Len(r) /\ r[(m + k) + 1] = q[k + 1]
    <3>1. k + 1 \in 1..Len(q) /\ m + (k + 1) = (m + k) + 1
      BY <2>5, <1>1
    <3>2. r[m + (k + 1)] = q[k + 1]
      BY <3>1, <1>1
    <3>. QED
      BY <3>1, <3>2, <2>5, <1>1
  <2>. QED
    BY <2>1, <2>2, <2>3, <2>4, <2>5 DEF InOrder, NamedBy, CalledBy
<1>4. \A j \in 1..Len(r) : j \in 1..m \/ (j - m \in 1..Len(q) /\ m + (j - m) = j)
  BY <1>1
<1>5. ASSUME NEW j \in 1..Len(r)
      PROVE  InOrder(r, j, B)
  <2>1. CASE j \in 1..m
    BY <2>1, <1>2
  <2>2. CASE j - m \in 1..Len(q) /\ m + (j - m) = j
    <3>. DEFINE k == j - m
    <3>1. k \in 1..Len(q) /\ m + k = j
      BY <2>2
    <3>. HIDE DEF k
    <3>2. InOrder(r, m + k, B)
      BY <3>1, <1>3
    <3>. QED
      BY <3>1, <3>2
  <2>. QED
    BY <1>4, <2>1, <2>2
<1>6. Orderly(r, B)
  BY <1>5 DEF Orderly
<1>. QED
  BY <1>6 DEF r

LEMMA Reservations ==
    /\ DOMAIN ReservesConfig = {"USDT", "DAI", "USDC", "WETH", "WBTC", "BLEND"}
    /\ Symbols \subseteq DOMAIN ReservesConfig /\ Symbols \cap (Proxies \cup Reserved) = {}
    /\ ReserveSymbols \in Seq(Symbols) /\ Len(ReserveSymbols) \in Nat
    /\ \A i \in 1..Len(ReserveSymbols) : ReserveSymbols[i] \in Symbols
    /\ \A s \in Symbols : \E i \in 1..Len(ReserveSymbols) : s = ReserveSymbols[i]
<1>1. DOMAIN ReservesConfig = {"USDT", "DAI", "USDC", "WETH", "WBTC", "BLEND"}
  BY DEF ReservesConfig
<1>2. /\ ReserveSymbols \in Seq(DOMAIN ReservesConfig) /\ Len(ReserveSymbols) \in Nat
      /\ DOMAIN ReserveSymbols = 1..Len(ReserveSymbols)
  BY ReserveSymbolsAssumption
<1>3. \A i \in 1..Len(ReserveSymbols) : ReserveSymbols[i] \in DOMAIN ReservesConfig
  BY <1>2
<1>4. Symbols \subseteq DOMAIN ReservesConfig
  BY <1>2, <1>3 DEF Symbols
<1>5. Symbols \cap (Proxies \cup Reserved) = {}
  BY <1>1, <1>4 DEF Proxies, Reserved
<1>6. \A i \in 1..Len(ReserveSymbols) : ReserveSymbols[i] \in Symbols
  BY <1>2 DEF Symbols
<1>7. ReserveSymbols \in Seq(Symbols)
  BY <1>2, <1>6, SeqDef
<1>8. \A s \in Symbols : \E i \in 1..Len(ReserveSymbols) : s = ReserveSymbols[i]
  BY <1>2 DEF Symbols
<1>. QED
  BY <1>1, <1>2, <1>4, <1>5, <1>6, <1>7, <1>8

LEMMA StepFields ==
    ASSUME NEW do, NEW ids, NEW call, NEW on, NEW with
    PROVE  LET s == Step(do, ids, call, on, with)
           IN  s.do = do /\ s.ids = ids /\ s.call = call /\ s.on = on /\ s.with = with
BY DEF Step

\* Deployments need nothing.
IsDeploy(s) == s.do = "deploy" /\ s.call = "create" /\ \E id : s.ids = {id} /\ id \notin Proxies

LEMMA DeployIsDeploy ==
    ASSUME NEW id, NEW kind, id \notin Proxies
    PROVE  IsDeploy(Deploy(id, kind)) /\ Deploy(id, kind).ids = {id}
<1>. DEFINE ids == {id}
            s == Deploy(id, kind)
<1>1. s = Step("deploy", ids, "create", kind, "")
  BY DEF Deploy
<1>2. s.do = "deploy" /\ s.call = "create" /\ s.ids = ids
  <2>. HIDE DEF ids, s
  <2>. QED
    BY <1>1 DEF Step
<1>. HIDE DEF s
<1>3. IsDeploy(s) /\ s.ids = {id}
  BY <1>2 DEF IsDeploy
<1>. QED
  BY <1>3 DEF s

LEMMA DeployInOrder ==
    ASSUME NEW q, NEW j, NEW B, IsDeploy(q[j])
    PROVE  InOrder(q, j, B)
<1>1. WellFormed(q[j])
  BY DEF IsDeploy, WellFormed, Sends, Others, Tolerant
<1>2. Prepared(q[j], NamedBy(q, j, B), CalledBy(q, j, B))
  BY DEF IsDeploy, Prepared, OnProvider
<1>. QED
  BY <1>1, <1>2 DEF IsDeploy, InOrder, Planning

LEMMA DeploysInOrder ==
    ASSUME NEW q, \A i \in 1..Len(q) : IsDeploy(q[i]), NEW B
    PROVE  Orderly(q, B)
BY DeployInOrder DEF Orderly

LEMMA Earlier ==
    ASSUME NEW q, NEW B, NEW i \in Nat, NEW j \in Nat, 1 <= i, i < j
    PROVE  q[i].ids \subseteq NamedBy(q, j, B) /\ q[i].call \in CalledBy(q, j, B)
<1>1. i \in 1..(j - 1)
  OBVIOUS
<1>. QED
  BY <1>1 DEF Named, Called, NamedBy, CalledBy, Before

LEMMA EarlierStill ==
    ASSUME NEW q, NEW B, NEW j
    PROVE  Named(B) \subseteq NamedBy(q, j, B) /\ Called(B) \subseteq CalledBy(q, j, B)
BY DEF Named, Called, NamedBy, CalledBy, Before

LEMMA MoreSteps ==
    ASSUME NEW B, NEW C
    PROVE  /\ Named(B \cup C) = Named(B) \cup Named(C)
           /\ Called(B \cup C) = Called(B) \cup Called(C)
BY DEF Named, Called

LEMMA SeqOf ==
    ASSUME NEW q, NEW n \in Nat, DOMAIN q = 1..n, q = [i \in 1..n |-> q[i]]
    PROVE  IsSteps(q) /\ Len(q) = n
<1>1. q \in [1..n -> {q[i] : i \in 1..n}]
  OBVIOUS
<1>2. \A S : (\A i \in 1..n : q[i] \in S) => q \in Seq(S)
  BY SeqDef
<1>3. Len(q) = n
  BY <1>2
<1>4. Steps(q) = {q[i] : i \in 1..n}
  BY <1>3 DEF Steps
<1>. QED
  BY <1>2, <1>3, <1>4 DEF IsSteps

LEMMA NamedEarlier ==
    ASSUME NEW q, NEW B, NEW j, NEW i \in 1..(j - 1), NEW id \in q[i].ids
    PROVE  id \in NamedBy(q, j, B)
BY DEF Named, NamedBy, Before

LEMMA CalledEarlier ==
    ASSUME NEW q, NEW B, NEW j, NEW i \in 1..(j - 1)
    PROVE  q[i].call \in CalledBy(q, j, B)
BY DEF Called, CalledBy, Before

\* The fields of a step.
Fits(s, do, ids, call, on, with) ==
    s.do = do /\ s.ids = ids /\ s.call = call /\ s.on = on /\ s.with = with

LEMMA StepFits ==
    ASSUME NEW do, NEW ids, NEW call, NEW on, NEW with, NEW s, s = Step(do, ids, call, on, with)
    PROVE  Fits(s, do, ids, call, on, with)
BY DEF Step, Fits

LEMMA DeployedInOrder ==
    ASSUME NEW q, NEW j, NEW B, NEW id, NEW kind, id \notin Proxies, q[j] = Deploy(id, kind)
    PROVE  InOrder(q, j, B) /\ id \in q[j].ids
<1>1. IsDeploy(Deploy(id, kind)) /\ Deploy(id, kind).ids = {id}
  BY DeployIsDeploy, Zenon
<1>2. InOrder(q, j, B)
  BY <1>1, DeployInOrder, Zenon
<1>. QED
  BY <1>1, <1>2

LEMMA TreasuryInOrder ==
    ASSUME NEW B
    PROVE  IsSteps(deployTreasury) /\ Orderly(deployTreasury, B)
           /\ Deploy("TreasuryProxy", "InitializableAdminUpgradeabilityProxy") \in Steps(deployTreasury)
           /\ TrySend("initialize", "Treasury-Implementation", "") \in Steps(deployTreasury)
           /\ TrySend("initialize", "TreasuryProxy", "Treasury-Implementation") \in Steps(deployTreasury)
<1>. DEFINE q == deployTreasury
<1>s. IsSteps(q) /\ Len(q) = 5
  <2>1. DOMAIN q = 1..5 /\ q = [i \in 1..5 |-> q[i]]
    BY DEF deployTreasury
  <2>. HIDE DEF q
  <2>. QED
    BY <2>1, SeqOf
<1>a1. q[1] = Deploy("TreasuryProxy", "InitializableAdminUpgradeabilityProxy")
  BY DEF deployTreasury
<1>a2. q[2] = Deploy("Treasury-Controller", "EcosystemReserveController")
  BY DEF deployTreasury
<1>a3. q[3] = Deploy("Treasury-Implementation", "EcosystemReserveV2")
  BY DEF deployTreasury
<1>a4. q[4] = TrySend("initialize", "Treasury-Implementation", "")
  BY DEF deployTreasury
<1>a5. q[5] = TrySend("initialize", "TreasuryProxy", "Treasury-Implementation")
  BY DEF deployTreasury
<1>. HIDE DEF q
<1>f4. Fits(q[4], "trySend", {}, "initialize", "Treasury-Implementation", "")
  <2>1. q[4] = Step("trySend", {}, "initialize", "Treasury-Implementation", "")
    BY <1>a4 DEF TrySend
  <2>. QED
    BY <2>1, StepFits, Zenon
<1>f5. Fits(q[5], "trySend", {}, "initialize", "TreasuryProxy", "Treasury-Implementation")
  <2>1. q[5] = Step("trySend", {}, "initialize", "TreasuryProxy", "Treasury-Implementation")
    BY <1>a5 DEF TrySend
  <2>. QED
    BY <2>1, StepFits, Zenon
<1>1. InOrder(q, 1, B) /\ "TreasuryProxy" \in q[1].ids
  <2>1. "TreasuryProxy" \notin Proxies
    BY DEF Proxies
  <2>. QED
    BY <1>a1, <2>1, DeployedInOrder, Zenon
<1>2. InOrder(q, 2, B) /\ "Treasury-Controller" \in q[2].ids
  <2>1. "Treasury-Controller" \notin Proxies
    BY DEF Proxies
  <2>. QED
    BY <1>a2, <2>1, DeployedInOrder, Zenon
<1>3. InOrder(q, 3, B) /\ "Treasury-Implementation" \in q[3].ids
  <2>1. "Treasury-Implementation" \notin Proxies
    BY DEF Proxies
  <2>. QED
    BY <1>a3, <2>1, DeployedInOrder, Zenon
<1>4. InOrder(q, 4, B)
  <2>1. /\ q[4].do = "trySend" /\ q[4].ids = {} /\ q[4].call = "initialize"
        /\ q[4].on = "Treasury-Implementation" /\ q[4].with = ""
    BY <1>f4 DEF Fits
  <2>2. "Treasury-Implementation" \in NamedBy(q, 4, B)
    <3>1. 3 \in 1..(4 - 1)
      OBVIOUS
    <3>. QED
      BY <1>3, <3>1, NamedEarlier, Zenon
  <2>3. WellFormed(q[4])
    BY <2>1 DEF WellFormed, Sends, Others, OnProvider, Tolerant
  <2>4. Prepared(q[4], NamedBy(q, 4, B), CalledBy(q, 4, B))
    BY <2>1, <2>2 DEF Prepared, Saves, OnProvider, Reserved
  <2>. QED
    BY <2>1, <2>3, <2>4 DEF InOrder, Planning
<1>5. InOrder(q, 5, B)
  <2>1. /\ q[5].do = "trySend" /\ q[5].ids = {} /\ q[5].call = "initialize"
        /\ q[5].on = "TreasuryProxy" /\ q[5].with = "Treasury-Implementation"
    BY <1>f5 DEF Fits
  <2>2. "TreasuryProxy" \in NamedBy(q, 5, B)
    <3>1. 1 \in 1..(5 - 1)
      OBVIOUS
    <3>. QED
      BY <1>1, <3>1, NamedEarlier, Zenon
  <2>3. WellFormed(q[5])
    BY <2>1 DEF WellFormed, Sends, Others, OnProvider, Tolerant
  <2>4. Prepared(q[5], NamedBy(q, 5, B), CalledBy(q, 5, B))
    BY <2>1, <2>2 DEF Prepared, Saves, OnProvider, Reserved
  <2>. QED
    BY <2>1, <2>3, <2>4 DEF InOrder, Planning
<1>o. Orderly(q, B)
  <2>1. \A j \in 1..5 : InOrder(q, j, B)
    BY <1>1, <1>2, <1>3, <1>4, <1>5
  <2>. QED
    BY <2>1, <1>s DEF Orderly
<1>k. /\ Deploy("TreasuryProxy", "InitializableAdminUpgradeabilityProxy") \in Steps(q)
      /\ TrySend("initialize", "Treasury-Implementation", "") \in Steps(q)
      /\ TrySend("initialize", "TreasuryProxy", "Treasury-Implementation") \in Steps(q)
  <2>1. \A j \in 1..5 : q[j] \in Steps(q)
    BY <1>s DEF Steps
  <2>2. Deploy("TreasuryProxy", "InitializableAdminUpgradeabilityProxy") \in Steps(q)
    <3>1. q[1] \in Steps(q)
      BY <2>1
    <3>. QED
      BY <1>a1, <3>1
  <2>3. TrySend("initialize", "Treasury-Implementation", "") \in Steps(q)
    <3>1. q[4] \in Steps(q)
      BY <2>1
    <3>. QED
      BY <1>a4, <3>1
  <2>4. TrySend("initialize", "TreasuryProxy", "Treasury-Implementation") \in Steps(q)
    <3>1. q[5] \in Steps(q)
      BY <2>1
    <3>. QED
      BY <1>a5, <3>1
  <2>. QED
    BY <2>2, <2>3, <2>4
<1>. QED
  BY <1>s, <1>o, <1>k DEF q

LEMMA ProviderInOrder ==
    ASSUME NEW B
    PROVE  IsSteps(deployProvider) /\ Orderly(deployProvider, B)
           /\ Deploy("PoolAddressesProvider", "PoolAddressesProvider") \in Steps(deployProvider)
           /\ Invoke("registerAddressesProvider", "PoolAddressesProviderRegistry", "PoolAddressesProvider") \in Steps(deployProvider)
           /\ Invoke("setPoolDataProvider", "PoolAddressesProvider", "PoolDataProvider") \in Steps(deployProvider)
<1>. DEFINE q == deployProvider
<1>s. IsSteps(q) /\ Len(q) = 6
  <2>1. DOMAIN q = 1..6 /\ q = [i \in 1..6 |-> q[i]]
    BY DEF deployProvider
  <2>. HIDE DEF q
  <2>. QED
    BY <2>1, SeqOf
<1>a1. q[1] = Get({"LiquidationLogic", "SupplyLogic", "EModeLogic", "FlashLoanLogic", "BorrowLogic",
                      "BridgeLogic", "PoolLogic", "ConfiguratorLogic"})
  BY DEF deployProvider
<1>a2. q[2] = Deploy("PoolAddressesProviderRegistry", "PoolAddressesProviderRegistry")
  BY DEF deployProvider
<1>a3. q[3] = Deploy("PoolAddressesProvider", "PoolAddressesProvider")
  BY DEF deployProvider
<1>a4. q[4] = Invoke("registerAddressesProvider", "PoolAddressesProviderRegistry", "PoolAddressesProvider")
  BY DEF deployProvider
<1>a5. q[5] = Deploy("PoolDataProvider", "PoolDataProvider")
  BY DEF deployProvider
<1>a6. q[6] = Invoke("setPoolDataProvider", "PoolAddressesProvider", "PoolDataProvider")
  BY DEF deployProvider
<1>. HIDE DEF q
<1>f1. Fits(q[1], "get", {"LiquidationLogic", "SupplyLogic", "EModeLogic", "FlashLoanLogic", "BorrowLogic",
                      "BridgeLogic", "PoolLogic", "ConfiguratorLogic"}, "", "", "")
  <2>1. q[1] = Step("get", {"LiquidationLogic", "SupplyLogic", "EModeLogic", "FlashLoanLogic", "BorrowLogic",
                      "BridgeLogic", "PoolLogic", "ConfiguratorLogic"}, "", "", "")
    BY <1>a1 DEF Get
  <2>. QED
    BY <2>1, StepFits, Zenon
<1>f4. Fits(q[4], "invoke", {}, "registerAddressesProvider", "PoolAddressesProviderRegistry", "PoolAddressesProvider")
  <2>1. q[4] = Step("invoke", {}, "registerAddressesProvider", "PoolAddressesProviderRegistry", "PoolAddressesProvider")
    BY <1>a4 DEF Invoke
  <2>. QED
    BY <2>1, StepFits, Zenon
<1>f6. Fits(q[6], "invoke", {}, "setPoolDataProvider", "PoolAddressesProvider", "PoolDataProvider")
  <2>1. q[6] = Step("invoke", {}, "setPoolDataProvider", "PoolAddressesProvider", "PoolDataProvider")
    BY <1>a6 DEF Invoke
  <2>. QED
    BY <2>1, StepFits, Zenon
<1>1. InOrder(q, 1, B)
  <2>1. /\ q[1].do = "get" /\ q[1].ids = {"LiquidationLogic", "SupplyLogic", "EModeLogic", "FlashLoanLogic", "BorrowLogic",
                      "BridgeLogic", "PoolLogic", "ConfiguratorLogic"} /\ q[1].call = ""
        /\ q[1].on = "" /\ q[1].with = ""
    BY <1>f1 DEF Fits
  <2>2. WellFormed(q[1])
    BY <2>1 DEF WellFormed, Sends, Others, OnProvider, Tolerant
  <2>3. Prepared(q[1], NamedBy(q, 1, B), CalledBy(q, 1, B))
    BY <2>1 DEF Prepared, Saves, OnProvider, Reserved
  <2>. QED
    BY <2>1, <2>2, <2>3 DEF InOrder, Planning
<1>2. InOrder(q, 2, B) /\ "PoolAddressesProviderRegistry" \in q[2].ids
  <2>1. "PoolAddressesProviderRegistry" \notin Proxies
    BY DEF Proxies
  <2>. QED
    BY <1>a2, <2>1, DeployedInOrder, Zenon
<1>3. InOrder(q, 3, B) /\ "PoolAddressesProvider" \in q[3].ids
  <2>1. "PoolAddressesProvider" \notin Proxies
    BY DEF Proxies
  <2>. QED
    BY <1>a3, <2>1, DeployedInOrder, Zenon
<1>4. InOrder(q, 4, B)
  <2>1. /\ q[4].do = "invoke" /\ q[4].ids = {} /\ q[4].call = "registerAddressesProvider"
        /\ q[4].on = "PoolAddressesProviderRegistry" /\ q[4].with = "PoolAddressesProvider"
    BY <1>f4 DEF Fits
  <2>2. "PoolAddressesProviderRegistry" \in NamedBy(q, 4, B)
    <3>1. 2 \in 1..(4 - 1)
      OBVIOUS
    <3>. QED
      BY <1>2, <3>1, NamedEarlier, Zenon
  <2>3. "PoolAddressesProvider" \in NamedBy(q, 4, B)
    <3>1. 3 \in 1..(4 - 1)
      OBVIOUS
    <3>. QED
      BY <1>3, <3>1, NamedEarlier, Zenon
  <2>4. WellFormed(q[4])
    BY <2>1 DEF WellFormed, Sends, Others, OnProvider, Tolerant
  <2>5. Prepared(q[4], NamedBy(q, 4, B), CalledBy(q, 4, B))
    BY <2>1, <2>2, <2>3 DEF Prepared, Saves, OnProvider, Reserved
  <2>. QED
    BY <2>1, <2>4, <2>5 DEF InOrder, Planning
<1>5. InOrder(q, 5, B) /\ "PoolDataProvider" \in q[5].ids
  <2>1. "PoolDataProvider" \notin Proxies
    BY DEF Proxies
  <2>. QED
    BY <1>a5, <2>1, DeployedInOrder, Zenon
<1>6. InOrder(q, 6, B)
  <2>1. /\ q[6].do = "invoke" /\ q[6].ids = {} /\ q[6].call = "setPoolDataProvider"
        /\ q[6].on = "PoolAddressesProvider" /\ q[6].with = "PoolDataProvider"
    BY <1>f6 DEF Fits
  <2>2. "PoolAddressesProvider" \in NamedBy(q, 6, B)
    <3>1. 3 \in 1..(6 - 1)
      OBVIOUS
    <3>. QED
      BY <1>3, <3>1, NamedEarlier, Zenon
  <2>3. "PoolDataProvider" \in NamedBy(q, 6, B)
    <3>1. 5 \in 1..(6 - 1)
      OBVIOUS
    <3>. QED
      BY <1>5, <3>1, NamedEarlier, Zenon
  <2>4. WellFormed(q[6])
    BY <2>1 DEF WellFormed, Sends, Others, OnProvider, Tolerant
  <2>5. Prepared(q[6], NamedBy(q, 6, B), CalledBy(q, 6, B))
    BY <2>1, <2>2, <2>3 DEF Prepared, Saves, OnProvider, Reserved
  <2>. QED
    BY <2>1, <2>4, <2>5 DEF InOrder, Planning
<1>o. Orderly(q, B)
  <2>1. \A j \in 1..6 : InOrder(q, j, B)
    BY <1>1, <1>2, <1>3, <1>4, <1>5, <1>6
  <2>. QED
    BY <2>1, <1>s DEF Orderly
<1>k. /\ Deploy("PoolAddressesProvider", "PoolAddressesProvider") \in Steps(q)
      /\ Invoke("registerAddressesProvider", "PoolAddressesProviderRegistry", "PoolAddressesProvider") \in Steps(q)
      /\ Invoke("setPoolDataProvider", "PoolAddressesProvider", "PoolDataProvider") \in Steps(q)
  <2>1. \A j \in 1..6 : q[j] \in Steps(q)
    BY <1>s DEF Steps
  <2>2. Deploy("PoolAddressesProvider", "PoolAddressesProvider") \in Steps(q)
    <3>1. q[3] \in Steps(q)
      BY <2>1
    <3>. QED
      BY <1>a3, <3>1
  <2>3. Invoke("registerAddressesProvider", "PoolAddressesProviderRegistry", "PoolAddressesProvider") \in Steps(q)
    <3>1. q[4] \in Steps(q)
      BY <2>1
    <3>. QED
      BY <1>a4, <3>1
  <2>4. Invoke("setPoolDataProvider", "PoolAddressesProvider", "PoolDataProvider") \in Steps(q)
    <3>1. q[6] \in Steps(q)
      BY <2>1
    <3>. QED
      BY <1>a6, <3>1
  <2>. QED
    BY <2>2, <2>3, <2>4
<1>. QED
  BY <1>s, <1>o, <1>k DEF q

LEMMA AdminsInOrder ==
    ASSUME NEW B,
           "PoolAddressesProvider" \in Named(B)
    PROVE  IsSteps(deployAdmins) /\ Orderly(deployAdmins, B)
           /\ Invoke("setACLManager", "PoolAddressesProvider", "ACLManager") \in Steps(deployAdmins)
           /\ Check \in Steps(deployAdmins)
<1>. DEFINE q == deployAdmins
<1>s. IsSteps(q) /\ Len(q) = 6
  <2>1. DOMAIN q = 1..6 /\ q = [i \in 1..6 |-> q[i]]
    BY DEF deployAdmins
  <2>. HIDE DEF q
  <2>. QED
    BY <2>1, SeqOf
<1>a1. q[1] = Invoke("setACLAdmin", "PoolAddressesProvider", "deployer")
  BY DEF deployAdmins
<1>a2. q[2] = Deploy("ACLManager", "ACLManager")
  BY DEF deployAdmins
<1>a3. q[3] = Invoke("setACLManager", "PoolAddressesProvider", "ACLManager")
  BY DEF deployAdmins
<1>a4. q[4] = Invoke("addPoolAdmin", "ACLManager", "deployer")
  BY DEF deployAdmins
<1>a5. q[5] = Invoke("addEmergencyAdmin", "ACLManager", "deployer")
  BY DEF deployAdmins
<1>a6. q[6] = Check
  BY DEF deployAdmins
<1>. HIDE DEF q
<1>f1. Fits(q[1], "invoke", {}, "setACLAdmin", "PoolAddressesProvider", "deployer")
  <2>1. q[1] = Step("invoke", {}, "setACLAdmin", "PoolAddressesProvider", "deployer")
    BY <1>a1 DEF Invoke
  <2>. QED
    BY <2>1, StepFits, Zenon
<1>f3. Fits(q[3], "invoke", {}, "setACLManager", "PoolAddressesProvider", "ACLManager")
  <2>1. q[3] = Step("invoke", {}, "setACLManager", "PoolAddressesProvider", "ACLManager")
    BY <1>a3 DEF Invoke
  <2>. QED
    BY <2>1, StepFits, Zenon
<1>f4. Fits(q[4], "invoke", {}, "addPoolAdmin", "ACLManager", "deployer")
  <2>1. q[4] = Step("invoke", {}, "addPoolAdmin", "ACLManager", "deployer")
    BY <1>a4 DEF Invoke
  <2>. QED
    BY <2>1, StepFits, Zenon
<1>f5. Fits(q[5], "invoke", {}, "addEmergencyAdmin", "ACLManager", "deployer")
  <2>1. q[5] = Step("invoke", {}, "addEmergencyAdmin", "ACLManager", "deployer")
    BY <1>a5 DEF Invoke
  <2>. QED
    BY <2>1, StepFits, Zenon
<1>f6. Fits(q[6], "check", {}, "", "ACLManager", "")
  <2>1. q[6] = Step("check", {}, "", "ACLManager", "")
    BY <1>a6 DEF Check
  <2>. QED
    BY <2>1, StepFits, Zenon
<1>1. InOrder(q, 1, B)
  <2>1. /\ q[1].do = "invoke" /\ q[1].ids = {} /\ q[1].call = "setACLAdmin"
        /\ q[1].on = "PoolAddressesProvider" /\ q[1].with = "deployer"
    BY <1>f1 DEF Fits
  <2>2. "PoolAddressesProvider" \in NamedBy(q, 1, B)
    BY EarlierStill
  <2>3. WellFormed(q[1])
    BY <2>1 DEF WellFormed, Sends, Others, OnProvider, Tolerant
  <2>4. Prepared(q[1], NamedBy(q, 1, B), CalledBy(q, 1, B))
    BY <2>1, <2>2 DEF Prepared, Saves, OnProvider, Reserved
  <2>. QED
    BY <2>1, <2>3, <2>4 DEF InOrder, Planning
<1>2. InOrder(q, 2, B) /\ "ACLManager" \in q[2].ids
  <2>1. "ACLManager" \notin Proxies
    BY DEF Proxies
  <2>. QED
    BY <1>a2, <2>1, DeployedInOrder, Zenon
<1>3. InOrder(q, 3, B)
  <2>1. /\ q[3].do = "invoke" /\ q[3].ids = {} /\ q[3].call = "setACLManager"
        /\ q[3].on = "PoolAddressesProvider" /\ q[3].with = "ACLManager"
    BY <1>f3 DEF Fits
  <2>2. "PoolAddressesProvider" \in NamedBy(q, 3, B)
    BY EarlierStill
  <2>3. "ACLManager" \in NamedBy(q, 3, B)
    <3>1. 2 \in 1..(3 - 1)
      OBVIOUS
    <3>. QED
      BY <1>2, <3>1, NamedEarlier, Zenon
  <2>4. WellFormed(q[3])
    BY <2>1 DEF WellFormed, Sends, Others, OnProvider, Tolerant
  <2>5. Prepared(q[3], NamedBy(q, 3, B), CalledBy(q, 3, B))
    BY <2>1, <2>2, <2>3 DEF Prepared, Saves, OnProvider, Reserved
  <2>. QED
    BY <2>1, <2>4, <2>5 DEF InOrder, Planning
<1>4. InOrder(q, 4, B)
  <2>1. /\ q[4].do = "invoke" /\ q[4].ids = {} /\ q[4].call = "addPoolAdmin"
        /\ q[4].on = "ACLManager" /\ q[4].with = "deployer"
    BY <1>f4 DEF Fits
  <2>2. WellFormed(q[4])
    BY <2>1 DEF WellFormed, Sends, Others, OnProvider, Tolerant
  <2>3. Prepared(q[4], NamedBy(q, 4, B), CalledBy(q, 4, B))
    BY <2>1 DEF Prepared, Saves, OnProvider, Reserved
  <2>. QED
    BY <2>1, <2>2, <2>3 DEF InOrder, Planning
<1>5. InOrder(q, 5, B)
  <2>1. /\ q[5].do = "invoke" /\ q[5].ids = {} /\ q[5].call = "addEmergencyAdmin"
        /\ q[5].on = "ACLManager" /\ q[5].with = "deployer"
    BY <1>f5 DEF Fits
  <2>2. WellFormed(q[5])
    BY <2>1 DEF WellFormed, Sends, Others, OnProvider, Tolerant
  <2>3. Prepared(q[5], NamedBy(q, 5, B), CalledBy(q, 5, B))
    BY <2>1 DEF Prepared, Saves, OnProvider, Reserved
  <2>. QED
    BY <2>1, <2>2, <2>3 DEF InOrder, Planning
<1>6. InOrder(q, 6, B)
  <2>1. /\ q[6].do = "check" /\ q[6].ids = {} /\ q[6].call = ""
        /\ q[6].on = "ACLManager" /\ q[6].with = ""
    BY <1>f6 DEF Fits
  <2>2. "ACLManager" \in NamedBy(q, 6, B)
    <3>1. 2 \in 1..(6 - 1)
      OBVIOUS
    <3>. QED
      BY <1>2, <3>1, NamedEarlier, Zenon
  <2>3. WellFormed(q[6])
    BY <2>1 DEF WellFormed, Sends, Others, OnProvider, Tolerant
  <2>4. Prepared(q[6], NamedBy(q, 6, B), CalledBy(q, 6, B))
    BY <2>1, <2>2 DEF Prepared, Saves, OnProvider, Reserved
  <2>. QED
    BY <2>1, <2>3, <2>4 DEF InOrder, Planning
<1>o. Orderly(q, B)
  <2>1. \A j \in 1..6 : InOrder(q, j, B)
    BY <1>1, <1>2, <1>3, <1>4, <1>5, <1>6
  <2>. QED
    BY <2>1, <1>s DEF Orderly
<1>k. /\ Invoke("setACLManager", "PoolAddressesProvider", "ACLManager") \in Steps(q)
      /\ Check \in Steps(q)
  <2>1. \A j \in 1..6 : q[j] \in Steps(q)
    BY <1>s DEF Steps
  <2>2. Invoke("setACLManager", "PoolAddressesProvider", "ACLManager") \in Steps(q)
    <3>1. q[3] \in Steps(q)
      BY <2>1
    <3>. QED
      BY <1>a3, <3>1
  <2>3. Check \in Steps(q)
    <3>1. q[6] \in Steps(q)
      BY <2>1
    <3>. QED
      BY <1>a6, <3>1
  <2>. QED
    BY <2>2, <2>3
<1>. QED
  BY <1>s, <1>o, <1>k DEF q

LEMMA PoolInOrder ==
    ASSUME NEW B,
           "PoolAddressesProvider" \in Named(B)
    PROVE  IsSteps(deployPool) /\ Orderly(deployPool, B)
           /\ Deploy("ProtocolOracle", "ProtocolOracle") \in Steps(deployPool)
           /\ Invoke("setPriceOracle", "PoolAddressesProvider", "ProtocolOracle") \in Steps(deployPool)
           /\ TryInvoke("initialize", "Pool-Implementation", "") \in Steps(deployPool)
           /\ Invoke("setPoolImpl", "PoolAddressesProvider", "Pool-Implementation") \in Steps(deployPool)
           /\ SaveAs("Pool-Proxy", "POOL") \in Steps(deployPool)
           /\ Invoke("setPoolConfiguratorImpl", "PoolAddressesProvider", "PoolConfigurator-Implementation") \in Steps(deployPool)
           /\ SaveAs("PoolConfigurator-Proxy", "POOL_CONFIGURATOR") \in Steps(deployPool)
           /\ Invoke("updateFlashloanPremiumTotal", "POOL_CONFIGURATOR", "") \in Steps(deployPool)
<1>. DEFINE q == deployPool
<1>s. IsSteps(q) /\ Len(q) = 12
  <2>1. DOMAIN q = 1..12 /\ q = [i \in 1..12 |-> q[i]]
    BY DEF deployPool
  <2>. HIDE DEF q
  <2>. QED
    BY <2>1, SeqOf
<1>a1. q[1] = Deploy("ProtocolOracle", "ProtocolOracle")
  BY DEF deployPool
<1>a2. q[2] = Invoke("setPriceOracle", "PoolAddressesProvider", "ProtocolOracle")
  BY DEF deployPool
<1>a3. q[3] = Deploy("Pool-Implementation", "Pool")
  BY DEF deployPool
<1>a4. q[4] = TryInvoke("initialize", "Pool-Implementation", "")
  BY DEF deployPool
<1>a5. q[5] = Deploy("PoolConfigurator-Implementation", "PoolConfigurator")
  BY DEF deployPool
<1>a6. q[6] = TryInvoke("initialize", "PoolConfigurator-Implementation", "")
  BY DEF deployPool
<1>a7. q[7] = Invoke("setPoolImpl", "PoolAddressesProvider", "Pool-Implementation")
  BY DEF deployPool
<1>a8. q[8] = SaveAs("Pool-Proxy", "POOL")
  BY DEF deployPool
<1>a9. q[9] = Invoke("setPoolConfiguratorImpl", "PoolAddressesProvider", "PoolConfigurator-Implementation")
  BY DEF deployPool
<1>a10. q[10] = SaveAs("PoolConfigurator-Proxy", "POOL_CONFIGURATOR")
  BY DEF deployPool
<1>a11. q[11] = Invoke("updateFlashloanPremiumTotal", "POOL_CONFIGURATOR", "")
  BY DEF deployPool
<1>a12. q[12] = Invoke("updateFlashloanPremiumToProtocol", "POOL_CONFIGURATOR", "")
  BY DEF deployPool
<1>. HIDE DEF q
<1>f2. Fits(q[2], "invoke", {}, "setPriceOracle", "PoolAddressesProvider", "ProtocolOracle")
  <2>1. q[2] = Step("invoke", {}, "setPriceOracle", "PoolAddressesProvider", "ProtocolOracle")
    BY <1>a2 DEF Invoke
  <2>. QED
    BY <2>1, StepFits, Zenon
<1>f4. Fits(q[4], "tryInvoke", {}, "initialize", "Pool-Implementation", "")
  <2>1. q[4] = Step("tryInvoke", {}, "initialize", "Pool-Implementation", "")
    BY <1>a4 DEF TryInvoke
  <2>. QED
    BY <2>1, StepFits, Zenon
<1>f6. Fits(q[6], "tryInvoke", {}, "initialize", "PoolConfigurator-Implementation", "")
  <2>1. q[6] = Step("tryInvoke", {}, "initialize", "PoolConfigurator-Implementation", "")
    BY <1>a6 DEF TryInvoke
  <2>. QED
    BY <2>1, StepFits, Zenon
<1>f7. Fits(q[7], "invoke", {}, "setPoolImpl", "PoolAddressesProvider", "Pool-Implementation")
  <2>1. q[7] = Step("invoke", {}, "setPoolImpl", "PoolAddressesProvider", "Pool-Implementation")
    BY <1>a7 DEF Invoke
  <2>. QED
    BY <2>1, StepFits, Zenon
<1>f8. Fits(q[8], "save", {"Pool-Proxy"}, "", "POOL", "")
  <2>1. q[8] = Step("save", {"Pool-Proxy"}, "", "POOL", "")
    BY <1>a8 DEF SaveAs
  <2>. QED
    BY <2>1, StepFits, Zenon
<1>f9. Fits(q[9], "invoke", {}, "setPoolConfiguratorImpl", "PoolAddressesProvider", "PoolConfigurator-Implementation")
  <2>1. q[9] = Step("invoke", {}, "setPoolConfiguratorImpl", "PoolAddressesProvider", "PoolConfigurator-Implementation")
    BY <1>a9 DEF Invoke
  <2>. QED
    BY <2>1, StepFits, Zenon
<1>f10. Fits(q[10], "save", {"PoolConfigurator-Proxy"}, "", "POOL_CONFIGURATOR", "")
  <2>1. q[10] = Step("save", {"PoolConfigurator-Proxy"}, "", "POOL_CONFIGURATOR", "")
    BY <1>a10 DEF SaveAs
  <2>. QED
    BY <2>1, StepFits, Zenon
<1>f11. Fits(q[11], "invoke", {}, "updateFlashloanPremiumTotal", "POOL_CONFIGURATOR", "")
  <2>1. q[11] = Step("invoke", {}, "updateFlashloanPremiumTotal", "POOL_CONFIGURATOR", "")
    BY <1>a11 DEF Invoke
  <2>. QED
    BY <2>1, StepFits, Zenon
<1>f12. Fits(q[12], "invoke", {}, "updateFlashloanPremiumToProtocol", "POOL_CONFIGURATOR", "")
  <2>1. q[12] = Step("invoke", {}, "updateFlashloanPremiumToProtocol", "POOL_CONFIGURATOR", "")
    BY <1>a12 DEF Invoke
  <2>. QED
    BY <2>1, StepFits, Zenon
<1>1. InOrder(q, 1, B) /\ "ProtocolOracle" \in q[1].ids
  <2>1. "ProtocolOracle" \notin Proxies
    BY DEF Proxies
  <2>. QED
    BY <1>a1, <2>1, DeployedInOrder, Zenon
<1>2. InOrder(q, 2, B)
  <2>1. /\ q[2].do = "invoke" /\ q[2].ids = {} /\ q[2].call = "setPriceOracle"
        /\ q[2].on = "PoolAddressesProvider" /\ q[2].with = "ProtocolOracle"
    BY <1>f2 DEF Fits
  <2>2. "PoolAddressesProvider" \in NamedBy(q, 2, B)
    BY EarlierStill
  <2>3. "ProtocolOracle" \in NamedBy(q, 2, B)
    <3>1. 1 \in 1..(2 - 1)
      OBVIOUS
    <3>. QED
      BY <1>1, <3>1, NamedEarlier, Zenon
  <2>4. WellFormed(q[2])
    BY <2>1 DEF WellFormed, Sends, Others, OnProvider, Tolerant
  <2>5. Prepared(q[2], NamedBy(q, 2, B), CalledBy(q, 2, B))
    BY <2>1, <2>2, <2>3 DEF Prepared, Saves, OnProvider, Reserved
  <2>. QED
    BY <2>1, <2>4, <2>5 DEF InOrder, Planning
<1>3. InOrder(q, 3, B) /\ "Pool-Implementation" \in q[3].ids
  <2>1. "Pool-Implementation" \notin Proxies
    BY DEF Proxies
  <2>. QED
    BY <1>a3, <2>1, DeployedInOrder, Zenon
<1>4. InOrder(q, 4, B)
  <2>1. /\ q[4].do = "tryInvoke" /\ q[4].ids = {} /\ q[4].call = "initialize"
        /\ q[4].on = "Pool-Implementation" /\ q[4].with = ""
    BY <1>f4 DEF Fits
  <2>2. "Pool-Implementation" \in NamedBy(q, 4, B)
    <3>1. 3 \in 1..(4 - 1)
      OBVIOUS
    <3>. QED
      BY <1>3, <3>1, NamedEarlier, Zenon
  <2>3. WellFormed(q[4])
    BY <2>1 DEF WellFormed, Sends, Others, OnProvider, Tolerant
  <2>4. Prepared(q[4], NamedBy(q, 4, B), CalledBy(q, 4, B))
    BY <2>1, <2>2 DEF Prepared, Saves, OnProvider, Reserved
  <2>. QED
    BY <2>1, <2>3, <2>4 DEF InOrder, Planning
<1>5. InOrder(q, 5, B) /\ "PoolConfigurator-Implementation" \in q[5].ids
  <2>1. "PoolConfigurator-Implementation" \notin Proxies
    BY DEF Proxies
  <2>. QED
    BY <1>a5, <2>1, DeployedInOrder, Zenon
<1>6. InOrder(q, 6, B)
  <2>1. /\ q[6].do = "tryInvoke" /\ q[6].ids = {} /\ q[6].call = "initialize"
        /\ q[6].on = "PoolConfigurator-Implementation" /\ q[6].with = ""
    BY <1>f6 DEF Fits
  <2>2. "PoolConfigurator-Implementation" \in NamedBy(q, 6, B)
    <3>1. 5 \in 1..(6 - 1)
      OBVIOUS
    <3>. QED
      BY <1>5, <3>1, NamedEarlier, Zenon
  <2>3. WellFormed(q[6])
    BY <2>1 DEF WellFormed, Sends, Others, OnProvider, Tolerant
  <2>4. Prepared(q[6], NamedBy(q, 6, B), CalledBy(q, 6, B))
    BY <2>1, <2>2 DEF Prepared, Saves, OnProvider, Reserved
  <2>. QED
    BY <2>1, <2>3, <2>4 DEF InOrder, Planning
<1>7. InOrder(q, 7, B)
  <2>1. /\ q[7].do = "invoke" /\ q[7].ids = {} /\ q[7].call = "setPoolImpl"
        /\ q[7].on = "PoolAddressesProvider" /\ q[7].with = "Pool-Implementation"
    BY <1>f7 DEF Fits
  <2>2. "PoolAddressesProvider" \in NamedBy(q, 7, B)
    BY EarlierStill
  <2>3. WellFormed(q[7])
    BY <2>1 DEF WellFormed, Sends, Others, OnProvider, Tolerant
  <2>4. Prepared(q[7], NamedBy(q, 7, B), CalledBy(q, 7, B))
    BY <2>1, <2>2 DEF Prepared, Saves, OnProvider, Reserved
  <2>. QED
    BY <2>1, <2>3, <2>4 DEF InOrder, Planning
<1>8. InOrder(q, 8, B)
  <2>1. /\ q[8].do = "save" /\ q[8].ids = {"Pool-Proxy"} /\ q[8].call = ""
        /\ q[8].on = "POOL" /\ q[8].with = ""
    BY <1>f8 DEF Fits
  <2>2. "setPoolImpl" \in CalledBy(q, 8, B)
    <3>1. 7 \in 1..(8 - 1)
      OBVIOUS
    <3>2. q[7].call = "setPoolImpl"
      BY <1>f7 DEF Fits
    <3>. QED
      BY <3>1, <3>2, CalledEarlier, Zenon
  <2>3. WellFormed(q[8])
    BY <2>1 DEF WellFormed, Sends, Others, OnProvider, Tolerant
  <2>4. Prepared(q[8], NamedBy(q, 8, B), CalledBy(q, 8, B))
    BY <2>1, <2>2 DEF Prepared, Saves, OnProvider, Reserved
  <2>. QED
    BY <2>1, <2>3, <2>4 DEF InOrder, Planning
<1>9. InOrder(q, 9, B)
  <2>1. /\ q[9].do = "invoke" /\ q[9].ids = {} /\ q[9].call = "setPoolConfiguratorImpl"
        /\ q[9].on = "PoolAddressesProvider" /\ q[9].with = "PoolConfigurator-Implementation"
    BY <1>f9 DEF Fits
  <2>2. "PoolAddressesProvider" \in NamedBy(q, 9, B)
    BY EarlierStill
  <2>3. "setPoolImpl" \in CalledBy(q, 9, B)
    <3>1. 7 \in 1..(9 - 1)
      OBVIOUS
    <3>2. q[7].call = "setPoolImpl"
      BY <1>f7 DEF Fits
    <3>. QED
      BY <3>1, <3>2, CalledEarlier, Zenon
  <2>4. WellFormed(q[9])
    BY <2>1 DEF WellFormed, Sends, Others, OnProvider, Tolerant
  <2>5. Prepared(q[9], NamedBy(q, 9, B), CalledBy(q, 9, B))
    BY <2>1, <2>2, <2>3 DEF Prepared, Saves, OnProvider, Reserved
  <2>. QED
    BY <2>1, <2>4, <2>5 DEF InOrder, Planning
<1>10. InOrder(q, 10, B)
  <2>1. /\ q[10].do = "save" /\ q[10].ids = {"PoolConfigurator-Proxy"} /\ q[10].call = ""
        /\ q[10].on = "POOL_CONFIGURATOR" /\ q[10].with = ""
    BY <1>f10 DEF Fits
  <2>2. "setPoolConfiguratorImpl" \in CalledBy(q, 10, B)
    <3>1. 9 \in 1..(10 - 1)
      OBVIOUS
    <3>2. q[9].call = "setPoolConfiguratorImpl"
      BY <1>f9 DEF Fits
    <3>. QED
      BY <3>1, <3>2, CalledEarlier, Zenon
  <2>3. WellFormed(q[10])
    BY <2>1 DEF WellFormed, Sends, Others, OnProvider, Tolerant
  <2>4. Prepared(q[10], NamedBy(q, 10, B), CalledBy(q, 10, B))
    BY <2>1, <2>2 DEF Prepared, Saves, OnProvider, Reserved
  <2>. QED
    BY <2>1, <2>3, <2>4 DEF InOrder, Planning
<1>11. InOrder(q, 11, B)
  <2>1. /\ q[11].do = "invoke" /\ q[11].ids = {} /\ q[11].call = "updateFlashloanPremiumTotal"
        /\ q[11].on = "POOL_CONFIGURATOR" /\ q[11].with = ""
    BY <1>f11 DEF Fits
  <2>2. WellFormed(q[11])
    BY <2>1 DEF WellFormed, Sends, Others, OnProvider, Tolerant
  <2>3. Prepared(q[11], NamedBy(q, 11, B), CalledBy(q, 11, B))
    BY <2>1 DEF Prepared, Saves, OnProvider, Reserved
  <2>. QED
    BY <2>1, <2>2, <2>3 DEF InOrder, Planning
<1>12. InOrder(q, 12, B)
  <2>1. /\ q[12].do = "invoke" /\ q[12].ids = {} /\ q[12].call = "updateFlashloanPremiumToProtocol"
        /\ q[12].on = "POOL_CONFIGURATOR" /\ q[12].with = ""
    BY <1>f12 DEF Fits
  <2>2. WellFormed(q[12])
    BY <2>1 DEF WellFormed, Sends, Others, OnProvider, Tolerant
  <2>3. Prepared(q[12], NamedBy(q, 12, B), CalledBy(q, 12, B))
    BY <2>1 DEF Prepared, Saves, OnProvider, Reserved
  <2>. QED
    BY <2>1, <2>2, <2>3 DEF InOrder, Planning
<1>o. Orderly(q, B)
  <2>1. \A j \in 1..12 : InOrder(q, j, B)
    BY <1>1, <1>2, <1>3, <1>4, <1>5, <1>6, <1>7, <1>8, <1>9, <1>10, <1>11, <1>12
  <2>. QED
    BY <2>1, <1>s DEF Orderly
<1>k. /\ Deploy("ProtocolOracle", "ProtocolOracle") \in Steps(q)
      /\ Invoke("setPriceOracle", "PoolAddressesProvider", "ProtocolOracle") \in Steps(q)
      /\ TryInvoke("initialize", "Pool-Implementation", "") \in Steps(q)
      /\ Invoke("setPoolImpl", "PoolAddressesProvider", "Pool-Implementation") \in Steps(q)
      /\ SaveAs("Pool-Proxy", "POOL") \in Steps(q)
      /\ Invoke("setPoolConfiguratorImpl", "PoolAddressesProvider", "PoolConfigurator-Implementation") \in Steps(q)
      /\ SaveAs("PoolConfigurator-Proxy", "POOL_CONFIGURATOR") \in Steps(q)
      /\ Invoke("updateFlashloanPremiumTotal", "POOL_CONFIGURATOR", "") \in Steps(q)
  <2>1. \A j \in 1..12 : q[j] \in Steps(q)
    BY <1>s DEF Steps
  <2>2. Deploy("ProtocolOracle", "ProtocolOracle") \in Steps(q)
    <3>1. q[1] \in Steps(q)
      BY <2>1
    <3>. QED
      BY <1>a1, <3>1
  <2>3. Invoke("setPriceOracle", "PoolAddressesProvider", "ProtocolOracle") \in Steps(q)
    <3>1. q[2] \in Steps(q)
      BY <2>1
    <3>. QED
      BY <1>a2, <3>1
  <2>4. TryInvoke("initialize", "Pool-Implementation", "") \in Steps(q)
    <3>1. q[4] \in Steps(q)
      BY <2>1
    <3>. QED
      BY <1>a4, <3>1
  <2>5. Invoke("setPoolImpl", "PoolAddressesProvider", "Pool-Implementation") \in Steps(q)
    <3>1. q[7] \in Steps(q)
      BY <2>1
    <3>. QED
      BY <1>a7, <3>1
  <2>6. SaveAs("Pool-Proxy", "POOL") \in Steps(q)
    <3>1. q[8] \in Steps(q)
      BY <2>1
    <3>. QED
      BY <1>a8, <3>1
  <2>7. Invoke("setPoolConfiguratorImpl", "PoolAddressesProvider", "PoolConfigurator-Implementation") \in Steps(q)
    <3>1. q[9] \in Steps(q)
      BY <2>1
    <3>. QED
      BY <1>a9, <3>1
  <2>8. SaveAs("PoolConfigurator-Proxy", "POOL_CONFIGURATOR") \in Steps(q)
    <3>1. q[10] \in Steps(q)
      BY <2>1
    <3>. QED
      BY <1>a10, <3>1
  <2>9. Invoke("updateFlashloanPremiumTotal", "POOL_CONFIGURATOR", "") \in Steps(q)
    <3>1. q[11] \in Steps(q)
      BY <2>1
    <3>. QED
      BY <1>a11, <3>1
  <2>. QED
    BY <2>2, <2>3, <2>4, <2>5, <2>6, <2>7, <2>8, <2>9
<1>. QED
  BY <1>s, <1>o, <1>k DEF q

LEMMA TokenInOrder ==
    ASSUME NEW B
    PROVE  IsSteps(deployToken) /\ Orderly(deployToken, B)
           /\ Deploy("BToken", "BToken") \in Steps(deployToken)
           /\ TryInvoke("initialize", "BToken", "") \in Steps(deployToken)
           /\ Deploy("StableDebtToken", "StableDebtToken") \in Steps(deployToken)
           /\ Deploy("VariableDebtToken", "VariableDebtToken") \in Steps(deployToken)
<1>. DEFINE q == deployToken
<1>s. IsSteps(q) /\ Len(q) = 9
  <2>1. DOMAIN q = 1..9 /\ q = [i \in 1..9 |-> q[i]]
    BY DEF deployToken
  <2>. HIDE DEF q
  <2>. QED
    BY <2>1, SeqOf
<1>a1. q[1] = Get({"PoolAddressesProvider"})
  BY DEF deployToken
<1>a2. q[2] = Deploy("BToken", "BToken")
  BY DEF deployToken
<1>a3. q[3] = TryInvoke("initialize", "BToken", "")
  BY DEF deployToken
<1>a4. q[4] = Deploy("DelegationAwareBToken", "DelegationAwareBToken")
  BY DEF deployToken
<1>a5. q[5] = TryInvoke("initialize", "DelegationAwareBToken", "")
  BY DEF deployToken
<1>a6. q[6] = Deploy("StableDebtToken", "StableDebtToken")
  BY DEF deployToken
<1>a7. q[7] = TryInvoke("initialize", "StableDebtToken", "")
  BY DEF deployToken
<1>a8. q[8] = Deploy("VariableDebtToken", "VariableDebtToken")
  BY DEF deployToken
<1>a9. q[9] = TryInvoke("initialize", "VariableDebtToken", "")
  BY DEF deployToken
<1>. HIDE DEF q
<1>f1. Fits(q[1], "get", {"PoolAddressesProvider"}, "", "", "")
  <2>1. q[1] = Step("get", {"PoolAddressesProvider"}, "", "", "")
    BY <1>a1 DEF Get
  <2>. QED
    BY <2>1, StepFits, Zenon
<1>f3. Fits(q[3], "tryInvoke", {}, "initialize", "BToken", "")
  <2>1. q[3] = Step("tryInvoke", {}, "initialize", "BToken", "")
    BY <1>a3 DEF TryInvoke
  <2>. QED
    BY <2>1, StepFits, Zenon
<1>f5. Fits(q[5], "tryInvoke", {}, "initialize", "DelegationAwareBToken", "")
  <2>1. q[5] = Step("tryInvoke", {}, "initialize", "DelegationAwareBToken", "")
    BY <1>a5 DEF TryInvoke
  <2>. QED
    BY <2>1, StepFits, Zenon
<1>f7. Fits(q[7], "tryInvoke", {}, "initialize", "StableDebtToken", "")
  <2>1. q[7] = Step("tryInvoke", {}, "initialize", "StableDebtToken", "")
    BY <1>a7 DEF TryInvoke
  <2>. QED
    BY <2>1, StepFits, Zenon
<1>f9. Fits(q[9], "tryInvoke", {}, "initialize", "VariableDebtToken", "")
  <2>1. q[9] = Step("tryInvoke", {}, "initialize", "VariableDebtToken", "")
    BY <1>a9 DEF TryInvoke
  <2>. QED
    BY <2>1, StepFits, Zenon
<1>1. InOrder(q, 1, B)
  <2>1. /\ q[1].do = "get" /\ q[1].ids = {"PoolAddressesProvider"} /\ q[1].call = ""
        /\ q[1].on = "" /\ q[1].with = ""
    BY <1>f1 DEF Fits
  <2>2. WellFormed(q[1])
    BY <2>1 DEF WellFormed, Sends, Others, OnProvider, Tolerant
  <2>3. Prepared(q[1], NamedBy(q, 1, B), CalledBy(q, 1, B))
    BY <2>1 DEF Prepared, Saves, OnProvider, Reserved
  <2>. QED
    BY <2>1, <2>2, <2>3 DEF InOrder, Planning
<1>2. InOrder(q, 2, B) /\ "BToken" \in q[2].ids
  <2>1. "BToken" \notin Proxies
    BY DEF Proxies
  <2>. QED
    BY <1>a2, <2>1, DeployedInOrder, Zenon
<1>3. InOrder(q, 3, B)
  <2>1. /\ q[3].do = "tryInvoke" /\ q[3].ids = {} /\ q[3].call = "initialize"
        /\ q[3].on = "BToken" /\ q[3].with = ""
    BY <1>f3 DEF Fits
  <2>2. "BToken" \in NamedBy(q, 3, B)
    <3>1. 2 \in 1..(3 - 1)
      OBVIOUS
    <3>. QED
      BY <1>2, <3>1, NamedEarlier, Zenon
  <2>3. WellFormed(q[3])
    BY <2>1 DEF WellFormed, Sends, Others, OnProvider, Tolerant
  <2>4. Prepared(q[3], NamedBy(q, 3, B), CalledBy(q, 3, B))
    BY <2>1, <2>2 DEF Prepared, Saves, OnProvider, Reserved
  <2>. QED
    BY <2>1, <2>3, <2>4 DEF InOrder, Planning
<1>4. InOrder(q, 4, B) /\ "DelegationAwareBToken" \in q[4].ids
  <2>1. "DelegationAwareBToken" \notin Proxies
    BY DEF Proxies
  <2>. QED
    BY <1>a4, <2>1, DeployedInOrder, Zenon
<1>5. InOrder(q, 5, B)
  <2>1. /\ q[5].do = "tryInvoke" /\ q[5].ids = {} /\ q[5].call = "initialize"
        /\ q[5].on = "DelegationAwareBToken" /\ q[5].with = ""
    BY <1>f5 DEF Fits
  <2>2. "DelegationAwareBToken" \in NamedBy(q, 5, B)
    <3>1. 4 \in 1..(5 - 1)
      OBVIOUS
    <3>. QED
      BY <1>4, <3>1, NamedEarlier, Zenon
  <2>3. WellFormed(q[5])
    BY <2>1 DEF WellFormed, Sends, Others, OnProvider, Tolerant
  <2>4. Prepared(q[5], NamedBy(q, 5, B), CalledBy(q, 5, B))
    BY <2>1, <2>2 DEF Prepared, Saves, OnProvider, Reserved
  <2>. QED
    BY <2>1, <2>3, <2>4 DEF InOrder, Planning
<1>6. InOrder(q, 6, B) /\ "StableDebtToken" \in q[6].ids
  <2>1. "StableDebtToken" \notin Proxies
    BY DEF Proxies
  <2>. QED
    BY <1>a6, <2>1, DeployedInOrder, Zenon
<1>7. InOrder(q, 7, B)
  <2>1. /\ q[7].do = "tryInvoke" /\ q[7].ids = {} /\ q[7].call = "initialize"
        /\ q[7].on = "StableDebtToken" /\ q[7].with = ""
    BY <1>f7 DEF Fits
  <2>2. "StableDebtToken" \in NamedBy(q, 7, B)
    <3>1. 6 \in 1..(7 - 1)
      OBVIOUS
    <3>. QED
      BY <1>6, <3>1, NamedEarlier, Zenon
  <2>3. WellFormed(q[7])
    BY <2>1 DEF WellFormed, Sends, Others, OnProvider, Tolerant
  <2>4. Prepared(q[7], NamedBy(q, 7, B), CalledBy(q, 7, B))
    BY <2>1, <2>2 DEF Prepared, Saves, OnProvider, Reserved
  <2>. QED
    BY <2>1, <2>3, <2>4 DEF InOrder, Planning
<1>8. InOrder(q, 8, B) /\ "VariableDebtToken" \in q[8].ids
  <2>1. "VariableDebtToken" \notin Proxies
    BY DEF Proxies
  <2>. QED
    BY <1>a8, <2>1, DeployedInOrder, Zenon
<1>9. InOrder(q, 9, B)
  <2>1. /\ q[9].do = "tryInvoke" /\ q[9].ids = {} /\ q[9].call = "initialize"
        /\ q[9].on = "VariableDebtToken" /\ q[9].with = ""
    BY <1>f9 DEF Fits
  <2>2. "VariableDebtToken" \in NamedBy(q, 9, B)
    <3>1. 8 \in 1..(9 - 1)
      OBVIOUS
    <3>. QED
      BY <1>8, <3>1, NamedEarlier, Zenon
  <2>3. WellFormed(q[9])
    BY <2>1 DEF WellFormed, Sends, Others, OnProvider, Tolerant
  <2>4. Prepared(q[9], NamedBy(q, 9, B), CalledBy(q, 9, B))
    BY <2>1, <2>2 DEF Prepared, Saves, OnProvider, Reserved
  <2>. QED
    BY <2>1, <2>3, <2>4 DEF InOrder, Planning
<1>o. Orderly(q, B)
  <2>1. \A j \in 1..9 : InOrder(q, j, B)
    BY <1>1, <1>2, <1>3, <1>4, <1>5, <1>6, <1>7, <1>8, <1>9
  <2>. QED
    BY <2>1, <1>s DEF Orderly
<1>k. /\ Deploy("BToken", "BToken") \in Steps(q)
      /\ TryInvoke("initialize", "BToken", "") \in Steps(q)
      /\ Deploy("StableDebtToken", "StableDebtToken") \in Steps(q)
      /\ Deploy("VariableDebtToken", "VariableDebtToken") \in Steps(q)
  <2>1. \A j \in 1..9 : q[j] \in Steps(q)
    BY <1>s DEF Steps
  <2>2. Deploy("BToken", "BToken") \in Steps(q)
    <3>1. q[2] \in Steps(q)
      BY <2>1
    <3>. QED
      BY <1>a2, <3>1
  <2>3. TryInvoke("initialize", "BToken", "") \in Steps(q)
    <3>1. q[3] \in Steps(q)
      BY <2>1
    <3>. QED
      BY <1>a3, <3>1
  <2>4. Deploy("StableDebtToken", "StableDebtToken") \in Steps(q)
    <3>1. q[6] \in Steps(q)
      BY <2>1
    <3>. QED
      BY <1>a6, <3>1
  <2>5. Deploy("VariableDebtToken", "VariableDebtToken") \in Steps(q)
    <3>1. q[8] \in Steps(q)
      BY <2>1
    <3>. QED
      BY <1>a8, <3>1
  <2>. QED
    BY <2>2, <2>3, <2>4, <2>5
<1>. QED
  BY <1>s, <1>o, <1>k DEF q

LEMMA PeripheryInOrder ==
    ASSUME NEW B
    PROVE  IsSteps(deployPeriphery) /\ Orderly(deployPeriphery, B)
<1>. DEFINE q == deployPeriphery
<1>s. IsSteps(q) /\ Len(q) = 3
  <2>1. DOMAIN q = 1..3 /\ q = [i \in 1..3 |-> q[i]]
    BY DEF deployPeriphery
  <2>. HIDE DEF q
  <2>. QED
    BY <2>1, SeqOf
<1>a1. q[1] = Get({"PoolAddressesProvider", getWethAddress})
  BY DEF deployPeriphery
<1>a2. q[2] = Deploy("WrappedTokenGatewayV3", "WrappedTokenGatewayV3")
  BY DEF deployPeriphery
<1>a3. q[3] = Deploy("WalletBalanceProvider", "WalletBalanceProvider")
  BY DEF deployPeriphery
<1>. HIDE DEF q
<1>f1. Fits(q[1], "get", {"PoolAddressesProvider", getWethAddress}, "", "", "")
  <2>1. q[1] = Step("get", {"PoolAddressesProvider", getWethAddress}, "", "", "")
    BY <1>a1 DEF Get
  <2>. QED
    BY <2>1, StepFits, Zenon
<1>1. InOrder(q, 1, B)
  <2>1. /\ q[1].do = "get" /\ q[1].ids = {"PoolAddressesProvider", getWethAddress} /\ q[1].call = ""
        /\ q[1].on = "" /\ q[1].with = ""
    BY <1>f1 DEF Fits
  <2>2. WellFormed(q[1])
    BY <2>1 DEF WellFormed, Sends, Others, OnProvider, Tolerant
  <2>3. Prepared(q[1], NamedBy(q, 1, B), CalledBy(q, 1, B))
    BY <2>1 DEF Prepared, Saves, OnProvider, Reserved
  <2>. QED
    BY <2>1, <2>2, <2>3 DEF InOrder, Planning
<1>2. InOrder(q, 2, B) /\ "WrappedTokenGatewayV3" \in q[2].ids
  <2>1. "WrappedTokenGatewayV3" \notin Proxies
    BY DEF Proxies
  <2>. QED
    BY <1>a2, <2>1, DeployedInOrder, Zenon
<1>3. InOrder(q, 3, B) /\ "WalletBalanceProvider" \in q[3].ids
  <2>1. "WalletBalanceProvider" \notin Proxies
    BY DEF Proxies
  <2>. QED
    BY <1>a3, <2>1, DeployedInOrder, Zenon
<1>o. Orderly(q, B)
  <2>1. \A j \in 1..3 : InOrder(q, j, B)
    BY <1>1, <1>2, <1>3
  <2>. QED
    BY <2>1, <1>s DEF Orderly
<1>. QED
  BY <1>s, <1>o DEF q

LEMMA IncentivesInOrder ==
    ASSUME NEW B
    PROVE  IsSteps(deployIncentives) /\ Orderly(deployIncentives, B)
           /\ SaveAs("RewardsControllerProxy", "REWARD_CONTROLLER") \in Steps(deployIncentives)
           /\ Invoke("setRewardsController", "EmissionManager", "REWARD_CONTROLLER") \in Steps(deployIncentives)
<1>. DEFINE q == deployIncentives
<1>s. IsSteps(q) /\ Len(q) = 7
  <2>1. DOMAIN q = 1..7 /\ q = [i \in 1..7 |-> q[i]]
    BY DEF deployIncentives
  <2>. HIDE DEF q
  <2>. QED
    BY <2>1, SeqOf
<1>a1. q[1] = Get({"PoolAddressesProvider"})
  BY DEF deployIncentives
<1>a2. q[2] = Deploy("EmissionManager", "EmissionManager")
  BY DEF deployIncentives
<1>a3. q[3] = Deploy("RewardsController", "RewardsController")
  BY DEF deployIncentives
<1>a4. q[4] = TryInvoke("initialize", "RewardsController", "")
  BY DEF deployIncentives
<1>a5. q[5] = Invoke("setAddressAsProxy", "PoolAddressesProvider", "RewardsController")
  BY DEF deployIncentives
<1>a6. q[6] = SaveAs("RewardsControllerProxy", "REWARD_CONTROLLER")
  BY DEF deployIncentives
<1>a7. q[7] = Invoke("setRewardsController", "EmissionManager", "REWARD_CONTROLLER")
  BY DEF deployIncentives
<1>. HIDE DEF q
<1>f1. Fits(q[1], "get", {"PoolAddressesProvider"}, "", "", "")
  <2>1. q[1] = Step("get", {"PoolAddressesProvider"}, "", "", "")
    BY <1>a1 DEF Get
  <2>. QED
    BY <2>1, StepFits, Zenon
<1>f4. Fits(q[4], "tryInvoke", {}, "initialize", "RewardsController", "")
  <2>1. q[4] = Step("tryInvoke", {}, "initialize", "RewardsController", "")
    BY <1>a4 DEF TryInvoke
  <2>. QED
    BY <2>1, StepFits, Zenon
<1>f5. Fits(q[5], "invoke", {}, "setAddressAsProxy", "PoolAddressesProvider", "RewardsController")
  <2>1. q[5] = Step("invoke", {}, "setAddressAsProxy", "PoolAddressesProvider", "RewardsController")
    BY <1>a5 DEF Invoke
  <2>. QED
    BY <2>1, StepFits, Zenon
<1>f6. Fits(q[6], "save", {"RewardsControllerProxy"}, "", "REWARD_CONTROLLER", "")
  <2>1. q[6] = Step("save", {"RewardsControllerProxy"}, "", "REWARD_CONTROLLER", "")
    BY <1>a6 DEF SaveAs
  <2>. QED
    BY <2>1, StepFits, Zenon
<1>f7. Fits(q[7], "invoke", {}, "setRewardsController", "EmissionManager", "REWARD_CONTROLLER")
  <2>1. q[7] = Step("invoke", {}, "setRewardsController", "EmissionManager", "REWARD_CONTROLLER")
    BY <1>a7 DEF Invoke
  <2>. QED
    BY <2>1, StepFits, Zenon
<1>1. InOrder(q, 1, B)
  <2>1. /\ q[1].do = "get" /\ q[1].ids = {"PoolAddressesProvider"} /\ q[1].call = ""
        /\ q[1].on = "" /\ q[1].with = ""
    BY <1>f1 DEF Fits
  <2>2. WellFormed(q[1])
    BY <2>1 DEF WellFormed, Sends, Others, OnProvider, Tolerant
  <2>3. Prepared(q[1], NamedBy(q, 1, B), CalledBy(q, 1, B))
    BY <2>1 DEF Prepared, Saves, OnProvider, Reserved
  <2>. QED
    BY <2>1, <2>2, <2>3 DEF InOrder, Planning
<1>2. InOrder(q, 2, B) /\ "EmissionManager" \in q[2].ids
  <2>1. "EmissionManager" \notin Proxies
    BY DEF Proxies
  <2>. QED
    BY <1>a2, <2>1, DeployedInOrder, Zenon
<1>3. InOrder(q, 3, B) /\ "RewardsController" \in q[3].ids
  <2>1. "RewardsController" \notin Proxies
    BY DEF Proxies
  <2>. QED
    BY <1>a3, <2>1, DeployedInOrder, Zenon
<1>4. InOrder(q, 4, B)
  <2>1. /\ q[4].do = "tryInvoke" /\ q[4].ids = {} /\ q[4].call = "initialize"
        /\ q[4].on = "RewardsController" /\ q[4].with = ""
    BY <1>f4 DEF Fits
  <2>2. "RewardsController" \in NamedBy(q, 4, B)
    <3>1. 3 \in 1..(4 - 1)
      OBVIOUS
    <3>. QED
      BY <1>3, <3>1, NamedEarlier, Zenon
  <2>3. WellFormed(q[4])
    BY <2>1 DEF WellFormed, Sends, Others, OnProvider, Tolerant
  <2>4. Prepared(q[4], NamedBy(q, 4, B), CalledBy(q, 4, B))
    BY <2>1, <2>2 DEF Prepared, Saves, OnProvider, Reserved
  <2>. QED
    BY <2>1, <2>3, <2>4 DEF InOrder, Planning
<1>5. InOrder(q, 5, B)
  <2>1. /\ q[5].do = "invoke" /\ q[5].ids = {} /\ q[5].call = "setAddressAsProxy"
        /\ q[5].on = "PoolAddressesProvider" /\ q[5].with = "RewardsController"
    BY <1>f5 DEF Fits
  <2>2. "PoolAddressesProvider" \in NamedBy(q, 5, B)
    <3>1. 1 \in 1..(5 - 1)
      OBVIOUS
    <3>2. "PoolAddressesProvider" \in q[1].ids
      BY <1>f1 DEF Fits
    <3>. QED
      BY <3>1, <3>2, NamedEarlier, Zenon
  <2>3. WellFormed(q[5])
    BY <2>1 DEF WellFormed, Sends, Others, OnProvider, Tolerant
  <2>4. Prepared(q[5], NamedBy(q, 5, B), CalledBy(q, 5, B))
    BY <2>1, <2>2 DEF Prepared, Saves, OnProvider, Reserved
  <2>. QED
    BY <2>1, <2>3, <2>4 DEF InOrder, Planning
<1>6. InOrder(q, 6, B)
  <2>1. /\ q[6].do = "save" /\ q[6].ids = {"RewardsControllerProxy"} /\ q[6].call = ""
        /\ q[6].on = "REWARD_CONTROLLER" /\ q[6].with = ""
    BY <1>f6 DEF Fits
  <2>2. "setAddressAsProxy" \in CalledBy(q, 6, B)
    <3>1. 5 \in 1..(6 - 1)
      OBVIOUS
    <3>2. q[5].call = "setAddressAsProxy"
      BY <1>f5 DEF Fits
    <3>. QED
      BY <3>1, <3>2, CalledEarlier, Zenon
  <2>3. WellFormed(q[6])
    BY <2>1 DEF WellFormed, Sends, Others, OnProvider, Tolerant
  <2>4. Prepared(q[6], NamedBy(q, 6, B), CalledBy(q, 6, B))
    BY <2>1, <2>2 DEF Prepared, Saves, OnProvider, Reserved
  <2>. QED
    BY <2>1, <2>3, <2>4 DEF InOrder, Planning
<1>7. InOrder(q, 7, B)
  <2>1. /\ q[7].do = "invoke" /\ q[7].ids = {} /\ q[7].call = "setRewardsController"
        /\ q[7].on = "EmissionManager" /\ q[7].with = "REWARD_CONTROLLER"
    BY <1>f7 DEF Fits
  <2>2. "EmissionManager" \in NamedBy(q, 7, B)
    <3>1. 2 \in 1..(7 - 1)
      OBVIOUS
    <3>. QED
      BY <1>2, <3>1, NamedEarlier, Zenon
  <2>3. "setAddressAsProxy" \in CalledBy(q, 7, B)
    <3>1. 5 \in 1..(7 - 1)
      OBVIOUS
    <3>2. q[5].call = "setAddressAsProxy"
      BY <1>f5 DEF Fits
    <3>. QED
      BY <3>1, <3>2, CalledEarlier, Zenon
  <2>4. WellFormed(q[7])
    BY <2>1 DEF WellFormed, Sends, Others, OnProvider, Tolerant
  <2>5. Prepared(q[7], NamedBy(q, 7, B), CalledBy(q, 7, B))
    BY <2>1, <2>2, <2>3 DEF Prepared, Saves, OnProvider, Reserved
  <2>. QED
    BY <2>1, <2>4, <2>5 DEF InOrder, Planning
<1>o. Orderly(q, B)
  <2>1. \A j \in 1..7 : InOrder(q, j, B)
    BY <1>1, <1>2, <1>3, <1>4, <1>5, <1>6, <1>7
  <2>. QED
    BY <2>1, <1>s DEF Orderly
<1>k. /\ SaveAs("RewardsControllerProxy", "REWARD_CONTROLLER") \in Steps(q)
      /\ Invoke("setRewardsController", "EmissionManager", "REWARD_CONTROLLER") \in Steps(q)
  <2>1. \A j \in 1..7 : q[j] \in Steps(q)
    BY <1>s DEF Steps
  <2>2. SaveAs("RewardsControllerProxy", "REWARD_CONTROLLER") \in Steps(q)
    <3>1. q[6] \in Steps(q)
      BY <2>1
    <3>. QED
      BY <1>a6, <3>1
  <2>3. Invoke("setRewardsController", "EmissionManager", "REWARD_CONTROLLER") \in Steps(q)
    <3>1. q[7] \in Steps(q)
      BY <2>1
    <3>. QED
      BY <1>a7, <3>1
  <2>. QED
    BY <2>2, <2>3
<1>. QED
  BY <1>s, <1>o, <1>k DEF q

LEMMA ConfigureInOrder ==
    ASSUME NEW B,
           "ReservesSetupHelper" \in Named(B),
           "initReserves" \in Called(B), "setACLManager" \in Called(B),
           "setPoolConfiguratorImpl" \in Called(B),
           ListingIds \subseteq Named(B)
    PROVE  IsSteps(configureReservesByHelper) /\ Orderly(configureReservesByHelper, B)
           /\ Invoke("configureReserves", "ReservesSetupHelper", "POOL_CONFIGURATOR") \in Steps(configureReservesByHelper)
<1>. DEFINE q == configureReservesByHelper
<1>s. IsSteps(q) /\ Len(q) = 4
  <2>1. DOMAIN q = 1..4 /\ q = [i \in 1..4 |-> q[i]]
    BY DEF configureReservesByHelper
  <2>. HIDE DEF q
  <2>. QED
    BY <2>1, SeqOf
<1>a1. q[1] = PlanConfiguration
  BY DEF configureReservesByHelper
<1>a2. q[2] = Send("addRiskAdmin", "ACL_MANAGER", "ReservesSetupHelper")
  BY DEF configureReservesByHelper
<1>a3. q[3] = Invoke("configureReserves", "ReservesSetupHelper", "POOL_CONFIGURATOR")
  BY DEF configureReservesByHelper
<1>a4. q[4] = Invoke("removeRiskAdmin", "ACL_MANAGER", "ReservesSetupHelper")
  BY DEF configureReservesByHelper
<1>. HIDE DEF q
<1>f1. Fits(q[1], "planConfiguration", {}, "", "", "")
  <2>1. q[1] = Step("planConfiguration", {}, "", "", "")
    BY <1>a1 DEF PlanConfiguration
  <2>. QED
    BY <2>1, StepFits, Zenon
<1>f2. Fits(q[2], "send", {}, "addRiskAdmin", "ACL_MANAGER", "ReservesSetupHelper")
  <2>1. q[2] = Step("send", {}, "addRiskAdmin", "ACL_MANAGER", "ReservesSetupHelper")
    BY <1>a2 DEF Send
  <2>. QED
    BY <2>1, StepFits, Zenon
<1>f3. Fits(q[3], "invoke", {}, "configureReserves", "ReservesSetupHelper", "POOL_CONFIGURATOR")
  <2>1. q[3] = Step("invoke", {}, "configureReserves", "ReservesSetupHelper", "POOL_CONFIGURATOR")
    BY <1>a3 DEF Invoke
  <2>. QED
    BY <2>1, StepFits, Zenon
<1>f4. Fits(q[4], "invoke", {}, "removeRiskAdmin", "ACL_MANAGER", "ReservesSetupHelper")
  <2>1. q[4] = Step("invoke", {}, "removeRiskAdmin", "ACL_MANAGER", "ReservesSetupHelper")
    BY <1>a4 DEF Invoke
  <2>. QED
    BY <2>1, StepFits, Zenon
<1>1. InOrder(q, 1, B)
  <2>1. /\ q[1].do = "planConfiguration" /\ q[1].ids = {} /\ q[1].call = ""
        /\ q[1].on = "" /\ q[1].with = ""
    BY <1>f1 DEF Fits
  <2>2. WellFormed(q[1])
    BY <2>1 DEF WellFormed, Sends, Others, OnProvider, Tolerant
  <2>3. Prepared(q[1], NamedBy(q, 1, B), CalledBy(q, 1, B))
    BY <2>1 DEF Prepared, Saves, OnProvider, Reserved
  <2>. QED
    BY <2>1, <2>2, <2>3 DEF InOrder, Planning
<1>2. InOrder(q, 2, B)
  <2>1. /\ q[2].do = "send" /\ q[2].ids = {} /\ q[2].call = "addRiskAdmin"
        /\ q[2].on = "ACL_MANAGER" /\ q[2].with = "ReservesSetupHelper"
    BY <1>f2 DEF Fits
  <2>2. /\ "initReserves" \in CalledBy(q, 2, B) /\ "setACLManager" \in CalledBy(q, 2, B)
        /\ "ReservesSetupHelper" \in NamedBy(q, 2, B)
    BY EarlierStill
  <2>3. WellFormed(q[2])
    BY <2>1 DEF WellFormed, Sends, Others, OnProvider, Tolerant
  <2>4. Prepared(q[2], NamedBy(q, 2, B), CalledBy(q, 2, B))
    BY <2>1, <2>2 DEF Prepared, Saves, OnProvider, Reserved
  <2>5. 2 - 1 = 1 /\ 2 > 1
    OBVIOUS
  <2>6. q[1].do = "planConfiguration" /\ q[1].call = ""
    BY <1>f1 DEF Fits
  <2>. QED
    BY <2>1, <2>3, <2>4, <2>5, <2>6 DEF InOrder, Follows
<1>3. InOrder(q, 3, B)
  <2>1. /\ q[3].do = "invoke" /\ q[3].ids = {} /\ q[3].call = "configureReserves"
        /\ q[3].on = "ReservesSetupHelper" /\ q[3].with = "POOL_CONFIGURATOR"
    BY <1>f3 DEF Fits
  <2>2. "ReservesSetupHelper" \in NamedBy(q, 3, B)
    BY EarlierStill
  <2>3. "initReserves" \in CalledBy(q, 3, B)
    BY EarlierStill
  <2>4. "setPoolConfiguratorImpl" \in CalledBy(q, 3, B)
    BY EarlierStill
  <2>5. ListingIds \subseteq NamedBy(q, 3, B)
    BY EarlierStill
  <2>6. WellFormed(q[3])
    BY <2>1 DEF WellFormed, Sends, Others, OnProvider, Tolerant
  <2>7. Prepared(q[3], NamedBy(q, 3, B), CalledBy(q, 3, B))
    BY <2>1, <2>2, <2>3, <2>4, <2>5 DEF Prepared, Saves, OnProvider, Reserved
  <2>8. 3 - 1 = 2 /\ 3 > 1
    OBVIOUS
  <2>9. q[2].do = "send" /\ q[2].call = "addRiskAdmin"
    BY <1>f2 DEF Fits
  <2>10. 3 + 1 = 4 /\ 3 < Len(q) /\ q[4].call = "removeRiskAdmin"
    BY <1>s, <1>f4 DEF Fits
  <2>. QED
    BY <2>1, <2>6, <2>7, <2>8, <2>9, <2>10 DEF InOrder, Follows
<1>4. InOrder(q, 4, B)
  <2>1. /\ q[4].do = "invoke" /\ q[4].ids = {} /\ q[4].call = "removeRiskAdmin"
        /\ q[4].on = "ACL_MANAGER" /\ q[4].with = "ReservesSetupHelper"
    BY <1>f4 DEF Fits
  <2>2. /\ "initReserves" \in CalledBy(q, 4, B) /\ "setACLManager" \in CalledBy(q, 4, B)
        /\ "ReservesSetupHelper" \in NamedBy(q, 4, B)
    BY EarlierStill
  <2>3. "configureReserves" \in CalledBy(q, 4, B)
    <3>1. 3 \in 1..(4 - 1)
      OBVIOUS
    <3>2. q[3].call = "configureReserves"
      BY <1>f3 DEF Fits
    <3>. QED
      BY <3>1, <3>2, CalledEarlier, Zenon
  <2>4. WellFormed(q[4])
    BY <2>1 DEF WellFormed, Sends, Others, OnProvider, Tolerant
  <2>5. Prepared(q[4], NamedBy(q, 4, B), CalledBy(q, 4, B))
    BY <2>1, <2>2, <2>3 DEF Prepared, Saves, OnProvider, Reserved
  <2>6. 4 - 1 = 3 /\ 4 > 1
    OBVIOUS
  <2>7. q[3].do = "invoke" /\ q[3].call = "configureReserves"
    BY <1>f3 DEF Fits
  <2>. QED
    BY <2>1, <2>4, <2>5, <2>6, <2>7 DEF InOrder, Follows
<1>o. Orderly(q, B)
  <2>1. \A j \in 1..4 : InOrder(q, j, B)
    BY <1>1, <1>2, <1>3, <1>4
  <2>. QED
    BY <2>1, <1>s DEF Orderly
<1>k. /\ Invoke("configureReserves", "ReservesSetupHelper", "POOL_CONFIGURATOR") \in Steps(q)
  <2>1. \A j \in 1..4 : q[j] \in Steps(q)
    BY <1>s DEF Steps
  <2>2. Invoke("configureReserves", "ReservesSetupHelper", "POOL_CONFIGURATOR") \in Steps(q)
    <3>1. q[3] \in Steps(q)
      BY <2>1
    <3>. QED
      BY <1>a3, <3>1
  <2>. QED
    BY <2>2
<1>. QED
  BY <1>s, <1>o, <1>k DEF q

faucetPart ==
    <<Deploy("Faucet", "Faucet")>>

LEMMA FaucetInOrder ==
    ASSUME NEW B
    PROVE  IsSteps(faucetPart) /\ Orderly(faucetPart, B)
<1>. DEFINE q == faucetPart
<1>s. IsSteps(q) /\ Len(q) = 1
  <2>1. DOMAIN q = 1..1 /\ q = [i \in 1..1 |-> q[i]]
    BY DEF faucetPart
  <2>. HIDE DEF q
  <2>. QED
    BY <2>1, SeqOf
<1>a1. q[1] = Deploy("Faucet", "Faucet")
  BY DEF faucetPart
<1>. HIDE DEF q
<1>1. InOrder(q, 1, B) /\ "Faucet" \in q[1].ids
  <2>1. "Faucet" \notin Proxies
    BY DEF Proxies
  <2>. QED
    BY <1>a1, <2>1, DeployedInOrder, Zenon
<1>o. Orderly(q, B)
  <2>1. \A j \in 1..1 : InOrder(q, j, B)
    BY <1>1
  <2>. QED
    BY <2>1, <1>s DEF Orderly
<1>. QED
  BY <1>s, <1>o DEF q

helperPart ==
    <<Get({"PoolAddressesProvider", "PoolDataProvider"}),
      Deploy("ReservesSetupHelper", "ReservesSetupHelper")>>

LEMMA HelperInOrder ==
    ASSUME NEW B
    PROVE  IsSteps(helperPart) /\ Orderly(helperPart, B)
           /\ Deploy("ReservesSetupHelper", "ReservesSetupHelper") \in Steps(helperPart)
<1>. DEFINE q == helperPart
<1>s. IsSteps(q) /\ Len(q) = 2
  <2>1. DOMAIN q = 1..2 /\ q = [i \in 1..2 |-> q[i]]
    BY DEF helperPart
  <2>. HIDE DEF q
  <2>. QED
    BY <2>1, SeqOf
<1>a1. q[1] = Get({"PoolAddressesProvider", "PoolDataProvider"})
  BY DEF helperPart
<1>a2. q[2] = Deploy("ReservesSetupHelper", "ReservesSetupHelper")
  BY DEF helperPart
<1>. HIDE DEF q
<1>f1. Fits(q[1], "get", {"PoolAddressesProvider", "PoolDataProvider"}, "", "", "")
  <2>1. q[1] = Step("get", {"PoolAddressesProvider", "PoolDataProvider"}, "", "", "")
    BY <1>a1 DEF Get
  <2>. QED
    BY <2>1, StepFits, Zenon
<1>1. InOrder(q, 1, B)
  <2>1. /\ q[1].do = "get" /\ q[1].ids = {"PoolAddressesProvider", "PoolDataProvider"} /\ q[1].call = ""
        /\ q[1].on = "" /\ q[1].with = ""
    BY <1>f1 DEF Fits
  <2>2. WellFormed(q[1])
    BY <2>1 DEF WellFormed, Sends, Others, OnProvider, Tolerant
  <2>3. Prepared(q[1], NamedBy(q, 1, B), CalledBy(q, 1, B))
    BY <2>1 DEF Prepared, Saves, OnProvider, Reserved
  <2>. QED
    BY <2>1, <2>2, <2>3 DEF InOrder, Planning
<1>2. InOrder(q, 2, B) /\ "ReservesSetupHelper" \in q[2].ids
  <2>1. "ReservesSetupHelper" \notin Proxies
    BY DEF Proxies
  <2>. QED
    BY <1>a2, <2>1, DeployedInOrder, Zenon
<1>o. Orderly(q, B)
  <2>1. \A j \in 1..2 : InOrder(q, j, B)
    BY <1>1, <1>2
  <2>. QED
    BY <2>1, <1>s DEF Orderly
<1>k. /\ Deploy("ReservesSetupHelper", "ReservesSetupHelper") \in Steps(q)
  <2>1. \A j \in 1..2 : q[j] \in Steps(q)
    BY <1>s DEF Steps
  <2>2. Deploy("ReservesSetupHelper", "ReservesSetupHelper") \in Steps(q)
    <3>1. q[2] \in Steps(q)
      BY <2>1
    <3>. QED
      BY <1>a2, <3>1
  <2>. QED
    BY <2>2
<1>. QED
  BY <1>s, <1>o, <1>k DEF q

listingPart ==
    <<Get({getTreasuryAddress, "RewardsControllerProxy", "StableDebtToken", "VariableDebtToken",
              "BToken"} \cup Symbols),
      PlanListing,
      Invoke("initReserves", "POOL_CONFIGURATOR", "")>>

LEMMA ListingInOrder ==
    ASSUME NEW B,
           "setPoolConfiguratorImpl" \in Called(B),
           ListingIds \subseteq Named(B)
    PROVE  IsSteps(listingPart) /\ Orderly(listingPart, B)
           /\ Invoke("initReserves", "POOL_CONFIGURATOR", "") \in Steps(listingPart)
<1>. DEFINE q == listingPart
<1>s. IsSteps(q) /\ Len(q) = 3
  <2>1. DOMAIN q = 1..3 /\ q = [i \in 1..3 |-> q[i]]
    BY DEF listingPart
  <2>. HIDE DEF q
  <2>. QED
    BY <2>1, SeqOf
<1>a1. q[1] = Get({getTreasuryAddress, "RewardsControllerProxy", "StableDebtToken", "VariableDebtToken",
              "BToken"} \cup Symbols)
  BY DEF listingPart
<1>a2. q[2] = PlanListing
  BY DEF listingPart
<1>a3. q[3] = Invoke("initReserves", "POOL_CONFIGURATOR", "")
  BY DEF listingPart
<1>. HIDE DEF q
<1>f1. Fits(q[1], "get", ({getTreasuryAddress, "RewardsControllerProxy", "StableDebtToken", "VariableDebtToken",
              "BToken"} \cup Symbols), "", "", "")
  <2>1. q[1] = Step("get", ({getTreasuryAddress, "RewardsControllerProxy", "StableDebtToken", "VariableDebtToken",
              "BToken"} \cup Symbols), "", "", "")
    BY <1>a1 DEF Get
  <2>. QED
    BY <2>1, StepFits, Zenon
<1>f2. Fits(q[2], "planListing", {}, "", "", "")
  <2>1. q[2] = Step("planListing", {}, "", "", "")
    BY <1>a2 DEF PlanListing
  <2>. QED
    BY <2>1, StepFits, Zenon
<1>f3. Fits(q[3], "invoke", {}, "initReserves", "POOL_CONFIGURATOR", "")
  <2>1. q[3] = Step("invoke", {}, "initReserves", "POOL_CONFIGURATOR", "")
    BY <1>a3 DEF Invoke
  <2>. QED
    BY <2>1, StepFits, Zenon
<1>1. InOrder(q, 1, B)
  <2>1. /\ q[1].do = "get" /\ q[1].ids = ({getTreasuryAddress, "RewardsControllerProxy", "StableDebtToken", "VariableDebtToken",
              "BToken"} \cup Symbols) /\ q[1].call = ""
        /\ q[1].on = "" /\ q[1].with = ""
    BY <1>f1 DEF Fits
  <2>2. WellFormed(q[1])
    BY <2>1 DEF WellFormed, Sends, Others, OnProvider, Tolerant
  <2>3. Prepared(q[1], NamedBy(q, 1, B), CalledBy(q, 1, B))
    BY <2>1 DEF Prepared, Saves, OnProvider, Reserved
  <2>. QED
    BY <2>1, <2>2, <2>3 DEF InOrder, Planning
<1>2. InOrder(q, 2, B)
  <2>1. /\ q[2].do = "planListing" /\ q[2].ids = {} /\ q[2].call = ""
        /\ q[2].on = "" /\ q[2].with = ""
    BY <1>f2 DEF Fits
  <2>2. WellFormed(q[2])
    BY <2>1 DEF WellFormed, Sends, Others, OnProvider, Tolerant
  <2>3. Prepared(q[2], NamedBy(q, 2, B), CalledBy(q, 2, B))
    BY <2>1 DEF Prepared, Saves, OnProvider, Reserved
  <2>. QED
    BY <2>1, <2>2, <2>3 DEF InOrder, Planning
<1>3. InOrder(q, 3, B)
  <2>1. /\ q[3].do = "invoke" /\ q[3].ids = {} /\ q[3].call = "initReserves"
        /\ q[3].on = "POOL_CONFIGURATOR" /\ q[3].with = ""
    BY <1>f3 DEF Fits
  <2>2. "setPoolConfiguratorImpl" \in CalledBy(q, 3, B)
    BY EarlierStill
  <2>3. ListingIds \subseteq NamedBy(q, 3, B)
    BY EarlierStill
  <2>4. WellFormed(q[3])
    BY <2>1 DEF WellFormed, Sends, Others, OnProvider, Tolerant
  <2>5. Prepared(q[3], NamedBy(q, 3, B), CalledBy(q, 3, B))
    BY <2>1, <2>2, <2>3 DEF Prepared, Saves, OnProvider, Reserved
  <2>6. 3 - 1 = 2 /\ 3 > 1
    OBVIOUS
  <2>7. q[2].do = "planListing" /\ q[2].call = ""
    BY <1>f2 DEF Fits
  <2>. QED
    BY <2>1, <2>4, <2>5, <2>6, <2>7 DEF InOrder, Follows
<1>o. Orderly(q, B)
  <2>1. \A j \in 1..3 : InOrder(q, j, B)
    BY <1>1, <1>2, <1>3
  <2>. QED
    BY <2>1, <1>s DEF Orderly
<1>k. /\ Invoke("initReserves", "POOL_CONFIGURATOR", "") \in Steps(q)
  <2>1. \A j \in 1..3 : q[j] \in Steps(q)
    BY <1>s DEF Steps
  <2>2. Invoke("initReserves", "POOL_CONFIGURATOR", "") \in Steps(q)
    <3>1. q[3] \in Steps(q)
      BY <2>1
    <3>. QED
      BY <1>a3, <3>1
  <2>. QED
    BY <2>2
<1>. QED
  BY <1>s, <1>o, <1>k DEF q

sourcesPart ==
    <<Get({"ProtocolOracle"}),
      Invoke("setAssetSources", "ProtocolOracle", "")>>

LEMMA SourcesInOrder ==
    ASSUME NEW B,
           ListingIds \subseteq Named(B),
           {AggregatorOf(x) : x \in Symbols} \subseteq Named(B)
    PROVE  IsSteps(sourcesPart) /\ Orderly(sourcesPart, B)
           /\ Invoke("setAssetSources", "ProtocolOracle", "") \in Steps(sourcesPart)
<1>. DEFINE q == sourcesPart
<1>s. IsSteps(q) /\ Len(q) = 2
  <2>1. DOMAIN q = 1..2 /\ q = [i \in 1..2 |-> q[i]]
    BY DEF sourcesPart
  <2>. HIDE DEF q
  <2>. QED
    BY <2>1, SeqOf
<1>a1. q[1] = Get({"ProtocolOracle"})
  BY DEF sourcesPart
<1>a2. q[2] = Invoke("setAssetSources", "ProtocolOracle", "")
  BY DEF sourcesPart
<1>. HIDE DEF q
<1>f1. Fits(q[1], "get", {"ProtocolOracle"}, "", "", "")
  <2>1. q[1] = Step("get", {"ProtocolOracle"}, "", "", "")
    BY <1>a1 DEF Get
  <2>. QED
    BY <2>1, StepFits, Zenon
<1>f2. Fits(q[2], "invoke", {}, "setAssetSources", "ProtocolOracle", "")
  <2>1. q[2] = Step("invoke", {}, "setAssetSources", "ProtocolOracle", "")
    BY <1>a2 DEF Invoke
  <2>. QED
    BY <2>1, StepFits, Zenon
<1>1. InOrder(q, 1, B)
  <2>1. /\ q[1].do = "get" /\ q[1].ids = {"ProtocolOracle"} /\ q[1].call = ""
        /\ q[1].on = "" /\ q[1].with = ""
    BY <1>f1 DEF Fits
  <2>2. WellFormed(q[1])
    BY <2>1 DEF WellFormed, Sends, Others, OnProvider, Tolerant
  <2>3. Prepared(q[1], NamedBy(q, 1, B), CalledBy(q, 1, B))
    BY <2>1 DEF Prepared, Saves, OnProvider, Reserved
  <2>. QED
    BY <2>1, <2>2, <2>3 DEF InOrder, Planning
<1>2. InOrder(q, 2, B)
  <2>1. /\ q[2].do = "invoke" /\ q[2].ids = {} /\ q[2].call = "setAssetSources"
        /\ q[2].on = "ProtocolOracle" /\ q[2].with = ""
    BY <1>f2 DEF Fits
  <2>2. "ProtocolOracle" \in NamedBy(q, 2, B)
    <3>1. 1 \in 1..(2 - 1)
      OBVIOUS
    <3>2. "ProtocolOracle" \in q[1].ids
      BY <1>f1 DEF Fits
    <3>. QED
      BY <3>1, <3>2, NamedEarlier, Zenon
  <2>3. ListingIds \subseteq NamedBy(q, 2, B)
    BY EarlierStill
  <2>4. {AggregatorOf(x) : x \in Symbols} \subseteq NamedBy(q, 2, B)
    BY EarlierStill
  <2>5. WellFormed(q[2])
    BY <2>1 DEF WellFormed, Sends, Others, OnProvider, Tolerant
  <2>6. Prepared(q[2], NamedBy(q, 2, B), CalledBy(q, 2, B))
    BY <2>1, <2>2, <2>3, <2>4 DEF Prepared, Saves, OnProvider, Reserved
  <2>. QED
    BY <2>1, <2>5, <2>6 DEF InOrder, Planning
<1>o. Orderly(q, B)
  <2>1. \A j \in 1..2 : InOrder(q, j, B)
    BY <1>1, <1>2
  <2>. QED
    BY <2>1, <1>s DEF Orderly
<1>k. /\ Invoke("setAssetSources", "ProtocolOracle", "") \in Steps(q)
  <2>1. \A j \in 1..2 : q[j] \in Steps(q)
    BY <1>s DEF Steps
  <2>2. Invoke("setAssetSources", "ProtocolOracle", "") \in Steps(q)
    <3>1. q[2] \in Steps(q)
      BY <2>1
    <3>. QED
      BY <1>a2, <3>1
  <2>. QED
    BY <2>2
<1>. QED
  BY <1>s, <1>o, <1>k DEF q

IsScript(q, B) == IsSteps(q) /\ Orderly(q, B)

LEMMA ScriptBoth ==
    ASSUME NEW p, NEW q, NEW B, IsScript(p, B), IsScript(q, B \cup Steps(p))
    PROVE  IsScript(p \o q, B) /\ Steps(p \o q) = Steps(p) \cup Steps(q)
<1>1. IsSteps(p) /\ IsSteps(q) /\ Orderly(p, B) /\ Orderly(q, B \cup Steps(p))
  BY DEF IsScript
<1>2. Steps(p \o q) = Steps(p) \cup Steps(q) /\ IsSteps(p \o q)
  BY <1>1, StepsOfBoth, Zenon
<1>3. Orderly(p \o q, B)
  BY <1>1, OrderlyBoth, Zenon
<1>. QED
  BY <1>2, <1>3 DEF IsScript

LEMMA NamedIn ==
    ASSUME NEW B, NEW id, NEW kind, id \notin Proxies, Deploy(id, kind) \in B
    PROVE  id \in Named(B)
<1>1. Deploy(id, kind).ids = {id}
  BY DeployIsDeploy, Zenon
<1>. QED
  BY <1>1 DEF Named

LEMMA CalledIn ==
    ASSUME NEW B, NEW call, NEW on, NEW with, Invoke(call, on, with) \in B
    PROVE  call \in Called(B)
<1>1. Invoke(call, on, with).call = call
  BY DEF Invoke, Step
<1>. QED
  BY <1>1 DEF Called

LEMMA DeploysAreScript ==
    ASSUME NEW q, NEW n \in Nat, DOMAIN q = 1..n, q = [i \in 1..n |-> q[i]],
           \A i \in 1..n : IsDeploy(q[i]), NEW B
    PROVE  IsScript(q, B)
<1>1. IsSteps(q) /\ Len(q) = n
  BY SeqOf
<1>2. \A i \in 1..Len(q) : IsDeploy(q[i])
  BY <1>1
<1>3. Orderly(q, B)
  BY <1>2, DeploysInOrder, Zenon
<1>. QED
  BY <1>1, <1>3 DEF IsScript

\* A script that deploys what a sequence of ids names.
Deploys(q, ids) ==
    /\ DOMAIN q = 1..Len(ids) /\ q = [i \in 1..Len(ids) |-> q[i]]
    /\ \A i \in 1..Len(ids) : IsDeploy(q[i]) /\ ids[i] \in q[i].ids

LEMMA DeploysNamed ==
    ASSUME NEW q, NEW ids, Len(ids) \in Nat, Deploys(q, ids), NEW B
    PROVE  IsScript(q, B) /\ \A i \in 1..Len(ids) : ids[i] \in Named(Steps(q))
<1>1. IsScript(q, B)
  BY DeploysAreScript DEF Deploys
<1>2. Len(q) = Len(ids)
  BY SeqOf DEF Deploys
<1>3. \A i \in 1..Len(ids) : q[i] \in Steps(q) /\ ids[i] \in q[i].ids
  BY <1>2 DEF Steps, Deploys
<1>. QED
  BY <1>1, <1>3 DEF Named

LEMMA MocksAreScript ==
    ASSUME NEW B
    PROVE  IsScript(ForEach(ReserveSymbols, MockToken), B)
           /\ Symbols \subseteq Named(Steps(ForEach(ReserveSymbols, MockToken)))
<1>. DEFINE q == ForEach(ReserveSymbols, MockToken)
<1>1. q = [i \in 1..Len(ReserveSymbols) |-> MockToken(ReserveSymbols[i])]
  BY DEF ForEach
<1>. HIDE DEF q
<1>2. \A i \in 1..Len(ReserveSymbols) : ReserveSymbols[i] \notin Proxies
  BY Reservations
<1>3. ASSUME NEW i \in 1..Len(ReserveSymbols)
      PROVE  IsDeploy(q[i]) /\ ReserveSymbols[i] \in q[i].ids
  <2>. DEFINE id == ReserveSymbols[i]
              kind == IF id = "WBTC" THEN "WETH9Mock" ELSE "TestnetERC20"
  <2>1. q[i] = Deploy(id, kind)
    BY <1>1 DEF MockToken
  <2>2. id \notin Proxies
    BY <1>2
  <2>. HIDE DEF id, kind
  <2>3. IsDeploy(Deploy(id, kind)) /\ Deploy(id, kind).ids = {id}
    BY <2>2, DeployIsDeploy, Zenon
  <2>4. IsDeploy(q[i]) /\ id \in q[i].ids
    BY <2>1, <2>3
  <2>. QED
    BY <2>4 DEF id
<1>4. Deploys(q, ReserveSymbols)
  BY <1>1, <1>3 DEF Deploys
<1>5. IsScript(q, B) /\ \A i \in 1..Len(ReserveSymbols) : ReserveSymbols[i] \in Named(Steps(q))
  BY <1>4, DeploysNamed, Reservations
<1>6. Symbols \subseteq Named(Steps(q))
  BY <1>5, Reservations
<1>. QED
  BY <1>5, <1>6 DEF q

LEMMA AggregatorsAreScript ==
    ASSUME NEW B
    PROVE  IsScript(ForEach(ReserveSymbols, Aggregator), B)
           /\ {AggregatorOf(x) : x \in Symbols}
                 \subseteq Named(Steps(ForEach(ReserveSymbols, Aggregator)))
<1>. DEFINE q == ForEach(ReserveSymbols, Aggregator)
            ids == [i \in 1..Len(ReserveSymbols) |-> AggregatorOf(ReserveSymbols[i])]
<1>1. q = [i \in 1..Len(ReserveSymbols) |-> Aggregator(ReserveSymbols[i])]
  BY DEF ForEach
<1>2. ids \in Seq({AggregatorOf(x) : x \in Symbols}) /\ Len(ids) = Len(ReserveSymbols)
      /\ \A i \in 1..Len(ReserveSymbols) : ids[i] = AggregatorOf(ReserveSymbols[i])
  <2>1. ids \in [1..Len(ReserveSymbols) -> {AggregatorOf(x) : x \in Symbols}]
    BY Reservations
  <2>2. ids \in Seq({AggregatorOf(x) : x \in Symbols})
    BY <2>1, Reservations, SeqDef
  <2>3. DOMAIN ids = 1..Len(ReserveSymbols)
    OBVIOUS
  <2>. HIDE DEF ids
  <2>. QED
    <3>1. Len(ids) = Len(ReserveSymbols)
      BY <2>2, <2>3, Reservations
    <3>. QED
      BY <2>2, <3>1 DEF ids
<1>. HIDE DEF q, ids
<1>3. ASSUME NEW i \in 1..Len(ReserveSymbols)
      PROVE  IsDeploy(q[i]) /\ ids[i] \in q[i].ids
  <2>. DEFINE id == AggregatorOf(ReserveSymbols[i])
  <2>1. q[i] = Deploy(id, "MockAggregator")
    BY <1>1 DEF Aggregator
  <2>2. id \notin Proxies
    <3>1. ReserveSymbols[i] \in {"USDT", "DAI", "USDC", "WETH", "WBTC", "BLEND"}
      BY Reservations
    <3>. QED
      BY <3>1 DEF AggregatorOf, Proxies
  <2>. HIDE DEF id
  <2>3. IsDeploy(Deploy(id, "MockAggregator")) /\ Deploy(id, "MockAggregator").ids = {id}
    BY <2>2, DeployIsDeploy, Zenon
  <2>4. IsDeploy(q[i]) /\ id \in q[i].ids
    BY <2>1, <2>3
  <2>. QED
    BY <2>4, <1>2 DEF id
<1>4. Deploys(q, ids)
  BY <1>1, <1>2, <1>3 DEF Deploys
<1>5. Len(ids) \in Nat
  BY <1>2, Reservations
<1>6. IsScript(q, B) /\ \A i \in 1..Len(ids) : ids[i] \in Named(Steps(q))
  BY <1>4, <1>5, DeploysNamed
<1>7. \A x \in Symbols : AggregatorOf(x) \in Named(Steps(q))
  BY <1>2, <1>6, Reservations
<1>. QED
  BY <1>6, <1>7 DEF q

LEMMA LibsAreScript ==
    ASSUME NEW B
    PROVE  IsScript(deployLibs, B)
<1>. DEFINE ids == <<"Errors", "SupplyLogic", "BorrowLogic", "BridgeLogic", "ConfiguratorLogic",
                     "EModeLogic", "LiquidationLogic", "FlashLoanLogic", "PoolLogic",
                     "ReserveLogic", "ValidationLogic", "GenericLogic", "IsolationModeLogic">>
            q == deployLibs
<1>1. Len(ids) = 13
      /\ ids[1] = "Errors"
      /\ ids[2] = "SupplyLogic"
      /\ ids[3] = "BorrowLogic"
      /\ ids[4] = "BridgeLogic"
      /\ ids[5] = "ConfiguratorLogic"
      /\ ids[6] = "EModeLogic"
      /\ ids[7] = "LiquidationLogic"
      /\ ids[8] = "FlashLoanLogic"
      /\ ids[9] = "PoolLogic"
      /\ ids[10] = "ReserveLogic"
      /\ ids[11] = "ValidationLogic"
      /\ ids[12] = "GenericLogic"
      /\ ids[13] = "IsolationModeLogic"
  BY DEF Proxies
<1>2. q = [i \in 1..Len(ids) |-> Library(ids[i])]
  BY DEF ForEach, deployLibs
<1>. HIDE DEF ids, q
<1>3. \A i \in 1..Len(ids) : ids[i] \notin Proxies
  BY <1>1 DEF Proxies
<1>4. ASSUME NEW i \in 1..Len(ids)
      PROVE  IsDeploy(q[i]) /\ ids[i] \in q[i].ids
  <2>. DEFINE id == ids[i]
  <2>1. q[i] = Deploy(id, id)
    BY <1>2 DEF Library
  <2>2. id \notin Proxies
    BY <1>3
  <2>. HIDE DEF id
  <2>3. IsDeploy(Deploy(id, id)) /\ Deploy(id, id).ids = {id}
    BY <2>2, DeployIsDeploy, Zenon
  <2>4. IsDeploy(q[i]) /\ id \in q[i].ids
    BY <2>1, <2>3
  <2>. QED
    BY <2>4 DEF id
<1>5. Deploys(q, ids)
  BY <1>2, <1>4 DEF Deploys
<1>6. IsScript(q, B) /\ \A i \in 1..Len(ids) : ids[i] \in Named(Steps(q))
  <2>1. Len(ids) \in Nat
    BY <1>1
  <2>. QED
    BY <2>1, <1>5, DeploysNamed, Zenon
<1>. QED
  BY <1>6 DEF q

LEMMA StrategiesAreScript ==
    ASSUME NEW B
    PROVE  IsScript(ForEach(RateStrategies, RateStrategy), B)
           /\ {"rateStrategyVolatileOne", "rateStrategyStableOne", "rateStrategyStableTwo"}
                 \subseteq Named(Steps(ForEach(RateStrategies, RateStrategy)))
<1>. DEFINE ids == RateStrategies
            q == ForEach(RateStrategies, RateStrategy)
<1>1. Len(ids) = 3
      /\ ids[1] = "rateStrategyVolatileOne"
      /\ ids[2] = "rateStrategyStableOne"
      /\ ids[3] = "rateStrategyStableTwo"
  BY DEF RateStrategies
<1>2. q = [i \in 1..Len(ids) |-> RateStrategy(ids[i])]
  BY DEF ForEach
<1>. HIDE DEF ids, q
<1>3. \A i \in 1..Len(ids) : ids[i] \notin Proxies
  BY <1>1 DEF Proxies
<1>4. ASSUME NEW i \in 1..Len(ids)
      PROVE  IsDeploy(q[i]) /\ ids[i] \in q[i].ids
  <2>. DEFINE id == ids[i]
  <2>1. q[i] = Deploy(id, "DefaultReserveInterestRateStrategy")
    BY <1>2 DEF RateStrategy
  <2>2. id \notin Proxies
    BY <1>3
  <2>. HIDE DEF id
  <2>3. IsDeploy(Deploy(id, "DefaultReserveInterestRateStrategy")) /\ Deploy(id, "DefaultReserveInterestRateStrategy").ids = {id}
    BY <2>2, DeployIsDeploy, Zenon
  <2>4. IsDeploy(q[i]) /\ id \in q[i].ids
    BY <2>1, <2>3
  <2>. QED
    BY <2>4 DEF id
<1>5. Deploys(q, ids)
  BY <1>2, <1>4 DEF Deploys
<1>6. IsScript(q, B) /\ \A i \in 1..Len(ids) : ids[i] \in Named(Steps(q))
  <2>1. Len(ids) \in Nat
    BY <1>1
  <2>. QED
    BY <2>1, <1>5, DeploysNamed, Zenon
<1>7. /\ "rateStrategyVolatileOne" \in Named(Steps(q))
      /\ "rateStrategyStableOne" \in Named(Steps(q))
      /\ "rateStrategyStableTwo" \in Named(Steps(q))
  BY <1>1, <1>6
<1>. QED
  BY <1>6, <1>7 DEF q

\* A script with what it leaves for the ones behind it.
LEMMA MoreOf ==
    ASSUME NEW B, NEW C, B \subseteq C
    PROVE  Named(B) \subseteq Named(C) /\ Called(B) \subseteq Called(C)
BY DEF Named, Called

LEMMA CoreAreScript ==
    ASSUME NEW B
    PROVE  /\ IsScript(deployCore, B)
           /\ Steps(deployCore) = Steps(deployProvider) \cup Steps(deployAdmins) \cup Steps(deployPool)
<1>. DEFINE p == deployProvider
            q == deployProvider \o deployAdmins
<1>1. deployCore = q \o deployPool
  BY DEF deployCore
<1>. HIDE DEF q
<1>2. IsScript(p, B) /\ Deploy("PoolAddressesProvider", "PoolAddressesProvider") \in Steps(p)
  BY ProviderInOrder DEF IsScript
<1>3. ASSUME NEW C, Steps(p) \subseteq C
      PROVE  IsScript(deployAdmins, C) /\ IsScript(deployPool, C)
  <2>1. "PoolAddressesProvider" \in Named(C)
    <3>1. Deploy("PoolAddressesProvider", "PoolAddressesProvider") \in C
      BY <1>2, <1>3
    <3>2. "PoolAddressesProvider" \notin Proxies
      BY DEF Proxies
    <3>. QED
      BY <3>1, <3>2, NamedIn, Zenon
  <2>. QED
    BY <2>1, AdminsInOrder, PoolInOrder DEF IsScript
<1>4. IsScript(q, B) /\ Steps(q) = Steps(p) \cup Steps(deployAdmins)
  <2>1. IsScript(deployAdmins, B \cup Steps(p))
    BY <1>3
  <2>. QED
    BY <2>1, <1>2, ScriptBoth, Zenon DEF q
<1>5. IsScript(q \o deployPool, B) /\ Steps(q \o deployPool) = Steps(q) \cup Steps(deployPool)
  <2>1. IsScript(deployPool, B \cup Steps(q))
    BY <1>3, <1>4
  <2>. QED
    BY <2>1, <1>4, ScriptBoth, Zenon
<1>. QED
  BY <1>1, <1>4, <1>5

LEMMA Strategies ==
    \A s \in Symbols : ReservesConfig[s].strategy
                          \in {"rateStrategyVolatileOne", "rateStrategyStableOne", "rateStrategyStableTwo"}
<1>. SUFFICES ASSUME NEW s \in {"USDT", "DAI", "USDC", "WETH", "WBTC", "BLEND"}
              PROVE  ReservesConfig[s].strategy
                        \in {"rateStrategyVolatileOne", "rateStrategyStableOne", "rateStrategyStableTwo"}
  BY Reservations
<1>1. /\ strategyUSDT.strategy = "rateStrategyStableOne"
      /\ strategyDAI.strategy = "rateStrategyStableTwo"
      /\ strategyUSDC.strategy = "rateStrategyStableOne"
      /\ strategyWETH.strategy = "rateStrategyVolatileOne"
      /\ strategyWBTC.strategy = "rateStrategyVolatileOne"
      /\ strategyBLEND.strategy = "rateStrategyVolatileOne"
  BY DEF strategyUSDT, strategyDAI, strategyUSDC, strategyWETH, strategyWBTC, strategyBLEND,
         IReserveParams
<1>. QED
  BY <1>1 DEF ReservesConfig

LEMMA BTokenEverywhere == \A s \in Symbols : ReservesConfig[s].bTokenImpl = "BToken"
<1>. SUFFICES ASSUME NEW s \in {"USDT", "DAI", "USDC", "WETH", "WBTC", "BLEND"}
              PROVE  ReservesConfig[s].bTokenImpl = "BToken"
  BY Reservations
<1>1. /\ strategyUSDT.bTokenImpl = "BToken" /\ strategyDAI.bTokenImpl = "BToken"
      /\ strategyUSDC.bTokenImpl = "BToken" /\ strategyWETH.bTokenImpl = "BToken"
      /\ strategyWBTC.bTokenImpl = "BToken" /\ strategyBLEND.bTokenImpl = "BToken"
  BY DEF strategyUSDT, strategyDAI, strategyUSDC, strategyWETH, strategyWBTC, strategyBLEND,
         IReserveParams
<1>. QED
  BY <1>1 DEF ReservesConfig

LEMMA ListedIds ==
    ASSUME NEW N, Symbols \subseteq N,
           {"rateStrategyVolatileOne", "rateStrategyStableOne", "rateStrategyStableTwo"} \subseteq N,
           "BToken" \in N, "StableDebtToken" \in N, "VariableDebtToken" \in N
    PROVE  ListingIds \subseteq N
BY Strategies DEF ListingIds

\* What has to be there before script 10 runs, and what it adds.
LEMMA ReservesAreScript ==
    ASSUME NEW B, Symbols \subseteq Named(B),
           "BToken" \in Named(B), "StableDebtToken" \in Named(B), "VariableDebtToken" \in Named(B),
           "setPoolConfiguratorImpl" \in Called(B)
    PROVE  /\ IsScript(deployReserves, B)
           /\ Invoke("initReserves", "POOL_CONFIGURATOR", "") \in Steps(deployReserves)
           /\ "ReservesSetupHelper" \in Named(Steps(deployReserves))
           /\ ListingIds \subseteq Named(B) \cup Named(Steps(deployReserves))
<1>. DEFINE f == ForEach(RateStrategies, RateStrategy)
            q == helperPart \o f
            C == B \cup Steps(q)
<1>1. deployReserves = q \o listingPart
  BY DEF deployReserves, helperPart, listingPart
<1>2. /\ IsScript(helperPart, B)
      /\ Deploy("ReservesSetupHelper", "ReservesSetupHelper") \in Steps(helperPart)
  BY HelperInOrder DEF IsScript
<1>3. /\ IsScript(f, B \cup Steps(helperPart))
      /\ {"rateStrategyVolatileOne", "rateStrategyStableOne", "rateStrategyStableTwo"}
            \subseteq Named(Steps(f))
  BY StrategiesAreScript
<1>. HIDE DEF f
<1>4. IsScript(q, B) /\ Steps(q) = Steps(helperPart) \cup Steps(f)
  BY <1>2, <1>3, ScriptBoth, Zenon
<1>. HIDE DEF q
<1>5. /\ Named(C) = Named(B) \cup Named(Steps(q)) /\ Called(B) \subseteq Called(C)
      /\ Named(Steps(f)) \subseteq Named(Steps(q))
  BY <1>4, MoreSteps, MoreOf
<1>6. ListingIds \subseteq Named(C)
  BY <1>3, <1>5, ListedIds
<1>7. "setPoolConfiguratorImpl" \in Called(C)
  BY <1>5
<1>8. /\ IsScript(listingPart, C)
      /\ Invoke("initReserves", "POOL_CONFIGURATOR", "") \in Steps(listingPart)
  BY <1>6, <1>7, ListingInOrder DEF IsScript
<1>9. IsScript(q \o listingPart, B) /\ Steps(q \o listingPart) = Steps(q) \cup Steps(listingPart)
  BY <1>4, <1>8, ScriptBoth, Zenon DEF C
<1>10. "ReservesSetupHelper" \in Named(Steps(deployReserves))
  <2>1. Deploy("ReservesSetupHelper", "ReservesSetupHelper") \in Steps(deployReserves)
    BY <1>1, <1>2, <1>4, <1>9
  <2>2. "ReservesSetupHelper" \notin Proxies
    BY DEF Proxies
  <2>. QED
    BY <2>1, <2>2, NamedIn, Zenon
<1>11. Named(Steps(q)) \subseteq Named(Steps(deployReserves))
  BY <1>1, <1>9, MoreOf
<1>. QED
  BY <1>1, <1>5, <1>6, <1>8, <1>9, <1>10, <1>11

\* The script ends with a call that is waited for.
Final == Invoke("setAssetSources", "ProtocolOracle", "")

Ends(q) == Len(q) > 0 /\ q[Len(q)] = Final

LEMMA EndsBoth ==
    ASSUME NEW p, IsSteps(p), NEW q, IsSteps(q), Ends(q)
    PROVE  Ends(p \o q)
<1>1. /\ Len(p) \in Nat /\ Len(q) \in Nat /\ Len(p \o q) = Len(p) + Len(q)
      /\ \A i \in 1..Len(q) : (p \o q)[Len(p) + i] = q[i]
  BY StepsOfBoth
<1>2. Len(q) > 0 /\ q[Len(q)] = Final
  BY DEF Ends
<1>3. Len(q) \in 1..Len(q)
  BY <1>1, <1>2
<1>4. (p \o q)[Len(p) + Len(q)] = q[Len(q)] /\ Len(p \o q) > 0
  BY <1>1, <1>2, <1>3
<1>. QED
  BY <1>1, <1>2, <1>4 DEF Ends

LEMMA OracleIsScript ==
    ASSUME NEW B, ListingIds \subseteq Named(B), "ProtocolOracle" \in Named(B)
    PROVE  /\ IsScript(initMockOracle, B) /\ Ends(initMockOracle)
           /\ Invoke("setAssetSources", "ProtocolOracle", "") \in Steps(initMockOracle)
<1>. DEFINE f == ForEach(ReserveSymbols, Aggregator)
            C == B \cup Steps(f)
<1>1. initMockOracle = f \o sourcesPart
  BY DEF initMockOracle, sourcesPart
<1>2. IsScript(f, B) /\ {AggregatorOf(x) : x \in Symbols} \subseteq Named(Steps(f))
  BY AggregatorsAreScript
<1>. HIDE DEF f
<1>3. Named(C) = Named(B) \cup Named(Steps(f))
  BY MoreSteps
<1>4. /\ ListingIds \subseteq Named(C) /\ "ProtocolOracle" \in Named(C)
      /\ {AggregatorOf(x) : x \in Symbols} \subseteq Named(C)
  BY <1>2, <1>3
<1>. HIDE DEF C
<1>5. /\ IsScript(sourcesPart, C)
      /\ Invoke("setAssetSources", "ProtocolOracle", "") \in Steps(sourcesPart)
  BY <1>4, SourcesInOrder DEF IsScript
<1>6. IsScript(f \o sourcesPart, B) /\ Steps(f \o sourcesPart) = Steps(f) \cup Steps(sourcesPart)
  BY <1>2, <1>5, ScriptBoth, Zenon DEF C
<1>7. Ends(sourcesPart)
  <2>1. /\ DOMAIN sourcesPart = 1..2 /\ sourcesPart = [i \in 1..2 |-> sourcesPart[i]]
    BY DEF sourcesPart
  <2>2. Len(sourcesPart) = 2
    BY <2>1, SeqOf
  <2>3. sourcesPart[2] = Final
    BY DEF sourcesPart, Final
  <2>. QED
    BY <2>2, <2>3 DEF Ends
<1>8. Ends(f \o sourcesPart)
  BY <1>2, <1>5, <1>7, EndsBoth DEF IsScript
<1>. QED
  BY <1>1, <1>5, <1>6, <1>8

\* The steps the results below are about.
Milestones ==
    {TrySend("initialize", "Treasury-Implementation", ""),
     TrySend("initialize", "TreasuryProxy", "Treasury-Implementation"),
     Invoke("registerAddressesProvider", "PoolAddressesProviderRegistry", "PoolAddressesProvider"),
     Invoke("setPoolDataProvider", "PoolAddressesProvider", "PoolDataProvider"),
     Invoke("setACLManager", "PoolAddressesProvider", "ACLManager"), Check,
     Invoke("setPriceOracle", "PoolAddressesProvider", "ProtocolOracle"),
     TryInvoke("initialize", "Pool-Implementation", ""),
     Invoke("setPoolImpl", "PoolAddressesProvider", "Pool-Implementation"),
     SaveAs("Pool-Proxy", "POOL"), SaveAs("PoolConfigurator-Proxy", "POOL_CONFIGURATOR"),
     Invoke("updateFlashloanPremiumTotal", "POOL_CONFIGURATOR", ""),
     TryInvoke("initialize", "BToken", ""),
     SaveAs("RewardsControllerProxy", "REWARD_CONTROLLER"),
     Invoke("setRewardsController", "EmissionManager", "REWARD_CONTROLLER"),
     Invoke("initReserves", "POOL_CONFIGURATOR", ""),
     Invoke("configureReserves", "ReservesSetupHelper", "POOL_CONFIGURATOR"),
     Invoke("setAssetSources", "ProtocolOracle", "")}

LEMMA ScriptIs ==
    /\ IsScript(Script, {}) /\ Ends(Script) /\ Milestones \subseteq Steps(Script)
    /\ ListingIds \cup {"PoolAddressesProvider"} \subseteq Named(Steps(Script))
<1>. DEFINE p1 == deployTreasury
            p2 == p1 \o deployMocks
            p3 == p2 \o deployLibs
            p4 == p3 \o deployCore
            p5 == p4 \o deployToken
            p6 == p5 \o deployPeriphery
            p7 == p6 \o deployIncentives
            p8 == p7 \o deployReserves
            p9 == p8 \o configureReservesByHelper
            p10 == p9 \o initMockOracle
<1>0. Script = p10
  BY DEF Script
<1>1. /\ IsScript(p1, {})
      /\ TrySend("initialize", "Treasury-Implementation", "") \in Steps(p1)
      /\ TrySend("initialize", "TreasuryProxy", "Treasury-Implementation") \in Steps(p1)
  BY TreasuryInOrder DEF IsScript
<1>2. \A B : IsScript(deployMocks, B) /\ Symbols \subseteq Named(Steps(deployMocks))
  <2>. TAKE B
  <2>. DEFINE f == ForEach(ReserveSymbols, MockToken)
  <2>1. deployMocks = faucetPart \o f
    BY DEF deployMocks, faucetPart
  <2>2. IsScript(faucetPart, B)
    BY FaucetInOrder DEF IsScript
  <2>3. IsScript(f, B \cup Steps(faucetPart)) /\ Symbols \subseteq Named(Steps(f))
    BY MocksAreScript
  <2>. HIDE DEF f
  <2>4. IsScript(faucetPart \o f, B) /\ Steps(faucetPart \o f) = Steps(faucetPart) \cup Steps(f)
    BY <2>2, <2>3, ScriptBoth, Zenon
  <2>5. Named(Steps(f)) \subseteq Named(Steps(deployMocks))
    BY <2>1, <2>4, MoreOf
  <2>. QED
    BY <2>1, <2>3, <2>4, <2>5
<1>. HIDE DEF p1
<1>p2. IsScript(p2, {}) /\ Steps(p2) = Steps(p1) \cup Steps(deployMocks)
  BY <1>1, <1>2, ScriptBoth, Zenon
<1>. HIDE DEF p2
<1>p3. IsScript(p3, {}) /\ Steps(p3) = Steps(p2) \cup Steps(deployLibs)
  BY <1>p2, LibsAreScript, ScriptBoth, Zenon
<1>. HIDE DEF p3
<1>p4. IsScript(p4, {}) /\ Steps(p4) = Steps(p3) \cup Steps(deployCore)
  BY <1>p3, CoreAreScript, ScriptBoth, Zenon
<1>. HIDE DEF p4
<1>5. \A B : IsScript(deployToken, B)
  BY TokenInOrder DEF IsScript
<1>p5. IsScript(p5, {}) /\ Steps(p5) = Steps(p4) \cup Steps(deployToken)
  BY <1>p4, <1>5, ScriptBoth, Zenon
<1>. HIDE DEF p5
<1>6. \A B : IsScript(deployPeriphery, B)
  BY PeripheryInOrder DEF IsScript
<1>p6. IsScript(p6, {}) /\ Steps(p6) = Steps(p5) \cup Steps(deployPeriphery)
  BY <1>p5, <1>6, ScriptBoth, Zenon
<1>. HIDE DEF p6
<1>7. \A B : /\ IsScript(deployIncentives, B)
             /\ SaveAs("RewardsControllerProxy", "REWARD_CONTROLLER") \in Steps(deployIncentives)
             /\ Invoke("setRewardsController", "EmissionManager", "REWARD_CONTROLLER")
                   \in Steps(deployIncentives)
  BY IncentivesInOrder DEF IsScript
<1>p7. IsScript(p7, {}) /\ Steps(p7) = Steps(p6) \cup Steps(deployIncentives)
  BY <1>p6, <1>7, ScriptBoth, Zenon
<1>. HIDE DEF p7
<1>8. /\ Symbols \subseteq Named(Steps(p7)) /\ "BToken" \in Named(Steps(p7))
      /\ "StableDebtToken" \in Named(Steps(p7)) /\ "VariableDebtToken" \in Named(Steps(p7))
      /\ "PoolAddressesProvider" \in Named(Steps(p7)) /\ "ProtocolOracle" \in Named(Steps(p7))
      /\ "setPoolConfiguratorImpl" \in Called(Steps(p7)) /\ "setACLManager" \in Called(Steps(p7))
  <2>1. /\ Steps(deployMocks) \subseteq Steps(p7) /\ Steps(deployToken) \subseteq Steps(p7)
        /\ Steps(deployProvider) \subseteq Steps(p7) /\ Steps(deployPool) \subseteq Steps(p7)
        /\ Steps(deployAdmins) \subseteq Steps(p7)
    BY <1>p2, <1>p3, <1>p4, <1>p5, <1>p6, <1>p7, CoreAreScript
  <2>2. Symbols \subseteq Named(Steps(p7))
    BY <1>2, <2>1, MoreOf
  <2>3. /\ Deploy("BToken", "BToken") \in Steps(p7)
        /\ Deploy("StableDebtToken", "StableDebtToken") \in Steps(p7)
        /\ Deploy("VariableDebtToken", "VariableDebtToken") \in Steps(p7)
    BY <2>1, TokenInOrder
  <2>4. Deploy("PoolAddressesProvider", "PoolAddressesProvider") \in Steps(p7)
    BY <2>1, ProviderInOrder
  <2>5. "PoolAddressesProvider" \notin Proxies /\ "BToken" \notin Proxies
        /\ "StableDebtToken" \notin Proxies /\ "VariableDebtToken" \notin Proxies
        /\ "ProtocolOracle" \notin Proxies
    BY DEF Proxies
  <2>6. "PoolAddressesProvider" \in Named(Steps(deployProvider))
    BY <2>5, ProviderInOrder, NamedIn, Zenon
  <2>7. Deploy("ProtocolOracle", "ProtocolOracle") \in Steps(p7)
        /\ Invoke("setPoolConfiguratorImpl", "PoolAddressesProvider",
                  "PoolConfigurator-Implementation") \in Steps(p7)
    BY <2>1, <2>6, PoolInOrder
  <2>8. "BToken" \in Named(Steps(p7))
    BY <2>3, <2>5, NamedIn, Zenon
  <2>9. "StableDebtToken" \in Named(Steps(p7))
    BY <2>3, <2>5, NamedIn, Zenon
  <2>10. "VariableDebtToken" \in Named(Steps(p7))
    BY <2>3, <2>5, NamedIn, Zenon
  <2>11. "PoolAddressesProvider" \in Named(Steps(p7))
    BY <2>4, <2>5, NamedIn, Zenon
  <2>12. "ProtocolOracle" \in Named(Steps(p7))
    BY <2>7, <2>5, NamedIn, Zenon
  <2>13. "setPoolConfiguratorImpl" \in Called(Steps(p7))
    BY <2>7, CalledIn, Zenon
  <2>14. Invoke("setACLManager", "PoolAddressesProvider", "ACLManager") \in Steps(p7)
    BY <2>1, <2>11, AdminsInOrder
  <2>15. "setACLManager" \in Called(Steps(p7))
    BY <2>14, CalledIn, Zenon
  <2>. QED
    BY <2>2, <2>8, <2>9, <2>10, <2>11, <2>12, <2>13, <2>15
<1>9. /\ IsScript(deployReserves, Steps(p7))
      /\ Invoke("initReserves", "POOL_CONFIGURATOR", "") \in Steps(deployReserves)
      /\ "ReservesSetupHelper" \in Named(Steps(deployReserves))
      /\ ListingIds \subseteq Named(Steps(p7)) \cup Named(Steps(deployReserves))
  BY <1>8, ReservesAreScript
<1>e. \A B : {} \cup B = B
  OBVIOUS
<1>p8. IsScript(p8, {}) /\ Steps(p8) = Steps(p7) \cup Steps(deployReserves)
  <2>1. IsScript(deployReserves, {} \cup Steps(p7))
    BY <1>9, <1>e
  <2>. QED
    BY <1>p7, <2>1, ScriptBoth, Zenon
<1>. HIDE DEF p8
<1>10. /\ Named(Steps(p8)) = Named(Steps(p7)) \cup Named(Steps(deployReserves))
       /\ Called(Steps(p8)) = Called(Steps(p7)) \cup Called(Steps(deployReserves))
  BY <1>p8, MoreSteps
<1>11. /\ ListingIds \subseteq Named(Steps(p8)) /\ "ReservesSetupHelper" \in Named(Steps(p8))
       /\ "setPoolConfiguratorImpl" \in Called(Steps(p8)) /\ "initReserves" \in Called(Steps(p8))
       /\ "setACLManager" \in Called(Steps(p8))
       /\ "ProtocolOracle" \in Named(Steps(p8)) /\ "PoolAddressesProvider" \in Named(Steps(p8))
  <2>1. "initReserves" \in Called(Steps(deployReserves))
    BY <1>9, CalledIn, Zenon
  <2>. QED
    BY <2>1, <1>8, <1>9, <1>10
<1>12. /\ IsScript(configureReservesByHelper, Steps(p8))
       /\ Invoke("configureReserves", "ReservesSetupHelper", "POOL_CONFIGURATOR")
             \in Steps(configureReservesByHelper)
  BY <1>11, ConfigureInOrder DEF IsScript
<1>p9. IsScript(p9, {}) /\ Steps(p9) = Steps(p8) \cup Steps(configureReservesByHelper)
  <2>1. IsScript(configureReservesByHelper, {} \cup Steps(p8))
    BY <1>12, <1>e
  <2>. QED
    BY <1>p8, <2>1, ScriptBoth, Zenon
<1>. HIDE DEF p9
<1>13. Named(Steps(p8)) \subseteq Named(Steps(p9))
  <2>1. Steps(p8) \subseteq Steps(p9)
    BY <1>p9
  <2>. QED
    BY <2>1, MoreOf
<1>14. /\ IsScript(initMockOracle, Steps(p9)) /\ Ends(initMockOracle)
       /\ Invoke("setAssetSources", "ProtocolOracle", "") \in Steps(initMockOracle)
  BY <1>11, <1>13, OracleIsScript
<1>p10. IsScript(p10, {}) /\ Steps(p10) = Steps(p9) \cup Steps(initMockOracle)
  <2>1. IsScript(initMockOracle, {} \cup Steps(p9))
    BY <1>14, <1>e
  <2>. QED
    BY <1>p9, <2>1, ScriptBoth, Zenon
<1>e10. Ends(p10)
  BY <1>p9, <1>14, EndsBoth DEF IsScript
<1>. HIDE DEF p10
<1>15. Named(Steps(p8)) \subseteq Named(Steps(p10))
  <2>1. Steps(p8) \subseteq Steps(p10)
    BY <1>p9, <1>p10
  <2>. QED
    BY <2>1, MoreOf
<1>16. Milestones \subseteq Steps(p10)
  <2>1. /\ Steps(p1) \subseteq Steps(p10) /\ Steps(deployToken) \subseteq Steps(p10)
        /\ Steps(deployProvider) \subseteq Steps(p10) /\ Steps(deployPool) \subseteq Steps(p10)
        /\ Steps(deployAdmins) \subseteq Steps(p10) /\ Steps(deployIncentives) \subseteq Steps(p10)
        /\ Steps(deployReserves) \subseteq Steps(p10)
        /\ Steps(configureReservesByHelper) \subseteq Steps(p10)
        /\ Steps(initMockOracle) \subseteq Steps(p10)
    BY <1>p2, <1>p3, <1>p4, <1>p5, <1>p6, <1>p7, <1>p8, <1>p9, <1>p10, CoreAreScript
  <2>2. "PoolAddressesProvider" \in Named(Steps(p10))
    BY <1>11, <1>15
  <2>3. /\ TrySend("initialize", "Treasury-Implementation", "") \in Steps(p10)
        /\ TrySend("initialize", "TreasuryProxy", "Treasury-Implementation") \in Steps(p10)
    BY <1>1, <2>1
  <2>4. /\ Invoke("registerAddressesProvider", "PoolAddressesProviderRegistry",
                  "PoolAddressesProvider") \in Steps(p10)
        /\ Invoke("setPoolDataProvider", "PoolAddressesProvider", "PoolDataProvider") \in Steps(p10)
    BY <2>1, ProviderInOrder
  <2>5. /\ Invoke("setACLManager", "PoolAddressesProvider", "ACLManager") \in Steps(p10)
        /\ Check \in Steps(p10)
    BY <2>1, <2>2, AdminsInOrder
  <2>6. /\ Invoke("setPriceOracle", "PoolAddressesProvider", "ProtocolOracle") \in Steps(p10)
        /\ TryInvoke("initialize", "Pool-Implementation", "") \in Steps(p10)
        /\ Invoke("setPoolImpl", "PoolAddressesProvider", "Pool-Implementation") \in Steps(p10)
        /\ SaveAs("Pool-Proxy", "POOL") \in Steps(p10)
        /\ SaveAs("PoolConfigurator-Proxy", "POOL_CONFIGURATOR") \in Steps(p10)
        /\ Invoke("updateFlashloanPremiumTotal", "POOL_CONFIGURATOR", "") \in Steps(p10)
    BY <2>1, <2>2, PoolInOrder
  <2>7. TryInvoke("initialize", "BToken", "") \in Steps(p10)
    BY <2>1, TokenInOrder
  <2>8. /\ SaveAs("RewardsControllerProxy", "REWARD_CONTROLLER") \in Steps(p10)
        /\ Invoke("setRewardsController", "EmissionManager", "REWARD_CONTROLLER") \in Steps(p10)
    BY <2>1, <1>7
  <2>9. /\ Invoke("initReserves", "POOL_CONFIGURATOR", "") \in Steps(p10)
        /\ Invoke("configureReserves", "ReservesSetupHelper", "POOL_CONFIGURATOR") \in Steps(p10)
        /\ Invoke("setAssetSources", "ProtocolOracle", "") \in Steps(p10)
    BY <2>1, <1>9, <1>12, <1>14
  <2>. QED
    BY <2>3, <2>4, <2>5, <2>6, <2>7, <2>8, <2>9 DEF Milestones
<1>. QED
  BY <1>0, <1>p10, <1>e10, <1>11, <1>15, <1>16

===============================================================================
