---------------------------- MODULE MarketIndexing ----------------------------
(***************************************************************************)
(* The subgraph following a listed market.                                 *)
(*                                                                         *)
(* graph-node hands the events of a complete block to the handlers, one at *)
(* a time and in order.  What a handler writes is stored if it returns; a  *)
(* handler that throws would throw again, so the index stops there.        *)
(* Contract calls are answered with the state after the whole block.       *)
(*                                                                         *)
(* What the index shows is compared with the ledgers whenever it has       *)
(* caught up.  Where the mapping is known to lose something, a history     *)
(* variable counts how much, so that the properties bound the error.       *)
(***************************************************************************)
EXTENDS MarketLedger, MappingTokenization, MappingLendingPool, MappingConfigurator,
        MappingAddressProvider

CONSTANTS
    Provider,      \* the addresses provider, and the id of the pool in the index
    InitPosition,  \* positions at the start, for every holder and asset
    InitIndex      \* both indexes of every asset at the start

\* The positions at the start are whole numbers, what is collateral is held, the treasury
\* owes nothing, and indexes are at least one, where every reserve starts.  Null is no
\* number, address or answer, the flash premiums have been set, and no user is one of the
\* known treasuries.
ASSUME IndexingAssumption ==
    /\ NotSet \notin Nat /\ NotSet # Pool /\ NotSet \notin [accruedToTreasury : Nat]
    /\ FlashPremiumToProtocol # NotSet
    /\ InitIndex \in Nat /\ InitIndex >= RAY
    /\ HardCodedTreasuries \cap Users = {}
    /\ InitPosition \in
         [Holders \X Assets ->
            [bToken : [balance : Nat, index : Nat], vToken : [balance : Nat, index : Nat],
             principal : Nat, interest : Nat, collateral : BOOLEAN]]
    /\ \A p \in Holders \X Assets :
         InitPosition[p].collateral => InitPosition[p].bToken.balance > 0
    /\ \A a \in Assets :
         InitPosition[Treasury, a].vToken.balance = 0 /\ InitPosition[Treasury, a].principal = 0

VARIABLES
    index,    \* the store of the subgraph
    rounded,  \* per scaled token: mints that stood for a burn, which round once too often
    moved,    \* positions changed by a transfer whose amount the mapping misread
    unseen    \* per asset: cash the index counts and the bToken does not hold

indexVars == <<index, rounded, moved, unseen>>

vars == <<marketVars, indexVars>>

CaughtUp == market.log = <<>> /\ flash = <<>>

-------------------------------------------------------------------------------
(* A market and an index that agree.                                       *)

InitMarket ==
    LET owed(a) == MapThenSumSet(LAMBDA u : InitPosition[u, a].vToken.balance, Holders)
        stable(a) == MapThenSumSet(LAMBDA u : InitPosition[u, a].principal, Holders)
        held(a) == MapThenSumSet(LAMBDA u : InitPosition[u, a].bToken.balance, Holders)
    IN  [index |-> [kind \in {"bToken", "vToken"} |-> [a \in Assets |-> InitIndex]],
         position |-> InitPosition,
         underlying |-> [a \in Assets |->
             RayMul(held(a), InitIndex) - RayMul(owed(a), InitIndex) - stable(a)],
         stableTotal |-> [a \in Assets |-> stable(a)],
         stableGrowth |-> [a \in Assets |-> 0],
         earning |-> [a \in Assets |-> 0], accrued |-> [a \in Assets |-> 0],
         unbacked |-> [a \in Assets |-> 0], isolatedDebt |-> [a \in Assets |-> 0],
         eMode |-> [u \in Users |-> 0], bridgeFee |-> 0,
         allowance |-> [k \in {"sToken", "vToken"} \X Users \X Users \X Assets |-> 0],
         log |-> <<>>, reverted |-> FALSE]

IndexedReserve(m, a) ==
    [NewReserve EXCEPT
        !.bToken = TokenOf("bToken", a), !.sToken = TokenOf("sToken", a),
        !.vToken = TokenOf("vToken", a), !.isActive = TRUE,
        !.availableLiquidity = m.underlying[a],
        !.totalScaledVariableDebt =
            MapThenSumSet(LAMBDA u : m.position[u, a].vToken.balance, Holders),
        !.totalPrincipalStableDebt = m.stableTotal[a],
        !.liquidityIndex = InitIndex, !.variableBorrowIndex = InitIndex]

IndexedPosition(p) ==
    [scaledBTokenBalance |-> p.bToken.balance, scaledVariableDebt |-> p.vToken.balance,
     principalStableDebt |-> p.principal, usageAsCollateralEnabledOnUser |-> p.collateral]

Owes(p) == p.vToken.balance > 0 \/ p.principal > 0

Opened(m) == {p \in DOMAIN m.position : m.position[p].bToken.balance > 0 \/ Owes(m.position[p])}

Tokens == {"bToken", "sToken", "vToken"} \X Assets

InitialIndex(m) ==
    [EmptyIndex({}) EXCEPT
        !.contractToPool = [c \in Tokens \cup {Pool, PoolConfigurator} |-> Provider],
        !.subTokens = [t \in Tokens |-> [NewSubToken EXCEPT !.underlyingAssetAddress = t[2]]],
        !.pools = Put(EmptyTable, Provider,
                      [NewPool EXCEPT !.pool = Pool,
                                      !.flashloanPremiumTotal = FlashPremium,
                                      !.flashloanPremiumToProtocol = FlashPremiumToProtocol]),
        !.reserves = [r \in Assets \X {Provider} |-> IndexedReserve(m, r[1])],
        !.users = [u \in {p[1] : p \in Opened(m)} |->
                      [NewUser EXCEPT !.borrowedReservesCount =
                           Cardinality({a \in Assets : Owes(m.position[u, a])})]],
        !.userReserves = [p \in {<<q[1], q[2], Provider>> : q \in Opened(m)} |->
                             IndexedPosition(m.position[p[1], p[2]])]]

Init ==
    /\ market = InitMarket /\ flash = <<>> /\ sealed = FALSE
    /\ transactions = 0 /\ now = 0
    /\ index = InitialIndex(InitMarket)
    /\ rounded = [t \in {"bToken", "vToken"} \X Holders \X Assets |-> 0]
    /\ moved = {} /\ unseen = [a \in Assets |-> 0]

-------------------------------------------------------------------------------
(* Indexing one event.                                                     *)

\* What the contracts answer.
chain == [reserveData |-> [a \in Assets |-> [accruedToTreasury |-> market.accrued[a]]]]

\* The histories.
BurnAsMint(e) == e.name \in {"BTokenMint", "VTokenMint"} /\ e.value < e.balanceIncrease

TransferredValue(e) == IF PastUpdateBlock THEN e.value * e.index ELSE e.value

Misread(e) ==
    e.name = "BalanceTransfer" /\ graphRayDiv(TransferredValue(e), e.index) # e.value

UnseenCash(e) ==
    CASE e.name = "MintUnbacked" -> e.amount
      [] e.name = "BackUnbacked" -> -(e.amount + e.fee)
      [] e.name = "BTokenMint" /\ e.onBehalfOf = Treasury /\ Treasury \notin HardCodedTreasuries ->
            e.value - e.balanceIncrease
      [] e.name = "BalanceTransfer" /\ e.to \in HardCodedTreasuries -> -TransferredValue(e)
      [] OTHER -> 0

AssetIn(e) == IF e.name \in {"MintUnbacked", "BackUnbacked"} THEN e.reserve ELSE e.address[2]

Remember(e) ==
    /\ rounded' = LET position == <<e.address[1], e.onBehalfOf, e.address[2]>>
                  IN  IF BurnAsMint(e) THEN [rounded EXCEPT ![position] = @ + 1] ELSE rounded
    /\ moved' = IF Misread(e) THEN moved \cup ({e.from, e.to} \X {e.address[2]}) ELSE moved
    /\ unseen' = IF UnseenCash(e) # 0 THEN [unseen EXCEPT ![AssetIn(e)] = @ + UnseenCash(e)]
                                      ELSE unseen

event == Head(market.log)

\* The event at hand has this name; next is what its handler makes of the index.
Index(name, next) ==
    /\ sealed /\ ~index.halted /\ event.name = name
    /\ IF next.halted
       THEN index' = Halt(index) /\ UNCHANGED <<marketVars, rounded, moved, unseen>>
       ELSE /\ index' = next
            /\ market' = [market EXCEPT !.log = Tail(@)]
            /\ sealed' = (Len(market.log) > 1)
            /\ Remember(event)
            /\ UNCHANGED <<flash, transactions, now>>

IndexTokenEvent ==
    \/ Index("BTokenMint", handleBTokenMint(index, event, chain))
    \/ Index("BTokenBurn", handleBTokenBurn(index, event))
    \/ Index("BalanceTransfer", handleBalanceTransfer(index, event, chain))
    \/ Index("VTokenMint", handleVariableTokenMint(index, event))
    \/ Index("VTokenBurn", handleVariableTokenBurn(index, event))
    \/ Index("STokenMint", handleStableTokenMint(index, event))
    \/ Index("STokenBurn", handleStableTokenBurn(index, event))
    \/ Index("SBorrowAllowanceDelegated", handleStableTokenBorrowAllowanceDelegated(index, event))
    \/ Index("VBorrowAllowanceDelegated", handleVariableTokenBorrowAllowanceDelegated(index, event))

IndexPoolEvent ==
    \/ Index("Supply", handleSupply(index, event))
    \/ Index("Withdraw", handleWithdraw(index, event))
    \/ Index("Borrow", handleBorrow(index, event))
    \/ Index("Repay", handleRepay(index, event))
    \/ Index("SwapBorrowRateMode", handleSwapBorrowRateMode(index, event))
    \/ Index("RebalanceStableBorrowRate", handleRebalanceStableBorrowRate(index, event))
    \/ Index("LiquidationCall", handleLiquidationCall(index, event))
    \/ Index("FlashLoan", handleFlashLoan(index, event))
    \/ Index("ReserveUsedAsCollateralEnabled", handleReserveUsedAsCollateralEnabled(index, event))
    \/ Index("ReserveUsedAsCollateralDisabled", handleReserveUsedAsCollateralDisabled(index, event))
    \/ Index("ReserveDataUpdated", handleReserveDataUpdated(index, event))
    \/ Index("MintUnbacked", handleMintUnbacked(index, event))
    \/ Index("BackUnbacked", handleBackUnbacked(index, event))
    \/ Index("MintedToTreasury", handleMintedToTreasury(index, event))
    \/ Index("UserEModeSet", handleUserEModeSet(index, event))
    \/ Index("IsolationModeTotalDebtUpdated", handleIsolationModeTotalDebtUpdated(index, event))
    \/ Index("BridgeProtocolFeeUpdated", handleBridgeProtocolFeeUpdated(index, event))

IndexEvent == IndexTokenEvent \/ IndexPoolEvent

Next ==
    \/ (PoolCall \/ BlockProduction \/ Tick) /\ UNCHANGED indexVars
    \/ IndexEvent

Spec == Init /\ [][Next]_vars
-------------------------------------------------------------------------------
(* What the index promises.                                                *)

\* Every table holds records of the fields kept, and knows only contracts of the market.
TypeOK ==
    /\ index.halted \in BOOLEAN
    /\ DOMAIN index.reserves = Assets \X {Provider}
    /\ \A r \in DOMAIN index.reserves :
         /\ DOMAIN index.reserves[r] = DOMAIN NewReserve
         /\ {index.reserves[r].availableLiquidity, index.reserves[r].totalScaledVariableDebt,
             index.reserves[r].totalPrincipalStableDebt, index.reserves[r].liquidityIndex,
             index.reserves[r].variableBorrowIndex, index.reserves[r].accruedToTreasury}
               \subseteq Int
    /\ index.userReserves \in
         [DOMAIN index.userReserves ->
            [scaledBTokenBalance : Int, scaledVariableDebt : Int, principalStableDebt : Int,
             usageAsCollateralEnabledOnUser : BOOLEAN]]
    /\ DOMAIN index.userReserves \subseteq Holders \X Assets \X {Provider}
    /\ {p[1] : p \in DOMAIN index.userReserves} \subseteq DOMAIN index.users
    /\ rounded \in [{"bToken", "vToken"} \X Holders \X Assets -> Nat]
    /\ moved \subseteq Holders \X Assets
    /\ unseen \in [Assets -> Int]

Shown(u, a) ==
    IF Has(index.userReserves, <<u, a, Provider>>)
    THEN index.userReserves[u, a, Provider] ELSE NewUserReserve

\* Once it has caught up, the index shows the stable principal of every position exactly
\* and its scaled balances up to one unit per burn that was reported as a mint, and never
\* too low.  Positions a misread transfer has touched are excepted.
PositionsMirrored ==
    CaughtUp =>
        \A u \in Users, a \in Assets :
            LET p == market.position[u, a]
            IN  /\ Shown(u, a).principalStableDebt = p.principal
                /\ Shown(u, a).scaledVariableDebt - p.vToken.balance
                     \in 0..rounded["vToken", u, a]
                /\ <<u, a>> \notin moved =>
                     Shown(u, a).scaledBTokenBalance - p.bToken.balance
                       \in 0..rounded["bToken", u, a]

\* borrowedReservesCount is the number of positions the index shows with a debt, however
\* debts were opened, swapped, rebalanced, repaid and liquidated.
BorrowCountExact ==
    CaughtUp =>
        \A u \in DOMAIN index.users :
            index.users[u].borrowedReservesCount =
                Cardinality({a \in Assets : \/ Shown(u, a).scaledVariableDebt # 0
                                            \/ Shown(u, a).principalStableDebt # 0})

\* The category the index shows of a user: none, as long as it has seen no event of it.
CategoryShown(ix, u) ==
    IF UserOf(ix, u).eModeCategoryId = NotSet THEN 0 ELSE UserOf(ix, u).eModeCategoryId

\* Collateral switches, eMode categories and delegated allowances are those of the pool,
\* although most of them change as a side effect of other calls.
SwitchesMirrored ==
    CaughtUp =>
        /\ \A u \in Users, a \in Assets :
              Shown(u, a).usageAsCollateralEnabledOnUser = market.position[u, a].collateral
        /\ \A u \in Users : CategoryShown(index, u) = market.eMode[u]
        /\ \A k \in DOMAIN market.allowance :
              LET id == <<IF k[1] = "sToken" THEN "stable" ELSE "variable", k[2], k[3], k[4]>>
              IN  market.allowance[k] = IF Has(index.allowances, id) THEN index.allowances[id] ELSE 0

\* The scaled variable debt shown of a reserve is the sum over the positions shown, at every
\* event: no handler changes one without the other.
DebtTotalsAreSums ==
    \A a \in Assets :
        index.reserves[a, Provider].totalScaledVariableDebt =
            MapThenSumSet(LAMBDA u : Shown(u, a).scaledVariableDebt, Users)

\* availableLiquidity is the cash of the bToken, but for unbacked mints, what backs them
\* and mints to the treasury, which the mapping counts as cash or not at all.
LiquidityMirrored ==
    CaughtUp =>
        \A a \in Assets :
            index.reserves[a, Provider].availableLiquidity = market.underlying[a] + unseen[a]

\* The index never shows more accrued to the treasury than the pool still owes it.
AccruedNeverOverstated ==
    CaughtUp =>
        \A a \in Assets : index.reserves[a, Provider].accruedToTreasury <= market.accrued[a]

\* In a listed market whose flash premiums are set nothing stops the index but a backing
\* before the bridge fee was ever set: whatever else is emitted, in whatever order, finds
\* the entities its handler needs.
StopsOnlyForBridgeFee ==
    index.halted =>
        event.name = "BackUnbacked" /\ index.pools[Provider].bridgeProtocolFee = NotSet
===============================================================================
