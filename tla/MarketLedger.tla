----------------------------- MODULE MarketLedger -----------------------------
(***************************************************************************)
(* The ledgers of a listed market and the events they emit, in the order   *)
(* of the code: SupplyLogic, BorrowLogic, FlashLoanLogic, BridgeLogic,     *)
(* LiquidationLogic, PoolLogic, EModeLogic and the three token contracts.  *)
(*                                                                         *)
(* Unlike Pool.tla this module is about what an observer can reconstruct:  *)
(* amounts, indexes and events are exact, prices and caps are left out.    *)
(* A borrower must own enabled collateral and may be liquidated at any     *)
(* time; users act for themselves, except for delegated borrowing.         *)
(*                                                                         *)
(* A step of a call is an operator from a market to a market: it appends   *)
(* its events to market.log and, where the code reverts, sets reverted.    *)
(* An action is a whole call and is taken only if nothing reverted.  Time  *)
(* passes (Tick) between blocks; a block is open until it is sealed, and   *)
(* its events are the log.  A flash loan is the one call cut in two, since *)
(* the receiver's code runs in the middle of it.                           *)
(***************************************************************************)
EXTENDS SubgraphEvents, WadRayMath, FiniteSetsExt, Sequences

CONSTANTS
    Users, Treasury, Assets,
    Isolated,              \* assets with a debt ceiling
    EModeCategoryIds,      \* categories a user may choose, 0 for none
    FlashPremium, FlashPremiumToProtocol, BridgeFees,  \* percentages
    Amounts, Fees,         \* inputs
    StableInterest,        \* interest on a stable debt per tick
    MaxTransactions, MaxTick

\* Amounts are unsigned, a protocol's share is at most the whole, an asset is listed, and
\* the treasury is not among those who call.  Categories are numbered.
ASSUME LedgerAssumption ==
    /\ IsFiniteSet(Users) /\ Treasury \notin Users /\ Assets # {}
    /\ Amounts \cup Fees \cup {FlashPremium, StableInterest} \subseteq Nat
    /\ EModeCategoryIds \subseteq Nat
    /\ BridgeFees \cup {FlashPremiumToProtocol} \subseteq 0..PERCENTAGE_FACTOR

VARIABLES
    market,        \* the ledgers, and the events of the block
    flash,         \* flash loans whose receiver is running: none or one
    sealed,        \* is the block complete?
    transactions,  \* number of calls so far
    now            \* number of ticks so far

marketVars == <<market, flash, sealed, transactions, now>>

Holders == Users \cup {Treasury}

Pool == <<"Pool", NoAddress>>
PoolConfigurator == <<"PoolConfigurator", NoAddress>>
TokenOf(kind, a) == <<kind, a>>

Emit(m, e) == [m EXCEPT !.log = Append(@, e)]

Require(m, condition) == [m EXCEPT !.reverted = @ \/ ~condition]

-------------------------------------------------------------------------------
(* Scaled tokens: kind is "bToken" or "vToken".                            *)

BalanceOf(m, kind, u, a) == RayMul(m.position[u, a][kind].balance, m.index[kind][a])

Increase(m, kind, u, a) ==
    BalanceOf(m, kind, u, a)
        - RayMul(m.position[u, a][kind].balance, m.position[u, a][kind].index)

Touch(m, kind, u, a, scaled) ==
    Require([m EXCEPT !.position[<<u, a>>][kind].balance = @ + scaled,
                      !.position[<<u, a>>][kind].index = m.index[kind][a]],
            m.position[u, a][kind].balance + scaled >= 0)

MintEvent(m, kind, u, a, value) ==
    LET increase == Increase(m, kind, u, a)
        index == m.index[kind][a]
    IN  IF kind = "bToken" THEN BTokenMint(TokenOf(kind, a), u, value, increase, index)
                           ELSE VTokenMint(TokenOf(kind, a), u, value, increase, index)

BurnEvent(m, kind, u, a, value) ==
    LET increase == Increase(m, kind, u, a)
        index == m.index[kind][a]
    IN  IF kind = "bToken" THEN BTokenBurn(TokenOf(kind, a), u, value, increase, index)
                           ELSE VTokenBurn(TokenOf(kind, a), u, value, increase, index)

mintScaled(m, kind, u, a, amount) ==
    LET scaled == RayDiv(amount, m.index[kind][a])
    IN  Emit(Touch(Require(m, scaled # 0), kind, u, a, scaled),
             MintEvent(m, kind, u, a, amount + Increase(m, kind, u, a)))

\* A burn of less than the interest since the user's last action is reported as a mint.
burnScaled(m, kind, u, a, amount) ==
    LET scaled == RayDiv(amount, m.index[kind][a])
        increase == Increase(m, kind, u, a)
    IN  Emit(Touch(Require(m, scaled # 0), kind, u, a, -scaled),
             IF increase > amount THEN MintEvent(m, kind, u, a, increase - amount)
                                  ELSE BurnEvent(m, kind, u, a, amount - increase))

-------------------------------------------------------------------------------
(* Stable debt: principal and interest of each user, and a total that      *)
(* accrues on its own.                                                     *)

StableDebt(m, u, a) == m.position[u, a].principal + m.position[u, a].interest

Compound(m, u, a, change, supply) ==
    Require([m EXCEPT !.position[<<u, a>>].principal = @ + change,
                      !.position[<<u, a>>].interest = 0,
                      !.stableTotal[a] = supply, !.stableGrowth[a] = 0],
            m.position[u, a].principal + change >= 0)

stableMint(m, caller, u, a, amount) ==
    LET increase == m.position[u, a].interest
        supply == m.stableTotal[a] + m.stableGrowth[a] + amount
    IN  Emit(Compound(m, u, a, amount + increase, supply),
             STokenMint(TokenOf("sToken", a), caller, u, amount + increase, increase, supply))

\* The last borrower may owe more than the total: it is then set to zero.  The code does so
\* as well when the average rate would become negative, and rates are not kept.
stableBurn(m, u, a, amount) ==
    LET increase == m.position[u, a].interest
        previous == m.stableTotal[a] + m.stableGrowth[a]
        supply == IF previous <= amount THEN 0 ELSE previous - amount
        token == TokenOf("sToken", a)
    IN  Emit(Compound(m, u, a, increase - amount, supply),
             IF increase > amount
             THEN STokenMint(token, u, u, increase - amount, increase, supply)
             ELSE STokenBurn(token, u, amount - increase, increase, supply))

-------------------------------------------------------------------------------
(* Credit delegation.                                                      *)

AllowanceEvent(kind, from, to, a, amount) ==
    IF kind = "sToken" THEN SBorrowAllowanceDelegated(TokenOf(kind, a), from, to, a, amount)
                       ELSE VBorrowAllowanceDelegated(TokenOf(kind, a), from, to, a, amount)

approve(m, kind, from, to, a, amount) ==
    Emit([Require(m, amount >= 0) EXCEPT !.allowance[<<kind, from, to, a>>] = amount],
         AllowanceEvent(kind, from, to, a, amount))

decreaseBorrowAllowance(m, kind, from, to, a, amount) ==
    IF from = to THEN m
    ELSE approve(m, kind, from, to, a, m.allowance[kind, from, to, a] - amount)

-------------------------------------------------------------------------------
(* Reserves.                                                               *)

updateState(m, a) == [m EXCEPT !.accrued[a] = @ + m.earning[a], !.earning[a] = 0]

updateInterestRates(m, a) ==
    Emit(m, ReserveDataUpdated(Pool, a, m.index["bToken"][a], m.index["vToken"][a]))

\* Cash moves between the bToken and somebody outside.
MoveCash(m, a, amount) ==
    Require([m EXCEPT !.underlying[a] = @ + amount], m.underlying[a] + amount >= 0)

Supply(m, a) == RayMul(MapThenSumSet(LAMBDA u : m.position[u, a].bToken.balance, Holders),
                       m.index["bToken"][a])

\* A fee is paid to the suppliers through the index and to the treasury's account.
cumulate(m, a, toLP, toProtocol) ==
    LET liquidity == Supply(m, a) + RayMul(m.accrued[a], m.index["bToken"][a])
        index == RayMul(RayDiv(toLP, liquidity) + RAY, m.index["bToken"][a])
    IN  IF liquidity = 0 THEN Require(m, FALSE)
        ELSE [m EXCEPT !.index["bToken"][a] = index, !.accrued[a] = @ + RayDiv(toProtocol, index)]

-------------------------------------------------------------------------------
(* Users.                                                                  *)

CollateralOf(m, u) == {a \in Assets : m.position[u, a].collateral}

HasCollateral(m, u) == \E a \in CollateralOf(m, u) : m.position[u, a].bToken.balance > 0

Debt(m, u, a) == BalanceOf(m, "vToken", u, a) + StableDebt(m, u, a)

IsBorrowingAny(m, u) == \E a \in Assets : Debt(m, u, a) > 0

\* The isolated collateral of a user, as a set.
IsolationOf(m, u) == {a \in Isolated : CollateralOf(m, u) = {a}}

setUsingAsCollateral(m, u, a, use) ==
    Emit([m EXCEPT !.position[<<u, a>>].collateral = use],
         IF use THEN ReserveUsedAsCollateralEnabled(Pool, a, u)
                ELSE ReserveUsedAsCollateralDisabled(Pool, a, u))

CanUseAsCollateral(m, u, a) ==
    CollateralOf(m, u) = {} \/ (IsolationOf(m, u) = {} /\ a \notin Isolated)

\* Nobody here holds the role of an isolated collateral supplier, so no asset with a ceiling
\* is enabled as a side effect.
AutomaticUse(m, u, a, first) ==
    IF first /\ a \notin Isolated /\ CanUseAsCollateral(m, u, a)
    THEN setUsingAsCollateral(m, u, a, TRUE) ELSE m

StillHealthy(m, u) == Require(m, IsBorrowingAny(m, u) => HasCollateral(m, u))

\* Debt issued against an isolated collateral, or paid back.
ChangeIsolatedDebt(m, u, change) ==
    IF IsolationOf(m, u) = {} THEN m
    ELSE LET c == CHOOSE a \in IsolationOf(m, u) : TRUE
             debt == IF m.isolatedDebt[c] + change > 0 THEN m.isolatedDebt[c] + change ELSE 0
         IN  Emit([m EXCEPT !.isolatedDebt[c] = debt],
                  IsolationModeTotalDebtUpdated(Pool, c, debt))

-------------------------------------------------------------------------------
(* Calls of the pool.                                                      *)

\* Both supplies, with cash or unbacked.
MintPosition(m, u, a, amount) ==
    AutomaticUse(mintScaled(updateInterestRates(updateState(m, a), a), "bToken", u, a, amount),
                 u, a, m.position[u, a].bToken.balance = 0)

executeSupply(m, u, a, amount) ==
    Emit(MintPosition(MoveCash(m, a, amount), u, a, amount), SupplyEvent(Pool, a, u, u, amount))

executeWithdraw(m, u, a, amount) ==
    LET updated == updateInterestRates(updateState(m, a), a)
        isCollateral == m.position[u, a].collateral
        switched == IF isCollateral /\ amount = BalanceOf(m, "bToken", u, a)
                    THEN setUsingAsCollateral(updated, u, a, FALSE) ELSE updated
        burnt == MoveCash(burnScaled(switched, "bToken", u, a, amount), a, -amount)
    IN  Emit(IF isCollateral THEN StillHealthy(burnt, u) ELSE burnt,
             WithdrawEvent(Pool, a, u, u, amount))

executeBorrow(m, caller, u, a, amount, kind, releaseUnderlying) ==
    LET allowed == decreaseBorrowAllowance(Require(updateState(m, a), HasCollateral(m, u)),
                                           kind, u, caller, a, amount)
        minted == IF kind = "sToken" THEN stableMint(allowed, caller, u, a, amount)
                                     ELSE mintScaled(allowed, kind, u, a, amount)
        updated == updateInterestRates(ChangeIsolatedDebt(minted, u, amount), a)
    IN  Emit(IF releaseUnderlying THEN MoveCash(updated, a, -amount) ELSE updated,
             BorrowEvent(Pool, a, caller, u, amount, kind))

DebtOfKind(m, kind, u, a) ==
    IF kind = "sToken" THEN StableDebt(m, u, a) ELSE BalanceOf(m, kind, u, a)

burnDebt(m, kind, u, a, amount) ==
    IF kind = "sToken" THEN stableBurn(m, u, a, amount) ELSE burnScaled(m, kind, u, a, amount)

executeRepay(m, caller, u, a, amount, kind, useBTokens) ==
    LET debt == DebtOfKind(m, kind, u, a)
        payback == IF amount < debt THEN amount ELSE debt
        burnt == burnDebt(Require(updateState(m, a), debt > 0), kind, u, a, payback)
        updated == ChangeIsolatedDebt(updateInterestRates(burnt, a), u, -payback)
    IN  Emit(IF useBTokens THEN burnScaled(updated, "bToken", caller, a, payback)
                           ELSE MoveCash(updated, a, payback),
             RepayEvent(Pool, a, u, caller, payback, useBTokens))

executeRebalanceStableBorrowRate(m, u, a) ==
    LET debt == StableDebt(m, u, a)
    IN  Emit(updateInterestRates(
                 stableMint(stableBurn(Require(updateState(m, a), debt > 0), u, a, debt),
                            u, u, a, debt), a),
             RebalanceStableBorrowRateEvent(Pool, a, u))

executeSwapBorrowRateMode(m, u, a, kind) ==
    LET debt == DebtOfKind(m, kind, u, a)
        burnt == burnDebt(Require(updateState(m, a), debt > 0), kind, u, a, debt)
        minted == IF kind = "sToken" THEN mintScaled(burnt, "vToken", u, a, debt)
                                     ELSE stableMint(burnt, u, u, a, debt)
    IN  Emit(updateInterestRates(minted, a), SwapBorrowRateModeEvent(Pool, a, u, kind))

executeUseReserveAsCollateral(m, u, a, use) ==
    LET allowed == Require(m, /\ m.position[u, a].bToken.balance > 0
                              /\ use # m.position[u, a].collateral
                              /\ use => CanUseAsCollateral(m, u, a))
    IN  StillHealthy(setUsingAsCollateral(allowed, u, a, use), u)

\* Interest since the last action is reported as a mint, for each side with any.
ReportInterest(m, u, a) ==
    IF Increase(m, "bToken", u, a) > 0
    THEN Emit(m, MintEvent(m, "bToken", u, a, Increase(m, "bToken", u, a))) ELSE m

BalanceTransferEvent(m, from, to, a, amount) ==
    BalanceTransfer(TokenOf("bToken", a), from, to, RayDiv(amount, m.index["bToken"][a]),
                    m.index["bToken"][a])

MoveBTokens(m, from, to, a, amount) ==
    LET scaled == RayDiv(amount, m.index["bToken"][a])
        reported == IF from = to THEN ReportInterest(m, from, a)
                    ELSE ReportInterest(ReportInterest(m, from, a), to, a)
    IN  Touch(Touch(reported, "bToken", from, a, -scaled), "bToken", to, a, scaled)

\* A transfer by its owner: the pool is asked before the event is emitted.
transfer(m, from, to, a, amount) ==
    LET moved == MoveBTokens(m, from, to, a, amount)
        isCollateral == m.position[from, a].collateral
        checked == IF isCollateral THEN StillHealthy(moved, from) ELSE moved
        disabled == IF isCollateral /\ amount = BalanceOf(m, "bToken", from, a)
                    THEN setUsingAsCollateral(checked, from, a, FALSE) ELSE checked
    IN  Emit(AutomaticUse(disabled, to, a, BalanceOf(m, "bToken", to, a) = 0),
             BalanceTransferEvent(m, from, to, a, amount))

\* A transfer by the pool, which is not.
transferOnLiquidation(m, from, to, a, amount) ==
    Emit(MoveBTokens(m, from, to, a, amount), BalanceTransferEvent(m, from, to, a, amount))

burnDebtTokens(m, u, d, amount) ==
    LET variable == BalanceOf(m, "vToken", u, d)
        rest == IF variable # 0 THEN burnScaled(m, "vToken", u, d, variable) ELSE m
    IN  IF variable >= amount THEN burnScaled(m, "vToken", u, d, amount)
                              ELSE stableBurn(rest, u, d, amount - variable)

SeizeCollateral(m, liquidator, u, c, seized, receiveBToken) ==
    IF receiveBToken
    THEN AutomaticUse(transferOnLiquidation(m, u, liquidator, c, seized), liquidator, c,
                      BalanceOf(m, "bToken", liquidator, c) = 0)
    ELSE MoveCash(burnScaled(updateInterestRates(updateState(m, c), c), "bToken", u, c, seized),
                  c, -seized)

\* The fee is at most what is left of the position.
PayFee(m, u, c, fee) ==
    LET index == m.index["bToken"][c]
        left == m.position[u, c].bToken.balance
    IN  IF fee = 0 THEN m
        ELSE transferOnLiquidation(m, u, Treasury, c,
                                   IF RayDiv(fee, index) > left THEN RayMul(left, index) ELSE fee)

executeLiquidationCall(m, liquidator, u, c, d, covered, seized, fee, receiveBToken) ==
    LET balance == BalanceOf(m, "bToken", u, c)
        allowed == Require(updateState(m, d),
                           /\ m.position[u, c].collateral
                           /\ covered <= Debt(m, u, d)
                           /\ seized + fee <= balance)
        switched == IF seized + fee = balance
                    THEN setUsingAsCollateral(allowed, u, c, FALSE) ELSE allowed
        repaid == ChangeIsolatedDebt(
                      updateInterestRates(burnDebtTokens(switched, u, d, covered), d), u, -covered)
        taken == PayFee(SeizeCollateral(repaid, liquidator, u, c, seized, receiveBToken),
                        u, c, fee)
    IN  Emit(MoveCash(taken, d, covered),
             LiquidationCallEvent(Pool, c, d, u, covered, seized, liquidator))

executeMintUnbacked(m, u, a, amount) ==
    Emit(MintPosition([m EXCEPT !.unbacked[a] = @ + amount], u, a, amount),
         MintUnbackedEvent(Pool, a, u, u, amount))

executeBackUnbacked(m, u, a, amount, fee) ==
    LET backing == IF amount < m.unbacked[a] THEN amount ELSE m.unbacked[a]
        toProtocol == PercentMul(fee, m.bridgeFee)
        paid == cumulate(updateState(m, a), a, fee - toProtocol, toProtocol)
    IN  Emit(MoveCash(updateInterestRates([paid EXCEPT !.unbacked[a] = @ - backing], a),
                      a, backing + fee),
             BackUnbackedEvent(Pool, a, u, backing, fee))

executeMintToTreasury(m, a) ==
    LET amount == RayMul(m.accrued[a], m.index["bToken"][a])
    IN  Emit(mintScaled([Require(m, m.accrued[a] # 0) EXCEPT !.accrued[a] = 0],
                        "bToken", Treasury, a, amount),
             MintedToTreasury(Pool, a, amount))

executeSetUserEMode(m, u, category) ==
    Emit([m EXCEPT !.eMode[u] = category], UserEModeSet(Pool, u, category))

updateBridgeProtocolFee(m, fee) ==
    Emit([m EXCEPT !.bridgeFee = fee], BridgeProtocolFeeUpdated(PoolConfigurator, fee))

-------------------------------------------------------------------------------
(* Actions: calls in an open block, the end of a block, and time.          *)

Call(next) ==
    /\ ~sealed /\ transactions < MaxTransactions
    /\ ~next.reverted
    /\ market' = next /\ transactions' = transactions + 1
    /\ UNCHANGED <<flash, sealed, now>>

SupplyCall(u, a) == \E amount \in Amounts : Call(executeSupply(market, u, a, amount))

\* All the user has, or less.
WithdrawCall(u, a) ==
    \E amount \in Amounts \cup {BalanceOf(market, "bToken", u, a)} :
        /\ amount <= BalanceOf(market, "bToken", u, a)
        /\ Call(executeWithdraw(market, u, a, amount))

BorrowCall(u, a) ==
    \E caller \in Users, amount \in Amounts, kind \in {"sToken", "vToken"} :
        Call(executeBorrow(market, caller, u, a, amount, kind, TRUE))

RepayCall(u, a) ==
    \E kind \in {"sToken", "vToken"}, useBTokens \in BOOLEAN :
        \E amount \in Amounts \cup {DebtOfKind(market, kind, u, a)} :
            Call(executeRepay(market, u, u, a, amount, kind, useBTokens))

RebalanceCall(u, a) == Call(executeRebalanceStableBorrowRate(market, u, a))

SwapCall(u, a) ==
    \E kind \in {"sToken", "vToken"} : Call(executeSwapBorrowRateMode(market, u, a, kind))

CollateralCall(u, a) ==
    \E use \in BOOLEAN : Call(executeUseReserveAsCollateral(market, u, a, use))

\* Transfers of zero and to oneself are left out.
TransferCall(u, a) ==
    \E to \in Users \ {u}, amount \in Amounts \cup {BalanceOf(market, "bToken", u, a)} :
        amount > 0 /\ Call(transfer(market, u, to, a, amount))

\* Of another user; liquidating oneself is left out.
LiquidationCall(u, c) ==
    \E liquidator \in Users \ {u}, d \in Assets, fee \in Fees, receiveBToken \in BOOLEAN :
        \E covered \in {1, Debt(market, u, d)}, seized \in {1, BalanceOf(market, "bToken", u, c) - fee} :
            /\ covered > 0 /\ seized > 0
            /\ Call(executeLiquidationCall(market, liquidator, u, c, d, covered, seized, fee,
                                           receiveBToken))

MintUnbackedCall(u, a) == \E amount \in Amounts : Call(executeMintUnbacked(market, u, a, amount))

BackUnbackedCall(u, a) ==
    \E amount \in Amounts, fee \in Fees : Call(executeBackUnbacked(market, u, a, amount, fee))

MintToTreasuryCall(a) == Call(executeMintToTreasury(market, a))

SetUserEModeCall(u) ==
    \E category \in EModeCategoryIds : Call(executeSetUserEMode(market, u, category))

ApproveDelegationCall(u, a) ==
    \E to \in Users \ {u}, kind \in {"sToken", "vToken"}, amount \in Amounts :
        Call(approve(market, kind, u, to, a, amount))

UpdateBridgeFeeCall == \E fee \in BridgeFees : Call(updateBridgeProtocolFee(market, fee))

\* The asset is lent first; an authorised borrower owes no premium.
FlashLoanStart(u, a) ==
    \E amount \in Amounts, authorised \in BOOLEAN :
        LET lent == MoveCash(market, a, -amount)
        IN  /\ flash = <<>> /\ ~sealed /\ transactions < MaxTransactions
            /\ ~lent.reverted
            /\ market' = lent
            /\ flash' = <<[asset |-> a, amount |-> amount, initiator |-> u,
                           premium |-> IF authorised THEN 0 ELSE PercentMul(amount, FlashPremium),
                           before |-> market]>>
            /\ transactions' = transactions + 1
            /\ UNCHANGED <<sealed, now>>

handleFlashLoanRepayment(m, loan) ==
    LET toProtocol == PercentMul(loan.premium, FlashPremiumToProtocol)
        paid == cumulate(updateState(m, loan.asset), loan.asset, loan.premium - toProtocol,
                         toProtocol)
    IN  Emit(MoveCash(updateInterestRates(paid, loan.asset), loan.asset,
                      loan.amount + loan.premium),
             FlashLoanEvent(Pool, loan.initiator, loan.asset, loan.amount, loan.premium))

\* A loan kept as a debt owes no premium.
KeepAsDebt(m, loan, kind) ==
    Emit(executeBorrow(m, loan.initiator, loan.initiator, loan.asset, loan.amount, kind, FALSE),
         FlashLoanEvent(Pool, loan.initiator, loan.asset, loan.amount, 0))

FlashLoanEnd ==
    \E loan \in {flash[i] : i \in DOMAIN flash} :
        /\ \E next \in {handleFlashLoanRepayment(market, loan)}
                       \cup {KeepAsDebt(market, loan, kind) : kind \in {"sToken", "vToken"}} :
              ~next.reverted /\ market' = next
        /\ flash' = <<>>
        /\ UNCHANGED <<sealed, transactions, now>>

\* The receiver fails, or cannot pay: everything since the start is undone.
FlashLoanRevert ==
    /\ flash # <<>>
    /\ market' = flash[1].before /\ flash' = <<>>
    /\ UNCHANGED <<sealed, transactions, now>>

SealBlock ==
    /\ ~sealed /\ flash = <<>> /\ market.log # <<>>
    /\ sealed' = TRUE
    /\ UNCHANGED <<market, flash, transactions, now>>

\* Interest of a tick on the stable debt of a position, if it has one.
Accrue(position) ==
    IF position.principal > 0 THEN [position EXCEPT !.interest = @ + StableInterest]
                              ELSE position

\* Interest on variable debt raises both indexes, interest on stable debt the debts; the
\* total is rounded on its own.  The treasury's part is added at the next update.
Tick ==
    /\ now < MaxTick /\ ~sealed /\ flash = <<>> /\ market.log = <<>>
    /\ LET indebted == {a \in Assets : \E u \in Users : Debt(market, u, a) > 0}
           stable(a) == {u \in Users : market.position[u, a].principal > 0}
           grows(a) == IF a \in indebted THEN 1 ELSE 0
       IN  /\ indebted # {}
           /\ \E earned \in 0..1, short \in 0..1 :
                market' = [market EXCEPT
                    !.index = [kind \in DOMAIN @ |-> [a \in Assets |-> @[kind][a] + grows(a)]],
                    !.earning = [a \in Assets |-> @[a] + earned * grows(a)],
                    !.stableGrowth = [a \in Assets |-> IF stable(a) = {} THEN @[a]
                                         ELSE @[a] + StableInterest * Cardinality(stable(a)) - short],
                    !.position = [p \in DOMAIN @ |-> Accrue(@[p])]]
    /\ now' = now + 1
    /\ UNCHANGED <<flash, sealed, transactions>>

PoolCall ==
    \/ \E u \in Users, a \in Assets :
         \/ SupplyCall(u, a) \/ WithdrawCall(u, a) \/ BorrowCall(u, a) \/ RepayCall(u, a)
         \/ RebalanceCall(u, a) \/ SwapCall(u, a) \/ CollateralCall(u, a) \/ TransferCall(u, a)
         \/ LiquidationCall(u, a) \/ MintUnbackedCall(u, a) \/ BackUnbackedCall(u, a)
         \/ ApproveDelegationCall(u, a) \/ FlashLoanStart(u, a)
    \/ \E u \in Users : SetUserEModeCall(u)
    \/ \E a \in Assets : MintToTreasuryCall(a)
    \/ UpdateBridgeFeeCall

\* What the chain does whether or not anybody calls.
BlockProduction == FlashLoanEnd \/ FlashLoanRevert \/ SealBlock
===============================================================================
