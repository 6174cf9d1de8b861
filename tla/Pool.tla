---------------------------------- MODULE Pool ----------------------------------
(***************************************************************************)
(* The operations of pool/Pool.sol on positions: supplying, withdrawing,   *)
(* transferring bTokens, enabling collateral, borrowing, repaying with     *)
(* cash or with bTokens, swapping the rate mode, choosing an eMode         *)
(* category, and liquidating.  Every action is one transaction: the calls  *)
(* of SupplyLogic, BorrowLogic, EModeLogic and LiquidationLogic and of the *)
(* token contracts it makes, all of them or, when one reverts, none.       *)
(*                                                                         *)
(* Rates are not modelled here, so updateInterestRates and the rebalancing *)
(* of stable rates change nothing; interest itself accrues in              *)
(* AccrueInterest by amounts TLC chooses.                                  *)
(***************************************************************************)
EXTENDS ValidationLogic

CONSTANTS
    Amounts,      \* amounts passed to the operations, besides MAX_UINT
    PriceInputs,  \* answers the oracle may give
    MaxIndex,     \* bound on both indexes
    MaxAccrual    \* bound on the growth of one stable debt in one accrual

ASSUME PoolInputAssumption ==
    /\ Amounts \subseteq Nat
    /\ PriceInputs \in [Assets \cup PriceSources -> SUBSET (Nat \ {0})]
    /\ MaxIndex \in Nat
    /\ MaxAccrual \in Nat

AmountsOrMax == Amounts \cup {MAX_UINT}

MAX_LIQUIDATION_CLOSE_FACTOR == PERCENTAGE_FACTOR
DEFAULT_LIQUIDATION_CLOSE_FACTOR == PERCENTAGE_FACTOR \div 2
CLOSE_FACTOR_HF_THRESHOLD == (95 * WAD) \div 100

-------------------------------------------------------------------------------
(* Scaled token ledgers.                                                   *)

\* Mutants of the two that follow: scaled amounts rounded up.
BTokenScaledUp(r, amount) ==
    (amount * RAY + liquidityIndex[r] - 1) \div liquidityIndex[r]
DebtScaledUp(r, amount) ==
    (amount * RAY + variableBorrowIndex[r] - 1) \div variableBorrowIndex[r]

BTokenScaled(r, amount) == RayDiv(amount, liquidityIndex[r])
DebtScaled(r, amount) == RayDiv(amount, variableBorrowIndex[r])

Credit(ledger, h, r, n) == [ledger EXCEPT ![h][r] = @ + n]
Debit(ledger, h, r, n) == [ledger EXCEPT ![h][r] = @ - n]
Move(ledger, from, to, r, n) == Credit(Debit(ledger, from, r, n), to, r, n)

MintBToken(h, r, amount) ==
    /\ BTokenScaled(r, amount) # 0
    /\ scaledBToken' = Credit(scaledBToken, h, r, BTokenScaled(r, amount))

\* Mutant: the balance is not compared with what is burnt.
BurnBTokenUnchecked(h, r, amount) ==
    /\ BTokenScaled(r, amount) # 0
    /\ scaledBToken' = Debit(scaledBToken, h, r, BTokenScaled(r, amount))

BurnBToken(h, r, amount) ==
    /\ BTokenScaled(r, amount) \in 1..scaledBToken[h][r]
    /\ scaledBToken' = Debit(scaledBToken, h, r, BTokenScaled(r, amount))

MintVariableDebt(u, r, amount) ==
    /\ DebtScaled(r, amount) # 0
    /\ scaledDebt' = Credit(scaledDebt, u, r, DebtScaled(r, amount))

BurnVariableDebt(u, r, amount) ==
    /\ DebtScaled(r, amount) \in 1..scaledDebt[u][r]
    /\ scaledDebt' = Debit(scaledDebt, u, r, DebtScaled(r, amount))

MintStableDebt(u, r, amount) == stableDebt' = Credit(stableDebt, u, r, amount)

BurnStableDebt(u, r, amount) ==
    /\ amount <= stableDebt[u][r]
    /\ stableDebt' = Debit(stableDebt, u, r, amount)

MintDebt(u, r, amount, mode) ==
    \/ mode = "VARIABLE" /\ MintVariableDebt(u, r, amount) /\ UNCHANGED stableDebt
    \/ mode = "STABLE"   /\ MintStableDebt(u, r, amount)   /\ UNCHANGED scaledDebt

BurnDebt(u, r, amount, mode) ==
    \/ mode = "VARIABLE" /\ BurnVariableDebt(u, r, amount) /\ UNCHANGED stableDebt
    \/ mode = "STABLE"   /\ BurnStableDebt(u, r, amount)   /\ UNCHANGED scaledDebt

\* The collateral bit of r set or cleared in a collateral bitmap.
SetUsingAsCollateral(collaterals, r, on) ==
    IF on THEN collaterals \cup {r} ELSE collaterals \ {r}

\* Mutants of the next definition: the comparison is swapped; the repayment only
\* counts while r may be borrowed in isolation mode.
IsolatedDebtSwapped(collaterals, r, repayAmount) ==
    IF InIsolation(collaterals)
    THEN [isolationModeTotalDebt EXCEPT ![TheOnly(collaterals)] =
            IF @ >= DebtCeilingAmount(r, repayAmount) THEN 0
            ELSE @ - DebtCeilingAmount(r, repayAmount)]
    ELSE isolationModeTotalDebt
IsolatedDebtIfBorrowable(collaterals, r, repayAmount) ==
    IF InIsolation(collaterals) /\ config[r].borrowableInIsolation
    THEN [isolationModeTotalDebt EXCEPT ![TheOnly(collaterals)] =
            IF @ <= DebtCeilingAmount(r, repayAmount) THEN 0
            ELSE @ - DebtCeilingAmount(r, repayAmount)]
    ELSE isolationModeTotalDebt

\* isolationModeTotalDebt after a repayment of r by an account whose collateral
\* assets are `collaterals`.
IsolatedDebtAfterRepay(collaterals, r, repayAmount) ==
    IF InIsolation(collaterals)
    THEN [isolationModeTotalDebt EXCEPT ![TheOnly(collaterals)] =
            IF @ <= DebtCeilingAmount(r, repayAmount) THEN 0
            ELSE @ - DebtCeilingAmount(r, repayAmount)]
    ELSE isolationModeTotalDebt

-------------------------------------------------------------------------------
(* Suppliers.                                                              *)

Supply(sender, onBehalfOf, r, amount) ==
    /\ ValidateSupply(r, amount)
    /\ MintBToken(onBehalfOf, r, amount)
    /\ cash' = [cash EXCEPT ![r] = @ + amount]
    /\ LET isFirstSupply == scaledBToken[onBehalfOf][r] = 0
           enable == /\ isFirstSupply
                     /\ ValidateAutomaticUseAsCollateral(sender, usingAsCollateral[onBehalfOf], r)
       IN  usingAsCollateral' =
             [usingAsCollateral EXCEPT ![onBehalfOf] = IF enable THEN @ \cup {r} ELSE @]
    /\ UNCHANGED <<oracleVars, configVars, indexVars, debtVars, borrowing, eMode,
                   isolationModeTotalDebt>>

Withdraw(sender, r, amount) ==
    LET userBalance == BTokenBalance(sender, r)
        amountToWithdraw == IF amount = MAX_UINT THEN userBalance ELSE amount
        isCollateral == r \in usingAsCollateral[sender]
    IN  /\ ValidateWithdraw(r, amountToWithdraw, userBalance)
        /\ amountToWithdraw <= cash[r]
        /\ usingAsCollateral' =
             [usingAsCollateral EXCEPT ![sender] =
                IF amountToWithdraw = userBalance THEN @ \ {r} ELSE @]
        /\ BurnBToken(sender, r, amountToWithdraw)
        /\ cash' = [cash EXCEPT ![r] = @ - amountToWithdraw]
        /\ UNCHANGED <<oracleVars, configVars, indexVars, debtVars, borrowing, eMode,
                       isolationModeTotalDebt>>
        /\ isCollateral /\ borrowing[sender] # {} => ValidateHFAndLtv(sender, r)'

\* A bToken transfer and the finalizeTransfer call it makes, whose msg.sender is
\* the bToken itself: an isolated asset is never enabled for the recipient.  The
\* amount is not compared with the balance: only its scaled value has to fit.
Transfer(from, to, r, amount) ==
    LET isCollateral == r \in usingAsCollateral[from]
        fromBalanceBefore == BTokenBalance(from, r)
        toBalanceBefore == BTokenBalance(to, r)
        enable == /\ toBalanceBefore = 0
                  /\ config[r].debtCeiling = 0
                  /\ ValidateUseAsCollateral(usingAsCollateral[to], r)
        disable == isCollateral /\ fromBalanceBefore = amount
    IN  /\ from # to
        /\ amount # 0
        /\ ValidateTransfer(r)
        /\ BTokenScaled(r, amount) <= scaledBToken[from][r]
        /\ scaledBToken' = Move(scaledBToken, from, to, r, BTokenScaled(r, amount))
        /\ usingAsCollateral' =
             [usingAsCollateral EXCEPT ![from] = IF disable THEN @ \ {r} ELSE @,
                                       ![to] = IF enable THEN @ \cup {r} ELSE @]
        /\ UNCHANGED <<oracleVars, configVars, indexVars, debtVars, borrowing, eMode,
                       cash, isolationModeTotalDebt>>
        /\ isCollateral /\ borrowing[from] # {} => ValidateHFAndLtv(from, r)'

SetUserUseReserveAsCollateral(sender, r, useAsCollateral) ==
    /\ ValidateSetUseReserveAsCollateral(r, BTokenBalance(sender, r))
    /\ useAsCollateral # (r \in usingAsCollateral[sender])
    /\ useAsCollateral => ValidateUseAsCollateral(usingAsCollateral[sender], r)
    /\ usingAsCollateral' =
         [usingAsCollateral EXCEPT ![sender] = SetUsingAsCollateral(@, r, useAsCollateral)]
    /\ UNCHANGED <<oracleVars, configVars, indexVars, debtVars, borrowing, eMode,
                   scaledBToken, cash, isolationModeTotalDebt>>
    /\ ~useAsCollateral => ValidateHFAndLtv(sender, r)'

-------------------------------------------------------------------------------
(* Borrowers.                                                              *)

\* Anybody with enough credit delegation from u may call; the position is u's.
Borrow(u, r, amount, mode) ==
    LET isFirstBorrowing == IF mode = "VARIABLE" THEN scaledDebt[u][r] = 0
                                                 ELSE stableDebt[u][r] = 0
        collateral == TheOnly(usingAsCollateral[u])
    IN  /\ ValidateBorrow(u, r, amount, mode)
        /\ MintDebt(u, r, amount, mode)
        /\ borrowing' =
             [borrowing EXCEPT ![u] = IF isFirstBorrowing THEN @ \cup {r} ELSE @]
        /\ isolationModeTotalDebt' =
             IF IsolationModeActive(u)
             THEN [isolationModeTotalDebt EXCEPT ![collateral] =
                     @ + DebtCeilingAmount(r, amount)]
             ELSE isolationModeTotalDebt
        /\ amount <= cash[r]
        /\ cash' = [cash EXCEPT ![r] = @ - amount]
        /\ UNCHANGED <<oracleVars, configVars, indexVars, scaledBToken,
                       usingAsCollateral, eMode>>

DebtInMode(u, r, mode) ==
    IF mode = "STABLE" THEN stableDebt[u][r] ELSE VariableDebt(u, r)

AtMost(amount, bound) == IF amount < bound THEN amount ELSE bound

\* Mutant: the bit is cleared with the debt of one rate mode.
RepayDebtOfMode(onBehalfOf, r, paybackAmount, mode) ==
    /\ BurnDebt(onBehalfOf, r, paybackAmount, mode)
    /\ borrowing' =
         [borrowing EXCEPT ![onBehalfOf] =
            IF DebtInMode(onBehalfOf, r, mode) = paybackAmount THEN @ \ {r} ELSE @]
    /\ isolationModeTotalDebt' =
         IsolatedDebtAfterRepay(usingAsCollateral[onBehalfOf], r, paybackAmount)

\* What executeRepay does to the debt, whoever pays and in whatever token.
RepayDebt(onBehalfOf, r, paybackAmount, mode) ==
    /\ BurnDebt(onBehalfOf, r, paybackAmount, mode)
    /\ borrowing' =
         [borrowing EXCEPT ![onBehalfOf] =
            IF UserDebt(onBehalfOf, r) = paybackAmount THEN @ \ {r} ELSE @]
    /\ isolationModeTotalDebt' =
         IsolatedDebtAfterRepay(usingAsCollateral[onBehalfOf], r, paybackAmount)

Repay(sender, onBehalfOf, r, amount, mode) ==
    LET paybackAmount == AtMost(amount, DebtInMode(onBehalfOf, r, mode))
    IN  /\ ValidateRepay(sender, onBehalfOf, r, amount, mode)
        /\ RepayDebt(onBehalfOf, r, paybackAmount, mode)
        /\ cash' = [cash EXCEPT ![r] = @ + paybackAmount]
        /\ UNCHANGED <<oracleVars, configVars, indexVars, scaledBToken,
                       usingAsCollateral, eMode>>

\* The collateral bit stays as it is even when the whole bToken balance is burnt,
\* and no health factor is checked.
RepayWithBTokens(sender, r, amount, mode) ==
    LET available == IF amount = MAX_UINT THEN BTokenBalance(sender, r) ELSE amount
        paybackAmount == AtMost(available, DebtInMode(sender, r, mode))
    IN  /\ ValidateRepay(sender, sender, r, amount, mode)
        /\ RepayDebt(sender, r, paybackAmount, mode)
        /\ BurnBToken(sender, r, paybackAmount)
        /\ UNCHANGED <<oracleVars, configVars, indexVars, usingAsCollateral, eMode, cash>>

SwapBorrowRateMode(sender, r, currentMode) ==
    /\ ValidateSwapRateMode(sender, r, currentMode)
    /\ \/ /\ currentMode = "STABLE"
          /\ BurnStableDebt(sender, r, stableDebt[sender][r])
          /\ MintVariableDebt(sender, r, stableDebt[sender][r])
       \/ /\ currentMode = "VARIABLE"
          /\ BurnVariableDebt(sender, r, VariableDebt(sender, r))
          /\ MintStableDebt(sender, r, VariableDebt(sender, r))
    /\ UNCHANGED <<oracleVars, configVars, indexVars, userVars, scaledBToken, cash,
                   isolationModeTotalDebt>>

\* Mutant: the health factor is not checked.
SetUserEModeUnchecked(sender, categoryId) ==
    /\ ValidateSetUserEMode(sender, categoryId)
    /\ eMode' = [eMode EXCEPT ![sender] = categoryId]
    /\ UNCHANGED <<oracleVars, configVars, indexVars, debtVars, usingAsCollateral,
                   borrowing, scaledBToken, cash, isolationModeTotalDebt>>

\* The health factor is only checked when a category is left or exchanged.
SetUserEMode(sender, categoryId) ==
    /\ ValidateSetUserEMode(sender, categoryId)
    /\ eMode' = [eMode EXCEPT ![sender] = categoryId]
    /\ UNCHANGED <<oracleVars, configVars, indexVars, debtVars, usingAsCollateral,
                   borrowing, scaledBToken, cash, isolationModeTotalDebt>>
    /\ eMode[sender] # 0 => ValidateHealthFactor(sender)'

-------------------------------------------------------------------------------
(* Liquidators.                                                            *)

LiquidationBonusOf(user, collateral) ==
    IF InEModeCategory(user, collateral)
    THEN eModeCategories[eMode[user]].liquidationBonus
    ELSE config[collateral].liquidationBonus

\* The debt is priced by the category's source without looking at the category
\* of the debt asset.
DebtPriceSource(user, debtAsset) ==
    IF EModePriceSource(user) # NoSource THEN EModePriceSource(user) ELSE debtAsset

\* How much of the debt a call covers: half of it while the health factor is
\* above the close-factor threshold.
DebtToLiquidate(user, debtAsset, debtToCover) ==
    LET closeFactor == IF HealthFactor(user) > CLOSE_FACTOR_HF_THRESHOLD
                       THEN DEFAULT_LIQUIDATION_CLOSE_FACTOR
                       ELSE MAX_LIQUIDATION_CLOSE_FACTOR
    IN  AtMost(debtToCover, PercentMul(UserDebt(user, debtAsset), closeFactor))

\* The part of the seized collateral that goes to the treasury.
LiquidationFee(collateral, bonus, collateralAmount) ==
    PercentMul(collateralAmount - PercentDiv(collateralAmount, bonus),
               config[collateral].liquidationProtocolFee)

\* Mutant: the comparison is swapped.
LargerOfBoth(maxCollateral, userBalance) ==
    IF maxCollateral < userBalance THEN userBalance ELSE maxCollateral

\* No more than the user has is seized.
CappedByBalance(maxCollateral, userBalance) ==
    IF maxCollateral > userBalance THEN userBalance ELSE maxCollateral

\* Collateral the liquidator receives, debt it repays, and the treasury's fee.
CollateralToLiquidate(user, collateral, debtAsset, debtToCover) ==
    LET bonus == LiquidationBonusOf(user, collateral)
        debtUnitValue == price[DebtPriceSource(user, debtAsset)] * AssetUnit[collateral]
        collateralUnitValue == price[PriceSourceOf(user, collateral)] * AssetUnit[debtAsset]
        userBalance == BTokenBalance(user, collateral)
        maxCollateral ==
            PercentMul((debtToCover * debtUnitValue) \div collateralUnitValue, bonus)
        collateralAmount == CappedByBalance(maxCollateral, userBalance)
        fee == LiquidationFee(collateral, bonus, collateralAmount)
        debtNeeded ==
            PercentDiv((userBalance * collateralUnitValue) \div debtUnitValue, bonus)
    IN  [collateral |-> collateralAmount - fee,
         debt       |-> IF maxCollateral > userBalance THEN debtNeeded ELSE debtToCover,
         fee        |-> fee]

\* Variable debt is burnt first, stable debt for what is left.
BurnDebtTokens(user, r, amount) ==
    \/ /\ VariableDebt(user, r) >= amount
       /\ BurnVariableDebt(user, r, amount)
       /\ UNCHANGED stableDebt
    \/ /\ VariableDebt(user, r) < amount
       /\ \/ /\ VariableDebt(user, r) # 0
             /\ BurnVariableDebt(user, r, VariableDebt(user, r))
          \/ /\ VariableDebt(user, r) = 0
             /\ UNCHANGED scaledDebt
       /\ BurnStableDebt(user, r, amount - VariableDebt(user, r))

\* Mutant: the fee is credited to the treasury and debited to nobody.
SeizeCollateralMintFee(liquidator, user, r, amounts, receiveBToken) ==
    LET seized == BTokenScaled(r, amounts.collateral)
        ledger == IF receiveBToken
                  THEN Move(scaledBToken, user, liquidator, r, seized)
                  ELSE Debit(scaledBToken, user, r, seized)
    IN  /\ seized \in 0..scaledBToken[user][r]
        /\ ~receiveBToken => seized # 0
        /\ scaledBToken' = Credit(ledger, Treasury, r, BTokenScaled(r, amounts.fee))

\* Mutant: the fee is not capped by what the seizure leaves, and its transfer reverts.
SeizeCollateralFeeUncapped(liquidator, user, r, amounts, receiveBToken) ==
    LET seized == BTokenScaled(r, amounts.collateral)
        ledger == IF receiveBToken
                  THEN Move(scaledBToken, user, liquidator, r, seized)
                  ELSE Debit(scaledBToken, user, r, seized)
        fee == BTokenScaled(r, amounts.fee)
    IN  /\ seized \in 0..scaledBToken[user][r]
        /\ ~receiveBToken => seized # 0
        /\ fee <= ledger[user][r]
        /\ scaledBToken' = Move(ledger, user, Treasury, r, fee)

\* The bToken ledger after the seizure and the payment of the fee.  The fee is
\* capped by the scaled balance left: by ArithmeticProofs!FullBurnIsExact that is
\* what sending rayMul(scaled balance, index) instead comes to.
SeizeCollateral(liquidator, user, r, amounts, receiveBToken) ==
    LET seized == BTokenScaled(r, amounts.collateral)
        ledger == IF receiveBToken
                  THEN Move(scaledBToken, user, liquidator, r, seized)
                  ELSE Debit(scaledBToken, user, r, seized)
        fee == AtMost(BTokenScaled(r, amounts.fee), ledger[user][r])
    IN  /\ seized \in 0..scaledBToken[user][r]
        /\ ~receiveBToken => seized # 0
        /\ scaledBToken' = IF amounts.fee = 0 THEN ledger
                           ELSE Move(ledger, user, Treasury, r, fee)

LiquidationCall(liquidator, user, collateral, debtAsset, debtToCover, receiveBToken) ==
    LET debtToLiquidate == DebtToLiquidate(user, debtAsset, debtToCover)
        amounts == CollateralToLiquidate(user, collateral, debtAsset, debtToLiquidate)
        everything == amounts.collateral + amounts.fee = BTokenBalance(user, collateral)
        collaterals == [usingAsCollateral EXCEPT ![user] =
                          IF everything THEN @ \ {collateral} ELSE @]
        enable == /\ receiveBToken
                  /\ BTokenBalance(liquidator, collateral) = 0
                  /\ ValidateAutomaticUseAsCollateral(liquidator, collaterals[liquidator],
                                                      collateral)
        released == IF receiveBToken THEN 0 ELSE amounts.collateral
    IN  /\ ValidateLiquidationCall(user, collateral, debtAsset)
        /\ borrowing' = [borrowing EXCEPT ![user] =
                           IF UserDebt(user, debtAsset) = amounts.debt
                           THEN @ \ {debtAsset} ELSE @]
        /\ BurnDebtTokens(user, debtAsset, amounts.debt)
        /\ isolationModeTotalDebt' =
             IsolatedDebtAfterRepay(collaterals[user], debtAsset, amounts.debt)
        /\ SeizeCollateral(liquidator, user, collateral, amounts, receiveBToken)
        /\ usingAsCollateral' = [collaterals EXCEPT ![liquidator] =
                                   IF enable THEN @ \cup {collateral} ELSE @]
        /\ released <= cash[collateral]
        /\ cash' = [[cash EXCEPT ![collateral] = @ - released]
                      EXCEPT ![debtAsset] = @ + amounts.debt]
        /\ UNCHANGED <<oracleVars, configVars, indexVars, eMode>>

-------------------------------------------------------------------------------
(* The environment: time, the market and the sequencer.                    *)

\* Time passes: the interest of reserve r accrues.  The liquidity index earns
\* nothing while nobody borrows, the variable index is only stored while there is
\* variable debt, and the suppliers never earn more than the borrowers owe more.
AccrueInterest(r) ==
    /\ \E li \in liquidityIndex[r]..MaxIndex, vi \in variableBorrowIndex[r]..MaxIndex,
          growth \in [Users -> 0..MaxAccrual] :
         /\ li > liquidityIndex[r] \/ vi > variableBorrowIndex[r]
         /\ vi > variableBorrowIndex[r] => TotalVariableDebt(r) # 0
         /\ \A u \in Users : growth[u] # 0 => stableDebt[u][r] # 0
         /\ liquidityIndex' = [liquidityIndex EXCEPT ![r] = li]
         /\ variableBorrowIndex' = [variableBorrowIndex EXCEPT ![r] = vi]
         /\ stableDebt' =
              [u \in Users |-> [stableDebt[u] EXCEPT ![r] = @ + growth[u]]]
    /\ UNCHANGED <<oracleVars, configVars, userVars, scaledDebt, scaledBToken, cash,
                   isolationModeTotalDebt>>
    /\ BTokenSupply(r)' - BTokenSupply(r)
         <= (TotalVariableDebt(r) + TotalStableDebt(r))'
              - (TotalVariableDebt(r) + TotalStableDebt(r))

\* The oracle answers differently.
ChangePrice(source) ==
    /\ \E p \in PriceInputs[source] : price' = [price EXCEPT ![source] = p]
    /\ UNCHANGED <<sentinelUp, configVars, indexVars, debtVars, userVars, scaledBToken,
                   cash, isolationModeTotalDebt>>

\* The sequencer goes down, or has been up for its grace period.
SequencerChange ==
    /\ SentinelSet
    /\ sentinelUp' = ~sentinelUp
    /\ UNCHANGED <<price, configVars, indexVars, debtVars, userVars, scaledBToken,
                   cash, isolationModeTotalDebt>>

-------------------------------------------------------------------------------
UserNext ==
    \E u \in Users, r \in Assets :
        \/ \E v \in Users, amount \in Amounts :
             \/ Supply(u, v, r, amount)
             \/ Transfer(u, v, r, amount)
        \/ \E amount \in AmountsOrMax : Withdraw(u, r, amount)
        \/ \E use \in BOOLEAN : SetUserUseReserveAsCollateral(u, r, use)
        \/ \E mode \in RateModes :
             \/ \E amount \in Amounts : Borrow(u, r, amount, mode)
             \/ \E v \in Users, amount \in AmountsOrMax : Repay(u, v, r, amount, mode)
             \/ \E amount \in AmountsOrMax : RepayWithBTokens(u, r, amount, mode)
             \/ SwapBorrowRateMode(u, r, mode)
        \/ \E v \in Users, d \in Assets, amount \in AmountsOrMax, receive \in BOOLEAN :
             LiquidationCall(u, v, r, d, amount, receive)

EModeNext == \E u \in Users, c \in CategoryIds : SetUserEMode(u, c)

EnvironmentNext ==
    \/ \E r \in Assets : AccrueInterest(r)
    \/ \E s \in Assets \cup PriceSources : ChangePrice(s)
    \/ SequencerChange

PoolNext == UserNext \/ EModeNext \/ EnvironmentNext
===============================================================================
