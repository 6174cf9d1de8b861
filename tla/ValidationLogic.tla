---------------------------- MODULE ValidationLogic ----------------------------
(***************************************************************************)
(* The checks of libraries/logic/ValidationLogic.sol: state predicates that *)
(* hold exactly when the function of the same name does not revert.         *)
(***************************************************************************)
EXTENDS PoolBase

ActiveAndUnpaused(r) == config[r].active /\ ~config[r].paused

\* A PriceOracleSentinel, where one is registered, lets operations through only
\* while the sequencer is up and its grace period has passed.
SentinelAllows == SentinelSet => sentinelUp

\* Mutant: a frozen reserve is not refused.
ValidateSupplyFrozen(r, amount) ==
    /\ amount # 0
    /\ ActiveAndUnpaused(r)
    /\ \/ config[r].supplyCap = 0
       \/ BTokenSupply(r) + amount <= config[r].supplyCap * AssetUnit[r]

ValidateSupply(r, amount) ==
    /\ amount # 0
    /\ ActiveAndUnpaused(r)
    /\ ~config[r].frozen
    /\ \/ config[r].supplyCap = 0
       \/ BTokenSupply(r) + amount <= config[r].supplyCap * AssetUnit[r]

ValidateWithdraw(r, amount, userBalance) ==
    /\ amount # 0
    /\ amount <= userBalance
    /\ ActiveAndUnpaused(r)

ValidateTransfer(r) == ~config[r].paused

ValidateSetUseReserveAsCollateral(r, userBalance) ==
    /\ userBalance # 0
    /\ ActiveAndUnpaused(r)

\* Can an account whose collateral assets are `collaterals` enable asset r too?
ValidateUseAsCollateral(collaterals, r) ==
    /\ config[r].ltv # 0
    /\ \/ collaterals = {}
       \/ ~InIsolation(collaterals) /\ config[r].debtCeiling = 0

\* Mutant: whether the account is isolated is not looked at.
ValidateAutomaticUseIfLtv(sender, collaterals, r) ==
    /\ config[r].debtCeiling # 0 => sender \in IsolatedCollateralSuppliers
    /\ config[r].ltv # 0

\* The same question when enabling is a side effect of an operation of sender.
ValidateAutomaticUseAsCollateral(sender, collaterals, r) ==
    /\ config[r].debtCeiling # 0 => sender \in IsolatedCollateralSuppliers
    /\ ValidateUseAsCollateral(collaterals, r)

ValidateHealthFactor(u) == HealthFactor(u) >= HEALTH_FACTOR_LIQUIDATION_THRESHOLD

\* Mutant: only the loan-to-value is looked at.
ValidateLtvOnly(u, r) == HasZeroLtvCollateral(u) => config[r].ltv = 0

ValidateHFAndLtv(u, r) ==
    /\ ValidateHealthFactor(u)
    /\ HasZeroLtvCollateral(u) => config[r].ltv = 0

\* A stable-rate borrower must not hold mostly the same asset as collateral.
NotSameCollateral(u, r, amount) ==
    \/ r \notin usingAsCollateral[u]
    \/ config[r].ltv = 0
    \/ amount > BTokenBalance(u, r)

BorrowableInIsolationMode(u, r, amount) ==
    LET collateral == TheOnly(usingAsCollateral[u])
    IN  /\ config[r].borrowableInIsolation
        /\ isolationModeTotalDebt[collateral] + DebtCeilingAmount(r, amount)
             <= config[collateral].debtCeiling

\* Mutant: the debt the user already has is forgotten.
CollateralCoversAmount(u, r, amount) ==
    LET source == IF EModePriceSource(u) # NoSource THEN EModePriceSource(u) ELSE r
    IN  PercentDiv((price[source] * amount) \div AssetUnit[r], AvgLtv(u))
          <= TotalCollateralInBaseCurrency(u)

\* The collateral, at its loan-to-value, covers the old debt and the new amount.
CollateralCoversNewBorrow(u, r, amount) ==
    LET source == IF EModePriceSource(u) # NoSource THEN EModePriceSource(u) ELSE r
        amountInBaseCurrency == (price[source] * amount) \div AssetUnit[r]
    IN  PercentDiv(TotalDebtInBaseCurrency(u) + amountInBaseCurrency, AvgLtv(u))
          <= TotalCollateralInBaseCurrency(u)

\* Mutant: only the asset already borrowed is asked whether it is siloed.
SiloedBorrowingOfOld(u, r) == SiloedBorrowingActive(u) => borrowing[u] = {r}

SiloedBorrowingAllows(u, r) ==
    borrowing[u] # {} =>
        IF SiloedBorrowingActive(u)
        THEN borrowing[u] = {r}
        ELSE ~config[r].siloedBorrowing

ValidateBorrow(u, r, amount, mode) ==
    /\ amount # 0
    /\ ActiveAndUnpaused(r)
    /\ ~config[r].frozen
    /\ config[r].borrowingEnabled
    /\ SentinelAllows
    /\ mode \in RateModes
    /\ \/ config[r].borrowCap = 0
       \/ TotalStableDebt(r) + TotalVariableDebt(r) + amount
            <= config[r].borrowCap * AssetUnit[r]
    /\ IsolationModeActive(u) => BorrowableInIsolationMode(u, r, amount)
    /\ eMode[u] # 0 => config[r].eModeCategory = eMode[u]
    /\ TotalCollateralInBaseCurrency(u) # 0
    /\ AvgLtv(u) # 0
    /\ HealthFactor(u) > HEALTH_FACTOR_LIQUIDATION_THRESHOLD
    /\ CollateralCoversNewBorrow(u, r, amount)
    /\ mode = "STABLE" =>
         /\ config[r].stableRateBorrowingEnabled
         /\ NotSameCollateral(u, r, amount)
         /\ amount <= PercentMul(cash[r], MaxStableRateBorrowSizePercent)
    /\ SiloedBorrowingAllows(u, r)

\* sender repays for onBehalfOf; MAX_UINT asks for the whole debt.
ValidateRepay(sender, onBehalfOf, r, amountSent, mode) ==
    /\ amountSent # 0
    /\ amountSent # MAX_UINT \/ sender = onBehalfOf
    /\ ActiveAndUnpaused(r)
    /\ \/ mode = "STABLE" /\ stableDebt[onBehalfOf][r] # 0
       \/ mode = "VARIABLE" /\ VariableDebt(onBehalfOf, r) # 0

ValidateSwapRateMode(u, r, currentMode) ==
    /\ ActiveAndUnpaused(r)
    /\ ~config[r].frozen
    /\ \/ currentMode = "STABLE" /\ stableDebt[u][r] # 0
       \/ /\ currentMode = "VARIABLE"
          /\ VariableDebt(u, r) # 0
          /\ config[r].stableRateBorrowingEnabled
          /\ NotSameCollateral(u, r, UserDebt(u, r))

\* Mutant: the debts of the user are not looked at.
ValidateCategoryOnly(u, categoryId) ==
    categoryId # 0 => eModeCategories[categoryId].liquidationThreshold # 0

ValidateSetUserEMode(u, categoryId) ==
    categoryId # 0 =>
        /\ eModeCategories[categoryId].liquidationThreshold # 0
        /\ \A r \in borrowing[u] : config[r].eModeCategory = categoryId

\* Mutants of the next definition: a paused collateral is not refused; the sentinel
\* is not asked.
ValidateLiquidationOfDebt(user, collateral, debtAsset) ==
    /\ ActiveAndUnpaused(debtAsset)
    /\ \/ SentinelAllows
       \/ HealthFactor(user) < MINIMUM_HEALTH_FACTOR_LIQUIDATION_THRESHOLD
    /\ HealthFactor(user) < HEALTH_FACTOR_LIQUIDATION_THRESHOLD
    /\ config[collateral].liquidationThreshold # 0
    /\ collateral \in usingAsCollateral[user]
    /\ UserDebt(user, debtAsset) # 0
ValidateLiquidationUnsupervised(user, collateral, debtAsset) ==
    /\ ActiveAndUnpaused(collateral)
    /\ ActiveAndUnpaused(debtAsset)
    /\ HealthFactor(user) < HEALTH_FACTOR_LIQUIDATION_THRESHOLD
    /\ config[collateral].liquidationThreshold # 0
    /\ collateral \in usingAsCollateral[user]
    /\ UserDebt(user, debtAsset) # 0

ValidateLiquidationCall(user, collateral, debtAsset) ==
    /\ ActiveAndUnpaused(collateral)
    /\ ActiveAndUnpaused(debtAsset)
    /\ \/ SentinelAllows
       \/ HealthFactor(user) < MINIMUM_HEALTH_FACTOR_LIQUIDATION_THRESHOLD
    /\ HealthFactor(user) < HEALTH_FACTOR_LIQUIDATION_THRESHOLD
    /\ config[collateral].liquidationThreshold # 0
    /\ collateral \in usingAsCollateral[user]
    /\ UserDebt(user, debtAsset) # 0
===============================================================================
