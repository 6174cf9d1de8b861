---------------------------- MODULE PoolConfigurator ----------------------------
(***************************************************************************)
(* The calls of pool/PoolConfigurator.sol by which the risk, emergency and *)
(* pool admins change reserves and eMode categories in use, as one action  *)
(* each.  Who holds which role is not modelled: an action may happen when  *)
(* ConfigCalls, the calls the admins of an instance make, names it.        *)
(* Listing and dropping reserves, token upgrades and the parameters the    *)
(* pool's position logic does not read (reserve factor, flash-loan flag    *)
(* and premiums, unbacked mint cap, rate strategy) are left out.           *)
(***************************************************************************)
EXTENDS Pool

CONSTANTS
    ConfigCalls,       \* names of the calls the admins make
    CollateralParams,  \* arguments of configureReserveAsCollateral
    EModeParams,       \* arguments of setEModeCategory
    CapInputs,         \* supply and borrow caps
    CeilingInputs,     \* debt ceilings
    FeeInputs          \* liquidation protocol fees

ASSUME ConfiguratorInputAssumption ==
    /\ CollateralParams \subseteq
         [ltv : Nat, liquidationThreshold : Nat, liquidationBonus : Nat]
    /\ EModeParams \subseteq EModeCategory
    /\ CapInputs \subseteq Nat
    /\ CeilingInputs \subseteq Nat
    /\ FeeInputs \subseteq Nat

\* The bToken supply is zero.
CheckNoSuppliers(r) == \A h \in Holders : BTokenBalance(h, r) = 0

\* Both debt tokens have no supply.
CheckNoBorrowers(r) == \A u \in Users : UserDebt(u, r) = 0

UnchangedButReserves ==
    UNCHANGED <<oracleVars, eModeCategories, indexVars, debtVars, userVars,
                scaledBToken, cash>>

SetReserveBorrowing(r, enabled) ==
    /\ ~enabled => ~config[r].stableRateBorrowingEnabled
    /\ config' = [config EXCEPT ![r].borrowingEnabled = enabled]
    /\ UnchangedButReserves /\ UNCHANGED isolationModeTotalDebt

\* Mutant: the bonus is not looked at.
ConfigureReserveAnyBonus(r, p) ==
    /\ p.ltv <= p.liquidationThreshold
    /\ p.liquidationThreshold = 0 => CheckNoSuppliers(r)
    /\ config' = [config EXCEPT ![r].ltv = p.ltv,
                                ![r].liquidationThreshold = p.liquidationThreshold,
                                ![r].liquidationBonus = p.liquidationBonus]
    /\ UnchangedButReserves /\ UNCHANGED isolationModeTotalDebt

ConfigureReserveAsCollateral(r, p) ==
    /\ CollateralParamsAllowed(p)
    /\ p.liquidationThreshold = 0 => CheckNoSuppliers(r)
    /\ config' = [config EXCEPT ![r].ltv = p.ltv,
                                ![r].liquidationThreshold = p.liquidationThreshold,
                                ![r].liquidationBonus = p.liquidationBonus]
    /\ UnchangedButReserves /\ UNCHANGED isolationModeTotalDebt

SetReserveStableRateBorrowing(r, enabled) ==
    /\ enabled => config[r].borrowingEnabled
    /\ config' = [config EXCEPT ![r].stableRateBorrowingEnabled = enabled]
    /\ UnchangedButReserves /\ UNCHANGED isolationModeTotalDebt

\* Mutant: suppliers are not looked for.
SetReserveActiveAnyway(r, active) ==
    /\ config' = [config EXCEPT ![r].active = active]
    /\ UnchangedButReserves /\ UNCHANGED isolationModeTotalDebt

SetReserveActive(r, active) ==
    /\ ~active => CheckNoSuppliers(r)
    /\ config' = [config EXCEPT ![r].active = active]
    /\ UnchangedButReserves /\ UNCHANGED isolationModeTotalDebt

SetReserveFreeze(r, freeze) ==
    /\ config' = [config EXCEPT ![r].frozen = freeze]
    /\ UnchangedButReserves /\ UNCHANGED isolationModeTotalDebt

SetBorrowableInIsolation(r, borrowable) ==
    /\ config' = [config EXCEPT ![r].borrowableInIsolation = borrowable]
    /\ UnchangedButReserves /\ UNCHANGED isolationModeTotalDebt

SetReservePause(r, paused) ==
    /\ config' = [config EXCEPT ![r].paused = paused]
    /\ UnchangedButReserves /\ UNCHANGED isolationModeTotalDebt

SetPoolPause(paused) ==
    /\ config' = [r \in Assets |-> [config[r] EXCEPT !.paused = paused]]
    /\ UnchangedButReserves /\ UNCHANGED isolationModeTotalDebt

\* Removing the ceiling forgets the debt counted against it.
SetDebtCeiling(r, newDebtCeiling) ==
    /\ config[r].debtCeiling = 0 => CheckNoSuppliers(r)
    /\ config' = [config EXCEPT ![r].debtCeiling = newDebtCeiling]
    /\ isolationModeTotalDebt' =
         IF newDebtCeiling = 0 THEN [isolationModeTotalDebt EXCEPT ![r] = 0]
         ELSE isolationModeTotalDebt
    /\ UnchangedButReserves

SetSiloedBorrowing(r, newSiloed) ==
    /\ newSiloed => CheckNoBorrowers(r)
    /\ config' = [config EXCEPT ![r].siloedBorrowing = newSiloed]
    /\ UnchangedButReserves /\ UNCHANGED isolationModeTotalDebt

SetBorrowCap(r, newBorrowCap) ==
    /\ config' = [config EXCEPT ![r].borrowCap = newBorrowCap]
    /\ UnchangedButReserves /\ UNCHANGED isolationModeTotalDebt

SetSupplyCap(r, newSupplyCap) ==
    /\ config' = [config EXCEPT ![r].supplyCap = newSupplyCap]
    /\ UnchangedButReserves /\ UNCHANGED isolationModeTotalDebt

SetLiquidationProtocolFee(r, newFee) ==
    /\ newFee <= PERCENTAGE_FACTOR
    /\ config' = [config EXCEPT ![r].liquidationProtocolFee = newFee]
    /\ UnchangedButReserves /\ UNCHANGED isolationModeTotalDebt

\* The category must improve on every asset that belongs to it now.
SetEModeCategory(c, p) ==
    /\ EModeParamsAllowed(p)
    /\ \A r \in Assets : config[r].eModeCategory = c =>
         /\ p.ltv > config[r].ltv
         /\ p.liquidationThreshold > config[r].liquidationThreshold
    /\ eModeCategories' = [eModeCategories EXCEPT ![c] = p]
    /\ UNCHANGED <<oracleVars, config, indexVars, debtVars, userVars, scaledBToken,
                   cash, isolationModeTotalDebt>>

\* Who is in the old or the new category, and with which debts, is not looked at.
SetAssetEModeCategory(r, newCategoryId) ==
    /\ newCategoryId # 0 =>
         eModeCategories[newCategoryId].liquidationThreshold > config[r].liquidationThreshold
    /\ config' = [config EXCEPT ![r].eModeCategory = newCategoryId]
    /\ UnchangedButReserves /\ UNCHANGED isolationModeTotalDebt

-------------------------------------------------------------------------------
RiskAdminNext ==
    \E r \in Assets :
        \/ /\ "configureReserveAsCollateral" \in ConfigCalls
           /\ \E p \in CollateralParams : ConfigureReserveAsCollateral(r, p)
        \/ /\ "setDebtCeiling" \in ConfigCalls
           /\ \E n \in CeilingInputs : SetDebtCeiling(r, n)
        \/ /\ "setBorrowCap" \in ConfigCalls
           /\ \E n \in CapInputs : SetBorrowCap(r, n)
        \/ /\ "setSupplyCap" \in ConfigCalls
           /\ \E n \in CapInputs : SetSupplyCap(r, n)
        \/ /\ "setLiquidationProtocolFee" \in ConfigCalls
           /\ \E n \in FeeInputs : SetLiquidationProtocolFee(r, n)
        \/ /\ "setAssetEModeCategory" \in ConfigCalls
           /\ \E c \in CategoryIds : SetAssetEModeCategory(r, c)

EModeAdminNext ==
    /\ "setEModeCategory" \in ConfigCalls
    /\ \E c \in Categories, p \in EModeParams : SetEModeCategory(c, p)

SwitchNext ==
    \E r \in Assets, on \in BOOLEAN :
        \/ "setReserveBorrowing" \in ConfigCalls /\ SetReserveBorrowing(r, on)
        \/ /\ "setReserveStableRateBorrowing" \in ConfigCalls
           /\ SetReserveStableRateBorrowing(r, on)
        \/ "setReserveActive" \in ConfigCalls /\ SetReserveActive(r, on)
        \/ "setReserveFreeze" \in ConfigCalls /\ SetReserveFreeze(r, on)
        \/ /\ "setBorrowableInIsolation" \in ConfigCalls
           /\ SetBorrowableInIsolation(r, on)
        \/ "setReservePause" \in ConfigCalls /\ SetReservePause(r, on)
        \/ "setPoolPause" \in ConfigCalls /\ SetPoolPause(on)
        \/ "setSiloedBorrowing" \in ConfigCalls /\ SetSiloedBorrowing(r, on)

ConfiguratorNext == RiskAdminNext \/ EModeAdminNext \/ SwitchNext
===============================================================================
