-------------------------- MODULE LendingAccountProofs --------------------------
(***************************************************************************)
(* Positions: what account data is worth, what a liquidation may take, and *)
(* which calls can make a position liquidatable, with the proofs of        *)
(* OutageProtectsBorrowers, LiquidationWithinBonus and HealthPreserved.    *)
(*                                                                         *)
(* Account data are sums over the assets of a position.  A liquidation     *)
(* computes what it seizes from what it repays, or the other way round     *)
(* when the balance is too small; the balances move by the amounts it      *)
(* computed as long as an index is one ray, and no other call lets the     *)
(* debt of one asset and the bTokens of another go down together.          *)
(*                                                                         *)
(* A call either moves each term of the two sums that health compares in   *)
(* the safe direction, or has the health factor checked behind it, or is a *)
(* loan, a repayment with bTokens or the entry into a category, for which  *)
(* the terms are compared one by one.                                      *)
(***************************************************************************)
EXTENDS LendingLedgerProofs

-------------------------------------------------------------------------------
(* Account data.                                                           *)

CollateralValues(u) == [r \in CollateralAssets(u) |-> CollateralValue(u, r)]
DebtValues(u) == [r \in borrowing[u] |-> InBaseCurrency(u, r, UserDebt(u, r))]
ThresholdValues(u) ==
    [r \in CollateralAssets(u) |-> CollateralValue(u, r) * LiquidationThresholdOf(u, r)]

LEMMA CollateralIsSum ==
    ASSUME NEW u, IsFiniteSet(CollateralAssets(u))
    PROVE  TotalCollateralInBaseCurrency(u) = Sum(CollateralValues(u), CollateralAssets(u))
<1>. DEFINE S == CollateralAssets(u)
            f == CollateralValues(u)
            P(it) == it = [s \in SUBSET S |->
                       IF s = {} THEN 0 ELSE CollateralValue(u, Pick(s)) + it[s \ {Pick(s)}]]
            jt == CHOOSE it : P(it)
<1>1. \A it : \A s \in SUBSET S :
        Added(f, it, s) = IF s = {} THEN 0 ELSE CollateralValue(u, Pick(s)) + it[s \ {Pick(s)}]
  BY DEF Added, CollateralValues, Pick
<1>2. TotalCollateralInBaseCurrency(u) = jt[S]
  BY DEF TotalCollateralInBaseCurrency, MapThenSumSet, MapThenFoldSet, Pick
<1>. HIDE DEF S, f
<1>3. \A it : P(it) <=> AddsParts(it, f, S)
  BY <1>1 DEF AddsParts, Adds
<1>4. \E it : AddsParts(it, f, S)
  BY SumsExist DEF S
<1>. HIDE DEF P
<1>5. AddsParts(jt, f, S)
  BY <1>3, <1>4
<1>. HIDE DEF jt
<1>6. Sum(f, S) = jt[S]
  BY <1>5, SumValue DEF S
<1>. QED
  BY <1>2, <1>6 DEF S, f

LEMMA DebtIsSum ==
    ASSUME NEW u, IsFiniteSet(borrowing[u])
    PROVE  TotalDebtInBaseCurrency(u) = Sum(DebtValues(u), borrowing[u])
<1>. DEFINE S == borrowing[u]
            f == DebtValues(u)
            V(r) == InBaseCurrency(u, r, UserDebt(u, r))
            P(it) == it = [s \in SUBSET S |->
                       IF s = {} THEN 0 ELSE V(Pick(s)) + it[s \ {Pick(s)}]]
            jt == CHOOSE it : P(it)
<1>1. \A it : \A s \in SUBSET S :
        Added(f, it, s) = IF s = {} THEN 0 ELSE V(Pick(s)) + it[s \ {Pick(s)}]
  BY DEF Added, DebtValues, Pick
<1>2. TotalDebtInBaseCurrency(u) = jt[S]
  BY DEF TotalDebtInBaseCurrency, MapThenSumSet, MapThenFoldSet, Pick
<1>. HIDE DEF S, f, V
<1>3. \A it : P(it) <=> AddsParts(it, f, S)
  BY <1>1 DEF AddsParts, Adds
<1>4. \E it : AddsParts(it, f, S)
  BY SumsExist DEF S
<1>. HIDE DEF P
<1>5. AddsParts(jt, f, S)
  BY <1>3, <1>4
<1>. HIDE DEF jt
<1>6. Sum(f, S) = jt[S]
  BY <1>5, SumValue DEF S
<1>. QED
  BY <1>2, <1>6 DEF S, f

\* The sum whose quotient is the average liquidation threshold.
LEMMA ThresholdIsSum ==
    ASSUME NEW u, IsFiniteSet(CollateralAssets(u))
    PROVE  AvgLiquidationThreshold(u) =
             IF TotalCollateralInBaseCurrency(u) = 0 THEN 0
             ELSE Sum(ThresholdValues(u), CollateralAssets(u)) \div TotalCollateralInBaseCurrency(u)
<1>. DEFINE S == CollateralAssets(u)
            f == ThresholdValues(u)
            V(r) == CollateralValue(u, r) * LiquidationThresholdOf(u, r)
            P(it) == it = [s \in SUBSET S |->
                       IF s = {} THEN 0 ELSE V(Pick(s)) + it[s \ {Pick(s)}]]
            jt == CHOOSE it : P(it)
<1>1. \A it : \A s \in SUBSET S :
        Added(f, it, s) = IF s = {} THEN 0 ELSE V(Pick(s)) + it[s \ {Pick(s)}]
  BY DEF Added, ThresholdValues, Pick
<1>2. AvgLiquidationThreshold(u) =
        IF TotalCollateralInBaseCurrency(u) = 0 THEN 0
        ELSE jt[S] \div TotalCollateralInBaseCurrency(u)
  BY DEF AvgLiquidationThreshold, WeightedAverage, MapThenSumSet, MapThenFoldSet, Pick
<1>. HIDE DEF S, f, V
<1>3. \A it : P(it) <=> AddsParts(it, f, S)
  BY <1>1 DEF AddsParts, Adds
<1>4. \E it : AddsParts(it, f, S)
  BY SumsExist DEF S
<1>. HIDE DEF P
<1>5. AddsParts(jt, f, S)
  BY <1>3, <1>4
<1>. HIDE DEF jt
<1>6. Sum(f, S) = jt[S]
  BY <1>5, SumValue DEF S
<1>. QED
  BY <1>2, <1>6 DEF S, f

LEMMA PositionTypes ==
    ASSUME TypeOK, NEW u \in Users
    PROVE  /\ CollateralAssets(u) \subseteq Assets /\ IsFiniteSet(CollateralAssets(u))
           /\ borrowing[u] \subseteq Assets /\ IsFiniteSet(borrowing[u])
           /\ \A r \in Assets, n \in Nat : InBaseCurrency(u, r, n) \in Nat
           /\ \A r \in Assets : /\ CollateralValue(u, r) \in Nat
                                /\ LiquidationThresholdOf(u, r) \in Nat
<1>1. /\ CollateralAssets(u) \subseteq Assets
      /\ borrowing[u] \subseteq Assets
  BY DEF TypeOK, CollateralAssets
<1>2. IsFiniteSet(CollateralAssets(u)) /\ IsFiniteSet(borrowing[u])
  BY <1>1, PoolAssumption, FS_Subset
<1>3. ASSUME NEW r \in Assets, NEW n \in Nat PROVE InBaseCurrency(u, r, n) \in Nat
  <2>1. price[PriceSourceOf(u, r)] \in Nat \ {0} /\ AssetUnit[r] \in Nat \ {0}
    BY PriceSourceType, PoolAssumption DEF TypeOK
  <2>. QED
    BY <2>1, TimesNat, DivBounds DEF InBaseCurrency
<1>4. ASSUME NEW r \in Assets PROVE CollateralValue(u, r) \in Nat
  BY <1>3, BTokenBalanceNat DEF CollateralValue, Holders
<1>5. ASSUME NEW r \in Assets PROVE LiquidationThresholdOf(u, r) \in Nat
  <2>1. config[r].liquidationThreshold \in Nat
    BY DEF TypeOK, ReserveConfig
  <2>2. InEModeCategory(u, r) => eModeCategories[eMode[u]] \in EModeCategory
    BY DEF TypeOK, InEModeCategory, CategoryIds
  <2>. QED
    BY <2>1, <2>2 DEF LiquidationThresholdOf, EModeCategory
<1>. QED
  BY <1>1, <1>2, <1>3, <1>4, <1>5

LEMMA AccountDataNat ==
    ASSUME TypeOK, NEW u \in Users
    PROVE  /\ TotalCollateralInBaseCurrency(u) \in Nat
           /\ TotalDebtInBaseCurrency(u) \in Nat
           /\ AvgLiquidationThreshold(u) \in Nat
           /\ HealthFactor(u) \in Nat
<1>. DEFINE S == CollateralAssets(u)
<1>0. S \subseteq Assets /\ IsFiniteSet(S) /\ borrowing[u] \subseteq Assets /\ IsFiniteSet(borrowing[u])
  BY PositionTypes
<1>1. TotalCollateralInBaseCurrency(u) \in Nat
  <2>1. \A r \in S : CollateralValues(u)[r] \in Nat
    BY <1>0, PositionTypes DEF CollateralValues
  <2>. QED
    BY <1>0, <2>1, SumNat, CollateralIsSum
<1>2. TotalDebtInBaseCurrency(u) \in Nat
  <2>1. \A r \in borrowing[u] : DebtValues(u)[r] \in Nat
    <3>1. \A r \in Assets : UserDebt(u, r) \in Nat
      BY DebtNat
    <3>. QED
      BY <1>0, <3>1, PositionTypes DEF DebtValues
  <2>. QED
    BY <1>0, <2>1, SumNat, DebtIsSum
<1>3. AvgLiquidationThreshold(u) \in Nat
  <2>1. \A r \in S : ThresholdValues(u)[r] \in Nat
    BY <1>0, PositionTypes, TimesNat DEF ThresholdValues
  <2>2. Sum(ThresholdValues(u), S) \in Nat
    BY <1>0, <2>1, SumNat
  <2>. QED
    BY <1>0, <1>1, <2>2, DivBounds, ThresholdIsSum
<1>4. HealthFactor(u) \in Nat
  <2>1. MAX_UINT \in Nat
    BY PoolAssumption
  <2>2. PercentMul(TotalCollateralInBaseCurrency(u), AvgLiquidationThreshold(u)) \in Nat
    BY <1>1, <1>3, PercentMulNat
  <2>3. TotalDebtInBaseCurrency(u) # 0 =>
          WadDiv(PercentMul(TotalCollateralInBaseCurrency(u), AvgLiquidationThreshold(u)),
                 TotalDebtInBaseCurrency(u)) \in Nat
    BY <1>2, <2>2, WadDivNat
  <2>. QED
    BY <2>1, <2>3 DEF HealthFactor
<1>. QED
  BY <1>1, <1>2, <1>3, <1>4

-------------------------------------------------------------------------------
(* Outages of the sequencer.                                               *)

LEMMA DebtNatNext ==
    ASSUME TypeOK', NEW u \in Users, NEW r \in Assets
    PROVE  UserDebt(u, r)' \in Nat
<1>1. /\ scaledDebt'[u][r] \in Nat /\ stableDebt'[u][r] \in Nat
      /\ variableBorrowIndex'[r] \in Nat
  BY DEF TypeOK
<1>2. RayMul(scaledDebt'[u][r], variableBorrowIndex'[r]) \in Nat
  BY <1>1, RayMulNat
<1>. QED
  BY <1>1, <1>2 DEF UserDebt, VariableDebt

\* Debts that shrink in scaled units do not grow in amounts.
LEMMA ShrinkingDebts ==
    ASSUME TypeOK, TypeOK', UNCHANGED indexVars, NEW u \in Users, NEW r \in Assets,
           DebtsOfShrink(r)
    PROVE  UserDebt(u, r)' <= UserDebt(u, r)
<1>1. /\ variableBorrowIndex'[r] = variableBorrowIndex[r] /\ variableBorrowIndex[r] \in Nat
      /\ scaledDebt[u][r] \in Nat /\ scaledDebt'[u][r] \in Nat
      /\ stableDebt[u][r] \in Nat /\ stableDebt'[u][r] \in Nat
  BY IndexType DEF indexVars, TypeOK
<1>2. scaledDebt'[u][r] <= scaledDebt[u][r] /\ stableDebt'[u][r] <= stableDebt[u][r]
  BY DEF DebtsOfShrink
<1>3. /\ RayMul(scaledDebt'[u][r], variableBorrowIndex[r])
           <= RayMul(scaledDebt[u][r], variableBorrowIndex[r])
      /\ RayMul(scaledDebt'[u][r], variableBorrowIndex[r]) \in Nat
      /\ RayMul(scaledDebt[u][r], variableBorrowIndex[r]) \in Nat
  BY <1>1, <1>2, RayMulMonotone, RayMulNat
<1>. QED
  BY <1>1, <1>2, <1>3 DEF UserDebt, VariableDebt

\* A swap of the rate mode keeps the debt, while no interest has accrued; at other
\* indexes the new variable debt is rounded.
LEMMA SwapKeepsDebt ==
    ASSUME TypeOK, UnitIndexes, TypeOK', UnitIndexes', NEW v \in Users, NEW a \in Assets,
           NEW mode \in RateModes, SwapBorrowRateMode(v, a, mode),
           NEW u \in Users, NEW r \in Assets
    PROVE  UserDebt(u, r)' = UserDebt(u, r)
<1>1. /\ scaledDebt \in [Users -> [Assets -> Nat]]
      /\ stableDebt \in [Users -> [Assets -> Nat]]
      /\ \A n \in Nat : DebtScaled(a, n) = n
      /\ VariableDebt(v, a) = scaledDebt[v][a]
      /\ scaledDebt[v][a] \in Nat /\ stableDebt[v][a] \in Nat
      /\ scaledDebt[u][r] \in Nat /\ stableDebt[u][r] \in Nat
  BY LedgerTypes, UnitScaled, UnitBalances
<1>2. \/ /\ scaledDebt' = Credit(scaledDebt, v, a, stableDebt[v][a])
         /\ stableDebt' = Debit(stableDebt, v, a, stableDebt[v][a])
      \/ /\ stableDebt' = Credit(stableDebt, v, a, scaledDebt[v][a])
         /\ scaledDebt' = Debit(scaledDebt, v, a, scaledDebt[v][a])
  BY <1>1 DEF SwapBorrowRateMode, BurnStableDebt, MintVariableDebt, BurnVariableDebt,
              MintStableDebt
<1>3. stableDebt'[u][r] + scaledDebt'[u][r] = stableDebt[u][r] + scaledDebt[u][r]
  <2>1. CASE u = v /\ r = a
    BY <1>1, <1>2, <2>1 DEF Credit, Debit
  <2>2. CASE u # v \/ r # a
    <3>1. scaledDebt'[u][r] = scaledDebt[u][r] /\ stableDebt'[u][r] = stableDebt[u][r]
      BY <1>1, <1>2, <2>2 DEF Credit, Debit
    <3>. QED
      BY <1>1, <3>1
  <2>. QED
    BY <2>1, <2>2
<1>4. UserDebt(u, r) = stableDebt[u][r] + scaledDebt[u][r]
  BY UnitBalances
<1>5. UserDebt(u, r)' = stableDebt'[u][r] + scaledDebt'[u][r]
  <2>1. variableBorrowIndex'[r] = RAY /\ scaledDebt'[u][r] \in Nat
    BY DEF UnitIndexes, TypeOK
  <2>. QED
    BY <2>1, UnitRay DEF UserDebt, VariableDebt
<1>. QED
  BY <1>3, <1>4, <1>5

LEMMA OutageDebts ==
    ASSUME TypeOK, ParametersValid, UnitIndexes, TypeOK', UnitIndexes', UNCHANGED indexVars,
           ~SentinelAllows, UserNext, NEW u \in Users, NEW r \in Assets
    PROVE  UserDebt(u, r)' <= UserDebt(u, r)
<1>1. CASE ~EntersReserve(r)
  BY <1>1, OthersShrink, ShrinkingDebts
<1>2. ASSUME NEW v \in Users, NEW w \in Users, NEW n \in Nat, Supply(v, w, r, n)
      PROVE  UserDebt(u, r)' <= UserDebt(u, r)
  BY <1>2, DebtsStay, ShrinkingDebts DEF Supply
<1>3. ASSUME NEW v \in Users, NEW n \in Nat, NEW mode \in RateModes, Borrow(v, r, n, mode)
      PROVE  FALSE
  BY <1>3 DEF Borrow, ValidateBorrow
<1>4. ASSUME NEW v \in Users, NEW mode \in RateModes, SwapBorrowRateMode(v, r, mode)
      PROVE  UserDebt(u, r)' <= UserDebt(u, r)
  BY <1>4, SwapKeepsDebt, DebtNat
<1>. QED
  BY <1>1, <1>2, <1>3, <1>4 DEF EntersReserve

\* Only a repayment with bTokens and a liquidation move bTokens and debts.
LEMMA MovesOneLedger ==
    ASSUME UserNext
    PROVE  \/ UNCHANGED debtVars \/ UNCHANGED scaledBToken
           \/ \E v \in Users, a \in Assets, n \in Nat, mode \in RateModes :
                RepayWithBTokens(v, a, n, mode)
           \/ \E l, v \in Users, a, e \in Assets, n \in Nat, receive \in BOOLEAN :
                LiquidationCall(l, v, a, e, n, receive)
<1>. USE AmountsNat DEF AmountType
<1>1. PICK v \in Users, a \in Assets :
      \/ \E w \in Users, n \in Nat : Supply(v, w, a, n) \/ Transfer(v, w, a, n)
      \/ \E n \in Nat : Withdraw(v, a, n)
      \/ \E use \in BOOLEAN : SetUserUseReserveAsCollateral(v, a, use)
      \/ \E mode \in RateModes, n \in Nat :
           \/ Borrow(v, a, n, mode)
           \/ \E w \in Users : Repay(v, w, a, n, mode)
           \/ RepayWithBTokens(v, a, n, mode)
      \/ \E mode \in RateModes : SwapBorrowRateMode(v, a, mode)
      \/ \E w \in Users, e \in Assets, n \in Nat, receive \in BOOLEAN :
           LiquidationCall(v, w, a, e, n, receive)
  BY DEF UserNext
<1>2. ASSUME NEW w, NEW n, NEW use,
             \/ Supply(v, w, a, n) \/ Transfer(v, w, a, n) \/ Withdraw(v, a, n)
             \/ SetUserUseReserveAsCollateral(v, a, use)
      PROVE  UNCHANGED debtVars
  BY <1>2 DEF Supply, Transfer, Withdraw, SetUserUseReserveAsCollateral
<1>3. ASSUME NEW w, NEW n, NEW mode,
             \/ Borrow(v, a, n, mode) \/ Repay(v, w, a, n, mode)
             \/ SwapBorrowRateMode(v, a, mode)
      PROVE  UNCHANGED scaledBToken
  BY <1>3 DEF Borrow, Repay, SwapBorrowRateMode
<1>. QED
  BY <1>1, <1>2, <1>3

\* Nobody loses collateral by repaying, but the bTokens of the reserve repaid with them;
\* a liquidation needs a health factor below 0.95.
LEMMA OutageCollateral ==
    ASSUME TypeOK, ParametersValid, UNCHANGED indexVars, ~SentinelAllows, UserNext,
           NEW u \in Users, HealthFactor(u) >= MINIMUM_HEALTH_FACTOR_LIQUIDATION_THRESHOLD,
           NEW c \in Assets, NEW d \in Assets, c # d
    PROVE  \/ UserDebt(u, d)' = UserDebt(u, d)
           \/ BTokenBalance(u, c)' = BTokenBalance(u, c)
<1>. USE AmountsNat DEF AmountType
<1>0. /\ scaledBToken \in [Holders -> [Assets -> Nat]]
      /\ scaledDebt \in [Users -> [Assets -> Nat]]
      /\ stableDebt \in [Users -> [Assets -> Nat]]
      /\ u \in Holders
  BY LedgerTypes
<1>a. ASSUME scaledBToken'[u][c] = scaledBToken[u][c]
      PROVE  BTokenBalance(u, c)' = BTokenBalance(u, c)
  BY <1>a DEF BTokenBalance, indexVars
<1>b. ASSUME scaledDebt'[u][d] = scaledDebt[u][d], stableDebt'[u][d] = stableDebt[u][d]
      PROVE  UserDebt(u, d)' = UserDebt(u, d)
  BY <1>b DEF UserDebt, VariableDebt, indexVars
<1>1. CASE UNCHANGED debtVars
  BY <1>1, <1>b DEF debtVars
<1>2. CASE UNCHANGED scaledBToken
  BY <1>2, <1>a
<1>3. ASSUME NEW v \in Users, NEW a \in Assets, NEW n, NEW mode, RepayWithBTokens(v, a, n, mode)
      PROVE  \/ UserDebt(u, d)' = UserDebt(u, d)
             \/ BTokenBalance(u, c)' = BTokenBalance(u, c)
  <2>1. PICK m : BurnDebt(v, a, m, mode) /\ BurnBToken(v, a, m)
    BY <1>3 DEF RepayWithBTokens, RepayDebt
  <2>2. CASE a # d
    BY <1>b, <2>1, <2>2, BurnDebtColumn
  <2>3. CASE a # c
    <3>1. v \in Holders
      BY LedgerTypes
    <3>2. SameColumn(Holders, scaledBToken, scaledBToken', c)
      BY <1>0, <2>1, <2>3, <3>1, OtherColumn DEF BurnBToken
    <3>. QED
      BY <1>0, <1>a, <3>2 DEF SameColumn
  <2>. QED
    BY <2>2, <2>3
<1>4. ASSUME NEW l \in Users, NEW v \in Users, NEW a \in Assets, NEW e \in Assets, NEW n \in Nat,
             NEW receive \in BOOLEAN, LiquidationCall(l, v, a, e, n, receive)
      PROVE  UserDebt(u, d)' = UserDebt(u, d)
  <2>. DEFINE amounts == CollateralToLiquidate(v, a, e, DebtToLiquidate(v, e, n))
  <2>1. v # u
    <3>1. HealthFactor(v) < MINIMUM_HEALTH_FACTOR_LIQUIDATION_THRESHOLD
      BY <1>4 DEF LiquidationCall, ValidateLiquidationCall
    <3>2. MINIMUM_HEALTH_FACTOR_LIQUIDATION_THRESHOLD \in Nat
      BY MathAssumption, TimesNat, DivBounds DEF MINIMUM_HEALTH_FACTOR_LIQUIDATION_THRESHOLD
    <3>. QED
      BY <3>1, <3>2, AccountDataNat
  <2>2. PICK m : BurnDebtTokens(v, e, m)
    BY <1>4 DEF LiquidationCall
  <2>3. PICK k, j : /\ scaledDebt' = scaledDebt \/ scaledDebt' = Debit(scaledDebt, v, e, k)
                    /\ stableDebt' = stableDebt \/ stableDebt' = Debit(stableDebt, v, e, j)
    BY <2>2 DEF BurnDebtTokens, BurnVariableDebt, BurnStableDebt
  <2>. QED
    BY <1>0, <1>b, <2>1, <2>3 DEF Debit
<1>5. \/ UNCHANGED debtVars \/ UNCHANGED scaledBToken
      \/ \E v \in Users, a \in Assets, n \in Nat, mode \in RateModes :
           RepayWithBTokens(v, a, n, mode)
      \/ \E l, v \in Users, a, e \in Assets, n \in Nat, receive \in BOOLEAN :
           LiquidationCall(l, v, a, e, n, receive)
  BY MovesOneLedger
<1>. QED
  BY <1>1, <1>2, <1>3, <1>4, <1>5

\* While the sequencer is down or within its grace period, and as long as no interest
\* accrues, no call makes anybody's debt grow, and whoever has a health factor of 0.95 or
\* more loses no collateral with the debt of another asset.
THEOREM OutageIsSafe == Spec /\ NoInterest => OutageProtectsBorrowers
<1>. DEFINE Protected ==
        \A u \in Users :
            /\ \A r \in Assets : UserDebt(u, r)' <= UserDebt(u, r)
            /\ HealthFactor(u) >= MINIMUM_HEALTH_FACTOR_LIQUIDATION_THRESHOLD =>
                 \A c, d \in Assets :
                    c # d /\ UserDebt(u, d)' < UserDebt(u, d) =>
                      BTokenBalance(u, c)' >= BTokenBalance(u, c)
<1>1. MoneyInvariant /\ MoneyInvariant' /\ [Next]_vars =>
        [SentinelSet /\ ~sentinelUp /\ MarketUnchanged => Protected]_vars
  <2>. SUFFICES ASSUME MoneyInvariant, MoneyInvariant', [Next]_vars,
                       SentinelSet, ~sentinelUp, MarketUnchanged
                PROVE  Protected
    OBVIOUS
  <2>0. /\ TypeOK /\ ParametersValid /\ UnitIndexes /\ TypeOK' /\ UnitIndexes'
        /\ UNCHANGED indexVars /\ ~SentinelAllows
    BY DEF MoneyInvariant, MarketUnchanged, SentinelAllows
  <2>1. \A u \in Users, r \in Assets : /\ UserDebt(u, r) \in Nat /\ UserDebt(u, r)' \in Nat
                                       /\ BTokenBalance(u, r) \in Nat
    BY <2>0, DebtNat, DebtNatNext, BTokenBalanceNat DEF Holders
  <2>2. CASE UserNext
    <3>1. \A u \in Users, r \in Assets : UserDebt(u, r)' <= UserDebt(u, r)
      BY <2>0, <2>2, OutageDebts
    <3>2. ASSUME NEW u \in Users,
                 HealthFactor(u) >= MINIMUM_HEALTH_FACTOR_LIQUIDATION_THRESHOLD,
                 NEW c \in Assets, NEW d \in Assets, c # d, UserDebt(u, d)' < UserDebt(u, d)
          PROVE  BTokenBalance(u, c)' >= BTokenBalance(u, c)
      BY <2>0, <2>1, <2>2, <3>2, OutageCollateral
    <3>. QED
      BY <3>1, <3>2
  <2>3. CASE EnvironmentNext \/ ConfiguratorNext \/ EModeNext \/ UNCHANGED vars
    <3>1. UNCHANGED <<scaledBToken, debtVars>>
      BY <2>0, <2>3, OthersMoveNoMoney
    <3>2. \A u \in Users, r \in Assets : /\ UserDebt(u, r)' = UserDebt(u, r)
                                         /\ BTokenBalance(u, r)' = BTokenBalance(u, r)
      BY <2>0, <3>1 DEF UserDebt, VariableDebt, BTokenBalance, indexVars, debtVars
    <3>. QED
      BY <2>1, <3>2
  <2>. QED
    BY <2>2, <2>3 DEF Next, PoolNext
<1>. QED
  BY <1>1, MoneyAlways, PTL DEF Spec, OutageProtectsBorrowers

-------------------------------------------------------------------------------
(* Liquidations.                                                           *)

LEMMA TimesMonotone ==
    ASSUME NEW a \in Nat, NEW b \in Nat, NEW n \in Nat, a <= b
    PROVE  a * n <= b * n /\ n * a <= n * b
OBVIOUS

\* When the collateral covers what the debt is worth with the bonus on it, two
\* divisions round: once to a unit of the collateral, once to one of its hundredths.
LEMMA SeizedForDebt ==
    ASSUME NEW A \in Nat \ {0}, NEW B \in Nat \ {0}, NEW bonus \in Nat, NEW debt \in Nat
    PROVE  PercentMul((debt * B) \div A, bonus) * A * PERCENTAGE_FACTOR
             <= debt * B * bonus + A * PERCENTAGE_FACTOR
<1>. DEFINE z == (debt * B) \div A
            m == PercentMul(z, bonus)
            F == PERCENTAGE_FACTOR
            h == F \div 2
<1>1. /\ F \in Nat \ {0} /\ h \in Nat /\ h <= F /\ debt * B \in Nat
      /\ z \in Nat /\ A * z <= debt * B
  BY MathAssumption, TimesNat, DivBounds
<1>2. z * bonus \in Nat
  BY <1>1, TimesNat
<1>3. m \in Nat /\ F * m <= z * bonus + h
  BY <1>1, <1>2, DivHalfUpBounds DEF PercentMul
<1>. HIDE DEF z, m, F, h
<1>4. F * m \in Nat /\ F * m <= z * bonus + F
  BY <1>1, <1>2, <1>3, TimesNat
<1>5. (F * m) * A <= (z * bonus + F) * A
  BY <1>1, <1>2, <1>4, TimesMonotone
<1>6. (A * z) * bonus <= (debt * B) * bonus
  <2>1. A * z \in Nat
    BY <1>1, TimesNat
  <2>. QED
    BY <1>1, <2>1, TimesMonotone
<1>7. m * A * F <= debt * B * bonus + A * F
  <2>1. m * A * F = (F * m) * A
    BY <1>1, <1>3
  <2>2. (z * bonus + F) * A = (A * z) * bonus + A * F
    BY <1>1
  <2>3. m * A * F \in Nat /\ (A * z) * bonus \in Nat /\ A * F \in Nat /\ debt * B * bonus \in Nat
    BY <1>1, <1>3, TimesNat
  <2>. QED
    BY <1>5, <1>6, <2>1, <2>2, <2>3
<1>. QED
  BY <1>7 DEF z, m, F

\* When it does not, the debt repaid is what the collateral is worth without the bonus.
LEMMA DebtForSeized ==
    ASSUME NEW A \in Nat \ {0}, NEW B \in Nat \ {0}, NEW bonus \in Nat \ {0},
           NEW balance \in Nat
    PROVE  balance * A * PERCENTAGE_FACTOR
             <= (PercentDiv((balance * A) \div B, bonus) + 1) * B * bonus
                  + B * PERCENTAGE_FACTOR
<1>. DEFINE q == (balance * A) \div B
            p == PercentDiv(q, bonus)
            F == PERCENTAGE_FACTOR
            h == bonus \div 2
<1>1. /\ F \in Nat \ {0} /\ h \in Nat /\ balance * A \in Nat
      /\ q \in Nat /\ balance * A < B * q + B
  BY MathAssumption, TimesNat, DivBounds
<1>2. q * F \in Nat
  BY <1>1, TimesNat
<1>3. p \in Nat /\ q * F + h < bonus * p + bonus
  BY <1>1, <1>2, DivHalfUpBounds DEF PercentDiv
<1>. HIDE DEF q, p, F, h
<1>4. bonus * p \in Nat /\ q * F <= bonus * p + bonus
  BY <1>1, <1>2, <1>3, TimesNat
<1>5. (q * F) * B <= (bonus * p + bonus) * B
  BY <1>1, <1>2, <1>4, TimesMonotone
<1>6. (balance * A) * F <= (B * q + B) * F
  <2>1. B * q \in Nat
    BY <1>1, TimesNat
  <2>. QED
    BY <1>1, <2>1, TimesMonotone
<1>7. balance * A * F <= (p + 1) * B * bonus + B * F
  <2>1. (bonus * p + bonus) * B = (p + 1) * B * bonus
    BY <1>3
  <2>2. (B * q + B) * F = (q * F) * B + B * F
    BY <1>1
  <2>3. /\ balance * A * F \in Nat /\ (q * F) * B \in Nat /\ B * F \in Nat
        /\ (p + 1) * B * bonus \in Nat
    BY <1>1, <1>2, <1>3, TimesNat
  <2>. QED
    BY <1>5, <1>6, <2>1, <2>2, <2>3
<1>. QED
  BY <1>7 DEF q, p, F

\* The statement for one call, for the amounts it computes.
WithinBonus(u, c, d, taken, repaid) ==
    LET priceOfCollateral == price[PriceSourceOf(u, c)] * AssetUnit[d]
        priceOfDebt == price[DebtPriceSource(u, d)] * AssetUnit[c]
        bonus == IF c \in CollateralAssets(u) THEN LiquidationBonusOf(u, c)
                                              ELSE PERCENTAGE_FACTOR
    IN  taken * priceOfCollateral * PERCENTAGE_FACTOR
          <= (repaid + 1) * priceOfDebt * bonus
               + (priceOfCollateral + priceOfDebt) * PERCENTAGE_FACTOR

LEMMA UnitPrices ==
    ASSUME TypeOK, NEW u \in Users, NEW c \in Assets, NEW d \in Assets
    PROVE  /\ price[PriceSourceOf(u, c)] * AssetUnit[d] \in Nat \ {0}
           /\ price[DebtPriceSource(u, d)] * AssetUnit[c] \in Nat \ {0}
<1>1. \A s \in Assets \cup PriceSources : price[s] \in Nat \ {0}
  BY DEF TypeOK
<1>2. AssetUnit[c] \in Nat \ {0} /\ AssetUnit[d] \in Nat \ {0}
  BY PoolAssumption
<1>3. \A m, n \in Nat \ {0} : m * n \in Nat \ {0}
  OBVIOUS
<1>. QED
  BY <1>1, <1>2, <1>3, PriceSourceType

LEMMA AmountsWithinBonus ==
    ASSUME TypeOK, ParametersValid, NEW u \in Users, NEW c \in Assets, NEW d \in Assets,
           NEW debt \in Nat, c \in CollateralAssets(u), NEW taken \in Nat,
           taken <= CollateralToLiquidate(u, c, d, debt).collateral
                      + CollateralToLiquidate(u, c, d, debt).fee
    PROVE  WithinBonus(u, c, d, taken, CollateralToLiquidate(u, c, d, debt).debt)
<1>. DEFINE A == price[PriceSourceOf(u, c)] * AssetUnit[d]
            B == price[DebtPriceSource(u, d)] * AssetUnit[c]
            F == PERCENTAGE_FACTOR
            bonus == LiquidationBonusOf(u, c)
            balance == BTokenBalance(u, c)
            most == PercentMul((debt * B) \div A, bonus)
            needed == PercentDiv((balance * A) \div B, bonus)
            seized == CappedByBalance(most, balance)
            fee == LiquidationFee(c, bonus, seized)
            repaid == IF most > balance THEN needed ELSE debt
<1>1. /\ CollateralToLiquidate(u, c, d, debt).collateral = seized - fee
      /\ CollateralToLiquidate(u, c, d, debt).fee = fee
      /\ CollateralToLiquidate(u, c, d, debt).debt = repaid
  BY DEF CollateralToLiquidate
<1>2. config[c].liquidationThreshold # 0
  BY DEF CollateralAssets
<1>3. A \in Nat \ {0} /\ B \in Nat \ {0} /\ F \in Nat \ {0} /\ balance \in Nat
  BY UnitPrices, MathAssumption, BTokenBalanceNat DEF Holders
<1>4. bonus \in Nat \ {0} /\ bonus > F
  BY <1>2, <1>3, BonusAboveOne
<1>. SUFFICES taken * A * F <= (repaid + 1) * B * bonus + (A + B) * F
  BY <1>1 DEF WithinBonus
<1>. HIDE DEF A, B, F, bonus, balance
<1>5. most \in Nat /\ needed \in Nat
  BY <1>3, <1>4, TimesNat, DivBounds, PercentMulNat, PercentDivNat
<1>6. most * A * F <= debt * B * bonus + A * F
  BY <1>3, <1>4, SeizedForDebt DEF F
<1>7. balance * A * F <= (needed + 1) * B * bonus + B * F
  BY <1>3, <1>4, DebtForSeized DEF F
<1>. HIDE DEF most, needed
<1>8. seized \in Nat
  BY <1>3, <1>5 DEF CappedByBalance
<1>9. fee \in Nat
  BY <1>4, <1>8, LiquidationFeeBound DEF F
<1>10. taken <= seized
  BY <1>1, <1>8, <1>9
<1>11. repaid \in Nat
  BY <1>5
<1>12. seized * A * F <= (repaid + 1) * B * bonus + (A + B) * F
  <2>0. /\ (repaid + 1) * B * bonus = repaid * B * bonus + B * bonus
        /\ (A + B) * F = A * F + B * F
    BY <1>3, <1>4, <1>11
  <2>1. /\ A * F \in Nat /\ B * F \in Nat /\ B * bonus \in Nat /\ repaid * B * bonus \in Nat
    BY <1>3, <1>4, <1>11, TimesNat
  <2>2. CASE most > balance
    <3>1. seized = balance /\ repaid = needed
      BY <2>2 DEF CappedByBalance
    <3>. HIDE DEF seized, repaid
    <3>2. seized * A * F <= (repaid + 1) * B * bonus + B * F
      BY <1>7, <3>1
    <3>3. seized * A * F \in Nat
      BY <1>3, <1>8, TimesNat
    <3>. QED
      BY <2>0, <2>1, <3>2, <3>3
  <2>3. CASE ~(most > balance)
    <3>1. seized = most /\ repaid = debt
      BY <2>3 DEF CappedByBalance
    <3>. HIDE DEF seized, repaid
    <3>2. seized * A * F <= repaid * B * bonus + A * F
      BY <1>6, <3>1
    <3>3. seized * A * F \in Nat
      BY <1>3, <1>8, TimesNat
    <3>. QED
      BY <2>0, <2>1, <3>2, <3>3
  <2>. QED
    BY <2>2, <2>3
<1>. HIDE DEF seized, fee, repaid
<1>13. taken * A * F <= seized * A * F
  <2>1. taken * A <= seized * A /\ taken * A \in Nat /\ seized * A \in Nat
    BY <1>3, <1>8, <1>10, TimesMonotone, TimesNat
  <2>. QED
    BY <1>3, <2>1, TimesMonotone
<1>14. /\ taken * A * F \in Nat /\ seized * A * F \in Nat
       /\ (repaid + 1) * B * bonus \in Nat /\ (A + B) * F \in Nat
  BY <1>3, <1>4, <1>8, <1>11, TimesNat
<1>. QED
  BY <1>12, <1>13, <1>14

\* What a step of a user takes and repays, while no interest accrues.
Taken(u, c) == BTokenBalance(u, c) - BTokenBalance(u, c)'
Repaid(u, d) == UserDebt(u, d) - UserDebt(u, d)'

LEMMA UnitSteps ==
    ASSUME TypeOK, UnitIndexes, TypeOK', UnitIndexes', NEW u \in Users, NEW r \in Assets
    PROVE  /\ Taken(u, r) = scaledBToken[u][r] - scaledBToken'[u][r]
           /\ Repaid(u, r) = (stableDebt[u][r] + scaledDebt[u][r])
                               - (stableDebt'[u][r] + scaledDebt'[u][r])
<1>1. u \in Holders
  BY DEF Holders
<1>2. /\ BTokenBalance(u, r) = scaledBToken[u][r]
      /\ UserDebt(u, r) = stableDebt[u][r] + scaledDebt[u][r]
  BY <1>1, UnitBalances
<1>3. /\ liquidityIndex'[r] = RAY /\ variableBorrowIndex'[r] = RAY
      /\ scaledBToken'[u][r] \in Nat /\ scaledDebt'[u][r] \in Nat
  BY <1>1 DEF UnitIndexes, TypeOK, Holders
<1>4. /\ BTokenBalance(u, r)' = scaledBToken'[u][r]
      /\ UserDebt(u, r)' = stableDebt'[u][r] + scaledDebt'[u][r]
  BY <1>3, UnitRay DEF BTokenBalance, UserDebt, VariableDebt
<1>. QED
  BY <1>2, <1>4 DEF Taken, Repaid

\* A burn of debt repays what is burnt, of the debt it is addressed to.
LEMMA BurntIsRepaid ==
    ASSUME TypeOK, UnitIndexes, TypeOK', UnitIndexes', NEW v \in Users, NEW a \in Assets,
           NEW n \in Nat, NEW mode, BurnDebt(v, a, n, mode) \/ BurnDebtTokens(v, a, n),
           NEW u \in Users, NEW r \in Assets
    PROVE  Repaid(u, r) = IF u = v /\ r = a THEN n ELSE 0
<1>. DEFINE x == scaledDebt[v][a]
<1>1. /\ x \in Nat /\ stableDebt[v][a] \in Nat
      /\ VariableDebt(v, a) = x /\ DebtScaled(a, n) = n /\ DebtScaled(a, x) = x
      /\ scaledDebt \in [Users -> [Assets -> Nat]]
      /\ stableDebt \in [Users -> [Assets -> Nat]]
  BY LedgerTypes, UnitScaled, UnitBalances
<1>2. \E k, m \in Nat :
        /\ k + m = n
        /\ scaledDebt' = Debit(scaledDebt, v, a, k) \/ (k = 0 /\ scaledDebt' = scaledDebt)
        /\ stableDebt' = Debit(stableDebt, v, a, m) \/ (m = 0 /\ stableDebt' = stableDebt)
  <2>. HIDE DEF x
  <2>1. CASE scaledDebt' = Debit(scaledDebt, v, a, n) /\ stableDebt' = stableDebt
    <3>1. n + 0 = n
      OBVIOUS
    <3>. QED
      BY <2>1, <3>1
  <2>2. CASE scaledDebt' = scaledDebt /\ stableDebt' = Debit(stableDebt, v, a, n)
    <3>1. 0 + n = n
      OBVIOUS
    <3>. QED
      BY <2>2, <3>1
  <2>3. CASE /\ x < n
             /\ scaledDebt' = Debit(scaledDebt, v, a, x) \/ (x = 0 /\ scaledDebt' = scaledDebt)
             /\ stableDebt' = Debit(stableDebt, v, a, n - x)
    <3>1. n - x \in Nat /\ x + (n - x) = n
      BY <1>1, <2>3
    <3>. QED
      BY <1>1, <2>3, <3>1
  <2>4. CASE BurnDebt(v, a, n, mode)
    BY <1>1, <2>1, <2>2, <2>4 DEF BurnDebt, BurnVariableDebt, BurnStableDebt
  <2>5. CASE BurnDebtTokens(v, a, n)
    BY <1>1, <2>1, <2>3, <2>5 DEF BurnDebtTokens, BurnVariableDebt, BurnStableDebt
  <2>. QED
    BY <2>4, <2>5
<1>3. PICK k \in Nat, m \in Nat :
        /\ k + m = n
        /\ scaledDebt' = Debit(scaledDebt, v, a, k) \/ (k = 0 /\ scaledDebt' = scaledDebt)
        /\ stableDebt' = Debit(stableDebt, v, a, m) \/ (m = 0 /\ stableDebt' = stableDebt)
  BY <1>2
<1>4. CASE u = v /\ r = a
  <2>1. scaledDebt'[u][r] = scaledDebt[u][r] - k /\ stableDebt'[u][r] = stableDebt[u][r] - m
    BY <1>1, <1>3, <1>4 DEF Debit
  <2>. QED
    BY <1>1, <1>3, <1>4, <2>1, UnitSteps
<1>5. CASE ~(u = v /\ r = a)
  <2>1. scaledDebt'[u][r] = scaledDebt[u][r] /\ stableDebt'[u][r] = stableDebt[u][r]
    BY <1>1, <1>3, <1>5 DEF Debit
  <2>2. scaledDebt[u][r] \in Nat /\ stableDebt[u][r] \in Nat
    BY <1>1
  <2>. QED
    BY <1>5, <2>1, <2>2, UnitSteps
<1>. QED
  BY <1>4, <1>5

\* A seizure takes from the borrower at most the collateral and the fee, and nothing
\* from others.
LEMMA SeizedIsTaken ==
    ASSUME TypeOK, UnitIndexes, TypeOK', UnitIndexes', NEW l \in Users, NEW v \in Users,
           NEW a \in Assets, NEW amounts, amounts.collateral \in Nat, amounts.fee \in Nat,
           NEW receive \in BOOLEAN, SeizeCollateral(l, v, a, amounts, receive),
           NEW u \in Users, NEW c \in Assets, Taken(u, c) > 0
    PROVE  u = v /\ c = a /\ Taken(u, c) <= amounts.collateral + amounts.fee
<1>. DEFINE n == amounts.collateral
            ledger == IF receive THEN Move(scaledBToken, v, l, a, n)
                                 ELSE Debit(scaledBToken, v, a, n)
            fee == AtMost(amounts.fee, ledger[v][a])
<1>1. /\ BTokenScaled(a, amounts.collateral) = n
      /\ BTokenScaled(a, amounts.fee) = amounts.fee
      /\ u \in Holders /\ v \in Holders /\ l \in Holders /\ Treasury \in Holders
      /\ scaledBToken \in [Holders -> [Assets -> Nat]]
  BY UnitScaled, LedgerTypes
<1>2. n \in Nat /\ n <= scaledBToken[v][a]
  BY <1>1 DEF SeizeCollateral
<1>3. scaledBToken' = ledger \/ scaledBToken' = Move(ledger, v, Treasury, a, fee)
  BY <1>1 DEF SeizeCollateral
<1>4. ledger \in [Holders -> [Assets -> Nat]]
  BY <1>1, <1>2, DebitType, MoveType
<1>5. /\ ledger[u][c] >= scaledBToken[u][c] - (IF u = v /\ c = a THEN n ELSE 0)
      /\ ledger[u][c] \in Nat /\ scaledBToken[u][c] \in Nat
  <2>1. scaledBToken[u][c] \in Nat /\ ledger[u][c] \in Nat
    BY <1>1, <1>4
  <2>2. CASE ~receive
    BY <1>1, <1>2, <2>1, <2>2 DEF Debit
  <2>3. CASE receive
    BY <1>1, <1>2, <2>1, <2>3 DEF Move, Debit, Credit
  <2>. QED
    BY <2>1, <2>2, <2>3
<1>6. fee \in Nat /\ fee <= amounts.fee /\ u # Treasury
  <2>. HIDE DEF ledger
  <2>1. ledger[v][a] \in Nat
    BY <1>1, <1>4
  <2>2. u # Treasury
    BY PoolAssumption
  <2>. QED
    BY <2>1, <2>2, AtMostNat
<1>. HIDE DEF ledger, fee, n
<1>7. scaledBToken'[u][c] >= ledger[u][c] - (IF u = v /\ c = a THEN fee ELSE 0)
  <2>1. CASE scaledBToken' = ledger
    BY <1>5, <1>6, <2>1
  <2>2. CASE scaledBToken' = Move(ledger, v, Treasury, a, fee)
    BY <1>1, <1>4, <1>5, <1>6, <2>2 DEF Move, Debit, Credit
  <2>. QED
    BY <1>3, <2>1, <2>2
<1>8. scaledBToken'[u][c] \in Nat
  BY <1>1 DEF TypeOK
<1>9. Taken(u, c) = scaledBToken[u][c] - scaledBToken'[u][c]
  BY UnitSteps
<1>10. u = v /\ c = a
  BY <1>5, <1>7, <1>8, <1>9
<1>. QED
  BY <1>2, <1>5, <1>6, <1>7, <1>8, <1>9, <1>10 DEF n

\* What is not collateral is taken at par, and so is what is repaid with itself: a debt
\* is priced as the bTokens of its own reserve, if it is of the borrower's category.
LEMMA ParWithinBonus ==
    ASSUME TypeOK, ParametersValid, EModeDebtConsistent, NEW u \in Users, NEW r \in Assets,
           r \in borrowing[u], NEW n \in Nat
    PROVE  WithinBonus(u, r, r, n, n)
<1>. DEFINE A == price[PriceSourceOf(u, r)] * AssetUnit[r]
            B == price[DebtPriceSource(u, r)] * AssetUnit[r]
            F == PERCENTAGE_FACTOR
            bonus == IF r \in CollateralAssets(u) THEN LiquidationBonusOf(u, r) ELSE F
<1>1. PriceSourceOf(u, r) = DebtPriceSource(u, r)
  BY DEF EModeDebtConsistent, PriceSourceOf, DebtPriceSource, InEModeCategory, EModePriceSource
<1>2. A = B /\ A \in Nat \ {0} /\ F \in Nat \ {0}
  BY <1>1, UnitPrices, MathAssumption
<1>3. bonus \in Nat /\ bonus >= F
  BY <1>2, BonusAboveOne DEF CollateralAssets
<1>. SUFFICES n * A * F <= (n + 1) * B * bonus + (A + B) * F
  BY DEF WithinBonus
<1>. HIDE DEF A, B, F, bonus
<1>4. n * A \in Nat /\ (n + 1) * A = n * A + A
  BY <1>2, TimesNat
<1>5. (n * A) * F <= (n * A) * bonus
  BY <1>2, <1>3, <1>4, TimesMonotone
<1>6. (n + 1) * A * bonus = n * A * bonus + A * bonus
  BY <1>2, <1>3, <1>4
<1>7. n * A * F \in Nat /\ n * A * bonus \in Nat /\ A * bonus \in Nat /\ (A + A) * F \in Nat
  BY <1>2, <1>3, <1>4, TimesNat
<1>. QED
  BY <1>2, <1>5, <1>6, <1>7

\* A call that takes bTokens and reduces a debt of the same user is a liquidation or a
\* repayment with bTokens.
LEMMA TakesAndRepays ==
    ASSUME MoneyInvariant, MoneyInvariant', UserNext, NEW u \in Users, NEW c \in Assets,
           NEW d \in Assets, Taken(u, c) > 0, Repaid(u, d) > 0
    PROVE  \/ \E n \in Nat, mode \in RateModes :
                c = d /\ RepayWithBTokens(u, c, n, mode)
           \/ \E l \in Users, n \in Nat, receive \in BOOLEAN :
                LiquidationCall(l, u, c, d, n, receive)
<1>. USE AmountsNat DEF AmountType
<1>0. /\ TypeOK /\ ParametersValid /\ UnitIndexes /\ TypeOK' /\ UnitIndexes'
  BY DEF MoneyInvariant
<1>1. /\ scaledBToken[u][c] \in Nat
      /\ scaledDebt[u][d] \in Nat /\ stableDebt[u][d] \in Nat
  BY <1>0, LedgerTypes
<1>2. ~UNCHANGED scaledBToken
  BY <1>0, <1>1, UnitSteps
<1>3. ~UNCHANGED debtVars
  BY <1>0, <1>1, UnitSteps DEF debtVars
<1>4. ASSUME NEW v \in Users, NEW a \in Assets, NEW n \in Nat, NEW mode \in RateModes,
             RepayWithBTokens(v, a, n, mode)
      PROVE  v = u /\ a = c /\ c = d
  <2>1. \A k \in Nat : AtMost(k, DebtInMode(v, a, mode)) \in Nat
    BY <1>0, AtMostNat, DebtInModeNat
  <2>2. BTokenBalance(v, a) \in Nat
    BY <1>0, BTokenBalanceNat DEF Holders
  <2>3. PICK m \in Nat : BurnDebt(v, a, m, mode) /\ BurnBToken(v, a, m)
    BY <1>4, <2>1, <2>2 DEF RepayWithBTokens, RepayDebt
  <2>4. u = v /\ d = a
    BY <1>0, <2>3, BurntIsRepaid
  <2>5. c = a
    <3>1. scaledBToken' = Debit(scaledBToken, v, a, BTokenScaled(a, m))
      BY <2>3 DEF BurnBToken
    <3>2. c # a => scaledBToken'[u][c] = scaledBToken[u][c]
      BY <1>0, <3>1, LedgerTypes DEF Debit
    <3>. QED
      BY <1>0, <1>1, <3>2, UnitSteps
  <2>. QED
    BY <2>4, <2>5
<1>5. ASSUME NEW l \in Users, NEW v \in Users, NEW a \in Assets, NEW e \in Assets, NEW n \in Nat,
             NEW receive \in BOOLEAN, LiquidationCall(l, v, a, e, n, receive)
      PROVE  v = u /\ a = c /\ e = d
  <2>. DEFINE amounts == CollateralToLiquidate(v, a, e, DebtToLiquidate(v, e, n))
  <2>1. amounts.collateral \in Nat /\ amounts.debt \in Nat /\ amounts.fee \in Nat
    <3>1. config[a].liquidationThreshold # 0
      BY <1>5 DEF LiquidationCall, ValidateLiquidationCall
    <3>. QED
      BY <1>0, <3>1, DebtToLiquidateNat, LiquidationAmountsNat
  <2>2. BurnDebtTokens(v, e, amounts.debt) /\ SeizeCollateral(l, v, a, amounts, receive)
    BY <1>5 DEF LiquidationCall
  <2>. HIDE DEF amounts
  <2>3. u = v /\ d = e
    BY <1>0, <2>1, <2>2, BurntIsRepaid
  <2>4. c = a
    BY <1>0, <2>1, <2>2, SeizedIsTaken
  <2>. QED
    BY <2>3, <2>4
<1>6. \/ UNCHANGED debtVars \/ UNCHANGED scaledBToken
      \/ \E v \in Users, a \in Assets, n \in Nat, mode \in RateModes :
           RepayWithBTokens(v, a, n, mode)
      \/ \E l, v \in Users, a, e \in Assets, n \in Nat, receive \in BOOLEAN :
           LiquidationCall(l, v, a, e, n, receive)
  BY MovesOneLedger
<1>. QED
  BY <1>2, <1>3, <1>4, <1>5, <1>6

\* The amounts of such a call.
LEMMA TakenWithinBonus ==
    ASSUME MoneyInvariant, MoneyInvariant', DebtImpliesBorrowFlag, EModeDebtConsistent,
           UserNext, NEW u \in Users, NEW c \in Assets,
           NEW d \in Assets, Taken(u, c) > 0, Repaid(u, d) > 0
    PROVE  WithinBonus(u, c, d, Taken(u, c), Repaid(u, d))
<1>. USE AmountsNat DEF AmountType
<1>0. /\ TypeOK /\ ParametersValid /\ UnitIndexes /\ TypeOK' /\ UnitIndexes'
  BY DEF MoneyInvariant
<1>1. ASSUME NEW n \in Nat, NEW mode \in RateModes, c = d, RepayWithBTokens(u, c, n, mode)
      PROVE  WithinBonus(u, c, d, Taken(u, c), Repaid(u, d))
  <2>1. \A k \in Nat : AtMost(k, DebtInMode(u, c, mode)) \in Nat
    BY <1>0, AtMostNat, DebtInModeNat
  <2>2. BTokenBalance(u, c) \in Nat
    BY <1>0, BTokenBalanceNat DEF Holders
  <2>3. PICK m \in Nat : BurnDebt(u, c, m, mode) /\ BurnBToken(u, c, m)
    BY <1>1, <2>1, <2>2 DEF RepayWithBTokens, RepayDebt
  <2>4. Repaid(u, d) = m
    BY <1>0, <1>1, <2>3, BurntIsRepaid
  <2>5. Taken(u, c) = m
    <3>1. scaledBToken' = Debit(scaledBToken, u, c, m)
      BY <1>0, <2>3, UnitScaled DEF BurnBToken
    <3>2. scaledBToken'[u][c] = scaledBToken[u][c] - m /\ scaledBToken[u][c] \in Nat
      BY <1>0, <3>1, LedgerTypes DEF Debit
    <3>. QED
      BY <1>0, <3>2, UnitSteps
  <2>6. c \in borrowing[u]
    <3>1. stableDebt[u][c] # 0 \/ VariableDebt(u, c) # 0
      BY <1>1 DEF RepayWithBTokens, ValidateRepay
    <3>2. HasDebt(u, c)
      BY <1>0, <3>1, UnitBalances DEF HasDebt
    <3>. QED
      BY <3>2 DEF DebtImpliesBorrowFlag
  <2>. QED
    BY <1>0, <1>1, <2>4, <2>5, <2>6, ParWithinBonus
<1>2. ASSUME NEW l \in Users, NEW n \in Nat, NEW receive \in BOOLEAN,
             LiquidationCall(l, u, c, d, n, receive)
      PROVE  WithinBonus(u, c, d, Taken(u, c), Repaid(u, d))
  <2>. DEFINE debt == DebtToLiquidate(u, d, n)
              amounts == CollateralToLiquidate(u, c, d, debt)
  <2>1. config[c].liquidationThreshold # 0 /\ c \in CollateralAssets(u)
    BY <1>2 DEF LiquidationCall, ValidateLiquidationCall, CollateralAssets
  <2>2. debt \in Nat
    BY <1>0, DebtToLiquidateNat
  <2>3. BurnDebtTokens(u, d, amounts.debt) /\ SeizeCollateral(l, u, c, amounts, receive)
    BY <1>2 DEF LiquidationCall
  <2>. HIDE DEF debt
  <2>4. amounts.collateral \in Nat /\ amounts.debt \in Nat /\ amounts.fee \in Nat
    BY <1>0, <2>1, <2>2, LiquidationAmountsNat
  <2>5. Repaid(u, d) = amounts.debt
    <3>. HIDE DEF amounts
    <3>. QED
      BY <1>0, <2>3, <2>4, BurntIsRepaid
  <2>6. Taken(u, c) <= amounts.collateral + amounts.fee
    <3>. HIDE DEF amounts
    <3>. QED
      BY <1>0, <2>3, <2>4, SeizedIsTaken
  <2>7. Taken(u, c) \in Nat
    <3>1. scaledBToken[u][c] \in Nat /\ scaledBToken'[u][c] \in Nat
      BY <1>0 DEF TypeOK, Holders
    <3>. QED
      BY <1>0, <3>1, UnitSteps
  <2>. QED
    BY <1>0, <2>1, <2>2, <2>5, <2>6, <2>7, AmountsWithinBonus
<1>. QED
  BY <1>1, <1>2, TakesAndRepays

\* As long as no interest accrues and no asset is moved to another category, whatever a
\* call takes from a user while it reduces the user's debt is worth what was repaid and
\* the bonus of the collateral, to the units the conversions round away: a liquidation
\* with a fee, one capped by the balance, and a repayment with bTokens.
THEOREM LiquidationTakesItsBonus ==
    ASSUME "setAssetEModeCategory" \notin ConfigCalls
    PROVE  Spec /\ NoInterest => LiquidationWithinBonus
<1>. DEFINE Inv == MoneyInvariant /\ DebtImpliesBorrowFlag /\ EModeDebtConsistent
            Bounded == \A u \in Users, c, d \in Assets :
                         Taken(u, c) > 0 /\ Repaid(u, d) > 0 =>
                           WithinBonus(u, c, d, Taken(u, c), Repaid(u, d))
<1>1. Inv /\ MoneyInvariant' /\ [Next]_vars => [MarketUnchanged => Bounded]_vars
  <2>. SUFFICES ASSUME Inv, MoneyInvariant', [Next]_vars, MarketUnchanged
                PROVE  Bounded
    OBVIOUS
  <2>0. /\ TypeOK /\ UnitIndexes /\ TypeOK' /\ UnitIndexes' /\ UNCHANGED indexVars
    BY DEF MoneyInvariant, MarketUnchanged
  <2>1. CASE UserNext
    BY <2>1, TakenWithinBonus
  <2>2. CASE EnvironmentNext \/ ConfiguratorNext \/ EModeNext \/ UNCHANGED vars
    <3>1. UNCHANGED scaledBToken
      BY <2>0, <2>2, OthersMoveNoMoney
    <3>2. \A u \in Users, c \in Assets : Taken(u, c) = 0
      BY <2>0, <3>1, UnitSteps, LedgerTypes
    <3>. QED
      BY <3>2
  <2>. QED
    BY <2>1, <2>2 DEF Next, PoolNext
<1>2. [MarketUnchanged => Bounded]_vars => [MarketUnchanged =>
         \A u \in Users, c, d \in Assets :
            LET taken == BTokenBalance(u, c) - BTokenBalance(u, c)'
                repaid == UserDebt(u, d) - UserDebt(u, d)'
                priceOfCollateral == price[PriceSourceOf(u, c)] * AssetUnit[d]
                priceOfDebt == price[DebtPriceSource(u, d)] * AssetUnit[c]
                bonus == IF c \in CollateralAssets(u) THEN LiquidationBonusOf(u, c)
                                                      ELSE PERCENTAGE_FACTOR
            IN  taken > 0 /\ repaid > 0 =>
                  taken * priceOfCollateral * PERCENTAGE_FACTOR
                    <= (repaid + 1) * priceOfDebt * bonus
                         + (priceOfCollateral + priceOfDebt) * PERCENTAGE_FACTOR]_vars
  BY DEF WithinBonus, Taken, Repaid
<1>3. Spec => []DebtImpliesBorrowFlag
  BY EveryDebtHasItsFlag
<1>4. Spec => []EModeDebtConsistent
  BY EModeDebtsInCategory
<1>. QED
  BY <1>1, <1>2, <1>3, <1>4, MoneyAlways, PTL DEF Spec, LiquidationWithinBonus

-------------------------------------------------------------------------------
(* Positions as sums over all assets.                                      *)

DebtParts(u) ==
    [r \in Assets |-> IF r \in borrowing[u] THEN InBaseCurrency(u, r, UserDebt(u, r)) ELSE 0]

CapacityParts(u) ==
    [r \in Assets |-> IF r \in CollateralAssets(u)
                      THEN CollateralValue(u, r) * LiquidationThresholdOf(u, r) ELSE 0]

LEMMA CapacityIsSum ==
    ASSUME NEW u, IsFiniteSet(CollateralAssets(u))
    PROVE  LiquidationCapacity(u) = Sum(ThresholdValues(u), CollateralAssets(u))
<1>. DEFINE S == CollateralAssets(u)
            f == ThresholdValues(u)
            V(r) == CollateralValue(u, r) * LiquidationThresholdOf(u, r)
            P(it) == it = [s \in SUBSET S |->
                       IF s = {} THEN 0 ELSE V(Pick(s)) + it[s \ {Pick(s)}]]
            jt == CHOOSE it : P(it)
<1>1. \A it : \A s \in SUBSET S :
        Added(f, it, s) = IF s = {} THEN 0 ELSE V(Pick(s)) + it[s \ {Pick(s)}]
  BY DEF Added, ThresholdValues, Pick
<1>2. LiquidationCapacity(u) = jt[S]
  BY DEF LiquidationCapacity, MapThenSumSet, MapThenFoldSet, Pick
<1>. HIDE DEF S, f, V
<1>3. \A it : P(it) <=> AddsParts(it, f, S)
  BY <1>1 DEF AddsParts, Adds
<1>4. \E it : AddsParts(it, f, S)
  BY SumsExist DEF S
<1>. HIDE DEF P
<1>5. AddsParts(jt, f, S)
  BY <1>3, <1>4
<1>. HIDE DEF jt
<1>6. Sum(f, S) = jt[S]
  BY <1>5, SumValue DEF S
<1>. QED
  BY <1>2, <1>6 DEF S, f

\* What a position comes to, and that its terms are natural numbers.
PositionIsSums(u) ==
    /\ TotalDebtInBaseCurrency(u) = Sum(DebtParts(u), Assets)
    /\ LiquidationCapacity(u) = Sum(CapacityParts(u), Assets)
    /\ \A r \in Assets : DebtParts(u)[r] \in Nat /\ CapacityParts(u)[r] \in Nat
    /\ TotalDebtInBaseCurrency(u) \in Nat
    /\ LiquidationCapacity(u) \in Nat

LEMMA PositionSums == TypeOK => \A u \in Users : PositionIsSums(u)
<1>. SUFFICES ASSUME TypeOK, NEW u \in Users PROVE PositionIsSums(u)
  OBVIOUS
<1>0. /\ CollateralAssets(u) \in SUBSET Assets /\ IsFiniteSet(CollateralAssets(u))
      /\ borrowing[u] \in SUBSET Assets /\ IsFiniteSet(borrowing[u])
      /\ IsFiniteSet(Assets)
  BY PositionTypes, PoolAssumption
<1>1. \A r \in Assets : DebtParts(u)[r] = IF r \in borrowing[u] THEN DebtValues(u)[r] ELSE 0
  BY DEF DebtParts, DebtValues
<1>2. \A r \in Assets :
        CapacityParts(u)[r] = IF r \in CollateralAssets(u) THEN ThresholdValues(u)[r] ELSE 0
  BY DEF CapacityParts, ThresholdValues
<1>3. \A r \in borrowing[u] : DebtValues(u)[r] \in Nat
  BY <1>0, DebtNat, PositionTypes DEF DebtValues
<1>4. \A r \in CollateralAssets(u) : ThresholdValues(u)[r] \in Nat
  BY <1>0, PositionTypes, TimesNat DEF ThresholdValues
<1>5. Sum(DebtParts(u), Assets) = Sum(DebtValues(u), borrowing[u])
  BY <1>0, <1>1, <1>3, SumPadded
<1>6. Sum(CapacityParts(u), Assets) = Sum(ThresholdValues(u), CollateralAssets(u))
  BY <1>0, <1>2, <1>4, SumPadded
<1>7. Sum(ThresholdValues(u), CollateralAssets(u)) \in Nat
  BY <1>0, <1>4, SumNat
<1>. QED
  BY <1>0, <1>1, <1>2, <1>3, <1>4, <1>5, <1>6, <1>7, DebtIsSum, CapacityIsSum, AccountDataNat
     DEF PositionIsSums

LEMMA PositionSumsNext == TypeOK' => \A u \in Users : PositionIsSums(u)'
<1>1. (TypeOK => \A u \in Users : PositionIsSums(u))'
  BY PositionSums, PTL
<1>. QED
  BY <1>1

-------------------------------------------------------------------------------
(* What a health factor of one means.                                      *)

\* A health factor is rounded to a wad: it tells apart only debts below two of them.
DebtModerate(u) == TotalDebtInBaseCurrency(u) < 2 * WAD

LEMMA HealthyIsCovered ==
    TypeOK => \A u \in Users : DebtModerate(u) /\ HealthFactor(u) >= WAD =>
        TotalDebtInBaseCurrency(u) * PERCENTAGE_FACTOR
          <= LiquidationCapacity(u) + PERCENTAGE_FACTOR
<1>. SUFFICES ASSUME TypeOK, NEW u \in Users, DebtModerate(u), HealthFactor(u) >= WAD
              PROVE  TotalDebtInBaseCurrency(u) * PERCENTAGE_FACTOR
                       <= LiquidationCapacity(u) + PERCENTAGE_FACTOR
  OBVIOUS
<1>. DEFINE D == TotalDebtInBaseCurrency(u)
            c == TotalCollateralInBaseCurrency(u)
            t == AvgLiquidationThreshold(u)
            cap == LiquidationCapacity(u)
            x == PercentMul(c, t)
            F == PERCENTAGE_FACTOR
<1>1. D \in Nat /\ c \in Nat /\ t \in Nat /\ cap \in Nat /\ F \in Nat \ {0} /\ WAD \in Nat \ {0}
  BY AccountDataNat, PositionSums, MathAssumption DEF PositionIsSums
<1>2. c * t <= cap
  <2>1. t = IF c = 0 THEN 0 ELSE cap \div c
    BY PositionTypes, ThresholdIsSum, CapacityIsSum
  <2>. HIDE DEF c, t, cap
  <2>2. CASE c = 0
    BY <1>1, <2>1, <2>2
  <2>3. CASE c # 0
    BY <1>1, <2>1, <2>3, DivBounds
  <2>. QED
    BY <2>2, <2>3
<1>3. CASE D = 0
  <2>. HIDE DEF D, cap, F
  <2>1. D * F = 0
    BY <1>1, <1>3
  <2>2. D * F <= cap + F
    BY <1>1, <2>1
  <2>. QED
    BY <2>2 DEF D, cap, F
<1>4. CASE D # 0
  <2>1. WadDiv(x, D) >= WAD /\ D < 2 * WAD
    BY <1>4 DEF HealthFactor, DebtModerate
  <2>. HIDE DEF D, c, t, cap, F
  <2>2. x \in Nat /\ F * x <= c * t + F \div 2
    BY <1>1, TimesNat, DivHalfUpBounds DEF PercentMul, F
  <2>3. F \div 2 \in Nat /\ F \div 2 <= F
    BY <1>1
  <2>. HIDE DEF x
  <2>4. x * WAD \in Nat /\ D \in Nat \ {0}
    BY <1>1, <1>4, <2>2, TimesNat
  <2>5. WadDiv(x, D) \in Nat /\ D * WadDiv(x, D) <= x * WAD + D \div 2
    BY <2>4, DivHalfUpBounds DEF WadDiv
  <2>6. D \div 2 < WAD /\ D \div 2 \in Nat
    BY <1>1, <2>1
  <2>7. D * WAD <= D * WadDiv(x, D)
    BY <1>1, <2>1, <2>5, TimesMonotone
  <2>8. D * WAD < (x + 1) * WAD
    <3>1. (x + 1) * WAD = x * WAD + WAD
      BY <1>1, <2>2
    <3>2. D * WAD \in Nat /\ D * WadDiv(x, D) \in Nat
      BY <1>1, <2>5, TimesNat
    <3>. QED
      BY <1>1, <2>4, <2>5, <2>6, <2>7, <3>1, <3>2
  <2>9. D <= x
    <3>1. CASE x + 1 <= D
      <4>1. (x + 1) * WAD <= D * WAD
        BY <1>1, <2>2, <3>1, TimesMonotone
      <4>2. (x + 1) * WAD \in Nat /\ D * WAD \in Nat
        BY <1>1, <2>2, TimesNat
      <4>. QED
        BY <2>8, <4>1, <4>2
    <3>. QED
      BY <1>1, <2>2, <3>1
  <2>10. F * D <= F * x
    BY <1>1, <2>2, <2>9, TimesMonotone
  <2>11. F * D = D * F /\ F * D \in Nat /\ F * x \in Nat /\ c * t \in Nat
    BY <1>1, <2>2, TimesNat
  <2>12. D * F <= cap + F
    BY <1>1, <1>2, <2>2, <2>3, <2>10, <2>11
  <2>. QED
    BY <2>12 DEF D, cap, F
<1>. QED
  BY <1>3, <1>4

\* Where an operation ends by validating the health factor.
LEMMA ValidatedIsCovered ==
    TypeOK' => \A u \in Users : (DebtModerate(u) /\ HealthFactor(u) >= WAD => Covered(u))'
<1>1. TypeOK => \A u \in Users : DebtModerate(u) /\ HealthFactor(u) >= WAD => Covered(u)
  <2>. SUFFICES ASSUME TypeOK, NEW u \in Users, DebtModerate(u), HealthFactor(u) >= WAD
                PROVE  Covered(u)
    OBVIOUS
  <2>1. /\ TotalDebtInBaseCurrency(u) \in Nat /\ LiquidationCapacity(u) \in Nat
        /\ PERCENTAGE_FACTOR \in Nat
    BY PositionSums, MathAssumption DEF PositionIsSums
  <2>2. TotalDebtInBaseCurrency(u) * PERCENTAGE_FACTOR \in Nat
    BY <2>1, TimesNat
  <2>. QED
    BY <2>1, <2>2, HealthyIsCovered DEF Covered, RoundingUnits
<1>2. (TypeOK => \A u \in Users : DebtModerate(u) /\ HealthFactor(u) >= WAD => Covered(u))'
  BY <1>1, PTL
<1>. QED
  BY <1>2

-------------------------------------------------------------------------------
(* Steps that move every term in the safe direction.                       *)

DebtPart(u, r) == IF r \in borrowing[u] THEN InBaseCurrency(u, r, UserDebt(u, r)) ELSE 0

CapacityPart(u, r) ==
    IF r \in CollateralAssets(u) THEN CollateralValue(u, r) * LiquidationThresholdOf(u, r) ELSE 0

\* Sums of the state before and of the state after a step.
LEMMA PositionParts ==
    ASSUME TypeOK, TypeOK', NEW u \in Users
    PROVE  /\ PositionIsSums(u) /\ PositionIsSums(u)'
           /\ \A r \in Assets : /\ DebtParts(u)[r] = DebtPart(u, r)
                                /\ CapacityParts(u)[r] = CapacityPart(u, r)
                                /\ DebtParts(u)'[r] = DebtPart(u, r)'
                                /\ CapacityParts(u)'[r] = CapacityPart(u, r)'
                                /\ DebtPart(u, r) \in Nat /\ CapacityPart(u, r) \in Nat
                                /\ DebtPart(u, r)' \in Nat /\ CapacityPart(u, r)' \in Nat
<1>1. PositionIsSums(u) /\ PositionIsSums(u)'
  BY PositionSums, PositionSumsNext
<1>2. ASSUME NEW r \in Assets
      PROVE  /\ DebtParts(u)[r] = DebtPart(u, r)
             /\ CapacityParts(u)[r] = CapacityPart(u, r)
  BY DEF DebtParts, DebtPart, CapacityParts, CapacityPart
<1>3. ASSUME NEW r \in Assets
      PROVE  /\ DebtParts(u)'[r] = DebtPart(u, r)'
             /\ CapacityParts(u)'[r] = CapacityPart(u, r)'
  BY DEF DebtParts, DebtPart, CapacityParts, CapacityPart
<1>. QED
  BY <1>1, <1>2, <1>3 DEF PositionIsSums

LEMMA DivMonotone ==
    ASSUME NEW a \in Nat, NEW b \in Nat, a <= b, NEW n \in Nat \ {0}
    PROVE  a \div n <= b \div n
<1>. DEFINE p == a \div n
            q == b \div n
<1>1. p \in Nat /\ n * p <= a /\ q \in Nat /\ b < n * q + n
  BY DivBounds
<1>. SUFFICES p <= q
  OBVIOUS
<1>. HIDE DEF p, q
<1>2. CASE q + 1 <= p
  <2>1. n * (q + 1) <= n * p
    BY <1>1, <1>2, TimesMonotone
  <2>2. n * (q + 1) = n * q + n /\ n * q \in Nat /\ n * p \in Nat
    BY <1>1, TimesNat
  <2>. QED
    BY <1>1, <2>1, <2>2
<1>. QED
  BY <1>1, <1>2

\* Prices and thresholds of a position are those of the market and of the category.
LEMMA MarketKept ==
    ASSUME MarketUnchanged, NEW u, eMode'[u] = eMode[u], NEW r
    PROVE  /\ price'[PriceSourceOf(u, r)'] = price[PriceSourceOf(u, r)]
           /\ LiquidationThresholdOf(u, r)' = LiquidationThresholdOf(u, r)
           /\ config' = config /\ liquidityIndex' = liquidityIndex
           /\ variableBorrowIndex' = variableBorrowIndex
BY DEF MarketUnchanged, oracleVars, configVars, indexVars, PriceSourceOf, InEModeCategory,
       EModePriceSource, LiquidationThresholdOf

LEMMA ValueMonotone ==
    ASSUME TypeOK, NEW u \in Users, NEW r \in Assets, NEW m \in Nat, NEW n \in Nat, m <= n
    PROVE  (price[PriceSourceOf(u, r)] * m) \div AssetUnit[r]
             <= (price[PriceSourceOf(u, r)] * n) \div AssetUnit[r]
<1>1. price[PriceSourceOf(u, r)] \in Nat /\ AssetUnit[r] \in Nat \ {0}
  BY PriceSourceType, PoolAssumption DEF TypeOK
<1>. DEFINE p == price[PriceSourceOf(u, r)]
<1>. HIDE DEF p
<1>2. p \in Nat /\ p * m \in Nat /\ p * n \in Nat /\ p * m <= p * n
  BY <1>1, TimesNat, TimesMonotone DEF p
<1>. QED
  BY <1>1, <1>2, DivMonotone DEF p

\* The user owes no more of anything and has no less of any collateral.
Steady(u) ==
    /\ borrowing'[u] \subseteq borrowing[u]
    /\ usingAsCollateral[u] \subseteq usingAsCollateral'[u]
    /\ \A r \in Assets : UserDebt(u, r)' <= UserDebt(u, r)
    /\ \A r \in usingAsCollateral[u] : BTokenBalance(u, r)' >= BTokenBalance(u, r)

LEMMA BTokenBalanceNatNext ==
    ASSUME TypeOK', NEW u \in Users, NEW r \in Assets
    PROVE  BTokenBalance(u, r)' \in Nat
<1>1. scaledBToken'[u][r] \in Nat /\ liquidityIndex'[r] \in Nat
  BY DEF TypeOK, Holders
<1>. QED
  BY <1>1, RayMulNat DEF BTokenBalance

LEMMA SteadyParts ==
    ASSUME TypeOK, TypeOK', MarketUnchanged, NEW u \in Users, eMode'[u] = eMode[u], Steady(u),
           NEW r \in Assets
    PROVE  DebtPart(u, r)' <= DebtPart(u, r) /\ CapacityPart(u, r) <= CapacityPart(u, r)'
<1>0. /\ DebtPart(u, r) \in Nat /\ CapacityPart(u, r) \in Nat
      /\ DebtPart(u, r)' \in Nat /\ CapacityPart(u, r)' \in Nat
  BY PositionParts
<1>. DEFINE p == price[PriceSourceOf(u, r)]
            t == LiquidationThresholdOf(u, r)
<1>1. /\ price'[PriceSourceOf(u, r)'] = p /\ LiquidationThresholdOf(u, r)' = t
      /\ config' = config
  BY MarketKept
<1>2. /\ UserDebt(u, r) \in Nat /\ UserDebt(u, r)' \in Nat
      /\ BTokenBalance(u, r) \in Nat /\ BTokenBalance(u, r)' \in Nat
      /\ t \in Nat
  BY DebtNat, DebtNatNext, BTokenBalanceNat, BTokenBalanceNatNext, PositionTypes DEF Holders
<1>3. DebtPart(u, r)' <= DebtPart(u, r)
  <2>1. CASE r \in borrowing'[u]
    <3>1. /\ DebtPart(u, r) = (p * UserDebt(u, r)) \div AssetUnit[r]
          /\ DebtPart(u, r)' = (p * UserDebt(u, r)') \div AssetUnit[r]
      BY <1>1, <2>1 DEF DebtPart, InBaseCurrency, Steady
    <3>. QED
      BY <1>2, <3>1, ValueMonotone DEF Steady
  <2>2. CASE r \notin borrowing'[u]
    <3>1. DebtPart(u, r)' = 0
      BY <2>2 DEF DebtPart
    <3>. QED
      BY <1>0, <3>1
  <2>. QED
    BY <2>1, <2>2
<1>4. CapacityPart(u, r) <= CapacityPart(u, r)'
  <2>1. CASE r \in CollateralAssets(u)
    <3>1. r \in CollateralAssets(u)' /\ r \in usingAsCollateral[u]
      BY <1>1, <2>1 DEF CollateralAssets, Steady
    <3>. DEFINE v == (p * BTokenBalance(u, r)) \div AssetUnit[r]
                w == (p * BTokenBalance(u, r)') \div AssetUnit[r]
    <3>2. CapacityPart(u, r) = v * t /\ CapacityPart(u, r)' = w * t
      BY <1>1, <2>1, <3>1 DEF CapacityPart, CollateralValue, InBaseCurrency
    <3>3. v <= w
      BY <1>2, <3>1, ValueMonotone DEF Steady
    <3>4. v \in Nat /\ w \in Nat
      <4>1. p \in Nat /\ AssetUnit[r] \in Nat \ {0}
        BY PriceSourceType, PoolAssumption DEF TypeOK
      <4>. HIDE DEF p
      <4>. QED
        BY <1>2, <4>1, TimesNat, DivBounds
    <3>. HIDE DEF v, w, t
    <3>. QED
      BY <1>2, <3>2, <3>3, <3>4, TimesMonotone
  <2>2. CASE r \notin CollateralAssets(u)
    <3>1. CapacityPart(u, r) = 0
      BY <2>2 DEF CapacityPart
    <3>. QED
      BY <1>0, <3>1
  <2>. QED
    BY <2>1, <2>2
<1>. QED
  BY <1>3, <1>4

\* Terms that all move in the safe direction leave the position covered.
LEMMA PartsCover ==
    ASSUME TypeOK, TypeOK', NEW u \in Users, DebtModerate(u), HealthFactor(u) >= WAD,
           \A r \in Assets : /\ DebtPart(u, r)' <= DebtPart(u, r)
                             /\ CapacityPart(u, r) <= CapacityPart(u, r)'
    PROVE  Covered(u)'
<1>. DEFINE D == TotalDebtInBaseCurrency(u)
            E == TotalDebtInBaseCurrency(u)'
            cap == LiquidationCapacity(u)
            dap == LiquidationCapacity(u)'
            F == PERCENTAGE_FACTOR
<1>1. D \in Nat /\ E \in Nat /\ cap \in Nat /\ dap \in Nat /\ F \in Nat
  BY PositionParts, MathAssumption DEF PositionIsSums
<1>2. /\ D = Sum(DebtParts(u), Assets) /\ E = Sum(DebtParts(u)', Assets)
      /\ cap = Sum(CapacityParts(u), Assets) /\ dap = Sum(CapacityParts(u)', Assets)
  BY PositionParts DEF PositionIsSums
<1>3. D * F <= cap + F
  BY HealthyIsCovered
<1>. HIDE DEF D, E, cap, dap, F
<1>4. E <= D /\ cap <= dap
  <2>1. \A r \in Assets : /\ DebtParts(u)'[r] \in Nat /\ DebtParts(u)[r] \in Nat
                          /\ DebtParts(u)'[r] <= DebtParts(u)[r]
                          /\ CapacityParts(u)[r] \in Nat /\ CapacityParts(u)'[r] \in Nat
                          /\ CapacityParts(u)[r] <= CapacityParts(u)'[r]
    BY PositionParts
  <2>. QED
    BY <1>2, <2>1, PoolAssumption, SumMonotone
<1>5. E * F <= D * F /\ E * F \in Nat /\ D * F \in Nat
  BY <1>1, <1>4, TimesMonotone, TimesNat
<1>6. E * F <= dap + 2 * F
  BY <1>1, <1>3, <1>4, <1>5
<1>. QED
  BY <1>6 DEF Covered, RoundingUnits, E, dap, F

LEMMA SteadyStaysCovered ==
    ASSUME TypeOK, TypeOK', MarketUnchanged, NEW u \in Users, eMode'[u] = eMode[u], Steady(u),
           DebtModerate(u), HealthFactor(u) >= WAD
    PROVE  Covered(u)'
BY SteadyParts, PartsCover

\* Nobody without debts can be liquidated.
LEMMA DebtFreeIsCovered ==
    ASSUME TypeOK, TypeOK', NEW u \in Users, borrowing'[u] = {}
    PROVE  Covered(u)'
<1>1. TotalDebtInBaseCurrency(u)' = Sum(DebtParts(u)', Assets)
  BY PositionParts DEF PositionIsSums
<1>2. \A r \in Assets : DebtParts(u)'[r] = 0
  BY PositionParts DEF DebtPart
<1>3. TotalDebtInBaseCurrency(u)' = 0
  BY <1>1, <1>2, PoolAssumption, SumOfZeros
<1>4. LiquidationCapacity(u)' \in Nat /\ PERCENTAGE_FACTOR \in Nat
  BY PositionParts, MathAssumption DEF PositionIsSums
<1>. QED
  BY <1>3, <1>4 DEF Covered, RoundingUnits

-------------------------------------------------------------------------------
(* The calls of users.                                                     *)

\* Steady in the entries of the ledgers.
SteadyFlags(u) ==
    borrowing'[u] \subseteq borrowing[u] /\ usingAsCollateral[u] \subseteq usingAsCollateral'[u]

SteadyDebts(u) ==
    \A r \in Assets : /\ scaledDebt'[u][r] <= scaledDebt[u][r]
                      /\ stableDebt'[u][r] <= stableDebt[u][r]

SteadyBTokens(u) ==
    \A r \in usingAsCollateral[u] : scaledBToken'[u][r] >= scaledBToken[u][r]

LEMMA SteadyBalances ==
    ASSUME TypeOK, TypeOK', UNCHANGED indexVars, NEW u \in Users, SteadyBTokens(u),
           NEW r \in usingAsCollateral[u]
    PROVE  BTokenBalance(u, r)' >= BTokenBalance(u, r)
<1>1. r \in Assets /\ u \in Holders
  BY DEF TypeOK, Holders
<1>2. /\ liquidityIndex'[r] = liquidityIndex[r] /\ liquidityIndex[r] \in Nat
      /\ scaledBToken[u][r] \in Nat /\ scaledBToken'[u][r] \in Nat
      /\ scaledBToken[u][r] <= scaledBToken'[u][r]
  BY <1>1, IndexType DEF indexVars, TypeOK, SteadyBTokens
<1>3. /\ RayMul(scaledBToken[u][r], liquidityIndex[r])
           <= RayMul(scaledBToken'[u][r], liquidityIndex[r])
      /\ RayMul(scaledBToken[u][r], liquidityIndex[r]) \in Nat
      /\ RayMul(scaledBToken'[u][r], liquidityIndex[r]) \in Nat
  BY <1>2, RayMulMonotone, RayMulNat
<1>. QED
  BY <1>2, <1>3 DEF BTokenBalance

LEMMA SteadyAmounts ==
    ASSUME TypeOK, TypeOK', UNCHANGED indexVars, NEW u \in Users, SteadyDebts(u),
           NEW r \in Assets
    PROVE  UserDebt(u, r)' <= UserDebt(u, r)
<1>1. /\ variableBorrowIndex'[r] = variableBorrowIndex[r] /\ variableBorrowIndex[r] \in Nat
      /\ scaledDebt[u][r] \in Nat /\ scaledDebt'[u][r] \in Nat
      /\ stableDebt[u][r] \in Nat /\ stableDebt'[u][r] \in Nat
      /\ scaledDebt'[u][r] <= scaledDebt[u][r] /\ stableDebt'[u][r] <= stableDebt[u][r]
  BY IndexType DEF indexVars, TypeOK, SteadyDebts
<1>2. /\ RayMul(scaledDebt'[u][r], variableBorrowIndex[r])
           <= RayMul(scaledDebt[u][r], variableBorrowIndex[r])
      /\ RayMul(scaledDebt'[u][r], variableBorrowIndex[r]) \in Nat
      /\ RayMul(scaledDebt[u][r], variableBorrowIndex[r]) \in Nat
  BY <1>1, RayMulMonotone, RayMulNat
<1>. QED
  BY <1>1, <1>2 DEF UserDebt, VariableDebt

LEMMA SteadyEntries ==
    ASSUME TypeOK, TypeOK', UNCHANGED indexVars, NEW u \in Users, SteadyFlags(u),
           SteadyDebts(u), SteadyBTokens(u)
    PROVE  Steady(u)
BY SteadyBalances, SteadyAmounts DEF Steady, SteadyFlags

LEMMA StillDebts ==
    ASSUME TypeOK, NEW u \in Users, UNCHANGED debtVars
    PROVE  SteadyDebts(u)
BY LedgerTypes DEF SteadyDebts, debtVars

LEMMA StillBTokens ==
    ASSUME TypeOK, NEW u \in Users, UNCHANGED scaledBToken
    PROVE  SteadyBTokens(u)
<1>1. \A r \in usingAsCollateral[u] : scaledBToken[u][r] \in Nat
  BY DEF TypeOK, Holders
<1>. QED
  BY <1>1 DEF SteadyBTokens

\* What a call may do to the position of u.
Harmless(u) ==
    \/ Steady(u)
    \/ borrowing'[u] = {}
    \/ HealthFactor(u)' >= WAD
    \/ ~(HealthFactor(u) >= WAD)

LEMMA SupplyHarmless ==
    ASSUME TypeOK, TypeOK', UNCHANGED indexVars, NEW s \in Users, NEW v \in Users,
           NEW a \in Assets, NEW n \in Nat, Supply(s, v, a, n), NEW u \in Users
    PROVE  Harmless(u)
<1>1. SteadyFlags(u)
  BY DEF Supply, SteadyFlags, TypeOK
<1>2. SteadyDebts(u)
  BY StillDebts DEF Supply
<1>3. SteadyBTokens(u)
  <2>1. scaledBToken' = Credit(scaledBToken, v, a, BTokenScaled(a, n))
    BY DEF Supply, MintBToken
  <2>2. BTokenScaled(a, n) \in Nat
    BY ScaledNat
  <2>3. \A r \in Assets : scaledBToken'[u][r] >= scaledBToken[u][r]
    BY <2>1, <2>2, LedgerTypes DEF Credit
  <2>. QED
    BY <2>3 DEF SteadyBTokens, TypeOK
<1>. QED
  BY <1>1, <1>2, <1>3, SteadyEntries DEF Harmless

LEMMA WithdrawHarmless ==
    ASSUME TypeOK, TypeOK', UNCHANGED indexVars, NEW s \in Users, NEW a \in Assets,
           NEW n \in Nat, Withdraw(s, a, n), NEW u \in Users
    PROVE  Harmless(u)
<1>1. CASE u = s /\ a \in usingAsCollateral[s]
  BY <1>1 DEF Withdraw, ValidateHFAndLtv, ValidateHealthFactor,
              HEALTH_FACTOR_LIQUIDATION_THRESHOLD, Harmless
<1>2. CASE u # s \/ a \notin usingAsCollateral[s]
  <2>1. SteadyFlags(u)
    BY <1>2 DEF Withdraw, SteadyFlags, TypeOK
  <2>2. SteadyDebts(u)
    BY StillDebts DEF Withdraw
  <2>3. SteadyBTokens(u)
    <3>1. PICK m : scaledBToken' = Debit(scaledBToken, s, a, m)
      BY DEF Withdraw, BurnBToken
    <3>2. \A r \in Assets : u # s \/ r # a => scaledBToken'[u][r] = scaledBToken[u][r]
      BY <3>1, LedgerTypes DEF Debit
    <3>3. \A r \in usingAsCollateral[u] : r \in Assets /\ scaledBToken[u][r] \in Nat
      BY LedgerTypes DEF TypeOK
    <3>. QED
      BY <1>2, <3>2, <3>3 DEF SteadyBTokens
  <2>. QED
    BY <2>1, <2>2, <2>3, SteadyEntries DEF Harmless
<1>. QED
  BY <1>1, <1>2

LEMMA TransferHarmless ==
    ASSUME TypeOK, TypeOK', UNCHANGED indexVars, NEW s \in Users, NEW v \in Users,
           NEW a \in Assets, NEW n \in Nat, Transfer(s, v, a, n), NEW u \in Users
    PROVE  Harmless(u)
<1>1. CASE u = s /\ a \in usingAsCollateral[s]
  BY <1>1 DEF Transfer, ValidateHFAndLtv, ValidateHealthFactor,
              HEALTH_FACTOR_LIQUIDATION_THRESHOLD, Harmless
<1>2. CASE u # s \/ a \notin usingAsCollateral[s]
  <2>1. SteadyFlags(u)
    BY <1>2 DEF Transfer, SteadyFlags, TypeOK
  <2>2. SteadyDebts(u)
    BY StillDebts DEF Transfer
  <2>3. SteadyBTokens(u)
    <3>1. /\ scaledBToken' = Move(scaledBToken, s, v, a, BTokenScaled(a, n))
          /\ BTokenScaled(a, n) \in Nat /\ s # v
      BY ScaledNat DEF Transfer
    <3>2. \A r \in Assets : u # s \/ r # a => scaledBToken'[u][r] >= scaledBToken[u][r]
      BY <3>1, LedgerTypes DEF Move, Credit, Debit
    <3>3. \A r \in usingAsCollateral[u] : r \in Assets
      BY DEF TypeOK
    <3>. QED
      BY <1>2, <3>2, <3>3 DEF SteadyBTokens
  <2>. QED
    BY <2>1, <2>2, <2>3, SteadyEntries DEF Harmless
<1>. QED
  BY <1>1, <1>2

LEMMA SwitchHarmless ==
    ASSUME TypeOK, TypeOK', UNCHANGED indexVars, NEW s \in Users, NEW a \in Assets,
           NEW use \in BOOLEAN, SetUserUseReserveAsCollateral(s, a, use), NEW u \in Users
    PROVE  Harmless(u)
<1>1. CASE u = s /\ ~use
  BY <1>1 DEF SetUserUseReserveAsCollateral, ValidateHFAndLtv, ValidateHealthFactor,
              HEALTH_FACTOR_LIQUIDATION_THRESHOLD, Harmless
<1>2. CASE u # s \/ use
  <2>1. SteadyFlags(u)
    BY <1>2 DEF SetUserUseReserveAsCollateral, SetUsingAsCollateral, SteadyFlags, TypeOK
  <2>2. SteadyDebts(u) /\ SteadyBTokens(u)
    BY StillDebts, StillBTokens DEF SetUserUseReserveAsCollateral
  <2>. QED
    BY <2>1, <2>2, SteadyEntries DEF Harmless
<1>. QED
  BY <1>1, <1>2

LEMMA RepayHarmless ==
    ASSUME TypeOK, TypeOK', UNCHANGED indexVars, NEW s \in Users, NEW v \in Users,
           NEW a \in Assets, NEW n \in Nat, NEW mode \in RateModes, Repay(s, v, a, n, mode),
           NEW u \in Users
    PROVE  Harmless(u)
<1>1. SteadyFlags(u)
  BY DEF Repay, RepayDebt, SteadyFlags, TypeOK
<1>2. SteadyDebts(u)
  <2>1. AtMost(n, DebtInMode(v, a, mode)) \in Nat
    BY AtMostNat, DebtInModeNat
  <2>2. \A r \in Assets : DebtsOfShrink(r)
    BY <2>1, BurntDebtsShrink DEF Repay, RepayDebt
  <2>. QED
    BY <2>2 DEF DebtsOfShrink, SteadyDebts
<1>3. SteadyBTokens(u)
  BY StillBTokens DEF Repay
<1>. QED
  BY <1>1, <1>2, <1>3, SteadyEntries DEF Harmless

LEMMA SwapHarmless ==
    ASSUME TypeOK, UnitIndexes, TypeOK', UnitIndexes', UNCHANGED indexVars, NEW s \in Users,
           NEW a \in Assets, NEW mode \in RateModes, SwapBorrowRateMode(s, a, mode),
           NEW u \in Users
    PROVE  Harmless(u)
<1>1. SteadyFlags(u)
  BY DEF SwapBorrowRateMode, SteadyFlags, userVars
<1>2. \A r \in Assets : UserDebt(u, r)' <= UserDebt(u, r)
  BY SwapKeepsDebt, DebtNat
<1>3. SteadyBTokens(u)
  BY StillBTokens DEF SwapBorrowRateMode
<1>. QED
  BY <1>1, <1>2, <1>3, SteadyBalances DEF Harmless, Steady, SteadyFlags

LEMMA LiquidationHarmless ==
    ASSUME TypeOK, ParametersValid, UnitIndexes, TypeOK', UnitIndexes', UNCHANGED indexVars,
           NEW l \in Users, NEW v \in Users, NEW a \in Assets, NEW d \in Assets, NEW n \in Nat,
           NEW receive \in BOOLEAN, LiquidationCall(l, v, a, d, n, receive), NEW u \in Users
    PROVE  Harmless(u)
<1>. DEFINE amounts == CollateralToLiquidate(v, a, d, DebtToLiquidate(v, d, n))
<1>1. CASE u = v
  BY <1>1, AccountDataNat, MathAssumption
     DEF LiquidationCall, ValidateLiquidationCall, HEALTH_FACTOR_LIQUIDATION_THRESHOLD, Harmless
<1>2. CASE u # v
  <2>1. /\ BurnDebtTokens(v, d, amounts.debt)
        /\ SeizeCollateral(l, v, a, amounts, receive)
        /\ config[a].liquidationThreshold # 0
    BY DEF LiquidationCall, ValidateLiquidationCall
  <2>2. amounts.collateral \in Nat /\ amounts.debt \in Nat /\ amounts.fee \in Nat
    BY <2>1, DebtToLiquidateNat, LiquidationAmountsNat
  <2>3. SteadyFlags(u)
    BY <1>2 DEF LiquidationCall, SteadyFlags, TypeOK
  <2>. HIDE DEF amounts
  <2>4. SteadyDebts(u)
    <3>1. \A r \in Assets : DebtsOfShrink(r)
      BY <2>1, <2>2, BurntDebtsShrink
    <3>. QED
      BY <3>1 DEF DebtsOfShrink, SteadyDebts
  <2>5. SteadyBTokens(u)
    <3>1. \A r \in Assets : ~(Taken(u, r) > 0)
      BY <1>2, <2>1, <2>2, SeizedIsTaken
    <3>2. \A r \in Assets : /\ Taken(u, r) = scaledBToken[u][r] - scaledBToken'[u][r]
                            /\ scaledBToken[u][r] \in Nat /\ scaledBToken'[u][r] \in Nat
      BY UnitSteps DEF TypeOK, Holders
    <3>3. \A r \in Assets : scaledBToken'[u][r] >= scaledBToken[u][r]
      BY <3>1, <3>2
    <3>. QED
      BY <3>3 DEF SteadyBTokens, TypeOK
  <2>. QED
    BY <2>3, <2>4, <2>5, SteadyEntries DEF Harmless
<1>. QED
  BY <1>1, <1>2

\* Loans and repayments with bTokens of others.
LEMMA BorrowOfOther ==
    ASSUME TypeOK, TypeOK', UNCHANGED indexVars, NEW s \in Users, NEW a \in Assets,
           NEW n \in Nat, NEW mode \in RateModes, Borrow(s, a, n, mode), NEW u \in Users, u # s
    PROVE  Harmless(u)
<1>1. SteadyFlags(u)
  BY DEF Borrow, SteadyFlags, TypeOK
<1>2. SteadyDebts(u)
  <2>1. /\ \/ scaledDebt' = scaledDebt
           \/ scaledDebt' = Credit(scaledDebt, s, a, DebtScaled(a, n))
        /\ stableDebt' = stableDebt \/ stableDebt' = Credit(stableDebt, s, a, n)
    BY DEF Borrow, MintDebt, MintVariableDebt, MintStableDebt
  <2>2. \A r \in Assets : /\ scaledDebt'[u][r] = scaledDebt[u][r]
                          /\ stableDebt'[u][r] = stableDebt[u][r]
    BY <2>1, LedgerTypes DEF Credit
  <2>. QED
    BY <2>2, LedgerTypes DEF SteadyDebts
<1>3. SteadyBTokens(u)
  BY StillBTokens DEF Borrow
<1>. QED
  BY <1>1, <1>2, <1>3, SteadyEntries DEF Harmless

LEMMA RepayWithBTokensOfOther ==
    ASSUME TypeOK, TypeOK', UNCHANGED indexVars, NEW s \in Users, NEW a \in Assets,
           NEW n \in Nat, NEW mode \in RateModes, RepayWithBTokens(s, a, n, mode),
           NEW u \in Users, u # s
    PROVE  Harmless(u)
<1>1. SteadyFlags(u)
  BY DEF RepayWithBTokens, RepayDebt, SteadyFlags, TypeOK
<1>2. PICK m : BurnDebt(s, a, m, mode) /\ BurnBToken(s, a, m) /\ m \in Nat
  BY BTokenBalanceNat, AtMostNat, DebtInModeNat DEF RepayWithBTokens, RepayDebt, Holders
<1>3. SteadyDebts(u)
  <2>1. \A r \in Assets : DebtsOfShrink(r)
    BY <1>2, BurntDebtsShrink
  <2>. QED
    BY <2>1 DEF DebtsOfShrink, SteadyDebts
<1>4. SteadyBTokens(u)
  <2>1. \A r \in Assets : scaledBToken'[u][r] = scaledBToken[u][r]
    BY <1>2, LedgerTypes DEF BurnBToken, Debit
  <2>2. \A r \in usingAsCollateral[u] : r \in Assets /\ scaledBToken[u][r] \in Nat
    BY LedgerTypes DEF TypeOK
  <2>. QED
    BY <2>1, <2>2 DEF SteadyBTokens
<1>. QED
  BY <1>1, <1>3, <1>4, SteadyEntries DEF Harmless

\* A call either is harmless to u or is a loan or a repayment with bTokens of u.
LEMMA UserCases ==
    ASSUME TypeOK, ParametersValid, UnitIndexes, TypeOK', UnitIndexes', UNCHANGED indexVars,
           UserNext, NEW u \in Users
    PROVE  \/ Harmless(u)
           \/ \E a \in Assets, n \in Nat, mode \in RateModes : Borrow(u, a, n, mode)
           \/ \E a \in Assets, n \in Nat, mode \in RateModes : RepayWithBTokens(u, a, n, mode)
<1>. USE AmountsNat DEF AmountType
<1>1. PICK s \in Users, a \in Assets :
      \/ \E v \in Users, n \in Nat : Supply(s, v, a, n) \/ Transfer(s, v, a, n)
      \/ \E n \in Nat : Withdraw(s, a, n)
      \/ \E use \in BOOLEAN : SetUserUseReserveAsCollateral(s, a, use)
      \/ \E mode \in RateModes, n \in Nat :
           \/ Borrow(s, a, n, mode)
           \/ \E v \in Users : Repay(s, v, a, n, mode)
           \/ RepayWithBTokens(s, a, n, mode)
      \/ \E mode \in RateModes : SwapBorrowRateMode(s, a, mode)
      \/ \E v \in Users, e \in Assets, n \in Nat, receive \in BOOLEAN :
           LiquidationCall(s, v, a, e, n, receive)
  BY DEF UserNext
<1>2. CASE \E v \in Users, n \in Nat : Supply(s, v, a, n) \/ Transfer(s, v, a, n)
  BY <1>2, SupplyHarmless, TransferHarmless
<1>3. CASE \E n \in Nat : Withdraw(s, a, n)
  BY <1>3, WithdrawHarmless
<1>4. CASE \E use \in BOOLEAN : SetUserUseReserveAsCollateral(s, a, use)
  BY <1>4, SwitchHarmless
<1>5. CASE \E mode \in RateModes, n \in Nat, v \in Users : Repay(s, v, a, n, mode)
  BY <1>5, RepayHarmless
<1>6. CASE \E mode \in RateModes, n \in Nat : Borrow(s, a, n, mode)
  BY <1>6, BorrowOfOther
<1>7. CASE \E mode \in RateModes, n \in Nat : RepayWithBTokens(s, a, n, mode)
  BY <1>7, RepayWithBTokensOfOther
<1>8. CASE \E mode \in RateModes : SwapBorrowRateMode(s, a, mode)
  BY <1>8, SwapHarmless
<1>9. CASE \E v \in Users, e \in Assets, n \in Nat, receive \in BOOLEAN :
             LiquidationCall(s, v, a, e, n, receive)
  BY <1>9, LiquidationHarmless
<1>. QED
  BY <1>1, <1>2, <1>3, <1>4, <1>5, <1>6, <1>7, <1>8, <1>9

-------------------------------------------------------------------------------
(* Repayments with bTokens: the same amount leaves both sides, its value is *)
(* rounded on each of them, and collateral counts for at most its value.    *)

LEMMA DivSum ==
    ASSUME NEW a \in Nat, NEW b \in Nat, NEW n \in Nat \ {0}
    PROVE  /\ a \div n + b \div n <= (a + b) \div n
           /\ (a + b) \div n <= a \div n + b \div n + 1
<1>. DEFINE p == a \div n
            q == b \div n
            s == (a + b) \div n
<1>1. /\ p \in Nat /\ n * p <= a /\ a < n * p + n
      /\ q \in Nat /\ n * q <= b /\ b < n * q + n
      /\ s \in Nat /\ n * s <= a + b /\ a + b < n * s + n
  BY DivBounds
<1>. SUFFICES p + q <= s /\ s <= p + q + 1
  OBVIOUS
<1>. HIDE DEF p, q, s
<1>2. n * p \in Nat /\ n * q \in Nat /\ n * s \in Nat
  BY <1>1, TimesNat
<1>3. ~(s + 1 <= p + q)
  <2>. SUFFICES ASSUME s + 1 <= p + q PROVE FALSE
    OBVIOUS
  <2>1. n * (s + 1) <= n * (p + q)
    BY <1>1, TimesMonotone
  <2>2. n * (s + 1) = n * s + n /\ n * (p + q) = n * p + n * q
    BY <1>1
  <2>. QED
    BY <1>1, <1>2, <2>1, <2>2
<1>4. ~(p + q + 2 <= s)
  <2>. SUFFICES ASSUME p + q + 2 <= s PROVE FALSE
    OBVIOUS
  <2>1. n * (p + q + 2) <= n * s
    BY <1>1, TimesMonotone
  <2>2. n * (p + q + 2) = n * p + n * q + n + n
    BY <1>1
  <2>. QED
    BY <1>1, <1>2, <2>1, <2>2
<1>. QED
  BY <1>1, <1>3, <1>4

\* The configurator's check of threshold and bonus keeps the threshold below 100 per cent.
LEMMA AllowedThreshold ==
    ASSUME NEW t \in Nat, NEW bonus \in Nat, bonus > PERCENTAGE_FACTOR,
           PercentMul(t, bonus) <= PERCENTAGE_FACTOR
    PROVE  t <= PERCENTAGE_FACTOR
<1>. DEFINE F == PERCENTAGE_FACTOR
            h == F \div 2
            m == PercentMul(t, bonus)
<1>1. F \in Nat \ {0} /\ h \in Nat /\ t * bonus \in Nat
  BY MathAssumption, TimesNat
<1>2. m \in Nat /\ t * bonus + h < F * m + F
  BY <1>1, DivHalfUpBounds DEF PercentMul
<1>. SUFFICES ASSUME F + 1 <= t PROVE FALSE
  BY <1>1
<1>3. m <= F /\ F + 1 <= bonus
  BY <1>1
<1>. HIDE DEF F, h, m
<1>4. F * m <= F * F /\ F * F \in Nat /\ F * m \in Nat
  BY <1>1, <1>2, <1>3, TimesMonotone, TimesNat
<1>5. (F + 1) * F <= t * F /\ t * F <= t * bonus /\ t * F \in Nat
  BY <1>1, <1>3, TimesMonotone, TimesNat
<1>6. (F + 1) * F = F * F + F
  BY <1>1
<1>. QED
  BY <1>1, <1>2, <1>4, <1>5, <1>6

LEMMA ThresholdBounds ==
    ASSUME TypeOK, ParametersValid, NEW u \in Users, NEW r \in CollateralAssets(u)
    PROVE  /\ r \in Assets
           /\ LtvOf(u, r) \in Nat /\ LiquidationThresholdOf(u, r) \in Nat
           /\ LtvOf(u, r) <= LiquidationThresholdOf(u, r)
           /\ LiquidationThresholdOf(u, r) <= PERCENTAGE_FACTOR
<1>1. r \in Assets /\ config[r].liquidationThreshold # 0
  BY DEF CollateralAssets, TypeOK
<1>2. /\ config[r].ltv \in Nat /\ config[r].liquidationThreshold \in Nat
      /\ config[r].liquidationBonus \in Nat
  BY <1>1 DEF TypeOK, ReserveConfig
<1>3. /\ config[r].ltv <= config[r].liquidationThreshold
      /\ config[r].liquidationThreshold <= PERCENTAGE_FACTOR
  BY <1>1, <1>2, AllowedThreshold DEF ParametersValid, CollateralParamsAllowed
<1>4. CASE ~InEModeCategory(u, r)
  BY <1>1, <1>2, <1>3, <1>4 DEF LtvOf, LiquidationThresholdOf
<1>5. CASE InEModeCategory(u, r)
  <2>. DEFINE c == eModeCategories[eMode[u]]
  <2>1. eMode[u] \in Categories
    BY <1>5 DEF InEModeCategory, TypeOK, CategoryIds
  <2>2. c.ltv \in Nat /\ c.liquidationThreshold \in Nat /\ c.liquidationBonus \in Nat
    BY <2>1 DEF TypeOK, EModeCategory
  <2>3. EModeParamsAllowed(c)
    BY <1>5, <2>1 DEF ParametersValid, InEModeCategory
  <2>4. c.ltv <= c.liquidationThreshold /\ c.liquidationThreshold <= PERCENTAGE_FACTOR
    BY <2>2, <2>3, AllowedThreshold DEF EModeParamsAllowed, CollateralParamsAllowed
  <2>. QED
    BY <1>1, <1>2, <1>5, <2>2, <2>4 DEF LtvOf, LiquidationThresholdOf
<1>. QED
  BY <1>4, <1>5

LEMMA OnePartMoves ==
    ASSUME TypeOK, TypeOK', NEW u \in Users, NEW a \in Assets,
           \A r \in Assets : r # a => /\ DebtPart(u, r)' = DebtPart(u, r)
                                      /\ CapacityPart(u, r)' = CapacityPart(u, r)
    PROVE  /\ TotalDebtInBaseCurrency(u)' + DebtPart(u, a)
                = TotalDebtInBaseCurrency(u) + DebtPart(u, a)'
           /\ LiquidationCapacity(u)' + CapacityPart(u, a)
                = LiquidationCapacity(u) + CapacityPart(u, a)'
<1>1. /\ TotalDebtInBaseCurrency(u) = Sum(DebtParts(u), Assets)
      /\ TotalDebtInBaseCurrency(u)' = Sum(DebtParts(u)', Assets)
      /\ LiquidationCapacity(u) = Sum(CapacityParts(u), Assets)
      /\ LiquidationCapacity(u)' = Sum(CapacityParts(u)', Assets)
  BY PositionParts DEF PositionIsSums
<1>2. \A r \in Assets :
        /\ DebtParts(u)[r] \in Nat /\ DebtParts(u)'[r] \in Nat
        /\ CapacityParts(u)[r] \in Nat /\ CapacityParts(u)'[r] \in Nat
        /\ r # a => DebtParts(u)'[r] = DebtParts(u)[r]
                 /\ CapacityParts(u)'[r] = CapacityParts(u)[r]
  BY PositionParts
<1>3. Sum(DebtParts(u)', Assets) + DebtParts(u)[a] = Sum(DebtParts(u), Assets) + DebtParts(u)'[a]
  BY <1>2, PoolAssumption, SumUpdate
<1>4. Sum(CapacityParts(u)', Assets) + CapacityParts(u)[a]
        = Sum(CapacityParts(u), Assets) + CapacityParts(u)'[a]
  BY <1>2, PoolAssumption, SumUpdate
<1>. QED
  BY <1>1, <1>3, <1>4, PositionParts

\* What a repayment with bTokens moves, while no interest accrues.
LEMMA BTokensRepay ==
    ASSUME TypeOK, UnitIndexes, TypeOK', UnitIndexes', DebtImpliesBorrowFlag,
           NEW u \in Users, NEW a \in Assets, NEW n \in Nat, NEW mode \in RateModes,
           RepayWithBTokens(u, a, n, mode)
    PROVE  \E m \in Nat :
             /\ UserDebt(u, a) = UserDebt(u, a)' + m
             /\ BTokenBalance(u, a) = BTokenBalance(u, a)' + m
             /\ a \in borrowing[u]
             /\ a \in borrowing'[u] \/ UserDebt(u, a) = m
             /\ usingAsCollateral'[u] = usingAsCollateral[u]
             /\ \A r \in Assets : r # a => /\ UserDebt(u, r)' = UserDebt(u, r)
                                           /\ BTokenBalance(u, r)' = BTokenBalance(u, r)
                                           /\ r \in borrowing'[u] <=> r \in borrowing[u]
<1>1. PICK m \in Nat : RepayDebt(u, a, m, mode) /\ BurnBToken(u, a, m)
  BY BTokenBalanceNat, AtMostNat, DebtInModeNat DEF RepayWithBTokens, Holders
<1>2. \A r \in Assets : /\ UserDebt(u, r) \in Nat /\ UserDebt(u, r)' \in Nat
                        /\ BTokenBalance(u, r) \in Nat /\ BTokenBalance(u, r)' \in Nat
  BY DebtNat, DebtNatNext, BTokenBalanceNat, BTokenBalanceNatNext DEF Holders
<1>3. \A r \in Assets : UserDebt(u, r) - UserDebt(u, r)' = IF r = a THEN m ELSE 0
  BY <1>1, BurntIsRepaid DEF RepayDebt, Repaid
<1>4. \A r \in Assets : BTokenBalance(u, r) - BTokenBalance(u, r)' = IF r = a THEN m ELSE 0
  <2>1. scaledBToken' = Debit(scaledBToken, u, a, m)
    BY <1>1, UnitScaled DEF BurnBToken
  <2>2. \A r \in Assets : /\ scaledBToken[u][r] \in Nat
                          /\ scaledBToken'[u][r] = scaledBToken[u][r] - (IF r = a THEN m ELSE 0)
    BY <2>1, LedgerTypes DEF Debit
  <2>. QED
    BY <2>2, UnitSteps DEF Taken
<1>5. a \in borrowing[u]
  <2>1. stableDebt[u][a] # 0 \/ VariableDebt(u, a) # 0
    BY DEF RepayWithBTokens, ValidateRepay
  <2>2. HasDebt(u, a)
    BY <2>1, UnitBalances DEF HasDebt
  <2>. QED
    BY <2>2 DEF DebtImpliesBorrowFlag
<1>6. borrowing'[u] = IF UserDebt(u, a) = m THEN borrowing[u] \ {a} ELSE borrowing[u]
  BY <1>1 DEF RepayDebt, TypeOK
<1>7. usingAsCollateral'[u] = usingAsCollateral[u]
  BY DEF RepayWithBTokens
<1>8. UserDebt(u, a) = UserDebt(u, a)' + m /\ BTokenBalance(u, a) = BTokenBalance(u, a)' + m
  BY <1>2, <1>3, <1>4
<1>9. ASSUME NEW r \in Assets, r # a
      PROVE  /\ UserDebt(u, r)' = UserDebt(u, r) /\ BTokenBalance(u, r)' = BTokenBalance(u, r)
             /\ r \in borrowing'[u] <=> r \in borrowing[u]
  <2>1. UserDebt(u, r) - UserDebt(u, r)' = 0 /\ BTokenBalance(u, r) - BTokenBalance(u, r)' = 0
    BY <1>3, <1>4, <1>9
  <2>2. UserDebt(u, r)' = UserDebt(u, r) /\ BTokenBalance(u, r)' = BTokenBalance(u, r)
    BY <1>2, <2>1
  <2>. QED
    BY <1>6, <1>9, <2>2
<1>10. a \in borrowing'[u] \/ UserDebt(u, a) = m
  BY <1>5, <1>6
<1>. QED
  BY <1>5, <1>7, <1>8, <1>9, <1>10

LEMMA BTokensKeepCovered ==
    ASSUME TypeOK, ParametersValid, UnitIndexes, TypeOK', UnitIndexes', DebtImpliesBorrowFlag,
           MarketUnchanged, NEW u \in Users, NEW a \in Assets, NEW n \in Nat,
           NEW mode \in RateModes, RepayWithBTokens(u, a, n, mode),
           DebtModerate(u), HealthFactor(u) >= WAD
    PROVE  Covered(u)'
<1>0. eMode'[u] = eMode[u]
  BY DEF RepayWithBTokens
<1>. DEFINE D == TotalDebtInBaseCurrency(u)
            E == TotalDebtInBaseCurrency(u)'
            cap == LiquidationCapacity(u)
            dap == LiquidationCapacity(u)'
            F == PERCENTAGE_FACTOR
            p == price[PriceSourceOf(u, a)]
            U == AssetUnit[a]
            t == LiquidationThresholdOf(u, a)
<1>1. PICK m \in Nat :
        /\ UserDebt(u, a) = UserDebt(u, a)' + m
        /\ BTokenBalance(u, a) = BTokenBalance(u, a)' + m
        /\ a \in borrowing[u]
        /\ a \in borrowing'[u] \/ UserDebt(u, a) = m
        /\ usingAsCollateral'[u] = usingAsCollateral[u]
        /\ \A r \in Assets : r # a => /\ UserDebt(u, r)' = UserDebt(u, r)
                                      /\ BTokenBalance(u, r)' = BTokenBalance(u, r)
                                      /\ r \in borrowing'[u] <=> r \in borrowing[u]
  BY BTokensRepay
<1>. DEFINE d == UserDebt(u, a)'
            b == BTokenBalance(u, a)'
            w == (p * m) \div U
            x == (p * d) \div U
            y == (p * b) \div U
<1>2. /\ D \in Nat /\ E \in Nat /\ cap \in Nat /\ dap \in Nat /\ F \in Nat
      /\ D * F <= cap + F
  BY PositionParts, HealthyIsCovered, MathAssumption DEF PositionIsSums
<1>3. \A r \in Assets : /\ price'[PriceSourceOf(u, r)'] = price[PriceSourceOf(u, r)]
                        /\ LiquidationThresholdOf(u, r)' = LiquidationThresholdOf(u, r)
                        /\ config' = config
  BY <1>0, MarketKept
<1>4. ASSUME NEW r \in Assets, r # a
      PROVE  DebtPart(u, r)' = DebtPart(u, r) /\ CapacityPart(u, r)' = CapacityPart(u, r)
  <2>1. DebtPart(u, r)' = DebtPart(u, r)
    BY <1>1, <1>3, <1>4 DEF DebtPart, InBaseCurrency
  <2>2. r \in CollateralAssets(u)' <=> r \in CollateralAssets(u)
    BY <1>1, <1>3 DEF CollateralAssets
  <2>3. CollateralValue(u, r)' = CollateralValue(u, r)
    BY <1>1, <1>3, <1>4 DEF CollateralValue, InBaseCurrency
  <2>. QED
    BY <1>3, <2>1, <2>2, <2>3 DEF CapacityPart
<1>5. /\ p \in Nat /\ U \in Nat \ {0} /\ d \in Nat /\ b \in Nat
      /\ p * m \in Nat /\ p * d \in Nat /\ p * b \in Nat
  <2>1. p \in Nat /\ U \in Nat \ {0} /\ d \in Nat /\ b \in Nat
    BY PriceSourceType, PoolAssumption, DebtNatNext, BTokenBalanceNatNext DEF TypeOK
  <2>. HIDE DEF p, U, d, b
  <2>. QED
    BY <2>1, TimesNat
<1>6. w \in Nat /\ x \in Nat /\ y \in Nat
  BY <1>5, DivBounds
<1>7. DebtPart(u, a)' + w <= DebtPart(u, a)
  <2>1. DebtPart(u, a) = (p * (d + m)) \div U
    BY <1>1 DEF DebtPart, InBaseCurrency
  <2>2. DebtPart(u, a)' = x
    <3>1. CASE a \in borrowing'[u]
      BY <1>3, <3>1 DEF DebtPart, InBaseCurrency
    <3>2. CASE a \notin borrowing'[u]
      <4>1. d + m = m
        BY <1>1, <3>2
      <4>2. DebtPart(u, a)' = 0
        BY <3>2 DEF DebtPart
      <4>. HIDE DEF d
      <4>3. d = 0
        BY <1>5, <4>1
      <4>4. x = 0
        <5>. HIDE DEF p, U
        <5>1. p * d = 0
          BY <1>5, <4>3
        <5>. QED
          BY <1>5, <5>1
      <4>. QED
        BY <4>2, <4>4
    <3>. QED
      BY <3>1, <3>2
  <2>. HIDE DEF p, U, d
  <2>3. p * (d + m) = p * d + p * m
    BY <1>5
  <2>4. x + w <= (p * d + p * m) \div U
    BY <1>5, DivSum
  <2>. QED
    BY <2>1, <2>2, <2>3, <2>4
<1>8. CapacityPart(u, a) <= CapacityPart(u, a)' + (w + 1) * F
  <2>0. CapacityPart(u, a) \in Nat /\ CapacityPart(u, a)' \in Nat /\ (w + 1) * F \in Nat
    <3>. HIDE DEF w, F
    <3>. QED
      BY <1>2, <1>6, PositionParts, TimesNat
  <2>1. CASE a \in CollateralAssets(u)
    <3>1. a \in CollateralAssets(u)'
      BY <1>1, <1>3, <2>1 DEF CollateralAssets
    <3>2. CapacityPart(u, a) = ((p * (b + m)) \div U) * t
      BY <1>1, <2>1 DEF CapacityPart, CollateralValue, InBaseCurrency
    <3>3. CapacityPart(u, a)' = y * t
      BY <1>3, <3>1 DEF CapacityPart, CollateralValue, InBaseCurrency
    <3>4. t \in Nat /\ t <= F
      BY <2>1, ThresholdBounds
    <3>. HIDE DEF p, U, b, t, F
    <3>5. p * (b + m) = p * b + p * m
      BY <1>5
    <3>6. (p * b + p * m) \div U <= y + w + 1 /\ (p * b + p * m) \div U \in Nat
      <4>1. p * b + p * m \in Nat
        BY <1>5
      <4>2. (p * b + p * m) \div U \in Nat
        BY <1>5, <4>1, DivBounds
      <4>3. (p * b + p * m) \div U <= (p * b) \div U + (p * m) \div U + 1
        BY <1>5, DivSum
      <4>. QED
        BY <4>2, <4>3
    <3>. DEFINE z == (p * b + p * m) \div U
    <3>. HIDE DEF z, y, w
    <3>7. z * t <= (y + w + 1) * t
      BY <1>6, <3>4, <3>6, TimesMonotone DEF z, y, w
    <3>8. (w + 1) * t <= (w + 1) * F
      BY <1>2, <1>6, <3>4, TimesMonotone
    <3>9. (y + w + 1) * t = y * t + (w + 1) * t
      BY <1>6, <3>4
    <3>10. y * t \in Nat /\ (w + 1) * t \in Nat /\ z * t \in Nat
      BY <1>6, <3>4, <3>6, TimesNat DEF z, y, w
    <3>11. CapacityPart(u, a) = z * t
      BY <3>2, <3>5 DEF z
    <3>. QED
      BY <2>0, <3>3, <3>7, <3>8, <3>9, <3>10, <3>11
  <2>2. CASE a \notin CollateralAssets(u)
    <3>1. CapacityPart(u, a) = 0
      BY <2>2 DEF CapacityPart
    <3>. HIDE DEF w, F
    <3>. QED
      BY <2>0, <3>1
  <2>. QED
    BY <2>1, <2>2
<1>9. /\ E + DebtPart(u, a) = D + DebtPart(u, a)'
      /\ dap + CapacityPart(u, a) = cap + CapacityPart(u, a)'
  BY <1>4, OnePartMoves
<1>10. /\ DebtPart(u, a) \in Nat /\ DebtPart(u, a)' \in Nat
       /\ CapacityPart(u, a) \in Nat /\ CapacityPart(u, a)' \in Nat
  BY PositionParts
<1>. HIDE DEF D, E, cap, dap, F, w
<1>11. E + w <= D
  BY <1>2, <1>6, <1>7, <1>9, <1>10
<1>12. cap <= dap + (w + 1) * F
  <2>1. (w + 1) * F \in Nat
    BY <1>2, <1>6, TimesNat
  <2>. QED
    BY <1>2, <1>8, <1>9, <1>10, <2>1
<1>13. (E + w) * F <= D * F
  BY <1>2, <1>6, <1>11, TimesMonotone
<1>14. /\ (E + w) * F = E * F + w * F /\ (w + 1) * F = w * F + F
       /\ E * F \in Nat /\ w * F \in Nat /\ D * F \in Nat
  BY <1>2, <1>6, TimesNat
<1>15. E * F <= dap + 2 * F
  BY <1>2, <1>12, <1>13, <1>14
<1>. QED
  BY <1>15 DEF Covered, RoundingUnits, E, dap, F

-------------------------------------------------------------------------------
(* Loans: the loan-to-value of the collateral covers the debt and the amount *)
(* before they are added and rounded together, and is below the threshold.  *)

LtvValues(u) == [r \in CollateralAssets(u) |-> CollateralValue(u, r) * LtvOf(u, r)]

LEMMA LtvIsSum ==
    ASSUME NEW u, IsFiniteSet(CollateralAssets(u))
    PROVE  AvgLtv(u) = IF TotalCollateralInBaseCurrency(u) = 0 THEN 0
                       ELSE Sum(LtvValues(u), CollateralAssets(u))
                              \div TotalCollateralInBaseCurrency(u)
<1>. DEFINE S == CollateralAssets(u)
            f == LtvValues(u)
            V(r) == CollateralValue(u, r) * LtvOf(u, r)
            P(it) == it = [s \in SUBSET S |->
                       IF s = {} THEN 0 ELSE V(Pick(s)) + it[s \ {Pick(s)}]]
            jt == CHOOSE it : P(it)
<1>1. \A it : \A s \in SUBSET S :
        Added(f, it, s) = IF s = {} THEN 0 ELSE V(Pick(s)) + it[s \ {Pick(s)}]
  BY DEF Added, LtvValues, Pick
<1>2. AvgLtv(u) = IF TotalCollateralInBaseCurrency(u) = 0 THEN 0
                  ELSE jt[S] \div TotalCollateralInBaseCurrency(u)
  BY DEF AvgLtv, WeightedAverage, MapThenSumSet, MapThenFoldSet, Pick
<1>. HIDE DEF S, f, V
<1>3. \A it : P(it) <=> AddsParts(it, f, S)
  BY <1>1 DEF AddsParts, Adds
<1>4. \E it : AddsParts(it, f, S)
  BY SumsExist DEF S
<1>. HIDE DEF P
<1>5. AddsParts(jt, f, S)
  BY <1>3, <1>4
<1>. HIDE DEF jt
<1>6. Sum(f, S) = jt[S]
  BY <1>5, SumValue DEF S
<1>. QED
  BY <1>2, <1>6 DEF S, f

\* The average is a percentage, and the collateral at its average is no more than what
\* may be liquidated.
LEMMA LtvBounds ==
    ASSUME TypeOK, ParametersValid, NEW u \in Users, TotalCollateralInBaseCurrency(u) # 0
    PROVE  /\ AvgLtv(u) \in Nat /\ AvgLtv(u) <= PERCENTAGE_FACTOR
           /\ AvgLtv(u) * TotalCollateralInBaseCurrency(u) <= LiquidationCapacity(u)
<1>. DEFINE S == CollateralAssets(u)
            C == TotalCollateralInBaseCurrency(u)
            L == AvgLtv(u)
            cap == LiquidationCapacity(u)
            F == PERCENTAGE_FACTOR
            z == Sum(LtvValues(u), S)
<1>1. /\ C \in Nat \ {0} /\ cap \in Nat /\ F \in Nat \ {0} /\ IsFiniteSet(S)
  BY AccountDataNat, PositionSums, PositionTypes, MathAssumption DEF PositionIsSums
<1>2. L = z \div C /\ C = Sum(CollateralValues(u), S) /\ cap = Sum(ThresholdValues(u), S)
  BY <1>1, LtvIsSum, CollateralIsSum, CapacityIsSum
<1>3. ASSUME NEW r \in S
      PROVE  /\ CollateralValues(u)[r] \in Nat /\ LtvValues(u)[r] \in Nat
             /\ ThresholdValues(u)[r] \in Nat
             /\ LtvValues(u)[r] <= ThresholdValues(u)[r]
             /\ LtvValues(u)[r] <= F * CollateralValues(u)[r]
  <2>. DEFINE v == CollateralValue(u, r)
              l == LtvOf(u, r)
              t == LiquidationThresholdOf(u, r)
  <2>1. /\ CollateralValues(u)[r] = v /\ LtvValues(u)[r] = v * l
        /\ ThresholdValues(u)[r] = v * t
    BY DEF CollateralValues, LtvValues, ThresholdValues
  <2>2. v \in Nat /\ l \in Nat /\ t \in Nat /\ l <= t /\ t <= F
    BY ThresholdBounds, PositionTypes
  <2>. HIDE DEF v, l, t, F
  <2>3. v * l \in Nat /\ v * t \in Nat /\ v * l <= v * t
    BY <2>2, TimesNat, TimesMonotone
  <2>4. v * l <= F * v
    <3>1. l <= F /\ v * l <= v * F
      BY <1>1, <2>2, TimesMonotone
    <3>2. v * F = F * v
      BY <1>1, <2>2
    <3>. QED
      BY <3>1, <3>2
  <2>. QED
    BY <2>1, <2>2, <2>3, <2>4
<1>. HIDE DEF S, L, C, cap, F
<1>4. z \in Nat /\ z <= cap /\ z <= F * C
  <2>1. z \in Nat
    BY <1>1, <1>3, SumNat
  <2>2. z <= cap
    BY <1>1, <1>2, <1>3, SumMonotone
  <2>3. z <= F * C
    BY <1>1, <1>2, <1>3, SumScaled
  <2>. QED
    BY <2>1, <2>2, <2>3
<1>. HIDE DEF z
<1>5. L \in Nat /\ C * L <= z
  BY <1>1, <1>2, <1>4, DivBounds
<1>6. L * C <= cap
  <2>1. L * C = C * L /\ C * L \in Nat
    BY <1>1, <1>5, TimesNat
  <2>. QED
    BY <1>1, <1>4, <1>5, <2>1
<1>7. L <= F
  <2>. SUFFICES ASSUME F + 1 <= L PROVE FALSE
    BY <1>1, <1>5
  <2>1. C * (F + 1) <= C * L
    BY <1>1, <1>5, TimesMonotone
  <2>2. C * (F + 1) = F * C + C /\ F * C \in Nat /\ C * L \in Nat
    BY <1>1, <1>5, TimesNat
  <2>. QED
    BY <1>1, <1>4, <1>5, <2>1, <2>2
<1>. QED
  BY <1>5, <1>6, <1>7 DEF L, C, cap, F

\* What a loan moves, while no interest accrues.
LEMMA LoanMoves ==
    ASSUME TypeOK, UnitIndexes, TypeOK', UnitIndexes', DebtImpliesBorrowFlag,
           NEW u \in Users, NEW a \in Assets, NEW n \in Nat, NEW mode \in RateModes,
           Borrow(u, a, n, mode)
    PROVE  /\ UserDebt(u, a)' = UserDebt(u, a) + n
           /\ a \in borrowing[u] \/ UserDebt(u, a) = 0
           /\ \A r \in Assets : r # a => /\ UserDebt(u, r)' = UserDebt(u, r)
                                         /\ r \in borrowing'[u] <=> r \in borrowing[u]
<1>1. DebtScaled(a, n) = n
  BY UnitScaled
<1>2. \/ scaledDebt' = Credit(scaledDebt, u, a, n) /\ stableDebt' = stableDebt
      \/ stableDebt' = Credit(stableDebt, u, a, n) /\ scaledDebt' = scaledDebt
  BY <1>1 DEF Borrow, MintDebt, MintVariableDebt, MintStableDebt
<1>3. \A r \in Assets :
        /\ scaledDebt[u][r] \in Nat /\ stableDebt[u][r] \in Nat
        /\ UserDebt(u, r) = stableDebt[u][r] + scaledDebt[u][r]
        /\ UserDebt(u, r)' \in Nat
        /\ Repaid(u, r) = (stableDebt[u][r] + scaledDebt[u][r])
                            - (stableDebt'[u][r] + scaledDebt'[u][r])
  BY LedgerTypes, UnitBalances, UnitSteps, DebtNatNext
<1>4. stableDebt'[u][a] + scaledDebt'[u][a] = stableDebt[u][a] + scaledDebt[u][a] + n
  BY <1>2, <1>3, LedgerTypes DEF Credit
<1>5. \A r \in Assets : r # a => /\ scaledDebt'[u][r] = scaledDebt[u][r]
                                 /\ stableDebt'[u][r] = stableDebt[u][r]
  BY <1>2, LedgerTypes DEF Credit
<1>6. UserDebt(u, a)' = UserDebt(u, a) + n
  BY <1>3, <1>4 DEF Repaid
<1>7. \A r \in Assets : r # a => UserDebt(u, r)' = UserDebt(u, r)
  BY <1>3, <1>5 DEF Repaid
<1>8. borrowing'[u] = borrowing[u] \/ borrowing'[u] = borrowing[u] \cup {a}
  BY DEF Borrow, TypeOK
<1>9. a \in borrowing[u] \/ UserDebt(u, a) = 0
  <2>1. a \notin borrowing[u] => scaledDebt[u][a] = 0 /\ stableDebt[u][a] = 0
    BY DEF DebtImpliesBorrowFlag, HasDebt
  <2>. QED
    BY <1>3, <2>1
<1>. QED
  BY <1>6, <1>7, <1>8, <1>9

LEMMA LoanIsCovered ==
    ASSUME TypeOK, ParametersValid, UnitIndexes, TypeOK', UnitIndexes', DebtImpliesBorrowFlag,
           MarketUnchanged, NEW u \in Users, NEW a \in Assets, NEW n \in Nat,
           NEW mode \in RateModes, Borrow(u, a, n, mode)
    PROVE  Covered(u)'
<1>0. /\ eMode'[u] = eMode[u] /\ usingAsCollateral'[u] = usingAsCollateral[u]
      /\ \A r \in Assets : BTokenBalance(u, r)' = BTokenBalance(u, r)
  BY DEF Borrow, BTokenBalance, MarketUnchanged, indexVars
<1>. DEFINE D == TotalDebtInBaseCurrency(u)
            E == TotalDebtInBaseCurrency(u)'
            C == TotalCollateralInBaseCurrency(u)
            L == AvgLtv(u)
            cap == LiquidationCapacity(u)
            dap == LiquidationCapacity(u)'
            F == PERCENTAGE_FACTOR
            p == price[PriceSourceOf(u, a)]
            U == AssetUnit[a]
            d == UserDebt(u, a)
            x == (p * n) \div U
            y == (p * d) \div U
<1>1. /\ D \in Nat /\ E \in Nat /\ C \in Nat \ {0} /\ cap \in Nat /\ dap \in Nat /\ F \in Nat
      /\ L \in Nat \ {0} /\ L <= F /\ L * C <= cap
  <2>1. C # 0 /\ L # 0
    BY DEF Borrow, ValidateBorrow
  <2>. QED
    BY <2>1, PositionParts, AccountDataNat, LtvBounds, MathAssumption DEF PositionIsSums
<1>2. /\ UserDebt(u, a)' = d + n
      /\ a \in borrowing[u] \/ d = 0
      /\ \A r \in Assets : r # a => /\ UserDebt(u, r)' = UserDebt(u, r)
                                    /\ r \in borrowing'[u] <=> r \in borrowing[u]
  BY LoanMoves
<1>3. \A r \in Assets : /\ price'[PriceSourceOf(u, r)'] = price[PriceSourceOf(u, r)]
                        /\ LiquidationThresholdOf(u, r)' = LiquidationThresholdOf(u, r)
                        /\ config' = config
  BY <1>0, MarketKept
<1>4. \A r \in Assets : CapacityPart(u, r)' = CapacityPart(u, r)
  <2>1. \A r \in Assets : r \in CollateralAssets(u)' <=> r \in CollateralAssets(u)
    BY <1>0, <1>3 DEF CollateralAssets
  <2>2. \A r \in Assets : CollateralValue(u, r)' = CollateralValue(u, r)
    BY <1>0, <1>3 DEF CollateralValue, InBaseCurrency
  <2>. QED
    BY <1>3, <2>1, <2>2 DEF CapacityPart
<1>5. \A r \in Assets : r # a => DebtPart(u, r)' = DebtPart(u, r)
  BY <1>2, <1>3 DEF DebtPart, InBaseCurrency
<1>6. /\ p \in Nat /\ U \in Nat \ {0} /\ d \in Nat
      /\ p * n \in Nat /\ p * d \in Nat
  <2>1. p \in Nat /\ U \in Nat \ {0} /\ d \in Nat
    BY PriceSourceType, PoolAssumption, DebtNat DEF TypeOK
  <2>. HIDE DEF p, U, d
  <2>. QED
    BY <2>1, TimesNat
<1>7. x \in Nat /\ y \in Nat
  BY <1>6, DivBounds
<1>8. DebtPart(u, a) = y
  <2>1. CASE a \in borrowing[u]
    BY <2>1 DEF DebtPart, InBaseCurrency
  <2>2. CASE a \notin borrowing[u]
    <3>1. DebtPart(u, a) = 0 /\ d = 0
      BY <1>2, <2>2 DEF DebtPart
    <3>. HIDE DEF p, U, d
    <3>2. p * d = 0
      BY <1>6, <3>1
    <3>3. y = 0
      BY <1>6, <3>2
    <3>. QED
      BY <3>1, <3>3
  <2>. QED
    BY <2>1, <2>2
<1>9. DebtPart(u, a)' <= y + x + 1
  <2>1. CASE a \in borrowing'[u]
    <3>1. DebtPart(u, a)' = (p * (d + n)) \div U
      BY <1>2, <1>3, <2>1 DEF DebtPart, InBaseCurrency
    <3>. HIDE DEF p, U, d
    <3>2. p * (d + n) = p * d + p * n
      BY <1>6
    <3>3. (p * d + p * n) \div U <= y + x + 1
      BY <1>6, DivSum
    <3>. QED
      BY <3>1, <3>2, <3>3
  <2>2. CASE a \notin borrowing'[u]
    <3>1. DebtPart(u, a)' = 0
      BY <2>2 DEF DebtPart
    <3>. HIDE DEF x, y
    <3>. QED
      BY <1>7, <3>1
  <2>. QED
    BY <2>1, <2>2
<1>10. PercentDiv(D + x, L) <= C
  <2>1. CollateralCoversNewBorrow(u, a, n)
    BY DEF Borrow, ValidateBorrow
  <2>2. PriceSourceOf(u, a)
          = IF EModePriceSource(u) # NoSource THEN EModePriceSource(u) ELSE a
    <3>1. eMode[u] # 0 => config[a].eModeCategory = eMode[u]
      BY DEF Borrow, ValidateBorrow
    <3>. QED
      BY <3>1 DEF PriceSourceOf, InEModeCategory, EModePriceSource
  <2>. QED
    BY <2>1, <2>2 DEF CollateralCoversNewBorrow
<1>11. E + DebtPart(u, a) = D + DebtPart(u, a)' /\ dap = cap
  <2>1. /\ E + DebtPart(u, a) = D + DebtPart(u, a)'
        /\ dap + CapacityPart(u, a) = cap + CapacityPart(u, a)'
    BY <1>4, <1>5, OnePartMoves
  <2>2. CapacityPart(u, a)' = CapacityPart(u, a) /\ CapacityPart(u, a) \in Nat
    BY <1>4, PositionParts
  <2>. HIDE DEF D, E, cap, dap
  <2>. QED
    BY <1>1, <2>1, <2>2
<1>12. DebtPart(u, a)' \in Nat
  BY PositionParts
<1>. HIDE DEF D, E, C, L, cap, dap, F, x, y
<1>13. E <= D + x + 1
  BY <1>1, <1>7, <1>8, <1>9, <1>11, <1>12
<1>14. (D + x) * F <= L * C + L
  <2>. DEFINE q == PercentDiv(D + x, L)
  <2>1. (D + x) * F \in Nat /\ L \div 2 \in Nat
    BY <1>1, <1>7, TimesNat
  <2>2. q \in Nat /\ (D + x) * F + L \div 2 < L * q + L
    BY <1>1, <2>1, DivHalfUpBounds DEF PercentDiv, F
  <2>. HIDE DEF q
  <2>3. q <= C
    BY <1>10 DEF q
  <2>4. L * q <= L * C /\ L * q \in Nat /\ L * C \in Nat
    BY <1>1, <2>2, <2>3, TimesMonotone, TimesNat
  <2>. QED
    BY <1>1, <2>1, <2>2, <2>4
<1>15. E * F <= (D + x) * F + F
  <2>1. E * F <= (D + x + 1) * F
    BY <1>1, <1>7, <1>13, TimesMonotone
  <2>2. (D + x + 1) * F = (D + x) * F + F
    BY <1>1, <1>7
  <2>. QED
    BY <2>1, <2>2
<1>16. E * F <= dap + 2 * F
  <2>1. E * F \in Nat /\ (D + x) * F \in Nat /\ L * C \in Nat
    BY <1>1, <1>7, TimesNat
  <2>. QED
    BY <1>1, <1>11, <1>14, <1>15, <2>1
<1>. QED
  BY <1>16 DEF Covered, RoundingUnits, E, dap, F

-------------------------------------------------------------------------------
(* Categories.                                                             *)

LEMMA EntryParts ==
    ASSUME TypeOK, TypeOK', MarketUnchanged, NEW u \in Users, eMode[u] = 0, eMode'[u] # 0,
           Generous(u, eMode'[u]), UNCHANGED <<scaledBToken, debtVars, borrowing, usingAsCollateral>>,
           NEW r \in Assets
    PROVE  DebtPart(u, r)' <= DebtPart(u, r) /\ CapacityPart(u, r) <= CapacityPart(u, r)'
<1>0. /\ DebtPart(u, r) \in Nat /\ CapacityPart(u, r) \in Nat
      /\ DebtPart(u, r)' \in Nat /\ CapacityPart(u, r)' \in Nat
  BY PositionParts
<1>1. /\ price' = price /\ config' = config /\ eModeCategories' = eModeCategories
      /\ liquidityIndex' = liquidityIndex /\ variableBorrowIndex' = variableBorrowIndex
  BY DEF MarketUnchanged, oracleVars, configVars, indexVars
<1>2. PriceSourceOf(u, r)' = r /\ PriceSourceOf(u, r) = r
  BY <1>1 DEF PriceSourceOf, InEModeCategory, EModePriceSource, Generous
<1>3. UserDebt(u, r)' = UserDebt(u, r) /\ BTokenBalance(u, r)' = BTokenBalance(u, r)
  BY <1>1 DEF UserDebt, VariableDebt, BTokenBalance, debtVars
<1>4. DebtPart(u, r)' = DebtPart(u, r)
  BY <1>1, <1>2, <1>3 DEF DebtPart, InBaseCurrency
<1>5. CollateralValue(u, r)' = CollateralValue(u, r) /\ CollateralValue(u, r) \in Nat
  BY <1>1, <1>2, <1>3, PositionTypes DEF CollateralValue, InBaseCurrency
<1>6. r \in CollateralAssets(u)' <=> r \in CollateralAssets(u)
  BY <1>1 DEF CollateralAssets
<1>7. CASE r \in CollateralAssets(u)
  <2>. DEFINE v == CollateralValue(u, r)
              t == LiquidationThresholdOf(u, r)
              s == LiquidationThresholdOf(u, r)'
  <2>1. t = config[r].liquidationThreshold
    BY DEF LiquidationThresholdOf, InEModeCategory
  <2>2. s = IF config[r].eModeCategory = eMode'[u]
            THEN eModeCategories[eMode'[u]].liquidationThreshold
            ELSE config[r].liquidationThreshold
    BY <1>1 DEF LiquidationThresholdOf, InEModeCategory
  <2>3. t \in Nat /\ s \in Nat
    <3>1. config[r].liquidationThreshold \in Nat
      BY DEF TypeOK, ReserveConfig
    <3>2. eModeCategories[eMode'[u]].liquidationThreshold \in Nat
      <4>1. eMode'[u] \in Categories
        BY DEF TypeOK, CategoryIds
      <4>. QED
        BY <4>1 DEF TypeOK, EModeCategory
    <3>. QED
      BY <2>1, <2>2, <3>1, <3>2
  <2>4. t <= s
    BY <1>7, <2>1, <2>2, <2>3 DEF Generous, CollateralAssets
  <2>5. CapacityPart(u, r) = v * t /\ CapacityPart(u, r)' = v * s
    BY <1>5, <1>6, <1>7 DEF CapacityPart
  <2>. HIDE DEF v, t, s
  <2>6. v * t <= v * s
    BY <1>5, <2>3, <2>4, TimesMonotone DEF v
  <2>. QED
    BY <1>0, <1>4, <2>5, <2>6
<1>8. CASE r \notin CollateralAssets(u)
  <2>1. CapacityPart(u, r) = 0
    BY <1>8 DEF CapacityPart
  <2>. QED
    BY <1>0, <1>4, <2>1
<1>. QED
  BY <1>7, <1>8

LEMMA EModeKeepsCovered ==
    ASSUME TypeOK, TypeOK', MarketUnchanged, EModeNext, NEW u \in Users,
           ~EntersWorseCategory(u),
           DebtModerate(u), DebtModerate(u)', HealthFactor(u) >= WAD
    PROVE  Covered(u)'
<1>1. PICK s \in Users, c \in CategoryIds : SetUserEMode(s, c)
  BY DEF EModeNext
<1>2. UNCHANGED <<scaledBToken, debtVars, borrowing, usingAsCollateral>>
  BY <1>1 DEF SetUserEMode
<1>3. CASE eMode'[u] = eMode[u]
  <2>1. SteadyFlags(u)
    BY <1>2 DEF SteadyFlags
  <2>2. SteadyDebts(u) /\ SteadyBTokens(u)
    BY <1>2, StillDebts, StillBTokens
  <2>3. Steady(u)
    BY <2>1, <2>2, SteadyEntries DEF MarketUnchanged
  <2>. QED
    BY <1>3, <2>3, SteadyStaysCovered
<1>4. CASE eMode[u] # 0 /\ eMode'[u] # eMode[u]
  <2>1. u = s
    BY <1>1, <1>4 DEF SetUserEMode, TypeOK
  <2>2. HealthFactor(u)' >= WAD
    BY <1>1, <1>4, <2>1
       DEF SetUserEMode, ValidateHealthFactor, HEALTH_FACTOR_LIQUIDATION_THRESHOLD
  <2>. QED
    BY <2>2, ValidatedIsCovered
<1>5. CASE eMode[u] = 0 /\ eMode'[u] # 0 /\ borrowing[u] # {}
  <2>1. Generous(u, eMode'[u])
    BY <1>5 DEF EntersWorseCategory
  <2>. QED
    BY <1>2, <1>5, <2>1, EntryParts, PartsCover
<1>6. CASE borrowing[u] = {}
  BY <1>2, <1>6, DebtFreeIsCovered
<1>. QED
  BY <1>3, <1>4, <1>5, <1>6

\* Neither admins nor the environment touch the flags of a user.
LEMMA OthersLeaveFlags ==
    ASSUME EnvironmentNext \/ ConfiguratorNext
    PROVE  UNCHANGED userVars
<1>1. CASE EnvironmentNext
  BY <1>1 DEF EnvironmentNext, AccrueInterest, ChangePrice, SequencerChange
<1>2. CASE ConfiguratorNext
  <2>. USE DEF UnchangedButReserves
  <2>1. CASE RiskAdminNext
    BY <2>1 DEF RiskAdminNext, ConfigureReserveAsCollateral, SetDebtCeiling,
       SetBorrowCap, SetSupplyCap, SetLiquidationProtocolFee, SetAssetEModeCategory
  <2>2. CASE EModeAdminNext
    BY <2>2 DEF EModeAdminNext, SetEModeCategory
  <2>3. CASE SwitchNext
    BY <2>3 DEF SwitchNext, SetReserveBorrowing, SetReserveStableRateBorrowing,
       SetReserveActive, SetReserveFreeze, SetBorrowableInIsolation, SetReservePause,
       SetPoolPause, SetSiloedBorrowing
  <2>. QED
    BY <1>2, <2>1, <2>2, <2>3 DEF ConfiguratorNext
<1>. QED
  BY <1>1, <1>2

LEMMA OthersKeepCovered ==
    ASSUME TypeOK, TypeOK', MarketUnchanged, EnvironmentNext \/ ConfiguratorNext,
           NEW u \in Users, DebtModerate(u), HealthFactor(u) >= WAD
    PROVE  Covered(u)'
<1>1. UNCHANGED <<scaledBToken, debtVars>>
  BY OthersMoveNoMoney DEF MarketUnchanged
<1>2. UNCHANGED userVars
  BY OthersLeaveFlags
<1>3. SteadyFlags(u) /\ eMode'[u] = eMode[u]
  BY <1>2 DEF SteadyFlags, userVars
<1>4. SteadyDebts(u) /\ SteadyBTokens(u)
  BY <1>1, StillDebts, StillBTokens
<1>5. Steady(u)
  BY <1>3, <1>4, SteadyEntries DEF MarketUnchanged
<1>. QED
  BY <1>3, <1>5, SteadyStaysCovered

LEMMA UserKeepsCovered ==
    ASSUME TypeOK, ParametersValid, UnitIndexes, TypeOK', UnitIndexes', DebtImpliesBorrowFlag,
           MarketUnchanged, UserNext, NEW u \in Users,
           DebtModerate(u), DebtModerate(u)', HealthFactor(u) >= WAD
    PROVE  Covered(u)'
<1>1. UNCHANGED indexVars
  BY DEF MarketUnchanged
<1>2. eMode'[u] = eMode[u]
  BY OnlyAdminsConfigure
<1>3. CASE Harmless(u)
  <2>1. CASE Steady(u)
    BY <1>2, <2>1, SteadyStaysCovered
  <2>2. CASE borrowing'[u] = {}
    BY <2>2, DebtFreeIsCovered
  <2>3. CASE HealthFactor(u)' >= WAD
    BY <2>3, ValidatedIsCovered
  <2>. QED
    BY <1>3, <2>1, <2>2, <2>3 DEF Harmless
<1>4. CASE \E a \in Assets, n \in Nat, mode \in RateModes : Borrow(u, a, n, mode)
  BY <1>4, LoanIsCovered
<1>5. CASE \E a \in Assets, n \in Nat, mode \in RateModes : RepayWithBTokens(u, a, n, mode)
  BY <1>5, BTokensKeepCovered
<1>. QED
  BY <1>1, <1>3, <1>4, <1>5, UserCases

-------------------------------------------------------------------------------
\* No position comes to two wads of the base currency.
ModerateDebts == [](\A u \in Users : DebtModerate(u))

\* As long as no interest accrues, no call turns a healthy position into one that owes
\* more than its collateral may be liquidated for, and two units: whichever call it is and
\* whoever makes it, in every mixture of assets, rate modes and categories, but for a
\* borrower's own entry into a category worse than none.  The hypotheses are needed:
\* interest accrues by itself, and a health factor does not tell debts above two wads
\* apart.
THEOREM HealthIsPreserved ==
    Spec /\ NoInterest /\ ModerateDebts => HealthPreserved
<1>. DEFINE Inv == /\ MoneyInvariant /\ DebtImpliesBorrowFlag
                   /\ \A u \in Users : DebtModerate(u)
            Kept == MarketUnchanged =>
                      \A u \in Users :
                         HealthFactor(u) >= WAD /\ ~EntersWorseCategory(u) => Covered(u)'
<1>1. Inv /\ Inv' /\ [Next]_vars => [Kept]_vars
  <2>. SUFFICES ASSUME Inv, Inv', Next, MarketUnchanged,
                       NEW u \in Users, HealthFactor(u) >= WAD, ~EntersWorseCategory(u)
                PROVE  Covered(u)'
    OBVIOUS
  <2>1. /\ TypeOK /\ ParametersValid /\ UnitIndexes /\ DebtImpliesBorrowFlag
        /\ TypeOK' /\ UnitIndexes'
        /\ DebtModerate(u) /\ DebtModerate(u)'
    BY DEF MoneyInvariant
  <2>2. CASE UserNext
    BY <2>1, <2>2, UserKeepsCovered
  <2>3. CASE EModeNext
    BY <2>1, <2>3, EModeKeepsCovered
  <2>4. CASE EnvironmentNext \/ ConfiguratorNext
    BY <2>1, <2>4, OthersKeepCovered
  <2>. QED
    BY <2>2, <2>3, <2>4 DEF Next, PoolNext
<1>2. Spec => []DebtImpliesBorrowFlag
  BY EveryDebtHasItsFlag
<1>. QED
  BY <1>1, <1>2, MoneyAlways, PTL
     DEF Spec, ModerateDebts, HealthPreserved,
         HEALTH_FACTOR_LIQUIDATION_THRESHOLD
===============================================================================
