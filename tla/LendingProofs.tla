----------------------------- MODULE LendingProofs -----------------------------
(***************************************************************************)
(* Invariants of the composed protocol, proved for every set of users,     *)
(* assets and categories, every unit of the arithmetic and every choice of *)
(* the calls and arguments of users and admins.                            *)
(*                                                                         *)
(* The base is TypeOK /\ ParametersValid, inductive as a whole: that no    *)
(* ledger goes negative in a liquidation rests on the bonus being above    *)
(* 100 per cent and the protocol fee being at most all of it.  The other   *)
(* invariants are proved relative to it, one after the other.              *)
(***************************************************************************)
EXTENDS LendingProtocol, ArithmeticProofs

-------------------------------------------------------------------------------
(* Ledgers.                                                                *)

LEMMA CreditType ==
    ASSUME NEW H, NEW ledger \in [H -> [Assets -> Nat]], NEW h \in H, NEW r \in Assets,
           NEW n \in Nat
    PROVE  Credit(ledger, h, r, n) \in [H -> [Assets -> Nat]]
BY DEF Credit

LEMMA DebitType ==
    ASSUME NEW H, NEW ledger \in [H -> [Assets -> Nat]], NEW h \in H, NEW r \in Assets,
           NEW n \in Nat, n <= ledger[h][r]
    PROVE  Debit(ledger, h, r, n) \in [H -> [Assets -> Nat]]
BY DEF Debit

LEMMA MoveType ==
    ASSUME NEW H, NEW ledger \in [H -> [Assets -> Nat]], NEW from \in H, NEW to \in H,
           NEW r \in Assets, NEW n \in Nat, n <= ledger[from][r]
    PROVE  Move(ledger, from, to, r, n) \in [H -> [Assets -> Nat]]
BY CreditType, DebitType DEF Move

LEMMA IndexType ==
    ASSUME TypeOK, NEW r \in Assets
    PROVE  /\ liquidityIndex[r] \in Nat \ {0} /\ liquidityIndex[r] >= RAY
           /\ variableBorrowIndex[r] \in Nat \ {0} /\ variableBorrowIndex[r] >= RAY
BY MathAssumption DEF TypeOK

LEMMA BTokenBalanceNat ==
    ASSUME TypeOK, NEW h \in Holders, NEW r \in Assets
    PROVE  BTokenBalance(h, r) \in Nat
<1>1. scaledBToken[h][r] \in Nat
  BY DEF TypeOK
<1>. QED
  BY <1>1, IndexType, RayMulNat DEF BTokenBalance

LEMMA DebtNat ==
    ASSUME TypeOK, NEW u \in Users, NEW r \in Assets
    PROVE  /\ scaledDebt[u][r] \in Nat
           /\ stableDebt[u][r] \in Nat
           /\ VariableDebt(u, r) \in Nat
           /\ UserDebt(u, r) \in Nat
<1>1. scaledDebt[u][r] \in Nat /\ stableDebt[u][r] \in Nat
  BY DEF TypeOK
<1>2. VariableDebt(u, r) \in Nat
  BY <1>1, IndexType, RayMulNat DEF VariableDebt
<1>. QED
  BY <1>1, <1>2 DEF UserDebt

LEMMA ScaledNat ==
    ASSUME TypeOK, NEW r \in Assets, NEW amount \in Nat
    PROVE  BTokenScaled(r, amount) \in Nat /\ DebtScaled(r, amount) \in Nat
BY IndexType, RayDivNat DEF BTokenScaled, DebtScaled

LEMMA DebtCeilingAmountNat ==
    ASSUME NEW r \in Assets, NEW amount \in Nat
    PROVE  DebtCeilingAmount(r, amount) \in Nat
<1>1. /\ AssetUnit[r] \in Nat \ {0} /\ DEBT_CEILING_UNIT \in Nat \ {0}
      /\ DEBT_CEILING_UNIT <= AssetUnit[r]
  BY PoolAssumption
<1>2. AssetUnit[r] \div DEBT_CEILING_UNIT \in Nat \ {0}
  <2>. DEFINE q == AssetUnit[r] \div DEBT_CEILING_UNIT
  <2>1. q \in Nat /\ AssetUnit[r] < DEBT_CEILING_UNIT * q + DEBT_CEILING_UNIT
    BY <1>1, DivBounds
  <2>2. q # 0
    <3>. HIDE DEF q
    <3>1. ASSUME q = 0 PROVE FALSE
      <4>1. DEBT_CEILING_UNIT * q = 0
        BY <1>1, <3>1
      <4>. QED
        BY <1>1, <2>1, <4>1
    <3>. QED
      BY <3>1
  <2>. QED
    BY <2>1, <2>2
<1>. QED
  BY <1>2, DivBounds DEF DebtCeilingAmount

LEMMA TheOnlyOfSingleton ==
    ASSUME NEW r
    PROVE  TheOnly({r}) = r
BY DEF TheOnly

LEMMA IsolatedDebtType ==
    ASSUME TypeOK, NEW collaterals, NEW r \in Assets, NEW amount \in Nat
    PROVE  IsolatedDebtAfterRepay(collaterals, r, amount) \in [Assets -> Nat]
<1>1. isolationModeTotalDebt \in [Assets -> Nat] /\ DebtCeilingAmount(r, amount) \in Nat
  BY DebtCeilingAmountNat DEF TypeOK
<1>2. CASE InIsolation(collaterals)
  <2>1. PICK c \in Assets : collaterals = {c}
    BY <1>2 DEF InIsolation
  <2>2. TheOnly(collaterals) \in Assets
    BY <2>1, TheOnlyOfSingleton
  <2>. QED
    BY <1>1, <1>2, <2>2 DEF IsolatedDebtAfterRepay
<1>3. CASE ~InIsolation(collaterals)
  BY <1>1, <1>3 DEF IsolatedDebtAfterRepay
<1>. QED
  BY <1>2, <1>3

-------------------------------------------------------------------------------
(* Liquidation amounts.                                                    *)

LEMMA PriceSourceType ==
    ASSUME TypeOK, NEW u \in Users, NEW r \in Assets
    PROVE  /\ PriceSourceOf(u, r) \in Assets \cup PriceSources
           /\ DebtPriceSource(u, r) \in Assets \cup PriceSources
<1>1. EModePriceSource(u) \in PriceSources \cup {NoSource}
  <2>1. CASE eMode[u] = 0
    BY <2>1 DEF EModePriceSource
  <2>2. CASE eMode[u] # 0
    <3>1. eMode[u] \in Categories
      BY <2>2 DEF TypeOK, CategoryIds
    <3>2. eModeCategories[eMode[u]] \in EModeCategory
      BY <3>1 DEF TypeOK
    <3>. QED
      BY <2>2, <3>2 DEF EModePriceSource, EModeCategory
  <2>. QED
    BY <2>1, <2>2
<1>. QED
  BY <1>1 DEF PriceSourceOf, DebtPriceSource

LEMMA BonusAboveOne ==
    ASSUME TypeOK, ParametersValid, NEW u \in Users, NEW c \in Assets,
           config[c].liquidationThreshold # 0
    PROVE  /\ LiquidationBonusOf(u, c) \in Nat
           /\ LiquidationBonusOf(u, c) > PERCENTAGE_FACTOR
<1>1. CASE InEModeCategory(u, c)
  <2>1. eMode[u] \in Categories
    BY <1>1 DEF TypeOK, CategoryIds, InEModeCategory
  <2>2. eModeCategories[eMode[u]].liquidationThreshold # 0
    BY <1>1 DEF ParametersValid, InEModeCategory
  <2>3. eModeCategories[eMode[u]].liquidationBonus > PERCENTAGE_FACTOR
    BY <2>1, <2>2 DEF ParametersValid, EModeParamsAllowed, CollateralParamsAllowed
  <2>4. eModeCategories[eMode[u]].liquidationBonus \in Nat
    BY <2>1 DEF TypeOK, EModeCategory
  <2>. QED
    BY <1>1, <2>3, <2>4 DEF LiquidationBonusOf
<1>2. CASE ~InEModeCategory(u, c)
  <2>1. config[c].liquidationBonus > PERCENTAGE_FACTOR
    BY DEF ParametersValid, CollateralParamsAllowed
  <2>2. config[c].liquidationBonus \in Nat
    BY DEF TypeOK, ReserveConfig
  <2>. QED
    BY <1>2, <2>1, <2>2 DEF LiquidationBonusOf
<1>. QED
  BY <1>1, <1>2

\* The fee is a part of the bonus, so it is never more than what is seized.
LEMMA LiquidationFeeBound ==
    ASSUME TypeOK, ParametersValid, NEW c \in Assets, NEW amount \in Nat,
           NEW bonus \in Nat, bonus > PERCENTAGE_FACTOR
    PROVE  /\ LiquidationFee(c, bonus, amount) \in Nat
           /\ LiquidationFee(c, bonus, amount) <= amount
<1>. DEFINE base == PercentDiv(amount, bonus)
            rate == config[c].liquidationProtocolFee
<1>1. PERCENTAGE_FACTOR \in Nat \ {0} /\ bonus \in Nat \ {0}
  BY MathAssumption
<1>2. base \in Nat /\ base <= amount
  BY <1>1, PercentDivNat, PercentDivLe
<1>3. rate \in Nat /\ rate <= PERCENTAGE_FACTOR
  BY DEF TypeOK, ReserveConfig, ParametersValid
<1>. HIDE DEF base, rate
<1>4. amount - base \in Nat
  BY <1>2
<1>5. PercentMul(amount - base, rate) \in Nat /\ PercentMul(amount - base, rate) <= amount - base
  BY <1>3, <1>4, PercentMulNat, PercentMulLe
<1>. QED
  BY <1>2, <1>5 DEF LiquidationFee, base, rate

LEMMA AtMostNat ==
    ASSUME NEW a \in Nat, NEW b \in Nat
    PROVE  AtMost(a, b) \in Nat /\ AtMost(a, b) <= b /\ AtMost(a, b) <= a
BY DEF AtMost

LEMMA DebtToLiquidateNat ==
    ASSUME TypeOK, NEW u \in Users, NEW d \in Assets, NEW debtToCover \in Nat
    PROVE  DebtToLiquidate(u, d, debtToCover) \in Nat
<1>1. /\ DEFAULT_LIQUIDATION_CLOSE_FACTOR \in Nat
      /\ MAX_LIQUIDATION_CLOSE_FACTOR \in Nat
  BY MathAssumption, DivBounds
     DEF DEFAULT_LIQUIDATION_CLOSE_FACTOR, MAX_LIQUIDATION_CLOSE_FACTOR
<1>2. \A f \in Nat : PercentMul(UserDebt(u, d), f) \in Nat
  BY DebtNat, PercentMulNat
<1>. QED
  BY <1>1, <1>2, AtMostNat DEF DebtToLiquidate

LEMMA LiquidationAmountsNat ==
    ASSUME TypeOK, ParametersValid, NEW u \in Users, NEW c \in Assets, NEW d \in Assets,
           NEW debtToCover \in Nat, config[c].liquidationThreshold # 0
    PROVE  LET amounts == CollateralToLiquidate(u, c, d, debtToCover)
           IN  amounts.collateral \in Nat /\ amounts.debt \in Nat /\ amounts.fee \in Nat
<1>. DEFINE bonus == LiquidationBonusOf(u, c)
            debtUnitValue == price[DebtPriceSource(u, d)] * AssetUnit[c]
            collateralUnitValue == price[PriceSourceOf(u, c)] * AssetUnit[d]
            userBalance == BTokenBalance(u, c)
            maxCollateral ==
              PercentMul((debtToCover * debtUnitValue) \div collateralUnitValue, bonus)
            collateralAmount == CappedByBalance(maxCollateral, userBalance)
            fee == LiquidationFee(c, bonus, collateralAmount)
            debtNeeded ==
              PercentDiv((userBalance * collateralUnitValue) \div debtUnitValue, bonus)
<1>1. bonus \in Nat /\ bonus > PERCENTAGE_FACTOR /\ bonus # 0
  BY BonusAboveOne, MathAssumption
<1>2. debtUnitValue \in Nat \ {0} /\ collateralUnitValue \in Nat \ {0}
  <2>1. /\ price[DebtPriceSource(u, d)] \in Nat \ {0}
        /\ price[PriceSourceOf(u, c)] \in Nat \ {0}
    BY PriceSourceType DEF TypeOK
  <2>2. AssetUnit[c] \in Nat \ {0} /\ AssetUnit[d] \in Nat \ {0}
    BY PoolAssumption
  <2>. QED
    BY <2>1, <2>2
<1>3. userBalance \in Nat
  BY BTokenBalanceNat DEF Holders
<1>. HIDE DEF bonus, debtUnitValue, collateralUnitValue, userBalance
<1>4. (debtToCover * debtUnitValue) \div collateralUnitValue \in Nat
  BY <1>2, TimesNat, DivBounds
<1>5. maxCollateral \in Nat
  BY <1>1, <1>4, PercentMulNat
<1>6. (userBalance * collateralUnitValue) \div debtUnitValue \in Nat
  BY <1>2, <1>3, TimesNat, DivBounds
<1>7. debtNeeded \in Nat
  BY <1>1, <1>6, PercentDivNat
<1>. HIDE DEF maxCollateral, debtNeeded
<1>8. collateralAmount \in Nat
  BY <1>3, <1>5 DEF CappedByBalance
<1>. HIDE DEF collateralAmount
<1>9. fee \in Nat /\ fee <= collateralAmount
  BY <1>1, <1>8, LiquidationFeeBound
<1>. HIDE DEF fee
<1>10. collateralAmount - fee \in Nat
  BY <1>8, <1>9
<1>11. CollateralToLiquidate(u, c, d, debtToCover) =
         [collateral |-> collateralAmount - fee,
          debt |-> IF maxCollateral > userBalance THEN debtNeeded ELSE debtToCover,
          fee |-> fee]
  BY DEF CollateralToLiquidate, bonus, debtUnitValue, collateralUnitValue, userBalance,
         maxCollateral, debtNeeded, collateralAmount, fee
<1>. QED
  BY <1>7, <1>9, <1>10, <1>11

-------------------------------------------------------------------------------
(* Every action preserves the types.                                       *)

LEMMA SupplyType ==
    ASSUME TypeOK, NEW sender \in Users, NEW u \in Users, NEW r \in Assets,
           NEW amount \in Nat, Supply(sender, u, r, amount)
    PROVE  TypeOK'
<1>1. scaledBToken' \in [Holders -> [Assets -> Nat]]
  <2>1. scaledBToken' = Credit(scaledBToken, u, r, BTokenScaled(r, amount))
    BY DEF Supply, MintBToken
  <2>2. u \in Holders /\ scaledBToken \in [Holders -> [Assets -> Nat]]
    BY DEF Holders, TypeOK
  <2>. QED
    BY <2>1, <2>2, ScaledNat, CreditType
<1>2. cash' \in [Assets -> Nat]
  BY DEF Supply, TypeOK
<1>3. usingAsCollateral' \in [Users -> SUBSET Assets]
  <2>1. PICK enable \in BOOLEAN : usingAsCollateral' =
          [usingAsCollateral EXCEPT ![u] = IF enable THEN @ \cup {r} ELSE @]
    BY DEF Supply
  <2>. QED
    BY <2>1 DEF TypeOK
<1>4. UNCHANGED <<oracleVars, configVars, indexVars, debtVars, borrowing, eMode,
                  isolationModeTotalDebt>>
  BY DEF Supply
<1>. QED
  BY <1>1, <1>2, <1>3, <1>4 DEF TypeOK, oracleVars, configVars, indexVars, debtVars

LEMMA WithdrawType ==
    ASSUME TypeOK, NEW sender \in Users, NEW r \in Assets, NEW amount \in Nat,
           Withdraw(sender, r, amount)
    PROVE  TypeOK'
<1>1. PICK n \in Nat :
        /\ n <= cash[r]
        /\ usingAsCollateral' \in [Users -> SUBSET Assets]
        /\ BurnBToken(sender, r, n)
        /\ cash' = [cash EXCEPT ![r] = @ - n]
  <2>1. BTokenBalance(sender, r) \in Nat
    BY BTokenBalanceNat DEF Holders
  <2>2. PICK n \in Nat :
          /\ n <= cash[r]
          /\ usingAsCollateral' = [usingAsCollateral EXCEPT ![sender] =
                IF n = BTokenBalance(sender, r) THEN @ \ {r} ELSE @]
          /\ BurnBToken(sender, r, n)
          /\ cash' = [cash EXCEPT ![r] = @ - n]
    BY <2>1 DEF Withdraw
  <2>3. usingAsCollateral' \in [Users -> SUBSET Assets]
    BY <2>2 DEF TypeOK
  <2>. QED
    BY <2>2, <2>3
<1>2. scaledBToken' \in [Holders -> [Assets -> Nat]]
  <2>1. sender \in Holders /\ scaledBToken \in [Holders -> [Assets -> Nat]]
    BY DEF Holders, TypeOK
  <2>2. /\ BTokenScaled(r, n) \in Nat
        /\ BTokenScaled(r, n) <= scaledBToken[sender][r]
        /\ scaledBToken' = Debit(scaledBToken, sender, r, BTokenScaled(r, n))
    BY <1>1, <2>1, ScaledNat DEF BurnBToken
  <2>. QED
    BY <2>1, <2>2, DebitType
<1>3. cash' \in [Assets -> Nat]
  BY <1>1 DEF TypeOK
<1>4. UNCHANGED <<oracleVars, configVars, indexVars, debtVars, borrowing, eMode,
                  isolationModeTotalDebt>>
  BY DEF Withdraw
<1>. QED
  BY <1>1, <1>2, <1>3, <1>4 DEF TypeOK, oracleVars, configVars, indexVars, debtVars

LEMMA TransferType ==
    ASSUME TypeOK, NEW from \in Users, NEW to \in Users, NEW r \in Assets,
           NEW amount \in Nat, Transfer(from, to, r, amount)
    PROVE  TypeOK'
<1>1. scaledBToken' \in [Holders -> [Assets -> Nat]]
  <2>1. /\ from \in Holders /\ to \in Holders
        /\ scaledBToken \in [Holders -> [Assets -> Nat]]
    BY DEF Holders, TypeOK
  <2>2. /\ BTokenScaled(r, amount) <= scaledBToken[from][r]
        /\ scaledBToken' = Move(scaledBToken, from, to, r, BTokenScaled(r, amount))
    BY DEF Transfer
  <2>. QED
    BY <2>1, <2>2, ScaledNat, MoveType
<1>2. usingAsCollateral' \in [Users -> SUBSET Assets]
  <2>1. PICK enable \in BOOLEAN, disable \in BOOLEAN : usingAsCollateral' =
          [usingAsCollateral EXCEPT ![from] = IF disable THEN @ \ {r} ELSE @,
                                    ![to] = IF enable THEN @ \cup {r} ELSE @]
    BY DEF Transfer
  <2>. QED
    BY <2>1 DEF TypeOK
<1>3. UNCHANGED <<oracleVars, configVars, indexVars, debtVars, borrowing, eMode, cash,
                  isolationModeTotalDebt>>
  BY DEF Transfer
<1>. QED
  BY <1>1, <1>2, <1>3 DEF TypeOK, oracleVars, configVars, indexVars, debtVars

LEMMA SetUserUseReserveAsCollateralType ==
    ASSUME TypeOK, NEW sender \in Users, NEW r \in Assets, NEW use \in BOOLEAN,
           SetUserUseReserveAsCollateral(sender, r, use)
    PROVE  TypeOK'
<1>1. usingAsCollateral' = [usingAsCollateral EXCEPT
                              ![sender] = SetUsingAsCollateral(@, r, use)]
  BY DEF SetUserUseReserveAsCollateral
<1>2. usingAsCollateral' \in [Users -> SUBSET Assets]
  BY <1>1 DEF TypeOK, SetUsingAsCollateral
<1>3. UNCHANGED <<oracleVars, configVars, indexVars, debtVars, borrowing, eMode,
                  scaledBToken, cash, isolationModeTotalDebt>>
  BY DEF SetUserUseReserveAsCollateral
<1>. QED
  BY <1>2, <1>3 DEF TypeOK, oracleVars, configVars, indexVars, debtVars

LEMMA BorrowType ==
    ASSUME TypeOK, NEW u \in Users, NEW r \in Assets, NEW amount \in Nat,
           NEW mode \in RateModes, Borrow(u, r, amount, mode)
    PROVE  TypeOK'
<1>1. /\ scaledDebt' \in [Users -> [Assets -> Nat]]
      /\ stableDebt' \in [Users -> [Assets -> Nat]]
  <2>1. /\ scaledDebt \in [Users -> [Assets -> Nat]]
        /\ stableDebt \in [Users -> [Assets -> Nat]]
    BY DEF TypeOK
  <2>2. \/ /\ scaledDebt' = Credit(scaledDebt, u, r, DebtScaled(r, amount))
           /\ stableDebt' = stableDebt
        \/ /\ stableDebt' = Credit(stableDebt, u, r, amount)
           /\ scaledDebt' = scaledDebt
    BY DEF Borrow, MintDebt, MintVariableDebt, MintStableDebt
  <2>3. /\ Credit(scaledDebt, u, r, DebtScaled(r, amount)) \in [Users -> [Assets -> Nat]]
        /\ Credit(stableDebt, u, r, amount) \in [Users -> [Assets -> Nat]]
    BY <2>1, ScaledNat, CreditType
  <2>. QED
    BY <2>1, <2>2, <2>3
<1>2. borrowing' \in [Users -> SUBSET Assets]
  <2>1. PICK first \in BOOLEAN :
          borrowing' = [borrowing EXCEPT ![u] = IF first THEN @ \cup {r} ELSE @]
    <3>1. CASE mode = "VARIABLE"
      BY <3>1 DEF Borrow
    <3>2. CASE mode # "VARIABLE"
      BY <3>2 DEF Borrow
    <3>. QED
      BY <3>1, <3>2
  <2>. QED
    BY <2>1 DEF TypeOK
<1>3. isolationModeTotalDebt' \in [Assets -> Nat]
  <2>1. /\ isolationModeTotalDebt \in [Assets -> Nat]
        /\ DebtCeilingAmount(r, amount) \in Nat
    BY DebtCeilingAmountNat DEF TypeOK
  <2>2. CASE IsolationModeActive(u)
    <3>1. PICK c \in Assets : usingAsCollateral[u] = {c}
      BY <2>2 DEF IsolationModeActive, InIsolation
    <3>2. isolationModeTotalDebt' =
            [isolationModeTotalDebt EXCEPT ![c] = @ + DebtCeilingAmount(r, amount)]
      BY <2>2, <3>1, TheOnlyOfSingleton DEF Borrow
    <3>. QED
      BY <2>1, <3>2
  <2>3. CASE ~IsolationModeActive(u)
    BY <2>1, <2>3 DEF Borrow
  <2>. QED
    BY <2>2, <2>3
<1>4. cash' \in [Assets -> Nat]
  BY DEF Borrow, TypeOK
<1>5. UNCHANGED <<oracleVars, configVars, indexVars, scaledBToken, usingAsCollateral, eMode>>
  BY DEF Borrow
<1>. QED
  BY <1>1, <1>2, <1>3, <1>4, <1>5 DEF TypeOK, oracleVars, configVars, indexVars

LEMMA BurnDebtType ==
    ASSUME TypeOK, NEW u \in Users, NEW r \in Assets, NEW amount \in Nat,
           NEW mode \in RateModes, BurnDebt(u, r, amount, mode)
    PROVE  /\ scaledDebt' \in [Users -> [Assets -> Nat]]
           /\ stableDebt' \in [Users -> [Assets -> Nat]]
<1>1. /\ scaledDebt \in [Users -> [Assets -> Nat]]
      /\ stableDebt \in [Users -> [Assets -> Nat]]
  BY DEF TypeOK
<1>2. \/ /\ DebtScaled(r, amount) <= scaledDebt[u][r]
         /\ scaledDebt' = Debit(scaledDebt, u, r, DebtScaled(r, amount))
         /\ stableDebt' = stableDebt
      \/ /\ amount <= stableDebt[u][r]
         /\ stableDebt' = Debit(stableDebt, u, r, amount)
         /\ scaledDebt' = scaledDebt
  BY <1>1 DEF BurnDebt, BurnVariableDebt, BurnStableDebt
<1>3. DebtScaled(r, amount) <= scaledDebt[u][r] =>
        Debit(scaledDebt, u, r, DebtScaled(r, amount)) \in [Users -> [Assets -> Nat]]
  BY <1>1, ScaledNat, DebitType
<1>4. amount <= stableDebt[u][r] =>
        Debit(stableDebt, u, r, amount) \in [Users -> [Assets -> Nat]]
  BY <1>1, DebitType
<1>. QED
  BY <1>1, <1>2, <1>3, <1>4

LEMMA RepayDebtType ==
    ASSUME TypeOK, NEW u \in Users, NEW r \in Assets, NEW amount \in Nat,
           NEW mode \in RateModes, RepayDebt(u, r, amount, mode)
    PROVE  /\ scaledDebt' \in [Users -> [Assets -> Nat]]
           /\ stableDebt' \in [Users -> [Assets -> Nat]]
           /\ borrowing' \in [Users -> SUBSET Assets]
           /\ isolationModeTotalDebt' \in [Assets -> Nat]
<1>1. /\ scaledDebt' \in [Users -> [Assets -> Nat]]
      /\ stableDebt' \in [Users -> [Assets -> Nat]]
  BY BurnDebtType DEF RepayDebt
<1>2. borrowing' \in [Users -> SUBSET Assets]
  BY DEF RepayDebt, TypeOK
<1>3. isolationModeTotalDebt' \in [Assets -> Nat]
  BY IsolatedDebtType DEF RepayDebt
<1>. QED
  BY <1>1, <1>2, <1>3

LEMMA DebtInModeNat ==
    ASSUME TypeOK, NEW u \in Users, NEW r \in Assets, NEW mode \in RateModes
    PROVE  DebtInMode(u, r, mode) \in Nat
BY DebtNat DEF DebtInMode

LEMMA RepayType ==
    ASSUME TypeOK, NEW sender \in Users, NEW u \in Users, NEW r \in Assets,
           NEW amount \in Nat, NEW mode \in RateModes, Repay(sender, u, r, amount, mode)
    PROVE  TypeOK'
<1>1. PICK n \in Nat : RepayDebt(u, r, n, mode) /\ cash' = [cash EXCEPT ![r] = @ + n]
  BY DebtInModeNat, AtMostNat DEF Repay
<1>2. cash' \in [Assets -> Nat]
  BY <1>1 DEF TypeOK
<1>3. UNCHANGED <<oracleVars, configVars, indexVars, scaledBToken, usingAsCollateral, eMode>>
  BY DEF Repay
<1>. QED
  BY <1>1, <1>2, <1>3, RepayDebtType DEF TypeOK, oracleVars, configVars, indexVars

LEMMA RepayWithBTokensType ==
    ASSUME TypeOK, NEW sender \in Users, NEW r \in Assets,
           NEW amount \in Nat, NEW mode \in RateModes,
           RepayWithBTokens(sender, r, amount, mode)
    PROVE  TypeOK'
<1>1. PICK n \in Nat : RepayDebt(sender, r, n, mode) /\ BurnBToken(sender, r, n)
  <2>1. BTokenBalance(sender, r) \in Nat
    BY BTokenBalanceNat DEF Holders
  <2>. QED
    BY <2>1, DebtInModeNat, AtMostNat DEF RepayWithBTokens
<1>2. scaledBToken' \in [Holders -> [Assets -> Nat]]
  <2>1. sender \in Holders /\ scaledBToken \in [Holders -> [Assets -> Nat]]
    BY DEF Holders, TypeOK
  <2>2. /\ BTokenScaled(r, n) \in Nat
        /\ BTokenScaled(r, n) <= scaledBToken[sender][r]
        /\ scaledBToken' = Debit(scaledBToken, sender, r, BTokenScaled(r, n))
    BY <1>1, <2>1, ScaledNat DEF BurnBToken
  <2>. QED
    BY <2>1, <2>2, DebitType
<1>3. UNCHANGED <<oracleVars, configVars, indexVars, usingAsCollateral, eMode, cash>>
  BY DEF RepayWithBTokens
<1>. QED
  BY <1>1, <1>2, <1>3, RepayDebtType DEF TypeOK, oracleVars, configVars, indexVars

LEMMA SwapBorrowRateModeType ==
    ASSUME TypeOK, NEW sender \in Users, NEW r \in Assets, NEW mode \in RateModes,
           SwapBorrowRateMode(sender, r, mode)
    PROVE  TypeOK'
<1>. DEFINE s == stableDebt[sender][r]
            v == VariableDebt(sender, r)
<1>1. /\ scaledDebt \in [Users -> [Assets -> Nat]]
      /\ stableDebt \in [Users -> [Assets -> Nat]]
      /\ s \in Nat /\ v \in Nat
  BY DebtNat DEF TypeOK
<1>2. \/ /\ stableDebt' = Debit(stableDebt, sender, r, s)
         /\ scaledDebt' = Credit(scaledDebt, sender, r, DebtScaled(r, s))
      \/ /\ DebtScaled(r, v) <= scaledDebt[sender][r]
         /\ scaledDebt' = Debit(scaledDebt, sender, r, DebtScaled(r, v))
         /\ stableDebt' = Credit(stableDebt, sender, r, v)
  BY <1>1 DEF SwapBorrowRateMode, BurnStableDebt, MintVariableDebt, BurnVariableDebt,
              MintStableDebt
<1>3. /\ scaledDebt' \in [Users -> [Assets -> Nat]]
      /\ stableDebt' \in [Users -> [Assets -> Nat]]
  <2>. HIDE DEF v
  <2>1. DebtScaled(r, s) \in Nat /\ DebtScaled(r, v) \in Nat
    BY <1>1, ScaledNat
  <2>2. /\ Debit(stableDebt, sender, r, s) \in [Users -> [Assets -> Nat]]
        /\ Credit(scaledDebt, sender, r, DebtScaled(r, s)) \in [Users -> [Assets -> Nat]]
    <3>1. s <= stableDebt[sender][r]
      BY <1>1
    <3>2. Debit(stableDebt, sender, r, s) \in [Users -> [Assets -> Nat]]
      <4>. HIDE DEF s
      <4>. QED
        BY <1>1, <3>1, DebitType
    <3>3. Credit(scaledDebt, sender, r, DebtScaled(r, s)) \in [Users -> [Assets -> Nat]]
      BY <1>1, <2>1, CreditType
    <3>. QED
      BY <3>2, <3>3
  <2>3. Credit(stableDebt, sender, r, v) \in [Users -> [Assets -> Nat]]
    BY <1>1, CreditType
  <2>4. DebtScaled(r, v) <= scaledDebt[sender][r] =>
          Debit(scaledDebt, sender, r, DebtScaled(r, v)) \in [Users -> [Assets -> Nat]]
    BY <1>1, <2>1, DebitType
  <2>. QED
    BY <1>2, <2>2, <2>3, <2>4
<1>4. UNCHANGED <<oracleVars, configVars, indexVars, userVars, scaledBToken, cash,
                  isolationModeTotalDebt>>
  BY DEF SwapBorrowRateMode
<1>. QED
  BY <1>3, <1>4 DEF TypeOK, oracleVars, configVars, indexVars, userVars

LEMMA SetUserEModeType ==
    ASSUME TypeOK, NEW sender \in Users, NEW c \in CategoryIds, SetUserEMode(sender, c)
    PROVE  TypeOK'
<1>1. eMode' \in [Users -> CategoryIds]
  BY DEF SetUserEMode, TypeOK
<1>2. UNCHANGED <<oracleVars, configVars, indexVars, debtVars, usingAsCollateral,
                  borrowing, scaledBToken, cash, isolationModeTotalDebt>>
  BY DEF SetUserEMode
<1>. QED
  BY <1>1, <1>2 DEF TypeOK, oracleVars, configVars, indexVars, debtVars

LEMMA BurnDebtTokensType ==
    ASSUME TypeOK, NEW u \in Users, NEW r \in Assets, NEW amount \in Nat,
           BurnDebtTokens(u, r, amount)
    PROVE  /\ scaledDebt' \in [Users -> [Assets -> Nat]]
           /\ stableDebt' \in [Users -> [Assets -> Nat]]
<1>. DEFINE v == VariableDebt(u, r)
<1>1. /\ scaledDebt \in [Users -> [Assets -> Nat]]
      /\ stableDebt \in [Users -> [Assets -> Nat]]
      /\ v \in Nat
  BY DebtNat DEF TypeOK
<1>2. ASSUME NEW n \in Nat, BurnVariableDebt(u, r, n)
      PROVE  scaledDebt' \in [Users -> [Assets -> Nat]]
  <2>1. DebtScaled(r, n) \in Nat
    BY <1>2, ScaledNat
  <2>2. /\ DebtScaled(r, n) <= scaledDebt[u][r]
        /\ scaledDebt' = Debit(scaledDebt, u, r, DebtScaled(r, n))
    BY <1>1, <1>2, <2>1 DEF BurnVariableDebt
  <2>. QED
    BY <1>1, <2>1, <2>2, DebitType
<1>3. ASSUME NEW n \in Nat, BurnStableDebt(u, r, n)
      PROVE  stableDebt' \in [Users -> [Assets -> Nat]]
  BY <1>1, <1>3, DebitType DEF BurnStableDebt
<1>4. CASE v >= amount /\ BurnVariableDebt(u, r, amount) /\ UNCHANGED stableDebt
  BY <1>1, <1>2, <1>4
<1>5. CASE /\ v < amount
           /\ BurnVariableDebt(u, r, v) \/ UNCHANGED scaledDebt
           /\ BurnStableDebt(u, r, amount - v)
  <2>. HIDE DEF v
  <2>1. amount - v \in Nat
    BY <1>1, <1>5
  <2>. QED
    BY <1>1, <1>2, <1>3, <1>5, <2>1
<1>. QED
  BY <1>4, <1>5 DEF BurnDebtTokens

LEMMA SeizeCollateralType ==
    ASSUME TypeOK, NEW liquidator \in Users, NEW u \in Users, NEW r \in Assets,
           NEW amounts, amounts.collateral \in Nat, amounts.fee \in Nat,
           NEW receive \in BOOLEAN, SeizeCollateral(liquidator, u, r, amounts, receive)
    PROVE  scaledBToken' \in [Holders -> [Assets -> Nat]]
<1>. DEFINE seized == BTokenScaled(r, amounts.collateral)
            ledger == IF receive THEN Move(scaledBToken, u, liquidator, r, seized)
                                 ELSE Debit(scaledBToken, u, r, seized)
            fee == AtMost(BTokenScaled(r, amounts.fee), ledger[u][r])
<1>1. /\ u \in Holders /\ liquidator \in Holders /\ Treasury \in Holders
      /\ scaledBToken \in [Holders -> [Assets -> Nat]]
  BY DEF Holders, TypeOK
<1>2. seized \in Nat /\ BTokenScaled(r, amounts.fee) \in Nat
  BY ScaledNat
<1>3. seized <= scaledBToken[u][r]
  BY <1>1, <1>2 DEF SeizeCollateral
<1>4. ledger \in [Holders -> [Assets -> Nat]]
  BY <1>1, <1>2, <1>3, MoveType, DebitType
<1>5. scaledBToken' = IF amounts.fee = 0 THEN ledger ELSE Move(ledger, u, Treasury, r, fee)
  BY DEF SeizeCollateral
<1>. HIDE DEF ledger
<1>6. fee \in Nat /\ fee <= ledger[u][r]
  BY <1>1, <1>2, <1>4, AtMostNat
<1>. HIDE DEF fee
<1>7. Move(ledger, u, Treasury, r, fee) \in [Holders -> [Assets -> Nat]]
  BY <1>1, <1>4, <1>6, MoveType
<1>. QED
  BY <1>4, <1>5, <1>7

LEMMA LiquidationCallType ==
    ASSUME TypeOK, ParametersValid, NEW liquidator \in Users, NEW u \in Users,
           NEW c \in Assets, NEW d \in Assets, NEW n \in Nat, NEW receive \in BOOLEAN,
           LiquidationCall(liquidator, u, c, d, n, receive)
    PROVE  TypeOK'
<1>. DEFINE amounts == CollateralToLiquidate(u, c, d, DebtToLiquidate(u, d, n))
            released == IF receive THEN 0 ELSE amounts.collateral
<1>1. amounts.collateral \in Nat /\ amounts.debt \in Nat /\ amounts.fee \in Nat
  <2>1. config[c].liquidationThreshold # 0
    BY DEF LiquidationCall, ValidateLiquidationCall
  <2>. QED
    BY <2>1, DebtToLiquidateNat, LiquidationAmountsNat
<1>2. /\ BurnDebtTokens(u, d, amounts.debt)
      /\ SeizeCollateral(liquidator, u, c, amounts, receive)
      /\ released <= cash[c]
      /\ cash' = [[cash EXCEPT ![c] = @ - released] EXCEPT ![d] = @ + amounts.debt]
  BY DEF LiquidationCall
<1>3. borrowing' \in [Users -> SUBSET Assets]
  <2>1. borrowing' = [borrowing EXCEPT ![u] =
                        IF UserDebt(u, d) = amounts.debt THEN @ \ {d} ELSE @]
    BY DEF LiquidationCall
  <2>. QED
    BY <2>1 DEF TypeOK
<1>4. PICK all \in BOOLEAN, enable \in BOOLEAN :
        LET collaterals == [usingAsCollateral EXCEPT ![u] = IF all THEN @ \ {c} ELSE @]
        IN  /\ usingAsCollateral' = [collaterals EXCEPT ![liquidator] =
                                       IF enable THEN @ \cup {c} ELSE @]
            /\ isolationModeTotalDebt' =
                 IsolatedDebtAfterRepay(collaterals[u], d, amounts.debt)
  BY DEF LiquidationCall
<1>5. UNCHANGED <<oracleVars, configVars, indexVars, eMode>>
  BY DEF LiquidationCall
<1>. HIDE DEF amounts
<1>6. usingAsCollateral' \in [Users -> SUBSET Assets]
  BY <1>4 DEF TypeOK
<1>7. isolationModeTotalDebt' \in [Assets -> Nat]
  BY <1>1, <1>4, IsolatedDebtType
<1>8. cash' \in [Assets -> Nat]
  BY <1>1, <1>2 DEF TypeOK
<1>9. /\ scaledDebt' \in [Users -> [Assets -> Nat]]
      /\ stableDebt' \in [Users -> [Assets -> Nat]]
      /\ scaledBToken' \in [Holders -> [Assets -> Nat]]
  BY <1>1, <1>2, BurnDebtTokensType, SeizeCollateralType
<1>. QED
  BY <1>3, <1>5, <1>6, <1>7, <1>8, <1>9 DEF TypeOK, oracleVars, configVars, indexVars

LEMMA AccrueInterestType ==
    ASSUME TypeOK, NEW r \in Assets, AccrueInterest(r)
    PROVE  TypeOK'
<1>1. /\ liquidityIndex \in [Assets -> {i \in Nat : i >= RAY}]
      /\ variableBorrowIndex \in [Assets -> {i \in Nat : i >= RAY}]
      /\ stableDebt \in [Users -> [Assets -> Nat]]
      /\ RAY \in Nat /\ MaxIndex \in Nat /\ MaxAccrual \in Nat
  BY MathAssumption, PoolInputAssumption DEF TypeOK
<1>2. PICK li \in liquidityIndex[r]..MaxIndex, vi \in variableBorrowIndex[r]..MaxIndex,
           growth \in [Users -> 0..MaxAccrual] :
        /\ liquidityIndex' = [liquidityIndex EXCEPT ![r] = li]
        /\ variableBorrowIndex' = [variableBorrowIndex EXCEPT ![r] = vi]
        /\ stableDebt' = [u \in Users |-> [stableDebt[u] EXCEPT ![r] = @ + growth[u]]]
  BY DEF AccrueInterest
<1>3. li \in Nat /\ li >= RAY /\ vi \in Nat /\ vi >= RAY
  BY <1>1
<1>4. /\ liquidityIndex' \in [Assets -> {i \in Nat : i >= RAY}]
      /\ variableBorrowIndex' \in [Assets -> {i \in Nat : i >= RAY}]
  BY <1>1, <1>2, <1>3
<1>5. stableDebt' \in [Users -> [Assets -> Nat]]
  <2>1. ASSUME NEW u \in Users
        PROVE  [stableDebt[u] EXCEPT ![r] = @ + growth[u]] \in [Assets -> Nat]
    <3>1. growth[u] \in Nat
      BY <1>1
    <3>. QED
      BY <1>1, <3>1
  <2>. QED
    BY <1>2, <2>1
<1>6. UNCHANGED <<oracleVars, configVars, userVars, scaledDebt, scaledBToken, cash,
                  isolationModeTotalDebt>>
  BY DEF AccrueInterest
<1>. QED
  BY <1>4, <1>5, <1>6 DEF TypeOK, oracleVars, configVars, userVars

LEMMA ChangePriceType ==
    ASSUME TypeOK, NEW s \in Assets \cup PriceSources, ChangePrice(s)
    PROVE  TypeOK'
<1>1. price' \in [Assets \cup PriceSources -> Nat \ {0}]
  BY PoolInputAssumption DEF ChangePrice, TypeOK
<1>2. UNCHANGED <<sentinelUp, configVars, indexVars, debtVars, userVars, scaledBToken,
                  cash, isolationModeTotalDebt>>
  BY DEF ChangePrice
<1>. QED
  BY <1>1, <1>2 DEF TypeOK, configVars, indexVars, debtVars, userVars

LEMMA SequencerChangeType ==
    ASSUME TypeOK, SequencerChange
    PROVE  TypeOK'
BY DEF SequencerChange, TypeOK, configVars, indexVars, debtVars, userVars

\* A reserve configuration with one parameter changed is a reserve configuration.
LEMMA ReserveConfigUpdate ==
    ASSUME NEW c \in ReserveConfig
    PROVE  /\ \A n \in Nat : /\ [c EXCEPT !.supplyCap = n] \in ReserveConfig
                            /\ [c EXCEPT !.borrowCap = n] \in ReserveConfig
                            /\ [c EXCEPT !.debtCeiling = n] \in ReserveConfig
                            /\ [c EXCEPT !.liquidationProtocolFee = n] \in ReserveConfig
           /\ \A b \in BOOLEAN : /\ [c EXCEPT !.active = b] \in ReserveConfig
                                /\ [c EXCEPT !.frozen = b] \in ReserveConfig
                                /\ [c EXCEPT !.paused = b] \in ReserveConfig
                                /\ [c EXCEPT !.borrowingEnabled = b] \in ReserveConfig
                                /\ [c EXCEPT !.stableRateBorrowingEnabled = b] \in ReserveConfig
                                /\ [c EXCEPT !.borrowableInIsolation = b] \in ReserveConfig
                                /\ [c EXCEPT !.siloedBorrowing = b] \in ReserveConfig
           /\ \A e \in CategoryIds : [c EXCEPT !.eModeCategory = e] \in ReserveConfig
           /\ \A l, t, b \in Nat :
                [c EXCEPT !.ltv = l, !.liquidationThreshold = t, !.liquidationBonus = b]
                  \in ReserveConfig
BY DEF ReserveConfig

LEMMA ConfiguratorType ==
    ASSUME TypeOK, ConfiguratorNext
    PROVE  TypeOK'
<1>. USE DEF UnchangedButReserves, oracleVars, indexVars, debtVars, userVars
<1>0. config \in [Assets -> ReserveConfig] /\ isolationModeTotalDebt \in [Assets -> Nat]
  BY DEF TypeOK
<1>1. ASSUME NEW r \in Assets, NEW p \in CollateralParams, ConfigureReserveAsCollateral(r, p)
      PROVE  TypeOK'
  <2>1. p.ltv \in Nat /\ p.liquidationThreshold \in Nat /\ p.liquidationBonus \in Nat
    BY ConfiguratorInputAssumption
  <2>2. [config[r] EXCEPT !.ltv = p.ltv, !.liquidationThreshold = p.liquidationThreshold,
                          !.liquidationBonus = p.liquidationBonus] \in ReserveConfig
    BY <1>0, <2>1, ReserveConfigUpdate
  <2>3. config' \in [Assets -> ReserveConfig]
    BY <1>0, <1>1, <2>2 DEF ConfigureReserveAsCollateral
  <2>. QED
    BY <1>1, <2>3 DEF TypeOK, ConfigureReserveAsCollateral
<1>2. ASSUME NEW r \in Assets, NEW n \in CeilingInputs, SetDebtCeiling(r, n)
      PROVE  TypeOK'
  <2>1. [config[r] EXCEPT !.debtCeiling = n] \in ReserveConfig
    BY <1>0, ConfiguratorInputAssumption, ReserveConfigUpdate
  <2>2. config' \in [Assets -> ReserveConfig]
    BY <1>0, <1>2, <2>1 DEF SetDebtCeiling
  <2>3. isolationModeTotalDebt' \in [Assets -> Nat]
    BY <1>0, <1>2 DEF SetDebtCeiling
  <2>. QED
    BY <1>2, <2>2, <2>3 DEF TypeOK, SetDebtCeiling
<1>3. ASSUME NEW r \in Assets, NEW n \in CapInputs, SetBorrowCap(r, n) \/ SetSupplyCap(r, n)
      PROVE  TypeOK'
  <2>1. /\ [config[r] EXCEPT !.borrowCap = n] \in ReserveConfig
        /\ [config[r] EXCEPT !.supplyCap = n] \in ReserveConfig
    BY <1>0, ConfiguratorInputAssumption, ReserveConfigUpdate
  <2>2. config' \in [Assets -> ReserveConfig]
    BY <1>0, <1>3, <2>1 DEF SetBorrowCap, SetSupplyCap
  <2>. QED
    BY <1>3, <2>2 DEF TypeOK, SetBorrowCap, SetSupplyCap
<1>4. ASSUME NEW r \in Assets, NEW n \in FeeInputs, SetLiquidationProtocolFee(r, n)
      PROVE  TypeOK'
  <2>1. [config[r] EXCEPT !.liquidationProtocolFee = n] \in ReserveConfig
    BY <1>0, ConfiguratorInputAssumption, ReserveConfigUpdate
  <2>2. config' \in [Assets -> ReserveConfig]
    BY <1>0, <1>4, <2>1 DEF SetLiquidationProtocolFee
  <2>. QED
    BY <1>4, <2>2 DEF TypeOK, SetLiquidationProtocolFee
<1>5. ASSUME NEW r \in Assets, NEW c \in CategoryIds, SetAssetEModeCategory(r, c)
      PROVE  TypeOK'
  <2>1. [config[r] EXCEPT !.eModeCategory = c] \in ReserveConfig
    BY <1>0, ReserveConfigUpdate
  <2>2. config' \in [Assets -> ReserveConfig]
    BY <1>0, <1>5, <2>1 DEF SetAssetEModeCategory
  <2>. QED
    BY <1>5, <2>2 DEF TypeOK, SetAssetEModeCategory
<1>6. ASSUME NEW c \in Categories, NEW p \in EModeParams, SetEModeCategory(c, p)
      PROVE  TypeOK'
  <2>1. eModeCategories' \in [Categories -> EModeCategory]
    BY <1>6, ConfiguratorInputAssumption DEF TypeOK, SetEModeCategory
  <2>. QED
    BY <1>6, <2>1 DEF TypeOK, SetEModeCategory
<1>7. ASSUME NEW r \in Assets, NEW on \in BOOLEAN,
             \/ SetReserveBorrowing(r, on) \/ SetReserveStableRateBorrowing(r, on)
             \/ SetReserveActive(r, on) \/ SetReserveFreeze(r, on)
             \/ SetBorrowableInIsolation(r, on) \/ SetReservePause(r, on)
             \/ SetPoolPause(on) \/ SetSiloedBorrowing(r, on)
      PROVE  TypeOK'
  <2>. USE DEF SetReserveBorrowing, SetReserveStableRateBorrowing, SetReserveActive,
               SetReserveFreeze, SetBorrowableInIsolation, SetReservePause, SetPoolPause,
               SetSiloedBorrowing
  <2>1. \A a \in Assets :
          /\ [config[a] EXCEPT !.borrowingEnabled = on] \in ReserveConfig
          /\ [config[a] EXCEPT !.stableRateBorrowingEnabled = on] \in ReserveConfig
          /\ [config[a] EXCEPT !.active = on] \in ReserveConfig
          /\ [config[a] EXCEPT !.frozen = on] \in ReserveConfig
          /\ [config[a] EXCEPT !.borrowableInIsolation = on] \in ReserveConfig
          /\ [config[a] EXCEPT !.paused = on] \in ReserveConfig
          /\ [config[a] EXCEPT !.siloedBorrowing = on] \in ReserveConfig
    BY <1>0, ReserveConfigUpdate
  <2>2. config' \in [Assets -> ReserveConfig]
    BY <1>0, <1>7, <2>1
  <2>. QED
    BY <1>7, <2>2 DEF TypeOK
<1>. QED
  BY <1>1, <1>2, <1>3, <1>4, <1>5, <1>6, <1>7
     DEF ConfiguratorNext, RiskAdminNext, EModeAdminNext, SwitchNext

AmountType == Amounts \subseteq Nat /\ AmountsOrMax \subseteq Nat

LEMMA AmountsNat == AmountType
BY PoolInputAssumption, PoolAssumption DEF AmountType, AmountsOrMax

-------------------------------------------------------------------------------
(* Parameters.                                                             *)

\* Neither users nor the environment touch the configuration.
LEMMA OnlyAdminsConfigure ==
    ASSUME UserNext \/ EnvironmentNext
    PROVE  UNCHANGED <<config, eModeCategories, eMode>>
<1>. USE DEF configVars, userVars
<1>1. CASE UserNext
  <2>1. ASSUME NEW u, NEW v, NEW r, NEW amount, Supply(u, v, r, amount) \/ Transfer(u, v, r, amount)
        PROVE  UNCHANGED <<config, eModeCategories, eMode>>
    BY <2>1 DEF Supply, Transfer
  <2>2. ASSUME NEW u, NEW r, NEW amount, Withdraw(u, r, amount)
        PROVE  UNCHANGED <<config, eModeCategories, eMode>>
    BY <2>2 DEF Withdraw
  <2>3. ASSUME NEW u, NEW r, NEW use, SetUserUseReserveAsCollateral(u, r, use)
        PROVE  UNCHANGED <<config, eModeCategories, eMode>>
    BY <2>3 DEF SetUserUseReserveAsCollateral
  <2>4. ASSUME NEW u, NEW v, NEW r, NEW amount, NEW mode,
               \/ Borrow(u, r, amount, mode) \/ Repay(u, v, r, amount, mode)
               \/ RepayWithBTokens(u, r, amount, mode)
        PROVE  UNCHANGED <<config, eModeCategories, eMode>>
    BY <2>4 DEF Borrow, Repay, RepayWithBTokens
  <2>5. ASSUME NEW u, NEW r, NEW mode, SwapBorrowRateMode(u, r, mode)
        PROVE  UNCHANGED <<config, eModeCategories, eMode>>
    BY <2>5 DEF SwapBorrowRateMode
  <2>6. ASSUME NEW u, NEW v, NEW r, NEW d, NEW amount, NEW receive,
               LiquidationCall(u, v, r, d, amount, receive)
        PROVE  UNCHANGED <<config, eModeCategories, eMode>>
    BY <2>6 DEF LiquidationCall
  <2>. QED
    BY <1>1, <2>1, <2>2, <2>3, <2>4, <2>5, <2>6 DEF UserNext
<1>2. CASE EnvironmentNext
  BY <1>2 DEF EnvironmentNext, AccrueInterest, ChangePrice, SequencerChange
<1>. QED
  BY <1>1, <1>2

LEMMA ParametersUnchanged ==
    ASSUME ParametersValid, UNCHANGED <<config, eModeCategories, eMode>>
    PROVE  ParametersValid'
BY DEF ParametersValid, CollateralParamsAllowed, EModeParamsAllowed

\* What ParametersValid asks of one reserve's configuration.
ReserveParamsValid(c) ==
    CollateralParamsAllowed(c) /\ c.liquidationProtocolFee <= PERCENTAGE_FACTOR

LEMMA ReserveParamsSame ==
    ASSUME NEW c, NEW d, ReserveParamsValid(c),
           d.ltv = c.ltv, d.liquidationThreshold = c.liquidationThreshold,
           d.liquidationBonus = c.liquidationBonus,
           d.liquidationProtocolFee = c.liquidationProtocolFee
    PROVE  ReserveParamsValid(d)
BY DEF ReserveParamsValid, CollateralParamsAllowed

\* Every call of an admin leaves valid parameters behind.
LEMMA ConfiguratorParameters ==
    ASSUME TypeOK, ParametersValid, ConfiguratorNext
    PROVE  ParametersValid'
<1>. USE DEF UnchangedButReserves, userVars
<1>0. /\ config \in [Assets -> ReserveConfig]
      /\ \A r \in Assets : ReserveParamsValid(config[r])
  BY DEF TypeOK, ParametersValid, ReserveParamsValid
<1>1. ASSUME \A r \in Assets : ReserveParamsValid(config'[r]),
             UNCHANGED <<eModeCategories, eMode>>
      PROVE  ParametersValid'
  BY <1>1 DEF ParametersValid, ReserveParamsValid, CollateralParamsAllowed, EModeParamsAllowed
<1>2. ASSUME NEW r \in Assets, NEW p \in CollateralParams, ConfigureReserveAsCollateral(r, p)
      PROVE  ParametersValid'
  <2>1. \A a \in Assets \ {r} : config'[a] = config[a]
    BY <1>0, <1>2 DEF ConfigureReserveAsCollateral
  <2>2. /\ config'[r].ltv = p.ltv
        /\ config'[r].liquidationThreshold = p.liquidationThreshold
        /\ config'[r].liquidationBonus = p.liquidationBonus
        /\ config'[r].liquidationProtocolFee = config[r].liquidationProtocolFee
    BY <1>0, <1>2 DEF ConfigureReserveAsCollateral, ReserveConfig
  <2>3. ReserveParamsValid(config'[r])
    BY <1>0, <1>2, <2>2
       DEF ConfigureReserveAsCollateral, ReserveParamsValid, CollateralParamsAllowed
  <2>. QED
    BY <1>0, <1>1, <1>2, <2>1, <2>3 DEF ConfigureReserveAsCollateral
<1>3. ASSUME NEW r \in Assets, NEW n, SetDebtCeiling(r, n) \/ SetBorrowCap(r, n)
             \/ SetSupplyCap(r, n) \/ SetAssetEModeCategory(r, n)
      PROVE  ParametersValid'
  <2>1. \A a \in Assets :
          /\ config'[a].ltv = config[a].ltv
          /\ config'[a].liquidationThreshold = config[a].liquidationThreshold
          /\ config'[a].liquidationBonus = config[a].liquidationBonus
          /\ config'[a].liquidationProtocolFee = config[a].liquidationProtocolFee
    BY <1>0, <1>3 DEF ReserveConfig, SetDebtCeiling, SetBorrowCap, SetSupplyCap,
                      SetAssetEModeCategory
  <2>2. UNCHANGED <<eModeCategories, eMode>>
    BY <1>3 DEF SetDebtCeiling, SetBorrowCap, SetSupplyCap, SetAssetEModeCategory
  <2>. QED
    BY <1>0, <1>1, <2>1, <2>2, ReserveParamsSame
<1>6. ASSUME NEW r \in Assets, NEW n, SetLiquidationProtocolFee(r, n)
      PROVE  ParametersValid'
  <2>1. \A a \in Assets :
          /\ config'[a].ltv = config[a].ltv
          /\ config'[a].liquidationThreshold = config[a].liquidationThreshold
          /\ config'[a].liquidationBonus = config[a].liquidationBonus
          /\ \/ config'[a].liquidationProtocolFee = config[a].liquidationProtocolFee
             \/ config'[a].liquidationProtocolFee <= PERCENTAGE_FACTOR
    BY <1>0, <1>6 DEF ReserveConfig, SetLiquidationProtocolFee
  <2>2. UNCHANGED <<eModeCategories, eMode>>
    BY <1>6 DEF SetLiquidationProtocolFee
  <2>3. \A a \in Assets : ReserveParamsValid(config'[a])
    BY <1>0, <2>1 DEF ReserveParamsValid, CollateralParamsAllowed
  <2>. QED
    BY <1>1, <2>2, <2>3
<1>4. ASSUME NEW r \in Assets, NEW on,
             \/ SetReserveBorrowing(r, on) \/ SetReserveStableRateBorrowing(r, on)
             \/ SetReserveActive(r, on) \/ SetReserveFreeze(r, on)
             \/ SetBorrowableInIsolation(r, on) \/ SetReservePause(r, on)
             \/ SetPoolPause(on) \/ SetSiloedBorrowing(r, on)
      PROVE  ParametersValid'
  <2>. USE DEF SetReserveBorrowing, SetReserveStableRateBorrowing, SetReserveActive,
               SetReserveFreeze, SetBorrowableInIsolation, SetReservePause, SetPoolPause,
               SetSiloedBorrowing
  <2>1. \A a \in Assets :
          /\ config'[a].ltv = config[a].ltv
          /\ config'[a].liquidationThreshold = config[a].liquidationThreshold
          /\ config'[a].liquidationBonus = config[a].liquidationBonus
          /\ config'[a].liquidationProtocolFee = config[a].liquidationProtocolFee
    BY <1>0, <1>4 DEF ReserveConfig
  <2>2. UNCHANGED <<eModeCategories, eMode>>
    BY <1>4
  <2>. QED
    BY <1>0, <1>1, <2>1, <2>2, ReserveParamsSame
<1>5. ASSUME NEW c \in Categories, NEW p \in EModeParams, SetEModeCategory(c, p)
      PROVE  ParametersValid'
  <2>1. /\ eModeCategories' = [eModeCategories EXCEPT ![c] = p]
        /\ EModeParamsAllowed(p)
        /\ UNCHANGED <<config, eMode>>
    BY <1>5 DEF SetEModeCategory
  <2>2. eModeCategories \in [Categories -> EModeCategory] /\ eMode \in [Users -> CategoryIds]
    BY DEF TypeOK
  <2>3. p.liquidationThreshold # 0
    BY <2>1 DEF EModeParamsAllowed
  <2>4. \A e \in Categories : eModeCategories'[e].liquidationThreshold # 0 =>
                                EModeParamsAllowed(eModeCategories'[e])
    BY <2>1, <2>2 DEF ParametersValid
  <2>5. \A u \in Users : eMode'[u] # 0 =>
                           eModeCategories'[eMode'[u]].liquidationThreshold # 0
    BY <2>1, <2>2, <2>3 DEF ParametersValid, CategoryIds
  <2>. QED
    BY <2>1, <2>4, <2>5 DEF ParametersValid, CollateralParamsAllowed, EModeParamsAllowed
<1>. QED
  BY <1>2, <1>3, <1>4, <1>5, <1>6 DEF ConfiguratorNext, RiskAdminNext, EModeAdminNext, SwitchNext

\* A category a user enters has been configured.
LEMMA EModeParameters ==
    ASSUME TypeOK, ParametersValid, EModeNext
    PROVE  ParametersValid'
<1>1. PICK u \in Users, c \in CategoryIds : SetUserEMode(u, c)
  BY DEF EModeNext
<1>2. UNCHANGED configVars /\ eMode' = [eMode EXCEPT ![u] = c]
  BY <1>1 DEF SetUserEMode
<1>3. c # 0 => eModeCategories[c].liquidationThreshold # 0
  BY <1>1 DEF SetUserEMode, ValidateSetUserEMode
<1>4. \A v \in Users : eMode'[v] # 0 => eModeCategories[eMode'[v]].liquidationThreshold # 0
  BY <1>2, <1>3 DEF TypeOK, ParametersValid
<1>. QED
  BY <1>2, <1>4 DEF ParametersValid, configVars, CollateralParamsAllowed, EModeParamsAllowed

-------------------------------------------------------------------------------
(* Types.                                                                  *)

LEMMA UserType ==
    ASSUME TypeOK, ParametersValid, UserNext
    PROVE  TypeOK'
<1>. USE AmountsNat DEF AmountType
<1>1. PICK u \in Users, r \in Assets :
        \/ \E v \in Users, amount \in Nat : Supply(u, v, r, amount) \/ Transfer(u, v, r, amount)
        \/ \E amount \in Nat : Withdraw(u, r, amount)
        \/ \E use \in BOOLEAN : SetUserUseReserveAsCollateral(u, r, use)
        \/ \E mode \in RateModes, amount \in Nat :
             \/ Borrow(u, r, amount, mode)
             \/ \E v \in Users : Repay(u, v, r, amount, mode)
             \/ RepayWithBTokens(u, r, amount, mode)
        \/ \E mode \in RateModes : SwapBorrowRateMode(u, r, mode)
        \/ \E v \in Users, d \in Assets, amount \in Nat, receive \in BOOLEAN :
             LiquidationCall(u, v, r, d, amount, receive)
  BY DEF UserNext
<1>. QED
  BY <1>1, SupplyType, TransferType, WithdrawType, SetUserUseReserveAsCollateralType,
     BorrowType, RepayType, RepayWithBTokensType, SwapBorrowRateModeType, LiquidationCallType

LEMMA EnvironmentType ==
    ASSUME TypeOK, EnvironmentNext
    PROVE  TypeOK'
BY AccrueInterestType, ChangePriceType, SequencerChangeType DEF EnvironmentNext

LEMMA StutterType ==
    ASSUME TypeOK, ParametersValid, UNCHANGED vars
    PROVE  TypeOK' /\ ParametersValid'
<1>. USE DEF vars, oracleVars, configVars, indexVars, debtVars, userVars
<1>1. TypeOK'
  BY DEF TypeOK
<1>2. ParametersValid'
  BY ParametersUnchanged
<1>. QED
  BY <1>1, <1>2

LEMMA InitBase == PoolInit => TypeOK /\ ParametersValid
<1>. SUFFICES ASSUME PoolInit PROVE TypeOK /\ ParametersValid
  OBVIOUS
<1>1. TypeOK
  BY PoolAssumption, MathAssumption DEF PoolInit, TypeOK, CategoryIds
<1>2. ParametersValid
  BY PoolAssumption DEF PoolInit, ParametersValid
<1>. QED
  BY <1>1, <1>2

LEMMA NextBase == TypeOK /\ ParametersValid /\ [Next]_vars => TypeOK' /\ ParametersValid'
<1>. SUFFICES ASSUME TypeOK, ParametersValid, [Next]_vars
              PROVE  TypeOK' /\ ParametersValid'
  OBVIOUS
<1>1. CASE UserNext
  BY <1>1, UserType, OnlyAdminsConfigure, ParametersUnchanged
<1>2. CASE EModeNext
  <2>1. TypeOK'
    BY <1>2, SetUserEModeType DEF EModeNext
  <2>. QED
    BY <1>2, <2>1, EModeParameters
<1>3. CASE EnvironmentNext
  BY <1>3, EnvironmentType, OnlyAdminsConfigure, ParametersUnchanged
<1>4. CASE ConfiguratorNext
  BY <1>4, ConfiguratorType, ConfiguratorParameters
<1>5. CASE UNCHANGED vars
  BY <1>5, StutterType
<1>. QED
  BY <1>1, <1>2, <1>3, <1>4, <1>5 DEF Next, PoolNext

\* Whatever users, admins and the market do, no ledger goes negative, no index falls
\* below one ray and every bitmap only names listed assets.
THEOREM TypeCorrect == Spec => []TypeOK
<1>1. Spec => [](TypeOK /\ ParametersValid)
  BY InitBase, NextBase, PTL DEF Spec
<1>. QED
  BY <1>1, PTL

\* No sequence of admin calls leaves a reserve, or a category somebody is in, with
\* parameters under which a liquidation cannot be computed.
THEOREM ParametersAlwaysValid == Spec => []ParametersValid
<1>1. Spec => [](TypeOK /\ ParametersValid)
  BY InitBase, NextBase, PTL DEF Spec
<1>. QED
  BY <1>1, PTL
===============================================================================
