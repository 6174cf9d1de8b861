-------------------------- MODULE LendingLedgerProofs --------------------------
(***************************************************************************)
(* The bitmaps and the ledgers of a position: proofs of                    *)
(* DebtImpliesBorrowFlag, SiloedExclusive, EModeDebtConsistent,            *)
(* IsolationExclusive, PausedReserveUntouched, Conservation,               *)
(* InactiveReserveEmpty and FrozenReserveOnlyShrinks.                      *)
(*                                                                         *)
(* That the bitmaps agree with the ledgers they summarise is where the     *)
(* arithmetic matters.  The bit is cleared when the amount repaid equals   *)
(* the debt; that the burnt scaled amount is then the whole scaled balance *)
(* is FullBurnIsExact, and that no scaled balance hides behind a debt of   *)
(* zero is ScaledZero, both of which need indexes of at least one ray      *)
(* (TypeOK).                                                               *)
(*                                                                         *)
(* The two of isolation and efficiency mode hold as long as the admins do  *)
(* not make one particular call on assets in use: giving an asset a debt   *)
(* ceiling looks only at its bToken supply, and moving an asset to another *)
(* category looks at nobody's debts.                                       *)
(*                                                                         *)
(* Every operation that writes a ledger of a reserve refuses when that     *)
(* reserve is paused, the liquidation for both of its reserves; the two    *)
(* that name no reserve to the pool, SetUserEMode and the calls of the     *)
(* admins, write none.  A reserve that is not active lets only transfers   *)
(* through, a frozen one only what makes its ledgers smaller.              *)
(*                                                                         *)
(* Conservation relates totals, which are sums over the accounts: the      *)
(* lemmas on Total say how a sum changes when one entry of a ledger does,  *)
(* for any finite number of accounts.                                      *)
(***************************************************************************)
EXTENDS LendingProofs

-------------------------------------------------------------------------------
(* Single entries of the debt ledgers.                                     *)

\* Whatever is not the entry of r in the ledger of u is left alone.
LEMMA CreditEntry ==
    ASSUME NEW ledger \in [Users -> [Assets -> Nat]], NEW u \in Users, NEW r \in Assets,
           NEW n \in Nat
    PROVE  /\ Credit(ledger, u, r, n)[u][r] = ledger[u][r] + n
           /\ \A v \in Users, a \in Assets :
                v # u \/ a # r => Credit(ledger, u, r, n)[v][a] = ledger[v][a]
BY DEF Credit

LEMMA DebitEntry ==
    ASSUME NEW ledger \in [Users -> [Assets -> Nat]], NEW u \in Users, NEW r \in Assets,
           NEW n \in Nat
    PROVE  /\ Debit(ledger, u, r, n)[u][r] = ledger[u][r] - n
           /\ \A v \in Users, a \in Assets :
                v # u \/ a # r => Debit(ledger, u, r, n)[v][a] = ledger[v][a]
BY DEF Debit

\* A variable debt of zero is a scaled balance of zero.
LEMMA NoHiddenDebt ==
    ASSUME TypeOK, NEW u \in Users, NEW r \in Assets
    PROVE  VariableDebt(u, r) = 0 <=> scaledDebt[u][r] = 0
<1>1. /\ scaledDebt[u][r] \in Nat
      /\ variableBorrowIndex[r] \in Nat /\ variableBorrowIndex[r] >= RAY
  BY DebtNat, IndexType
<1>2. scaledDebt[u][r] <= VariableDebt(u, r)
  BY <1>1, ScaledZero DEF VariableDebt
<1>3. scaledDebt[u][r] = 0 => VariableDebt(u, r) = 0
  BY <1>1, RayMulZero DEF VariableDebt
<1>. QED
  BY <1>1, <1>2, <1>3, DebtNat

\* Burning the whole variable debt burns the whole scaled balance.
LEMMA FullDebtScaled ==
    ASSUME TypeOK, NEW u \in Users, NEW r \in Assets
    PROVE  DebtScaled(r, VariableDebt(u, r)) = scaledDebt[u][r]
<1>1. /\ scaledDebt[u][r] \in Nat
      /\ variableBorrowIndex[r] \in Nat /\ variableBorrowIndex[r] >= RAY
  BY DebtNat, IndexType
<1>. QED
  BY <1>1, FullBurnIsExact DEF DebtScaled, VariableDebt

-------------------------------------------------------------------------------
(* What a step may do to debts and borrow bits.                            *)

\* Only the debts and the bit of r in the position of u change.
OnlyDebtOf(u, r) ==
    \A v \in Users, a \in Assets : v # u \/ a # r =>
        /\ scaledDebt'[v][a] = scaledDebt[v][a]
        /\ stableDebt'[v][a] = stableDebt[v][a]
        /\ a \in borrowing'[v] <=> a \in borrowing[v]

\* No debt appears where there was none, and no bit.
DebtsOnlyShrink ==
    \A u \in Users, r \in Assets :
        /\ HasDebt(u, r)' => HasDebt(u, r)
        /\ r \in borrowing'[u] => r \in borrowing[u]

LEMMA BurnDebtEffect ==
    ASSUME TypeOK, NEW u \in Users, NEW r \in Assets, NEW n \in Nat,
           NEW mode \in RateModes, n <= DebtInMode(u, r, mode), BurnDebt(u, r, n, mode)
    PROVE  /\ \A v \in Users, a \in Assets : v # u \/ a # r =>
                /\ scaledDebt'[v][a] = scaledDebt[v][a]
                /\ stableDebt'[v][a] = stableDebt[v][a]
           /\ HasDebt(u, r)' => HasDebt(u, r)
           /\ UserDebt(u, r) = n => ~HasDebt(u, r)'
<1>. DEFINE v0 == VariableDebt(u, r)
            s0 == stableDebt[u][r]
            b0 == scaledDebt[u][r]
<1>0. /\ scaledDebt \in [Users -> [Assets -> Nat]]
      /\ stableDebt \in [Users -> [Assets -> Nat]]
  BY DEF TypeOK
<1>1. /\ scaledDebt \in [Users -> [Assets -> Nat]]
      /\ stableDebt \in [Users -> [Assets -> Nat]]
      /\ v0 \in Nat /\ s0 \in Nat /\ b0 \in Nat /\ DebtScaled(r, n) \in Nat
      /\ UserDebt(u, r) = s0 + v0
  BY DebtNat, ScaledNat DEF TypeOK, UserDebt
<1>2. CASE mode = "VARIABLE"
  <2>1. /\ DebtScaled(r, n) <= b0
        /\ scaledDebt' = Debit(scaledDebt, u, r, DebtScaled(r, n))
        /\ stableDebt' = stableDebt
    BY <1>1, <1>2 DEF BurnDebt, BurnVariableDebt
  <2>2. n <= v0
    BY <1>2 DEF DebtInMode
  <2>3. scaledDebt'[u][r] = b0 - DebtScaled(r, n)
    BY <1>1, <2>1, DebitEntry
  <2>4. \A v \in Users, a \in Assets : v # u \/ a # r => scaledDebt'[v][a] = scaledDebt[v][a]
    <3>1. PICK m \in Nat : scaledDebt' = Debit(scaledDebt, u, r, m)
      BY <1>1, <2>1
    <3>. QED
      BY <1>0, <3>1, DebitEntry
  <2>5. ASSUME UserDebt(u, r) = n PROVE scaledDebt'[u][r] = 0 /\ stableDebt'[u][r] = 0
    <3>1. s0 = 0 /\ n = v0
      <4>. HIDE DEF v0, s0
      <4>. QED
        BY <1>1, <2>2, <2>5
    <3>2. DebtScaled(r, n) = b0
      BY <3>1, FullDebtScaled
    <3>. QED
      BY <1>1, <2>1, <2>3, <3>1, <3>2
  <2>6. HasDebt(u, r)' => HasDebt(u, r)
    BY <1>1, <2>1, <2>3 DEF HasDebt
  <2>. QED
    BY <2>1, <2>4, <2>5, <2>6 DEF HasDebt
<1>3. CASE mode = "STABLE"
  <2>1. /\ n <= s0
        /\ stableDebt' = Debit(stableDebt, u, r, n)
        /\ scaledDebt' = scaledDebt
    BY <1>1, <1>3 DEF BurnDebt, BurnStableDebt
  <2>3. stableDebt'[u][r] = s0 - n
    BY <1>1, <2>1, DebitEntry
  <2>4. \A v \in Users, a \in Assets : v # u \/ a # r => stableDebt'[v][a] = stableDebt[v][a]
    BY <1>1, <2>1, DebitEntry
  <2>5. ASSUME UserDebt(u, r) = n PROVE scaledDebt'[u][r] = 0 /\ stableDebt'[u][r] = 0
    <3>1. v0 = 0 /\ n = s0
      <4>. HIDE DEF v0, s0
      <4>. QED
        BY <1>1, <2>1, <2>5
    <3>2. b0 = 0
      BY <3>1, NoHiddenDebt
    <3>. QED
      BY <1>1, <2>1, <2>3, <3>1, <3>2
  <2>6. HasDebt(u, r)' => HasDebt(u, r)
    BY <1>1, <2>1, <2>3 DEF HasDebt
  <2>. QED
    BY <2>1, <2>4, <2>5, <2>6 DEF HasDebt
<1>. QED
  BY <1>2, <1>3 DEF RateModes

LEMMA BurnDebtTokensEffect ==
    ASSUME TypeOK, NEW u \in Users, NEW r \in Assets, NEW n \in Nat,
           BurnDebtTokens(u, r, n)
    PROVE  /\ \A v \in Users, a \in Assets : v # u \/ a # r =>
                /\ scaledDebt'[v][a] = scaledDebt[v][a]
                /\ stableDebt'[v][a] = stableDebt[v][a]
           /\ HasDebt(u, r)' => HasDebt(u, r)
           /\ UserDebt(u, r) = n => ~HasDebt(u, r)'
<1>. DEFINE v0 == VariableDebt(u, r)
            s0 == stableDebt[u][r]
            b0 == scaledDebt[u][r]
<1>0. /\ scaledDebt \in [Users -> [Assets -> Nat]]
      /\ stableDebt \in [Users -> [Assets -> Nat]]
  BY DEF TypeOK
<1>1. /\ scaledDebt \in [Users -> [Assets -> Nat]]
      /\ stableDebt \in [Users -> [Assets -> Nat]]
      /\ v0 \in Nat /\ s0 \in Nat /\ b0 \in Nat
      /\ UserDebt(u, r) = s0 + v0
      /\ DebtScaled(r, v0) = b0
      /\ v0 = 0 => b0 = 0
  BY DebtNat, FullDebtScaled, NoHiddenDebt DEF TypeOK, UserDebt
<1>2. CASE v0 >= n /\ BurnVariableDebt(u, r, n) /\ UNCHANGED stableDebt
  <2>1. PICK m \in Nat : /\ m = DebtScaled(r, n) /\ m <= b0
                         /\ scaledDebt' = Debit(scaledDebt, u, r, m)
    BY <1>1, <1>2, ScaledNat DEF BurnVariableDebt
  <2>2. /\ scaledDebt'[u][r] = b0 - m
        /\ \A v \in Users, a \in Assets :
             v # u \/ a # r => scaledDebt'[v][a] = scaledDebt[v][a]
    <3>1. /\ Debit(scaledDebt, u, r, m)[u][r] = b0 - m
          /\ \A v \in Users, a \in Assets :
               v # u \/ a # r => Debit(scaledDebt, u, r, m)[v][a] = scaledDebt[v][a]
      BY <1>0 DEF Debit
    <3>. QED
      BY <2>1, <3>1
  <2>3. ASSUME UserDebt(u, r) = n PROVE scaledDebt'[u][r] = 0 /\ stableDebt'[u][r] = 0
    <3>1. s0 = 0 /\ n = v0
      <4>. HIDE DEF v0, s0
      <4>. QED
        BY <1>1, <1>2, <2>3
    <3>. QED
      BY <1>1, <1>2, <2>1, <2>2, <3>1
  <2>4. HasDebt(u, r)' => HasDebt(u, r)
    BY <1>1, <1>2, <2>1, <2>2 DEF HasDebt
  <2>. QED
    BY <1>2, <2>2, <2>3, <2>4 DEF HasDebt
<1>3. CASE /\ v0 < n
           /\ \/ v0 # 0 /\ BurnVariableDebt(u, r, v0)
              \/ v0 = 0 /\ UNCHANGED scaledDebt
           /\ BurnStableDebt(u, r, n - v0)
  <2>1. /\ scaledDebt'[u][r] = 0
        /\ \A v \in Users, a \in Assets :
             v # u \/ a # r => scaledDebt'[v][a] = scaledDebt[v][a]
    <3>1. CASE v0 # 0 /\ BurnVariableDebt(u, r, v0)
      <4>1. scaledDebt' = Debit(scaledDebt, u, r, b0)
        BY <1>1, <3>1 DEF BurnVariableDebt
      <4>2. PICK m \in Nat : m = b0 /\ scaledDebt' = Debit(scaledDebt, u, r, m)
        BY <1>1, <4>1
      <4>. QED
        BY <1>0, <1>1, <4>2, DebitEntry
    <3>2. CASE v0 = 0 /\ UNCHANGED scaledDebt
      BY <1>1, <3>2
    <3>. QED
      BY <1>3, <3>1, <3>2
  <2>2. PICK k \in Nat : /\ k = n - v0 /\ k <= s0
                         /\ stableDebt' = Debit(stableDebt, u, r, k)
    <3>1. n - v0 \in Nat
      <4>. HIDE DEF v0
      <4>. QED
        BY <1>1, <1>3
    <3>. QED
      BY <1>3, <3>1 DEF BurnStableDebt
  <2>3. /\ stableDebt'[u][r] = s0 - k
        /\ \A v \in Users, a \in Assets :
             v # u \/ a # r => stableDebt'[v][a] = stableDebt[v][a]
    BY <1>1, <2>2, DebitEntry
  <2>4. UserDebt(u, r) = n => stableDebt'[u][r] = 0
    <3>1. UserDebt(u, r) = n => k = s0
      <4>. HIDE DEF v0, s0
      <4>. QED
        BY <1>1, <2>2
    <3>. QED
      BY <1>1, <2>3, <3>1
  <2>5. HasDebt(u, r)' => HasDebt(u, r)
    <3>1. s0 = 0 => stableDebt'[u][r] = 0
      <4>1. stableDebt'[u][r] = s0 - k
        BY <2>3
      <4>2. s0 \in Nat /\ k <= s0
        BY <1>1, <2>2
      <4>. HIDE DEF s0
      <4>3. s0 = 0 => s0 - k = 0
        BY <4>2
      <4>. QED
        BY <4>1, <4>3
    <3>. QED
      BY <2>1, <3>1 DEF HasDebt
  <2>. QED
    BY <2>1, <2>3, <2>4, <2>5 DEF HasDebt
<1>. QED
  BY <1>2, <1>3 DEF BurnDebtTokens

-------------------------------------------------------------------------------
(* Steps, summarised by what they do to debts and borrow bits.             *)

\* A repayment of all of a debt by whatever means clears its bit, and no other.
Cleared(u, r, n) ==
    borrowing' = [borrowing EXCEPT ![u] = IF UserDebt(u, r) = n THEN @ \ {r} ELSE @]

LEMMA ClearedFlag ==
    ASSUME TypeOK, DebtImpliesBorrowFlag, NEW u \in Users, NEW r \in Assets, NEW n \in Nat,
           Cleared(u, r, n),
           \A v \in Users, a \in Assets : v # u \/ a # r =>
             scaledDebt'[v][a] = scaledDebt[v][a] /\ stableDebt'[v][a] = stableDebt[v][a],
           HasDebt(u, r)' => HasDebt(u, r),
           UserDebt(u, r) = n => ~HasDebt(u, r)'
    PROVE  DebtImpliesBorrowFlag' /\ DebtsOnlyShrink
<1>1. borrowing \in [Users -> SUBSET Assets]
  BY DEF TypeOK
<1>2. ASSUME NEW v \in Users, NEW a \in Assets
      PROVE  /\ HasDebt(v, a)' => HasDebt(v, a) /\ a \in borrowing'[v]
             /\ a \in borrowing'[v] => a \in borrowing[v]
  <2>1. CASE v # u \/ a # r
    <3>1. a \in borrowing'[v] <=> a \in borrowing[v]
      BY <1>1, <2>1 DEF Cleared
    <3>2. HasDebt(v, a)' => HasDebt(v, a)
      BY <2>1 DEF HasDebt
    <3>. QED
      BY <3>1, <3>2 DEF DebtImpliesBorrowFlag
  <2>2. CASE v = u /\ a = r
    <3>1. r \in borrowing'[u] <=> r \in borrowing[u] /\ UserDebt(u, r) # n
      BY <1>1 DEF Cleared
    <3>. QED
      BY <2>2, <3>1 DEF DebtImpliesBorrowFlag
  <2>. QED
    BY <2>1, <2>2
<1>. QED
  BY <1>2 DEF DebtImpliesBorrowFlag, DebtsOnlyShrink

LEMMA DebtsUnchanged ==
    ASSUME DebtImpliesBorrowFlag, UNCHANGED <<debtVars, borrowing>>
    PROVE  DebtImpliesBorrowFlag' /\ DebtsOnlyShrink
BY DEF DebtImpliesBorrowFlag, DebtsOnlyShrink, HasDebt, debtVars

LEMMA RepayDebtFlag ==
    ASSUME TypeOK, DebtImpliesBorrowFlag, NEW u \in Users, NEW r \in Assets, NEW n \in Nat,
           NEW mode \in RateModes, n <= DebtInMode(u, r, mode), RepayDebt(u, r, n, mode)
    PROVE  DebtImpliesBorrowFlag' /\ DebtsOnlyShrink
<1>1. BurnDebt(u, r, n, mode) /\ Cleared(u, r, n)
  BY DEF RepayDebt, Cleared
<1>. QED
  BY <1>1, BurnDebtEffect, ClearedFlag

LEMMA RepayFlag ==
    ASSUME TypeOK, DebtImpliesBorrowFlag, NEW sender \in Users, NEW u \in Users,
           NEW r \in Assets, NEW amount \in Nat, NEW mode \in RateModes,
           Repay(sender, u, r, amount, mode) \/ RepayWithBTokens(u, r, amount, mode)
    PROVE  DebtImpliesBorrowFlag' /\ DebtsOnlyShrink
<1>1. DebtInMode(u, r, mode) \in Nat /\ BTokenBalance(u, r) \in Nat
  BY DebtInModeNat, BTokenBalanceNat DEF Holders
<1>2. PICK available \in Nat : RepayDebt(u, r, AtMost(available, DebtInMode(u, r, mode)), mode)
  BY <1>1 DEF Repay, RepayWithBTokens
<1>3. /\ AtMost(available, DebtInMode(u, r, mode)) \in Nat
      /\ AtMost(available, DebtInMode(u, r, mode)) <= DebtInMode(u, r, mode)
  BY <1>1, AtMostNat
<1>. QED
  BY <1>2, <1>3, RepayDebtFlag

LEMMA LiquidationFlag ==
    ASSUME TypeOK, ParametersValid, DebtImpliesBorrowFlag,
           NEW liquidator \in Users, NEW u \in Users,
           NEW c \in Assets, NEW d \in Assets, NEW n \in Nat, NEW receive \in BOOLEAN,
           LiquidationCall(liquidator, u, c, d, n, receive)
    PROVE  DebtImpliesBorrowFlag' /\ DebtsOnlyShrink
<1>. DEFINE amounts == CollateralToLiquidate(u, c, d, DebtToLiquidate(u, d, n))
<1>1. amounts.debt \in Nat
  <2>1. config[c].liquidationThreshold # 0
    BY DEF LiquidationCall, ValidateLiquidationCall
  <2>. QED
    BY <2>1, DebtToLiquidateNat, LiquidationAmountsNat
<1>2. BurnDebtTokens(u, d, amounts.debt) /\ Cleared(u, d, amounts.debt)
  BY DEF LiquidationCall, Cleared
<1>. HIDE DEF amounts
<1>. QED
  BY <1>1, <1>2, BurnDebtTokensEffect, ClearedFlag

LEMMA SwapFlag ==
    ASSUME TypeOK, DebtImpliesBorrowFlag, NEW u \in Users, NEW r \in Assets,
           NEW mode \in RateModes, SwapBorrowRateMode(u, r, mode)
    PROVE  DebtImpliesBorrowFlag' /\ DebtsOnlyShrink
<1>1. HasDebt(u, r)
  BY NoHiddenDebt DEF SwapBorrowRateMode, ValidateSwapRateMode, HasDebt
<1>2. borrowing' = borrowing
  BY DEF SwapBorrowRateMode, userVars
<1>3. ASSUME NEW v \in Users, NEW a \in Assets, v # u \/ a # r
      PROVE  scaledDebt'[v][a] = scaledDebt[v][a] /\ stableDebt'[v][a] = stableDebt[v][a]
  <2>1. /\ scaledDebt \in [Users -> [Assets -> Nat]]
        /\ stableDebt \in [Users -> [Assets -> Nat]]
    BY DEF TypeOK
  <2>2. PICK m, n : /\ scaledDebt' \in {Credit(scaledDebt, u, r, m), Debit(scaledDebt, u, r, m)}
                    /\ stableDebt' \in {Credit(stableDebt, u, r, n), Debit(stableDebt, u, r, n)}
    BY DEF SwapBorrowRateMode, BurnStableDebt, MintVariableDebt, BurnVariableDebt,
           MintStableDebt
  <2>. QED
    BY <1>3, <2>1, <2>2 DEF Credit, Debit
<1>4. \A v \in Users, a \in Assets : HasDebt(v, a)' => HasDebt(v, a)
  BY <1>1, <1>3 DEF HasDebt
<1>. QED
  BY <1>2, <1>4 DEF DebtImpliesBorrowFlag, DebtsOnlyShrink

LEMMA AccrueFlag ==
    ASSUME TypeOK, DebtImpliesBorrowFlag, NEW r \in Assets, AccrueInterest(r)
    PROVE  DebtImpliesBorrowFlag' /\ DebtsOnlyShrink
<1>1. UNCHANGED <<borrowing, scaledDebt>>
  BY DEF AccrueInterest, userVars
<1>2. PICK growth \in [Users -> 0..MaxAccrual] :
        /\ \A u \in Users : growth[u] # 0 => stableDebt[u][r] # 0
        /\ stableDebt' = [u \in Users |-> [stableDebt[u] EXCEPT ![r] = @ + growth[u]]]
  BY DEF AccrueInterest
<1>3. ASSUME NEW u \in Users, NEW a \in Assets, stableDebt'[u][a] # 0
      PROVE  stableDebt[u][a] # 0
  <2>1. stableDebt[u] \in [Assets -> Nat] /\ MaxAccrual \in Nat
    BY PoolInputAssumption DEF TypeOK
  <2>2. growth[u] \in Nat
    BY <2>1
  <2>3. stableDebt'[u][a] = IF a = r THEN stableDebt[u][a] + growth[u] ELSE stableDebt[u][a]
    BY <1>2, <2>1
  <2>4. stableDebt[u][a] \in Nat
    BY <2>1
  <2>. QED
    BY <1>2, <1>3, <2>2, <2>3, <2>4
<1>4. \A u \in Users, a \in Assets : HasDebt(u, a)' => HasDebt(u, a)
  BY <1>1, <1>3 DEF HasDebt
<1>. QED
  BY <1>1, <1>4 DEF DebtImpliesBorrowFlag, DebtsOnlyShrink

\* A loan of r to u: the only step that makes a debt or a bit.
LEMMA BorrowFlag ==
    ASSUME TypeOK, DebtImpliesBorrowFlag, NEW u \in Users, NEW r \in Assets,
           NEW amount \in Nat, NEW mode \in RateModes, Borrow(u, r, amount, mode)
    PROVE  /\ DebtImpliesBorrowFlag'
           /\ \A v \in Users, a \in Assets : v # u \/ a # r =>
                /\ HasDebt(v, a)' => HasDebt(v, a)
                /\ a \in borrowing'[v] => a \in borrowing[v]
<1>1. ASSUME NEW v \in Users, NEW a \in Assets, v # u \/ a # r
      PROVE  HasDebt(v, a)' <=> HasDebt(v, a)
  <2>1. /\ scaledDebt \in [Users -> [Assets -> Nat]]
        /\ stableDebt \in [Users -> [Assets -> Nat]]
    BY DEF TypeOK
  <2>2. PICK n : /\ scaledDebt' \in {Credit(scaledDebt, u, r, n), scaledDebt}
                 /\ stableDebt' \in {Credit(stableDebt, u, r, n), stableDebt}
    BY DEF Borrow, MintDebt, MintVariableDebt, MintStableDebt
  <2>. QED
    BY <1>1, <2>1, <2>2 DEF Credit, HasDebt
<1>2. PICK first \in BOOLEAN :
        /\ borrowing' = [borrowing EXCEPT ![u] = IF first THEN @ \cup {r} ELSE @]
        /\ ~first => HasDebt(u, r)
  <2>1. CASE mode = "VARIABLE"
    BY <2>1 DEF Borrow, HasDebt
  <2>2. CASE mode # "VARIABLE"
    BY <2>2 DEF Borrow, HasDebt
  <2>. QED
    BY <2>1, <2>2
<1>3. borrowing \in [Users -> SUBSET Assets]
  BY DEF TypeOK
<1>4. \A v \in Users, a \in Assets : v # u \/ a # r => (a \in borrowing'[v] <=> a \in borrowing[v])
  BY <1>2, <1>3
<1>5. r \in borrowing'[u]
  BY <1>2, <1>3 DEF DebtImpliesBorrowFlag
<1>. QED
  BY <1>1, <1>4, <1>5 DEF DebtImpliesBorrowFlag

-------------------------------------------------------------------------------
(* DebtImpliesBorrowFlag.                                                  *)

\* Calls of admins and changes of category move no debt.
LEMMA AdminsMoveNoDebt ==
    ASSUME ConfiguratorNext \/ EModeNext
    PROVE  UNCHANGED <<debtVars, borrowing, usingAsCollateral>>
<1>. USE DEF UnchangedButReserves, userVars
<1>1. CASE RiskAdminNext
  BY <1>1 DEF RiskAdminNext, ConfigureReserveAsCollateral, SetDebtCeiling, SetBorrowCap,
              SetSupplyCap, SetLiquidationProtocolFee, SetAssetEModeCategory
<1>2. CASE EModeAdminNext
  BY <1>2 DEF EModeAdminNext, SetEModeCategory
<1>3. CASE SwitchNext
  BY <1>3 DEF SwitchNext, SetReserveBorrowing, SetReserveStableRateBorrowing,
              SetReserveActive, SetReserveFreeze, SetBorrowableInIsolation,
              SetReservePause, SetPoolPause, SetSiloedBorrowing
<1>4. CASE EModeNext
  BY <1>4 DEF EModeNext, SetUserEMode
<1>. QED
  BY <1>1, <1>2, <1>3, <1>4 DEF ConfiguratorNext

LoanStep == \E u \in Users, r \in Assets, amount \in Nat, mode \in RateModes :
              Borrow(u, r, amount, mode)

LEMMA UserFlag ==
    ASSUME TypeOK, ParametersValid, DebtImpliesBorrowFlag, UserNext
    PROVE  DebtImpliesBorrowFlag' /\ (DebtsOnlyShrink \/ LoanStep)
<1>. USE AmountsNat DEF AmountType
<1>1. ASSUME NEW u \in Users, NEW v \in Users, NEW r \in Assets, NEW amount,
             Supply(u, v, r, amount) \/ Transfer(u, v, r, amount)
      PROVE  UNCHANGED <<debtVars, borrowing>>
  BY <1>1 DEF Supply, Transfer
<1>2. ASSUME NEW u \in Users, NEW r \in Assets, NEW amount, Withdraw(u, r, amount)
      PROVE  UNCHANGED <<debtVars, borrowing>>
  BY <1>2 DEF Withdraw
<1>3. ASSUME NEW u \in Users, NEW r \in Assets, NEW use,
             SetUserUseReserveAsCollateral(u, r, use)
      PROVE  UNCHANGED <<debtVars, borrowing>>
  BY <1>3 DEF SetUserUseReserveAsCollateral
<1>4. PICK u \in Users, r \in Assets :
        \/ \E v \in Users, amount \in Nat : Supply(u, v, r, amount) \/ Transfer(u, v, r, amount)
        \/ \E amount \in Nat : Withdraw(u, r, amount)
        \/ \E use \in BOOLEAN : SetUserUseReserveAsCollateral(u, r, use)
        \/ \E mode \in RateModes, amount \in Nat :
             \/ Borrow(u, r, amount, mode)
             \/ \E v \in Users : Repay(u, v, r, amount, mode)
             \/ RepayWithBTokens(u, r, amount, mode)
        \/ \E mode \in RateModes : SwapBorrowRateMode(u, r, mode)
        \/ \E v \in Users, d \in Assets, amount \in Nat, receive \in BOOLEAN :
             LiquidationCall(u, v, r, d, amount, receive)
  BY DEF UserNext
<1>. QED
  BY <1>1, <1>2, <1>3, <1>4, DebtsUnchanged, BorrowFlag, RepayFlag, SwapFlag,
     LiquidationFlag DEF LoanStep

LEMMA EnvironmentFlag ==
    ASSUME TypeOK, DebtImpliesBorrowFlag, EnvironmentNext
    PROVE  DebtImpliesBorrowFlag' /\ DebtsOnlyShrink
<1>1. ASSUME NEW s, ChangePrice(s) \/ SequencerChange
      PROVE  UNCHANGED <<debtVars, borrowing>>
  BY <1>1 DEF ChangePrice, SequencerChange, userVars
<1>. QED
  BY <1>1, DebtsUnchanged, AccrueFlag DEF EnvironmentNext

Base == TypeOK /\ ParametersValid /\ DebtImpliesBorrowFlag

LEMMA InitFlag == PoolInit => Base
<1>1. PoolInit => DebtImpliesBorrowFlag
  BY DEF PoolInit, DebtImpliesBorrowFlag, HasDebt
<1>. QED
  BY <1>1, InitBase DEF Base

LEMMA NextFlag == Base /\ [Next]_vars => Base' /\ (DebtsOnlyShrink \/ LoanStep)
<1>. SUFFICES ASSUME Base, [Next]_vars
              PROVE  DebtImpliesBorrowFlag' /\ (DebtsOnlyShrink \/ LoanStep)
  BY NextBase DEF Base
<1>. USE DEF Base
<1>1. CASE UserNext
  BY <1>1, UserFlag
<1>2. CASE EModeNext \/ ConfiguratorNext
  BY <1>2, AdminsMoveNoDebt, DebtsUnchanged
<1>3. CASE EnvironmentNext
  BY <1>3, EnvironmentFlag
<1>4. CASE UNCHANGED vars
  BY <1>4, DebtsUnchanged DEF vars, userVars
<1>. QED
  BY <1>1, <1>2, <1>3, <1>4 DEF Next, PoolNext

LEMMA BaseInvariant == Spec => []Base
BY InitFlag, NextFlag, PTL DEF Spec

\* No debt is ever left out of the borrowing bitmap, at any index: whoever repays or
\* liquidates it, in whatever order, with whatever roundings.
THEOREM EveryDebtHasItsFlag == Spec => []DebtImpliesBorrowFlag
<1>1. Base => DebtImpliesBorrowFlag
  BY DEF Base
<1>. QED
  BY <1>1, BaseInvariant, PTL

-------------------------------------------------------------------------------
(* SiloedExclusive.                                                        *)

LEMMA OnlySiloedSetters ==
    ASSUME TypeOK, [Next]_vars, NEW r \in Assets, config'[r].siloedBorrowing,
           ~config[r].siloedBorrowing
    PROVE  CheckNoBorrowers(r) /\ UNCHANGED <<debtVars, borrowing>>
<1>0. config \in [Assets -> ReserveConfig]
  BY DEF TypeOK
<1>1. ASSUME UNCHANGED config PROVE FALSE
  BY <1>1
<1>2. CASE RiskAdminNext
  <2>1. PICK a \in Assets : \E p :
          \/ ConfigureReserveAsCollateral(a, p) \/ SetDebtCeiling(a, p)
          \/ SetBorrowCap(a, p) \/ SetSupplyCap(a, p)
          \/ SetLiquidationProtocolFee(a, p) \/ SetAssetEModeCategory(a, p)
    BY <1>2 DEF RiskAdminNext
  <2>2. config'[r].siloedBorrowing = config[r].siloedBorrowing
    BY <1>0, <2>1 DEF ReserveConfig, ConfigureReserveAsCollateral, SetDebtCeiling,
       SetBorrowCap, SetSupplyCap, SetLiquidationProtocolFee, SetAssetEModeCategory
  <2>. QED
    BY <2>2
<1>3. CASE EModeAdminNext
  BY <1>1, <1>3 DEF EModeAdminNext, SetEModeCategory
<1>4. CASE SwitchNext
  <2>1. PICK a \in Assets, on \in BOOLEAN :
          \/ SetReserveBorrowing(a, on) \/ SetReserveStableRateBorrowing(a, on)
          \/ SetReserveActive(a, on) \/ SetReserveFreeze(a, on)
          \/ SetBorrowableInIsolation(a, on) \/ SetReservePause(a, on)
          \/ SetPoolPause(on) \/ SetSiloedBorrowing(a, on)
    BY <1>4 DEF SwitchNext
  <2>2. CASE SetSiloedBorrowing(a, on)
    <3>1. a = r /\ on = TRUE
      BY <1>0, <2>2 DEF SetSiloedBorrowing, ReserveConfig
    <3>. QED
      BY <2>2, <3>1 DEF SetSiloedBorrowing, UnchangedButReserves, userVars
  <2>3. CASE ~SetSiloedBorrowing(a, on)
    <3>1. config'[r].siloedBorrowing = config[r].siloedBorrowing
      BY <1>0, <2>1, <2>3 DEF ReserveConfig, SetReserveBorrowing,
         SetReserveStableRateBorrowing, SetReserveActive, SetReserveFreeze,
         SetBorrowableInIsolation, SetReservePause, SetPoolPause
    <3>. QED
      BY <3>1
  <2>. QED
    BY <2>2, <2>3
<1>5. CASE UserNext \/ EnvironmentNext
  BY <1>1, <1>5, OnlyAdminsConfigure
<1>6. CASE EModeNext
  BY <1>1, <1>6 DEF EModeNext, SetUserEMode, configVars
<1>7. CASE UNCHANGED vars
  BY <1>1, <1>7 DEF vars, configVars
<1>. QED
  BY <1>2, <1>3, <1>4, <1>5, <1>6, <1>7 DEF Next, PoolNext, ConfiguratorNext

\* With DebtImpliesBorrowFlag this is SiloedExclusive; unlike it, it does not break
\* when the bit of the siloed asset itself is cleared.
SiloedAlone ==
    \A u \in Users, r \in Assets :
        HasDebt(u, r) /\ config[r].siloedBorrowing => borrowing[u] \subseteq {r}

LEMMA SiloedFromAlone == Base /\ SiloedAlone => SiloedExclusive
BY DEF Base, TypeOK, SiloedAlone, SiloedExclusive, DebtImpliesBorrowFlag

LEMMA NextSiloed == Base /\ SiloedAlone /\ [Next]_vars => SiloedAlone'
<1>. SUFFICES ASSUME Base, SiloedAlone, [Next]_vars,
                     NEW u \in Users, NEW r \in Assets,
                     HasDebt(u, r)', config'[r].siloedBorrowing
              PROVE  borrowing'[u] \subseteq {r}
  BY DEF SiloedAlone
<1>0. /\ Base'
      /\ borrowing[u] \subseteq Assets /\ borrowing'[u] \subseteq Assets
  BY NextFlag DEF Base, TypeOK
<1>1. CASE ~config[r].siloedBorrowing
  <2>1. CheckNoBorrowers(r) /\ UNCHANGED debtVars
    BY <1>1, OnlySiloedSetters DEF Base
  <2>2. HasDebt(u, r)
    BY <2>1 DEF HasDebt, debtVars
  <2>3. UserDebt(u, r) # 0
    <3>1. /\ stableDebt[u][r] \in Nat /\ VariableDebt(u, r) \in Nat
          /\ VariableDebt(u, r) = 0 => scaledDebt[u][r] = 0
      BY DebtNat, NoHiddenDebt DEF Base
    <3>. QED
      BY <2>2, <3>1 DEF HasDebt, UserDebt
  <2>. QED
    BY <2>1, <2>3 DEF CheckNoBorrowers
<1>2. CASE config[r].siloedBorrowing /\ DebtsOnlyShrink
  <2>1. HasDebt(u, r) /\ borrowing'[u] \subseteq borrowing[u]
    BY <1>0, <1>2 DEF DebtsOnlyShrink
  <2>. QED
    BY <1>2, <2>1 DEF SiloedAlone
<1>3. CASE config[r].siloedBorrowing /\ LoanStep
  <2>1. PICK v \in Users, d \in Assets, amount \in Nat, mode \in RateModes :
          Borrow(v, d, amount, mode)
    BY <1>3 DEF LoanStep
  <2>2. \A w \in Users, a \in Assets : w # v \/ a # d =>
          /\ HasDebt(w, a)' => HasDebt(w, a)
          /\ a \in borrowing'[w] => a \in borrowing[w]
    BY <2>1, BorrowFlag DEF Base
  <2>3. CASE u # v
    BY <1>0, <1>3, <2>2, <2>3 DEF SiloedAlone
  <2>4. CASE u = v
    <3>1. SiloedBorrowingAllows(u, d)
      BY <2>1, <2>4 DEF Borrow, ValidateBorrow
    <3>2. borrowing'[u] \subseteq borrowing[u] \cup {d}
      BY <1>0, <2>2, <2>4
    <3>3. CASE borrowing[u] = {}
      <4>1. r = d
        BY <2>2, <2>4, <3>3 DEF Base, DebtImpliesBorrowFlag
      <4>. QED
        BY <3>2, <3>3, <4>1
    <3>4. CASE borrowing[u] # {} /\ SiloedBorrowingActive(u)
      <4>1. borrowing[u] = {d}
        BY <3>1, <3>4 DEF SiloedBorrowingAllows
      <4>2. r = d
        BY <2>2, <2>4, <4>1 DEF Base, DebtImpliesBorrowFlag
      <4>. QED
        BY <3>2, <4>1, <4>2
    <3>5. CASE borrowing[u] # {} /\ ~SiloedBorrowingActive(u)
      <4>1. ~config[d].siloedBorrowing
        BY <3>1, <3>5 DEF SiloedBorrowingAllows
      <4>2. r # d
        BY <1>3, <4>1
      <4>3. HasDebt(u, r)
        BY <2>2, <2>4, <4>2
      <4>4. borrowing[u] = {r}
        BY <1>3, <4>3 DEF SiloedAlone, Base, DebtImpliesBorrowFlag
      <4>. QED
        BY <1>3, <3>5, <4>4 DEF SiloedBorrowingActive
    <3>. QED
      BY <3>3, <3>4, <3>5
  <2>. QED
    BY <2>3, <2>4
<1>. QED
  BY <1>1, <1>2, <1>3, NextFlag

\* Nobody ever owes a siloed asset and another one, however the asset became siloed.
THEOREM SiloedAssetsStayAlone == Spec => []SiloedExclusive
<1>1. PoolInit => SiloedAlone
  BY DEF PoolInit, SiloedAlone, HasDebt
<1>2. Base /\ SiloedAlone /\ [Next]_vars => Base' /\ SiloedAlone'
  BY NextFlag, NextSiloed
<1>3. Spec => [](Base /\ SiloedAlone)
  BY <1>1, <1>2, InitFlag, PTL DEF Spec
<1>. QED
  BY <1>3, SiloedFromAlone, PTL

-------------------------------------------------------------------------------
(* EModeDebtConsistent.                                                    *)

\* Only setAssetEModeCategory moves an asset to another category, only
\* setDebtCeiling gives it a ceiling.
LEMMA ConfigFieldsKept ==
    ASSUME TypeOK, [Next]_vars, NEW r \in Assets
    PROVE  /\ "setAssetEModeCategory" \notin ConfigCalls =>
                config'[r].eModeCategory = config[r].eModeCategory
           /\ "setDebtCeiling" \notin ConfigCalls =>
                config'[r].debtCeiling = config[r].debtCeiling
<1>. DEFINE Kept == /\ "setAssetEModeCategory" \notin ConfigCalls =>
                         config'[r].eModeCategory = config[r].eModeCategory
                    /\ "setDebtCeiling" \notin ConfigCalls =>
                         config'[r].debtCeiling = config[r].debtCeiling
<1>0. config \in [Assets -> ReserveConfig]
  BY DEF TypeOK
<1>1. ASSUME UNCHANGED config PROVE Kept
  BY <1>1
<1>2. CASE RiskAdminNext
  <2>0. PICK a \in Assets : \E p :
          \/ ConfigureReserveAsCollateral(a, p) \/ SetBorrowCap(a, p) \/ SetSupplyCap(a, p)
          \/ SetLiquidationProtocolFee(a, p)
          \/ "setDebtCeiling" \in ConfigCalls /\ SetDebtCeiling(a, p)
          \/ "setAssetEModeCategory" \in ConfigCalls /\ SetAssetEModeCategory(a, p)
    BY <1>2 DEF RiskAdminNext
  <2>1. PICK p :
          \/ ConfigureReserveAsCollateral(a, p) \/ SetBorrowCap(a, p) \/ SetSupplyCap(a, p)
          \/ SetLiquidationProtocolFee(a, p)
          \/ "setDebtCeiling" \in ConfigCalls /\ SetDebtCeiling(a, p)
          \/ "setAssetEModeCategory" \in ConfigCalls /\ SetAssetEModeCategory(a, p)
    BY <2>0
  <2>2. CASE "setDebtCeiling" \in ConfigCalls /\ SetDebtCeiling(a, p)
    BY <1>0, <2>2 DEF ReserveConfig, SetDebtCeiling
  <2>3. CASE "setAssetEModeCategory" \in ConfigCalls /\ SetAssetEModeCategory(a, p)
    BY <1>0, <2>3 DEF ReserveConfig, SetAssetEModeCategory
  <2>4. CASE \/ ConfigureReserveAsCollateral(a, p) \/ SetBorrowCap(a, p)
             \/ SetSupplyCap(a, p) \/ SetLiquidationProtocolFee(a, p)
    BY <1>0, <2>4 DEF ReserveConfig, ConfigureReserveAsCollateral, SetBorrowCap,
       SetSupplyCap, SetLiquidationProtocolFee
  <2>. QED
    BY <2>1, <2>2, <2>3, <2>4
<1>3. CASE EModeAdminNext
  BY <1>1, <1>3 DEF EModeAdminNext, SetEModeCategory
<1>4. CASE SwitchNext
  <2>1. PICK a \in Assets, on \in BOOLEAN :
          \/ SetReserveBorrowing(a, on) \/ SetReserveStableRateBorrowing(a, on)
          \/ SetReserveActive(a, on) \/ SetReserveFreeze(a, on)
          \/ SetBorrowableInIsolation(a, on) \/ SetReservePause(a, on)
          \/ SetPoolPause(on) \/ SetSiloedBorrowing(a, on)
    BY <1>4 DEF SwitchNext
  <2>. QED
    BY <1>0, <2>1 DEF ReserveConfig, SetReserveBorrowing, SetReserveStableRateBorrowing,
       SetReserveActive, SetReserveFreeze, SetBorrowableInIsolation, SetReservePause,
       SetPoolPause, SetSiloedBorrowing
<1>5. CASE UserNext \/ EnvironmentNext
  BY <1>1, <1>5, OnlyAdminsConfigure
<1>6. CASE EModeNext
  BY <1>1, <1>6 DEF EModeNext, SetUserEMode, configVars
<1>7. CASE UNCHANGED vars
  BY <1>1, <1>7 DEF vars, configVars
<1>. QED
  BY <1>2, <1>3, <1>4, <1>5, <1>6, <1>7 DEF Next, PoolNext, ConfiguratorNext

\* Only setUserEMode changes the category of a user, to one all its debts are in.
LEMMA EModeKept ==
    ASSUME TypeOK, [Next]_vars, NEW u \in Users, eMode'[u] # eMode[u]
    PROVE  /\ UNCHANGED <<config, borrowing>>
           /\ eMode'[u] # 0 => \A r \in borrowing[u] : config[r].eModeCategory = eMode'[u]
<1>1. ASSUME UNCHANGED eMode PROVE FALSE
  BY <1>1
<1>2. CASE EModeNext
  <2>1. PICK v \in Users, c \in CategoryIds : SetUserEMode(v, c)
    BY <1>2 DEF EModeNext
  <2>2. /\ eMode' = [eMode EXCEPT ![v] = c]
        /\ UNCHANGED <<config, borrowing>>
        /\ ValidateSetUserEMode(v, c)
    BY <2>1 DEF SetUserEMode, configVars
  <2>3. u = v /\ eMode'[u] = c
    BY <2>2 DEF TypeOK
  <2>. QED
    BY <2>2, <2>3 DEF ValidateSetUserEMode
<1>3. CASE UserNext \/ EnvironmentNext
  BY <1>1, <1>3, OnlyAdminsConfigure
<1>4. CASE UNCHANGED vars
  BY <1>1, <1>4 DEF vars, userVars
<1>5. CASE RiskAdminNext
  BY <1>1, <1>5 DEF RiskAdminNext, ConfigureReserveAsCollateral, SetDebtCeiling, SetBorrowCap,
     SetSupplyCap, SetLiquidationProtocolFee, SetAssetEModeCategory, UnchangedButReserves,
     userVars
<1>6. CASE EModeAdminNext
  BY <1>1, <1>6 DEF EModeAdminNext, SetEModeCategory, userVars
<1>7. CASE SwitchNext
  BY <1>1, <1>7 DEF SwitchNext, SetReserveBorrowing, SetReserveStableRateBorrowing,
     SetReserveActive, SetReserveFreeze, SetBorrowableInIsolation, SetReservePause,
     SetPoolPause, SetSiloedBorrowing, UnchangedButReserves, userVars
<1>. QED
  BY <1>2, <1>3, <1>4, <1>5, <1>6, <1>7 DEF Next, PoolNext, ConfiguratorNext

LEMMA NextEMode ==
    ASSUME "setAssetEModeCategory" \notin ConfigCalls
    PROVE  Base /\ EModeDebtConsistent /\ [Next]_vars => EModeDebtConsistent'
<1>. SUFFICES ASSUME Base, EModeDebtConsistent, [Next]_vars,
                     NEW u \in Users, eMode'[u] # 0, NEW r \in borrowing'[u]
              PROVE  config'[r].eModeCategory = eMode'[u]
  BY DEF EModeDebtConsistent
<1>1. r \in Assets
  BY NextFlag DEF Base, TypeOK
<1>2. config'[r].eModeCategory = config[r].eModeCategory
  BY <1>1, ConfigFieldsKept DEF Base
<1>3. CASE eMode'[u] # eMode[u]
  BY <1>2, <1>3, EModeKept DEF Base
<1>4. CASE eMode'[u] = eMode[u] /\ r \in borrowing[u]
  BY <1>2, <1>4 DEF EModeDebtConsistent
<1>5. CASE eMode'[u] = eMode[u] /\ r \notin borrowing[u]
  <2>1. ~DebtsOnlyShrink
    BY <1>1, <1>5 DEF DebtsOnlyShrink
  <2>2. PICK v \in Users, d \in Assets, amount \in Nat, mode \in RateModes :
          Borrow(v, d, amount, mode)
    BY <2>1, NextFlag DEF LoanStep
  <2>3. v = u /\ d = r
    BY <1>1, <1>5, <2>2, BorrowFlag DEF Base
  <2>. QED
    BY <1>2, <1>5, <2>2, <2>3 DEF Borrow, ValidateBorrow
<1>. QED
  BY <1>3, <1>4, <1>5

\* As long as no asset is moved to another category, whatever a user in eMode has
\* borrowed belongs to the user's category.
THEOREM EModeDebtsInCategory ==
    ASSUME "setAssetEModeCategory" \notin ConfigCalls
    PROVE  Spec => []EModeDebtConsistent
<1>1. PoolInit => EModeDebtConsistent
  BY DEF PoolInit, EModeDebtConsistent
<1>2. Base /\ EModeDebtConsistent /\ [Next]_vars => Base' /\ EModeDebtConsistent'
  BY NextFlag, NextEMode
<1>. QED
  BY <1>1, <1>2, InitFlag, PTL DEF Spec

-------------------------------------------------------------------------------
(* IsolationExclusive.                                                     *)

\* An asset with a ceiling is not one of several.
Exclusive(collaterals) ==
    \A r \in collaterals : config[r].debtCeiling # 0 => collaterals = {r}

LEMMA ExclusiveAdd ==
    ASSUME NEW S \in SUBSET Assets, Exclusive(S), NEW r \in Assets,
           ValidateUseAsCollateral(S, r)
    PROVE  Exclusive(S \cup {r})
<1>1. CASE S = {}
  BY <1>1 DEF Exclusive
<1>2. CASE ~InIsolation(S) /\ config[r].debtCeiling = 0
  BY <1>2 DEF Exclusive, InIsolation
<1>. QED
  BY <1>1, <1>2 DEF ValidateUseAsCollateral

LEMMA ExclusiveRemove ==
    ASSUME NEW S \in SUBSET Assets, Exclusive(S), NEW T \in SUBSET S
    PROVE  Exclusive(T)
BY DEF Exclusive

\* A user's collateral after a step: some of what it was, and perhaps an asset that
\* passes the check.
CollateralStep(old, new) ==
    \E S \in SUBSET old : new = S \/ \E r \in Assets : ValidateUseAsCollateral(S, r) /\ new = S \cup {r}

LEMMA ExclusiveStep ==
    ASSUME NEW S \in SUBSET Assets, Exclusive(S), NEW T, CollateralStep(S, T)
    PROVE  Exclusive(T)
<1>1. PICK U \in SUBSET S :
        T = U \/ \E r \in Assets : ValidateUseAsCollateral(U, r) /\ T = U \cup {r}
  BY DEF CollateralStep
<1>2. Exclusive(U) /\ U \in SUBSET Assets
  BY ExclusiveRemove
<1>. QED
  BY <1>1, <1>2, ExclusiveAdd

LEMMA UserCollateral ==
    ASSUME TypeOK, UserNext, NEW w \in Users
    PROVE  CollateralStep(usingAsCollateral[w], usingAsCollateral'[w])
<1>. DEFINE old == usingAsCollateral[w]
            new == usingAsCollateral'[w]
<1>0. usingAsCollateral \in [Users -> SUBSET Assets]
  BY DEF TypeOK
<1>1. ASSUME new = old PROVE CollateralStep(old, new)
  BY <1>1 DEF CollateralStep
<1>2. ASSUME NEW r \in Assets, new = old \ {r} PROVE CollateralStep(old, new)
  BY <1>2 DEF CollateralStep
<1>3. ASSUME NEW r \in Assets, ValidateUseAsCollateral(old, r), new = old \cup {r}
      PROVE  CollateralStep(old, new)
  BY <1>3 DEF CollateralStep
<1>4. ASSUME NEW u \in Users, NEW v \in Users, NEW r \in Assets, NEW amount,
             Supply(u, v, r, amount)
      PROVE  CollateralStep(old, new)
  <2>1. PICK enable \in BOOLEAN :
          /\ usingAsCollateral' =
               [usingAsCollateral EXCEPT ![v] = IF enable THEN @ \cup {r} ELSE @]
          /\ enable => ValidateUseAsCollateral(usingAsCollateral[v], r)
    BY <1>4 DEF Supply, ValidateAutomaticUseAsCollateral
  <2>. QED
    BY <1>0, <1>1, <1>3, <2>1
<1>5. ASSUME NEW u \in Users, NEW v \in Users, NEW r \in Assets, NEW amount,
             Transfer(u, v, r, amount)
      PROVE  CollateralStep(old, new)
  <2>1. PICK enable \in BOOLEAN, disable \in BOOLEAN :
          /\ usingAsCollateral' =
               [usingAsCollateral EXCEPT ![u] = IF disable THEN @ \ {r} ELSE @,
                                         ![v] = IF enable THEN @ \cup {r} ELSE @]
          /\ enable => ValidateUseAsCollateral(usingAsCollateral[v], r)
          /\ u # v
    BY <1>5 DEF Transfer
  <2>2. /\ w = u => new = IF disable THEN old \ {r} ELSE old
        /\ w = v => new = IF enable THEN old \cup {r} ELSE old
        /\ w # u /\ w # v => new = old
    BY <1>0, <2>1
  <2>. QED
    BY <1>1, <1>2, <1>3, <2>1, <2>2
<1>6. ASSUME NEW u \in Users, NEW r \in Assets, NEW amount, Withdraw(u, r, amount)
      PROVE  CollateralStep(old, new)
  <2>1. PICK disable \in BOOLEAN :
          usingAsCollateral' = [usingAsCollateral EXCEPT ![u] = IF disable THEN @ \ {r} ELSE @]
    <3>1. PICK amountToWithdraw :
            usingAsCollateral' =
              [usingAsCollateral EXCEPT ![u] =
                 IF amountToWithdraw = BTokenBalance(u, r) THEN @ \ {r} ELSE @]
      BY <1>6 DEF Withdraw
    <3>. QED
      BY <3>1
  <2>. QED
    BY <1>0, <1>1, <1>2, <2>1
<1>7. ASSUME NEW u \in Users, NEW r \in Assets, NEW use \in BOOLEAN,
             SetUserUseReserveAsCollateral(u, r, use)
      PROVE  CollateralStep(old, new)
  <2>1. /\ usingAsCollateral' =
             [usingAsCollateral EXCEPT ![u] = IF use THEN @ \cup {r} ELSE @ \ {r}]
        /\ use => ValidateUseAsCollateral(usingAsCollateral[u], r)
    BY <1>7 DEF SetUserUseReserveAsCollateral, SetUsingAsCollateral
  <2>. QED
    BY <1>0, <1>1, <1>2, <1>3, <2>1
<1>8. ASSUME NEW u \in Users, NEW v \in Users, NEW c \in Assets, NEW d \in Assets,
             NEW n, NEW receive, LiquidationCall(u, v, c, d, n, receive)
      PROVE  CollateralStep(old, new)
  <2>1. PICK all \in BOOLEAN, enable \in BOOLEAN :
          LET collaterals == [usingAsCollateral EXCEPT ![v] = IF all THEN @ \ {c} ELSE @]
          IN  /\ usingAsCollateral' = [collaterals EXCEPT ![u] =
                                         IF enable THEN @ \cup {c} ELSE @]
              /\ enable => ValidateUseAsCollateral(collaterals[u], c)
    BY <1>8 DEF LiquidationCall, ValidateAutomaticUseAsCollateral
  <2>2. PICK S \in SUBSET old :
          /\ new = IF w = u /\ enable THEN S \cup {c} ELSE S
          /\ w = u /\ enable => ValidateUseAsCollateral(S, c)
    <3>. DEFINE collaterals == [usingAsCollateral EXCEPT ![v] = IF all THEN @ \ {c} ELSE @]
    <3>1. /\ collaterals[w] \in SUBSET old
          /\ collaterals \in [Users -> SUBSET Assets]
      BY <1>0
    <3>2. /\ usingAsCollateral' = [collaterals EXCEPT ![u] = IF enable THEN @ \cup {c} ELSE @]
          /\ enable => ValidateUseAsCollateral(collaterals[u], c)
      BY <2>1
    <3>. HIDE DEF collaterals
    <3>3. new = IF w = u /\ enable THEN collaterals[w] \cup {c} ELSE collaterals[w]
      BY <3>1, <3>2
    <3>. QED
      BY <3>1, <3>2, <3>3
  <2>. QED
    BY <2>2 DEF CollateralStep
<1>9. ASSUME NEW u, NEW v, NEW r, NEW amount, NEW mode,
             \/ Borrow(u, r, amount, mode) \/ Repay(u, v, r, amount, mode)
             \/ RepayWithBTokens(u, r, amount, mode) \/ SwapBorrowRateMode(u, r, mode)
      PROVE  CollateralStep(old, new)
  <2>1. UNCHANGED usingAsCollateral
    BY <1>9 DEF Borrow, Repay, RepayWithBTokens, SwapBorrowRateMode, userVars
  <2>. QED
    BY <1>1, <2>1
<1>. QED
  BY <1>4, <1>5, <1>6, <1>7, <1>8, <1>9 DEF UserNext

LEMMA NextIsolation ==
    ASSUME "setDebtCeiling" \notin ConfigCalls
    PROVE  Base /\ IsolationExclusive /\ [Next]_vars => IsolationExclusive'
<1>. SUFFICES ASSUME Base, IsolationExclusive, [Next]_vars
              PROVE  IsolationExclusive'
  OBVIOUS
<1>0. ASSUME NEW r \in Assets PROVE config'[r].debtCeiling = config[r].debtCeiling
  BY ConfigFieldsKept DEF Base
<1>. SUFFICES ASSUME NEW u \in Users PROVE Exclusive(usingAsCollateral'[u])
  BY <1>0 DEF IsolationExclusive, Exclusive
<1>1. usingAsCollateral[u] \in SUBSET Assets /\ Exclusive(usingAsCollateral[u])
  BY DEF Base, TypeOK, IsolationExclusive, Exclusive
<1>2. CASE UserNext
  BY <1>1, <1>2, UserCollateral, ExclusiveStep DEF Base
<1>3. CASE EModeNext \/ ConfiguratorNext
  BY <1>1, <1>3, AdminsMoveNoDebt
<1>4. CASE EnvironmentNext
  <2>1. UNCHANGED usingAsCollateral
    BY <1>4 DEF EnvironmentNext, AccrueInterest, ChangePrice, SequencerChange, userVars
  <2>. QED
    BY <1>1, <2>1
<1>5. CASE UNCHANGED vars
  BY <1>1, <1>5 DEF vars, userVars
<1>. QED
  BY <1>2, <1>3, <1>4, <1>5 DEF Next, PoolNext

\* As long as no ceiling is set on an asset in use, an asset with a debt ceiling is
\* the only collateral of whoever uses it, whatever supplies, transfers and
\* liquidations enable on the side.
THEOREM IsolatedCollateralIsAlone ==
    ASSUME "setDebtCeiling" \notin ConfigCalls
    PROVE  Spec => []IsolationExclusive
<1>1. PoolInit => IsolationExclusive
  BY DEF PoolInit, IsolationExclusive
<1>2. Base /\ IsolationExclusive /\ [Next]_vars => Base' /\ IsolationExclusive'
  BY NextFlag, NextIsolation
<1>. QED
  BY <1>1, <1>2, InitFlag, PTL DEF Spec

-------------------------------------------------------------------------------
(* Paused reserves.                                                        *)

LedgersUntouched(r) ==
    /\ cash'[r] = cash[r]
    /\ \A h \in Holders : scaledBToken'[h][r] = scaledBToken[h][r]
    /\ \A u \in Users : scaledDebt'[u][r] = scaledDebt[u][r]
                     /\ stableDebt'[u][r] = stableDebt[u][r]

\* A ledger whose entries for another asset changed, for any number of holders.
SameColumn(H, old, new, r) == \A h \in H : new[h][r] = old[h][r]

LEMMA OtherColumn ==
    ASSUME NEW H, NEW ledger \in [H -> [Assets -> Nat]], NEW r \in Assets, NEW a \in Assets,
           a # r, NEW h \in H, NEW g \in H, NEW n
    PROVE  /\ SameColumn(H, ledger, Credit(ledger, h, a, n), r)
           /\ SameColumn(H, ledger, Debit(ledger, h, a, n), r)
           /\ SameColumn(H, ledger, Move(ledger, h, g, a, n), r)
BY DEF SameColumn, Credit, Debit, Move

LEMMA OtherCash ==
    ASSUME TypeOK, NEW r \in Assets, NEW a \in Assets, a # r, NEW n,
           cash' = [cash EXCEPT ![a] = n]
    PROVE  cash'[r] = cash[r]
BY DEF TypeOK

LEMMA Untouched ==
    ASSUME UNCHANGED <<cash, scaledBToken, scaledDebt, stableDebt>>, NEW r \in Assets
    PROVE  LedgersUntouched(r)
BY DEF LedgersUntouched

\* The ledgers, typed, as the lemmas below need them.
LEMMA LedgerTypes ==
    ASSUME TypeOK
    PROVE  /\ scaledBToken \in [Holders -> [Assets -> Nat]]
           /\ scaledDebt \in [Users -> [Assets -> Nat]]
           /\ stableDebt \in [Users -> [Assets -> Nat]]
           /\ Users \subseteq Holders /\ Treasury \in Holders
BY DEF TypeOK, Holders

LEMMA BurnDebtColumn ==
    ASSUME TypeOK, NEW u \in Users, NEW r \in Assets, NEW a \in Assets, a # r, NEW n, NEW mode,
           BurnDebt(u, a, n, mode) \/ BurnDebtTokens(u, a, n) \/ MintDebt(u, a, n, mode)
    PROVE  \A v \in Users : scaledDebt'[v][r] = scaledDebt[v][r]
                         /\ stableDebt'[v][r] = stableDebt[v][r]
<1>1. PICK m, k :
        /\ \/ scaledDebt' = scaledDebt \/ scaledDebt' = Debit(scaledDebt, u, a, m)
           \/ scaledDebt' = Credit(scaledDebt, u, a, m)
        /\ \/ stableDebt' = stableDebt \/ stableDebt' = Debit(stableDebt, u, a, k)
           \/ stableDebt' = Credit(stableDebt, u, a, k)
  BY DEF BurnDebt, BurnDebtTokens, MintDebt, BurnVariableDebt, BurnStableDebt,
         MintVariableDebt, MintStableDebt
<1>2. SameColumn(Users, scaledDebt, scaledDebt', r)
  BY <1>1, LedgerTypes, OtherColumn DEF SameColumn
<1>3. SameColumn(Users, stableDebt, stableDebt', r)
  BY <1>1, LedgerTypes, OtherColumn DEF SameColumn
<1>. QED
  BY <1>2, <1>3 DEF SameColumn

LEMMA SeizeColumn ==
    ASSUME TypeOK, NEW liquidator \in Users, NEW u \in Users, NEW r \in Assets,
           NEW c \in Assets, c # r, NEW amounts, NEW receive,
           SeizeCollateral(liquidator, u, c, amounts, receive)
    PROVE  SameColumn(Holders, scaledBToken, scaledBToken', r)
<1>1. PICK seized, fee :
        LET ledger == IF receive THEN Move(scaledBToken, u, liquidator, c, seized)
                                 ELSE Debit(scaledBToken, u, c, seized)
        IN  scaledBToken' = ledger \/ scaledBToken' = Move(ledger, u, Treasury, c, fee)
  BY DEF SeizeCollateral
<1>2. /\ scaledBToken \in [Holders -> [Assets -> Nat]]
      /\ u \in Holders /\ liquidator \in Holders /\ Treasury \in Holders
  BY LedgerTypes
<1>3. CASE receive
  BY <1>1, <1>2, <1>3 DEF SameColumn, Move, Credit, Debit
<1>4. CASE ~receive
  BY <1>1, <1>2, <1>4 DEF SameColumn, Move, Credit, Debit
<1>. QED
  BY <1>3, <1>4

\* A transfer is the one operation that only looks at the pause of its reserve.
LEMMA ClosedLedgers ==
    ASSUME TypeOK, NEW r \in Assets, ~ActiveAndUnpaused(r), UserNext
    PROVE  \/ LedgersUntouched(r)
           \/ \E u, v \in Users, n \in Amounts : Transfer(u, v, r, n)
<1>0. /\ scaledBToken \in [Holders -> [Assets -> Nat]]
      /\ Users \subseteq Holders
  BY LedgerTypes
<1>1. ASSUME NEW u \in Users, NEW v \in Users, NEW a \in Assets, NEW n, Supply(u, v, a, n)
      PROVE  LedgersUntouched(r)
  <2>1. a # r
    BY <1>1 DEF Supply, ValidateSupply
  <2>2. SameColumn(Holders, scaledBToken, scaledBToken', r)
    BY <1>0, <1>1, <2>1, OtherColumn DEF Supply, MintBToken
  <2>3. cash'[r] = cash[r]
    BY <1>1, <2>1 DEF Supply, TypeOK
  <2>4. UNCHANGED debtVars
    BY <1>1 DEF Supply
  <2>. QED
    BY <2>2, <2>3, <2>4 DEF LedgersUntouched, SameColumn, debtVars
<1>2. ASSUME NEW u \in Users, NEW v \in Users, NEW a \in Assets, NEW n, Transfer(u, v, a, n),
             a # r
      PROVE  LedgersUntouched(r)
  <2>2. SameColumn(Holders, scaledBToken, scaledBToken', r)
    BY <1>0, <1>2, OtherColumn DEF Transfer
  <2>3. UNCHANGED <<cash, debtVars>>
    BY <1>2 DEF Transfer
  <2>. QED
    BY <2>2, <2>3 DEF LedgersUntouched, SameColumn, debtVars
<1>3. ASSUME NEW u \in Users, NEW a \in Assets, NEW n, Withdraw(u, a, n)
      PROVE  LedgersUntouched(r)
  <2>1. PICK m : BurnBToken(u, a, m) /\ cash' = [cash EXCEPT ![a] = @ - m]
    BY <1>3 DEF Withdraw
  <2>2. a # r
    BY <1>3 DEF Withdraw, ValidateWithdraw
  <2>3. SameColumn(Holders, scaledBToken, scaledBToken', r)
    BY <1>0, <2>1, <2>2, OtherColumn DEF BurnBToken
  <2>4. cash'[r] = cash[r]
    BY <2>1, <2>2 DEF TypeOK
  <2>5. UNCHANGED debtVars
    BY <1>3 DEF Withdraw
  <2>. QED
    BY <2>3, <2>4, <2>5 DEF LedgersUntouched, SameColumn, debtVars
<1>4. ASSUME NEW u \in Users, NEW a \in Assets, NEW use, SetUserUseReserveAsCollateral(u, a, use)
      PROVE  LedgersUntouched(r)
  BY <1>4, Untouched DEF SetUserUseReserveAsCollateral, debtVars
<1>5. ASSUME NEW u \in Users, NEW a \in Assets, NEW n, NEW mode, Borrow(u, a, n, mode)
      PROVE  LedgersUntouched(r)
  <2>1. a # r
    BY <1>5 DEF Borrow, ValidateBorrow
  <2>2. MintDebt(u, a, n, mode) /\ cash' = [cash EXCEPT ![a] = @ - n] /\ UNCHANGED scaledBToken
    BY <1>5 DEF Borrow
  <2>3. cash'[r] = cash[r]
    BY <2>1, <2>2 DEF TypeOK
  <2>. QED
    BY <2>1, <2>2, <2>3, BurnDebtColumn DEF LedgersUntouched
<1>6. ASSUME NEW u \in Users, NEW v \in Users, NEW a \in Assets, NEW n, NEW mode,
             Repay(u, v, a, n, mode)
      PROVE  LedgersUntouched(r)
  <2>1. PICK m : BurnDebt(v, a, m, mode) /\ cash' = [cash EXCEPT ![a] = @ + m]
    BY <1>6 DEF Repay, RepayDebt
  <2>2. a # r /\ UNCHANGED scaledBToken
    BY <1>6 DEF Repay, ValidateRepay
  <2>3. cash'[r] = cash[r]
    BY <2>1, <2>2 DEF TypeOK
  <2>. QED
    BY <2>1, <2>2, <2>3, BurnDebtColumn DEF LedgersUntouched
<1>7. ASSUME NEW u \in Users, NEW a \in Assets, NEW n, NEW mode, RepayWithBTokens(u, a, n, mode)
      PROVE  LedgersUntouched(r)
  <2>1. PICK m : BurnDebt(u, a, m, mode) /\ BurnBToken(u, a, m)
    BY <1>7 DEF RepayWithBTokens, RepayDebt
  <2>2. a # r /\ UNCHANGED cash
    BY <1>7 DEF RepayWithBTokens, ValidateRepay
  <2>3. SameColumn(Holders, scaledBToken, scaledBToken', r)
    BY <1>0, <2>1, <2>2, OtherColumn DEF BurnBToken
  <2>. QED
    BY <2>1, <2>2, <2>3, BurnDebtColumn DEF LedgersUntouched, SameColumn
<1>8. ASSUME NEW u \in Users, NEW a \in Assets, NEW mode, SwapBorrowRateMode(u, a, mode)
      PROVE  LedgersUntouched(r)
  <2>1. a # r /\ UNCHANGED <<cash, scaledBToken>>
    BY <1>8 DEF SwapBorrowRateMode, ValidateSwapRateMode
  <2>2. PICK m, k : /\ \/ scaledDebt' = Credit(scaledDebt, u, a, m)
                       \/ scaledDebt' = Debit(scaledDebt, u, a, m)
                    /\ \/ stableDebt' = Credit(stableDebt, u, a, k)
                       \/ stableDebt' = Debit(stableDebt, u, a, k)
    BY <1>8 DEF SwapBorrowRateMode, BurnStableDebt, MintVariableDebt, BurnVariableDebt,
                MintStableDebt
  <2>3. /\ SameColumn(Users, scaledDebt, scaledDebt', r)
        /\ SameColumn(Users, stableDebt, stableDebt', r)
    BY <2>1, <2>2, LedgerTypes, OtherColumn
  <2>. QED
    BY <2>1, <2>3 DEF LedgersUntouched, SameColumn
<1>9. ASSUME NEW u \in Users, NEW v \in Users, NEW c \in Assets, NEW d \in Assets, NEW n,
             NEW receive, LiquidationCall(u, v, c, d, n, receive)
      PROVE  LedgersUntouched(r)
  <2>1. c # r /\ d # r
    BY <1>9 DEF LiquidationCall, ValidateLiquidationCall
  <2>2. PICK amounts, released :
          /\ BurnDebtTokens(v, d, amounts.debt)
          /\ SeizeCollateral(u, v, c, amounts, receive)
          /\ cash' = [[cash EXCEPT ![c] = @ - released] EXCEPT ![d] = @ + amounts.debt]
    BY <1>9 DEF LiquidationCall
  <2>3. cash'[r] = cash[r]
    BY <2>1, <2>2 DEF TypeOK
  <2>4. SameColumn(Holders, scaledBToken, scaledBToken', r)
    BY <2>1, <2>2, SeizeColumn
  <2>5. \A w \in Users : scaledDebt'[w][r] = scaledDebt[w][r]
                      /\ stableDebt'[w][r] = stableDebt[w][r]
    BY <2>1, <2>2, BurnDebtColumn
  <2>. QED
    BY <2>3, <2>4, <2>5 DEF LedgersUntouched, SameColumn
<1>. QED
  BY <1>1, <1>2, <1>3, <1>4, <1>5, <1>6, <1>7, <1>8, <1>9 DEF UserNext

LEMMA UserLedgers ==
    ASSUME TypeOK, NEW r \in Assets, config[r].paused, UserNext
    PROVE  LedgersUntouched(r)
BY ClosedLedgers DEF ActiveAndUnpaused, Transfer, ValidateTransfer

\* Interest accrues by moving an index.
LEMMA EnvironmentLedgers ==
    ASSUME TypeOK, NEW r \in Assets, UNCHANGED indexVars, EnvironmentNext
    PROVE  LedgersUntouched(r)
<1>1. ASSUME NEW a \in Assets, AccrueInterest(a) PROVE FALSE
  <2>1. PICK li, vi : /\ li > liquidityIndex[a] \/ vi > variableBorrowIndex[a]
                      /\ liquidityIndex' = [liquidityIndex EXCEPT ![a] = li]
                      /\ variableBorrowIndex' = [variableBorrowIndex EXCEPT ![a] = vi]
    BY <1>1 DEF AccrueInterest
  <2>2. liquidityIndex[a] = li /\ variableBorrowIndex[a] = vi
    BY <2>1 DEF indexVars, TypeOK
  <2>3. liquidityIndex[a] \in Nat /\ variableBorrowIndex[a] \in Nat
    BY IndexType
  <2>. QED
    BY <2>1, <2>2, <2>3
<1>2. ASSUME NEW s, ChangePrice(s) \/ SequencerChange PROVE LedgersUntouched(r)
  BY <1>2, Untouched DEF ChangePrice, SequencerChange, debtVars
<1>. QED
  BY <1>1, <1>2 DEF EnvironmentNext

LEMMA AdminLedgers ==
    ASSUME NEW r \in Assets, ConfiguratorNext \/ EModeNext
    PROVE  LedgersUntouched(r)
<1>. USE DEF UnchangedButReserves, debtVars
<1>1. CASE RiskAdminNext
  BY <1>1, Untouched DEF RiskAdminNext, ConfigureReserveAsCollateral, SetDebtCeiling,
     SetBorrowCap, SetSupplyCap, SetLiquidationProtocolFee, SetAssetEModeCategory
<1>2. CASE EModeAdminNext
  BY <1>2, Untouched DEF EModeAdminNext, SetEModeCategory
<1>3. CASE SwitchNext
  BY <1>3, Untouched DEF SwitchNext, SetReserveBorrowing, SetReserveStableRateBorrowing,
     SetReserveActive, SetReserveFreeze, SetBorrowableInIsolation, SetReservePause,
     SetPoolPause, SetSiloedBorrowing
<1>4. CASE EModeNext
  BY <1>4, Untouched DEF EModeNext, SetUserEMode
<1>. QED
  BY <1>1, <1>2, <1>3, <1>4 DEF ConfiguratorNext

\* While a reserve is paused no call, to it or to another reserve, moves its cash or a
\* balance of one of its tokens, but for the interest that accrues.
THEOREM PausedReserveStandsStill == Spec => PausedReserveUntouched
<1>1. TypeOK /\ [Next]_vars =>
        [\A r \in Assets : config[r].paused /\ UNCHANGED indexVars => LedgersUntouched(r)]_vars
  <2>. SUFFICES ASSUME TypeOK, [Next]_vars, NEW r \in Assets, config[r].paused,
                       UNCHANGED indexVars
                PROVE  LedgersUntouched(r)
    OBVIOUS
  <2>1. CASE UNCHANGED vars
    BY <2>1, Untouched DEF vars, debtVars
  <2>. QED
    BY <2>1, UserLedgers, EnvironmentLedgers, AdminLedgers DEF Next, PoolNext
<1>2. Spec => [][\A r \in Assets : config[r].paused /\ UNCHANGED indexVars
                   => LedgersUntouched(r)]_vars
  BY <1>1, TypeCorrect, PTL DEF Spec
<1>. QED
  BY <1>2 DEF PausedReserveUntouched, LedgersUntouched

-------------------------------------------------------------------------------
(* Totals of a ledger after its entries changed.                           *)

Ledger(H) == [H -> [Assets -> Nat]]

LEMMA ColumnNat ==
    ASSUME NEW H, NEW ledger \in Ledger(H), NEW r \in Assets
    PROVE  \A h \in H : /\ Column(ledger, H, r)[h] = ledger[h][r]
                        /\ Column(ledger, H, r)[h] \in Nat
BY DEF Column, Ledger

LEMMA TotalNat ==
    ASSUME NEW H, IsFiniteSet(H), NEW ledger \in Ledger(H), NEW r \in Assets
    PROVE  Total(ledger, H, r) \in Nat
BY ColumnNat, TotalIsSum, SumNat

\* An entry of the column of r changes from k to n.
LEMMA TotalUpdate ==
    ASSUME NEW H, IsFiniteSet(H),
           NEW old \in Ledger(H), NEW new \in Ledger(H),
           NEW h \in H, NEW r \in Assets,
           \A g \in H : g # h => new[g][r] = old[g][r]
    PROVE  Total(new, H, r) + old[h][r] = Total(old, H, r) + new[h][r]
<1>1. \A g \in H : /\ Column(old, H, r)[g] = old[g][r] /\ Column(old, H, r)[g] \in Nat
                   /\ Column(new, H, r)[g] = new[g][r] /\ Column(new, H, r)[g] \in Nat
  BY ColumnNat
<1>2. Sum(Column(new, H, r), H) + Column(old, H, r)[h]
        = Sum(Column(old, H, r), H) + Column(new, H, r)[h]
  BY <1>1, SumUpdate
<1>. QED
  BY <1>1, <1>2, TotalIsSum

LEMMA TotalSame ==
    ASSUME NEW H, IsFiniteSet(H),
           NEW old \in Ledger(H), NEW new \in Ledger(H),
           NEW r \in Assets, SameColumn(H, old, new, r)
    PROVE  Total(new, H, r) = Total(old, H, r)
<1>1. \A g \in H : Column(new, H, r)[g] = Column(old, H, r)[g]
  BY ColumnNat DEF SameColumn
<1>. QED
  BY <1>1, SumSame, TotalIsSum

LEMMA TotalCredit ==
    ASSUME NEW H, IsFiniteSet(H), NEW ledger \in Ledger(H),
           NEW h \in H, NEW r \in Assets, NEW n \in Nat, NEW a \in Assets
    PROVE  Total(Credit(ledger, h, r, n), H, a) =
             IF a = r THEN Total(ledger, H, a) + n ELSE Total(ledger, H, a)
<1>. DEFINE new == Credit(ledger, h, r, n)
<1>1. /\ new \in Ledger(H)
      /\ new[h][r] = ledger[h][r] + n
      /\ \A g \in H : g # h => new[g][r] = ledger[g][r]
  BY DEF Credit, Ledger
<1>2. a # r => SameColumn(H, ledger, new, a)
  BY OtherColumn DEF Ledger
<1>3. ledger[h][r] \in Nat /\ Total(ledger, H, r) \in Nat /\ Total(new, H, r) \in Nat
  BY <1>1, TotalNat DEF Ledger
<1>. HIDE DEF new
<1>4. Total(new, H, r) + ledger[h][r] = Total(ledger, H, r) + new[h][r]
  BY <1>1, TotalUpdate
<1>5. a # r => Total(new, H, a) = Total(ledger, H, a)
  BY <1>1, <1>2, TotalSame
<1>6. Total(new, H, r) = Total(ledger, H, r) + n
  BY <1>1, <1>3, <1>4
<1>. QED
  BY <1>5, <1>6 DEF new

LEMMA TotalDebit ==
    ASSUME NEW H, IsFiniteSet(H), NEW ledger \in Ledger(H),
           NEW h \in H, NEW r \in Assets, NEW n \in Nat, n <= ledger[h][r], NEW a \in Assets
    PROVE  Total(Debit(ledger, h, r, n), H, a) =
             IF a = r THEN Total(ledger, H, a) - n ELSE Total(ledger, H, a)
<1>. DEFINE new == Debit(ledger, h, r, n)
<1>1. /\ new \in Ledger(H)
      /\ new[h][r] = ledger[h][r] - n
      /\ \A g \in H : g # h => new[g][r] = ledger[g][r]
  BY DEF Debit, Ledger
<1>2. a # r => SameColumn(H, ledger, new, a)
  BY OtherColumn DEF Ledger
<1>3. ledger[h][r] \in Nat /\ Total(ledger, H, r) \in Nat /\ Total(new, H, r) \in Nat
  BY <1>1, TotalNat DEF Ledger
<1>. HIDE DEF new
<1>4. Total(new, H, r) + ledger[h][r] = Total(ledger, H, r) + new[h][r]
  BY <1>1, TotalUpdate
<1>5. a # r => Total(new, H, a) = Total(ledger, H, a)
  BY <1>1, <1>2, TotalSame
<1>6. Total(new, H, r) = Total(ledger, H, r) - n
  BY <1>1, <1>3, <1>4
<1>. QED
  BY <1>5, <1>6 DEF new

LEMMA TotalMove ==
    ASSUME NEW H, IsFiniteSet(H), NEW ledger \in Ledger(H),
           NEW from \in H, NEW to \in H, NEW r \in Assets, NEW n \in Nat,
           n <= ledger[from][r], NEW a \in Assets
    PROVE  Total(Move(ledger, from, to, r, n), H, a) = Total(ledger, H, a)
<1>1. Debit(ledger, from, r, n) \in Ledger(H)
  BY DebitType DEF Ledger
<1>2. Total(Debit(ledger, from, r, n), H, a) =
        IF a = r THEN Total(ledger, H, a) - n ELSE Total(ledger, H, a)
  BY TotalDebit
<1>3. Total(Move(ledger, from, to, r, n), H, a) =
        IF a = r THEN Total(Debit(ledger, from, r, n), H, a) + n
                 ELSE Total(Debit(ledger, from, r, n), H, a)
  BY <1>1, TotalCredit DEF Move
<1>4. Total(ledger, H, a) \in Nat
  BY TotalNat
<1>. QED
  BY <1>2, <1>3, <1>4

LEMMA TotalOfZeros ==
    ASSUME NEW H, IsFiniteSet(H), NEW ledger \in Ledger(H), NEW r \in Assets
    PROVE  Total(ledger, H, r) = 0 <=> \A h \in H : ledger[h][r] = 0
<1>1. \A h \in H : /\ Column(ledger, H, r)[h] = ledger[h][r]
                   /\ Column(ledger, H, r)[h] \in Nat
  BY ColumnNat
<1>2. Sum(Column(ledger, H, r), H) = 0 <=> \A h \in H : Column(ledger, H, r)[h] = 0
  BY <1>1, SumOfZeros, SumBound, SumNat
<1>. QED
  BY <1>1, <1>2, TotalIsSum

LEMMA TotalMonotone ==
    ASSUME NEW H, IsFiniteSet(H), NEW old \in Ledger(H), NEW new \in Ledger(H),
           NEW r \in Assets, \A h \in H : new[h][r] <= old[h][r]
    PROVE  Total(new, H, r) <= Total(old, H, r)
<1>1. \A h \in H : /\ Column(old, H, r)[h] = old[h][r] /\ Column(old, H, r)[h] \in Nat
                   /\ Column(new, H, r)[h] = new[h][r] /\ Column(new, H, r)[h] \in Nat
  BY ColumnNat
<1>2. Sum(Column(new, H, r), H) <= Sum(Column(old, H, r), H)
  BY <1>1, SumMonotone
<1>. QED
  BY <1>2, TotalIsSum

-------------------------------------------------------------------------------
(* The three ledgers of a reserve.                                         *)

Supplied(r) == Total(scaledBToken, Holders, r)
OwedVariable(r) == Total(scaledDebt, Users, r)
OwedStable(r) == Total(stableDebt, Users, r)

LEMMA SuppliesAreTotals ==
    ASSUME NEW r
    PROVE  /\ BTokenSupply(r) = RayMul(Supplied(r), liquidityIndex[r])
           /\ TotalVariableDebt(r) = RayMul(OwedVariable(r), variableBorrowIndex[r])
           /\ TotalStableDebt(r) = OwedStable(r)
BY DEF BTokenSupply, TotalVariableDebt, TotalStableDebt, Supplied, OwedVariable,
       OwedStable, Total

LEMMA SuppliesAreTotalsNext ==
    ASSUME NEW r
    PROVE  /\ BTokenSupply(r)' = RayMul(Supplied(r)', liquidityIndex'[r])
           /\ TotalVariableDebt(r)' = RayMul(OwedVariable(r)', variableBorrowIndex'[r])
           /\ TotalStableDebt(r)' = OwedStable(r)'
<1>1. /\ BTokenSupply(r) = RayMul(Supplied(r), liquidityIndex[r])
      /\ TotalVariableDebt(r) = RayMul(OwedVariable(r), variableBorrowIndex[r])
      /\ TotalStableDebt(r) = OwedStable(r)
  BY SuppliesAreTotals
<1>2. (/\ BTokenSupply(r) = RayMul(Supplied(r), liquidityIndex[r])
       /\ TotalVariableDebt(r) = RayMul(OwedVariable(r), variableBorrowIndex[r])
       /\ TotalStableDebt(r) = OwedStable(r))'
  BY <1>1, PTL
<1>. QED
  BY <1>2

LEMMA LedgersTyped ==
    ASSUME TypeOK
    PROVE  /\ scaledBToken \in Ledger(Holders) /\ IsFiniteSet(Holders)
           /\ scaledDebt \in Ledger(Users) /\ IsFiniteSet(Users)
           /\ stableDebt \in Ledger(Users)
           /\ Users \subseteq Holders /\ Treasury \in Holders
           /\ cash \in [Assets -> Nat]
<1>1. IsFiniteSet(Users) /\ IsFiniteSet(Users \cup {Treasury})
  BY PoolAssumption, FS_AddElement
<1>. QED
  BY <1>1 DEF TypeOK, Ledger, Holders

LEMMA TotalsNat ==
    ASSUME TypeOK, NEW r \in Assets
    PROVE  Supplied(r) \in Nat /\ OwedVariable(r) \in Nat /\ OwedStable(r) \in Nat
BY LedgersTyped, TotalNat DEF Supplied, OwedVariable, OwedStable

-------------------------------------------------------------------------------
(* While no interest has accrued a scaled balance is the amount itself.    *)

UnitIndexes == \A r \in Assets : liquidityIndex[r] = RAY /\ variableBorrowIndex[r] = RAY

LEMMA UnitRay ==
    ASSUME NEW n \in Nat
    PROVE  RayMul(n, RAY) = n /\ RayDiv(n, RAY) = n
<1>. DEFINE h == RAY \div 2
<1>1. RAY \in Nat \ {0} /\ h \in Nat /\ h < RAY /\ n * RAY \in Nat
  BY MathAssumption, DivBounds, TimesNat
<1>. HIDE DEF h
<1>2. n * RAY + h \in Nat /\ RAY * n <= n * RAY + h /\ n * RAY + h < RAY * n + RAY
  BY <1>1
<1>3. (n * RAY + h) \div RAY = n
  BY <1>1, <1>2, DivUnique
<1>. QED
  BY <1>3 DEF h, RayMul, RayDiv, DivHalfUp

LEMMA UnitScaled ==
    ASSUME UnitIndexes, NEW r \in Assets, NEW n \in Nat
    PROVE  BTokenScaled(r, n) = n /\ DebtScaled(r, n) = n
BY UnitRay DEF UnitIndexes, BTokenScaled, DebtScaled

LEMMA UnitBalances ==
    ASSUME TypeOK, UnitIndexes, NEW r \in Assets
    PROVE  /\ \A h \in Holders : BTokenBalance(h, r) = scaledBToken[h][r]
           /\ \A u \in Users : /\ VariableDebt(u, r) = scaledDebt[u][r]
                               /\ UserDebt(u, r) = stableDebt[u][r] + scaledDebt[u][r]
BY UnitRay DEF UnitIndexes, BTokenBalance, VariableDebt, UserDebt, TypeOK

-------------------------------------------------------------------------------
(* What the token operations do to the totals while no interest accrues.   *)

Owed(r) == OwedStable(r) + OwedVariable(r)

LEMMA MintBTokenTotals ==
    ASSUME TypeOK, UnitIndexes, NEW h \in Users, NEW r \in Assets, NEW n \in Nat,
           MintBToken(h, r, n), NEW a \in Assets
    PROVE  Supplied(a)' = IF a = r THEN Supplied(a) + n ELSE Supplied(a)
<1>1. scaledBToken' = Credit(scaledBToken, h, r, n)
  BY UnitScaled DEF MintBToken
<1>. QED
  BY <1>1, LedgersTyped, TotalCredit DEF Supplied

LEMMA BurnBTokenTotals ==
    ASSUME TypeOK, UnitIndexes, NEW h \in Users, NEW r \in Assets, NEW n \in Nat,
           BurnBToken(h, r, n), NEW a \in Assets
    PROVE  Supplied(a)' = IF a = r THEN Supplied(a) - n ELSE Supplied(a)
<1>1. /\ scaledBToken' = Debit(scaledBToken, h, r, n)
      /\ n \in 1..scaledBToken[h][r]
  BY UnitScaled DEF BurnBToken
<1>2. n <= scaledBToken[h][r]
  BY <1>1, LedgersTyped DEF Ledger
<1>. QED
  BY <1>1, <1>2, LedgersTyped, TotalDebit DEF Supplied

LEMMA MintDebtTotals ==
    ASSUME TypeOK, UnitIndexes, NEW u \in Users, NEW r \in Assets, NEW n \in Nat, NEW mode,
           MintDebt(u, r, n, mode), NEW a \in Assets
    PROVE  Owed(a)' = IF a = r THEN Owed(a) + n ELSE Owed(a)
<1>1. \/ scaledDebt' = Credit(scaledDebt, u, r, n) /\ stableDebt' = stableDebt
      \/ scaledDebt' = scaledDebt /\ stableDebt' = Credit(stableDebt, u, r, n)
  BY UnitScaled DEF MintDebt, MintVariableDebt, MintStableDebt
<1>2. OwedVariable(a) \in Nat /\ OwedStable(a) \in Nat
  BY TotalsNat
<1>3. CASE scaledDebt' = Credit(scaledDebt, u, r, n) /\ stableDebt' = stableDebt
  <2>1. OwedVariable(a)' = IF a = r THEN OwedVariable(a) + n ELSE OwedVariable(a)
    BY <1>3, LedgersTyped, TotalCredit DEF OwedVariable
  <2>2. OwedStable(a)' = OwedStable(a)
    BY <1>3 DEF OwedStable
  <2>. QED
    BY <1>2, <2>1, <2>2 DEF Owed
<1>4. CASE scaledDebt' = scaledDebt /\ stableDebt' = Credit(stableDebt, u, r, n)
  <2>1. OwedStable(a)' = IF a = r THEN OwedStable(a) + n ELSE OwedStable(a)
    BY <1>4, LedgersTyped, TotalCredit DEF OwedStable
  <2>2. OwedVariable(a)' = OwedVariable(a)
    BY <1>4 DEF OwedVariable
  <2>. QED
    BY <1>2, <2>1, <2>2 DEF Owed
<1>. QED
  BY <1>1, <1>3, <1>4

\* Variable debt k and stable debt m are burnt.
LEMMA DebtsBurnt ==
    ASSUME TypeOK, NEW u \in Users, NEW r \in Assets, NEW k \in Nat, NEW m \in Nat,
           k <= scaledDebt[u][r], m <= stableDebt[u][r],
           scaledDebt' = Debit(scaledDebt, u, r, k) \/ (k = 0 /\ scaledDebt' = scaledDebt),
           stableDebt' = Debit(stableDebt, u, r, m) \/ (m = 0 /\ stableDebt' = stableDebt),
           NEW a \in Assets
    PROVE  Owed(a)' = IF a = r THEN Owed(a) - (k + m) ELSE Owed(a)
<1>1. OwedVariable(a) \in Nat /\ OwedStable(a) \in Nat
  BY TotalsNat
<1>2. OwedVariable(a)' = IF a = r THEN OwedVariable(a) - k ELSE OwedVariable(a)
  <2>1. CASE scaledDebt' = Debit(scaledDebt, u, r, k)
    BY <2>1, LedgersTyped, TotalDebit DEF OwedVariable
  <2>2. CASE k = 0 /\ scaledDebt' = scaledDebt
    <3>1. OwedVariable(a)' = OwedVariable(a)
      BY <2>2 DEF OwedVariable
    <3>. QED
      BY <1>1, <2>2, <3>1
  <2>. QED
    BY <2>1, <2>2
<1>3. OwedStable(a)' = IF a = r THEN OwedStable(a) - m ELSE OwedStable(a)
  <2>1. CASE stableDebt' = Debit(stableDebt, u, r, m)
    BY <2>1, LedgersTyped, TotalDebit DEF OwedStable
  <2>2. CASE m = 0 /\ stableDebt' = stableDebt
    <3>1. OwedStable(a)' = OwedStable(a)
      BY <2>2 DEF OwedStable
    <3>. QED
      BY <1>1, <2>2, <3>1
  <2>. QED
    BY <2>1, <2>2
<1>. QED
  BY <1>1, <1>2, <1>3 DEF Owed

LEMMA BurnDebtTotals ==
    ASSUME TypeOK, UnitIndexes, NEW u \in Users, NEW r \in Assets, NEW n \in Nat, NEW mode,
           BurnDebt(u, r, n, mode), NEW a \in Assets
    PROVE  Owed(a)' = IF a = r THEN Owed(a) - n ELSE Owed(a)
<1>1. /\ scaledDebt[u][r] \in Nat /\ stableDebt[u][r] \in Nat
      /\ DebtScaled(r, n) = n
  BY LedgerTypes, UnitScaled
<1>2. CASE BurnVariableDebt(u, r, n) /\ UNCHANGED stableDebt
  <2>1. n <= scaledDebt[u][r] /\ scaledDebt' = Debit(scaledDebt, u, r, n)
    BY <1>1, <1>2 DEF BurnVariableDebt
  <2>2. 0 <= stableDebt[u][r] /\ n + 0 = n
    BY <1>1
  <2>. QED
    BY <1>2, <2>1, <2>2, DebtsBurnt
<1>3. CASE BurnStableDebt(u, r, n) /\ UNCHANGED scaledDebt
  <2>1. n <= stableDebt[u][r] /\ stableDebt' = Debit(stableDebt, u, r, n)
    BY <1>3 DEF BurnStableDebt
  <2>2. 0 <= scaledDebt[u][r] /\ 0 + n = n
    BY <1>1
  <2>. QED
    BY <1>3, <2>1, <2>2, DebtsBurnt
<1>. QED
  BY <1>2, <1>3 DEF BurnDebt

LEMMA BurnDebtTokensTotals ==
    ASSUME TypeOK, UnitIndexes, NEW u \in Users, NEW r \in Assets, NEW n \in Nat,
           BurnDebtTokens(u, r, n), NEW a \in Assets
    PROVE  Owed(a)' = IF a = r THEN Owed(a) - n ELSE Owed(a)
<1>. DEFINE v == scaledDebt[u][r]
<1>1. /\ v \in Nat /\ stableDebt[u][r] \in Nat
      /\ VariableDebt(u, r) = v /\ DebtScaled(r, n) = n /\ DebtScaled(r, v) = v
  BY LedgerTypes, UnitScaled, UnitBalances
<1>2. CASE BurnVariableDebt(u, r, n) /\ UNCHANGED stableDebt
  <2>1. BurnDebt(u, r, n, "VARIABLE")
    BY <1>2 DEF BurnDebt
  <2>. QED
    BY <2>1, BurnDebtTotals
<1>3. CASE /\ v < n
           /\ BurnVariableDebt(u, r, v) \/ (v = 0 /\ UNCHANGED scaledDebt)
           /\ BurnStableDebt(u, r, n - v)
  <2>1. n - v \in Nat /\ v + (n - v) = n /\ v <= scaledDebt[u][r]
    BY <1>1, <1>3
  <2>2. scaledDebt' = Debit(scaledDebt, u, r, v) \/ (v = 0 /\ scaledDebt' = scaledDebt)
    BY <1>1, <1>3 DEF BurnVariableDebt
  <2>3. n - v <= stableDebt[u][r] /\ stableDebt' = Debit(stableDebt, u, r, n - v)
    BY <1>3 DEF BurnStableDebt
  <2>. HIDE DEF v
  <2>4. Owed(a)' = IF a = r THEN Owed(a) - (v + (n - v)) ELSE Owed(a)
    BY <1>1, <2>1, <2>2, <2>3, DebtsBurnt
  <2>. QED
    BY <2>1, <2>4
<1>. QED
  BY <1>1, <1>2, <1>3 DEF BurnDebtTokens

\* The debt burnt in one mode is minted in the other.
LEMMA SwapTotals ==
    ASSUME TypeOK, UnitIndexes, NEW u \in Users, NEW r \in Assets, NEW mode,
           SwapBorrowRateMode(u, r, mode), NEW a \in Assets
    PROVE  Owed(a)' = Owed(a)
<1>1. /\ scaledDebt[u][r] \in Nat /\ stableDebt[u][r] \in Nat
      /\ \A n \in Nat : DebtScaled(r, n) = n
      /\ VariableDebt(u, r) = scaledDebt[u][r]
      /\ OwedVariable(a) \in Nat /\ OwedStable(a) \in Nat
  BY LedgerTypes, UnitScaled, UnitBalances, TotalsNat
<1>2. CASE /\ scaledDebt' = Credit(scaledDebt, u, r, stableDebt[u][r])
           /\ stableDebt' = Debit(stableDebt, u, r, stableDebt[u][r])
  <2>. DEFINE n == stableDebt[u][r]
  <2>1. n \in Nat /\ n <= stableDebt[u][r]
    BY <1>1
  <2>. HIDE DEF n
  <2>2. OwedVariable(a)' = IF a = r THEN OwedVariable(a) + n ELSE OwedVariable(a)
    BY <1>2, <2>1, LedgersTyped, TotalCredit DEF OwedVariable, n
  <2>3. OwedStable(a)' = IF a = r THEN OwedStable(a) - n ELSE OwedStable(a)
    BY <1>2, <2>1, LedgersTyped, TotalDebit DEF OwedStable, n
  <2>. QED
    BY <1>1, <2>1, <2>2, <2>3 DEF Owed
<1>3. CASE /\ stableDebt' = Credit(stableDebt, u, r, scaledDebt[u][r])
           /\ scaledDebt' = Debit(scaledDebt, u, r, scaledDebt[u][r])
  <2>. DEFINE n == scaledDebt[u][r]
  <2>1. n \in Nat /\ n <= scaledDebt[u][r]
    BY <1>1
  <2>. HIDE DEF n
  <2>2. OwedStable(a)' = IF a = r THEN OwedStable(a) + n ELSE OwedStable(a)
    BY <1>3, <2>1, LedgersTyped, TotalCredit DEF OwedStable, n
  <2>3. OwedVariable(a)' = IF a = r THEN OwedVariable(a) - n ELSE OwedVariable(a)
    BY <1>3, <2>1, LedgersTyped, TotalDebit DEF OwedVariable, n
  <2>. QED
    BY <1>1, <2>1, <2>2, <2>3 DEF Owed
<1>. QED
  BY <1>1, <1>2, <1>3 DEF SwapBorrowRateMode, BurnStableDebt, MintVariableDebt,
     BurnVariableDebt, MintStableDebt

\* A seizure moves claims, and destroys those the liquidator takes out as cash; what is
\* left to the treasury moves too.
LEMMA SeizeTotals ==
    ASSUME TypeOK, UnitIndexes, NEW liquidator \in Users, NEW u \in Users, NEW c \in Assets,
           NEW amounts, amounts.collateral \in Nat, amounts.fee \in Nat, NEW receive \in BOOLEAN,
           SeizeCollateral(liquidator, u, c, amounts, receive), NEW a \in Assets
    PROVE  Supplied(a)' = IF a = c /\ ~receive THEN Supplied(a) - amounts.collateral
                                               ELSE Supplied(a)
<1>. DEFINE n == amounts.collateral
            ledger == IF receive THEN Move(scaledBToken, u, liquidator, c, n)
                                 ELSE Debit(scaledBToken, u, c, n)
            fee == AtMost(BTokenScaled(c, amounts.fee), ledger[u][c])
<1>1. /\ BTokenScaled(c, amounts.collateral) = n
      /\ BTokenScaled(c, amounts.fee) \in Nat
      /\ u \in Holders /\ liquidator \in Holders /\ Treasury \in Holders
      /\ scaledBToken \in Ledger(Holders) /\ IsFiniteSet(Holders)
      /\ n \in Nat
  BY UnitScaled, LedgersTyped, ScaledNat
<1>2. n \in 0..scaledBToken[u][c] /\ n <= scaledBToken[u][c]
  BY <1>1 DEF SeizeCollateral, Ledger
<1>3. scaledBToken' = ledger \/ scaledBToken' = Move(ledger, u, Treasury, c, fee)
  BY <1>1 DEF SeizeCollateral
<1>4. ledger \in Ledger(Holders)
  BY <1>1, <1>2, DebitType, MoveType DEF Ledger
<1>5. Total(ledger, Holders, a) =
        IF a = c /\ ~receive THEN Supplied(a) - n ELSE Supplied(a)
  <2>1. CASE receive
    BY <1>1, <1>2, <2>1, TotalMove DEF Supplied
  <2>2. CASE ~receive
    BY <1>1, <1>2, <2>2, TotalDebit DEF Supplied
  <2>. QED
    BY <2>1, <2>2
<1>6. ledger[u][c] \in Nat
  BY <1>1, <1>4 DEF Ledger
<1>7. fee \in Nat /\ fee <= ledger[u][c]
  BY <1>1, <1>6, AtMostNat
<1>. HIDE DEF ledger, fee, n
<1>8. Total(Move(ledger, u, Treasury, c, fee), Holders, a) = Total(ledger, Holders, a)
  BY <1>1, <1>4, <1>7, TotalMove
<1>9. Supplied(a)' = Total(ledger, Holders, a)
  <2>1. CASE scaledBToken' = ledger
    BY <2>1 DEF Supplied, Holders
  <2>2. CASE scaledBToken' = Move(ledger, u, Treasury, c, fee)
    BY <1>8, <2>2 DEF Supplied, Holders
  <2>. QED
    BY <1>3, <2>1, <2>2
<1>. QED
  BY <1>5, <1>9 DEF n

-------------------------------------------------------------------------------
(* Conservation.                                                           *)

\* What suppliers may claim, the cash, and what the borrowers owe.
Balanced(r) == Supplied(r) = cash[r] + Owed(r)

AllBalanced == \A r \in Assets : Balanced(r)

LEMMA MoneyTyped ==
    ASSUME TypeOK, NEW r \in Assets
    PROVE  Supplied(r) \in Nat /\ Owed(r) \in Nat /\ cash[r] \in Nat
BY TotalsNat DEF Owed, TypeOK

LEMMA OwedSame ==
    ASSUME UNCHANGED debtVars, NEW r
    PROVE  Owed(r)' = Owed(r)
BY DEF Owed, OwedStable, OwedVariable, debtVars

LEMMA SuppliedSame ==
    ASSUME UNCHANGED scaledBToken, NEW r
    PROVE  Supplied(r)' = Supplied(r)
BY DEF Supplied, Holders

\* No call of a user creates or destroys a claim.
LEMMA UserBalanced ==
    ASSUME TypeOK, ParametersValid, UnitIndexes, AllBalanced, UserNext, NEW a \in Assets
    PROVE  Balanced(a)'
<1>. USE AmountsNat DEF AmountType
<1>0. /\ Supplied(a) \in Nat /\ Owed(a) \in Nat
      /\ cash[a] \in Nat /\ cash \in [Assets -> Nat]
      /\ Supplied(a) = cash[a] + Owed(a)
  BY MoneyTyped, LedgersTyped DEF AllBalanced, Balanced
<1>1. ASSUME NEW u \in Users, NEW v \in Users, NEW r \in Assets, NEW n \in Nat, Supply(u, v, r, n)
      PROVE  Balanced(a)'
  <2>1. MintBToken(v, r, n) /\ cash' = [cash EXCEPT ![r] = @ + n] /\ UNCHANGED debtVars
    BY <1>1 DEF Supply
  <2>2. Supplied(a)' = IF a = r THEN Supplied(a) + n ELSE Supplied(a)
    BY <2>1, MintBTokenTotals
  <2>3. Owed(a)' = Owed(a)
    BY <2>1, OwedSame
  <2>. QED
    BY <1>0, <2>1, <2>2, <2>3 DEF Balanced
<1>2. ASSUME NEW u \in Users, NEW v \in Users, NEW r \in Assets, NEW n \in Nat, Transfer(u, v, r, n)
      PROVE  Balanced(a)'
  <2>1. /\ n <= scaledBToken[u][r]
        /\ scaledBToken' = Move(scaledBToken, u, v, r, n)
        /\ UNCHANGED <<cash, debtVars>>
    BY <1>2, UnitScaled DEF Transfer
  <2>2. Supplied(a)' = Supplied(a)
    BY <2>1, LedgersTyped, TotalMove DEF Supplied, Holders
  <2>3. Owed(a)' = Owed(a)
    BY <2>1, OwedSame
  <2>. QED
    BY <1>0, <2>1, <2>2, <2>3 DEF Balanced
<1>3. ASSUME NEW u \in Users, NEW r \in Assets, NEW n \in Nat, Withdraw(u, r, n)
      PROVE  Balanced(a)'
  <2>1. BTokenBalance(u, r) \in Nat
    BY BTokenBalanceNat DEF Holders
  <2>2. PICK m \in Nat : /\ BurnBToken(u, r, m) /\ m <= cash[r]
                         /\ cash' = [cash EXCEPT ![r] = @ - m] /\ UNCHANGED debtVars
    BY <1>3, <2>1 DEF Withdraw
  <2>3. Supplied(a)' = IF a = r THEN Supplied(a) - m ELSE Supplied(a)
    BY <2>2, BurnBTokenTotals
  <2>4. Owed(a)' = Owed(a)
    BY <2>2, OwedSame
  <2>. QED
    BY <1>0, <2>2, <2>3, <2>4 DEF Balanced
<1>4. ASSUME NEW u \in Users, NEW r \in Assets, NEW use, SetUserUseReserveAsCollateral(u, r, use)
      PROVE  Balanced(a)'
  BY <1>0, <1>4, OwedSame, SuppliedSame DEF SetUserUseReserveAsCollateral, Balanced
<1>5. ASSUME NEW u \in Users, NEW r \in Assets, NEW n \in Nat, NEW mode, Borrow(u, r, n, mode)
      PROVE  Balanced(a)'
  <2>1. /\ MintDebt(u, r, n, mode) /\ n <= cash[r]
        /\ cash' = [cash EXCEPT ![r] = @ - n] /\ UNCHANGED scaledBToken
    BY <1>5 DEF Borrow
  <2>2. Owed(a)' = IF a = r THEN Owed(a) + n ELSE Owed(a)
    BY <2>1, MintDebtTotals
  <2>3. Supplied(a)' = Supplied(a)
    BY <2>1, SuppliedSame
  <2>. QED
    BY <1>0, <2>1, <2>2, <2>3 DEF Balanced
<1>6. ASSUME NEW u \in Users, NEW v \in Users, NEW r \in Assets, NEW n \in Nat,
             NEW mode \in RateModes, Repay(u, v, r, n, mode)
      PROVE  Balanced(a)'
  <2>1. AtMost(n, DebtInMode(v, r, mode)) \in Nat
    BY AtMostNat, DebtInModeNat
  <2>2. PICK m \in Nat : /\ BurnDebt(v, r, m, mode)
                         /\ cash' = [cash EXCEPT ![r] = @ + m] /\ UNCHANGED scaledBToken
    BY <1>6, <2>1 DEF Repay, RepayDebt
  <2>3. Owed(a)' = IF a = r THEN Owed(a) - m ELSE Owed(a)
    BY <2>2, BurnDebtTotals
  <2>4. Supplied(a)' = Supplied(a)
    BY <2>2, SuppliedSame
  <2>. QED
    BY <1>0, <2>2, <2>3, <2>4 DEF Balanced
<1>7. ASSUME NEW u \in Users, NEW r \in Assets, NEW n \in Nat, NEW mode \in RateModes,
             RepayWithBTokens(u, r, n, mode)
      PROVE  Balanced(a)'
  <2>1. \A k \in Nat : AtMost(k, DebtInMode(u, r, mode)) \in Nat
    BY AtMostNat, DebtInModeNat
  <2>2. BTokenBalance(u, r) \in Nat
    BY BTokenBalanceNat DEF Holders
  <2>3. PICK m \in Nat : BurnDebt(u, r, m, mode) /\ BurnBToken(u, r, m) /\ UNCHANGED cash
    BY <1>7, <2>1, <2>2 DEF RepayWithBTokens, RepayDebt
  <2>4. Owed(a)' = IF a = r THEN Owed(a) - m ELSE Owed(a)
    BY <2>3, BurnDebtTotals
  <2>5. Supplied(a)' = IF a = r THEN Supplied(a) - m ELSE Supplied(a)
    BY <2>3, BurnBTokenTotals
  <2>. QED
    BY <1>0, <2>3, <2>4, <2>5 DEF Balanced
<1>8. ASSUME NEW u \in Users, NEW r \in Assets, NEW mode, SwapBorrowRateMode(u, r, mode)
      PROVE  Balanced(a)'
  <2>1. UNCHANGED <<cash, scaledBToken>>
    BY <1>8 DEF SwapBorrowRateMode
  <2>. QED
    BY <1>0, <1>8, <2>1, SwapTotals, SuppliedSame DEF Balanced
<1>9. ASSUME NEW u \in Users, NEW v \in Users, NEW c \in Assets, NEW d \in Assets, NEW n \in Nat,
             NEW receive \in BOOLEAN, LiquidationCall(u, v, c, d, n, receive)
      PROVE  Balanced(a)'
  <2>. DEFINE amounts == CollateralToLiquidate(v, c, d, DebtToLiquidate(v, d, n))
              released == IF receive THEN 0 ELSE amounts.collateral
  <2>1. amounts.collateral \in Nat /\ amounts.debt \in Nat /\ amounts.fee \in Nat
    <3>1. config[c].liquidationThreshold # 0
      BY <1>9 DEF LiquidationCall, ValidateLiquidationCall
    <3>. QED
      BY <3>1, DebtToLiquidateNat, LiquidationAmountsNat
  <2>2. /\ BurnDebtTokens(v, d, amounts.debt)
        /\ SeizeCollateral(u, v, c, amounts, receive)
        /\ released <= cash[c]
        /\ cash' = [[cash EXCEPT ![c] = @ - released] EXCEPT ![d] = @ + amounts.debt]
    BY <1>9 DEF LiquidationCall
  <2>. HIDE DEF amounts
  <2>3. Owed(a)' = IF a = d THEN Owed(a) - amounts.debt ELSE Owed(a)
    BY <2>1, <2>2, BurnDebtTokensTotals
  <2>4. Supplied(a)' = IF a = c /\ ~receive THEN Supplied(a) - amounts.collateral
                                            ELSE Supplied(a)
    BY <2>1, <2>2, SeizeTotals
  <2>5. Supplied(a)' = IF a = c THEN Supplied(a) - released ELSE Supplied(a)
    BY <1>0, <2>4
  <2>6. released \in Nat
    BY <2>1
  <2>. HIDE DEF released
  <2>7. cash'[a] = (IF a = c THEN cash[a] - released ELSE cash[a])
                     + (IF a = d THEN amounts.debt ELSE 0)
    BY <1>0, <2>1, <2>2, <2>6
  <2>. QED
    BY <1>0, <2>1, <2>3, <2>5, <2>6, <2>7 DEF Balanced
<1>. QED
  BY <1>1, <1>2, <1>3, <1>4, <1>5, <1>6, <1>7, <1>8, <1>9 DEF UserNext

\* Time that accrues no interest, the market and the sequencer move no money, and
\* neither do admins or a change of category.
LEMMA OthersMoveNoMoney ==
    ASSUME TypeOK, UNCHANGED indexVars,
           EnvironmentNext \/ ConfiguratorNext \/ EModeNext \/ UNCHANGED vars
    PROVE  UNCHANGED <<cash, scaledBToken, debtVars>>
<1>1. CASE EnvironmentNext
  <2>1. ASSUME NEW a \in Assets, AccrueInterest(a) PROVE FALSE
    <3>1. PICK li, vi : /\ li > liquidityIndex[a] \/ vi > variableBorrowIndex[a]
                        /\ liquidityIndex' = [liquidityIndex EXCEPT ![a] = li]
                        /\ variableBorrowIndex' = [variableBorrowIndex EXCEPT ![a] = vi]
      BY <2>1 DEF AccrueInterest
    <3>2. liquidityIndex[a] = li /\ variableBorrowIndex[a] = vi
      BY <3>1 DEF indexVars, TypeOK
    <3>3. liquidityIndex[a] \in Nat /\ variableBorrowIndex[a] \in Nat
      BY IndexType
    <3>. QED
      BY <3>1, <3>2, <3>3
  <2>. QED
    BY <1>1, <2>1 DEF EnvironmentNext, ChangePrice, SequencerChange, debtVars
<1>2. CASE ConfiguratorNext
  <2>. USE DEF UnchangedButReserves
  <2>1. CASE RiskAdminNext
    BY <2>1 DEF RiskAdminNext, ConfigureReserveAsCollateral, SetDebtCeiling,
       SetBorrowCap, SetSupplyCap, SetLiquidationProtocolFee, SetAssetEModeCategory
  <2>2. CASE EModeAdminNext
    BY <2>2 DEF EModeAdminNext, SetEModeCategory
  <2>3. CASE SwitchNext
    BY <2>3 DEF SwitchNext, SetReserveBorrowing, SetReserveStableRateBorrowing,
       SetReserveActive, SetReserveFreeze, SetBorrowableInIsolation, SetReservePause,
       SetPoolPause, SetSiloedBorrowing
  <2>. QED
    BY <1>2, <2>1, <2>2, <2>3 DEF ConfiguratorNext
<1>3. CASE EModeNext
  BY <1>3 DEF EModeNext, SetUserEMode
<1>4. CASE UNCHANGED vars
  BY <1>4 DEF vars
<1>. QED
  BY <1>1, <1>2, <1>3, <1>4

\* The inductive invariant of the theorems below.
MoneyInvariant == TypeOK /\ ParametersValid /\ UnitIndexes /\ AllBalanced

LEMMA InitMoney == PoolInit => MoneyInvariant
<1>. SUFFICES ASSUME PoolInit PROVE MoneyInvariant
  OBVIOUS
<1>1. TypeOK /\ ParametersValid
  BY InitBase
<1>2. UnitIndexes
  BY DEF PoolInit, UnitIndexes
<1>3. ASSUME NEW r \in Assets PROVE Balanced(r)
  <2>1. /\ \A h \in Holders : scaledBToken[h][r] = 0
        /\ \A u \in Users : scaledDebt[u][r] = 0 /\ stableDebt[u][r] = 0
        /\ cash[r] = 0
    BY DEF PoolInit
  <2>2. Supplied(r) = 0 /\ OwedVariable(r) = 0 /\ OwedStable(r) = 0
    BY <1>1, <2>1, LedgersTyped, TotalOfZeros DEF Supplied, OwedVariable, OwedStable
  <2>. QED
    BY <2>1, <2>2 DEF Balanced, Owed
<1>. QED
  BY <1>1, <1>2, <1>3 DEF MoneyInvariant, AllBalanced

LEMMA NextMoney ==
    ASSUME MoneyInvariant, [Next]_vars, UNCHANGED indexVars
    PROVE  MoneyInvariant'
<1>1. TypeOK' /\ ParametersValid'
  BY NextBase DEF MoneyInvariant
<1>2. UnitIndexes'
  BY DEF MoneyInvariant, UnitIndexes, indexVars
<1>3. ASSUME NEW r \in Assets PROVE Balanced(r)'
  <2>1. CASE UserNext
    BY <2>1, UserBalanced DEF MoneyInvariant
  <2>2. CASE EnvironmentNext \/ ConfiguratorNext \/ EModeNext \/ UNCHANGED vars
    <3>1. UNCHANGED <<cash, scaledBToken, debtVars>>
      BY <2>2, OthersMoveNoMoney DEF MoneyInvariant
    <3>2. Supplied(r)' = Supplied(r) /\ Owed(r)' = Owed(r)
      BY <3>1, OwedSame, SuppliedSame
    <3>. QED
      BY <3>1, <3>2 DEF MoneyInvariant, AllBalanced, Balanced
  <2>. QED
    BY <2>1, <2>2 DEF Next, PoolNext
<1>. QED
  BY <1>1, <1>2, <1>3 DEF MoneyInvariant, AllBalanced

LEMMA BalancedConserves == MoneyInvariant => Conservation
<1>. SUFFICES ASSUME MoneyInvariant, NEW r \in Assets
              PROVE  BTokenSupply(r) = cash[r] + TotalStableDebt(r) + TotalVariableDebt(r)
  BY DEF Conservation
<1>1. Supplied(r) \in Nat /\ OwedVariable(r) \in Nat /\ OwedStable(r) \in Nat /\ cash[r] \in Nat
  BY TotalsNat DEF MoneyInvariant, TypeOK
<1>2. /\ BTokenSupply(r) = Supplied(r)
      /\ TotalVariableDebt(r) = OwedVariable(r)
      /\ TotalStableDebt(r) = OwedStable(r)
  BY <1>1, SuppliesAreTotals, UnitRay DEF MoneyInvariant, UnitIndexes
<1>3. Supplied(r) = cash[r] + (OwedStable(r) + OwedVariable(r))
  BY DEF MoneyInvariant, AllBalanced, Balanced, Owed
<1>. QED
  BY <1>1, <1>2, <1>3

\* As long as no interest accrues.
NoInterest == [][UNCHANGED indexVars]_vars

LEMMA MoneyAlways == Spec /\ NoInterest => []MoneyInvariant
<1>1. MoneyInvariant /\ [Next]_vars /\ [UNCHANGED indexVars]_vars => MoneyInvariant'
  <2>1. UNCHANGED vars => UNCHANGED indexVars
    BY DEF vars
  <2>. QED
    BY <2>1, NextMoney
<1>. QED
  BY <1>1, InitMoney, PTL DEF Spec, NoInterest

\* As long as no interest accrues, what suppliers may claim is exactly the cash of the
\* reserve and what its borrowers owe, after any calls of any number of users: a
\* liquidation with a fee and a repayment with bTokens included.
THEOREM ClaimsAreCovered == Spec /\ NoInterest => []Conservation
BY MoneyAlways, BalancedConserves, PTL

-------------------------------------------------------------------------------
(* Reserves that are not active.                                           *)

NoClaims(r) == \A h \in Holders : scaledBToken[h][r] = 0

NoDebts(r) == \A u \in Users : ~HasDebt(u, r)

\* Nothing is supplied to a reserve that is not active: transfers, which it still
\* allows, only move what is there.
LEMMA ClosedToUsers ==
    ASSUME TypeOK, NEW r \in Assets, UserNext, ~config[r].active, NoClaims(r)
    PROVE  NoClaims(r)'
<1>. USE AmountsNat DEF AmountType
<1>1. CASE LedgersUntouched(r)
  BY <1>1 DEF LedgersUntouched, NoClaims, Holders
<1>2. ASSUME NEW u \in Users, NEW v \in Users, NEW n \in Amounts, Transfer(u, v, r, n)
      PROVE  NoClaims(r)'
  <2>1. /\ BTokenScaled(r, n) <= scaledBToken[u][r]
        /\ scaledBToken' = Move(scaledBToken, u, v, r, BTokenScaled(r, n))
    BY <1>2 DEF Transfer
  <2>2. /\ BTokenScaled(r, n) \in Nat
        /\ u \in Holders /\ v \in Holders
        /\ scaledBToken \in [Holders -> [Assets -> Nat]]
    BY LedgerTypes, ScaledNat
  <2>3. BTokenScaled(r, n) = 0
    BY <2>1, <2>2 DEF NoClaims
  <2>. QED
    BY <2>1, <2>2, <2>3 DEF NoClaims, Move, Credit, Debit, Holders
<1>. QED
  BY <1>1, <1>2, ClosedLedgers DEF ActiveAndUnpaused

\* A reserve is only deactivated when nobody holds its bToken.
LEMMA Deactivation ==
    ASSUME TypeOK, ConfiguratorNext, NEW r \in Assets, ~config'[r].active
    PROVE  ~config[r].active \/ CheckNoSuppliers(r)
<1>0. config \in [Assets -> ReserveConfig]
  BY DEF TypeOK
<1>1. CASE RiskAdminNext
  <2>1. ASSUME NEW a \in Assets, NEW p, ConfigureReserveAsCollateral(a, p)
        PROVE  config'[r].active = config[r].active
    BY <1>0, <2>1 DEF ConfigureReserveAsCollateral, ReserveConfig
  <2>2. ASSUME NEW a \in Assets, NEW n,
               \/ SetDebtCeiling(a, n) \/ SetBorrowCap(a, n) \/ SetSupplyCap(a, n)
               \/ SetLiquidationProtocolFee(a, n) \/ SetAssetEModeCategory(a, n)
        PROVE  config'[r].active = config[r].active
    BY <1>0, <2>2 DEF SetDebtCeiling, SetBorrowCap, SetSupplyCap, SetLiquidationProtocolFee,
       SetAssetEModeCategory, ReserveConfig
  <2>. QED
    BY <1>1, <2>1, <2>2 DEF RiskAdminNext
<1>2. CASE EModeAdminNext
  BY <1>2 DEF EModeAdminNext, SetEModeCategory
<1>3. CASE SwitchNext
  <2>1. ASSUME NEW a \in Assets, NEW on,
               \/ SetReserveBorrowing(a, on) \/ SetReserveStableRateBorrowing(a, on)
               \/ SetReserveFreeze(a, on) \/ SetBorrowableInIsolation(a, on)
               \/ SetReservePause(a, on) \/ SetPoolPause(on) \/ SetSiloedBorrowing(a, on)
        PROVE  config'[r].active = config[r].active
    BY <1>0, <2>1 DEF SetReserveBorrowing, SetReserveStableRateBorrowing, SetReserveFreeze,
       SetBorrowableInIsolation, SetReservePause, SetPoolPause, SetSiloedBorrowing,
       ReserveConfig
  <2>2. ASSUME NEW a \in Assets, NEW on, SetReserveActive(a, on)
        PROVE  ~config[r].active \/ CheckNoSuppliers(r)
    BY <1>0, <2>2 DEF SetReserveActive, ReserveConfig
  <2>. QED
    BY <1>3, <2>1, <2>2 DEF SwitchNext
<1>. QED
  BY <1>1, <1>2, <1>3 DEF ConfiguratorNext

LEMMA NoSuppliersNoClaims ==
    ASSUME TypeOK, NEW r \in Assets, CheckNoSuppliers(r)
    PROVE  NoClaims(r)
<1>. SUFFICES ASSUME NEW h \in Holders PROVE scaledBToken[h][r] = 0
  BY DEF NoClaims
<1>1. scaledBToken[h][r] \in Nat /\ liquidityIndex[r] \in Nat /\ liquidityIndex[r] >= RAY
  BY IndexType, LedgerTypes
<1>2. scaledBToken[h][r] <= BTokenBalance(h, r)
  BY <1>1, ScaledZero DEF BTokenBalance
<1>3. BTokenBalance(h, r) = 0
  BY DEF CheckNoSuppliers
<1>4. BTokenBalance(h, r) \in Nat
  BY BTokenBalanceNat
<1>. QED
  BY <1>1, <1>2, <1>3, <1>4

NoClaimsWhileInactive == \A r \in Assets : ~config[r].active => NoClaims(r)

LEMMA NextInactive ==
    ASSUME TypeOK, NoClaimsWhileInactive, [Next]_vars, NEW r \in Assets, ~config'[r].active
    PROVE  NoClaims(r)'
<1>1. CASE UserNext
  BY <1>1, OnlyAdminsConfigure, ClosedToUsers DEF NoClaimsWhileInactive
<1>2. CASE EnvironmentNext
  <2>1. UNCHANGED <<config, scaledBToken>>
    BY <1>2, OnlyAdminsConfigure
       DEF EnvironmentNext, AccrueInterest, ChangePrice, SequencerChange
  <2>. QED
    BY <2>1 DEF NoClaimsWhileInactive, NoClaims, Holders
<1>3. CASE ConfiguratorNext
  <2>1. NoClaims(r)
    BY <1>3, Deactivation, NoSuppliersNoClaims DEF NoClaimsWhileInactive
  <2>. QED
    BY <1>3, <2>1, AdminLedgers DEF LedgersUntouched, NoClaims, Holders
<1>4. CASE EModeNext \/ UNCHANGED vars
  <2>1. UNCHANGED <<config, scaledBToken>>
    BY <1>4 DEF EModeNext, SetUserEMode, vars, configVars
  <2>. QED
    BY <2>1 DEF NoClaimsWhileInactive, NoClaims, Holders
<1>. QED
  BY <1>1, <1>2, <1>3, <1>4 DEF Next, PoolNext

\* Whatever interest accrues, nobody ever holds a claim on a reserve that is not active:
\* it can only be switched off when the last supplier has left, and transfers of its
\* bToken, which look at the pause alone, have nothing to move.
THEOREM NoClaimsOnInactive == Spec => []NoClaimsWhileInactive
<1>1. PoolInit => NoClaimsWhileInactive
  BY DEF PoolInit, NoClaimsWhileInactive, NoClaims
<1>2. TypeOK /\ NoClaimsWhileInactive /\ [Next]_vars => NoClaimsWhileInactive'
  BY NextInactive DEF NoClaimsWhileInactive
<1>. QED
  BY <1>1, <1>2, TypeCorrect, PTL DEF Spec

\* Where the books balance a reserve without claims has no debts.
LEMMA NoClaimsNoDebts ==
    ASSUME MoneyInvariant, NEW r \in Assets, NoClaims(r)
    PROVE  NoDebts(r)
<1>1. Supplied(r) = 0
  BY LedgersTyped, TotalOfZeros DEF MoneyInvariant, NoClaims, Supplied
<1>2. /\ OwedStable(r) \in Nat /\ OwedVariable(r) \in Nat /\ cash[r] \in Nat
      /\ Supplied(r) = cash[r] + (OwedStable(r) + OwedVariable(r))
  BY TotalsNat DEF MoneyInvariant, AllBalanced, Balanced, Owed, TypeOK
<1>3. OwedStable(r) = 0 /\ OwedVariable(r) = 0
  BY <1>1, <1>2
<1>. QED
  BY <1>3, LedgersTyped, TotalOfZeros
     DEF MoneyInvariant, OwedStable, OwedVariable, NoDebts, HasDebt

\* As long as no interest accrues, a reserve that is not active has neither suppliers nor
\* borrowers, although only suppliers are looked for when it is switched off.
THEOREM InactiveIsEmpty == Spec /\ NoInterest => []InactiveReserveEmpty
<1>1. MoneyInvariant /\ NoClaimsWhileInactive => InactiveReserveEmpty
  BY NoClaimsNoDebts
     DEF NoClaimsWhileInactive, InactiveReserveEmpty, NoClaims, NoDebts
<1>. QED
  BY <1>1, MoneyAlways, NoClaimsOnInactive, PTL

-------------------------------------------------------------------------------
(* Frozen reserves.                                                        *)

\* While r is frozen nobody's debt of it grows, in scaled units.
DebtsOfShrink(r) ==
    \A u \in Users : /\ scaledDebt'[u][r] <= scaledDebt[u][r]
                     /\ stableDebt'[u][r] <= stableDebt[u][r]

LEMMA DebtsStay ==
    ASSUME TypeOK, NEW r \in Assets, UNCHANGED debtVars
    PROVE  DebtsOfShrink(r)
BY LedgerTypes DEF DebtsOfShrink, debtVars

\* A burn of debt, of this reserve or of another one.
LEMMA BurntDebtsShrink ==
    ASSUME TypeOK, NEW u \in Users, NEW r \in Assets, NEW a \in Assets, NEW n \in Nat, NEW mode,
           BurnDebt(u, a, n, mode) \/ BurnDebtTokens(u, a, n)
    PROVE  DebtsOfShrink(r)
<1>1. /\ scaledDebt \in [Users -> [Assets -> Nat]]
      /\ stableDebt \in [Users -> [Assets -> Nat]]
      /\ VariableDebt(u, a) \in Nat
  BY DebtNat, LedgerTypes
<1>2. \A k \in Nat : DebtScaled(a, k) \in Nat
  BY ScaledNat
<1>3. PICK k \in Nat, m \in Nat :
        /\ scaledDebt' = scaledDebt \/ scaledDebt' = Debit(scaledDebt, u, a, k)
        /\ stableDebt' = stableDebt \/ stableDebt' = Debit(stableDebt, u, a, m)
  <2>1. CASE BurnDebt(u, a, n, mode)
    BY <1>2, <2>1 DEF BurnDebt, BurnVariableDebt, BurnStableDebt
  <2>2. CASE BurnDebtTokens(u, a, n)
    <3>1. VariableDebt(u, a) < n => n - VariableDebt(u, a) \in Nat
      BY <1>1
    <3>2. VariableDebt(u, a) >= n \/ VariableDebt(u, a) < n
      BY <1>1
    <3>. QED
      BY <1>1, <1>2, <2>2, <3>1, <3>2 DEF BurnDebtTokens, BurnVariableDebt, BurnStableDebt
  <2>. QED
    BY <2>1, <2>2
<1>4. ASSUME NEW v \in Users PROVE scaledDebt'[v][r] <= scaledDebt[v][r]
  <2>1. scaledDebt[v][r] \in Nat
    BY <1>1
  <2>. QED
    BY <1>1, <1>3, <2>1 DEF Debit
<1>5. ASSUME NEW v \in Users PROVE stableDebt'[v][r] <= stableDebt[v][r]
  <2>1. stableDebt[v][r] \in Nat
    BY <1>1
  <2>. QED
    BY <1>1, <1>3, <2>1 DEF Debit
<1>. QED
  BY <1>4, <1>5 DEF DebtsOfShrink

\* A seizure is a burn or a transfer, of the liquidator's part and of the fee.
LEMMA SeizedSupplyShrinks ==
    ASSUME TypeOK, NEW liquidator \in Users, NEW u \in Users, NEW c \in Assets,
           NEW amounts, amounts.collateral \in Nat, amounts.fee \in Nat, NEW receive \in BOOLEAN,
           SeizeCollateral(liquidator, u, c, amounts, receive), NEW r \in Assets
    PROVE  Supplied(r)' <= Supplied(r)
<1>. DEFINE n == BTokenScaled(c, amounts.collateral)
            ledger == IF receive THEN Move(scaledBToken, u, liquidator, c, n)
                                 ELSE Debit(scaledBToken, u, c, n)
            fee == AtMost(BTokenScaled(c, amounts.fee), ledger[u][c])
<1>1. /\ n \in Nat /\ BTokenScaled(c, amounts.fee) \in Nat
      /\ u \in Holders /\ liquidator \in Holders /\ Treasury \in Holders
      /\ scaledBToken \in Ledger(Holders) /\ IsFiniteSet(Holders)
      /\ Supplied(r) \in Nat
  BY LedgersTyped, ScaledNat, TotalsNat
<1>2. n <= scaledBToken[u][c]
  BY <1>1 DEF SeizeCollateral, Ledger
<1>3. scaledBToken' = ledger \/ scaledBToken' = Move(ledger, u, Treasury, c, fee)
  BY DEF SeizeCollateral
<1>. HIDE DEF n
<1>4. ledger \in Ledger(Holders)
  BY <1>1, <1>2, DebitType, MoveType DEF Ledger
<1>5. Total(ledger, Holders, r) <= Supplied(r)
  <2>1. CASE receive
    BY <1>1, <1>2, <2>1, TotalMove DEF Supplied
  <2>2. CASE ~receive
    <3>1. Total(ledger, Holders, r) = IF r = c THEN Supplied(r) - n ELSE Supplied(r)
      BY <1>1, <1>2, <2>2, TotalDebit DEF Supplied
    <3>. QED
      BY <1>1, <3>1
  <2>. QED
    BY <2>1, <2>2
<1>6. ledger[u][c] \in Nat
  BY <1>1, <1>4 DEF Ledger
<1>7. fee \in Nat /\ fee <= ledger[u][c]
  BY <1>1, <1>6, AtMostNat
<1>. HIDE DEF ledger, fee
<1>8. Total(Move(ledger, u, Treasury, c, fee), Holders, r) = Total(ledger, Holders, r)
  BY <1>1, <1>4, <1>7, TotalMove
<1>9. Supplied(r)' = Total(ledger, Holders, r)
  <2>1. CASE scaledBToken' = ledger
    BY <2>1 DEF Supplied, Holders
  <2>2. CASE scaledBToken' = Move(ledger, u, Treasury, c, fee)
    BY <1>8, <2>2 DEF Supplied, Holders
  <2>. QED
    BY <1>3, <2>1, <2>2
<1>. QED
  BY <1>5, <1>9

\* A burn of bTokens, of this reserve or of another one.
LEMMA BurntSupplyShrinks ==
    ASSUME TypeOK, NEW u \in Users, NEW a \in Assets, NEW n \in Nat, BurnBToken(u, a, n),
           NEW r \in Assets
    PROVE  Supplied(r)' <= Supplied(r)
<1>. DEFINE k == BTokenScaled(a, n)
<1>1. k \in Nat /\ Supplied(r) \in Nat /\ u \in Holders
  BY ScaledNat, TotalsNat, LedgersTyped
<1>2. k <= scaledBToken[u][a] /\ scaledBToken' = Debit(scaledBToken, u, a, k)
  BY LedgersTyped DEF BurnBToken, Ledger
<1>. HIDE DEF k
<1>3. Supplied(r)' = IF r = a THEN Supplied(r) - k ELSE Supplied(r)
  BY <1>1, <1>2, LedgersTyped, TotalDebit DEF Supplied, Holders
<1>. QED
  BY <1>1, <1>3

\* The operations that can make a ledger of r grow.
EntersReserve(r) ==
    \/ \E u, v \in Users, n \in Nat : Supply(u, v, r, n)
    \/ \E u \in Users, n \in Nat, mode \in RateModes : Borrow(u, r, n, mode)
    \/ \E u \in Users, mode \in RateModes : SwapBorrowRateMode(u, r, mode)

LEMMA OthersShrink ==
    ASSUME TypeOK, ParametersValid, NEW r \in Assets, UserNext, ~EntersReserve(r)
    PROVE  DebtsOfShrink(r) /\ Supplied(r)' <= Supplied(r)
<1>. USE AmountsNat DEF AmountType
<1>0. Supplied(r) \in Nat
  BY TotalsNat
<1>a. UNCHANGED scaledBToken => Supplied(r)' <= Supplied(r)
  BY <1>0, SuppliedSame
<1>1. ASSUME NEW u \in Users, NEW v \in Users, NEW a \in Assets, NEW n \in Nat, Supply(u, v, a, n)
      PROVE  DebtsOfShrink(r) /\ Supplied(r)' <= Supplied(r)
  <2>0. a # r
    BY <1>1 DEF EntersReserve
  <2>1. UNCHANGED debtVars
    BY <1>1 DEF Supply
  <2>2. PICK k \in Nat : scaledBToken' = Credit(scaledBToken, v, a, k)
    BY <1>1, ScaledNat DEF Supply, MintBToken
  <2>3. Supplied(r)' = IF r = a THEN Supplied(r) + k ELSE Supplied(r)
    BY <2>2, LedgersTyped, TotalCredit DEF Supplied, Holders
  <2>. QED
    BY <1>0, <2>0, <2>1, <2>3, DebtsStay
<1>2. ASSUME NEW u \in Users, NEW v \in Users, NEW a \in Assets, NEW n \in Nat, Transfer(u, v, a, n)
      PROVE  DebtsOfShrink(r) /\ Supplied(r)' <= Supplied(r)
  <2>1. PICK k \in Nat : /\ k <= scaledBToken[u][a]
                         /\ scaledBToken' = Move(scaledBToken, u, v, a, k)
    BY <1>2, ScaledNat DEF Transfer
  <2>2. Supplied(r)' = Supplied(r)
    BY <2>1, LedgersTyped, TotalMove DEF Supplied, Holders
  <2>3. UNCHANGED debtVars
    BY <1>2 DEF Transfer
  <2>. QED
    BY <1>0, <2>2, <2>3, DebtsStay
<1>3. ASSUME NEW u \in Users, NEW a \in Assets, NEW n \in Nat, Withdraw(u, a, n)
      PROVE  DebtsOfShrink(r) /\ Supplied(r)' <= Supplied(r)
  <2>1. BTokenBalance(u, a) \in Nat
    BY BTokenBalanceNat DEF Holders
  <2>2. PICK m \in Nat : BurnBToken(u, a, m) /\ UNCHANGED debtVars
    BY <1>3, <2>1 DEF Withdraw
  <2>. QED
    BY <2>2, BurntSupplyShrinks, DebtsStay
<1>4. ASSUME NEW u \in Users, NEW a \in Assets, NEW use, SetUserUseReserveAsCollateral(u, a, use)
      PROVE  DebtsOfShrink(r) /\ Supplied(r)' <= Supplied(r)
  BY <1>a, <1>4, DebtsStay DEF SetUserUseReserveAsCollateral
<1>5. ASSUME NEW u \in Users, NEW a \in Assets, NEW n \in Nat,
             NEW mode \in RateModes, Borrow(u, a, n, mode)
      PROVE  DebtsOfShrink(r) /\ Supplied(r)' <= Supplied(r)
  <2>1. a # r /\ MintDebt(u, a, n, mode) /\ UNCHANGED scaledBToken
    BY <1>5 DEF EntersReserve, Borrow
  <2>2. \A v \in Users : scaledDebt'[v][r] = scaledDebt[v][r] /\ stableDebt'[v][r] = stableDebt[v][r]
    BY <2>1, BurnDebtColumn
  <2>3. DebtsOfShrink(r)
    BY <2>2, LedgerTypes DEF DebtsOfShrink
  <2>. QED
    BY <1>a, <2>1, <2>3
<1>6. ASSUME NEW u \in Users, NEW v \in Users, NEW a \in Assets, NEW n \in Nat,
             NEW mode \in RateModes, Repay(u, v, a, n, mode)
      PROVE  DebtsOfShrink(r) /\ Supplied(r)' <= Supplied(r)
  <2>1. AtMost(n, DebtInMode(v, a, mode)) \in Nat
    BY AtMostNat, DebtInModeNat
  <2>2. PICK m \in Nat : BurnDebt(v, a, m, mode) /\ UNCHANGED scaledBToken
    BY <1>6, <2>1 DEF Repay, RepayDebt
  <2>. QED
    BY <1>a, <2>2, BurntDebtsShrink
<1>7. ASSUME NEW u \in Users, NEW a \in Assets, NEW n \in Nat, NEW mode \in RateModes,
             RepayWithBTokens(u, a, n, mode)
      PROVE  DebtsOfShrink(r) /\ Supplied(r)' <= Supplied(r)
  <2>1. \A k \in Nat : AtMost(k, DebtInMode(u, a, mode)) \in Nat
    BY AtMostNat, DebtInModeNat
  <2>2. BTokenBalance(u, a) \in Nat
    BY BTokenBalanceNat DEF Holders
  <2>3. PICK m \in Nat : BurnDebt(u, a, m, mode) /\ BurnBToken(u, a, m)
    BY <1>7, <2>1, <2>2 DEF RepayWithBTokens, RepayDebt
  <2>. QED
    BY <2>3, BurntDebtsShrink, BurntSupplyShrinks
<1>8. ASSUME NEW u \in Users, NEW a \in Assets, NEW mode \in RateModes,
             SwapBorrowRateMode(u, a, mode)
      PROVE  DebtsOfShrink(r) /\ Supplied(r)' <= Supplied(r)
  <2>1. a # r /\ UNCHANGED scaledBToken
    BY <1>8 DEF EntersReserve, SwapBorrowRateMode
  <2>2. PICK m, k : /\ \/ scaledDebt' = Credit(scaledDebt, u, a, m)
                       \/ scaledDebt' = Debit(scaledDebt, u, a, m)
                    /\ \/ stableDebt' = Credit(stableDebt, u, a, k)
                       \/ stableDebt' = Debit(stableDebt, u, a, k)
    BY <1>8 DEF SwapBorrowRateMode, BurnStableDebt, MintVariableDebt, BurnVariableDebt,
                MintStableDebt
  <2>3. /\ SameColumn(Users, scaledDebt, scaledDebt', r)
        /\ SameColumn(Users, stableDebt, stableDebt', r)
    BY <2>1, <2>2, LedgerTypes, OtherColumn
  <2>4. DebtsOfShrink(r)
    BY <2>3, LedgerTypes DEF DebtsOfShrink, SameColumn
  <2>. QED
    BY <1>a, <2>1, <2>4
<1>9. ASSUME NEW u \in Users, NEW v \in Users, NEW c \in Assets, NEW d \in Assets, NEW n \in Nat,
             NEW receive \in BOOLEAN, LiquidationCall(u, v, c, d, n, receive)
      PROVE  DebtsOfShrink(r) /\ Supplied(r)' <= Supplied(r)
  <2>. DEFINE amounts == CollateralToLiquidate(v, c, d, DebtToLiquidate(v, d, n))
  <2>1. amounts.collateral \in Nat /\ amounts.debt \in Nat /\ amounts.fee \in Nat
    <3>1. config[c].liquidationThreshold # 0
      BY <1>9 DEF LiquidationCall, ValidateLiquidationCall
    <3>. QED
      BY <3>1, DebtToLiquidateNat, LiquidationAmountsNat
  <2>2. BurnDebtTokens(v, d, amounts.debt) /\ SeizeCollateral(u, v, c, amounts, receive)
    BY <1>9 DEF LiquidationCall
  <2>. HIDE DEF amounts
  <2>. QED
    BY <2>1, <2>2, BurntDebtsShrink, SeizedSupplyShrinks
<1>. QED
  BY <1>1, <1>2, <1>3, <1>4, <1>5, <1>6, <1>7, <1>8, <1>9 DEF UserNext

LEMMA FrozenToUsers ==
    ASSUME NEW r \in Assets, config[r].frozen
    PROVE  ~EntersReserve(r)
BY DEF EntersReserve, Supply, ValidateSupply, Borrow, ValidateBorrow, SwapBorrowRateMode,
       ValidateSwapRateMode

\* Smaller scaled totals are worth less at the same index.
LEMMA TotalsShrink ==
    ASSUME TypeOK, TypeOK', UNCHANGED indexVars, NEW r \in Assets,
           DebtsOfShrink(r), Supplied(r)' <= Supplied(r)
    PROVE  /\ BTokenSupply(r)' <= BTokenSupply(r)
           /\ TotalStableDebt(r)' + TotalVariableDebt(r)'
                <= TotalStableDebt(r) + TotalVariableDebt(r)
<1>1. /\ liquidityIndex'[r] = liquidityIndex[r] /\ liquidityIndex[r] \in Nat
      /\ variableBorrowIndex'[r] = variableBorrowIndex[r] /\ variableBorrowIndex[r] \in Nat
  BY IndexType DEF indexVars
<1>2. Supplied(r) \in Nat /\ OwedVariable(r) \in Nat /\ OwedStable(r) \in Nat
  BY TotalsNat
<1>3. /\ scaledDebt \in Ledger(Users) /\ scaledDebt' \in Ledger(Users)
      /\ stableDebt \in Ledger(Users) /\ stableDebt' \in Ledger(Users)
      /\ scaledBToken' \in Ledger(Holders) /\ IsFiniteSet(Users) /\ IsFiniteSet(Holders)
  BY LedgersTyped DEF TypeOK, Ledger, Holders
<1>4. Supplied(r)' \in Nat /\ OwedVariable(r)' \in Nat /\ OwedStable(r)' \in Nat
  BY <1>3, TotalNat DEF Supplied, OwedVariable, OwedStable, Holders
<1>5. OwedVariable(r)' <= OwedVariable(r) /\ OwedStable(r)' <= OwedStable(r)
  BY <1>3, TotalMonotone DEF DebtsOfShrink, OwedVariable, OwedStable
<1>6. /\ BTokenSupply(r) = RayMul(Supplied(r), liquidityIndex[r])
      /\ TotalVariableDebt(r) = RayMul(OwedVariable(r), variableBorrowIndex[r])
      /\ TotalStableDebt(r) = OwedStable(r)
      /\ BTokenSupply(r)' = RayMul(Supplied(r)', liquidityIndex[r])
      /\ TotalVariableDebt(r)' = RayMul(OwedVariable(r)', variableBorrowIndex[r])
      /\ TotalStableDebt(r)' = OwedStable(r)'
  BY <1>1, SuppliesAreTotals, SuppliesAreTotalsNext
<1>7. /\ RayMul(Supplied(r)', liquidityIndex[r]) <= RayMul(Supplied(r), liquidityIndex[r])
      /\ RayMul(OwedVariable(r)', variableBorrowIndex[r])
           <= RayMul(OwedVariable(r), variableBorrowIndex[r])
      /\ RayMul(OwedVariable(r), variableBorrowIndex[r]) \in Nat
      /\ RayMul(OwedVariable(r)', variableBorrowIndex[r]) \in Nat
  BY <1>1, <1>2, <1>4, <1>5, RayMulMonotone, RayMulNat
<1>. QED
  BY <1>2, <1>4, <1>5, <1>6, <1>7

\* A frozen reserve can only be left: no call on it or on another reserve makes its
\* bToken supply or its debt grow, at any index.  In particular a liquidation pays its
\* fee out of claims that exist.
THEOREM FrozenReserveShrinks == Spec => FrozenReserveOnlyShrinks
<1>1. TypeOK /\ ParametersValid /\ TypeOK' /\ [Next]_vars =>
        [\A r \in Assets : config[r].frozen /\ UNCHANGED indexVars =>
           /\ BTokenSupply(r)' <= BTokenSupply(r)
           /\ TotalStableDebt(r)' + TotalVariableDebt(r)'
                <= TotalStableDebt(r) + TotalVariableDebt(r)]_vars
  <2>. SUFFICES ASSUME TypeOK, ParametersValid, TypeOK', [Next]_vars,
                       NEW r \in Assets, config[r].frozen, UNCHANGED indexVars
                PROVE  DebtsOfShrink(r) /\ Supplied(r)' <= Supplied(r)
    BY TotalsShrink
  <2>1. CASE UserNext
    BY <2>1, FrozenToUsers, OthersShrink
  <2>2. CASE EnvironmentNext \/ ConfiguratorNext \/ EModeNext \/ UNCHANGED vars
    <3>1. UNCHANGED <<scaledBToken, debtVars>>
      BY <2>2, OthersMoveNoMoney
    <3>2. Supplied(r)' = Supplied(r) /\ Supplied(r) \in Nat
      BY <3>1, SuppliedSame, TotalsNat
    <3>. QED
      BY <3>1, <3>2, DebtsStay
  <2>. QED
    BY <2>1, <2>2 DEF Next, PoolNext
<1>. QED
  BY <1>1, TypeCorrect, ParametersAlwaysValid, PTL DEF Spec, FrozenReserveOnlyShrinks
===============================================================================
