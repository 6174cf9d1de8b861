---------------------------- MODULE ArithmeticProofs ----------------------------
(***************************************************************************)
(* Facts about the rounding of WadRayMath that the ledgers rest on, and    *)
(* about sums over finite sets: what MapThenSumSet, by which the model     *)
(* writes the totals of its ledgers, adds up to.                           *)
(*                                                                         *)
(* MapThenSumSet takes an operator, which no theorem can be applied to, so *)
(* the lemmas are about Sum(f, S), the same sum of the values of a         *)
(* function.  It is defined by a recursive function on the subsets of S;   *)
(* that this function exists, and that its value does not depend on the    *)
(* order in which the elements are picked, is proved by induction.  The    *)
(* induction is itself a lemma about sets of natural numbers.              *)
(***************************************************************************)
EXTENDS WadRayMath, FiniteSetsExt, FiniteSetTheorems, WellFoundedInduction, TLAPS

-------------------------------------------------------------------------------
(* Rounding.                                                               *)

\* The defining bounds of integer division, for the solver's benefit.
LEMMA DivBounds ==
    ASSUME NEW a \in Nat, NEW b \in Nat \ {0}
    PROVE  /\ a \div b \in Nat
           /\ b * (a \div b) <= a
           /\ a < b * (a \div b) + b
OBVIOUS

LEMMA DivUnique ==
    ASSUME NEW a \in Nat, NEW b \in Nat \ {0}, NEW q \in Nat,
           b * q <= a, a < b * q + b
    PROVE  a \div b = q
OBVIOUS

LEMMA TimesNat ==
    ASSUME NEW a \in Nat, NEW b \in Nat
    PROVE  a * b \in Nat
OBVIOUS

\* A rounded quotient is a natural number within half a divisor of the exact one.
LEMMA DivHalfUpBounds ==
    ASSUME NEW a \in Nat, NEW b \in Nat \ {0}
    PROVE  /\ DivHalfUp(a, b) \in Nat
           /\ b * DivHalfUp(a, b) <= a + b \div 2
           /\ a + b \div 2 < b * DivHalfUp(a, b) + b
<1>1. b \div 2 \in Nat
  BY DivBounds
<1>2. a + b \div 2 \in Nat
  BY <1>1
<1>. QED
  BY <1>2, DivBounds DEF DivHalfUp

\* Rounding half up never exceeds a whole bound of the exact quotient.
LEMMA DivHalfUpLe ==
    ASSUME NEW x \in Nat, NEW b \in Nat \ {0}, NEW a \in Nat, x <= b * a
    PROVE  DivHalfUp(x, b) <= a
<1>. DEFINE q == DivHalfUp(x, b)
            h == b \div 2
<1>1. h \in Nat /\ 2 * h <= b
  BY DivBounds
<1>2. q \in Nat /\ b * q <= x + h
  BY DivHalfUpBounds
<1>. HIDE DEF q, h
<1>3. ASSUME a + 1 <= q PROVE FALSE
  <2>1. b * (a + 1) <= b * q
    BY <1>2, <1>3
  <2>2. b * (a + 1) = b * a + b /\ b * a \in Nat /\ b * q \in Nat
    BY <1>2, TimesNat
  <2>. QED
    BY <1>1, <1>2, <2>1, <2>2
<1>4. q <= a
  BY <1>2, <1>3
<1>. QED
  BY <1>4 DEF q

LEMMA RayMulNat ==
    ASSUME NEW a \in Nat, NEW b \in Nat
    PROVE  RayMul(a, b) \in Nat
BY MathAssumption, TimesNat, DivHalfUpBounds DEF RayMul

LEMMA RayDivNat ==
    ASSUME NEW a \in Nat, NEW b \in Nat \ {0}
    PROVE  RayDiv(a, b) \in Nat
BY MathAssumption, TimesNat, DivHalfUpBounds DEF RayDiv

LEMMA PercentMulNat ==
    ASSUME NEW a \in Nat, NEW b \in Nat
    PROVE  PercentMul(a, b) \in Nat
BY MathAssumption, TimesNat, DivHalfUpBounds DEF PercentMul

LEMMA PercentDivNat ==
    ASSUME NEW a \in Nat, NEW b \in Nat \ {0}
    PROVE  PercentDiv(a, b) \in Nat
BY MathAssumption, TimesNat, DivHalfUpBounds DEF PercentDiv

\* A percentage of at most 100 per cent is at most the whole.
LEMMA PercentMulLe ==
    ASSUME NEW a \in Nat, NEW p \in Nat, p <= PERCENTAGE_FACTOR
    PROVE  PercentMul(a, p) <= a
<1>1. a * p <= PERCENTAGE_FACTOR * a
  BY MathAssumption
<1>. QED
  BY <1>1, MathAssumption, TimesNat, DivHalfUpLe DEF PercentMul

\* Dividing by at least 100 per cent never increases an amount.
LEMMA PercentDivLe ==
    ASSUME NEW a \in Nat, NEW p \in Nat, p >= PERCENTAGE_FACTOR
    PROVE  PercentDiv(a, p) <= a
<1>1. a * PERCENTAGE_FACTOR <= p * a
  BY MathAssumption
<1>2. p \in Nat \ {0}
  BY MathAssumption
<1>. QED
  BY <1>1, <1>2, MathAssumption, TimesNat, DivHalfUpLe DEF PercentDiv

\* Nothing scaled is worth nothing.
LEMMA RayMulZero ==
    ASSUME NEW i \in Nat
    PROVE  RayMul(0, i) = 0
<1>1. RAY \in Nat \ {0} /\ 0 * i = 0
  BY MathAssumption
<1>2. (0 * i) \in Nat /\ 0 * i <= RAY * 0
  BY <1>1
<1>3. DivHalfUp(0 * i, RAY) <= 0 /\ DivHalfUp(0 * i, RAY) \in Nat
  BY <1>1, <1>2, DivHalfUpLe, DivHalfUpBounds
<1>. QED
  BY <1>3 DEF RayMul

\* ScaledBalanceTokenBase burns amount.rayDiv(index) scaled tokens, and the
\* amount of a full repayment or withdrawal is scaledBalance.rayMul(index): for
\* every index of at least one ray the two conversions cancel exactly, so a full
\* burn never leaves a scaled remainder nor asks for more than the balance.
THEOREM FullBurnIsExact ==
    ASSUME NEW s \in Nat, NEW i \in Nat, i >= RAY
    PROVE  RayDiv(RayMul(s, i), i) = s
<1>. DEFINE m == RayMul(s, i)
            h == RAY \div 2
            k == i \div 2
<1>1. /\ RAY \in Nat \ {0} /\ i \in Nat \ {0}
      /\ s * i \in Nat /\ h \in Nat /\ k \in Nat
  BY MathAssumption, TimesNat, DivBounds
<1>2. 2 * h <= RAY /\ RAY <= 2 * h + 1 /\ 2 * k <= i /\ i <= 2 * k + 1
  BY <1>1, DivBounds
<1>3. m \in Nat /\ RAY * m <= s * i + h /\ s * i + h < RAY * m + RAY
  BY <1>1, DivHalfUpBounds DEF RayMul
<1>4. RAY * m \in Nat /\ m * RAY = RAY * m
  BY <1>1, <1>3, TimesNat
<1>5. CASE i = RAY
  <2>1. RAY * s <= s * i + h /\ s * i + h < RAY * s + RAY
    BY <1>1, <1>2, <1>5
  <2>2. m = s
    BY <2>1, <1>1, DivUnique DEF RayMul, DivHalfUp
  <2>3. i * s <= m * RAY + k /\ m * RAY + k < i * s + i
    BY <2>2, <1>1, <1>2, <1>5
  <2>4. (m * RAY + k) \div i = s
    <3>. HIDE DEF m, k
    <3>. QED
      BY <2>3, <1>1, <1>3, <1>4, DivUnique
  <2>. QED
    BY <2>4 DEF RayDiv, DivHalfUp
<1>6. CASE i > RAY
  <2>1. m * RAY + k < s * i + i
    BY <1>1, <1>2, <1>3, <1>4, <1>6
  <2>2. s * i <= m * RAY + k
    BY <1>1, <1>2, <1>3, <1>4, <1>6
  <2>3. i * s = s * i
    BY <1>1
  <2>4. (m * RAY + k) \div i = s
    <3>. HIDE DEF m, k
    <3>. QED
      BY <2>1, <2>2, <2>3, <1>1, <1>3, <1>4, DivUnique
  <2>. QED
    BY <2>4 DEF RayDiv, DivHalfUp
<1>. QED
  BY <1>1, <1>5, <1>6

\* A non-zero scaled balance is worth at least as many tokens as it has scaled
\* units, so a balance or a debt reads zero exactly when its scaled form is zero.
THEOREM ScaledZero ==
    ASSUME NEW s \in Nat, NEW i \in Nat, i >= RAY
    PROVE  s <= RayMul(s, i)
<1>. DEFINE m == RayMul(s, i)
            h == RAY \div 2
<1>1. /\ RAY \in Nat \ {0} /\ h \in Nat
      /\ s * i \in Nat /\ s * RAY \in Nat
  BY MathAssumption, TimesNat, DivBounds
<1>2. m \in Nat /\ s * i + h < RAY * m + RAY
  BY <1>1, DivHalfUpBounds DEF RayMul
<1>3. s * RAY <= s * i
  BY <1>1
<1>4. s * RAY < RAY * m + RAY
  BY <1>1, <1>2, <1>3, TimesNat
<1>5. s * RAY < (m + 1) * RAY
  BY <1>1, <1>2, <1>4
<1>6. s < m + 1
  <2>. SUFFICES ASSUME m + 1 <= s PROVE FALSE
    BY <1>2
  <2>1. (m + 1) * RAY <= s * RAY
    BY <1>1, <1>2
  <2>. QED
    BY <2>1, <1>1, <1>2, <1>5, TimesNat
<1>. QED
  BY <1>2, <1>6

\* Rounding keeps the order of what it rounds.
LEMMA RayMulMonotone ==
    ASSUME NEW a \in Nat, NEW b \in Nat, NEW i \in Nat, a <= b
    PROVE  RayMul(a, i) <= RayMul(b, i)
<1>. DEFINE q == RayMul(a, i)
            p == RayMul(b, i)
            h == RAY \div 2
<1>1. /\ RAY \in Nat \ {0} /\ h \in Nat
      /\ a * i \in Nat /\ b * i \in Nat
  BY MathAssumption, TimesNat, DivBounds
<1>2. a * i <= b * i
  OBVIOUS
<1>3. /\ q \in Nat /\ RAY * q <= a * i + h
      /\ p \in Nat /\ b * i + h < RAY * p + RAY
  BY <1>1, DivHalfUpBounds DEF RayMul
<1>. HIDE DEF q, p, h
<1>4. RAY * q < RAY * p + RAY
  BY <1>1, <1>2, <1>3
<1>5. RAY * q < RAY * (p + 1)
  BY <1>1, <1>3, <1>4
<1>. QED
  BY <1>1, <1>3, <1>5 DEF q, p

LEMMA WadDivNat ==
    ASSUME NEW a \in Nat, NEW b \in Nat \ {0}
    PROVE  WadDiv(a, b) \in Nat
BY MathAssumption, TimesNat, DivHalfUpBounds DEF WadDiv

-------------------------------------------------------------------------------
(* Sums.                                                                   *)

Sum(f, S) == MapThenSumSet(LAMBDA x : f[x], S)

-------------------------------------------------------------------------------
(* Induction.                                                              *)

LEMMA LeastElement ==
    ASSUME NEW T, T \subseteq Nat, T # {}
    PROVE  \E n \in T : \A m \in T : n <= m
<1>1. PICK n \in T : \A m \in T : ~(<<m, n>> \in OpToRel(<, Nat))
  BY NatLessThanWellFounded, WFMin
<1>2. \A m \in T : ~(m < n)
  BY <1>1 DEF OpToRel
<1>. QED
  BY <1>2

\* A set of numbers that holds 0 and the successors of its members holds all numbers.
LEMMA InductionOverNat ==
    ASSUME NEW T, 0 \in T, \A n \in Nat : n \in T => n + 1 \in T
    PROVE  Nat \subseteq T
<1>. DEFINE U == Nat \ T
<1>. SUFFICES ASSUME U # {} PROVE FALSE
  OBVIOUS
<1>1. U \subseteq Nat
  OBVIOUS
<1>. HIDE DEF U
<1>2. PICK n \in U : \A m \in U : n <= m
  BY <1>1, LeastElement
<1>. USE DEF U
<1>3. n \in Nat /\ n # 0 /\ n - 1 \in Nat
  BY <1>2
<1>4. n - 1 \in T
  BY <1>2, <1>3
<1>. QED
  BY <1>2, <1>3, <1>4

\* A family of subsets of S that holds {} and, with every member but S, the member
\* and any one element more holds S.
LEMMA InductionOverSubsets ==
    ASSUME NEW S, IsFiniteSet(S), NEW C, {} \in C,
           \A T \in SUBSET S, x \in S : T \in C /\ x \notin T => T \cup {x} \in C
    PROVE  S \in C
<1>. DEFINE N == {n \in Nat : \A T \in SUBSET S : Cardinality(T) = n => T \in C}
<1>1. 0 \in N
  <2>1. \A T \in SUBSET S : Cardinality(T) = 0 => T = {}
    BY FS_Subset, FS_EmptySet
  <2>. QED
    BY <2>1
<1>2. ASSUME NEW n \in Nat, n \in N PROVE n + 1 \in N
  <2>. SUFFICES ASSUME NEW T \in SUBSET S, Cardinality(T) = n + 1 PROVE T \in C
    OBVIOUS
  <2>1. IsFiniteSet(T) /\ T # {}
    BY FS_Subset, FS_EmptySet
  <2>2. PICK x \in T : TRUE
    BY <2>1
  <2>3. Cardinality(T \ {x}) = n
    <3>1. Cardinality(T \ {x}) = Cardinality(T) - 1
      BY <2>1, FS_RemoveElement
    <3>. QED
      BY <3>1
  <2>4. T \ {x} \in C
    BY <1>2, <2>3
  <2>5. (T \ {x}) \cup {x} = T
    OBVIOUS
  <2>. QED
    BY <2>4, <2>5
<1>3. Nat \subseteq N
  <2>. HIDE DEF N
  <2>. QED
    BY <1>1, <1>2, InductionOverNat
<1>4. Cardinality(S) \in Nat
  BY FS_CardinalityType
<1>. QED
  BY <1>3, <1>4
-------------------------------------------------------------------------------
(* The recursive function behind a sum.                                    *)

Pick(s) == CHOOSE x \in s : TRUE

\* The sum over s, taken from the sums over smaller sets.
Added(f, it, s) == IF s = {} THEN 0 ELSE f[Pick(s)] + it[s \ {Pick(s)}]

\* `it` maps every set of the family D to its sum.
Adds(it, f, D) == it = [s \in D |-> Added(f, it, s)]

\* `it` maps every subset of S to its sum.
AddsParts(it, f, S) == Adds(it, f, SUBSET S)

LEMMA PickRemoved ==
    ASSUME NEW s, s # {}, IsFiniteSet(s)
    PROVE  /\ Pick(s) \in s
           /\ IsFiniteSet(s \ {Pick(s)})
           /\ Cardinality(s) \in Nat /\ Cardinality(s \ {Pick(s)}) \in Nat
           /\ Cardinality(s) = Cardinality(s \ {Pick(s)}) + 1
<1>1. Pick(s) \in s
  BY DEF Pick
<1>2. /\ IsFiniteSet(s \ {Pick(s)})
      /\ Cardinality(s \ {Pick(s)}) = Cardinality(s) - 1
  BY <1>1, FS_RemoveElement
<1>3. Cardinality(s) \in Nat /\ Cardinality(s \ {Pick(s)}) \in Nat
  BY <1>2, FS_CardinalityType
<1>. QED
  BY <1>1, <1>2, <1>3

LEMMA SumsExist ==
    ASSUME NEW f, NEW S, IsFiniteSet(S)
    PROVE  \E it : AddsParts(it, f, S)
<1>. DEFINE D(n) == {s \in SUBSET S : Cardinality(s) <= n}
            N == {n \in Nat : \E it : Adds(it, f, D(n))}
<1>0. \A s \in SUBSET S : IsFiniteSet(s) /\ Cardinality(s) \in Nat
  BY FS_Subset, FS_CardinalityType
<1>1. 0 \in N
  <2>. DEFINE zero == [s \in D(0) |-> 0]
  <2>1. \A s \in D(0) : s = {}
    BY <1>0, FS_EmptySet
  <2>2. Adds(zero, f, D(0))
    BY <2>1 DEF AddsParts, Adds, Added
  <2>. QED
    BY <2>2
<1>2. ASSUME NEW n \in Nat, n \in N PROVE n + 1 \in N
  <2>1. PICK it : Adds(it, f, D(n))
    BY <1>2
  <2>. DEFINE jt == [s \in D(n + 1) |-> Added(f, it, s)]
  <2>2. ASSUME NEW s \in D(n + 1) PROVE Added(f, it, s) = Added(f, jt, s)
    <3>. SUFFICES ASSUME s # {} PROVE it[s \ {Pick(s)}] = jt[s \ {Pick(s)}]
      BY DEF Added
    <3>. DEFINE t == s \ {Pick(s)}
    <3>1. Cardinality(t) \in Nat /\ Cardinality(s) = Cardinality(t) + 1
      BY <1>0, PickRemoved
    <3>2. t \in SUBSET S /\ Cardinality(t) <= n
      BY <3>1
    <3>3. it[t] = Added(f, it, t)
      BY <2>1, <3>2 DEF Adds
    <3>4. t \in D(n + 1)
      BY <3>1, <3>2
    <3>. QED
      BY <3>3, <3>4
  <2>3. Adds(jt, f, D(n + 1))
    BY <2>2 DEF Adds
  <2>. HIDE DEF jt, D
  <2>. QED
    BY <2>3
<1>3. Cardinality(S) \in N
  <2>. HIDE DEF N
  <2>. QED
    BY <1>0, <1>1, <1>2, InductionOverNat
<1>4. D(Cardinality(S)) = SUBSET S
  BY <1>0, FS_Subset
<1>. QED
  BY <1>3, <1>4 DEF AddsParts

\* Computed for S or for a part of it, the sum is the same.
LEMMA SumsAgree ==
    ASSUME NEW f, NEW S, IsFiniteSet(S), NEW R \in SUBSET S,
           NEW it, AddsParts(it, f, S), NEW jt, AddsParts(jt, f, R)
    PROVE  it[R] = jt[R]
<1>. DEFINE N == {n \in Nat : \A s \in SUBSET R : Cardinality(s) = n => it[s] = jt[s]}
<1>0. \A s \in SUBSET R : IsFiniteSet(s) /\ Cardinality(s) \in Nat
  BY FS_Subset, FS_CardinalityType
<1>1. \A s \in SUBSET R : it[s] = Added(f, it, s) /\ jt[s] = Added(f, jt, s)
  BY DEF AddsParts, Adds
<1>2. 0 \in N
  <2>1. ASSUME NEW s \in SUBSET R, Cardinality(s) = 0 PROVE it[s] = jt[s]
    <3>1. s = {}
      BY <1>0, <2>1, FS_EmptySet
    <3>. QED
      BY <1>1, <3>1 DEF Added
  <2>. QED
    BY <2>1
<1>3. ASSUME NEW n \in Nat, n \in N PROVE n + 1 \in N
  <2>1. ASSUME NEW s \in SUBSET R, Cardinality(s) = n + 1 PROVE it[s] = jt[s]
    <3>1. s # {}
      <4>1. Cardinality({}) = 0 /\ n + 1 # 0
        BY FS_EmptySet
      <4>. QED
        BY <2>1, <4>1
    <3>2. /\ Cardinality(s \ {Pick(s)}) \in Nat
          /\ Cardinality(s) = Cardinality(s \ {Pick(s)}) + 1
      BY <1>0, <3>1, PickRemoved
    <3>3. Cardinality(s \ {Pick(s)}) = n
      BY <2>1, <3>2
    <3>4. it[s \ {Pick(s)}] = jt[s \ {Pick(s)}]
      BY <1>3, <3>3
    <3>. QED
      BY <1>1, <3>1, <3>4 DEF Added
  <2>. QED
    BY <2>1
<1>4. Cardinality(R) \in N
  <2>. HIDE DEF N
  <2>. QED
    BY <1>0, <1>2, <1>3, InductionOverNat
<1>. QED
  BY <1>4

\* A sum is the value of any such function.
LEMMA SumValue ==
    ASSUME NEW f, NEW S, IsFiniteSet(S), NEW it, AddsParts(it, f, S),
           NEW T \in SUBSET S
    PROVE  Sum(f, T) = it[T]
<1>. DEFINE jt == CHOOSE j : AddsParts(j, f, T)
<1>1. IsFiniteSet(T)
  BY FS_Subset
<1>2. AddsParts(jt, f, T)
  BY <1>1, SumsExist
<1>3. Sum(f, T) = jt[T]
  BY DEF Sum, MapThenSumSet, MapThenFoldSet, AddsParts, Adds, Added, Pick
<1>. HIDE DEF jt
<1>. QED
  BY <1>2, <1>3, SumsAgree

-------------------------------------------------------------------------------
(* What a sum adds up to.                                                  *)

LEMMA SumEmpty == ASSUME NEW f PROVE Sum(f, {}) = 0
<1>1. PICK it : AddsParts(it, f, {})
  BY FS_EmptySet, SumsExist
<1>2. Sum(f, {}) = it[{}]
  BY <1>1, FS_EmptySet, SumValue
<1>. QED
  BY <1>1, <1>2 DEF AddsParts, Adds, Added

LEMMA SumPicked ==
    ASSUME NEW f, NEW S, IsFiniteSet(S), S # {}
    PROVE  Sum(f, S) = f[Pick(S)] + Sum(f, S \ {Pick(S)})
<1>1. PICK it : AddsParts(it, f, S)
  BY SumsExist
<1>2. Sum(f, S) = it[S] /\ Sum(f, S \ {Pick(S)}) = it[S \ {Pick(S)}]
  BY <1>1, SumValue
<1>. QED
  BY <1>1, <1>2 DEF AddsParts, Adds, Added

\* Only the values of f on S matter.
LEMMA SumSame ==
    ASSUME NEW f, NEW g, NEW S, IsFiniteSet(S), \A x \in S : f[x] = g[x]
    PROVE  Sum(f, S) = Sum(g, S)
<1>1. PICK it : AddsParts(it, f, S)
  BY SumsExist
<1>2. \A s \in SUBSET S : Added(f, it, s) = Added(g, it, s)
  BY DEF Added, Pick
<1>3. AddsParts(it, g, S)
  BY <1>1, <1>2 DEF AddsParts, Adds
<1>. QED
  BY <1>1, <1>3, SumValue

LEMMA SumNat ==
    ASSUME NEW f, NEW S, IsFiniteSet(S), \A x \in S : f[x] \in Nat
    PROVE  Sum(f, S) \in Nat
<1>. DEFINE N == {n \in Nat : \A s \in SUBSET S : Cardinality(s) = n => Sum(f, s) \in Nat}
<1>0. \A s \in SUBSET S : IsFiniteSet(s) /\ Cardinality(s) \in Nat
  BY FS_Subset, FS_CardinalityType
<1>1. 0 \in N
  BY <1>0, FS_EmptySet, SumEmpty
<1>2. ASSUME NEW n \in Nat, n \in N PROVE n + 1 \in N
  <2>1. ASSUME NEW s \in SUBSET S, Cardinality(s) = n + 1 PROVE Sum(f, s) \in Nat
    <3>1. s # {}
      <4>1. Cardinality({}) = 0 /\ n + 1 # 0
        BY FS_EmptySet
      <4>. QED
        BY <2>1, <4>1
    <3>2. /\ Pick(s) \in s
          /\ Cardinality(s \ {Pick(s)}) \in Nat
          /\ Cardinality(s) = Cardinality(s \ {Pick(s)}) + 1
      BY <1>0, <3>1, PickRemoved
    <3>3. Cardinality(s \ {Pick(s)}) = n
      BY <2>1, <3>2
    <3>4. Sum(f, s \ {Pick(s)}) \in Nat
      BY <1>2, <3>3
    <3>5. Sum(f, s) = f[Pick(s)] + Sum(f, s \ {Pick(s)})
      BY <1>0, <3>1, SumPicked
    <3>6. f[Pick(s)] \in Nat
      BY <3>2
    <3>. QED
      BY <3>4, <3>5, <3>6
  <2>. QED
    BY <2>1
<1>3. Cardinality(S) \in N
  <2>. HIDE DEF N
  <2>. QED
    BY <1>0, <1>1, <1>2, InductionOverNat
<1>. QED
  BY <1>3

LEMMA SumInt ==
    ASSUME NEW f, NEW S, IsFiniteSet(S), \A x \in S : f[x] \in Int
    PROVE  Sum(f, S) \in Int
<1>. DEFINE N == {n \in Nat : \A s \in SUBSET S : Cardinality(s) = n => Sum(f, s) \in Int}
<1>0. \A s \in SUBSET S : IsFiniteSet(s) /\ Cardinality(s) \in Nat
  BY FS_Subset, FS_CardinalityType
<1>1. 0 \in N
  BY <1>0, FS_EmptySet, SumEmpty
<1>2. ASSUME NEW n \in Nat, n \in N PROVE n + 1 \in N
  <2>1. ASSUME NEW s \in SUBSET S, Cardinality(s) = n + 1 PROVE Sum(f, s) \in Int
    <3>1. s # {}
      <4>1. Cardinality({}) = 0 /\ n + 1 # 0
        BY FS_EmptySet
      <4>. QED
        BY <2>1, <4>1
    <3>2. /\ Pick(s) \in s
          /\ Cardinality(s \ {Pick(s)}) \in Nat
          /\ Cardinality(s) = Cardinality(s \ {Pick(s)}) + 1
      BY <1>0, <3>1, PickRemoved
    <3>3. Cardinality(s \ {Pick(s)}) = n
      BY <2>1, <3>2
    <3>4. Sum(f, s \ {Pick(s)}) \in Int
      BY <1>2, <3>3
    <3>5. Sum(f, s) = f[Pick(s)] + Sum(f, s \ {Pick(s)})
      BY <1>0, <3>1, SumPicked
    <3>6. f[Pick(s)] \in Int
      BY <3>2
    <3>. QED
      BY <3>4, <3>5, <3>6
  <2>. QED
    BY <2>1
<1>3. Cardinality(S) \in N
  <2>. HIDE DEF N
  <2>. QED
    BY <1>0, <1>1, <1>2, InductionOverNat
<1>. QED
  BY <1>3

\* Any element may be taken out first.
LEMMA SumRemove ==
    ASSUME NEW f, NEW S, IsFiniteSet(S), \A x \in S : f[x] \in Int, NEW e \in S
    PROVE  Sum(f, S) = f[e] + Sum(f, S \ {e})
<1>. DEFINE N == {n \in Nat : \A s \in SUBSET S : Cardinality(s) = n =>
                                \A x \in s : Sum(f, s) = f[x] + Sum(f, s \ {x})}
<1>0. \A s \in SUBSET S : IsFiniteSet(s) /\ Cardinality(s) \in Nat /\ Sum(f, s) \in Int
  BY FS_Subset, FS_CardinalityType, SumInt
<1>1. 0 \in N
  BY <1>0, FS_EmptySet
<1>2. ASSUME NEW n \in Nat, n \in N PROVE n + 1 \in N
  <2>1. ASSUME NEW s \in SUBSET S, Cardinality(s) = n + 1, NEW x \in s
        PROVE  Sum(f, s) = f[x] + Sum(f, s \ {x})
    <3>. DEFINE p == Pick(s)
    <3>1. p \in s /\ Sum(f, s) = f[p] + Sum(f, s \ {p})
      BY <1>0, SumPicked DEF Pick
    <3>2. CASE p = x
      BY <3>1, <3>2
    <3>3. CASE p # x
      <4>1. /\ Cardinality(s \ {p}) = Cardinality(s) - 1
            /\ Cardinality(s \ {x}) = Cardinality(s) - 1
        BY <1>0, <3>1, FS_RemoveElement
      <4>2. Cardinality(s \ {p}) = n /\ Cardinality(s \ {x}) = n
        BY <2>1, <4>1
      <4>3. Sum(f, s \ {p}) = f[x] + Sum(f, (s \ {p}) \ {x})
        BY <1>2, <3>3, <4>2
      <4>4. Sum(f, s \ {x}) = f[p] + Sum(f, (s \ {x}) \ {p})
        BY <1>2, <3>1, <3>3, <4>2
      <4>5. (s \ {p}) \ {x} = (s \ {x}) \ {p}
        OBVIOUS
      <4>6. f[p] \in Int /\ f[x] \in Int /\ Sum(f, (s \ {x}) \ {p}) \in Int
        BY <1>0, <3>1
      <4>7. Sum(f, s \ {p}) = f[x] + Sum(f, (s \ {x}) \ {p})
        BY <4>3, <4>5
      <4>. HIDE DEF p
      <4>. QED
        BY <3>1, <4>4, <4>6, <4>7
    <3>. QED
      BY <3>2, <3>3
  <2>. QED
    BY <2>1
<1>3. Cardinality(S) \in N
  <2>. HIDE DEF N
  <2>. QED
    BY <1>0, <1>1, <1>2, InductionOverNat
<1>. QED
  BY <1>3

\* Changing one value changes the sum by as much.
LEMMA SumChange ==
    ASSUME NEW f, NEW g, NEW S, IsFiniteSet(S), NEW e \in S,
           \A x \in S : f[x] \in Int /\ g[x] \in Int,
           \A x \in S : x # e => g[x] = f[x]
    PROVE  /\ Sum(f, S) \in Int /\ Sum(g, S) \in Int
           /\ Sum(g, S) + f[e] = Sum(f, S) + g[e]
<1>1. IsFiniteSet(S \ {e})
  BY FS_RemoveElement
<1>2. Sum(f, S \ {e}) = Sum(g, S \ {e}) /\ Sum(f, S \ {e}) \in Int
  BY <1>1, SumSame, SumInt
<1>3. Sum(f, S) = f[e] + Sum(f, S \ {e}) /\ Sum(g, S) = g[e] + Sum(g, S \ {e})
  BY SumRemove
<1>. QED
  BY <1>2, <1>3

LEMMA SumUpdate ==
    ASSUME NEW f, NEW g, NEW S, IsFiniteSet(S), NEW e \in S,
           \A x \in S : f[x] \in Nat /\ g[x] \in Nat,
           \A x \in S : x # e => g[x] = f[x]
    PROVE  /\ Sum(f, S) \in Nat /\ Sum(g, S) \in Nat
           /\ Sum(g, S) + f[e] = Sum(f, S) + g[e]
BY SumNat, SumChange

\* No value is larger than the sum of all, and a sum of zero has no other values.
LEMMA SumBound ==
    ASSUME NEW f, NEW S, IsFiniteSet(S), \A x \in S : f[x] \in Nat, NEW e \in S
    PROVE  f[e] <= Sum(f, S)
<1>1. IsFiniteSet(S \ {e})
  BY FS_RemoveElement
<1>2. Sum(f, S \ {e}) \in Nat
  BY <1>1, SumNat
<1>3. Sum(f, S) = f[e] + Sum(f, S \ {e})
  BY SumRemove
<1>. QED
  BY <1>2, <1>3

LEMMA SumOfZeros ==
    ASSUME NEW f, NEW S, IsFiniteSet(S), \A x \in S : f[x] = 0
    PROVE  Sum(f, S) = 0
<1>. DEFINE C == {T \in SUBSET S : Sum(f, T) = 0}
<1>1. {} \in C
  BY SumEmpty
<1>2. ASSUME NEW T \in SUBSET S, NEW x \in S, T \in C, x \notin T PROVE T \cup {x} \in C
  <2>1. IsFiniteSet(T \cup {x}) /\ \A y \in T \cup {x} : f[y] \in Nat
    BY FS_Subset
  <2>2. (T \cup {x}) \ {x} = T
    BY <1>2
  <2>3. Sum(f, T \cup {x}) = f[x] + Sum(f, T)
    BY <2>1, <2>2, SumRemove
  <2>. QED
    BY <1>2, <2>3
<1>3. S \in C
  <2>. HIDE DEF C
  <2>. QED
    BY <1>1, <1>2, InductionOverSubsets
<1>. QED
  BY <1>3

LEMMA SumMonotone ==
    ASSUME NEW f, NEW g, NEW S, IsFiniteSet(S),
           \A x \in S : f[x] \in Nat /\ g[x] \in Nat /\ f[x] <= g[x]
    PROVE  Sum(f, S) <= Sum(g, S)
<1>. DEFINE C == {T \in SUBSET S : Sum(f, T) <= Sum(g, T)}
<1>1. {} \in C
  BY SumEmpty
<1>2. ASSUME NEW T \in SUBSET S, NEW x \in S, T \in C, x \notin T PROVE T \cup {x} \in C
  <2>1. /\ IsFiniteSet(T) /\ IsFiniteSet(T \cup {x})
        /\ \A y \in T \cup {x} : f[y] \in Nat /\ g[y] \in Nat
    BY FS_Subset
  <2>2. (T \cup {x}) \ {x} = T
    BY <1>2
  <2>3. /\ Sum(f, T \cup {x}) = f[x] + Sum(f, T)
        /\ Sum(g, T \cup {x}) = g[x] + Sum(g, T)
    BY <2>1, <2>2, SumRemove
  <2>4. Sum(f, T) \in Nat /\ Sum(g, T) \in Nat
    BY <2>1, SumNat
  <2>. QED
    BY <1>2, <2>3, <2>4
<1>3. S \in C
  <2>. HIDE DEF C
  <2>. QED
    BY <1>1, <1>2, InductionOverSubsets
<1>. QED
  BY <1>3

\* Values of zero add nothing.
LEMMA SumPadded ==
    ASSUME NEW f, NEW g, NEW A, IsFiniteSet(A), NEW S \in SUBSET A,
           \A x \in A : g[x] = IF x \in S THEN f[x] ELSE 0,
           \A x \in S : f[x] \in Nat
    PROVE  Sum(g, A) = Sum(f, S)
<1>. DEFINE C == {T \in SUBSET A : Sum(g, T) = Sum(f, T \cap S)}
<1>1. {} \in C
  <2>1. {} \cap S = {}
    OBVIOUS
  <2>. QED
    BY <2>1, SumEmpty
<1>2. ASSUME NEW T \in SUBSET A, NEW x \in A, T \in C, x \notin T PROVE T \cup {x} \in C
  <2>1. /\ IsFiniteSet(T \cup {x}) /\ IsFiniteSet(T \cap S) /\ IsFiniteSet((T \cap S) \cup {x})
        /\ \A y \in T \cup {x} : g[y] \in Nat
    BY FS_Subset
  <2>2. (T \cup {x}) \ {x} = T
    BY <1>2
  <2>3. Sum(g, T \cup {x}) = g[x] + Sum(g, T)
    BY <2>1, <2>2, SumRemove
  <2>4. Sum(f, T \cap S) \in Nat
    BY <2>1, SumNat
  <2>5. CASE x \in S
    <3>1. (T \cup {x}) \cap S = (T \cap S) \cup {x} /\ ((T \cap S) \cup {x}) \ {x} = T \cap S
      BY <1>2, <2>5
    <3>2. \A y \in (T \cap S) \cup {x} : f[y] \in Nat
      BY <2>5
    <3>3. Sum(f, (T \cap S) \cup {x}) = f[x] + Sum(f, T \cap S)
      BY <2>1, <3>1, <3>2, SumRemove
    <3>. QED
      BY <1>2, <2>3, <2>5, <3>1, <3>3
  <2>6. CASE x \notin S
    <3>1. (T \cup {x}) \cap S = T \cap S
      BY <2>6
    <3>2. g[x] = 0 /\ Sum(g, T) = Sum(f, T \cap S)
      BY <1>2, <2>6
    <3>3. Sum(g, T \cup {x}) = Sum(f, T \cap S)
      BY <2>3, <2>4, <3>2
    <3>. QED
      BY <3>1, <3>3
  <2>. QED
    BY <2>5, <2>6
<1>3. A \in C
  <2>. HIDE DEF C
  <2>. QED
    BY <1>1, <1>2, InductionOverSubsets
<1>4. A \cap S = S
  OBVIOUS
<1>. QED
  BY <1>3, <1>4

\* A bound on every value, by a factor, bounds the sum.
LEMMA SumScaled ==
    ASSUME NEW f, NEW g, NEW S, IsFiniteSet(S), NEW k \in Nat,
           \A x \in S : f[x] \in Nat /\ g[x] \in Nat /\ g[x] <= k * f[x]
    PROVE  Sum(g, S) <= k * Sum(f, S)
<1>. DEFINE C == {T \in SUBSET S : Sum(g, T) <= k * Sum(f, T)}
<1>1. {} \in C
  BY SumEmpty
<1>2. ASSUME NEW T \in SUBSET S, NEW x \in S, T \in C, x \notin T PROVE T \cup {x} \in C
  <2>1. /\ IsFiniteSet(T) /\ IsFiniteSet(T \cup {x})
        /\ \A y \in T \cup {x} : f[y] \in Nat /\ g[y] \in Nat
    BY FS_Subset
  <2>2. (T \cup {x}) \ {x} = T
    BY <1>2
  <2>3. /\ Sum(f, T \cup {x}) = f[x] + Sum(f, T)
        /\ Sum(g, T \cup {x}) = g[x] + Sum(g, T)
    BY <2>1, <2>2, SumRemove
  <2>4. Sum(f, T) \in Nat /\ Sum(g, T) \in Nat /\ f[x] \in Nat /\ g[x] \in Nat
    BY <2>1, SumNat
  <2>5. k * (f[x] + Sum(f, T)) = k * f[x] + k * Sum(f, T)
    BY <2>4
  <2>6. g[x] <= k * f[x] /\ Sum(g, T) <= k * Sum(f, T) /\ k * f[x] \in Nat /\ k * Sum(f, T) \in Nat
    BY <1>2, <2>4
  <2>7. g[x] + Sum(g, T) <= k * f[x] + k * Sum(f, T)
    BY <2>4, <2>6
  <2>. QED
    BY <2>3, <2>5, <2>7
<1>3. S \in C
  <2>. HIDE DEF C
  <2>. QED
    BY <1>1, <1>2, InductionOverSubsets
<1>. QED
  BY <1>3

-------------------------------------------------------------------------------
(* Ledgers: the sum over h of ledger[h][r].                                *)

Column(ledger, S, r) == [h \in S |-> ledger[h][r]]

Total(ledger, S, r) == MapThenSumSet(LAMBDA h : ledger[h][r], S)

LEMMA TotalIsSum ==
    ASSUME NEW ledger, NEW S, NEW r, IsFiniteSet(S)
    PROVE  Total(ledger, S, r) = Sum(Column(ledger, S, r), S)
<1>. DEFINE P(it) == it = [s \in SUBSET S |->
                       IF s = {} THEN 0 ELSE ledger[Pick(s)][r] + it[s \ {Pick(s)}]]
            c == Column(ledger, S, r)
            jt == CHOOSE it : P(it)
<1>1. \A it : \A s \in SUBSET S :
        Added(c, it, s) = IF s = {} THEN 0 ELSE ledger[Pick(s)][r] + it[s \ {Pick(s)}]
  BY DEF Added, Column, Pick
<1>2. \A it : P(it) <=> AddsParts(it, c, S)
  <2>. HIDE DEF c
  <2>. QED
    BY <1>1 DEF AddsParts, Adds
<1>3. Total(ledger, S, r) = jt[S]
  BY DEF Total, MapThenSumSet, MapThenFoldSet, Pick
<1>4. \E it : AddsParts(it, c, S)
  BY SumsExist
<1>. HIDE DEF P, c
<1>5. P(jt)
  BY <1>2, <1>4
<1>6. AddsParts(jt, c, S)
  BY <1>2, <1>5
<1>. HIDE DEF jt
<1>7. Sum(c, S) = jt[S]
  BY <1>6, SumValue
<1>. QED
  BY <1>3, <1>7 DEF c
===============================================================================
