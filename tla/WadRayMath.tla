------------------------------ MODULE WadRayMath ------------------------------
(***************************************************************************)
(* The fixed-point arithmetic every amount of the protocol goes through:   *)
(* libraries/math/WadRayMath.sol and libraries/math/PercentageMath.sol.    *)
(*                                                                         *)
(* The code fixes RAY = 1e27, WAD = 1e18 and PERCENTAGE_FACTOR = 1e4.      *)
(* Here they are parameters: what the lemmas state holds for every         *)
(* positive unit, and TLC, whose integers have 32 bits, is run with small  *)
(* ones.  Every operation rounds half up, as the assembly blocks do by     *)
(* adding half the divisor before an integer division.  Divisions by zero  *)
(* and 256-bit overflows revert in the code; callers never divide by zero  *)
(* and the amounts of a run stay far from 2^256.                           *)
(***************************************************************************)
EXTENDS Integers

CONSTANTS
    RAY,                \* unit of indexes and rates
    WAD,                \* unit of health factors
    PERCENTAGE_FACTOR   \* 100 per cent

ASSUME MathAssumption ==
    /\ RAY \in Nat \ {0}
    /\ WAD \in Nat \ {0}
    /\ PERCENTAGE_FACTOR \in Nat \ {0}

\* a / b rounded half up: what every division of the two libraries computes.
DivHalfUp(a, b) == (a + b \div 2) \div b

RayMul(a, b) == DivHalfUp(a * b, RAY)

RayDiv(a, b) == DivHalfUp(a * RAY, b)

WadDiv(a, b) == DivHalfUp(a * WAD, b)

PercentMul(value, percentage) == DivHalfUp(value * percentage, PERCENTAGE_FACTOR)

PercentDiv(value, percentage) == DivHalfUp(value * PERCENTAGE_FACTOR, percentage)
===============================================================================
