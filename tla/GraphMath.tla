------------------------------ MODULE GraphMath ------------------------------
(***************************************************************************)
(* The arithmetic of the subgraph: graph/src/helpers/math.ts.              *)
(*                                                                         *)
(* The helpers copy WadRayMath.sol, half a divisor before the division,    *)
(* but the integers are signed and their division drops the fraction       *)
(* towards zero.  For a negative amount the half is therefore added on the *)
(* wrong side: rayDiv(-a, b) is not -rayDiv(a, b), and the mapping does    *)
(* divide negative amounts (a Mint whose value is below its interest).     *)
(***************************************************************************)
EXTENDS WadRayMath

\* BigInt.div.
Truncated(a, b) == IF a >= 0 THEN a \div b ELSE -((-a) \div b)

graphRayDiv(a, b) == Truncated(a * RAY + b \div 2, b)

graphRayMul(a, b) == Truncated(a * b + RAY \div 2, RAY)
==============================================================================
