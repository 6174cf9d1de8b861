------------------------------ MODULE MCIndexing ------------------------------
(***************************************************************************)
(* A listed market for TLC: the first user has supplied the first asset    *)
(* and the second one has supplied the second and borrowed the first, with *)
(* a ray of four and indexes that have grown to five.                      *)
(***************************************************************************)
EXTENDS MarketIndexing

CONSTANTS A, B, u1, u2

Scaled(balance) == [balance |-> balance, index |-> InitIndex]

Position(bBalance, vDebt, principal) ==
    [bToken |-> Scaled(bBalance), vToken |-> Scaled(vDebt), principal |-> principal,
     interest |-> 0, collateral |-> bBalance > 0]

Positions ==
    [p \in Holders \X Assets |->
        CASE p = <<u1, A>> -> Position(12, 0, 0)
          [] p = <<u2, B>> -> Position(6, 0, 0)
          [] p = <<u2, A>> -> Position(0, 8, 1)
          [] OTHER -> Position(0, 0, 0)]
===============================================================================
