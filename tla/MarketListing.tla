---------------------------- MODULE MarketListing ----------------------------
(***************************************************************************)
(* What deploying a market comes down to: assets are listed, a helper is   *)
(* trusted to configure them, it configures them, and the trust is taken   *)
(* back.  Whatever happens to the scripts on the way, no asset is          *)
(* configured before all are listed nor by a helper that is not trusted,   *)
(* and the trust ends only when there is nothing left to configure.        *)
(***************************************************************************)
EXTENDS FiniteSets

CONSTANT Assets

VARIABLES
    listed,      \* the assets the pool knows
    configured,  \* the ones that can be collateral
    trusted      \* may the helper configure?

listing == <<listed, configured, trusted>>

Init == listed = {} /\ configured = {} /\ trusted = FALSE

\* A chunk of assets, none of them twice.
List(chunk) ==
    /\ chunk # {} /\ chunk \cap listed = {}
    /\ listed' = listed \cup chunk
    /\ UNCHANGED <<configured, trusted>>

Trust ==
    /\ listed = Assets
    /\ trusted' = TRUE
    /\ UNCHANGED <<listed, configured>>

Configure(chunk) ==
    /\ trusted /\ chunk # {} /\ chunk \subseteq listed
    /\ configured' = configured \cup chunk
    /\ UNCHANGED <<listed, trusted>>

Distrust ==
    /\ configured = Assets
    /\ trusted' = FALSE
    /\ UNCHANGED <<listed, configured>>

\* An admin may end what was listed: the asset is no collateral, or not even listed.
Retire(a) ==
    /\ a \in listed
    /\ configured' = configured \ {a}
    /\ listed' \in {listed, listed \ {a}}
    /\ UNCHANGED trusted

Next ==
    \/ \E chunk \in SUBSET Assets : List(chunk) \/ Configure(chunk)
    \/ \E a \in Assets : Retire(a)
    \/ Trust \/ Distrust

Spec == Init /\ [][Next]_listing
==============================================================================
