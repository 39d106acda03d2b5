--------------------------- MODULE MCSharedState ---------------------------
(***************************************************************************)
(* SharedState for TLC: small hash tables, so that a log of a few frames   *)
(* needs two of them and pages collide in them; and two processes, with    *)
(* two connections each.                                                   *)
(***************************************************************************)
EXTENDS SharedState, TLC

CONSTANTS a1, a2, b1, b2

Processes == (a1 :> 1) @@ (a2 :> 1) @@ (b1 :> 2) @@ (b2 :> 2)

\* One lock byte, and two next to each other as a recovery locks them.
SlotRanges == {{0}, {1}, {0, 1}}
=============================================================================
