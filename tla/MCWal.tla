------------------------------- MODULE MCWal -------------------------------
(***************************************************************************)
(* Wal and its inductive invariant for TLC.                                *)
(***************************************************************************)
EXTENDS WalRefinement, TLC

\* Every commit rewrites both pages, so that a mixture of two versions shows.
BothPages == {[pages |-> {1, 2}, size |-> 2]}

\* One page, so that every frame is a commit.
OnePage == {[pages |-> {1}, size |-> 1]}

\* Commits that grow the database to two pages, rewrite it, or cut it to one.
GrowShrink == {[pages |-> {1, 2}, size |-> 2], [pages |-> {1}, size |-> 1]}

\* Connections with the same roles are interchangeable.
Symmetry == Permutations(Conn)
============================================================================
