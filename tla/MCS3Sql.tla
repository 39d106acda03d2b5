------------------------------ MODULE MCS3Sql ------------------------------
(***************************************************************************)
(* S3Sql for TLC.                                                          *)
(***************************************************************************)
EXTENDS S3Sql

\* Statements that survive logging and replay, of two lengths.
Plain == {[eff |-> "a", replay |-> "a", logged |-> TRUE, steps |-> 1, len |-> 1],
          [eff |-> "b", replay |-> "b", logged |-> TRUE, steps |-> 1, len |-> 2]}
=============================================================================
