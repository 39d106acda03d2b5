---------------------------- MODULE MCS3Partial ----------------------------
(***************************************************************************)
(* S3Partial for TLC.                                                      *)
(***************************************************************************)
EXTENDS S3Partial

\* Transactions that write one page or both.
SomePages == {{1}, {2}, {1, 2}}
=============================================================================
