---------------------------- MODULE MCS3Snapshot ----------------------------
(***************************************************************************)
(* S3Snapshot for TLC.                                                     *)
(***************************************************************************)
EXTENDS S3Snapshot

\* Transactions that write one page or both, so that mixtures show.
SomePages == {{1}, {2}, {1, 2}}
=============================================================================
