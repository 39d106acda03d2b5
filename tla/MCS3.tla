-------------------------------- MODULE MCS3 --------------------------------
(***************************************************************************)
(* S3 for TLC.                                                             *)
(***************************************************************************)
EXTENDS S3, TLC

\* Transactions that write page 1 or both, so that mixtures show.
SomePages == {{1}, {1, 2}}

\* Statements that survive logging and replay, of two lengths; and what the
\* log does not carry over: a literal, in a statement that returns two rows;
\* another such statement, without the four verbs; one whose text cannot be
\* executed.
Statements ==
    {[eff |-> "a", replay |-> "a", logged |-> TRUE, steps |-> 1, len |-> 1],
     [eff |-> "b", replay |-> "b", logged |-> TRUE, steps |-> 1, len |-> 2],
     [eff |-> "x", replay |-> "X", logged |-> TRUE, steps |-> 2, len |-> 1],
     [eff |-> "d", replay |-> "d", logged |-> FALSE, steps |-> 2, len |-> 1],
     [eff |-> "e", replay |-> Error, logged |-> TRUE, steps |-> 1, len |-> 1]}

\* Bounds and faults of modes 1 and 2.
Txns == <<3, 2>>
Reads == <<1, 2>>
EveryFault == <<{"ClientError", "OtherError", "CheckpointError"},
                {"DownloadError", "CheckpointError"}>>

\* Connections are interchangeable.
Symmetry == Permutations(Conn)
=============================================================================
