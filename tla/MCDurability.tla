---------------------------- MODULE MCDurability ----------------------------
(***************************************************************************)
(* Durability for TLC.                                                     *)
(***************************************************************************)
EXTENDS Durability, TLC

\* Each way to finalize a journal, with and without its sync.  A database of
\* one page grows, one of two is rewritten.  PERSIST at NORMAL is left out:
\* the byte that voids a header of an earlier transaction and the count of
\* the new records are written there without a sync between them.
MCStarts == {<<"DELETE", "NORMAL", 1>>, <<"DELETE", "EXTRA", 2>>, <<"TRUNCATE", "NORMAL", 1>>,
             <<"TRUNCATE", "FULL", 1>>, <<"PERSIST", "FULL", 2>>}

MCConfigs == {"WAL"} \X {"NORMAL", "FULL"}

\* One page or both, so that a mixture of two transactions shows.
MCWriteSets == {{1}, {1, 2}}

\* Transactions with a rollback journal, and with a WAL.
MCMaxTxn == <<2, 3>>

\* Connections are interchangeable.
Symmetry == Permutations(Conn)
=============================================================================
