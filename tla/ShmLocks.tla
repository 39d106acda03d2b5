------------------------------ MODULE ShmLocks ------------------------------
(***************************************************************************)
(* What the locks of the wal-index promise the WAL: the table of lock      *)
(* bytes that Wal uses, in which a connection shares a byte or locks       *)
(* several for itself.                                                     *)
(***************************************************************************)
CONSTANTS Conn, None, Locks

VARIABLES lockX, lockS      \* holder and holders of each lock byte

vars == <<lockX, lockS>>

Init ==
    /\ lockX = [l \in Locks |-> None]
    /\ lockS = [l \in Locks |-> {}]

Share(c, l) ==
    /\ lockX[l] = None
    /\ lockS' = [lockS EXCEPT ![l] = @ \cup {c}]
    /\ UNCHANGED lockX

Lock(c, ls) ==
    /\ \A l \in ls : lockX[l] = None /\ lockS[l] = {}
    /\ lockX' = [l \in Locks |-> IF l \in ls THEN c ELSE lockX[l]]
    /\ UNCHANGED lockS

Unlock(C, ls) ==
    /\ lockX' = [l \in Locks |-> IF l \in ls /\ lockX[l] \in C THEN None ELSE lockX[l]]
    /\ lockS' = [l \in Locks |-> IF l \in ls THEN lockS[l] \ C ELSE lockS[l]]

Next ==
    \/ \E C \in SUBSET Conn : Unlock(C, Locks)         \* their process dies
    \/ \E c \in Conn, l \in Locks : Share(c, l)
    \/ \E c \in Conn, ls \in SUBSET Locks : Lock(c, ls)
    \/ \E c \in Conn, ls \in SUBSET Locks : Unlock({c}, ls)

Spec == Init /\ [][Next]_vars
=============================================================================
