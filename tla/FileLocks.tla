----------------------------- MODULE FileLocks -----------------------------
(***************************************************************************)
(* What the locks on the database file promise the pager (os.h): readers   *)
(* next to at most one writer to be, and a writer alone.  Journal uses     *)
(* these levels with every connection in a process of its own.             *)
(***************************************************************************)
EXTENDS Naturals

CONSTANTS Conn, pid     \* pid: the process of each connection

VARIABLE level

NO_LOCK == 0
SHARED_LOCK == 1
RESERVED_LOCK == 2
PENDING_LOCK == 3
EXCLUSIVE_LOCK == 4

Init == level = [c \in Conn |-> NO_LOCK]

Others(c) == Conn \ {c}
To(c, l) == level' = [level EXCEPT ![c] = l]

\* A PENDING lock stops readers, but not in a process that reads already.
Share(c) ==
    /\ level[c] = NO_LOCK
    /\ \A d \in Others(c) :
          /\ level[d] # EXCLUSIVE_LOCK
          /\ level[d] = PENDING_LOCK =>
                \E e \in Others(c) : pid[e] = pid[c] /\ level[e] = SHARED_LOCK
    /\ To(c, SHARED_LOCK)

Reserve(c) ==
    /\ level[c] = SHARED_LOCK
    /\ \A d \in Others(c) : level[d] <= SHARED_LOCK
    /\ To(c, RESERVED_LOCK)

Pend(c) == level[c] = RESERVED_LOCK /\ To(c, PENDING_LOCK)

\* Straight from SHARED for a hot journal or the close of a WAL.
Exclude(c) ==
    /\ level[c] \in {SHARED_LOCK, PENDING_LOCK}
    /\ \A d \in Others(c) : level[d] = NO_LOCK
    /\ To(c, EXCLUSIVE_LOCK)

Release(c) == \E l \in {NO_LOCK, SHARED_LOCK} : level[c] > l /\ To(c, l)

\* A process dies, or loses its locks to unixClose.
Vanish(p) == level' = [c \in Conn |-> IF pid[c] = p THEN NO_LOCK ELSE level[c]]

Next ==
    \E c \in Conn : \/ Vanish(pid[c])
                    \/ Share(c) \/ Reserve(c) \/ Pend(c) \/ Exclude(c) \/ Release(c)

Spec == Init /\ [][Next]_level
============================================================================
