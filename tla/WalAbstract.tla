---------------------------- MODULE WalAbstract ----------------------------
(***************************************************************************)
(* What the write-ahead log promises its connections: one current image of *)
(* the database, transactions that read the image that was current when    *)
(* they began, at most one writer, which builds on the current image, and  *)
(* commits that are atomic and never undone.  There are no files, frames,  *)
(* marks or checkpoints here.                                              *)
(***************************************************************************)
CONSTANTS Conn, None, Page, Content

Image == [Page -> Content]

VARIABLES
    current,   \* the image of the last commit
    view,      \* what each connection's transaction reads, None outside one
    writer,    \* the connection whose write transaction is open, or None
    draft,     \* the image the writer has built so far
    limbo      \* what a writer wrote and may have died before acknowledging

vars == <<current, view, writer, draft, limbo>>

Init ==
    /\ current \in Image
    /\ view = [c \in Conn |-> None]
    /\ writer = None
    /\ draft = None
    /\ limbo = None

Begin(c) ==
    /\ view[c] = None
    /\ view' = [view EXCEPT ![c] = current]
    /\ UNCHANGED <<current, writer, draft, limbo>>

End(c) ==
    /\ view[c] # None /\ writer # c
    /\ view' = [view EXCEPT ![c] = None]
    /\ UNCHANGED <<current, writer, draft, limbo>>

\* A transaction that reads an old image cannot be made to write.
BeginWrite(c) ==
    /\ writer = None /\ view[c] = current
    /\ writer' = c /\ draft' = current
    /\ UNCHANGED <<current, view, limbo>>

\* A part of the transaction reaches the log before the commit, over what an
\* earlier writer left there.
Spill(c) ==
    /\ writer = c
    /\ draft' \in Image
    /\ limbo' = None
    /\ UNCHANGED <<current, view, writer>>

\* All of it is in the log: from now on a crash may commit it.
Write(c) ==
    /\ writer = c
    /\ draft' \in Image
    /\ limbo' = draft'
    /\ UNCHANGED <<current, view, writer>>

Commit(c) ==
    /\ writer = c /\ limbo = draft
    /\ current' = draft
    /\ view' = [view EXCEPT ![c] = draft]
    /\ writer' = None /\ draft' = None /\ limbo' = None

Rollback(c) ==
    /\ writer = c
    /\ writer' = None /\ draft' = None
    /\ UNCHANGED <<current, view, limbo>>

\* Processes die, a writer's changes with them.
Crash(C) ==
    /\ view' = [c \in Conn |-> IF c \in C THEN None ELSE view[c]]
    /\ writer' = IF writer \in C THEN None ELSE writer
    /\ draft' = IF writer \in C THEN None ELSE draft
    /\ UNCHANGED <<current, limbo>>

\* Recovery finds a whole transaction in the log.
Recover ==
    /\ writer = None /\ limbo # None
    /\ current' = limbo
    /\ limbo' = None
    /\ UNCHANGED <<view, writer, draft>>

Next ==
    \/ \E C \in SUBSET Conn : Crash(C)
    \/ \E c \in Conn : \/ Begin(c) \/ End(c) \/ BeginWrite(c) \/ Spill(c)
                       \/ Write(c) \/ Commit(c) \/ Rollback(c)
    \/ Recover

Spec == Init /\ [][Next]_vars
============================================================================
