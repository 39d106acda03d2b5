------------------------------ MODULE UnixShm ------------------------------
(***************************************************************************)
(* The shared memory of the wal-index and its locks (src/src/src/          *)
(* os_unix.c): the -shm file, which the first process to open it empties   *)
(* and the last connection to close deletes, the POSIX locks of each       *)
(* process on its bytes, and the connections of a process, which share     *)
(* them through one unixShmNode.  The lock on the database file that a     *)
(* connection holds as long as it uses the WAL is a table here; UnixLock   *)
(* shows that it is one.                                                   *)
(***************************************************************************)
EXTENDS Integers, FiniteSets

CONSTANTS
    Conn,       \* the connections
    pid,        \* the process of each
    None,
    Slots,      \* the lock bytes: 0..(SQLITE_SHM_NLOCK - 1)
    Ranges      \* the sets of bytes that are locked for one connection at once

\* The steps of unixOpenSharedMemory.
Steps == {"getlk", "first", "empty", "attach"}

UnixShmConstants ==
    /\ IsFiniteSet(Conn) /\ None \notin Conn \cup [conn : Conn, at : Steps]
    /\ IsFiniteSet(Slots) /\ Slots \subseteq Nat /\ Ranges \subseteq (SUBSET Slots) \ {{}}

VARIABLES
    dbLock,     \* lock of each connection on the database file
    shmFile,    \* the inode of the -shm file, 0 if there is none
    isFresh,    \* has it been emptied since the machine was started?
    node,       \* the unixShmNode of each process: inode of hShm, nRef, aLock
    isMapped,   \* the connections that have a unixShm
    sharedMask, exclMask,
    flock,      \* the POSIX locks of each process on the file it has open
    opening,    \* the call of unixOpenSharedMemory of each process
    isDelete,   \* the connections that will delete the file (sqlite3WalClose)
    spoilt      \* history: was the file emptied under a process that used it?

fileVars == <<dbLock, shmFile, isFresh, spoilt>>
lockVars == <<sharedMask, exclMask, flock>>
vars == <<fileVars, lockVars, node, isMapped, opening, isDelete>>

NO_LOCK == 0
SHARED_LOCK == 1
EXCLUSIVE_LOCK == 4

Proc == {pid[c] : c \in Conn}

\* UNIX_SHM_DMS, the dead man's switch, is one more byte.
DMS == -1
Unlocked == [b \in Slots \cup {DMS} |-> "UNLCK"]
NewNode(ino) == [ino |-> ino, nRef |-> 0, aLock |-> [i \in Slots |-> 0]]
NoNode == NewNode(0)
WithRefs(n, k) == [ino |-> n.ino, nRef |-> k, aLock |-> n.aLock]
WithLocks(n, f) == [ino |-> n.ino, nRef |-> n.nRef, aLock |-> f]

Init ==
    /\ dbLock = [c \in Conn |-> NO_LOCK]
    /\ shmFile \in {0, 1} /\ isFresh = FALSE /\ spoilt = FALSE
    /\ node = [p \in Proc |-> NoNode]
    /\ isMapped = {}
    /\ sharedMask = [c \in Conn |-> {}] /\ exclMask = [c \in Conn |-> {}]
    /\ flock = [p \in Proc |-> Unlocked]
    /\ opening = [p \in Proc |-> None]
    /\ isDelete = {}

\* What the kernel says of the locks of the other processes on the same file.
OthersHold(p, b, types) ==
    \E q \in Proc \ {p} : node[q].ino = node[p].ino /\ flock[q][b] \in types

Granted(p, B, type) ==
    \A b \in B : ~OthersHold(p, b, IF type = "WRLCK" THEN {"RDLCK", "WRLCK"} ELSE {"WRLCK"})

\* unixShmSystemLock.
SystemLock(p, B, type) ==
    flock' = [flock EXCEPT ![p] = [b \in DOMAIN @ |-> IF b \in B THEN type ELSE @[b]]]

\* unixShmPurge: the close of hShm drops the locks of the process.
Purge(p) ==
    /\ node' = [node EXCEPT ![p] = NoNode]
    /\ flock' = [flock EXCEPT ![p] = Unlocked]

(***************************************************************************)
(* Opening, with the database locked.                                      *)
(***************************************************************************)
ShareDb(c) ==
    /\ dbLock[c] = NO_LOCK
    /\ \A d \in Conn : dbLock[d] # EXCLUSIVE_LOCK
    /\ dbLock' = [dbLock EXCEPT ![c] = SHARED_LOCK]
    /\ UNCHANGED <<shmFile, isFresh, spoilt, lockVars, node, isMapped, opening, isDelete>>

\* unixBigLock is free.
BigLockFree(p) == opening[p] = None
Goes(c, at) == opening' = [opening EXCEPT ![pid[c]] = [conn |-> c, at |-> at]]
IsAt(c, at) == opening[pid[c]] = [conn |-> c, at |-> at]
IsOpening(c) == \E at \in Steps : IsAt(c, at)

\* The process has the file open already.
OpenAgain(c) ==
    /\ dbLock[c] = SHARED_LOCK /\ c \notin isMapped /\ BigLockFree(pid[c])
    /\ node[pid[c]] # NoNode
    /\ node' = [node EXCEPT ![pid[c]] = WithRefs(@, @.nRef + 1)]
    /\ isMapped' = isMapped \cup {c}
    /\ UNCHANGED <<fileVars, lockVars, opening, isDelete>>

\* Inodes that are not in use, one of which a new file gets.
FreeInode == CHOOSE n \in 1..(Cardinality(Proc) + 1) : \A q \in Proc : node[q].ino # n

OpenFile(c) ==
    /\ dbLock[c] = SHARED_LOCK /\ c \notin isMapped /\ BigLockFree(pid[c])
    /\ node[pid[c]] = NoNode
    /\ LET ino == IF shmFile = 0 THEN FreeInode ELSE shmFile
       IN  /\ shmFile' = ino
           /\ isFresh' = IF shmFile = 0 THEN TRUE ELSE isFresh
           /\ node' = [node EXCEPT ![pid[c]] = NewNode(ino)]
    /\ Goes(c, "getlk")
    /\ UNCHANGED <<dbLock, spoilt, lockVars, isMapped, isDelete>>

\* SQLITE_BUSY: the file is closed again.
OpenFails(c) ==
    /\ Purge(pid[c])
    /\ opening' = [opening EXCEPT ![pid[c]] = None]
    /\ UNCHANGED <<isFresh, spoilt>>

\* Mutant: one that is about to empty the file is taken for one that uses it.
TakenForUser(p) == FALSE

\* Another process is emptying the file, or will do so.
IsBeingEmptied(p) == OthersHold(p, DMS, {"WRLCK"})

\* unixLockSharedMemory: does another process use the file?
GetLk(c) ==
    /\ IsAt(c, "getlk")
    /\ IF IsBeingEmptied(pid[c]) THEN OpenFails(c)
       ELSE /\ Goes(c, IF OthersHold(pid[c], DMS, {"RDLCK", "WRLCK"}) THEN "attach" ELSE "first")
            /\ UNCHANGED <<node, flock, isFresh, spoilt>>
    /\ UNCHANGED <<dbLock, shmFile, sharedMask, exclMask, isMapped, isDelete>>

IsFirst(p) == Granted(p, {DMS}, "WRLCK")

UsedByOthers(p) == \E c \in isMapped : pid[c] # p /\ node[pid[c]].ino = node[p].ino

LockFirst(c) ==
    /\ IsAt(c, "first")
    /\ IF IsFirst(pid[c])
       THEN /\ SystemLock(pid[c], {DMS}, "WRLCK")
            /\ Goes(c, "empty")
            /\ UNCHANGED <<node, isFresh, spoilt>>
       ELSE OpenFails(c)
    /\ UNCHANGED <<dbLock, shmFile, sharedMask, exclMask, isMapped, isDelete>>

Empty(c) ==
    /\ IsAt(c, "empty")
    /\ isFresh' = TRUE
    /\ spoilt' = (spoilt \/ UsedByOthers(pid[c]))
    /\ Goes(c, "attach")
    /\ UNCHANGED <<dbLock, shmFile, lockVars, node, isMapped, isDelete>>

Attach(c) ==
    /\ IsAt(c, "attach")
    /\ IF Granted(pid[c], {DMS}, "RDLCK")
       THEN /\ SystemLock(pid[c], {DMS}, "RDLCK")
            /\ node' = [node EXCEPT ![pid[c]] = WithRefs(@, 1)]
            /\ isMapped' = isMapped \cup {c}
            /\ opening' = [opening EXCEPT ![pid[c]] = None]
            /\ UNCHANGED <<isFresh, spoilt>>
       ELSE OpenFails(c) /\ UNCHANGED isMapped
    /\ UNCHANGED <<dbLock, shmFile, sharedMask, exclMask, isDelete>>

(***************************************************************************)
(* unixShmLock, under pShmMutex.                                           *)
(***************************************************************************)
aLock(c) == node[pid[c]].aLock
SetLocks(c, f) == node' = [node EXCEPT ![pid[c]] = WithLocks(@, f)]

ShareSlot(c, i) ==
    /\ c \in isMapped /\ dbLock[c] = SHARED_LOCK /\ i \notin sharedMask[c] \cup exclMask[c]
    /\ aLock(c)[i] >= 0
    /\ IF aLock(c)[i] = 0
       THEN Granted(pid[c], {i}, "RDLCK") /\ SystemLock(pid[c], {i}, "RDLCK")
       ELSE UNCHANGED flock
    /\ sharedMask' = [sharedMask EXCEPT ![c] = @ \cup {i}]
    /\ SetLocks(c, [aLock(c) EXCEPT ![i] = @ + 1])
    /\ UNCHANGED <<fileVars, exclMask, isMapped, opening, isDelete>>

\* Mutant: the other connections of the process are not looked at.
SiblingsIgnored(c, S) == TRUE

NoSiblingHolds(c, S) == \A i \in S : aLock(c)[i] = 0

LockSlots(c, S) ==
    /\ c \in isMapped /\ dbLock[c] = SHARED_LOCK /\ S \cap (sharedMask[c] \cup exclMask[c]) = {}
    /\ NoSiblingHolds(c, S)
    /\ Granted(pid[c], S, "WRLCK") /\ SystemLock(pid[c], S, "WRLCK")
    /\ exclMask' = [exclMask EXCEPT ![c] = @ \cup S]
    /\ SetLocks(c, [i \in Slots |-> IF i \in S THEN -1 ELSE aLock(c)[i]])
    /\ UNCHANGED <<fileVars, sharedMask, isMapped, opening, isDelete>>

\* Mutant: the process gives up the lock that others of its connections share.
AlwaysLast(c, S) == TRUE

\* No other connection of the process shares these bytes.
IsLast(c, S) == \A i \in S : aLock(c)[i] <= (IF i \in sharedMask[c] THEN 1 ELSE 0)

UnlockSlots(c, S) ==
    /\ c \in isMapped
    /\ S \subseteq exclMask[c] \/ (S \subseteq sharedMask[c] /\ Cardinality(S) = 1)
    /\ IF IsLast(c, S)
       THEN /\ SystemLock(pid[c], S, "UNLCK")
            /\ SetLocks(c, [i \in Slots |-> IF i \in S THEN 0 ELSE aLock(c)[i]])
       ELSE /\ SetLocks(c, [i \in Slots |-> IF i \in S THEN aLock(c)[i] - 1 ELSE aLock(c)[i]])
            /\ UNCHANGED flock
    /\ sharedMask' = [sharedMask EXCEPT ![c] = @ \ S]
    /\ exclMask' = [exclMask EXCEPT ![c] = @ \ S]
    /\ UNCHANGED <<fileVars, isMapped, opening, isDelete>>

(***************************************************************************)
(* sqlite3WalClose by a connection outside of a transaction, and           *)
(* unixShmUnmap.                                                           *)
(***************************************************************************)
IsAlone(c) == \A d \in Conn \ {c} : dbLock[d] = NO_LOCK

\* The connection has the database for itself; it will delete the file if its
\* checkpoint succeeds.
CloseAlone(c) ==
    /\ c \in isMapped /\ dbLock[c] = SHARED_LOCK /\ sharedMask[c] \cup exclMask[c] = {}
    /\ IsAlone(c)
    /\ dbLock' = [dbLock EXCEPT ![c] = EXCLUSIVE_LOCK]
    /\ isDelete' \in {isDelete, isDelete \cup {c}}
    /\ UNCHANGED <<shmFile, isFresh, spoilt, lockVars, node, isMapped, opening>>

Unmap(c) ==
    /\ c \in isMapped /\ BigLockFree(pid[c]) /\ sharedMask[c] \cup exclMask[c] = {}
    /\ IF node[pid[c]].nRef = 1
       THEN Purge(pid[c]) /\ shmFile' = IF c \in isDelete THEN 0 ELSE shmFile
       ELSE node' = [node EXCEPT ![pid[c]] = WithRefs(@, @.nRef - 1)] /\ UNCHANGED <<flock, shmFile>>
    /\ isMapped' = isMapped \ {c}
    /\ isDelete' = isDelete \ {c}
    /\ UNCHANGED <<dbLock, isFresh, spoilt, sharedMask, exclMask, opening>>

\* The database is unlocked when the WAL is closed.
UnlockDb(c) ==
    /\ dbLock[c] # NO_LOCK /\ c \notin isMapped
    /\ ~IsOpening(c)
    /\ dbLock' = [dbLock EXCEPT ![c] = NO_LOCK]
    /\ UNCHANGED <<shmFile, isFresh, spoilt, lockVars, node, isMapped, opening, isDelete>>

(***************************************************************************)
(* Processes die; the machine stops and leaves the file behind.            *)
(***************************************************************************)
Gone(P) ==
    LET C == {c \in Conn : pid[c] \in P}
    IN  /\ dbLock' = [c \in Conn |-> IF c \in C THEN NO_LOCK ELSE dbLock[c]]
        /\ node' = [p \in Proc |-> IF p \in P THEN NoNode ELSE node[p]]
        /\ flock' = [p \in Proc |-> IF p \in P THEN Unlocked ELSE flock[p]]
        /\ opening' = [p \in Proc |-> IF p \in P THEN None ELSE opening[p]]
        /\ sharedMask' = [c \in Conn |-> IF c \in C THEN {} ELSE sharedMask[c]]
        /\ exclMask' = [c \in Conn |-> IF c \in C THEN {} ELSE exclMask[c]]
        /\ isMapped' = isMapped \ C
        /\ isDelete' = isDelete \ C

Kill(p) == Gone({p}) /\ UNCHANGED <<shmFile, isFresh, spoilt>>
PowerFail == Gone(Proc) /\ isFresh' = FALSE /\ UNCHANGED <<shmFile, spoilt>>

Next ==
    \/ \E c \in Conn :
          \/ ShareDb(c) \/ OpenAgain(c) \/ OpenFile(c) \/ GetLk(c) \/ LockFirst(c) \/ Empty(c) \/ Attach(c)
          \/ \E i \in Slots : ShareSlot(c, i)
          \/ \E S \in Ranges : LockSlots(c, S) \/ UnlockSlots(c, S)
          \/ CloseAlone(c) \/ Unmap(c) \/ UnlockDb(c)
    \/ \E p \in Proc : Kill(p)
    \/ PowerFail

Spec == Init /\ [][Next]_vars

(***************************************************************************)
(* Properties                                                              *)
(***************************************************************************)
TypeOK ==
    /\ dbLock \in [Conn -> {NO_LOCK, SHARED_LOCK, EXCLUSIVE_LOCK}]
    /\ shmFile \in Nat /\ isFresh \in BOOLEAN /\ spoilt \in BOOLEAN
    /\ node \in [Proc -> [ino : Nat, nRef : 0..Cardinality(Conn),
                          aLock : [Slots -> -1..Cardinality(Conn)]]]
    /\ isMapped \subseteq Conn /\ isDelete \subseteq isMapped
    /\ sharedMask \in [Conn -> SUBSET Slots] /\ exclMask \in [Conn -> SUBSET Slots]
    /\ flock \in [Proc -> [Slots \cup {DMS} -> {"UNLCK", "RDLCK", "WRLCK"}]]
    /\ opening \in [Proc -> {None} \cup [conn : Conn, at : Steps]]

\* assertLockingArrayOk, and the kernel: aLock counts what the connections of
\* the process have, and the process has the bytes locked that it says.
LockArrayOk ==
    \A p \in Proc, i \in Slots :
        LET C == {c \in Conn : pid[c] = p}
            n == node[p].aLock[i]
        IN  /\ n = IF \E c \in C : i \in exclMask[c] THEN -1
                   ELSE Cardinality({c \in C : i \in sharedMask[c]})
            /\ flock[p][i] = IF n < 0 THEN "WRLCK" ELSE IF n > 0 THEN "RDLCK" ELSE "UNLCK"

\* All connections use one file: none is left with one that was deleted.  It
\* was emptied since the machine was started, and never under a process that
\* used it.
OneWalIndex ==
    /\ \A c \in isMapped : node[pid[c]].ino = shmFile /\ isFresh
    /\ ~spoilt

\* The connections that have a byte, for themselves or shared.
Holder(i) == IF \E c \in Conn : i \in exclMask[c] THEN CHOOSE c \in Conn : i \in exclMask[c]
             ELSE None
Holders(i) == {c \in Conn : i \in sharedMask[c]}
============================================================================
