---------------------------- MODULE SharedState ----------------------------
(***************************************************************************)
(* What the connections to a database share below the protocol of Wal and  *)
(* Journal, each in a part of its own: the memory of the wal-index         *)
(* (WalIndex), the locks of the wal-index (UnixShm) and the locks of the   *)
(* database file (UnixLock).  The parts do not touch each other's state,   *)
(* so that a behaviour is one of a single part; what one part takes for    *)
(* granted of another is said in its module.                               *)
(***************************************************************************)
EXTENDS WalIndex

CONSTANTS
    Conn, pid, None,                                                    \* both kinds of locks
    Slots, Ranges                                                       \* of the wal-index

VARIABLES
    part,
    flock,                                                              \* both kinds of locks
    dbLock, shmFile, isFresh, node, isMapped, sharedMask, exclMask,     \* of the wal-index
    opening, isDelete, spoilt,
    isOpen, eFileLock, inode, call, closing, overtaken                  \* of the file

Shm == INSTANCE UnixShm
File == INSTANCE UnixLock

ASSUME SharedStateAssumption == Shm!UnixShmConstants /\ File!UnixLockConstants

shmLockVars == <<dbLock, shmFile, isFresh, node, isMapped, sharedMask, exclMask,
                 opening, isDelete, spoilt>>
fileLockVars == <<isOpen, eFileLock, inode, call, closing, overtaken>>
vars == <<part, memoryVars, flock, shmLockVars, fileLockVars>>

\* The variables that a part does not have.
NoMemory ==
    /\ log = None /\ logSalt = None /\ aHdr = None /\ aPgno = None /\ aHash = None
    /\ nBackfill = None /\ w = None /\ rd = None /\ ck = None /\ nCrash = None
NoShm ==
    /\ dbLock = None /\ shmFile = None /\ isFresh = None /\ node = None /\ isMapped = None
    /\ sharedMask = None /\ exclMask = None /\ opening = None /\ isDelete = None /\ spoilt = None
NoFile ==
    /\ isOpen = None /\ eFileLock = None /\ inode = None /\ call = None /\ closing = None
    /\ overtaken = None

Init ==
    \/ part = "memory" /\ MemoryInit /\ flock = None /\ NoShm /\ NoFile
    \/ part = "shmLocks" /\ Shm!Init /\ NoMemory /\ NoFile
    \/ part = "fileLocks" /\ File!Init /\ NoMemory /\ NoShm

Next ==
    /\ UNCHANGED part
    /\ \/ part = "memory" /\ MemoryNext /\ UNCHANGED <<flock, shmLockVars, fileLockVars>>
       \/ part = "shmLocks" /\ Shm!Next /\ UNCHANGED <<memoryVars, fileLockVars>>
       \/ part = "fileLocks" /\ File!Next /\ UNCHANGED <<memoryVars, shmLockVars>>

Spec == Init /\ [][Next]_vars

(***************************************************************************)
(* Properties                                                              *)
(***************************************************************************)
\* The variables of every part are in their sets: table entries, slots and
\* frame numbers, lock levels and the counters of unixInodeInfo.
TypeOK ==
    /\ part = "memory" => MemoryTypeOK
    /\ part = "shmLocks" => Shm!TypeOK
    /\ part = "fileLocks" => File!TypeOK

\* A header that walIndexTryHdr accepted names the last frame of a transaction
\* of the log as it is now and the size of the database after it, however
\* loads and stores of its words interleave and wherever a writer died.
SnapshotIsCommit ==
    part = "memory" /\ ck.pc \in {"iterate", "done"} =>
        /\ ck.h1.aSalt = logSalt /\ ck.h1.mxFrame \in 1..Len(log)
        /\ ck.h1.nPage = log[ck.h1.mxFrame].nTruncate

\* sqlite3WalFindFrame finds the last frame of the page in the reader's
\* snapshot, although writers append to the table, rollbacks clean it and a
\* recovery copies it over while the reader walks it.
LookupRight ==
    part = "memory" =>
        \A r \in Readers : rd[r].pc = "found" =>
            rd[r].iRead = Newest(rd[r].pgno, rd[r].minFrame, rd[r].mxFrame)

\* Whatever died, was rolled back or recovered before, a writer between two
\* calls finds each page of the log it has in the tables.
WriterLookup ==
    part = "memory" /\ w.pc = "open" =>
        \A p \in Pgno : FindFrame(p, w.hdr.mxFrame) = Newest(p, 1, w.hdr.mxFrame)

\* The checkpoint iterator visits pages in ascending order, each with its
\* last frame in the snapshot, and misses no page of a frame that is not yet
\* backfilled.
IteratorRight ==
    part = "memory" /\ ck.pc = "done" =>
        /\ \A i \in 1..Len(ck.out) :
              /\ i > 1 => ck.out[i - 1].pg < ck.out[i].pg
              /\ ck.out[i].frame = Newest(ck.out[i].pg, 1, ck.h1.mxFrame)
        /\ \A f \in (ck.nBackfill + 1)..ck.h1.mxFrame :
              \E i \in 1..Len(ck.out) : ck.out[i].pg = log[f].pg

\* aLock of a unixShmNode counts what the connections of the process have
\* (assertLockingArrayOk), and the kernel has the bytes locked for the process
\* that it says, whichever connections of whichever processes lock, unlock,
\* close and die.
LockArrayOk == part = "shmLocks" => Shm!LockArrayOk

\* All connections use one -shm file: none is left with one that was deleted,
\* and it was emptied since the machine was started, and never under a process
\* that used it (unixLockSharedMemory, sqlite3WalClose).
OneWalIndex == part = "shmLocks" => Shm!OneWalIndex

\* Between calls the locks of connections, of their processes and of the
\* kernel agree.  Closing one connection drops the lock of another one of the
\* process only if that one began to lock after unixClose had left pLockMutex
\* and before it closed the descriptor; the counters agree even then, and the
\* kernel's locks do again once the process has given up its locks (unixClose,
\* posixUnlock).
LocksAgree == part = "fileLocks" => File!LocksAgree

\* unixCheckReservedLock finds a writer, in its own process or another: a
\* journal in use is not taken for a hot one.  A writer whose locks unixClose
\* has dropped is found by its own process.
ReservedIsSeen == part = "fileLocks" => File!ReservedIsSeen

FileTable ==
    INSTANCE FileLocks WITH
        level <- IF part = "fileLocks" THEN [c \in Conn |-> File!LevelOf(c)]
                 ELSE [c \in Conn |-> File!NO_LOCK]

\* Seen through what their connections may rely on, the locks of connections,
\* processes and kernel that unixLock and posixUnlock set by several calls of
\* fcntl are one table, each change of it a single step.  A process whose
\* locks unixClose drops leaves the table as one that dies does.
ImplementsFileLocks == FileTable!Spec

ShmTable ==
    INSTANCE ShmLocks WITH
        Locks <- Slots,
        lockX <- IF part = "shmLocks" THEN [i \in Slots |-> Shm!Holder(i)]
                 ELSE [i \in Slots |-> None],
        lockS <- IF part = "shmLocks" THEN [i \in Slots |-> Shm!Holders(i)]
                 ELSE [i \in Slots |-> {}]

\* The masks that unixShmLock keeps for the connections are the table of lock
\* bytes that Wal uses: nobody shares a byte that another one has for itself,
\* in the same process or not.
ImplementsShmLocks == ShmTable!Spec
=============================================================================
