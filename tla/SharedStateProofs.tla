------------------------- MODULE SharedStateProofs -------------------------
(***************************************************************************)
(* The theorems about the parts of SharedState, from the lemmas of their   *)
(* modules.                                                                *)
(***************************************************************************)
EXTENDS SharedState, WalIndexProofs, TLAPS

ShmP == INSTANCE UnixShmProofs
FileP == INSTANCE UnixLockProofs

(***************************************************************************)
(* The locks of the wal-index                                              *)
(***************************************************************************)
\* The definitions of UnixShm mean the same in its module and in that of its
\* proofs.
LEMMA ShmSame ==
    /\ ShmP!UnixShmConstants
    /\ Shm!Init => ShmP!Init
    /\ Shm!Next => ShmP!Next
    /\ Shm!TypeOK <=> ShmP!TypeOK
    /\ Shm!LockArrayOk <=> ShmP!LockArrayOk
    /\ Shm!OneWalIndex <=> ShmP!OneWalIndex
<1>1. ShmP!UnixShmConstants
  BY SharedStateAssumption, Zenon DEF Shm!IsFiniteSet, ShmP!IsFiniteSet, Shm!UnixShmConstants, ShmP!UnixShmConstants, Shm!Steps, ShmP!Steps
<1>2. Shm!Init => ShmP!Init
  BY DEF Shm!Init, ShmP!Init, Shm!NO_LOCK, ShmP!NO_LOCK, Shm!Proc, ShmP!Proc, Shm!NoNode, ShmP!NoNode,
         Shm!NewNode, ShmP!NewNode, Shm!Unlocked, ShmP!Unlocked, Shm!DMS, ShmP!DMS
<1>3. Shm!Next => ShmP!Next
  BY Zenon DEF Shm!Cardinality, ShmP!Cardinality, Shm!IsFiniteSet, ShmP!IsFiniteSet, Shm!Steps, ShmP!Steps, Shm!fileVars, ShmP!fileVars, Shm!lockVars, ShmP!lockVars, Shm!vars,
         ShmP!vars, Shm!NO_LOCK, ShmP!NO_LOCK, Shm!SHARED_LOCK, ShmP!SHARED_LOCK, Shm!EXCLUSIVE_LOCK,
         ShmP!EXCLUSIVE_LOCK, Shm!Proc, ShmP!Proc, Shm!DMS, ShmP!DMS, Shm!Unlocked, ShmP!Unlocked,
         Shm!NewNode, ShmP!NewNode, Shm!NoNode, ShmP!NoNode, Shm!WithRefs, ShmP!WithRefs,
         Shm!WithLocks, ShmP!WithLocks, Shm!OthersHold, ShmP!OthersHold, Shm!Granted, ShmP!Granted,
         Shm!SystemLock, ShmP!SystemLock, Shm!Purge, ShmP!Purge, Shm!ShareDb, ShmP!ShareDb,
         Shm!BigLockFree, ShmP!BigLockFree, Shm!Goes, ShmP!Goes, Shm!IsAt, ShmP!IsAt, Shm!IsOpening,
         ShmP!IsOpening, Shm!OpenAgain, ShmP!OpenAgain, Shm!FreeInode, ShmP!FreeInode, Shm!OpenFile,
         ShmP!OpenFile, Shm!OpenFails, ShmP!OpenFails, Shm!IsBeingEmptied, ShmP!IsBeingEmptied,
         Shm!GetLk, ShmP!GetLk, Shm!IsFirst, ShmP!IsFirst, Shm!UsedByOthers, ShmP!UsedByOthers,
         Shm!LockFirst, ShmP!LockFirst, Shm!Empty, ShmP!Empty, Shm!Attach, ShmP!Attach, Shm!aLock,
         ShmP!aLock, Shm!SetLocks, ShmP!SetLocks, Shm!ShareSlot, ShmP!ShareSlot, Shm!NoSiblingHolds,
         ShmP!NoSiblingHolds, Shm!LockSlots, ShmP!LockSlots, Shm!IsLast, ShmP!IsLast, Shm!UnlockSlots,
         ShmP!UnlockSlots, Shm!IsAlone, ShmP!IsAlone, Shm!CloseAlone, ShmP!CloseAlone, Shm!Unmap,
         ShmP!Unmap, Shm!UnlockDb, ShmP!UnlockDb, Shm!Gone, ShmP!Gone, Shm!Kill, ShmP!Kill,
         Shm!PowerFail, ShmP!PowerFail, Shm!Next, ShmP!Next
<1>4. Shm!TypeOK <=> ShmP!TypeOK
  BY DEF Shm!Cardinality, ShmP!Cardinality, Shm!IsFiniteSet, ShmP!IsFiniteSet, Shm!TypeOK, ShmP!TypeOK, Shm!NO_LOCK, ShmP!NO_LOCK, Shm!SHARED_LOCK, ShmP!SHARED_LOCK,
         Shm!EXCLUSIVE_LOCK, ShmP!EXCLUSIVE_LOCK, Shm!Proc, ShmP!Proc, Shm!DMS, ShmP!DMS, Shm!Steps,
         ShmP!Steps
<1>5. Shm!LockArrayOk <=> ShmP!LockArrayOk
  BY DEF Shm!Cardinality, ShmP!Cardinality, Shm!IsFiniteSet, ShmP!IsFiniteSet, Shm!LockArrayOk, ShmP!LockArrayOk, Shm!Proc, ShmP!Proc
<1>6. Shm!OneWalIndex <=> ShmP!OneWalIndex
  BY DEF Shm!OneWalIndex, ShmP!OneWalIndex
<1> QED BY <1>1, <1>2, <1>3, <1>4, <1>5, <1>6

\* The inductive invariant of UnixShm, in the behaviours of that part.
ShmInv == part = "shmLocks" => ShmP!IInv

\* It holds at first,
LEMMA ShmInvInit == Init => ShmInv
<1> SUFFICES ASSUME Init, part = "shmLocks" PROVE ShmP!IInv
  BY DEF ShmInv
<1>1. Shm!Init BY DEF Init
<1> QED BY <1>1, ShmSame, ShmP!InitInv

\* and every step keeps it.
LEMMA ShmInvNext == ShmInv /\ [Next]_vars => ShmInv'
<1> SUFFICES ASSUME ShmInv, [Next]_vars, part' = "shmLocks" PROVE (ShmP!IInv)'
  BY DEF ShmInv
<1>1. part = "shmLocks" /\ ShmP!IInv
  BY DEF ShmInv, Next, vars
<1>2. [ShmP!Next]_(ShmP!vars)
  <2>1. CASE Next
    BY <1>1, <2>1, ShmSame DEF Next
  <2>2. CASE UNCHANGED vars
    BY <2>2 DEF vars, shmLockVars, ShmP!vars, ShmP!fileVars, ShmP!lockVars
  <2> QED BY <2>1, <2>2
<1> QED BY <1>1, <1>2, ShmSame, ShmP!NextInv

\* In every reachable state aLock of a unixShmNode counts what the connections
\* of the process have, and the kernel has the bytes locked that it says: for
\* any number of processes and connections, whichever of them lock, unlock,
\* close and die (unixShmLock, assertLockingArrayOk).
THEOREM LockArrayCorrect == Spec => []LockArrayOk
<1>1. ShmInv => LockArrayOk
  BY ShmSame, ShmP!InvImplies DEF ShmInv, LockArrayOk
<1> QED BY <1>1, ShmInvInit, ShmInvNext, PTL DEF Spec

\* All connections always use one -shm file, which was emptied since the
\* machine was started and never under a process that used it: the dead man's
\* switch and the locks on the database see to it, wherever processes die
\* between the steps of unixOpenSharedMemory and sqlite3WalClose.
THEOREM OneWalIndexCorrect == Spec => []OneWalIndex
<1>1. ShmInv => OneWalIndex
  BY ShmSame, ShmP!InvImplies DEF ShmInv, OneWalIndex
<1> QED BY <1>1, ShmInvInit, ShmInvNext, PTL DEF Spec

(***************************************************************************)
(* ShmLocks                                                                *)
(***************************************************************************)
\* Holder and holders are those of the proofs.
LEMMA ShmTableSame ==
    /\ \A i : Shm!Holder(i) = ShmP!Holder(i) /\ Shm!Holders(i) = ShmP!Holders(i)
    /\ \A i : (Shm!Holder(i))' = (ShmP!Holder(i))' /\ (Shm!Holders(i))' = (ShmP!Holders(i))'
  BY DEF Shm!Holder, ShmP!Holder, Shm!Holders, ShmP!Holders

\* The masks of unixShm are a table of lock bytes, shared or had by one
\* connection, and every call of unixShmLock and every end of a process is one
\* step of it.
THEOREM ShmLocksImplemented == Spec => ImplementsShmLocks
<1> DEFINE X == IF part = "shmLocks" THEN [i \in Slots |-> Shm!Holder(i)] ELSE [i \in Slots |-> None]
           S == IF part = "shmLocks" THEN [i \in Slots |-> Shm!Holders(i)] ELSE [i \in Slots |-> {}]
<1>1. Init => ShmTable!Init
  <2> SUFFICES ASSUME Init PROVE X = [i \in Slots |-> None] /\ S = [i \in Slots |-> {}]
    BY DEF ShmTable!Init
  <2>1. CASE part = "shmLocks"
    <3>1. exclMask = [c \in Conn |-> {}] /\ sharedMask = [c \in Conn |-> {}]
      BY <2>1 DEF Init, Shm!Init
    <3>2. \A i \in Slots : Shm!Holder(i) = None /\ Shm!Holders(i) = {}
      BY <3>1 DEF Shm!Holder, Shm!Holders
    <3> QED BY <2>1, <3>2
  <2>2. CASE part # "shmLocks"
    BY <2>2
  <2> QED BY <2>1, <2>2
<1>2. ShmInv /\ [Next]_vars => [ShmTable!Next]_(ShmTable!vars)
  <2> SUFFICES ASSUME ShmInv, [Next]_vars PROVE ShmTable!Next \/ (X' = X /\ S' = S)
    BY DEF ShmTable!vars
  <2>0. part' = part BY DEF Next, vars
  <2>1. CASE part # "shmLocks"
    BY <2>0, <2>1
  <2>2. CASE part = "shmLocks"
    <3>1. [ShmP!Next]_(ShmP!vars) /\ ShmP!IInv
      <4>1. CASE Next
        BY <2>2, <4>1, ShmSame DEF Next, ShmInv
      <4>2. CASE UNCHANGED vars
        BY <2>2, <4>2 DEF vars, shmLockVars, ShmP!vars, ShmP!fileVars, ShmP!lockVars, ShmInv
      <4> QED BY <4>1, <4>2
    <3>2. /\ X = [i \in Slots |-> ShmP!Holder(i)] /\ X' = [i \in Slots |-> (ShmP!Holder(i))']
          /\ S = [i \in Slots |-> ShmP!Holders(i)] /\ S' = [i \in Slots |-> (ShmP!Holders(i))']
      BY <2>0, <2>2, ShmTableSame
    <3> HIDE DEF X, S
    <3>3. CASE ShmP!SharesByte
      <4>1. PICK c \in Conn, i \in Slots :
               /\ ShmP!Holder(i) = None
               /\ \A j \in Slots :
                     /\ (ShmP!Holder(j))' = ShmP!Holder(j)
                     /\ (ShmP!Holders(j))' = IF j = i THEN ShmP!Holders(j) \cup {c} ELSE ShmP!Holders(j)
        BY <3>3 DEF ShmP!SharesByte
      <4>2. X[i] = None /\ S' = [S EXCEPT ![i] = @ \cup {c}] /\ X' = X
        BY <3>2, <4>1
      <4>3. ShmTable!Share(c, i)
        BY <4>2 DEF ShmTable!Share, X, S
      <4> QED BY <4>3 DEF ShmTable!Next
    <3>4. CASE ShmP!LocksBytes
      <4>1. PICK c \in Conn, ls \in SUBSET Slots :
               /\ \A j \in ls : ShmP!Holder(j) = None /\ ShmP!Holders(j) = {}
               /\ \A j \in Slots : /\ (ShmP!Holder(j))' = IF j \in ls THEN c ELSE ShmP!Holder(j)
                                   /\ (ShmP!Holders(j))' = ShmP!Holders(j)
        BY <3>4 DEF ShmP!LocksBytes
      <4>2. /\ \A l \in ls : X[l] = None /\ S[l] = {}
            /\ X' = [l \in Slots |-> IF l \in ls THEN c ELSE X[l]] /\ S' = S
        BY <3>2, <4>1
      <4>3. ShmTable!Lock(c, ls)
        BY <4>2 DEF ShmTable!Lock, X, S
      <4> QED BY <4>3 DEF ShmTable!Next
    <3>5. CASE ShmP!KeepsBytes
      <4>1. X' = X /\ S' = S BY <3>2, <3>5 DEF ShmP!KeepsBytes
      <4> QED BY <4>1
    <3>6. ASSUME NEW C, NEW ls \in SUBSET Slots, ShmP!UnlocksBytes(C, ls) PROVE ShmTable!Unlock(C, ls)
      <4>1. /\ X' = [l \in Slots |-> IF l \in ls /\ X[l] \in C THEN None ELSE X[l]]
            /\ S' = [l \in Slots |-> IF l \in ls THEN S[l] \ C ELSE S[l]]
        BY <3>2, <3>6 DEF ShmP!UnlocksBytes
      <4> QED BY <4>1 DEF ShmTable!Unlock, X, S
    <3> QED BY <3>1, <3>3, <3>4, <3>5, <3>6, ShmSame, ShmP!TableStep DEF ShmTable!Next
  <2> QED BY <2>1, <2>2
<1> QED BY <1>1, <1>2, ShmInvInit, ShmInvNext, PTL DEF Spec, ImplementsShmLocks, ShmTable!Spec

(***************************************************************************)
(* The locks of the database file                                          *)
(***************************************************************************)
\* The definitions of UnixLock mean the same in its module and in that of its
\* proofs.
LEMMA FileSame ==
    /\ FileP!UnixLockConstants
    /\ File!Init => FileP!Init
    /\ File!Next => FileP!Next
    /\ FileP!LocksAgree => File!LocksAgree
    /\ FileP!ReservedIsSeen => File!ReservedIsSeen
    /\ FileP!TypeOK => File!TypeOK
<1>1. FileP!UnixLockConstants
  BY SharedStateAssumption DEF File!IsFiniteSet, FileP!IsFiniteSet, File!UnixLockConstants, FileP!UnixLockConstants,
         File!Steps, FileP!Steps
<1>2. File!Init => FileP!Init
  BY Zenon DEF File!Init, FileP!Init, File!NO_LOCK, FileP!NO_LOCK, File!Proc, FileP!Proc, File!Inode,
         FileP!Inode, File!NewInode, FileP!NewInode, File!Bytes, FileP!Bytes, File!Unlocked,
         FileP!Unlocked
<1>3. File!Next => FileP!Next
  BY Zenon DEF File!NO_LOCK, FileP!NO_LOCK, File!SHARED_LOCK, FileP!SHARED_LOCK, File!RESERVED_LOCK,
         FileP!RESERVED_LOCK, File!PENDING_LOCK, FileP!PENDING_LOCK, File!EXCLUSIVE_LOCK,
         FileP!EXCLUSIVE_LOCK, File!Proc, FileP!Proc, File!Bytes, FileP!Bytes, File!Unlocked,
         FileP!Unlocked, File!Inode, FileP!Inode, File!NewInode, FileP!NewInode, File!WithLock,
         FileP!WithLock, File!WithUnused, FileP!WithUnused, File!Granted, FileP!Granted, File!SetLock,
         FileP!SetLock, File!CanEnter, FileP!CanEnter, File!Returns, FileP!Returns, File!GoesOn,
         FileP!GoesOn, File!IsAt, FileP!IsAt, File!Holds, FileP!Holds, File!ShareAgain,
         FileP!ShareAgain, File!SharePending, FileP!SharePending, File!ShareRange, FileP!ShareRange,
         File!ShareEnd, FileP!ShareEnd, File!IsStrongest, FileP!IsStrongest, File!Reserve,
         FileP!Reserve, File!ExcludePending, FileP!ExcludePending, File!IsOnlyReader,
         FileP!IsOnlyReader, File!Exclude, FileP!Exclude, File!Downgrade, FileP!Downgrade,
         File!FreeBytes, FileP!FreeBytes, File!DowngradeEnd, FileP!DowngradeEnd, File!UnlockBytes,
         FileP!UnlockBytes, File!Unlock, FileP!Unlock, File!Open, FileP!Open, File!HasLocks,
         FileP!HasLocks, File!Close, FileP!Close, File!CloseFd, FileP!CloseFd, File!Kill, FileP!Kill,
         File!Next, FileP!Next
<1>4. FileP!LocksAgree => File!LocksAgree
  BY DEF File!Cardinality, FileP!Cardinality, File!IsFiniteSet, FileP!IsFiniteSet, File!LocksAgree,
         FileP!LocksAgree, File!Dropped, FileP!Dropped, File!Proc, FileP!Proc, File!NO_LOCK, FileP!NO_LOCK, File!SHARED_LOCK,
         FileP!SHARED_LOCK, File!RESERVED_LOCK, FileP!RESERVED_LOCK, File!PENDING_LOCK,
         FileP!PENDING_LOCK, File!EXCLUSIVE_LOCK, FileP!EXCLUSIVE_LOCK
<1>5. FileP!ReservedIsSeen => File!ReservedIsSeen
  BY DEF File!ReservedIsSeen, FileP!ReservedIsSeen, File!CheckReserved, FileP!CheckReserved, File!Dropped,
         FileP!Dropped, File!Proc,
         FileP!Proc, File!NO_LOCK, FileP!NO_LOCK, File!SHARED_LOCK, FileP!SHARED_LOCK,
         File!RESERVED_LOCK, FileP!RESERVED_LOCK, File!PENDING_LOCK, FileP!PENDING_LOCK,
         File!EXCLUSIVE_LOCK, FileP!EXCLUSIVE_LOCK
<1>6. FileP!TypeOK => File!TypeOK
  BY DEF File!Cardinality, FileP!Cardinality, File!IsFiniteSet, FileP!IsFiniteSet, File!TypeOK, FileP!TypeOK,
         File!Proc, FileP!Proc, File!Bytes, FileP!Bytes, File!Steps, FileP!Steps, File!NO_LOCK, FileP!NO_LOCK,
         File!EXCLUSIVE_LOCK, FileP!EXCLUSIVE_LOCK
<1> QED BY <1>1, <1>2, <1>3, <1>4, <1>5, <1>6

\* The inductive invariant of UnixLock, in the behaviours of that part.
FileInv == part = "fileLocks" => FileP!IInv

\* It holds at first,
LEMMA FileInvInit == Init => FileInv
<1> SUFFICES ASSUME Init, part = "fileLocks" PROVE FileP!IInv
  BY DEF FileInv
<1>1. File!Init BY DEF Init
<1> QED BY <1>1, FileSame, FileP!InitInv DEF FileP!Assumed

\* and every step keeps it.
LEMMA FileInvNext == FileInv /\ [Next]_vars => FileInv'
<1> SUFFICES ASSUME FileInv, [Next]_vars, part' = "fileLocks" PROVE (FileP!IInv)'
  BY DEF FileInv
<1>1. part = "fileLocks" /\ FileP!IInv
  BY DEF FileInv, Next, vars
<1>2. [FileP!Next]_(FileP!vars)
  <2>1. CASE Next
    BY <1>1, <2>1, FileSame DEF Next
  <2>2. CASE UNCHANGED vars
    BY <2>2 DEF vars, fileLockVars, FileP!vars
  <2> QED BY <2>1, <2>2
<1> QED BY <1>1, <1>2, FileSame, FileP!NextInv DEF FileP!Assumed

\* Between calls the locks of connections, of their processes and of the kernel
\* agree, for any number of processes and connections, wherever the calls of
\* unixLock and posixUnlock interleave and processes die: no unlock drops what
\* another connection relies on, and a close drops only what a thread began to
\* lock after unixClose had tested nLock and left pLockMutex.  The counters of
\* unixInodeInfo agree even then, and so do the kernel's locks once the process
\* has given up its locks.
THEOREM LocksAgreeCorrect == Spec => []LocksAgree
<1>1. FileInv => LocksAgree
  BY FileSame, FileP!InvImplies DEF FileInv, LocksAgree, FileP!Assumed
<1> QED BY <1>1, FileInvInit, FileInvNext, PTL DEF Spec

\* unixCheckReservedLock finds every writer, in its own process or another, so
\* that a journal in use is not taken for a hot one; only a writer whose locks
\* unixClose has dropped is found by its own process alone.
THEOREM ReservedIsSeenCorrect == Spec => []ReservedIsSeen
<1>1. FileInv => ReservedIsSeen
  BY FileSame, FileP!InvImplies DEF FileInv, ReservedIsSeen, FileP!Assumed
<1> QED BY <1>1, FileInvInit, FileInvNext, PTL DEF Spec

\* Levels are those of the proofs.
LEMMA LevelSame ==
    /\ \A c : File!LevelOf(c) = FileP!LevelOf(c)
    /\ \A c : (File!LevelOf(c))' = (FileP!LevelOf(c))'
    /\ File!NO_LOCK = 0 /\ FileP!NO_LOCK = 0 /\ FileTable!NO_LOCK = 0
    /\ FileP!SHARED_LOCK = 1 /\ FileTable!SHARED_LOCK = 1 /\ FileP!RESERVED_LOCK = 2
    /\ FileTable!RESERVED_LOCK = 2 /\ FileP!PENDING_LOCK = 3 /\ FileTable!PENDING_LOCK = 3
    /\ FileP!EXCLUSIVE_LOCK = 4 /\ FileTable!EXCLUSIVE_LOCK = 4
  BY DEF File!LevelOf, FileP!LevelOf, File!Dropped, FileP!Dropped, File!IsAt, FileP!IsAt, File!SHARED_LOCK, FileP!SHARED_LOCK,
     File!NO_LOCK, FileP!NO_LOCK, FileTable!NO_LOCK, FileTable!SHARED_LOCK, FileP!RESERVED_LOCK,
     FileTable!RESERVED_LOCK, FileP!PENDING_LOCK, FileTable!PENDING_LOCK, FileP!EXCLUSIVE_LOCK,
     FileTable!EXCLUSIVE_LOCK

\* The levels that connections rely on are one table for all processes, in which
\* a writer is alone: every operation on connections, inodes and bytes is one
\* step of it or none, although unixLock and posixUnlock make several calls of
\* fcntl.  The death of a process ends its levels, and so does a close that a
\* thread of the process has overtaken.
THEOREM FileLocksImplemented == Spec => ImplementsFileLocks
<1> DEFINE L == IF part = "fileLocks" THEN [c \in Conn |-> File!LevelOf(c)] ELSE [c \in Conn |-> File!NO_LOCK]
<1>1. Init => FileTable!Init
  <2> SUFFICES ASSUME Init PROVE L = [c \in Conn |-> 0]
    BY LevelSame DEF FileTable!Init
  <2>1. CASE part = "fileLocks"
    <3>1. File!Init /\ FileP!UnixLockConstants BY <2>1, FileSame DEF Init
    <3>2. overtaken = {} /\ \A c \in Conn : eFileLock[c] = 0 /\ call[pid[c]] = None
      BY <3>1, LevelSame DEF File!Init, File!Proc
    <3>3. \A c \in Conn, at \in FileP!Steps : [conn |-> c, at |-> at] # None
      BY <3>1 DEF FileP!UnixLockConstants
    <3>4. \A c \in Conn : FileP!LevelOf(c) = 0
      BY <3>2, <3>3, LevelSame DEF FileP!LevelOf, FileP!Dropped, FileP!IsAt, FileP!Steps
    <3> QED BY <2>1, <3>4, LevelSame
  <2>2. CASE part # "fileLocks"
    BY <2>2, LevelSame
  <2> QED BY <2>1, <2>2
<1>2. FileInv /\ [Next]_vars => [FileTable!Next]_L
  <2> SUFFICES ASSUME FileInv, [Next]_vars PROVE FileTable!Next \/ L' = L
    OBVIOUS
  <2>0. part' = part BY DEF Next, vars
  <2>1. CASE part # "fileLocks"
    BY <2>0, <2>1, LevelSame DEF File!NO_LOCK
  <2>2. CASE part = "fileLocks"
    <3>0. FileP!Assumed /\ FileP!IInv BY <2>2, FileSame DEF FileP!Assumed, FileInv
    <3>1. L = [c \in Conn |-> FileP!LevelOf(c)] /\ L' = [c \in Conn |-> (FileP!LevelOf(c))']
      BY <2>0, <2>2, LevelSame
    <3> HIDE DEF L
    <3>2. ASSUME NEW c \in Conn, NEW k, FileP!GoesTo(c, k) PROVE L' = [L EXCEPT ![c] = k]
      BY <3>1, <3>2 DEF FileP!GoesTo
    <3>3. ASSUME NEW c \in Conn, FileP!ConnStep(c) PROVE FileTable!Next \/ L' = L
      <4>1. CASE FileP!Shares(c)
        <5>1. FileTable!Share(c)
          BY <3>1, <3>2, <4>1, LevelSame DEF FileP!Shares, FileP!Others, FileTable!Share, FileTable!Others, FileTable!To, L
        <5> QED BY <5>1 DEF FileTable!Next
      <4>2. CASE FileP!Reserves(c)
        <5>1. FileTable!Reserve(c)
          BY <3>1, <3>2, <4>2, LevelSame DEF FileP!Reserves, FileP!Others, FileTable!Reserve, FileTable!Others, FileTable!To, L
        <5> QED BY <5>1 DEF FileTable!Next
      <4>3. CASE FileP!Pends(c)
        <5>1. FileTable!Pend(c)
          BY <3>1, <3>2, <4>3, LevelSame DEF FileP!Pends, FileTable!Pend, FileTable!To, L
        <5> QED BY <5>1 DEF FileTable!Next
      <4>4. CASE FileP!Excludes(c)
        <5>1. FileTable!Exclude(c)
          BY <3>1, <3>2, <4>4, LevelSame DEF FileP!Excludes, FileP!Others, FileTable!Exclude, FileTable!Others, FileTable!To, L
        <5> QED BY <5>1 DEF FileTable!Next
      <4>5. CASE FileP!Releases(c)
        <5>1. PICK k \in {0, 1} : FileP!LevelOf(c) > k /\ FileP!GoesTo(c, k)
          BY <4>5, LevelSame DEF FileP!Releases
        <5>2. L[c] > k /\ L' = [L EXCEPT ![c] = k] BY <3>1, <3>2, <5>1
        <5>3. FileTable!Release(c)
          BY <5>1, <5>2, LevelSame DEF FileTable!Release, FileTable!To, L
        <5> QED BY <5>3 DEF FileTable!Next
      <4>6. CASE FileP!KeepsLevels
        BY <3>1, <4>6 DEF FileP!KeepsLevels
      <4>7. CASE FileP!Vanishes(pid[c])
        <5>1. FileTable!Vanish(pid[c])
          BY <3>1, <4>7, LevelSame DEF FileP!Vanishes, FileTable!Vanish, L
        <5> QED BY <5>1 DEF FileTable!Next
      <4> QED BY <3>0, <3>3, <4>1, <4>2, <4>3, <4>4, <4>5, <4>6, <4>7, FileP!TableStep
    <3>4. ASSUME NEW p \in FileP!Proc, FileP!Kill(p) PROVE FileTable!Next
      <4>1. FileP!Vanishes(p) BY <3>0, <3>4, FileP!KillVanishes DEF FileP!IInv
      <4>2. PICK c \in Conn : p = pid[c] BY DEF FileP!Proc
      <4>3. L' = [d \in Conn |-> IF pid[d] = pid[c] THEN 0 ELSE L[d]]
        BY <3>1, <4>1, <4>2, LevelSame DEF FileP!Vanishes
      <4>4. FileTable!Vanish(pid[c]) BY <4>3, LevelSame DEF FileTable!Vanish, L
      <4> QED BY <4>4 DEF FileTable!Next
    <3>5. CASE Next
      <4>1. FileP!Next BY <2>2, <3>5, FileSame DEF Next
      <4> QED BY <3>3, <3>4, <4>1 DEF FileP!Next, FileP!ConnStep, FileP!Sharing, FileP!Writing, FileP!Releasing
    <3>6. CASE UNCHANGED vars
      BY <3>6 DEF vars, fileLockVars, L, File!LevelOf, File!Dropped, File!IsAt
    <3> QED BY <3>5, <3>6
  <2> QED BY <2>1, <2>2
<1> QED BY <1>1, <1>2, FileInvInit, FileInvNext, PTL DEF Spec, ImplementsFileLocks, FileTable!Spec

(***************************************************************************)
(* The memory of the wal-index                                             *)
(***************************************************************************)
\* What the words of the wal-index mean and which values they have, in the
\* behaviours of that part.
MemoryInv == part = "memory" => HeadersInv /\ TablesType

\* It holds at first,
LEMMA MemoryInvInit == Init => MemoryInv
BY HeadersInit, TablesTypeInit DEF Init, MemoryInv

\* and no step disturbs it.
LEMMA HeadersStutter == ASSUME HeadersInv, UNCHANGED memoryVars PROVE HeadersInv'
<1>1. UNCHANGED readerUnchanged /\ rd' = rd BY DEF memoryVars, readerUnchanged, shmVars
<1>2. LogInv' /\ HdrInv' /\ WriterInv' /\ CkptInv' BY <1>1, ReaderKeeps
<1>3. ASSUME NEW r \in Readers PROVE ReaderInv(rd[r])'
  <2>1. ReaderInv(rd[r]) BY DEF HeadersInv, ReadersInv
  <2>2. UNCHANGED <<log, logSalt, aHdr, w>> BY <1>1 DEF readerUnchanged, shmVars
  <2> QED BY <1>1, <2>1, <2>2 DEF ReaderInv, ReaderType, IsCommit, IsCurrent, IsGood, HdrOk, IsStoring
<1>4. ReadersInv' BY <1>1, <1>3 DEF HeadersInv, ReadersInv
<1> QED BY <1>2, <1>4 DEF HeadersInv

\* Every step of the part keeps it.
LEMMA MemoryInvNext == MemoryInv /\ [Next]_vars => MemoryInv'
<1> SUFFICES ASSUME MemoryInv, [Next]_vars, part' = "memory" PROVE HeadersInv' /\ TablesType' BY DEF MemoryInv
<1>1. part = "memory" BY DEF Next, vars
<1>2. HeadersInv /\ TablesType BY <1>1 DEF MemoryInv
<1>3. CASE MemoryNext BY <1>2, <1>3, HeadersNext, TablesTypeNext
<1>4. CASE UNCHANGED memoryVars
  <2>1. UNCHANGED <<aPgno, aHash>> BY <1>4 DEF memoryVars, shmVars
  <2>2. TablesType' BY <1>2, <2>1 DEF TablesType
  <2> QED BY <1>2, <1>4, <2>2, HeadersStutter
<1> QED BY <1>1, <1>3, <1>4 DEF Next, vars

\* A header that was accepted is that of a transaction of the log, whichever
\* words of which headers it was loaded from (walIndexTryHdr).
THEOREM SnapshotIsCommitCorrect == Spec => []SnapshotIsCommit
<1>1. MemoryInv => SnapshotIsCommit
  <2> SUFFICES ASSUME MemoryInv, part = "memory", ck.pc \in {"iterate", "done"}
               PROVE  /\ ck.h1.aSalt = logSalt /\ ck.h1.mxFrame \in 1..Len(log)
                      /\ ck.h1.nPage = log[ck.h1.mxFrame].nTruncate
    BY DEF SnapshotIsCommit
  <2>1. HeadersInv BY DEF MemoryInv
  <2>2. PICK hdr : hdr = ck.h1 OBVIOUS
  <2>3. /\ hdr \in Header /\ hdr = Hdr(hdr.mxFrame, hdr.nPage, hdr.aSalt) /\ SumOk(hdr) /\ nBackfill < hdr.mxFrame
        /\ nBackfill \in Nat
    BY <2>1, <2>2 DEF HeadersInv, CkptInv, LogInv
  <2>4. hdr.mxFrame \in 0..MaxFrame /\ hdr.mxFrame \in Nat /\ hdr.nPage \in 0..MaxPage /\ hdr.aSalt \in Nat
    BY <2>3, HeaderIs
  <2>5. hdr.aCksum[1] = hdr.mxFrame
    <3>1. Hdr(hdr.mxFrame, hdr.nPage, hdr.aSalt).aCksum = <<hdr.mxFrame, hdr.nPage, hdr.aSalt>> BY <2>4, HdrType
    <3> QED BY <2>3, <3>1
  <2>6. hdr.mxFrame # 0 BY <2>3, <2>4
  <2>7. IsCommit(hdr.mxFrame) /\ hdr.aSalt = logSalt /\ hdr.nPage = log[hdr.mxFrame].nTruncate
    BY <2>3, <2>5, <2>6 DEF SumOk, Says
  <2> QED BY <2>2, <2>7 DEF IsCommit
<1> QED BY <1>1, MemoryInvInit, MemoryInvNext, PTL DEF Spec

\* Every variable of every part stays in its set: no torn store, no rollback, no
\* recovery and no kill writes a table entry, a slot or a frame number that is
\* not one, and the counters of unixInodeInfo and of aLock stay within the
\* number of connections.
THEOREM TypeCorrect == Spec => []TypeOK
<1>1. MemoryInv /\ ShmInv /\ FileInv => TypeOK
  <2> SUFFICES ASSUME MemoryInv, ShmInv, FileInv PROVE TypeOK OBVIOUS
  <2>1. part = "memory" => MemoryTypeOK BY MemoryTyped DEF MemoryInv
  <2>2. part = "shmLocks" => Shm!TypeOK BY ShmSame, ShmP!InvImplies DEF ShmInv
  <2>3. part = "fileLocks" => File!TypeOK BY FileSame, FileP!InvImplies DEF FileInv, FileP!Assumed
  <2> QED BY <2>1, <2>2, <2>3 DEF TypeOK
<1> QED BY <1>1, MemoryInvInit, MemoryInvNext, ShmInvInit, ShmInvNext, FileInvInit, FileInvNext, PTL DEF Spec

\* What the tables hold and where the searches in them are, in the behaviours
\* of that part.
TableInv == part = "memory" => HeadersInv /\ TablesInv /\ SearchInv

\* It holds at first,
LEMMA TableInvInit == Init => TableInv
BY HeadersInit, TablesInit, SearchInit DEF Init, TableInv

\* and every step keeps it, if no writer is killed within a memset.
LEMMA TableInvNext == ASSUME ~KillInMemset PROVE TableInv /\ [Next]_vars => TableInv'
<1> SUFFICES ASSUME TableInv, [Next]_vars, part' = "memory" PROVE HeadersInv' /\ TablesInv' /\ SearchInv' BY DEF TableInv
<1>1. part = "memory" BY DEF Next, vars
<1>2. HeadersInv /\ TablesInv /\ SearchInv BY <1>1 DEF TableInv
<1>3. CASE MemoryNext
  <2>1. HeadersInv' BY <1>2, <1>3, HeadersNext
  <2>2. TablesInv' BY <1>2, <1>3, TablesNext
  <2>3. SearchInv' BY <1>2, <1>3, <2>2, SearchNext
  <2> QED BY <2>1, <2>2, <2>3
<1>4. CASE UNCHANGED memoryVars BY <1>2, <1>4, HeadersStutter, TablesStutter, SearchStutter
<1> QED BY <1>1, <1>3, <1>4 DEF Next, vars

\* If no writer is killed within the memset of walCleanupHash, then every search
\* of sqlite3WalFindFrame ends with the last frame of its page in the snapshot
\* of the reader: for tables of any size and number, any number of readers, and
\* however appends, rollbacks, deaths and recoveries change the tables while
\* they are walked.
THEOREM LookupRightCorrect == ASSUME ~KillInMemset PROVE Spec => []LookupRight
<1>1. TableInv => LookupRight
  <2> SUFFICES ASSUME TableInv, part = "memory", NEW r \in Readers, rd[r].pc = "found"
               PROVE  rd[r].iRead = Newest(rd[r].pgno, rd[r].minFrame, rd[r].mxFrame)
    BY DEF LookupRight
  <2>1. PICK a : a = rd[r] OBVIOUS
  <2>2. SearchOk(a) BY <2>1 DEF TableInv, SearchInv
  <2>3. a.iRead = Newest(a.pgno, a.minFrame, a.mxFrame) BY <2>1, <2>2 DEF SearchOk
  <2> QED BY <2>1, <2>3
<1> QED BY <1>1, TableInvInit, TableInvNext, PTL DEF Spec

\* Under the same hypothesis a writer between two calls finds the last frame of
\* every page in the log it has, its own frames included, whatever was rolled
\* back, died or recovered before.
THEOREM WriterLookupCorrect == ASSUME ~KillInMemset PROVE Spec => []WriterLookup
<1>1. TableInv => WriterLookup
  <2> SUFFICES ASSUME TableInv, part = "memory", w.pc = "open"
               PROVE  \A p \in Pgno : FindFrame(p, w.hdr.mxFrame) = Newest(p, 1, w.hdr.mxFrame)
    BY DEF WriterLookup
  <2>1. HeadersInv /\ TablesInv BY DEF TableInv
  <2> QED BY <2>1, WriterFinds
<1> QED BY <1>1, TableInvInit, TableInvNext, PTL DEF Spec
=============================================================================
