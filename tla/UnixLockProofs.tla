--------------------------- MODULE UnixLockProofs ---------------------------
(***************************************************************************)
(* Proofs about UnixLock, for any finite set of connections in any number  *)
(* of processes, threads that lock between the test of nLock in unixClose  *)
(* and its close included.  IInv is inductive and implies the invariants   *)
(* of UnixLock; with it every step is one of FileLocks.                    *)
(***************************************************************************)
EXTENDS UnixLock, FiniteSetTheorems, TLAPS

(***************************************************************************)
(* The inductive invariant                                                 *)
(***************************************************************************)
\* TypeOK without the bounds of the counters, which follow from what they
\* count.
Inodes == [eFileLock : NO_LOCK..EXCLUSIVE_LOCK, nShared : Int, nLock : Int, nUnused : Int]
FLocks == [Bytes -> {"UNLCK", "RDLCK", "WRLCK"}]
Calls == [conn : Conn, at : Steps]
Types ==
    /\ isOpen \subseteq Conn
    /\ eFileLock \in [Conn -> NO_LOCK..EXCLUSIVE_LOCK]
    /\ inode \in [Proc -> Inodes]
    /\ flock \in [Proc -> FLocks]
    /\ call \in [Proc -> {None} \cup Calls]
    /\ closing \in [Proc -> {None} \cup Conn]
    /\ overtaken \subseteq Proc

\* A writer is the only one of its process, and a connection with an EXCLUSIVE
\* lock has no reader beside it.
OneWriter ==
    \A c, d \in Conn :
        c # d /\ pid[c] = pid[d] =>
            /\ eFileLock[c] > SHARED_LOCK => eFileLock[d] <= SHARED_LOCK
            /\ eFileLock[c] = EXCLUSIVE_LOCK => eFileLock[d] = NO_LOCK

\* The counters of unixInodeInfo, also within calls.
Lockers(p) == {c \in {d \in Conn : pid[d] = p} : eFileLock[c] # NO_LOCK}
Opened(p) == {c \in isOpen : pid[c] = p}
OfProc(p) == {c \in Conn : pid[c] = p}
Counted(p) ==
    /\ inode[p].nShared = Cardinality(Lockers(p)) /\ inode[p].nLock = inode[p].nShared
    /\ inode[p].nUnused \in Nat /\ (inode[p].nLock = 0 => inode[p].nUnused = 0)
    /\ Cardinality(Opened(p)) + inode[p].nUnused <= Cardinality(OfProc(p))

\* The inode has the strongest lock of its connections.
Strongest(p, l) ==
    /\ \A c \in Conn : pid[c] = p => eFileLock[c] <= l
    /\ l # NO_LOCK => \E c \in Conn : pid[c] = p /\ eFileLock[c] = l

\* The process has locked the bytes that stand for lock l.
BytesFor(p, l) ==
    /\ flock[p]["SHARED"] = IF l = EXCLUSIVE_LOCK THEN "WRLCK"
                            ELSE IF l = NO_LOCK THEN "UNLCK" ELSE "RDLCK"
    /\ flock[p]["RESERVED"] # "RDLCK" /\ flock[p]["PENDING"] # "RDLCK"
    /\ flock[p]["RESERVED"] = "WRLCK" => l >= RESERVED_LOCK
    /\ flock[p]["PENDING"] = "WRLCK" => l >= PENDING_LOCK
    /\ l \in {RESERVED_LOCK, PENDING_LOCK} => flock[p]["RESERVED"] = "WRLCK"
    /\ l = PENDING_LOCK => flock[p]["PENDING"] = "WRLCK"

\* The kernel's part is lost where unixClose has dropped the locks.
Idle(p) ==
    /\ Strongest(p, inode[p].eFileLock)
    /\ ~Dropped(p) => BytesFor(p, inode[p].eFileLock)

\* Within a call of connection c.
ShareSteps == {"share", "shared", "busy"}
InCall(p, c, at) ==
    LET l == inode[p].eFileLock
    IN  /\ pid[c] = p
        /\ at \in ShareSteps =>
              /\ l = NO_LOCK /\ Strongest(p, l) /\ flock[p]["RESERVED"] = "UNLCK"
              /\ at # "shared" => flock[p]["SHARED"] = "UNLCK"
              /\ ~Dropped(p) => /\ flock[p]["PENDING"] = "RDLCK"
                                /\ at = "shared" => flock[p]["SHARED"] = "RDLCK"
        /\ at = "exclude" => Idle(p) /\ l = PENDING_LOCK /\ eFileLock[c] = PENDING_LOCK
        /\ at = "unlockBytes" => /\ Strongest(p, l) /\ eFileLock[c] = l /\ l > SHARED_LOCK
                                 /\ ~Dropped(p) => flock[p]["SHARED"] = "RDLCK"
        /\ at = "unlock" =>
              /\ eFileLock[c] > SHARED_LOCK /\ l = SHARED_LOCK
              /\ ~Dropped(p) =>
                    /\ flock[p]["PENDING"] = "UNLCK" /\ flock[p]["RESERVED"] = "UNLCK"
                    /\ flock[p]["SHARED"] = IF eFileLock[c] = EXCLUSIVE_LOCK THEN "WRLCK" ELSE "RDLCK"

CallOk(p) == IF call[p] = None THEN Idle(p) ELSE InCall(p, call[p].conn, call[p].at)

\* Between its test and its close unixClose finds no lock, unless a thread has
\* overtaken it; and a process that was overtaken has locks or is taking its
\* first.
CloseOk(p) ==
    /\ closing[p] # None => /\ pid[closing[p]] = p
                            /\ (p \notin overtaken => call[p] = None /\ inode[p].nLock = 0)
    /\ p \in overtaken => \/ call[p] # None /\ call[p].at \in ShareSteps
                          \/ inode[p].nLock > 0

ProcOk(p) == CallOk(p) /\ CloseOk(p)

KernelOk ==
    \A p, q \in Proc, b \in Bytes : p # q /\ flock[p][b] = "WRLCK" => flock[q][b] = "UNLCK"

IInv == /\ Types /\ OneWriter /\ KernelOk
        /\ \A p \in Proc : Counted(p) /\ ProcOk(p)

(***************************************************************************)
(* The step of a connection                                                *)
(***************************************************************************)
Sharing(c) == ShareAgain(c) \/ SharePending(c) \/ ShareRange(c) \/ ShareEnd(c)
Writing(c) == Reserve(c) \/ ExcludePending(c) \/ Exclude(c)
Releasing(c) == Downgrade(c) \/ DowngradeEnd(c) \/ UnlockBytes(c) \/ Unlock(c)
ConnStep(c) == Sharing(c) \/ Writing(c) \/ Releasing(c) \/ Open(c) \/ Close(c) \/ CloseFd(c)

\* What is assumed of the constants.
Assumed == UnixLockConstants

\* The process of a connection is one of the processes.
LEMMA ProcOf == \A c \in Conn : pid[c] \in Proc
  BY DEF Proc

\* Changes of an inode and of the locks of a process, one field or byte at a
\* time.
LEMMA Members ==
    /\ NewInode \in Inodes /\ Unlocked \in FLocks
    /\ \A l \in NO_LOCK..EXCLUSIVE_LOCK, m, n, k \in Int :
          /\ Inode(l, m, n, k) \in Inodes
          /\ Inode(l, m, n, k).eFileLock = l /\ Inode(l, m, n, k).nShared = m
          /\ Inode(l, m, n, k).nLock = n /\ Inode(l, m, n, k).nUnused = k
    /\ \A i \in Inodes : /\ i.eFileLock \in NO_LOCK..EXCLUSIVE_LOCK
                         /\ i.nShared \in Int /\ i.nLock \in Int /\ i.nUnused \in Int
    /\ \A c \in Conn, at \in Steps : [conn |-> c, at |-> at] \in Calls
    /\ Bytes = {"PENDING", "RESERVED", "SHARED"}
    /\ {NO_LOCK, SHARED_LOCK, RESERVED_LOCK, PENDING_LOCK, EXCLUSIVE_LOCK} \subseteq NO_LOCK..EXCLUSIVE_LOCK
  BY DEF NewInode, Inode, Inodes, Unlocked, FLocks, Calls, Bytes, NO_LOCK, SHARED_LOCK, RESERVED_LOCK,
     PENDING_LOCK, EXCLUSIVE_LOCK

\* What a step does to the locks of its process and what it says of the call.
LEMMA ByteSet ==
    ASSUME Types, NEW p \in Proc, NEW b \in Bytes, NEW type \in {"UNLCK", "RDLCK", "WRLCK"}, SetLock(p, b, type)
    PROVE  /\ flock' \in [Proc -> FLocks]
           /\ \A q \in Proc : q # p => flock'[q] = flock[q]
           /\ \A a \in Bytes : flock'[p][a] = IF a = b THEN type ELSE flock[p][a]
  BY DEF Types, SetLock, FLocks

\* The same for posixUnlock of the two bytes.
LEMMA BytesFreed ==
    ASSUME Types, NEW p \in Proc, FreeBytes(p)
    PROVE  /\ flock' \in [Proc -> FLocks]
           /\ \A q \in Proc : q # p => flock'[q] = flock[q]
           /\ flock'[p]["PENDING"] = "UNLCK" /\ flock'[p]["RESERVED"] = "UNLCK"
           /\ flock'[p]["SHARED"] = flock[p]["SHARED"]
  BY DEF Types, FreeBytes, FLocks, Bytes

\* A call goes on or returns, and those of other processes stay.
LEMMA CallSet ==
    ASSUME Types, UnixLockConstants, NEW c \in Conn
    PROVE  /\ \A at \in Steps : GoesOn(c, at) =>
                  /\ call' \in [Proc -> {None} \cup Calls]
                  /\ \A q \in Proc : q # pid[c] => call'[q] = call[q]
                  /\ call'[pid[c]] = [conn |-> c, at |-> at] /\ call'[pid[c]] # None
           /\ Returns(pid[c]) => /\ call' \in [Proc -> {None} \cup Calls]
                                 /\ \A q \in Proc : q # pid[c] => call'[q] = call[q]
                                 /\ call'[pid[c]] = None
<1>1. \A at \in Steps : [conn |-> c, at |-> at] \in Calls /\ [conn |-> c, at |-> at] # None
  BY DEF UnixLockConstants, Calls
<1> QED BY <1>1, ProcOf DEF GoesOn, Returns, Types

\* A call that is at a step is not over.
LEMMA IsWithin ==
    ASSUME UnixLockConstants, NEW c \in Conn, NEW at \in Steps, IsAt(c, at)
    PROVE  call[pid[c]] # None /\ call[pid[c]].conn = c /\ call[pid[c]].at = at
  BY DEF IsAt, UnixLockConstants

\* Types is kept by every operation.
LEMMA TypesStep ==
    ASSUME Assumed, Types, NEW c \in Conn, ConnStep(c)
    PROVE  Types'
<1> DEFINE p == pid[c]
<1>0. UnixLockConstants /\ p \in Proc /\ inode[p] \in Inodes
  BY ProcOf DEF Assumed, Types
<1>s. \A at \in {"share", "shared", "busy", "exclude", "unlockBytes", "unlock"} : at \in Steps
  BY DEF Steps
<1>b. "PENDING" \in Bytes /\ "RESERVED" \in Bytes /\ "SHARED" \in Bytes
  BY DEF Bytes
<1>1. call' \in [Proc -> {None} \cup Calls]
  <2>1. CASE call' = call BY <2>1 DEF Types
  <2>2. CASE Returns(p) BY <1>0, <2>2, CallSet
  <2>3. CASE \E at \in Steps : GoesOn(c, at) BY <1>0, <2>3, CallSet
  <2> QED BY <1>s, <2>1, <2>2, <2>3 DEF ConnStep, Sharing, Writing, Releasing, ShareAgain, SharePending,
        ShareRange, ShareEnd, Reserve, ExcludePending, Exclude, Downgrade, DowngradeEnd, UnlockBytes,
        Unlock, Open, Close, CloseFd
<1>2. flock' \in [Proc -> FLocks]
  <2>1. CASE flock' = flock BY <2>1 DEF Types
  <2>2. CASE flock' = [flock EXCEPT ![p] = Unlocked] BY <1>0, <2>2, Members DEF Types
  <2>3. CASE FreeBytes(p) BY <1>0, <2>3, BytesFreed
  <2>4. CASE \E b \in Bytes, type \in {"UNLCK", "RDLCK", "WRLCK"} : SetLock(p, b, type)
    BY <1>0, <2>4, ByteSet
  <2> QED BY <1>b, <2>1, <2>2, <2>3, <2>4 DEF ConnStep, Sharing, Writing, Releasing, ShareAgain, SharePending,
        ShareRange, ShareEnd, Reserve, ExcludePending, Exclude, Downgrade, DowngradeEnd, UnlockBytes,
        Unlock, Open, Close, CloseFd
<1>3. isOpen' \subseteq Conn /\ closing' \in [Proc -> {None} \cup Conn] /\ overtaken' \subseteq Proc
  BY <1>0 DEF Types, ConnStep, Sharing, Writing, Releasing, ShareAgain, SharePending,
        ShareRange, ShareEnd, Reserve, ExcludePending, Exclude, Downgrade, DowngradeEnd, UnlockBytes,
        Unlock, Open, Close, CloseFd
<1>4. eFileLock' \in [Conn -> NO_LOCK..EXCLUSIVE_LOCK]
  <2>1. eFileLock' = eFileLock \/ \E l \in NO_LOCK..EXCLUSIVE_LOCK : eFileLock' = [eFileLock EXCEPT ![c] = l]
    BY Members DEF ConnStep, Sharing, Writing, Releasing, ShareAgain, SharePending, Holds,
        ShareRange, ShareEnd, Reserve, ExcludePending, Exclude, Downgrade, DowngradeEnd, UnlockBytes,
        Unlock, Open, Close, CloseFd
  <2> QED BY <2>1 DEF Types
<1>5. inode' \in [Proc -> Inodes]
  <2>1. /\ \A l \in NO_LOCK..EXCLUSIVE_LOCK : WithLock(inode[p], l) \in Inodes
        /\ \A n \in Int : WithUnused(inode[p], n) \in Inodes
        /\ \A l \in NO_LOCK..EXCLUSIVE_LOCK, m, n, k \in Int : Inode(l, m, n, k) \in Inodes
    BY <1>0, Members DEF WithLock, WithUnused
  <2>2. CASE inode' = inode BY <2>2 DEF Types
  <2>3. CASE \E l \in NO_LOCK..EXCLUSIVE_LOCK : inode' = [inode EXCEPT ![p] = WithLock(@, l)]
    BY <2>1, <2>3 DEF Types
  <2>4. ASSUME NEW i \in Inodes, inode' = [inode EXCEPT ![p] = i] PROVE inode' \in [Proc -> Inodes]
    BY <2>4 DEF Types
  <2>i. /\ inode[p].eFileLock \in NO_LOCK..EXCLUSIVE_LOCK
        /\ inode[p].nShared \in Int /\ inode[p].nLock \in Int /\ inode[p].nUnused \in Int
        /\ inode[p].nShared + 1 \in Int /\ inode[p].nLock + 1 \in Int /\ inode[p].nUnused + 1 \in Int
        /\ inode[p].nShared - 1 \in Int /\ inode[p].nLock - 1 \in Int /\ inode[p].nUnused - 1 \in Int
        /\ 0 \in Int /\ 1 \in Int
    BY <1>0, Members
  <2>5. CASE ShareAgain(c) BY <2>1, <2>4, <2>5, <2>i DEF ShareAgain
  <2>6. CASE ShareEnd(c)
    <3>1. Inode(SHARED_LOCK, 1, inode[p].nLock + 1, inode[p].nUnused) \in Inodes
      BY <2>1, <2>i, Members
    <3>2. inode' = inode \/ inode' = [inode EXCEPT ![p] = Inode(SHARED_LOCK, 1, inode[p].nLock + 1, inode[p].nUnused)]
      BY <2>6 DEF ShareEnd
    <3> QED BY <2>2, <2>4, <3>1, <3>2
  <2>7. CASE Unlock(c)
    <3> DEFINE l == IF inode[p].nShared = 1 THEN NO_LOCK ELSE inode[p].eFileLock
               k == IF inode[p].nLock = 1 THEN 0 ELSE inode[p].nUnused
    <3>1. l \in NO_LOCK..EXCLUSIVE_LOCK /\ k \in Int
      BY <2>i, Members
    <3>2. inode' = [inode EXCEPT ![p] = Inode(l, inode[p].nShared - 1, inode[p].nLock - 1, k)]
      BY <2>7 DEF Unlock
    <3> HIDE DEF l, k
    <3>3. Inode(l, inode[p].nShared - 1, inode[p].nLock - 1, k) \in Inodes
      BY <2>1, <2>i, <3>1
    <3> QED BY <2>4, <3>2, <3>3
  <2>8. CASE Open(c)
    <3>1. WithUnused(inode[p], IF inode[p].nUnused = 0 THEN 0 ELSE inode[p].nUnused - 1) \in Inodes
      BY <2>1, <2>i
    <3> QED BY <2>4, <2>8, <3>1 DEF Open
  <2>9. CASE Close(c)
    <3>1. inode' = inode \/ inode' = [inode EXCEPT ![p] = WithUnused(inode[p], inode[p].nUnused + 1)]
      BY <2>9 DEF Close
    <3> QED BY <2>1, <2>2, <2>4, <2>i, <3>1
  <2> QED BY <2>2, <2>3, <2>5, <2>6, <2>7, <2>8, <2>9, Members DEF ConnStep, Sharing, Writing, Releasing,
        SharePending, ShareRange, Reserve, ExcludePending, Exclude, Downgrade, DowngradeEnd, UnlockBytes,
        CloseFd, Holds
<1> QED BY <1>1, <1>2, <1>3, <1>4, <1>5 DEF Types

\* The step of a connection leaves the other processes and the other
\* connections alone.
LEMMA Untouched ==
    ASSUME Assumed, Types, NEW c \in Conn, ConnStep(c)
    PROVE  /\ \A q \in Proc : q # pid[c] => /\ inode'[q] = inode[q] /\ flock'[q] = flock[q]
                                            /\ call'[q] = call[q] /\ closing'[q] = closing[q]
                                            /\ (q \in overtaken' <=> q \in overtaken)
           /\ \A d \in Conn : d # c => /\ eFileLock'[d] = eFileLock[d]
                                       /\ (d \in isOpen' <=> d \in isOpen)
<1> USE ProcOf DEF Types, ConnStep, Sharing, Writing, Releasing, ShareAgain, SharePending,
        ShareRange, ShareEnd, Reserve, ExcludePending, Exclude, Downgrade, DowngradeEnd, UnlockBytes,
        Unlock, Open, Close, CloseFd, Holds, Returns, GoesOn, SetLock, FreeBytes
<1>1. \A q \in Proc : q # pid[c] => inode'[q] = inode[q]
  OBVIOUS
<1>2. \A q \in Proc : q # pid[c] => flock'[q] = flock[q]
  OBVIOUS
<1>3. \A q \in Proc : q # pid[c] => call'[q] = call[q] /\ closing'[q] = closing[q]
  OBVIOUS
<1>4. \A d \in Conn : d # c => eFileLock'[d] = eFileLock[d]
  OBVIOUS
<1>5. \A d \in Conn : d # c => (d \in isOpen' <=> d \in isOpen)
  OBVIOUS
<1>6. \A q \in Proc : q # pid[c] => (q \in overtaken' <=> q \in overtaken)
  OBVIOUS
<1> QED BY <1>1, <1>2, <1>3, <1>4, <1>5, <1>6

\* A thread that enters pLockMutex finds no call under way.
LEMMA Enters ==
    ASSUME Assumed, NEW c \in Conn, CanEnter(c), ProcOk(pid[c])
    PROVE  c \in isOpen /\ call[pid[c]] = None /\ Idle(pid[c])
  BY DEF Assumed, CanEnter, ProcOk, CallOk

\* One that goes on is where its process says.
LEMMA GoingOn ==
    ASSUME Assumed, Types, NEW c \in Conn, NEW at \in Steps, IsAt(c, at), ProcOk(pid[c])
    PROVE  call[pid[c]] # None /\ InCall(pid[c], c, at)
  BY IsWithin DEF Assumed, ProcOk, CallOk

(***************************************************************************)
(* The kernel                                                              *)
(***************************************************************************)
\* What a step does to the bytes of its process: it frees some or is granted
\* one.
LEMMA FlockChange ==
    ASSUME Assumed, Types, NEW c \in Conn, ProcOk(pid[c]), ConnStep(c)
    PROVE  \A b \in Bytes :
              \/ flock'[pid[c]][b] \in {flock[pid[c]][b], "UNLCK"}
              \/ /\ Granted(pid[c], b, flock'[pid[c]][b])
                 /\ flock'[pid[c]][b] \in {"RDLCK", "WRLCK"}
<1> DEFINE p == pid[c]
<1>0. p \in Proc /\ "PENDING" \in Bytes /\ "RESERVED" \in Bytes /\ "SHARED" \in Bytes
  BY ProcOf DEF Bytes
<1>g. ASSUME NEW a \in Bytes, NEW type \in {"RDLCK", "WRLCK"}, SetLock(p, a, type), Granted(p, a, type)
      PROVE  \A b \in Bytes : \/ flock'[p][b] = flock[p][b]
                              \/ Granted(p, b, flock'[p][b]) /\ flock'[p][b] \in {"RDLCK", "WRLCK"}
  <2>1. \A b \in Bytes : flock'[p][b] = IF b = a THEN type ELSE flock[p][b]
    BY <1>0, <1>g, ByteSet
  <2> TAKE b \in Bytes
  <2>2. CASE b = a
    <3>1. flock'[p][b] = type BY <2>1, <2>2
    <3>2. Granted(p, b, type) BY <1>g, <2>2
    <3> QED BY <1>g, <3>1, <3>2
  <2>3. CASE b # a BY <2>1, <2>3
  <2> QED BY <2>2, <2>3
<1>u. ASSUME flock' = flock \/ flock' = [flock EXCEPT ![p] = Unlocked]
      PROVE  \A b \in Bytes : flock'[p][b] \in {flock[p][b], "UNLCK"}
  BY <1>0, <1>u DEF Unlocked, Types
<1>1. CASE ShareAgain(c) \/ Unlock(c) \/ Open(c) \/ Close(c) \/ CloseFd(c)
  <2>1. flock' = flock \/ flock' = [flock EXCEPT ![p] = Unlocked]
    BY <1>1 DEF ShareAgain, Unlock, Open, Close, CloseFd
  <2> QED BY <1>u, <2>1
<1>2. CASE SharePending(c) BY <1>0, <1>2, <1>g DEF SharePending
<1>3. CASE ShareRange(c) BY <1>0, <1>3, <1>g, <1>u DEF ShareRange
<1>4. CASE ShareEnd(c) BY <1>0, <1>4, ByteSet DEF ShareEnd
<1>5. CASE Reserve(c) BY <1>0, <1>5, <1>g DEF Reserve
<1>6. CASE ExcludePending(c) BY <1>0, <1>6, <1>g DEF ExcludePending
<1>7. CASE Exclude(c) BY <1>0, <1>7, <1>g, <1>u DEF Exclude
<1>8. CASE Downgrade(c) BY <1>0, <1>8, <1>g DEF Downgrade
<1>9. CASE DowngradeEnd(c) \/ UnlockBytes(c)
  BY <1>0, <1>9, BytesFreed DEF DowngradeEnd, UnlockBytes, Bytes
<1> QED BY <1>1, <1>2, <1>3, <1>4, <1>5, <1>6, <1>7, <1>8, <1>9 DEF ConnStep, Sharing, Writing, Releasing

\* The kernel never has a byte locked for one process and for a writer.
LEMMA KernelStep ==
    ASSUME Assumed, Types, KernelOk, NEW c \in Conn, ProcOk(pid[c]), ConnStep(c)
    PROVE  KernelOk'
<1> USE ProcOf
<1> DEFINE p == pid[c]
<1>1. \A q \in Proc : q # p => flock'[q] = flock[q]
  BY Untouched
<1>2. SUFFICES ASSUME NEW q \in Proc, q # p, NEW b \in Bytes
               PROVE  /\ flock'[p][b] = "WRLCK" => flock[q][b] = "UNLCK"
                      /\ flock[q][b] = "WRLCK" => flock'[p][b] = "UNLCK"
  BY <1>1 DEF KernelOk
<1>3. /\ flock[p][b] = "WRLCK" => flock[q][b] = "UNLCK"
      /\ flock[q][b] = "WRLCK" => flock[p][b] = "UNLCK"
  BY <1>2 DEF KernelOk
<1>4. Granted(p, b, flock'[p][b]) => flock[q][b] # "WRLCK" /\ (flock'[p][b] = "WRLCK" => flock[q][b] = "UNLCK")
  BY <1>2 DEF Granted
<1> QED BY <1>3, <1>4, FlockChange

(***************************************************************************)
(* Levels                                                                  *)
(***************************************************************************)
\* No step makes a second writer, or a reader next to an EXCLUSIVE lock, in one
\* process.
LEMMA OneWriterStep ==
    ASSUME Assumed, Types, OneWriter, NEW c \in Conn, Counted(pid[c]), ProcOk(pid[c]), ConnStep(c)
    PROVE  OneWriter'
<1> DEFINE p == pid[c]
<1> USE DEF NO_LOCK, SHARED_LOCK, RESERVED_LOCK, PENDING_LOCK, EXCLUSIVE_LOCK
<1>0. /\ \A d \in Conn : d # c => eFileLock'[d] = eFileLock[d]
      /\ \A d \in Conn : eFileLock[d] \in 0..4 /\ eFileLock'[d] \in 0..4
  BY Untouched, TypesStep DEF Types
<1>k. ASSUME eFileLock'[c] <= eFileLock[c] \/ eFileLock'[c] <= SHARED_LOCK,
             eFileLock'[c] = eFileLock[c] \/ eFileLock[c] # NO_LOCK
                 \/ \A d \in Conn : pid[d] = p => eFileLock[d] # EXCLUSIVE_LOCK,
             eFileLock'[c] # EXCLUSIVE_LOCK \/ eFileLock[c] = EXCLUSIVE_LOCK
      PROVE  OneWriter'
  BY <1>0, <1>k DEF OneWriter
<1>1. CASE ShareAgain(c)
  BY <1>0, <1>1, <1>k, Enters DEF ShareAgain, Idle, Strongest, Types
<1>2. CASE ShareEnd(c)
  <2>1. CASE IsAt(c, "shared")
    <3>1. \A d \in Conn : pid[d] = p => eFileLock[d] = NO_LOCK
      BY <1>0, <2>1, GoingOn DEF InCall, Strongest, Steps, ShareSteps
    <3> QED BY <1>0, <1>2, <2>1, <3>1, <1>k DEF ShareEnd, Types
  <2>2. CASE ~IsAt(c, "shared")
    BY <1>0, <1>2, <1>k, <2>2 DEF ShareEnd
  <2> QED BY <2>1, <2>2
<1>3. CASE Reserve(c) \/ ExcludePending(c)
  <2>1. Idle(p) /\ eFileLock[c] = inode[p].eFileLock /\ eFileLock[c] \in {SHARED_LOCK, RESERVED_LOCK}
    BY <1>3, Enters DEF Reserve, ExcludePending, IsStrongest
  <2>2. \A d \in Conn : pid[d] = p /\ d # c => eFileLock[d] <= SHARED_LOCK
    BY <1>0, <2>1 DEF Idle, Strongest, OneWriter
  <2>3. eFileLock'[c] \in {RESERVED_LOCK, PENDING_LOCK}
    BY <1>3 DEF Reserve, ExcludePending, Holds, Types
  <2> QED BY <1>0, <2>2, <2>3 DEF OneWriter
<1>4. CASE Exclude(c)
  <2>1. CASE eFileLock' = eFileLock BY <2>1 DEF OneWriter
  <2>2. CASE eFileLock' # eFileLock
    <3>1. IsOnlyReader(p) /\ eFileLock'[c] = EXCLUSIVE_LOCK
      BY <1>4, <2>2 DEF Exclude, Holds, Types
    <3>2. eFileLock[c] # NO_LOCK
      BY <1>4, GoingOn DEF Exclude, InCall, Steps
    <3>3. Lockers(p) = {c}
      <4>1. c \in Lockers(p) BY <3>2 DEF Lockers
      <4>2. IsFiniteSet(Lockers(p))
        <5>1. Lockers(p) \in SUBSET Conn BY DEF Lockers
        <5> QED BY <5>1, FS_Subset DEF Assumed, UnixLockConstants
      <4>3. Cardinality(Lockers(p)) <= 1
        BY <3>1 DEF IsOnlyReader, Counted
      <4>4. Cardinality(Lockers(p)) \in Nat /\ Cardinality(Lockers(p)) # 0
        BY <4>1, <4>2, FS_EmptySet, FS_CardinalityType
      <4>5. PICK x : Lockers(p) = {x}
        <5>1. Cardinality(Lockers(p)) = 1 BY <4>3, <4>4
        <5> QED BY <4>2, <5>1, FS_Singleton
      <4> QED BY <4>1, <4>5
    <3>4. \A d \in Conn : pid[d] = p /\ d # c => eFileLock[d] = NO_LOCK
      BY <3>3 DEF Lockers
    <3> QED BY <1>0, <3>1, <3>4 DEF OneWriter
  <2> QED BY <2>1, <2>2
<1>5. CASE DowngradeEnd(c)
  <2>1. eFileLock[c] > SHARED_LOCK BY <1>5, GoingOn DEF DowngradeEnd, InCall, Steps
  <2>2. eFileLock'[c] = SHARED_LOCK BY <1>5 DEF DowngradeEnd, Holds, Types
  <2> QED BY <1>0, <1>k, <2>1, <2>2
<1>6. CASE Unlock(c)
  <2>1. eFileLock'[c] = NO_LOCK BY <1>6 DEF Unlock, Types
  <2> QED BY <1>0, <2>1 DEF OneWriter
<1>7. CASE UNCHANGED eFileLock
  BY <1>7 DEF OneWriter
<1> QED BY <1>1, <1>2, <1>3, <1>4, <1>5, <1>6, <1>7 DEF ConnStep, Sharing, Writing, Releasing,
      SharePending, ShareRange, Downgrade, UnlockBytes, Open, Close, CloseFd

(***************************************************************************)
(* Counters                                                                *)
(***************************************************************************)
\* What the counters count is finite.
LEMMA FiniteParts ==
    ASSUME UnixLockConstants, Types, NEW p
    PROVE  /\ IsFiniteSet(Lockers(p)) /\ Cardinality(Lockers(p)) \in Nat
           /\ IsFiniteSet(Opened(p)) /\ Cardinality(Opened(p)) \in Nat
           /\ IsFiniteSet(OfProc(p)) /\ Cardinality(OfProc(p)) \in 0..Cardinality(Conn)
           /\ Cardinality(Lockers(p)) <= Cardinality(Conn) /\ Cardinality(Opened(p)) <= Cardinality(OfProc(p))
<1>1. Lockers(p) \in SUBSET Conn /\ OfProc(p) \in SUBSET Conn /\ Opened(p) \in SUBSET OfProc(p)
  BY DEF Lockers, OfProc, Opened, Types
<1>2. IsFiniteSet(Conn) /\ Cardinality(Conn) \in Nat
  BY FS_CardinalityType DEF UnixLockConstants
<1>3. /\ IsFiniteSet(Lockers(p)) /\ Cardinality(Lockers(p)) <= Cardinality(Conn)
      /\ IsFiniteSet(OfProc(p)) /\ Cardinality(OfProc(p)) <= Cardinality(Conn)
  BY <1>1, <1>2, FS_Subset
<1>4. IsFiniteSet(Opened(p)) /\ Cardinality(Opened(p)) <= Cardinality(OfProc(p))
  BY <1>1, <1>3, FS_Subset
<1> QED BY <1>2, <1>3, <1>4, FS_CardinalityType

\* What the connections of a process do not change is counted as before.
LEMMA CountedFrame ==
    ASSUME Types, Types', NEW p \in Proc, Counted(p), inode'[p] = inode[p],
           \A d \in Conn : pid[d] = p => /\ (eFileLock'[d] = NO_LOCK <=> eFileLock[d] = NO_LOCK)
                                         /\ (d \in isOpen' <=> d \in isOpen)
    PROVE  Counted(p)'
<1>1. Lockers(p)' = Lockers(p) /\ Opened(p)' = Opened(p) /\ OfProc(p)' = OfProc(p)
  BY DEF Lockers, Opened, OfProc, Types
<1> QED BY <1>1 DEF Counted

\* nShared and nLock count the connections with a lock, and no more
\* descriptors are kept than connections are closed.
LEMMA CountedStep ==
    ASSUME Assumed, Types, NEW c \in Conn, Counted(pid[c]), ProcOk(pid[c]), ConnStep(c)
    PROVE  Counted(pid[c])'
<1> DEFINE p == pid[c]
<1>0. /\ UnixLockConstants /\ p \in Proc /\ Types' /\ inode[p] \in Inodes /\ inode \in [Proc -> Inodes]
      /\ inode[p].nShared \in Int /\ inode[p].nLock \in Int /\ inode[p].nUnused \in Int
      /\ inode[p].eFileLock \in NO_LOCK..EXCLUSIVE_LOCK
  BY ProcOf, TypesStep, Members DEF Assumed, Types
<1>n. NO_LOCK = 0 /\ SHARED_LOCK = 1 /\ RESERVED_LOCK = 2 /\ PENDING_LOCK = 3 /\ EXCLUSIVE_LOCK = 4
  BY DEF NO_LOCK, SHARED_LOCK, RESERVED_LOCK, PENDING_LOCK, EXCLUSIVE_LOCK
<1>f. /\ IsFiniteSet(Lockers(p)) /\ Cardinality(Lockers(p)) \in Nat
      /\ IsFiniteSet(Opened(p)) /\ Cardinality(Opened(p)) \in Nat
      /\ Cardinality(OfProc(p)) \in Nat /\ OfProc(p)' = OfProc(p)
      /\ Cardinality(Opened(p)') <= Cardinality(OfProc(p))
  <2>2. OfProc(p)' = OfProc(p) BY DEF OfProc
  <2>3. Opened(p)' \in SUBSET OfProc(p) BY <1>0 DEF OfProc, Opened, Types
  <2>1. Cardinality(Opened(p)') <= Cardinality(OfProc(p))
    BY <1>0, <2>3, FiniteParts, FS_Subset
  <2> QED BY <1>0, <2>1, <2>2, FiniteParts
<1>e. /\ \A d \in Conn : d # c => eFileLock'[d] = eFileLock[d]
      /\ \A d \in Conn : d # c => (d \in isOpen' <=> d \in isOpen)
  BY Untouched
<1>a. ASSUME NEW i \in Inodes, inode' = [inode EXCEPT ![p] = i] PROVE inode'[p] = i
  BY <1>0, <1>a
<1>k. ASSUME inode'[p].nShared = inode[p].nShared, inode'[p].nLock = inode[p].nLock,
             inode'[p].nUnused = inode[p].nUnused, UNCHANGED isOpen,
             eFileLock'[c] = NO_LOCK <=> eFileLock[c] = NO_LOCK
      PROVE  Counted(p)'
  <2>1. Lockers(p)' = Lockers(p) /\ Opened(p)' = Opened(p)
    BY <1>e, <1>k DEF Lockers, Opened
  <2> QED BY <1>f, <1>k, <2>1 DEF Counted
<1>l. ASSUME NEW l \in NO_LOCK..EXCLUSIVE_LOCK, inode' = [inode EXCEPT ![p] = WithLock(@, l)]
      PROVE  /\ inode'[p].nShared = inode[p].nShared /\ inode'[p].nLock = inode[p].nLock
             /\ inode'[p].nUnused = inode[p].nUnused
  BY <1>0, <1>l DEF WithLock, Inode
<1>p. ASSUME inode'[p].nShared = inode[p].nShared + 1, inode'[p].nLock = inode[p].nLock + 1,
             inode'[p].nUnused = inode[p].nUnused, UNCHANGED isOpen,
             eFileLock'[c] # NO_LOCK, eFileLock[c] = NO_LOCK
      PROVE  Counted(p)'
  <2>1. Lockers(p)' = Lockers(p) \cup {c} /\ c \notin Lockers(p) /\ Opened(p)' = Opened(p)
    BY <1>e, <1>p DEF Lockers, Opened
  <2>2. Cardinality(Lockers(p)') = Cardinality(Lockers(p)) + 1
    BY <1>f, <2>1, FS_AddElement
  <2> QED BY <1>0, <1>f, <1>p, <2>1, <2>2 DEF Counted
<1>1. CASE ShareAgain(c)
  <2>1. /\ inode'[p] = Inode(inode[p].eFileLock, inode[p].nShared + 1, inode[p].nLock + 1, inode[p].nUnused)
        /\ eFileLock'[c] = SHARED_LOCK /\ eFileLock[c] = NO_LOCK /\ UNCHANGED isOpen
    BY <1>0, <1>1 DEF ShareAgain, Types
  <2> QED BY <1>n, <1>p, <2>1 DEF Inode
<1>2. CASE ShareEnd(c)
  <2>1. CASE IsAt(c, "shared")
    <3>1. \A d \in Conn : pid[d] = p => eFileLock[d] = NO_LOCK
      BY <1>n, <2>1, GoingOn DEF InCall, Strongest, Steps, ShareSteps, Types
    <3>2. Cardinality(Lockers(p)) = 0
      <4>1. Lockers(p) = {} BY <3>1 DEF Lockers
      <4> QED BY <4>1, FS_EmptySet
    <3>3. inode[p].nShared = 0 BY <3>2 DEF Counted
    <3>4. inode'[p] = Inode(SHARED_LOCK, 1, inode[p].nLock + 1, inode[p].nUnused)
      BY <1>0, <1>2, <2>1 DEF ShareEnd
    <3>5. eFileLock'[c] = SHARED_LOCK /\ UNCHANGED isOpen
      BY <1>2, <2>1 DEF ShareEnd, Types
    <3> QED BY <1>n, <1>p, <3>1, <3>3, <3>4, <3>5 DEF Inode
  <2>2. CASE ~IsAt(c, "shared")
    BY <1>2, <1>k, <2>2 DEF ShareEnd
  <2> QED BY <2>1, <2>2
<1>3. CASE Reserve(c) \/ ExcludePending(c) \/ DowngradeEnd(c)
  <2>1. eFileLock[c] # NO_LOCK
    BY <1>n, <1>3, GoingOn DEF Reserve, ExcludePending, DowngradeEnd, InCall, Steps
  <2>2. PICK l \in {SHARED_LOCK, RESERVED_LOCK, PENDING_LOCK} : Holds(c, l)
    BY <1>3 DEF Reserve, ExcludePending, DowngradeEnd
  <2>3. eFileLock'[c] # NO_LOCK /\ l \in NO_LOCK..EXCLUSIVE_LOCK
    BY <1>n, <2>2 DEF Holds, Types
  <2>4. /\ inode'[p].nShared = inode[p].nShared /\ inode'[p].nLock = inode[p].nLock
        /\ inode'[p].nUnused = inode[p].nUnused
    BY <1>l, <2>2, <2>3 DEF Holds
  <2> QED BY <1>3, <1>k, <2>1, <2>3, <2>4 DEF Reserve, ExcludePending, DowngradeEnd
<1>4. CASE Exclude(c)
  <2>1. eFileLock[c] # NO_LOCK
    BY <1>n, <1>4, GoingOn DEF Exclude, InCall, Steps
  <2>2. CASE Holds(c, EXCLUSIVE_LOCK)
    <3>1. eFileLock'[c] # NO_LOCK /\ EXCLUSIVE_LOCK \in NO_LOCK..EXCLUSIVE_LOCK
      BY <1>n, <2>2 DEF Holds, Types
    <3>2. /\ inode'[p].nShared = inode[p].nShared /\ inode'[p].nLock = inode[p].nLock
          /\ inode'[p].nUnused = inode[p].nUnused
      BY <1>l, <2>2, <3>1 DEF Holds
    <3> QED BY <1>4, <1>k, <2>1, <3>1, <3>2 DEF Exclude
  <2>3. CASE ~Holds(c, EXCLUSIVE_LOCK)
    BY <1>4, <1>k, <2>3 DEF Exclude
  <2> QED BY <2>2, <2>3
<1>5. CASE UnlockBytes(c)
  <2>1. SHARED_LOCK \in NO_LOCK..EXCLUSIVE_LOCK BY <1>n
  <2>2. inode' = [inode EXCEPT ![p] = WithLock(@, SHARED_LOCK)] /\ UNCHANGED <<isOpen, eFileLock>>
    BY <1>5 DEF UnlockBytes
  <2> QED BY <1>k, <1>l, <2>1, <2>2
<1>6. CASE Unlock(c)
  <2>1. eFileLock[c] # NO_LOCK
    BY <1>n, <1>6, GoingOn DEF Unlock, InCall, Steps
  <2>2. eFileLock'[c] = NO_LOCK /\ UNCHANGED isOpen
    BY <1>6 DEF Unlock, Types
  <2>3. /\ inode'[p].nShared = inode[p].nShared - 1 /\ inode'[p].nLock = inode[p].nLock - 1
        /\ inode'[p].nUnused = IF inode[p].nLock = 1 THEN 0 ELSE inode[p].nUnused
    BY <1>0, <1>6 DEF Unlock, Inode
  <2>4. Lockers(p)' = Lockers(p) \ {c} /\ c \in Lockers(p) /\ Opened(p)' = Opened(p)
    BY <1>e, <2>1, <2>2 DEF Lockers, Opened
  <2>5. Cardinality(Lockers(p)') = Cardinality(Lockers(p)) - 1
    BY <1>f, <2>4, FS_RemoveElement
  <2> QED BY <1>0, <1>f, <2>3, <2>4, <2>5 DEF Counted
<1>7. CASE Open(c)
  <2>1. Lockers(p)' = Lockers(p) /\ Opened(p)' = Opened(p) \cup {c} /\ c \notin Opened(p)
    BY <1>7 DEF Open, Lockers, Opened
  <2>2. /\ inode'[p].nShared = inode[p].nShared /\ inode'[p].nLock = inode[p].nLock
        /\ inode'[p].nUnused = IF inode[p].nUnused = 0 THEN 0 ELSE inode[p].nUnused - 1
    BY <1>0, <1>7 DEF Open, WithUnused, Inode
  <2>3. Cardinality(Opened(p)') = Cardinality(Opened(p)) + 1
    BY <1>f, <2>1, FS_AddElement
  <2> QED BY <1>0, <1>f, <2>1, <2>2, <2>3 DEF Counted
<1>8. CASE Close(c)
  <2>0. c \in isOpen BY <1>8, Enters DEF Close
  <2>1. Lockers(p)' = Lockers(p) /\ Opened(p)' = Opened(p) \ {c} /\ c \in Opened(p)
    BY <1>8, <2>0 DEF Close, Lockers, Opened
  <2>2. Cardinality(Opened(p)') = Cardinality(Opened(p)) - 1
    BY <1>f, <2>1, FS_RemoveElement
  <2>3. CASE HasLocks(p)
    <3>1. /\ inode'[p].nShared = inode[p].nShared /\ inode'[p].nLock = inode[p].nLock
          /\ inode'[p].nUnused = inode[p].nUnused + 1
      BY <1>0, <1>8, <2>3 DEF Close, WithUnused, Inode
    <3> QED BY <1>0, <1>f, <2>1, <2>2, <2>3, <3>1 DEF Counted, HasLocks
  <2>4. CASE ~HasLocks(p)
    BY <1>0, <1>f, <1>8, <2>1, <2>2, <2>4 DEF Close, Counted
  <2> QED BY <2>3, <2>4
<1>9. CASE SharePending(c) \/ ShareRange(c) \/ Downgrade(c) \/ CloseFd(c)
  BY <1>9, <1>k DEF SharePending, ShareRange, Downgrade, CloseFd
<1> QED BY <1>1, <1>2, <1>3, <1>4, <1>5, <1>6, <1>7, <1>8, <1>9 DEF ConnStep, Sharing, Writing, Releasing
(***************************************************************************)
(* The process of the step                                                 *)
(***************************************************************************)
\* What nShared says of the connections of a process.
LEMMA Readers ==
    ASSUME Assumed, Types, NEW p, Counted(p)
    PROVE  /\ inode[p].nShared = 0 => \A d \in Conn : pid[d] = p => eFileLock[d] = NO_LOCK
           /\ \A c \in Conn : pid[c] = p /\ eFileLock[c] # NO_LOCK =>
                 /\ inode[p].nShared = 1 => \A d \in Conn : pid[d] = p /\ d # c => eFileLock[d] = NO_LOCK
                 /\ inode[p].nShared # 1 => \E d \in Conn : pid[d] = p /\ d # c /\ eFileLock[d] # NO_LOCK
<1>1. IsFiniteSet(Lockers(p)) /\ inode[p].nShared = Cardinality(Lockers(p))
  BY FiniteParts DEF Assumed, Counted
<1>2. ASSUME inode[p].nShared = 0 PROVE \A d \in Conn : pid[d] = p => eFileLock[d] = NO_LOCK
  <2>1. Lockers(p) = {} BY <1>1, <1>2, FS_EmptySet
  <2> QED BY <2>1 DEF Lockers
<1>3. ASSUME NEW c \in Conn, pid[c] = p, eFileLock[c] # NO_LOCK, inode[p].nShared = 1
      PROVE  \A d \in Conn : pid[d] = p /\ d # c => eFileLock[d] = NO_LOCK
  <2>1. Cardinality(Lockers(p)) = 1 BY <1>1, <1>3
  <2>2. PICK x : Lockers(p) = {x} BY <1>1, <2>1, FS_Singleton
  <2>3. c \in Lockers(p) BY <1>3 DEF Lockers
  <2>4. Lockers(p) = {c} BY <2>2, <2>3
  <2> QED BY <2>4 DEF Lockers
<1>4. ASSUME NEW c \in Conn, pid[c] = p, eFileLock[c] # NO_LOCK, inode[p].nShared # 1
      PROVE  \E d \in Conn : pid[d] = p /\ d # c /\ eFileLock[d] # NO_LOCK
  <2>1. c \in Lockers(p) BY <1>4 DEF Lockers
  <2>2. Lockers(p) # {c}
    <3>1. SUFFICES ASSUME Lockers(p) = {c} PROVE FALSE OBVIOUS
    <3>2. Cardinality({c}) = 1 BY FS_Singleton
    <3> QED BY <1>1, <1>4, <3>1, <3>2
  <2>3. PICK d : d \in Lockers(p) /\ d # c BY <2>1, <2>2
  <2> QED BY <2>3 DEF Lockers
<1> QED BY <1>2, <1>3, <1>4

\* Which steps drop locks, and which end that.
LEMMA DropStep ==
    ASSUME Assumed, Types, NEW c \in Conn, Counted(pid[c]), ProcOk(pid[c]), ConnStep(c)
    PROVE  /\ CloseFd(c) \/ (Dropped(pid[c])' => Dropped(pid[c]))
           /\ Dropped(pid[c]) => \/ Dropped(pid[c])'
                                 \/ ShareEnd(c) /\ ~IsAt(c, "shared")
                                 \/ Unlock(c) /\ inode[pid[c]].nLock = 1
<1> DEFINE p == pid[c]
<1>0. p \in Proc /\ inode[p].nLock \in Nat
  BY ProcOf, FiniteParts DEF Assumed, Counted
<1>1. CASE SharePending(c) BY <1>1 DEF SharePending, Dropped
<1>2. CASE ShareEnd(c) BY <1>2 DEF ShareEnd, Dropped
<1>3. CASE Unlock(c) BY <1>3 DEF Unlock, Dropped
<1>4. CASE Close(c)
  <2>1. CASE HasLocks(p) BY <1>4, <2>1 DEF Close, Dropped
  <2>2. CASE ~HasLocks(p)
    <3>1. call[p] = None /\ ~(inode[p].nLock > 0) BY <1>4, <2>2 DEF Close, CanEnter, HasLocks
    <3>2. p \notin overtaken BY <3>1 DEF ProcOk, CloseOk
    <3> QED BY <1>4, <3>2 DEF Close, Dropped
  <2> QED BY <2>1, <2>2
<1>5. CASE CloseFd(c)
  BY <1>5 DEF CloseFd, Dropped, Assumed, UnixLockConstants
<1>6. CASE UNCHANGED <<closing, overtaken>> BY <1>6 DEF Dropped
<1> QED BY <1>1, <1>2, <1>3, <1>4, <1>5, <1>6 DEF ConnStep, Sharing, Writing, Releasing, ShareAgain,
      ShareRange, Reserve, ExcludePending, Exclude, Downgrade, DowngradeEnd, UnlockBytes, Open

\* What a step means for the process, between calls and within them.
LEMMA CallStep ==
    ASSUME Assumed, Types, OneWriter, NEW c \in Conn, Counted(pid[c]), ProcOk(pid[c]), ConnStep(c)
    PROVE  CallOk(pid[c])'
<1> DEFINE p == pid[c]
           l == inode[p].eFileLock
<1>n. NO_LOCK = 0 /\ SHARED_LOCK = 1 /\ RESERVED_LOCK = 2 /\ PENDING_LOCK = 3 /\ EXCLUSIVE_LOCK = 4
  BY DEF NO_LOCK, SHARED_LOCK, RESERVED_LOCK, PENDING_LOCK, EXCLUSIVE_LOCK
<1>s. Steps = {"share", "shared", "busy", "exclude", "unlockBytes", "unlock"}
  BY DEF Steps
<1>0. /\ UnixLockConstants /\ p \in Proc /\ Types' /\ inode[p] \in Inodes /\ inode \in [Proc -> Inodes]
      /\ inode[p].nShared \in Int /\ inode[p].nLock \in Int /\ inode[p].nUnused \in Int /\ l \in 0..4
  BY <1>n, ProcOf, TypesStep, Members DEF Assumed, Types
<1>e. /\ \A d \in Conn : d # c => eFileLock'[d] = eFileLock[d]
      /\ \A d \in Conn : eFileLock[d] \in 0..4 /\ eFileLock'[d] \in 0..4
  BY <1>0, <1>n, Untouched DEF Types
<1>w. \A d \in Conn : d # c /\ pid[d] = p => /\ eFileLock[c] > 1 => eFileLock[d] <= 1
                                             /\ eFileLock[c] = 4 => eFileLock[d] = 0
                                             /\ eFileLock[d] > 1 => eFileLock[c] <= 1
  BY <1>e, <1>n DEF OneWriter
<1>f. \A b \in Bytes : flock[p][b] \in {"UNLCK", "RDLCK", "WRLCK"} /\ flock'[p][b] \in {"UNLCK", "RDLCK", "WRLCK"}
  BY <1>0 DEF Types, FLocks
<1>b. Bytes = {"PENDING", "RESERVED", "SHARED"}
  BY DEF Bytes
<1>l. ASSUME NEW k \in 0..4, inode' = [inode EXCEPT ![p] = WithLock(@, k)] PROVE inode'[p].eFileLock = k
  BY <1>0, <1>l DEF WithLock, Inode
<1>i. ASSUME Idle(p)', call'[p] = None PROVE CallOk(p)'
  BY <1>i DEF CallOk
<1>c. ASSUME NEW at \in Steps, GoesOn(c, at), InCall(p, c, at)' PROVE CallOk(p)'
  <2>1. call'[p] # None /\ call'[p].conn = c /\ call'[p].at = at
    <3>1. call'[p] = [conn |-> c, at |-> at] /\ call'[p] # None
      BY <1>0, <1>c, CallSet
    <3> QED BY <3>1
  <2> QED BY <1>c, <2>1 DEF CallOk
<1>r. Returns(p) => call'[p] = None
  BY <1>0, CallSet
<1>m. ASSUME Idle(p), eFileLock[c] > 1 PROVE eFileLock[c] = l
  BY <1>0, <1>e, <1>m, <1>n, <1>w DEF Idle, Strongest
<1>1. CASE ShareAgain(c)
  <2>d. Dropped(p)' <=> Dropped(p) BY <1>1 DEF ShareAgain, Dropped
  <2>1. Idle(p) /\ call[p] = None
    BY <1>1, Enters DEF ShareAgain
  <2>2. inode'[p].eFileLock = l /\ l \in {1, 2} /\ eFileLock[c] = 0 /\ eFileLock'[c] = 1 /\ flock' = flock
    BY <1>0, <1>1, <1>n DEF ShareAgain, Inode, Types
  <2>3. Strongest(p, l)' BY <1>0, <1>e, <1>n, <2>1, <2>2 DEF Idle, Strongest
  <2>4. ~Dropped(p) => BytesFor(p, l)' BY <2>1, <2>2 DEF Idle, BytesFor
  <2> QED BY <1>1, <1>i, <2>d, <2>1, <2>2, <2>3, <2>4 DEF ShareAgain, Idle
<1>2. CASE SharePending(c)
  <2>1. Idle(p) /\ call[p] = None /\ l = 0
    BY <1>2, <1>n, Enters DEF SharePending
  <2>2. /\ flock'[p]["PENDING"] = "RDLCK" /\ flock'[p]["RESERVED"] = flock[p]["RESERVED"]
        /\ flock'[p]["SHARED"] = flock[p]["SHARED"]
    BY <1>0, <1>2, <1>b, ByteSet DEF SharePending
  <2>d. ~Dropped(p)
    <3>1. \A d \in Conn : pid[d] = p => eFileLock[d] = NO_LOCK
      BY <1>e, <1>n, <2>1 DEF Idle, Strongest
    <3>2. Lockers(p) = {} BY <3>1 DEF Lockers
    <3>3. inode[p].nLock = 0 BY <3>2, FS_EmptySet DEF Counted
    <3> QED BY <2>1, <3>3 DEF ProcOk, CloseOk, Dropped
  <2>3. InCall(p, c, "share")'
    BY <1>2, <1>b, <1>f, <1>n, <2>d, <2>1, <2>2 DEF SharePending, InCall, Idle, Strongest, BytesFor, ShareSteps
  <2> QED BY <1>2, <1>c, <1>s, <2>1, <2>3 DEF SharePending
<1>3. CASE ShareRange(c)
  <2>d. Dropped(p)' <=> Dropped(p) BY <1>3 DEF ShareRange, Dropped
  <2>1. InCall(p, c, "share")
    BY <1>3, <1>s, GoingOn DEF ShareRange
  <2>2. CASE Granted(p, "SHARED", "RDLCK")
    <3>1. /\ flock'[p]["PENDING"] = flock[p]["PENDING"] /\ flock'[p]["RESERVED"] = flock[p]["RESERVED"]
          /\ flock'[p]["SHARED"] = "RDLCK"
      BY <1>0, <1>3, <1>b, <2>2, ByteSet DEF ShareRange
    <3>2. InCall(p, c, "shared")'
      BY <1>3, <2>d, <2>1, <3>1 DEF ShareRange, InCall, Strongest, ShareSteps
    <3> QED BY <1>3, <1>c, <1>s, <2>1, <2>2, <3>2 DEF ShareRange
  <2>3. CASE ~Granted(p, "SHARED", "RDLCK")
    <3>1. InCall(p, c, "busy")'
      BY <1>3, <2>d, <2>1, <2>3 DEF ShareRange, InCall, Strongest, ShareSteps
    <3> QED BY <1>3, <1>c, <1>s, <2>1, <2>3, <3>1 DEF ShareRange
  <2> QED BY <2>2, <2>3
<1>4. CASE ShareEnd(c)
  <2>0. /\ flock'[p]["PENDING"] = "UNLCK" /\ flock'[p]["RESERVED"] = flock[p]["RESERVED"]
        /\ flock'[p]["SHARED"] = flock[p]["SHARED"]
    BY <1>0, <1>4, <1>b, ByteSet DEF ShareEnd
  <2>1. CASE IsAt(c, "shared")
    <3>1. InCall(p, c, "shared")
      BY <1>s, <2>1, GoingOn
    <3>2. inode'[p].eFileLock = 1 /\ eFileLock'[c] = 1
      BY <1>0, <1>4, <1>n, <2>1 DEF ShareEnd, Inode, Types
    <3>d. Dropped(p)' <=> Dropped(p) BY <1>4, <2>1 DEF ShareEnd, Dropped
    <3>3. Strongest(p, 1)' BY <1>0, <1>e, <1>n, <3>1, <3>2 DEF InCall, Strongest, ShareSteps
    <3>4. ~Dropped(p) => BytesFor(p, 1)' BY <1>n, <2>0, <3>1 DEF InCall, BytesFor, ShareSteps
    <3> QED BY <1>4, <1>i, <1>r, <3>d, <3>1, <3>2, <3>3, <3>4 DEF ShareEnd, Idle
  <2>2. CASE ~IsAt(c, "shared")
    <3>0. IsAt(c, "busy") BY <1>4, <2>2 DEF ShareEnd
    <3>1. InCall(p, c, "busy")
      BY <1>s, <3>0, GoingOn
    <3>2. UNCHANGED <<eFileLock, inode>>
      BY <1>4, <2>2 DEF ShareEnd
    <3>3. Idle(p)' BY <1>n, <2>0, <3>1, <3>2 DEF InCall, Strongest, Idle, BytesFor, ShareSteps
    <3> QED BY <1>4, <1>i, <1>r, <3>1, <3>2, <3>3 DEF ShareEnd
  <2> QED BY <2>1, <2>2
<1>5. CASE Reserve(c)
  <2>d. Dropped(p)' <=> Dropped(p) BY <1>5 DEF Reserve, Dropped
  <2>1. Idle(p) /\ call[p] = None /\ eFileLock[c] = l /\ l = 1
    BY <1>5, <1>n, Enters DEF Reserve, IsStrongest
  <2>2. /\ flock'[p]["PENDING"] = flock[p]["PENDING"] /\ flock'[p]["RESERVED"] = "WRLCK"
        /\ flock'[p]["SHARED"] = flock[p]["SHARED"]
    BY <1>0, <1>5, <1>b, ByteSet DEF Reserve
  <2>3. inode'[p].eFileLock = 2 /\ eFileLock'[c] = 2 /\ UNCHANGED call
    BY <1>5, <1>l, <1>n DEF Reserve, Holds, Types
  <2>4. Strongest(p, 2)' BY <1>0, <1>e, <1>n, <2>1, <2>3 DEF Idle, Strongest
  <2>5. ~Dropped(p) => BytesFor(p, 2)' BY <1>b, <1>f, <1>n, <2>1, <2>2 DEF Idle, BytesFor
  <2> QED BY <1>i, <2>d, <2>1, <2>3, <2>4, <2>5 DEF Idle
<1>6. CASE ExcludePending(c)
  <2>d. Dropped(p)' <=> Dropped(p) BY <1>6 DEF ExcludePending, Dropped
  <2>1. Idle(p) /\ call[p] = None /\ eFileLock[c] = l /\ l = 2
    BY <1>6, <1>n, Enters DEF ExcludePending, IsStrongest
  <2>2. /\ flock'[p]["PENDING"] = "WRLCK" /\ flock'[p]["RESERVED"] = flock[p]["RESERVED"]
        /\ flock'[p]["SHARED"] = flock[p]["SHARED"]
    BY <1>0, <1>6, <1>b, ByteSet DEF ExcludePending
  <2>3. inode'[p].eFileLock = 3 /\ eFileLock'[c] = 3
    BY <1>6, <1>l, <1>n DEF ExcludePending, Holds, Types
  <2>4. Strongest(p, 3)' BY <1>0, <1>e, <1>n, <2>1, <2>3 DEF Idle, Strongest
  <2>5. ~Dropped(p) => BytesFor(p, 3)' BY <1>b, <1>f, <1>n, <2>1, <2>2 DEF Idle, BytesFor
  <2>6. InCall(p, c, "exclude")' BY <1>n, <2>d, <2>3, <2>4, <2>5 DEF InCall, Idle, ShareSteps
  <2> QED BY <1>6, <1>c, <1>s, <2>1, <2>3, <2>6 DEF ExcludePending
<1>7. CASE Exclude(c)
  <2>d. Dropped(p)' <=> Dropped(p) BY <1>7 DEF Exclude, Dropped
  <2>1. Idle(p) /\ eFileLock[c] = l
    BY <1>7, <1>s, Enters, GoingOn DEF Exclude, IsStrongest, InCall
  <2>2. CASE Holds(c, EXCLUSIVE_LOCK) /\ SetLock(p, "SHARED", "WRLCK")
    <3>1. /\ flock'[p]["PENDING"] = flock[p]["PENDING"] /\ flock'[p]["RESERVED"] = flock[p]["RESERVED"]
          /\ flock'[p]["SHARED"] = "WRLCK"
      BY <1>0, <1>b, <2>2, ByteSet
    <3>2. inode'[p].eFileLock = 4 /\ eFileLock'[c] = 4
      BY <1>l, <1>n, <2>2 DEF Holds, Types
    <3>3. Strongest(p, 4)' BY <1>0, <1>e, <1>n, <3>2 DEF Strongest
    <3>4. ~Dropped(p) => BytesFor(p, 4)' BY <1>b, <1>f, <1>n, <2>1, <3>1 DEF Idle, BytesFor
    <3> QED BY <1>7, <1>i, <1>r, <2>d, <2>1, <3>2, <3>3, <3>4 DEF Exclude, Idle
  <2>3. CASE UNCHANGED <<flock, eFileLock, inode>>
    <3>1. Idle(p)' BY <2>d, <2>1, <2>3 DEF Idle, Strongest, BytesFor
    <3> QED BY <1>7, <1>i, <1>r, <2>1, <3>1 DEF Exclude
  <2> QED BY <1>7, <2>2, <2>3 DEF Exclude
<1>8. CASE Downgrade(c)
  <2>d. Dropped(p)' <=> Dropped(p) BY <1>8 DEF Downgrade, Dropped
  <2>1. Idle(p) /\ eFileLock[c] > 1
    BY <1>8, <1>n, Enters DEF Downgrade
  <2>2. flock'[p]["SHARED"] = "RDLCK"
    BY <1>0, <1>8, <1>b, ByteSet DEF Downgrade
  <2>3. InCall(p, c, "unlockBytes")'
    BY <1>8, <1>m, <1>n, <2>1, <2>2 DEF Downgrade, InCall, Idle, Strongest, ShareSteps
  <2> QED BY <1>8, <1>c, <1>s, <2>1, <2>3 DEF Downgrade
<1>9. CASE DowngradeEnd(c)
  <2>d. Dropped(p)' <=> Dropped(p) BY <1>9 DEF DowngradeEnd, Dropped
  <2>1. InCall(p, c, "unlockBytes")
    BY <1>9, <1>s, GoingOn DEF DowngradeEnd
  <2>2. /\ flock'[p]["PENDING"] = "UNLCK" /\ flock'[p]["RESERVED"] = "UNLCK"
        /\ flock'[p]["SHARED"] = flock[p]["SHARED"]
    BY <1>0, <1>9, BytesFreed DEF DowngradeEnd
  <2>3. inode'[p].eFileLock = 1 /\ eFileLock'[c] = 1 /\ eFileLock[c] > 1
    BY <1>9, <1>l, <1>n, <2>1 DEF DowngradeEnd, Holds, Types, InCall
  <2>4. Strongest(p, 1)' BY <1>0, <1>e, <1>n, <1>w, <2>3 DEF Strongest
  <2>5. ~Dropped(p) => BytesFor(p, 1)' BY <1>n, <2>1, <2>2 DEF InCall, BytesFor
  <2> QED BY <1>9, <1>i, <1>r, <2>d, <2>1, <2>3, <2>4, <2>5 DEF DowngradeEnd, Idle
<1>10. CASE UnlockBytes(c)
  <2>d. Dropped(p)' <=> Dropped(p) BY <1>10 DEF UnlockBytes, Dropped
  <2>1. Idle(p) /\ eFileLock[c] > 1 /\ eFileLock[c] = l
    BY <1>10, <1>m, <1>n, Enters DEF UnlockBytes
  <2>2. /\ flock'[p]["PENDING"] = "UNLCK" /\ flock'[p]["RESERVED"] = "UNLCK"
        /\ flock'[p]["SHARED"] = flock[p]["SHARED"]
    BY <1>0, <1>10, BytesFreed DEF UnlockBytes
  <2>3. inode'[p].eFileLock = 1 /\ eFileLock' = eFileLock
    BY <1>10, <1>l, <1>n DEF UnlockBytes
  <2>4. InCall(p, c, "unlock")'
    BY <1>0, <1>n, <2>d, <2>1, <2>2, <2>3 DEF InCall, Idle, BytesFor, ShareSteps
  <2> QED BY <1>10, <1>c, <1>s, <2>1, <2>3, <2>4 DEF UnlockBytes
<1>11. CASE Unlock(c)
  <2>1. /\ eFileLock[c] # 0
        /\ (Idle(p) /\ eFileLock[c] = 1) \/ InCall(p, c, "unlock")
    BY <1>11, <1>n, <1>s, Enters, GoingOn DEF Unlock, InCall
  <2>2. /\ inode'[p].eFileLock = IF inode[p].nShared = 1 THEN 0 ELSE l
        /\ inode[p].nLock = inode[p].nShared /\ eFileLock'[c] = 0
        /\ flock'[p] = IF inode[p].nShared = 1 THEN Unlocked ELSE flock[p]
    BY <1>0, <1>11, <1>n DEF Unlock, Inode, Counted, Types
  <2>3. CASE inode[p].nShared = 1
    <3>1. \A d \in Conn : pid[d] = p => eFileLock'[d] = 0
      BY <1>e, <1>n, <2>1, <2>2, <2>3, Readers
    <3>2. Idle(p)'
      BY <1>n, <1>b, <2>2, <2>3, <3>1 DEF Idle, Strongest, BytesFor, Unlocked
    <3> QED BY <1>11, <1>i, <1>r, <2>1, <3>2 DEF Unlock
  <2>4. CASE inode[p].nShared # 1
    <3>1. PICK d \in Conn : pid[d] = p /\ d # c /\ eFileLock[d] # 0
      BY <1>n, <2>1, <2>4, Readers
    <3>d. Dropped(p)' <=> Dropped(p) BY <1>11, <2>2, <2>4 DEF Unlock, Dropped
    <3>2. CASE Idle(p) /\ eFileLock[c] = 1
      <4>1. Strongest(p, l)'
        BY <1>0, <1>e, <1>n, <2>2, <2>4, <3>1, <3>2 DEF Idle, Strongest
      <4>2. ~Dropped(p) => BytesFor(p, l)'
        BY <2>2, <2>4, <3>2 DEF Idle, BytesFor
      <4> QED BY <1>11, <1>i, <1>r, <3>d, <2>1, <2>2, <2>4, <4>1, <4>2 DEF Unlock, Idle
    <3>3. CASE InCall(p, c, "unlock")
      <4>1. l = 1 /\ eFileLock[c] > 1 /\ eFileLock[c] # 4 /\ eFileLock[d] = 1
        BY <1>e, <1>n, <1>w, <3>1, <3>3 DEF InCall
      <4>2. Strongest(p, 1)'
        BY <1>0, <1>e, <1>n, <1>w, <2>2, <3>1, <4>1 DEF Strongest
      <4>3. ~Dropped(p) => BytesFor(p, 1)'
        BY <1>n, <2>2, <2>4, <3>3, <4>1 DEF InCall, BytesFor
      <4> QED BY <1>11, <1>i, <1>r, <3>d, <2>1, <2>2, <2>4, <4>1, <4>2, <4>3 DEF Unlock, Idle
    <3> QED BY <2>1, <3>2, <3>3
  <2> QED BY <2>3, <2>4
<1>12. CASE Open(c)
  <2>d. Dropped(p)' <=> Dropped(p) BY <1>12 DEF Open, Dropped
  <2>1. Idle(p) /\ call[p] = None
    BY <1>12 DEF Open, ProcOk, CallOk
  <2>2. inode'[p].eFileLock = l /\ UNCHANGED <<eFileLock, flock, call>>
    BY <1>0, <1>12 DEF Open, WithUnused, Inode
  <2>3. Idle(p)' BY <2>d, <2>1, <2>2 DEF Idle, Strongest, BytesFor
  <2> QED BY <1>i, <2>1, <2>2, <2>3
<1>13. CASE Close(c)
  <2>1. Idle(p) /\ call[p] = None
    BY <1>13, Enters DEF Close
  <2>2. inode'[p].eFileLock = l /\ UNCHANGED <<eFileLock, flock, call>>
    BY <1>0, <1>13 DEF Close, WithUnused, Inode
  <2>d. Dropped(p) => Dropped(p)'
    <3>1. ~ShareEnd(c) /\ ~Unlock(c)
      BY <1>0, <1>13, <1>n, <2>1, IsWithin DEF Close, ShareEnd, Unlock, Steps
    <3> QED BY <3>1, DropStep
  <2>3. Idle(p)' BY <2>d, <2>1, <2>2 DEF Idle, Strongest, BytesFor
  <2> QED BY <1>i, <2>1, <2>2, <2>3
<1>14. CASE CloseFd(c)
  <2>1. /\ flock'[p] = Unlocked /\ closing'[p] = None /\ closing[p] = c /\ c # None
        /\ UNCHANGED <<eFileLock, inode, call, overtaken>>
    BY <1>0, <1>14 DEF CloseFd, Types, UnixLockConstants
  <2>2. CASE p \in overtaken
    <3>1. Dropped(p)' BY <2>1, <2>2 DEF Dropped
    <3>2. \A k : Strongest(p, k) => Strongest(p, k)' BY <2>1 DEF Strongest
    <3>3. CASE call[p] = None
      <4>1. Idle(p)' BY <2>1, <3>1, <3>2, <3>3 DEF ProcOk, CallOk, Idle
      <4> QED BY <1>i, <2>1, <3>3, <4>1
    <3>4. CASE call[p] # None
      <4>1. InCall(p, call[p].conn, call[p].at) BY <3>4 DEF ProcOk, CallOk
      <4>2. flock'[p]["RESERVED"] = "UNLCK" /\ flock'[p]["SHARED"] = "UNLCK"
        BY <2>1, <1>b DEF Unlocked
      <4>3. InCall(p, call[p].conn, call[p].at)'
        BY <2>1, <3>1, <3>2, <4>1, <4>2 DEF InCall, Idle
      <4> QED BY <2>1, <3>4, <4>3 DEF CallOk
    <3> QED BY <3>3, <3>4
  <2>3. CASE p \notin overtaken
    <3>1. Idle(p) /\ call[p] = None /\ inode[p].nShared = 0
      BY <2>1, <2>3 DEF ProcOk, CallOk, CloseOk, Counted
    <3>2. \A d \in Conn : pid[d] = p => eFileLock[d] = 0
      BY <1>n, <3>1, Readers
    <3>3. l = 0 BY <1>n, <3>1, <3>2 DEF Idle, Strongest
    <3>4. Idle(p)' BY <1>b, <1>n, <2>1, <3>2, <3>3 DEF Idle, Strongest, BytesFor, Unlocked
    <3> QED BY <1>i, <2>1, <3>1, <3>4
  <2> QED BY <2>2, <2>3
<1> QED BY <1>1, <1>2, <1>3, <1>4, <1>5, <1>6, <1>7, <1>8, <1>9, <1>10, <1>11, <1>12, <1>13, <1>14
      DEF ConnStep, Sharing, Writing, Releasing

\* unixClose between its test and its close, and the threads that overtake it.
LEMMA CloseStep ==
    ASSUME Assumed, Types, NEW c \in Conn, Counted(pid[c]), ProcOk(pid[c]), ConnStep(c)
    PROVE  CloseOk(pid[c])'
<1> DEFINE p == pid[c]
<1>n. NO_LOCK = 0 /\ SHARED_LOCK = 1 /\ RESERVED_LOCK = 2 /\ PENDING_LOCK = 3 /\ EXCLUSIVE_LOCK = 4
  BY DEF NO_LOCK, SHARED_LOCK, RESERVED_LOCK, PENDING_LOCK, EXCLUSIVE_LOCK
<1>0. /\ UnixLockConstants /\ p \in Proc /\ inode[p] \in Inodes /\ inode \in [Proc -> Inodes] /\ c # None
      /\ inode[p].nLock \in Nat /\ inode[p].eFileLock \in 0..4 /\ \A d \in Conn : eFileLock[d] \in 0..4
  BY <1>n, ProcOf, Members, FiniteParts DEF Assumed, UnixLockConstants, Types, Counted
<1>q. ASSUME closing[p] # None, p \notin overtaken, ~SharePending(c), ~CloseFd(c) PROVE FALSE
  <2>1. call[p] = None /\ inode[p].nShared = 0 /\ Idle(p)
    BY <1>q DEF ProcOk, CloseOk, CallOk, Counted
  <2>2. \A d \in Conn : pid[d] = p => eFileLock[d] = 0
    BY <1>n, <2>1, Readers
  <2>3. inode[p].eFileLock = 0 BY <1>n, <2>1, <2>2 DEF Idle, Strongest
  <2>4. \A at \in Steps : ~IsAt(c, at) BY <1>0, <2>1, IsWithin
  <2> QED BY <1>n, <1>q, <2>1, <2>2, <2>3, <2>4 DEF ConnStep, Sharing, Writing, Releasing, ShareAgain, ShareRange,
        ShareEnd, Reserve, ExcludePending, Exclude, Downgrade, DowngradeEnd, UnlockBytes, Unlock, Open, Close, Steps
<1>h. ASSUME p \in overtaken, call[p] = None \/ call[p].at \notin ShareSteps PROVE inode[p].nLock > 0
  BY <1>h DEF ProcOk, CloseOk
<1>w. ASSUME UNCHANGED <<closing, overtaken>>, inode'[p].nLock = inode[p].nLock,
             p \in overtaken => call[p] = None \/ call[p].at \notin ShareSteps,
             ~SharePending(c), ~CloseFd(c)
      PROVE  CloseOk(p)'
  BY <1>h, <1>q, <1>w DEF ProcOk, CloseOk
<1>l. ASSUME NEW k \in 0..4, inode' = [inode EXCEPT ![p] = WithLock(@, k)] PROVE inode'[p].nLock = inode[p].nLock
  BY <1>0, <1>l DEF WithLock, Inode
<1>g. ASSUME NEW at \in Steps, GoesOn(c, at) PROVE call'[p] # None /\ call'[p].at = at
  <2>1. call'[p] = [conn |-> c, at |-> at] /\ call'[p] # None BY <1>0, <1>g, CallSet
  <2> QED BY <2>1
<1>s. Steps = {"share", "shared", "busy", "exclude", "unlockBytes", "unlock"} /\ ShareSteps = {"share", "shared", "busy"}
  BY DEF Steps, ShareSteps
<1>1. CASE ShareAgain(c)
  <2>1. inode'[p].nLock > 0 BY <1>0, <1>1 DEF ShareAgain, Inode
  <2>2. UNCHANGED <<closing, overtaken>> BY <1>1 DEF ShareAgain
  <2>3. ~SharePending(c) /\ ~CloseFd(c)
    BY <1>0, <1>1, <1>n, <2>2 DEF ShareAgain, SharePending, CloseFd, Types
  <2> QED BY <1>q, <2>1, <2>2, <2>3 DEF ProcOk, CloseOk
<1>2. CASE SharePending(c)
  <2>1. call'[p] # None /\ call'[p].at = "share" BY <1>2, <1>g, <1>s DEF SharePending
  <2>2. closing' = closing /\ (closing[p] # None => p \in overtaken') BY <1>2 DEF SharePending
  <2> QED BY <1>s, <2>1, <2>2 DEF ProcOk, CloseOk
<1>3. CASE ShareRange(c)
  <2>1. call'[p] # None /\ call'[p].at \in ShareSteps BY <1>3, <1>g, <1>s DEF ShareRange
  <2>2. UNCHANGED <<closing, overtaken>> /\ call[p] # None
    BY <1>0, <1>3, <1>s, IsWithin DEF ShareRange
  <2> QED BY <2>1, <2>2 DEF ProcOk, CloseOk
<1>4. CASE ShareEnd(c)
  <2>0. call[p] # None /\ closing' = closing /\ call'[p] = None
    BY <1>0, <1>4, <1>s, IsWithin, CallSet DEF ShareEnd
  <2>1. CASE IsAt(c, "shared")
    <3>1. inode'[p].nLock > 0 /\ overtaken' = overtaken BY <1>0, <1>4, <2>1 DEF ShareEnd, Inode
    <3> QED BY <2>0, <3>1 DEF ProcOk, CloseOk
  <2>2. CASE ~IsAt(c, "shared")
    <3>1. p \notin overtaken' /\ inode' = inode BY <1>4, <2>2 DEF ShareEnd
    <3>2. InCall(p, c, "busy") BY <1>4, <1>s, <2>2, GoingOn DEF ShareEnd
    <3>3. \A d \in Conn : pid[d] = p => eFileLock[d] = NO_LOCK
      BY <1>0, <1>n, <1>s, <3>2 DEF InCall, Strongest
    <3>4. Lockers(p) = {} BY <3>3 DEF Lockers
    <3>5. inode[p].nLock = 0 BY <3>4, FS_EmptySet DEF Counted
    <3> QED BY <2>0, <3>1, <3>5 DEF ProcOk, CloseOk
  <2> QED BY <2>1, <2>2
<1>5. CASE Reserve(c) \/ ExcludePending(c) \/ Exclude(c) \/ Downgrade(c) \/ DowngradeEnd(c) \/ UnlockBytes(c)
  <2>1. UNCHANGED <<closing, overtaken>>
    BY <1>5 DEF Reserve, ExcludePending, Exclude, Downgrade, DowngradeEnd, UnlockBytes
  <2>2. inode'[p].nLock = inode[p].nLock
    <3>1. inode' = inode \/ \E k \in 0..4 : inode' = [inode EXCEPT ![p] = WithLock(@, k)]
      BY <1>5, <1>n DEF Reserve, ExcludePending, Exclude, Downgrade, DowngradeEnd, UnlockBytes, Holds
    <3> QED BY <1>l, <3>1
  <2>3. call[p] = None \/ call[p].at \notin ShareSteps
    BY <1>0, <1>5, <1>s, IsWithin DEF Reserve, ExcludePending, Exclude, Downgrade, DowngradeEnd, UnlockBytes, CanEnter
  <2>4. eFileLock[c] # 0
    BY <1>n, <1>5, <1>s, GoingOn DEF Reserve, ExcludePending, Exclude, Downgrade, DowngradeEnd, UnlockBytes, InCall
  <2>5. ~SharePending(c) /\ ~CloseFd(c)
    BY <1>0, <1>n, <2>1, <2>4 DEF SharePending, CloseFd, Types
  <2> QED BY <1>w, <2>1, <2>2, <2>3, <2>5
<1>6. CASE Unlock(c)
  <2>1. closing' = closing /\ inode'[p].nLock = inode[p].nLock - 1
    BY <1>0, <1>6 DEF Unlock, Inode
  <2>2. p \in overtaken' => p \in overtaken /\ inode[p].nLock # 1 BY <1>6 DEF Unlock
  <2>3. call[p] = None \/ call[p].at \notin ShareSteps
    BY <1>0, <1>6, <1>s, IsWithin DEF Unlock, CanEnter
  <2>4. eFileLock[c] # 0 BY <1>n, <1>6, <1>s, GoingOn DEF Unlock, InCall
  <2>5. ~SharePending(c) /\ ~CloseFd(c)
    BY <1>0, <1>n, <2>1, <2>4 DEF SharePending, CloseFd, Types
  <2>6. call'[p] = None BY <1>0, <1>6, CallSet DEF Unlock
  <2>7. p \in overtaken /\ p \notin overtaken' => inode'[p].nLock = 0 BY <1>6, <2>1 DEF Unlock
  <2> QED BY <1>0, <1>h, <1>q, <2>1, <2>2, <2>3, <2>5, <2>6, <2>7 DEF ProcOk, CloseOk
<1>7. CASE Open(c)
  <2>1. UNCHANGED <<closing, overtaken, call>> /\ inode'[p].nLock = inode[p].nLock
    BY <1>0, <1>7 DEF Open, WithUnused, Inode
  <2> QED BY <2>1 DEF ProcOk, CloseOk
<1>8. CASE Close(c)
  <2>1. UNCHANGED <<overtaken, call>> /\ inode'[p].nLock = inode[p].nLock
    BY <1>0, <1>8 DEF Close, WithUnused, Inode
  <2>2. closing' = closing \/ (closing'[p] = c /\ inode[p].nLock = 0 /\ call[p] = None)
    BY <1>0, <1>8 DEF Close, CanEnter, HasLocks, Types
  <2> QED BY <2>1, <2>2 DEF ProcOk, CloseOk
<1>9. CASE CloseFd(c)
  <2>1. UNCHANGED <<overtaken, call, inode>> /\ closing'[p] = None
    BY <1>0, <1>9 DEF CloseFd, Types
  <2> QED BY <2>1 DEF ProcOk, CloseOk
<1> QED BY <1>1, <1>2, <1>3, <1>4, <1>5, <1>6, <1>7, <1>8, <1>9 DEF ConnStep, Sharing, Writing, Releasing

(***************************************************************************)
(* The invariant                                                           *)
(***************************************************************************)
\* A process that a step leaves alone stays as it is.
LEMMA ProcFrame ==
    ASSUME Types, NEW q \in Proc, ProcOk(q),
           inode'[q] = inode[q], flock'[q] = flock[q], call'[q] = call[q], closing'[q] = closing[q],
           q \in overtaken' <=> q \in overtaken,
           \A d \in Conn : pid[d] = q => eFileLock'[d] = eFileLock[d]
    PROVE  ProcOk(q)'
<1>1. \A l : Strongest(q, l) => Strongest(q, l)' BY DEF Strongest
<1>d. Dropped(q)' <=> Dropped(q) BY DEF Dropped
<1>2. Idle(q) => Idle(q)' BY <1>1, <1>d DEF Idle, BytesFor
<1>3. ASSUME call[q] # None PROVE InCall(q, call[q].conn, call[q].at)'
  <2>1. call[q].conn \in Conn BY <1>3 DEF Types, Calls
  <2>2. InCall(q, call[q].conn, call[q].at) BY <1>3 DEF ProcOk, CallOk
  <2> QED BY <1>1, <1>d, <1>2, <2>1, <2>2 DEF InCall
<1>4. CallOk(q)' BY <1>2, <1>3 DEF ProcOk, CallOk
<1>5. CloseOk(q)' BY DEF ProcOk, CloseOk
<1> QED BY <1>4, <1>5 DEF ProcOk

\* The operations of a connection keep the invariant.
LEMMA ConnStepInv == ASSUME Assumed, IInv, NEW c \in Conn, ConnStep(c) PROVE IInv'
<1>0. Types /\ OneWriter /\ KernelOk /\ Counted(pid[c]) /\ ProcOk(pid[c])
  BY ProcOf DEF IInv
<1>1. Types' /\ OneWriter' /\ KernelOk' BY <1>0, TypesStep, OneWriterStep, KernelStep
<1>2. ASSUME NEW q \in Proc PROVE Counted(q)' /\ ProcOk(q)'
  <2>1. CASE q = pid[c] BY <1>0, <2>1, CountedStep, CallStep, CloseStep DEF ProcOk
  <2>2. CASE q # pid[c]
    <3>1. /\ Counted(q) /\ ProcOk(q) /\ inode'[q] = inode[q] /\ flock'[q] = flock[q]
          /\ call'[q] = call[q] /\ closing'[q] = closing[q] /\ (q \in overtaken' <=> q \in overtaken)
      BY <1>0, <2>2, Untouched DEF IInv
    <3>2. \A d \in Conn : pid[d] = q => eFileLock'[d] = eFileLock[d] /\ (d \in isOpen' <=> d \in isOpen)
      BY <1>0, <2>2, Untouched
    <3>3. Counted(q)' BY <1>0, <1>1, <3>1, <3>2, CountedFrame
    <3>4. ProcOk(q)' BY <1>0, <3>1, <3>2, ProcFrame
    <3> QED BY <3>3, <3>4
  <2> QED BY <2>1, <2>2
<1> QED BY <1>1, <1>2 DEF IInv

\* A process with nothing open is as it was at first.
IsNew(p) ==
    /\ inode[p] = NewInode /\ flock[p] = Unlocked /\ call[p] = None /\ closing[p] = None
    /\ p \notin overtaken /\ \A d \in Conn : pid[d] = p => eFileLock[d] = NO_LOCK /\ d \notin isOpen
NewIsOk == Assumed /\ Types => \A p \in Proc : IsNew(p) => Counted(p) /\ ProcOk(p)
\* Its counters count nothing and no byte is locked for it.
LEMMA ProcEmpty == NewIsOk
<1> SUFFICES ASSUME Assumed, Types, NEW p \in Proc, IsNew(p) PROVE Counted(p) /\ ProcOk(p)
  BY DEF NewIsOk
<1> USE DEF IsNew
<1>1. Lockers(p) = {} /\ Opened(p) = {} BY DEF Lockers, Opened, Types
<1>2. Cardinality(Lockers(p)) = 0 /\ Cardinality(Opened(p)) = 0 BY <1>1, FS_EmptySet
<1>3. /\ inode[p].eFileLock = NO_LOCK /\ inode[p].nShared = 0 /\ inode[p].nLock = 0 /\ inode[p].nUnused = 0
  BY DEF NewInode, Inode
<1>4. Counted(p)
  <2>1. Cardinality(OfProc(p)) \in Nat BY FiniteParts, FS_CardinalityType DEF Assumed
  <2> QED BY <1>2, <1>3, <2>1 DEF Counted
<1>5. Idle(p)
  BY <1>3 DEF Idle, Strongest, BytesFor, Unlocked, Bytes, NO_LOCK, RESERVED_LOCK, PENDING_LOCK, EXCLUSIVE_LOCK
<1> QED BY <1>4, <1>5 DEF ProcOk, CallOk, CloseOk

\* The kernel and the other processes outlive a process.
LEMMA KillInv == ASSUME Assumed, IInv, NEW p \in Proc, Kill(p) PROVE IInv'
<1>0. Types /\ OneWriter /\ KernelOk BY DEF IInv
<1>1. Types'
  <2>1. NO_LOCK \in NO_LOCK..EXCLUSIVE_LOCK BY DEF NO_LOCK, EXCLUSIVE_LOCK
  <2> QED BY <1>0, <2>1, Members DEF Types, Kill
<1>2. /\ \A d \in Conn : eFileLock'[d] = IF pid[d] = p THEN NO_LOCK ELSE eFileLock[d]
      /\ \A d : d \in isOpen' <=> d \in isOpen /\ pid[d] # p
  BY DEF Kill
<1>3. /\ \A q \in Proc : q # p => /\ inode'[q] = inode[q] /\ flock'[q] = flock[q]
                                  /\ call'[q] = call[q] /\ closing'[q] = closing[q]
                                  /\ (q \in overtaken' <=> q \in overtaken)
      /\ inode'[p] = NewInode /\ flock'[p] = Unlocked /\ call'[p] = None /\ closing'[p] = None
      /\ p \notin overtaken'
  BY <1>0 DEF Kill, Types
<1>4. OneWriter'
  BY <1>0, <1>2 DEF OneWriter, Types, NO_LOCK, SHARED_LOCK, EXCLUSIVE_LOCK
<1>5. KernelOk'
  BY <1>0, <1>3 DEF KernelOk, Unlocked
<1>6. ASSUME NEW q \in Proc PROVE Counted(q)' /\ ProcOk(q)'
  <2>1. CASE q = p
    <3>1. \A d \in Conn : pid[d] = p => eFileLock'[d] = NO_LOCK /\ d \notin isOpen' BY <1>2
    <3>2. Assumed' BY DEF Assumed, UnixLockConstants
    <3>3. NewIsOk' BY ProcEmpty, PTL
    <3>4. IsNew(p)' BY <1>3, <3>1 DEF IsNew
    <3> QED BY <1>1, <2>1, <3>2, <3>3, <3>4 DEF NewIsOk
  <2>2. CASE q # p
    <3>1. \A d \in Conn : pid[d] = q => eFileLock'[d] = eFileLock[d] /\ (d \in isOpen' <=> d \in isOpen)
      BY <1>2, <2>2
    <3>2. Counted(q) /\ ProcOk(q) BY DEF IInv
    <3> QED BY <1>0, <1>1, <1>3, <2>2, <3>1, <3>2, CountedFrame, ProcFrame
  <2> QED BY <2>1, <2>2
<1> QED BY <1>1, <1>4, <1>5, <1>6 DEF IInv

\* No lock and no descriptor at first.
LEMMA InitInv == ASSUME Assumed, Init PROVE IInv
<1>1. Types
  <2>1. NO_LOCK \in NO_LOCK..EXCLUSIVE_LOCK BY DEF NO_LOCK, EXCLUSIVE_LOCK
  <2> QED BY <2>1, Members DEF Init, Types
<1>2. OneWriter
  BY DEF Init, OneWriter, NO_LOCK, SHARED_LOCK, EXCLUSIVE_LOCK
<1>3. KernelOk
  BY DEF Init, KernelOk, Unlocked
<1>4. ASSUME NEW p \in Proc PROVE Counted(p) /\ ProcOk(p)
  BY <1>1, ProcEmpty DEF Init, IsNew, NewIsOk
<1> QED BY <1>1, <1>2, <1>3, <1>4 DEF IInv

\* The invariant is inductive.
LEMMA NextInv == ASSUME Assumed, IInv, [Next]_vars PROVE IInv'
<1>1. CASE \E c \in Conn : ConnStep(c) BY <1>1, ConnStepInv
<1>2. CASE \E p \in Proc : Kill(p) BY <1>2, KillInv
<1>3. CASE UNCHANGED vars
  <2>1. UNCHANGED <<isOpen, eFileLock, inode, flock, call, closing, overtaken>> BY <1>3 DEF vars
  <2>2. Types /\ Types' /\ OneWriter' /\ KernelOk' BY <2>1 DEF IInv, Types, OneWriter, KernelOk
  <2>3. ASSUME NEW q \in Proc PROVE Counted(q)' /\ ProcOk(q)'
    BY <2>1, <2>2, CountedFrame, ProcFrame DEF IInv
  <2> QED BY <2>2, <2>3 DEF IInv
<1> QED BY <1>1, <1>2, <1>3 DEF Next, ConnStep, Sharing, Writing, Releasing

\* The inductive invariant implies those of UnixLock.
LEMMA InvImplies == ASSUME Assumed, IInv PROVE TypeOK /\ LocksAgree /\ ReservedIsSeen
<1>0. Types BY DEF IInv
<1>1. TypeOK
  <2>1. ASSUME NEW p \in Proc
        PROVE  inode[p] \in [eFileLock : NO_LOCK..EXCLUSIVE_LOCK, nShared : 0..Cardinality(Conn),
                             nLock : 0..Cardinality(Conn), nUnused : 0..Cardinality(Conn)]
    <3>1. inode[p] \in Inodes /\ Counted(p) BY <1>0 DEF IInv, Types
    <3>2. Cardinality(Conn) \in Nat BY FS_CardinalityType DEF Assumed, UnixLockConstants
    <3>3. /\ Cardinality(Lockers(p)) \in Nat /\ Cardinality(Lockers(p)) <= Cardinality(Conn)
          /\ Cardinality(OfProc(p)) \in 0..Cardinality(Conn) /\ Cardinality(Opened(p)) \in Nat
      BY <1>0, FiniteParts DEF Assumed
    <3>4. inode[p].nShared \in 0..Cardinality(Conn) /\ inode[p].nLock \in 0..Cardinality(Conn)
      BY <3>1, <3>2, <3>3 DEF Counted
    <3>5. inode[p].nUnused \in 0..Cardinality(Conn)
      BY <3>1, <3>2, <3>3 DEF Counted
    <3> QED BY <3>1, <3>4, <3>5 DEF Inodes
  <2> QED BY <1>0, <2>1 DEF TypeOK, Types, FLocks, Calls
<1>2. LocksAgree
  <2> SUFFICES ASSUME NEW p \in Proc, call[p] = None
      PROVE  LET i == inode[p]
                 C == {c \in Conn : pid[c] = p}
             IN  /\ i.nShared = Cardinality({c \in C : eFileLock[c] # NO_LOCK})
                 /\ i.nLock = i.nShared /\ (i.nLock = 0 => i.nUnused = 0)
                 /\ \A c \in C : eFileLock[c] <= i.eFileLock
                 /\ i.eFileLock # NO_LOCK => \E c \in C : eFileLock[c] = i.eFileLock
                 /\ ~Dropped(p) =>
                      /\ flock[p]["SHARED"] = IF i.eFileLock = EXCLUSIVE_LOCK THEN "WRLCK"
                                              ELSE IF i.eFileLock = NO_LOCK THEN "UNLCK" ELSE "RDLCK"
                      /\ flock[p]["RESERVED"] = "WRLCK" => i.eFileLock >= RESERVED_LOCK
                      /\ i.eFileLock \in {RESERVED_LOCK, PENDING_LOCK} => flock[p]["RESERVED"] = "WRLCK"
                      /\ i.eFileLock = PENDING_LOCK => flock[p]["PENDING"] = "WRLCK"
    BY DEF LocksAgree
  <2>1. Counted(p) /\ Idle(p) BY DEF IInv, ProcOk, CallOk
  <2>2. /\ inode[p].nShared = Cardinality({c \in {d \in Conn : pid[d] = p} : eFileLock[c] # NO_LOCK})
        /\ inode[p].nLock = inode[p].nShared /\ (inode[p].nLock = 0 => inode[p].nUnused = 0)
    BY <2>1 DEF Counted, Lockers
  <2> QED BY <2>1, <2>2 DEF Idle, Strongest, BytesFor
<1>3. ReservedIsSeen
  <2> SUFFICES ASSUME NEW c \in Conn, NEW d \in Conn, eFileLock[c] = SHARED_LOCK,
                      eFileLock[d] \in {RESERVED_LOCK, PENDING_LOCK}, call[pid[d]] = None,
                      Dropped(pid[d]) => pid[c] = pid[d]
               PROVE  CheckReserved(c)
    BY DEF ReservedIsSeen
  <2>1. pid[c] \in Proc /\ pid[d] \in Proc /\ Idle(pid[d]) BY ProcOf DEF IInv, ProcOk, CallOk
  <2>2. inode[pid[d]].eFileLock \in 0..4
    BY <1>0, <2>1, Members DEF Types, NO_LOCK, EXCLUSIVE_LOCK
  <2>3. CASE pid[c] = pid[d]
    BY <1>0, <2>1, <2>2, <2>3 DEF CheckReserved, Idle, Strongest, SHARED_LOCK, RESERVED_LOCK, PENDING_LOCK
  <2>4. CASE pid[c] # pid[d]
    <3>1. inode[pid[d]].eFileLock = eFileLock[d]
      BY <1>0, <2>1, <2>2 DEF IInv, OneWriter, Idle, Strongest, Types, NO_LOCK, SHARED_LOCK, RESERVED_LOCK,
         PENDING_LOCK, EXCLUSIVE_LOCK
    <3>2. flock[pid[d]]["RESERVED"] = "WRLCK" BY <2>1, <2>4, <3>1 DEF Idle, BytesFor
    <3> QED BY <2>1, <2>4, <3>2 DEF CheckReserved
  <2> QED BY <2>3, <2>4
<1> QED BY <1>1, <1>2, <1>3

(***************************************************************************)
(* The table of FileLocks                                                  *)
(***************************************************************************)
Others(c) == Conn \ {c}
GoesTo(c, k) == \A d \in Conn : LevelOf(d)' = IF d = c THEN k ELSE LevelOf(d)
Shares(c) ==
    /\ LevelOf(c) = NO_LOCK /\ GoesTo(c, SHARED_LOCK)
    /\ \A d \in Others(c) :
          /\ LevelOf(d) # EXCLUSIVE_LOCK
          /\ LevelOf(d) = PENDING_LOCK => \E e \in Others(c) : pid[e] = pid[c] /\ LevelOf(e) = SHARED_LOCK
Reserves(c) ==
    /\ LevelOf(c) = SHARED_LOCK /\ GoesTo(c, RESERVED_LOCK)
    /\ \A d \in Others(c) : LevelOf(d) <= SHARED_LOCK
Pends(c) == LevelOf(c) = RESERVED_LOCK /\ GoesTo(c, PENDING_LOCK)
Excludes(c) ==
    /\ LevelOf(c) \in {SHARED_LOCK, PENDING_LOCK} /\ GoesTo(c, EXCLUSIVE_LOCK)
    /\ \A d \in Others(c) : LevelOf(d) = NO_LOCK
Releases(c) == \E k \in {NO_LOCK, SHARED_LOCK} : LevelOf(c) > k /\ GoesTo(c, k)
KeepsLevels == \A d \in Conn : LevelOf(d)' = LevelOf(d)
Vanishes(p) == \A d \in Conn : LevelOf(d)' = IF pid[d] = p THEN NO_LOCK ELSE LevelOf(d)

\* What another process finds locked for a connection that relies on a level,
\* within the calls of its process too.
LEMMA LevelBytes ==
    ASSUME Assumed, IInv, NEW d \in Conn
    PROVE  /\ LevelOf(d) \in 0..4
           /\ LevelOf(d) = EXCLUSIVE_LOCK => flock[pid[d]]["SHARED"] = "WRLCK"
           /\ LevelOf(d) \in {RESERVED_LOCK, PENDING_LOCK} => flock[pid[d]]["RESERVED"] = "WRLCK"
           /\ LevelOf(d) = PENDING_LOCK => flock[pid[d]]["PENDING"] = "WRLCK"
           /\ LevelOf(d) # NO_LOCK => flock[pid[d]]["SHARED"] # "UNLCK"
<1> DEFINE q == pid[d]
           l == inode[q].eFileLock
<1>n. NO_LOCK = 0 /\ SHARED_LOCK = 1 /\ RESERVED_LOCK = 2 /\ PENDING_LOCK = 3 /\ EXCLUSIVE_LOCK = 4
  BY DEF NO_LOCK, SHARED_LOCK, RESERVED_LOCK, PENDING_LOCK, EXCLUSIVE_LOCK
<1>0. q \in Proc /\ Types /\ OneWriter /\ ProcOk(q)
  BY ProcOf DEF IInv
<1>1. l \in 0..4 /\ \A e \in Conn : eFileLock[e] \in 0..4
  BY <1>0, <1>n, Members DEF Types
<1>d. CASE Dropped(q)
  <2>1. LevelOf(d) = 0 BY <1>d, <1>n DEF LevelOf
  <2> QED BY <1>n, <2>1
<1>u. SUFFICES ASSUME ~Dropped(q)
      PROVE  /\ LevelOf(d) \in 0..4
             /\ LevelOf(d) = EXCLUSIVE_LOCK => flock[q]["SHARED"] = "WRLCK"
             /\ LevelOf(d) \in {RESERVED_LOCK, PENDING_LOCK} => flock[q]["RESERVED"] = "WRLCK"
             /\ LevelOf(d) = PENDING_LOCK => flock[q]["PENDING"] = "WRLCK"
             /\ LevelOf(d) # NO_LOCK => flock[q]["SHARED"] # "UNLCK"
  BY <1>d
<1>2. LevelOf(d) \in 0..4 /\ (LevelOf(d) = 1 \/ LevelOf(d) = eFileLock[d])
  BY <1>1, <1>n, <1>u DEF LevelOf
<1>i. ASSUME Idle(q), LevelOf(d) = eFileLock[d]
      PROVE  /\ LevelOf(d) = 4 => flock[q]["SHARED"] = "WRLCK"
             /\ LevelOf(d) \in {2, 3} => flock[q]["RESERVED"] = "WRLCK"
             /\ LevelOf(d) = 3 => flock[q]["PENDING"] = "WRLCK"
             /\ LevelOf(d) # 0 => flock[q]["SHARED"] # "UNLCK"
  <2>1. eFileLock[d] <= l /\ (eFileLock[d] > 1 => eFileLock[d] = l)
    BY <1>0, <1>1, <1>i, <1>n DEF Idle, Strongest, OneWriter
  <2> QED BY <1>1, <1>i, <1>n, <1>u, <2>1 DEF Idle, BytesFor
<1>3. CASE call[q] = None
  <2>1. LevelOf(d) = eFileLock[d]
    BY <1>3, <1>u, IsWithin DEF LevelOf, Assumed, Steps
  <2> QED BY <1>0, <1>2, <1>3, <1>i, <1>n, <2>1 DEF ProcOk, CallOk
<1>4. CASE call[q] # None
  <2> DEFINE e == call[q].conn
             at == call[q].at
  <2>1. e \in Conn /\ at \in Steps /\ pid[e] = q /\ InCall(q, e, at) /\ call[q] = [conn |-> e, at |-> at]
    BY <1>0, <1>4 DEF Types, Calls, ProcOk, CallOk, InCall
  <2>2. IsAt(e, at) BY <2>1 DEF IsAt
  <2> HIDE DEF e, at
  <2>3. CASE at \in {"share", "shared", "busy"}
    <3>1. eFileLock[d] = 0 BY <1>1, <1>n, <2>1, <2>3 DEF InCall, Strongest, ShareSteps
    <3>2. LevelOf(d) = eFileLock[d] BY <1>u, <2>1, <2>3 DEF LevelOf, IsAt
    <3> QED BY <1>n, <1>2, <3>1, <3>2
  <2>4. CASE at = "exclude"
    <3>1. LevelOf(d) = eFileLock[d] BY <1>u, <2>1, <2>4 DEF LevelOf, IsAt
    <3> QED BY <1>i, <1>2, <1>n, <2>1, <2>4, <3>1 DEF InCall
  <2>5. CASE at \in {"unlockBytes", "unlock"}
    <3>1. eFileLock[e] > 1 /\ flock[q]["SHARED"] # "UNLCK"
      BY <1>n, <1>u, <2>1, <2>5 DEF InCall
    <3>2. LevelOf(d) <= 1
      <4>1. CASE d = e BY <1>n, <2>2, <2>5, <4>1 DEF LevelOf
      <4>2. CASE d # e
        <5>1. eFileLock[d] <= 1 BY <1>0, <1>1, <1>n, <2>1, <3>1, <4>2 DEF OneWriter
        <5> QED BY <1>2, <5>1
      <4> QED BY <4>1, <4>2
    <3> QED BY <1>2, <1>n, <3>1, <3>2
  <2> QED BY <2>1, <2>3, <2>4, <2>5 DEF Steps
<1> QED BY <1>3, <1>4

\* The other connections rely on what they relied on before.
LEMMA OthersLevel ==
    ASSUME Assumed, Types, NEW c \in Conn, ConnStep(c), NEW d \in Conn, d # c,
           pid[d] # pid[c] \/ (Dropped(pid[c])' <=> Dropped(pid[c]))
    PROVE  LevelOf(d)' = LevelOf(d)
<1>0. UnixLockConstants /\ pid[c] \in Proc BY ProcOf DEF Assumed
<1>1. eFileLock'[d] = eFileLock[d] BY Untouched
<1>2. ASSUME NEW at \in Steps PROVE IsAt(d, at)' <=> IsAt(d, at)
  <2>1. CASE pid[d] # pid[c]
    BY <2>1, Untouched, ProcOf DEF IsAt
  <2>2. CASE pid[d] = pid[c]
    <3>1. CASE call' = call BY <3>1 DEF IsAt
    <3>2. CASE call' # call
      <4>1. call[pid[c]] = None \/ \E k \in Steps : IsAt(c, k)
        BY <3>2 DEF ConnStep, Sharing, Writing, Releasing, ShareAgain, SharePending, Steps, CanEnter,
           ShareRange, ShareEnd, Reserve, ExcludePending, Exclude, Downgrade, DowngradeEnd, UnlockBytes,
           Unlock, Open, Close, CloseFd
      <4>2. Returns(pid[c]) \/ \E k \in Steps : GoesOn(c, k)
        BY <3>2 DEF ConnStep, Sharing, Writing, Releasing, ShareAgain, SharePending, Steps,
           ShareRange, ShareEnd, Reserve, ExcludePending, Exclude, Downgrade, DowngradeEnd, UnlockBytes,
           Unlock, Open, Close, CloseFd
      <4>3. call[pid[c]] = None \/ call[pid[c]].conn = c
        BY <1>0, <4>1, IsWithin
      <4>4. call'[pid[c]] = None \/ call'[pid[c]].conn = c
        <5>1. ASSUME NEW k \in Steps, GoesOn(c, k) PROVE call'[pid[c]].conn = c
          <6>1. call'[pid[c]] = [conn |-> c, at |-> k] BY <1>0, <5>1, CallSet
          <6> QED BY <6>1
        <5> QED BY <1>0, <4>2, <5>1, CallSet
      <4>5. [conn |-> d, at |-> at] # None /\ [conn |-> d, at |-> at].conn = d
        BY <1>0 DEF UnixLockConstants
      <4> QED BY <2>2, <4>3, <4>4, <4>5 DEF IsAt
    <3> QED BY <3>1, <3>2
  <2> QED BY <2>1, <2>2
<1>3. /\ IsAt(d, "unlockBytes")' <=> IsAt(d, "unlockBytes")
      /\ IsAt(d, "unlock")' <=> IsAt(d, "unlock")
  BY <1>2 DEF Steps
<1>4. Dropped(pid[d])' <=> Dropped(pid[d])
  BY Untouched, ProcOf DEF Dropped
<1> QED BY <1>1, <1>3, <1>4 DEF LevelOf

\* Where a call is, and the level of its connection.
LEMMA LevelNow ==
    ASSUME Assumed, NEW c \in Conn, ~Dropped(pid[c])
    PROVE  /\ call[pid[c]] = None => LevelOf(c) = eFileLock[c]
           /\ \A at \in {"share", "shared", "busy", "exclude"} : IsAt(c, at) => LevelOf(c) = eFileLock[c]
           /\ \A at \in {"unlockBytes", "unlock"} : IsAt(c, at) => LevelOf(c) = SHARED_LOCK
<1>1. call[pid[c]] = None => ~IsAt(c, "unlockBytes") /\ ~IsAt(c, "unlock")
  BY IsWithin DEF Assumed, Steps
<1>2. \A at \in {"share", "shared", "busy", "exclude"} : IsAt(c, at) => ~IsAt(c, "unlockBytes") /\ ~IsAt(c, "unlock")
  BY DEF IsAt
<1> QED BY <1>1, <1>2 DEF LevelOf

\* The same after a step.
LEMMA LevelNext ==
    ASSUME Assumed, Types, NEW c \in Conn, ~Dropped(pid[c])'
    PROVE  /\ Returns(pid[c]) => LevelOf(c)' = eFileLock'[c]
           /\ \A at \in {"share", "shared", "busy", "exclude"} : GoesOn(c, at) => LevelOf(c)' = eFileLock'[c]
           /\ \A at \in {"unlockBytes", "unlock"} : GoesOn(c, at) => LevelOf(c)' = SHARED_LOCK
           /\ call' = call /\ eFileLock'[c] = eFileLock[c] /\ ~Dropped(pid[c]) => LevelOf(c)' = LevelOf(c)
           /\ call' = call /\ call[pid[c]] = None => LevelOf(c)' = eFileLock'[c]
<1>0. UnixLockConstants BY DEF Assumed
<1>1. \A at \in Steps : [conn |-> c, at |-> at] # None
  BY <1>0 DEF UnixLockConstants
<1>2. call'[pid[c]] = None => LevelOf(c)' = eFileLock'[c]
  <2>1. call'[pid[c]] = None => ~IsAt(c, "unlockBytes")' /\ ~IsAt(c, "unlock")'
    BY <1>1 DEF IsAt, Steps
  <2> QED BY <2>1 DEF LevelOf
<1>3. ASSUME NEW at \in Steps, GoesOn(c, at) PROVE call'[pid[c]] = [conn |-> c, at |-> at]
  BY <1>0, <1>3, CallSet
<1>4. ASSUME NEW at \in {"share", "shared", "busy", "exclude"}, GoesOn(c, at) PROVE LevelOf(c)' = eFileLock'[c]
  <2>1. call'[pid[c]] = [conn |-> c, at |-> at] BY <1>3, <1>4 DEF Steps
  <2>2. ~IsAt(c, "unlockBytes")' /\ ~IsAt(c, "unlock")' BY <2>1 DEF IsAt
  <2> QED BY <2>2 DEF LevelOf
<1>5. ASSUME NEW at \in {"unlockBytes", "unlock"}, GoesOn(c, at) PROVE LevelOf(c)' = SHARED_LOCK
  <2>1. call'[pid[c]] = [conn |-> c, at |-> at] BY <1>3, <1>5 DEF Steps
  <2>2. IsAt(c, at)' BY <2>1 DEF IsAt
  <2> QED BY <2>2 DEF LevelOf
<1>6. Returns(pid[c]) => call'[pid[c]] = None BY <1>0, CallSet
<1>7. call' = call /\ eFileLock'[c] = eFileLock[c] /\ ~Dropped(pid[c]) => LevelOf(c)' = LevelOf(c)
  BY DEF LevelOf, IsAt
<1> QED BY <1>2, <1>4, <1>5, <1>6, <1>7

\* Where no locks are dropped every operation is a step of the table, or none.
LEMMA TableStepKept ==
    ASSUME Assumed, IInv, NEW c \in Conn, ConnStep(c), ~Dropped(pid[c]), ~Dropped(pid[c])'
    PROVE  Shares(c) \/ Reserves(c) \/ Pends(c) \/ Excludes(c) \/ Releases(c) \/ KeepsLevels
<1> DEFINE p == pid[c]
<1>n. NO_LOCK = 0 /\ SHARED_LOCK = 1 /\ RESERVED_LOCK = 2 /\ PENDING_LOCK = 3 /\ EXCLUSIVE_LOCK = 4
  BY DEF NO_LOCK, SHARED_LOCK, RESERVED_LOCK, PENDING_LOCK, EXCLUSIVE_LOCK
<1>0. /\ p \in Proc /\ Types /\ OneWriter /\ KernelOk /\ Counted(p) /\ ProcOk(p)
      /\ \A d \in Conn : eFileLock[d] \in 0..4 /\ pid[d] \in Proc
      /\ inode[p].eFileLock \in 0..4
  BY <1>n, ProcOf, Members DEF IInv, Types
<1>s. Steps = {"share", "shared", "busy", "exclude", "unlockBytes", "unlock"}
  BY DEF Steps
<1>o. ASSUME NEW k, LevelOf(c)' = k PROVE GoesTo(c, k)
  BY <1>0, <1>o, OthersLevel DEF GoesTo
<1>k. ASSUME LevelOf(c)' = LevelOf(c) PROVE KeepsLevels
  BY <1>0, <1>k, OthersLevel DEF KeepsLevels
<1>b. /\ \A d \in Conn : LevelOf(d) \in 0..4
      /\ \A d \in Conn : LevelOf(d) = 4 => flock[pid[d]]["SHARED"] = "WRLCK"
      /\ \A d \in Conn : LevelOf(d) \in {2, 3} => flock[pid[d]]["RESERVED"] = "WRLCK"
      /\ \A d \in Conn : LevelOf(d) = 3 => flock[pid[d]]["PENDING"] = "WRLCK"
      /\ \A d \in Conn : LevelOf(d) # 0 => flock[pid[d]]["SHARED"] # "UNLCK"
  BY <1>n, LevelBytes
<1>x. \A q \in Proc, a \in {"PENDING", "RESERVED", "SHARED"} :
         q # p => (flock[q][a] = "WRLCK" => flock[p][a] = "UNLCK")
  BY <1>0 DEF KernelOk, Bytes
<1>i. ASSUME call[p] = None \/ \E at \in {"shared", "exclude"} : IsAt(c, at)
      PROVE  \A d \in Conn : pid[d] = p => LevelOf(d) = eFileLock[d]
  <2> SUFFICES ASSUME NEW d \in Conn, pid[d] = p PROVE LevelOf(d) = eFileLock[d]
    OBVIOUS
  <2>1. CASE call[p] = None BY <2>1, LevelNow
  <2>2. CASE IsAt(c, "shared") BY <2>2 DEF LevelOf, IsAt
  <2>3. CASE IsAt(c, "exclude") BY <2>3 DEF LevelOf, IsAt
  <2> QED BY <1>i, <2>1, <2>2, <2>3
<1>1. CASE ShareAgain(c)
  <2>1. Idle(p) /\ call[p] = None /\ inode[p].eFileLock \in {1, 2} /\ eFileLock[c] = 0
    BY <1>0, <1>1, <1>n, Enters DEF ShareAgain
  <2>2. LevelOf(c) = 0 /\ LevelOf(c)' = 1
    BY <1>0, <1>1, <1>n, <2>1, LevelNow, LevelNext DEF ShareAgain, Types
  <2>3. flock[p]["SHARED"] = "RDLCK" /\ (inode[p].eFileLock = 2 => flock[p]["RESERVED"] = "WRLCK")
    BY <1>n, <2>1 DEF Idle, BytesFor
  <2>4. ASSUME NEW d \in Others(c) PROVE LevelOf(d) # 4 /\ (LevelOf(d) = 3 => inode[p].eFileLock = 1)
    <3>1. CASE pid[d] = p BY <1>0, <1>i, <1>n, <2>1, <3>1 DEF Idle, Strongest, Others
    <3>2. CASE pid[d] # p BY <1>0, <1>b, <1>x, <2>1, <2>3, <3>2 DEF Others
    <3> QED BY <3>1, <3>2
  <2>5. inode[p].eFileLock = 1 => \E e \in Others(c) : pid[e] = p /\ LevelOf(e) = 1
    BY <1>0, <1>i, <1>n, <2>1 DEF Idle, Strongest, Others
  <2>6. Shares(c) BY <1>n, <1>o, <2>2, <2>4, <2>5 DEF Shares
  <2> QED BY <2>6
<1>2. CASE SharePending(c)
  <2>1. call[p] = None BY <1>0, <1>2, Enters DEF SharePending
  <2> QED BY <1>0, <1>2, <1>k, <2>1, LevelNow, LevelNext DEF SharePending
<1>3. CASE ShareRange(c)
  BY <1>0, <1>3, <1>k, LevelNow, LevelNext DEF ShareRange
<1>4. CASE ShareEnd(c)
  <2>1. CASE IsAt(c, "shared")
    <3>1. InCall(p, c, "shared") BY <1>0, <1>s, <2>1, GoingOn
    <3>2. \A d \in Conn : pid[d] = p => LevelOf(d) = 0
      BY <1>0, <1>i, <1>n, <2>1, <3>1 DEF InCall, Strongest, ShareSteps
    <3>3. LevelOf(c)' = 1
      BY <1>0, <1>4, <1>n, <2>1, LevelNext DEF ShareEnd, Types
    <3>4. flock[p]["SHARED"] = "RDLCK" /\ flock[p]["PENDING"] = "RDLCK"
      BY <3>1 DEF InCall, ShareSteps
    <3>5. ASSUME NEW d \in Others(c) PROVE LevelOf(d) # 4 /\ LevelOf(d) # 3
      <4>1. CASE pid[d] = p BY <3>2, <4>1 DEF Others
      <4>2. CASE pid[d] # p BY <1>0, <1>b, <1>x, <3>4, <4>2 DEF Others
      <4> QED BY <4>1, <4>2
    <3>6. Shares(c) BY <1>n, <1>o, <3>2, <3>3, <3>5 DEF Shares
    <3> QED BY <3>6
  <2>2. CASE ~IsAt(c, "shared")
    <3>1. IsAt(c, "busy") BY <1>4, <2>2 DEF ShareEnd
    <3>2. LevelOf(c)' = LevelOf(c)
      BY <1>0, <1>4, <2>2, <3>1, LevelNow, LevelNext DEF ShareEnd
    <3> QED BY <1>k, <3>2
  <2> QED BY <2>1, <2>2
<1>5. CASE Reserve(c)
  <2>1. Idle(p) /\ call[p] = None /\ inode[p].eFileLock = 1 /\ eFileLock[c] = 1
    BY <1>0, <1>5, <1>n, Enters DEF Reserve, IsStrongest
  <2>2. LevelOf(c) = 1 /\ LevelOf(c)' = 2
    BY <1>0, <1>5, <1>n, <2>1, LevelNow, LevelNext DEF Reserve, Holds, Types
  <2>3. flock[p]["SHARED"] = "RDLCK" /\ \A q \in Proc : q # p => flock[q]["RESERVED"] = "UNLCK"
    BY <1>5, <1>n, <2>1 DEF Idle, BytesFor, Reserve, Granted
  <2>4. ASSUME NEW d \in Others(c) PROVE LevelOf(d) <= 1
    <3>1. CASE pid[d] = p BY <1>0, <1>i, <2>1, <3>1 DEF Idle, Strongest, Others
    <3>2. CASE pid[d] # p BY <1>0, <1>b, <1>x, <2>3, <3>2 DEF Others
    <3> QED BY <3>1, <3>2
  <2>5. Reserves(c) BY <1>n, <1>o, <2>2, <2>4 DEF Reserves
  <2> QED BY <2>5
<1>6. CASE ExcludePending(c)
  <2>1. call[p] = None /\ eFileLock[c] = 2
    BY <1>0, <1>6, <1>n, Enters DEF ExcludePending
  <2>2. LevelOf(c) = 2 /\ LevelOf(c)' = 3
    BY <1>0, <1>6, <1>n, <2>1, LevelNow, LevelNext DEF ExcludePending, Holds, Types
  <2>3. Pends(c) BY <1>n, <1>o, <2>2 DEF Pends
  <2> QED BY <2>3
<1>7. CASE Exclude(c)
  <2>1. /\ call[p] = None \/ IsAt(c, "exclude")
        /\ eFileLock[c] \in {1, 3} /\ LevelOf(c) = eFileLock[c]
    BY <1>0, <1>7, <1>n, <1>s, Enters, GoingOn, LevelNow DEF Exclude, InCall
  <2>2. CASE IsOnlyReader(p) /\ Granted(p, "SHARED", "WRLCK")
    <3>1. LevelOf(c)' = 4
      BY <1>0, <1>7, <1>n, <2>2, LevelNext DEF Exclude, Holds, Types
    <3>2. ASSUME NEW d \in Others(c) PROVE LevelOf(d) = 0
      <4>1. CASE pid[d] = p
        <5>1. inode[p].nShared = 1
          <6>1. inode[p].nShared # 0 BY <1>0, <1>n, <2>1, Readers
          <6>2. inode[p].nShared \in Nat BY <1>0, FiniteParts DEF Counted, Assumed
          <6> QED BY <2>2, <6>1, <6>2 DEF IsOnlyReader
        <5>2. eFileLock[d] = 0 BY <1>0, <1>n, <2>1, <4>1, <5>1, Readers DEF Others
        <5> QED BY <1>i, <2>1, <4>1, <5>2 DEF Others
      <4>2. CASE pid[d] # p
        <5>1. flock[pid[d]]["SHARED"] = "UNLCK" BY <1>0, <2>2, <4>2 DEF Granted, Others
        <5> QED BY <1>b, <5>1 DEF Others
      <4> QED BY <4>1, <4>2
    <3>3. Excludes(c) BY <1>n, <1>o, <2>1, <3>1, <3>2 DEF Excludes
    <3> QED BY <3>3
  <2>3. CASE ~(IsOnlyReader(p) /\ Granted(p, "SHARED", "WRLCK"))
    <3>1. LevelOf(c)' = LevelOf(c)
      BY <1>0, <1>7, <2>1, <2>3, LevelNext DEF Exclude
    <3> QED BY <1>k, <3>1
  <2> QED BY <2>2, <2>3
<1>8. CASE Downgrade(c) \/ UnlockBytes(c)
  <2>1. call[p] = None /\ eFileLock[c] > 1
    BY <1>0, <1>8, <1>n, Enters DEF Downgrade, UnlockBytes
  <2>2. LevelOf(c) > 1 /\ LevelOf(c)' = 1
    BY <1>0, <1>8, <1>n, <2>1, LevelNow, LevelNext DEF Downgrade, UnlockBytes
  <2>3. Releases(c) BY <1>n, <1>o, <2>2 DEF Releases
  <2> QED BY <2>3
<1>9. CASE DowngradeEnd(c)
  <2>1. LevelOf(c) = 1 BY <1>9, <1>n, LevelNow DEF DowngradeEnd
  <2>2. LevelOf(c)' = 1 BY <1>0, <1>9, <1>n, LevelNext DEF DowngradeEnd, Holds, Types
  <2> QED BY <1>k, <2>1, <2>2
<1>10. CASE Unlock(c)
  <2>1. LevelOf(c) = 1
    BY <1>0, <1>10, <1>n, Enters, LevelNow DEF Unlock
  <2>2. LevelOf(c)' = 0 BY <1>0, <1>10, <1>n, LevelNext DEF Unlock, Types
  <2>3. Releases(c) BY <1>n, <1>o, <2>1, <2>2 DEF Releases
  <2> QED BY <2>3
<1>11. CASE Open(c) \/ Close(c) \/ CloseFd(c)
  BY <1>0, <1>11, <1>k, LevelNext DEF Open, Close, CloseFd
<1> QED BY <1>1, <1>2, <1>3, <1>4, <1>5, <1>6, <1>7, <1>8, <1>9, <1>10, <1>11
      DEF ConnStep, Sharing, Writing, Releasing

\* Every operation is a step of the table or none, and unixClose takes the
\* connections of a process off the table if a thread has overtaken it.
LEMMA TableStep ==
    ASSUME Assumed, IInv, NEW c \in Conn, ConnStep(c)
    PROVE  \/ Shares(c) \/ Reserves(c) \/ Pends(c) \/ Excludes(c) \/ Releases(c) \/ KeepsLevels
           \/ Vanishes(pid[c])
<1> DEFINE p == pid[c]
<1>n. NO_LOCK = 0 BY DEF NO_LOCK
<1>0. p \in Proc /\ Types /\ Counted(p) /\ ProcOk(p) BY ProcOf DEF IInv
<1>1. ASSUME NEW d \in Conn, pid[d] # p PROVE LevelOf(d)' = LevelOf(d)
  BY <1>0, <1>1, OthersLevel
<1>2. CASE Dropped(p)'
  <2>1. ASSUME NEW d \in Conn, pid[d] = p PROVE LevelOf(d)' = NO_LOCK
    BY <1>2, <2>1 DEF LevelOf
  <2>2. Vanishes(p) BY <1>1, <2>1 DEF Vanishes
  <2> QED BY <2>2
<1>3. CASE Dropped(p) /\ ~Dropped(p)'
  <2>1. call'[p] = None
    BY <1>0, <1>3, DropStep, CallSet DEF ShareEnd, Unlock, Assumed
  <2>2. ASSUME NEW d \in Conn, pid[d] = p PROVE LevelOf(d)' = eFileLock'[d]
    <3>1. \A at \in Steps : [conn |-> d, at |-> at] # None BY DEF Assumed, UnixLockConstants
    <3>2. ~IsAt(d, "unlockBytes")' /\ ~IsAt(d, "unlock")' BY <2>1, <2>2, <3>1 DEF IsAt, Steps
    <3> QED BY <1>3, <2>2, <3>2 DEF LevelOf
  <2>3. inode'[p].nShared = 0
    <3>1. CASE ShareEnd(c) /\ ~IsAt(c, "shared")
      <4>1. InCall(p, c, "busy") /\ inode' = inode BY <1>0, <3>1, GoingOn DEF ShareEnd, Steps
      <4>2. \A d \in Conn : pid[d] = p => eFileLock[d] = NO_LOCK
        BY <1>0, <1>n, <4>1 DEF InCall, Strongest, ShareSteps, Types, EXCLUSIVE_LOCK
      <4>3. Lockers(p) = {} BY <4>2 DEF Lockers
      <4> QED BY <1>0, <4>1, <4>3, FS_EmptySet DEF Counted
    <3>2. CASE Unlock(c) /\ inode[p].nLock = 1
      BY <1>0, <3>2 DEF Unlock, Inode, Counted, Types
    <3> QED BY <1>0, <1>3, <3>1, <3>2, DropStep
  <2>4. \A d \in Conn : pid[d] = p => eFileLock'[d] = NO_LOCK
    <3>1. Types' /\ Counted(p)' BY <1>0, TypesStep, CountedStep
    <3>2. IsFiniteSet(Lockers(p)')
      <4>1. Lockers(p)' \in SUBSET Conn BY DEF Lockers
      <4> QED BY <4>1, FS_Subset DEF Assumed, UnixLockConstants
    <3>3. Cardinality(Lockers(p)') = 0 BY <2>3, <3>1 DEF Counted
    <3>4. Lockers(p)' = {} BY <3>2, <3>3, FS_EmptySet
    <3> QED BY <3>4 DEF Lockers
  <2>5. Vanishes(p) BY <1>1, <2>2, <2>4 DEF Vanishes
  <2> QED BY <2>5
<1>4. CASE ~Dropped(p) /\ ~Dropped(p)' BY <1>4, TableStepKept
<1> QED BY <1>2, <1>3, <1>4

\* The end of a process takes its connections off the table.
LEMMA KillVanishes == ASSUME Assumed, Types, NEW p \in Proc, Kill(p) PROVE Vanishes(p)
<1> SUFFICES ASSUME NEW d \in Conn PROVE LevelOf(d)' = IF pid[d] = p THEN NO_LOCK ELSE LevelOf(d)
  BY DEF Vanishes
<1>0. pid[d] \in Proc BY ProcOf
<1>1. CASE pid[d] = p
  <2>1. call'[pid[d]] = None BY <1>0, <1>1 DEF Kill, Types
  <2>2. \A at \in Steps : [conn |-> d, at |-> at] # None BY DEF Assumed, UnixLockConstants
  <2>3. ~IsAt(d, "unlockBytes")' /\ ~IsAt(d, "unlock")' BY <2>1, <2>2 DEF IsAt, Steps
  <2>4. eFileLock'[d] = NO_LOCK BY <1>1 DEF Kill
  <2> QED BY <1>1, <2>3, <2>4 DEF LevelOf
<1>2. CASE pid[d] # p
  <2>1. /\ call'[pid[d]] = call[pid[d]] /\ eFileLock'[d] = eFileLock[d]
        /\ closing'[pid[d]] = closing[pid[d]] /\ (pid[d] \in overtaken' <=> pid[d] \in overtaken)
    BY <1>0, <1>2 DEF Kill, Types
  <2> QED BY <1>2, <2>1 DEF LevelOf, IsAt, Dropped
<1> QED BY <1>1, <1>2
=============================================================================
