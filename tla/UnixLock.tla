------------------------------ MODULE UnixLock ------------------------------
(***************************************************************************)
(* Locks on the database file (src/src/src/os_unix.c).  The kernel grants  *)
(* POSIX locks to processes, and drops all of a process's locks when it    *)
(* closes any descriptor of the file; several connections of a process     *)
(* share them through one unixInodeInfo, under its pLockMutex.  A call     *)
(* makes several fcntl calls, between which other processes make theirs.   *)
(***************************************************************************)
EXTENDS Naturals, FiniteSets

CONSTANTS
    Conn,   \* the connections
    pid,    \* the process of each
    None

\* The places of a call of unixLock or posixUnlock between calls of fcntl.
Steps == {"share", "shared", "busy", "exclude", "unlockBytes", "unlock"}

UnixLockConstants ==
    IsFiniteSet(Conn) /\ None \notin Conn \cup [conn : Conn, at : Steps]

VARIABLES
    isOpen,     \* the connections whose database file is open
    eFileLock,  \* unixFile.eFileLock
    inode,      \* the unixInodeInfo of each process
    flock,      \* the POSIX locks of each process
    call,       \* the call that holds the pLockMutex of each process
    closing,    \* the connection whose descriptor is about to be closed
    overtaken   \* history: the processes of which a thread has begun to lock
                \* while unixClose was between its test of nLock and its close

vars == <<isOpen, eFileLock, inode, flock, call, closing, overtaken>>

NO_LOCK == 0
SHARED_LOCK == 1
RESERVED_LOCK == 2
PENDING_LOCK == 3
EXCLUSIVE_LOCK == 4

Proc == {pid[c] : c \in Conn}

\* PENDING_BYTE, RESERVED_BYTE, and the range from SHARED_FIRST.
Bytes == {"PENDING", "RESERVED", "SHARED"}
Unlocked == [b \in Bytes |-> "UNLCK"]
Inode(l, shared, locks, unused) ==
    [eFileLock |-> l, nShared |-> shared, nLock |-> locks, nUnused |-> unused]
NewInode == Inode(NO_LOCK, 0, 0, 0)
WithLock(i, l) == Inode(l, i.nShared, i.nLock, i.nUnused)
WithUnused(i, n) == Inode(i.eFileLock, i.nShared, i.nLock, n)

Init ==
    /\ isOpen = {}
    /\ eFileLock = [c \in Conn |-> NO_LOCK]
    /\ inode = [p \in Proc |-> NewInode]
    /\ flock = [p \in Proc |-> Unlocked]
    /\ call = [p \in Proc |-> None]
    /\ closing = [p \in Proc |-> None]
    /\ overtaken = {}

\* fcntl(F_SETLK): does the kernel grant process p the lock?
Granted(p, b, type) ==
    \A q \in Proc \ {p} : /\ flock[q][b] # "WRLCK"
                          /\ type = "WRLCK" => flock[q][b] = "UNLCK"

SetLock(p, b, type) == flock' = [flock EXCEPT ![p][b] = type]

\* Connection c can enter pLockMutex, which unixClose has left when it closes.
CanEnter(c) == c \in isOpen /\ call[pid[c]] = None

Returns(p) == call' = [call EXCEPT ![p] = None]
GoesOn(c, at) == call' = [call EXCEPT ![pid[c]] = [conn |-> c, at |-> at]]
IsAt(c, at) == call[pid[c]] = [conn |-> c, at |-> at]

\* pFile and pInode come to hold lock l.
Holds(c, l) ==
    /\ eFileLock' = [eFileLock EXCEPT ![c] = l]
    /\ inode' = [inode EXCEPT ![pid[c]] = WithLock(@, l)]

(***************************************************************************)
(* unixLock.  A call that returns SQLITE_BUSY and has changed nothing is   *)
(* no step.                                                                *)
(***************************************************************************)
\* Another connection of the process has a lock that allows readers.
ShareAgain(c) ==
    /\ CanEnter(c) /\ eFileLock[c] = NO_LOCK
    /\ inode[pid[c]].eFileLock \in {SHARED_LOCK, RESERVED_LOCK}
    /\ eFileLock' = [eFileLock EXCEPT ![c] = SHARED_LOCK]
    /\ inode' = [inode EXCEPT ![pid[c]] = Inode(@.eFileLock, @.nShared + 1, @.nLock + 1, @.nUnused)]
    /\ UNCHANGED <<isOpen, flock, call, closing, overtaken>>

\* The first reader of the process locks the PENDING byte for a moment.
SharePending(c) ==
    /\ CanEnter(c) /\ eFileLock[c] = NO_LOCK /\ inode[pid[c]].eFileLock = NO_LOCK
    /\ Granted(pid[c], "PENDING", "RDLCK")
    /\ SetLock(pid[c], "PENDING", "RDLCK")
    /\ GoesOn(c, "share")
    /\ overtaken' = IF closing[pid[c]] = None THEN overtaken ELSE overtaken \cup {pid[c]}
    /\ UNCHANGED <<isOpen, eFileLock, inode, closing>>

ShareRange(c) ==
    /\ IsAt(c, "share")
    /\ IF Granted(pid[c], "SHARED", "RDLCK")
       THEN SetLock(pid[c], "SHARED", "RDLCK") /\ GoesOn(c, "shared")
       ELSE GoesOn(c, "busy") /\ UNCHANGED flock
    /\ UNCHANGED <<isOpen, eFileLock, inode, closing, overtaken>>

ShareEnd(c) ==
    /\ IsAt(c, "shared") \/ IsAt(c, "busy")
    /\ SetLock(pid[c], "PENDING", "UNLCK")
    /\ IF IsAt(c, "shared")
       THEN /\ eFileLock' = [eFileLock EXCEPT ![c] = SHARED_LOCK]
            /\ inode' = [inode EXCEPT ![pid[c]] = Inode(SHARED_LOCK, 1, @.nLock + 1, @.nUnused)]
            /\ UNCHANGED overtaken
       ELSE UNCHANGED <<eFileLock, inode>> /\ overtaken' = overtaken \ {pid[c]}
    /\ Returns(pid[c])
    /\ UNCHANGED <<isOpen, closing>>

\* Mutant: another connection of the process may have a lock of its own.
AnyOfProcess(c) == TRUE

\* No other connection of the process has a stronger lock.
IsStrongest(c) == eFileLock[c] = inode[pid[c]].eFileLock

Reserve(c) ==
    /\ CanEnter(c) /\ eFileLock[c] = SHARED_LOCK /\ IsStrongest(c)
    /\ Granted(pid[c], "RESERVED", "WRLCK")
    /\ SetLock(pid[c], "RESERVED", "WRLCK")
    /\ Holds(c, RESERVED_LOCK)
    /\ UNCHANGED <<isOpen, call, closing, overtaken>>

\* The PENDING lock is kept if the EXCLUSIVE lock is not granted.
ExcludePending(c) ==
    /\ CanEnter(c) /\ eFileLock[c] = RESERVED_LOCK /\ IsStrongest(c)
    /\ Granted(pid[c], "PENDING", "WRLCK")
    /\ SetLock(pid[c], "PENDING", "WRLCK")
    /\ Holds(c, PENDING_LOCK)
    /\ GoesOn(c, "exclude")
    /\ UNCHANGED <<isOpen, closing, overtaken>>

\* Mutant: readers of the same process are forgotten.
ReadersForgotten(p) == TRUE

IsOnlyReader(p) == inode[p].nShared <= 1

Exclude(c) ==
    /\ \/ CanEnter(c) /\ eFileLock[c] \in {SHARED_LOCK, PENDING_LOCK} /\ IsStrongest(c)
       \/ IsAt(c, "exclude")
    /\ IF IsOnlyReader(pid[c]) /\ Granted(pid[c], "SHARED", "WRLCK")
       THEN SetLock(pid[c], "SHARED", "WRLCK") /\ Holds(c, EXCLUSIVE_LOCK)
       ELSE UNCHANGED <<flock, eFileLock, inode>>
    /\ Returns(pid[c])
    /\ UNCHANGED <<isOpen, closing, overtaken>>

(***************************************************************************)
(* posixUnlock, to SHARED or to nothing.                                   *)
(***************************************************************************)
\* A writer becomes a reader: first the range, then the two bytes.  If the
\* kernel refuses (SQLITE_IOERR_RDLOCK) nothing changes.
Downgrade(c) ==
    /\ CanEnter(c) /\ eFileLock[c] > SHARED_LOCK
    /\ Granted(pid[c], "SHARED", "RDLCK")
    /\ SetLock(pid[c], "SHARED", "RDLCK")
    /\ GoesOn(c, "unlockBytes")
    /\ UNCHANGED <<isOpen, eFileLock, inode, closing, overtaken>>

FreeBytes(p) == flock' = [flock EXCEPT ![p]["PENDING"] = "UNLCK", ![p]["RESERVED"] = "UNLCK"]

DowngradeEnd(c) ==
    /\ IsAt(c, "unlockBytes")
    /\ FreeBytes(pid[c])
    /\ Holds(c, SHARED_LOCK)
    /\ Returns(pid[c])
    /\ UNCHANGED <<isOpen, closing, overtaken>>

UnlockBytes(c) ==
    /\ CanEnter(c) /\ eFileLock[c] > SHARED_LOCK
    /\ FreeBytes(pid[c])
    /\ inode' = [inode EXCEPT ![pid[c]] = WithLock(@, SHARED_LOCK)]
    /\ GoesOn(c, "unlock")
    /\ UNCHANGED <<isOpen, eFileLock, closing, overtaken>>

\* The last reader of the process frees the range, and the last lock closes
\* the descriptors that were kept (closePendingFds).
Unlock(c) ==
    /\ \/ CanEnter(c) /\ eFileLock[c] = SHARED_LOCK
       \/ IsAt(c, "unlock")
    /\ LET i == inode[pid[c]]
           isLast == i.nShared = 1
       IN  /\ flock' = IF isLast \/ i.nLock = 1 THEN [flock EXCEPT ![pid[c]] = Unlocked] ELSE flock
           /\ inode' = [inode EXCEPT ![pid[c]] =
                            Inode(IF isLast THEN NO_LOCK ELSE i.eFileLock, i.nShared - 1, i.nLock - 1,
                                  IF i.nLock = 1 THEN 0 ELSE i.nUnused)]
           /\ overtaken' = IF i.nLock = 1 THEN overtaken \ {pid[c]} ELSE overtaken
    /\ eFileLock' = [eFileLock EXCEPT ![c] = NO_LOCK]
    /\ Returns(pid[c])
    /\ UNCHANGED <<isOpen, closing>>

(***************************************************************************)
(* unixOpen and unixClose, which are serialized by unixBigLock.            *)
(***************************************************************************)
\* A descriptor that was kept is used again (findReusableFd).
Open(c) ==
    /\ c \notin isOpen /\ call[pid[c]] = None /\ closing[pid[c]] = None
    /\ isOpen' = isOpen \cup {c}
    /\ inode' = [inode EXCEPT ![pid[c]] =
                        WithUnused(@, IF @.nUnused = 0 THEN 0 ELSE @.nUnused - 1)]
    /\ UNCHANGED <<eFileLock, flock, call, closing, overtaken>>

\* Mutant: the descriptor is closed whatever the process has locked.
ClosedAtOnce(p) == FALSE

\* The process has locks, which a close would drop.
HasLocks(p) == inode[p].nLock > 0

\* The descriptor is kept (setPendingFd), or will be closed.
Close(c) ==
    /\ CanEnter(c) /\ eFileLock[c] = NO_LOCK /\ closing[pid[c]] = None
    /\ isOpen' = isOpen \ {c}
    /\ IF HasLocks(pid[c])
       THEN inode' = [inode EXCEPT ![pid[c]] = WithUnused(@, @.nUnused + 1)] /\ UNCHANGED closing
       ELSE closing' = [closing EXCEPT ![pid[c]] = c] /\ UNCHANGED inode
    /\ UNCHANGED <<eFileLock, flock, call, overtaken>>

\* closeUnixFile: the kernel drops every lock of the process, also those a
\* thread has taken since the test.
CloseFd(c) ==
    /\ closing[pid[c]] = c
    /\ flock' = [flock EXCEPT ![pid[c]] = Unlocked]
    /\ closing' = [closing EXCEPT ![pid[c]] = None]
    /\ UNCHANGED <<isOpen, eFileLock, inode, call, overtaken>>

\* A process dies.
Kill(p) ==
    /\ isOpen' = {c \in isOpen : pid[c] # p}
    /\ eFileLock' = [c \in Conn |-> IF pid[c] = p THEN NO_LOCK ELSE eFileLock[c]]
    /\ inode' = [inode EXCEPT ![p] = NewInode]
    /\ flock' = [flock EXCEPT ![p] = Unlocked]
    /\ call' = [call EXCEPT ![p] = None]
    /\ closing' = [closing EXCEPT ![p] = None]
    /\ overtaken' = overtaken \ {p}

Next ==
    \/ \E c \in Conn :
          \/ ShareAgain(c) \/ SharePending(c) \/ ShareRange(c) \/ ShareEnd(c)
          \/ Reserve(c) \/ ExcludePending(c) \/ Exclude(c)
          \/ Downgrade(c) \/ DowngradeEnd(c) \/ UnlockBytes(c) \/ Unlock(c)
          \/ Open(c) \/ Close(c) \/ CloseFd(c)
    \/ \E p \in Proc : Kill(p)

Spec == Init /\ [][Next]_vars

(***************************************************************************)
(* Properties                                                              *)
(***************************************************************************)
\* unixCheckReservedLock: the inode, and what the kernel says of the others.
CheckReserved(c) ==
    \/ inode[pid[c]].eFileLock > SHARED_LOCK
    \/ \E q \in Proc \ {pid[c]} : flock[q]["RESERVED"] # "UNLCK"

TypeOK ==
    /\ isOpen \subseteq Conn
    /\ eFileLock \in [Conn -> NO_LOCK..EXCLUSIVE_LOCK]
    /\ inode \in [Proc -> [eFileLock : NO_LOCK..EXCLUSIVE_LOCK, nShared : 0..Cardinality(Conn),
                           nLock : 0..Cardinality(Conn), nUnused : 0..Cardinality(Conn)]]
    /\ flock \in [Proc -> [Bytes -> {"UNLCK", "RDLCK", "WRLCK"}]]
    /\ call \in [Proc -> {None} \cup [conn : Conn, at : Steps]]
    /\ closing \in [Proc -> {None} \cup Conn]
    /\ overtaken \subseteq Proc

\* unixClose has closed a descriptor after a thread of the process had begun
\* to lock: the locks taken since then may be missing in the kernel, until the
\* process has none again.
Dropped(p) == p \in overtaken /\ closing[p] = None

\* The locks of the connections, of their process and of the kernel agree
\* between calls: the counters count the readers, the inode has the strongest
\* lock, and the process has locked the bytes that stand for it, unless
\* unixClose has dropped them.
LocksAgree ==
    \A p \in Proc :
        LET i == inode[p]
            C == {c \in Conn : pid[c] = p}
        IN  call[p] = None =>
              /\ i.nShared = Cardinality({c \in C : eFileLock[c] # NO_LOCK})
              /\ i.nLock = i.nShared /\ (i.nLock = 0 => i.nUnused = 0)
              /\ \A c \in C : eFileLock[c] <= i.eFileLock
              /\ i.eFileLock # NO_LOCK => \E c \in C : eFileLock[c] = i.eFileLock
              /\ ~Dropped(p) =>
                /\ flock[p]["SHARED"] = IF i.eFileLock = EXCLUSIVE_LOCK THEN "WRLCK"
                                        ELSE IF i.eFileLock = NO_LOCK THEN "UNLCK" ELSE "RDLCK"
                /\ flock[p]["RESERVED"] = "WRLCK" => i.eFileLock >= RESERVED_LOCK
                /\ i.eFileLock \in {RESERVED_LOCK, PENDING_LOCK} => flock[p]["RESERVED"] = "WRLCK"
                /\ i.eFileLock = PENDING_LOCK => flock[p]["PENDING"] = "WRLCK"

\* A reader that looks for a writer finds it, in its own process or another: a
\* journal in use is not taken for a hot one.  Where unixClose has dropped the
\* writer's locks only its own process finds it.
ReservedIsSeen ==
    \A c, d \in Conn :
        (/\ eFileLock[c] = SHARED_LOCK /\ eFileLock[d] \in {RESERVED_LOCK, PENDING_LOCK}
         /\ call[pid[d]] = None /\ (Dropped(pid[d]) => pid[c] = pid[d]))
        => CheckReserved(c)

\* What a connection may rely on: one that is giving up its lock no longer
\* relies on more than SHARED, and one whose locks unixClose has dropped has
\* nothing to rely on.
LevelOf(c) ==
    IF Dropped(pid[c]) THEN NO_LOCK
    ELSE IF IsAt(c, "unlockBytes") \/ IsAt(c, "unlock") THEN SHARED_LOCK ELSE eFileLock[c]
=============================================================================
