--------------------------- MODULE UnixShmProofs ---------------------------
(***************************************************************************)
(* Proofs about UnixShm, for any finite set of connections in any number   *)
(* of processes and any lock bytes.  IInv is inductive and implies the     *)
(* three invariants of UnixShm; with it every step is one of ShmLocks.     *)
(***************************************************************************)
EXTENDS UnixShm, FiniteSetTheorems, TLAPS

(***************************************************************************)
(* The inductive invariant                                                 *)
(***************************************************************************)
\* TypeOK without the bounds of the counters, which follow from what they
\* count.
Nodes == [ino : Nat, nRef : Int, aLock : [Slots -> Int]]
FLocks == [Slots \cup {DMS} -> {"UNLCK", "RDLCK", "WRLCK"}]
Calls == [conn : Conn, at : Steps]
Types ==
    /\ dbLock \in [Conn -> {NO_LOCK, SHARED_LOCK, EXCLUSIVE_LOCK}]
    /\ shmFile \in Nat /\ isFresh \in BOOLEAN /\ spoilt \in BOOLEAN
    /\ node \in [Proc -> Nodes]
    /\ isMapped \subseteq Conn /\ isDelete \subseteq isMapped
    /\ sharedMask \in [Conn -> SUBSET Slots] /\ exclMask \in [Conn -> SUBSET Slots]
    /\ flock \in [Proc -> FLocks]
    /\ opening \in [Proc -> {None} \cup Calls]

\* Who uses the wal-index has locked the database, and who will delete it has
\* the database for itself.
DbLocked ==
    /\ \A c \in isMapped : dbLock[c] # NO_LOCK
    /\ \A c \in isDelete : dbLock[c] = EXCLUSIVE_LOCK
    /\ \A c, d \in Conn : c # d /\ dbLock[c] = EXCLUSIVE_LOCK => dbLock[d] = NO_LOCK

\* A process that has the -shm file open has the file that is there.
Unused(p) == node[p] = NoNode /\ flock[p] = Unlocked /\ \A c \in isMapped : pid[c] # p
Used(p) == /\ node[p].ino = shmFile /\ shmFile # 0 /\ isFresh
           /\ flock[p][DMS] = "RDLCK"
           /\ \E c \in isMapped : pid[c] = p
Opens(p) ==
    /\ pid[opening[p].conn] = p /\ dbLock[opening[p].conn] = SHARED_LOCK
    /\ \A c \in isMapped : pid[c] # p
    /\ shmFile # 0 /\ node[p] = NewNode(shmFile)
    /\ opening[p].at \in {"getlk", "first"} => flock[p][DMS] = "UNLCK"
    /\ opening[p].at = "empty" => flock[p][DMS] = "WRLCK"
    /\ opening[p].at = "attach" => isFresh /\ flock[p][DMS] # "RDLCK"
NodeOk(p) == IF opening[p] = None THEN Unused(p) \/ Used(p) ELSE Opens(p)

Mapped(p) == {c \in isMapped : pid[c] = p}
RefsCounted == \A p \in Proc : node[p].nRef = Cardinality(Mapped(p))

\* Only who has a unixShm has masks; a byte that one connection has for itself
\* no other one has, and the kernel gave the process nothing others have.
MasksOk ==
    /\ \A c \in Conn : /\ c \notin isMapped => sharedMask[c] = {} /\ exclMask[c] = {}
                       /\ sharedMask[c] \cap exclMask[c] = {}
    /\ \A c, d \in Conn : c # d => exclMask[c] \cap (sharedMask[d] \cup exclMask[d]) = {}
KernelOk ==
    \A p, q \in Proc, b \in Slots \cup {DMS} :
        p # q /\ flock[p][b] = "WRLCK" => flock[q][b] = "UNLCK"

Sharers(p, i) == {c \in {d \in Conn : pid[d] = p} : i \in sharedMask[c]}
ArrayOk(p, i) ==
    /\ node[p].aLock[i] = IF \E c \in {d \in Conn : pid[d] = p} : i \in exclMask[c] THEN -1
                          ELSE Cardinality(Sharers(p, i))
    /\ flock[p][i] = IF node[p].aLock[i] < 0 THEN "WRLCK"
                     ELSE IF node[p].aLock[i] > 0 THEN "RDLCK" ELSE "UNLCK"

IInv ==
    /\ Types /\ DbLocked /\ (\A p \in Proc : NodeOk(p)) /\ RefsCounted /\ MasksOk /\ KernelOk
    /\ LockArrayOk /\ ~spoilt

(***************************************************************************)
(* One connection's step, and the end of processes                         *)
(***************************************************************************)
Opening(c) == OpenFile(c) \/ GetLk(c) \/ LockFirst(c) \/ Empty(c) \/ Attach(c)
Locking(c) == \/ \E i \in Slots : ShareSlot(c, i)
              \/ \E S \in Ranges : LockSlots(c, S) \/ UnlockSlots(c, S)
ConnStep(c) == \/ ShareDb(c) \/ OpenAgain(c) \/ Opening(c) \/ Locking(c)
               \/ CloseAlone(c) \/ Unmap(c) \/ UnlockDb(c)
Ends == \E P \in SUBSET Proc : /\ Gone(P) /\ UNCHANGED <<shmFile, spoilt>>
                               /\ isFresh' \in BOOLEAN /\ (P # Proc => isFresh' = isFresh)

\* Every step is one of a connection or the end of some processes, or of all
\* of them with the machine.
LEMMA StepCases == Next => (\E c \in Conn : ConnStep(c)) \/ (Types => Ends)
<1>1. ASSUME NEW p \in Proc, Kill(p), Types PROVE Ends
  BY <1>1 DEF Kill, Ends, Types
<1>2. ASSUME PowerFail PROVE Ends
  BY <1>2 DEF PowerFail, Ends
<1> QED BY <1>1, <1>2 DEF Next, ConnStep, Opening, Locking

\* The process of a connection is one of the processes.
LEMMA ProcOf == \A c \in Conn : pid[c] \in Proc
  BY DEF Proc

\* There are finitely many processes.
LEMMA FiniteProc == UnixShmConstants => IsFiniteSet(Proc) /\ Cardinality(Proc) \in Nat
<1> HAVE UnixShmConstants
<1> DEFINE f == [c \in Conn |-> pid[c]]
<1>1. f \in Surjection(Conn, Proc)
  BY DEF Surjection, Proc
<1>2. IsFiniteSet(Proc)
  BY <1>1, FS_Surjection DEF UnixShmConstants
<1> QED BY <1>2, FS_CardinalityType

\* A new -shm file has an inode of its own: while there is none no process
\* has one open.
LEMMA NewInode ==
    ASSUME UnixShmConstants, Types, \A p \in Proc : NodeOk(p), shmFile = 0
    PROVE  FreeInode \in Nat /\ FreeInode # 0
<1>1. \A q \in Proc : node[q].ino = 0
  BY DEF NodeOk, Unused, Used, Opens, NoNode, NewNode
<1>2. 1 \in 1..(Cardinality(Proc) + 1)
  BY FiniteProc
<1> QED BY <1>1, <1>2 DEF FreeInode

\* Changes of a node and of the locks of a process, one field or some bytes
\* at a time.
LEMMA Members ==
    /\ NoNode \in Nodes /\ Unlocked \in FLocks
    /\ \A n \in Nat : NewNode(n) \in Nodes
    /\ \A n \in Nodes : /\ n.ino \in Nat /\ n.nRef \in Int /\ n.aLock \in [Slots -> Int]
                        /\ \A k \in Int : WithRefs(n, k) \in Nodes
                        /\ \A f \in [Slots -> Int] : WithLocks(n, f) \in Nodes
    /\ \A c \in Conn, at \in Steps : [conn |-> c, at |-> at] \in Calls
  BY DEF NoNode, NewNode, Nodes, Unlocked, FLocks, WithRefs, WithLocks, Calls

\* What unixShmSystemLock changes.
LEMMA LockedBytes ==
    ASSUME Types, NEW p \in Proc, NEW B \in SUBSET (Slots \cup {DMS}),
           NEW type \in {"UNLCK", "RDLCK", "WRLCK"}, SystemLock(p, B, type)
    PROVE  /\ flock' \in [Proc -> FLocks]
           /\ \A q \in Proc : q # p => flock'[q] = flock[q]
           /\ \A b \in Slots \cup {DMS} : flock'[p][b] = IF b \in B THEN type ELSE flock[p][b]
  BY DEF Types, SystemLock, FLocks

\* Types is kept by every operation.
LEMMA TypesStep ==
    ASSUME UnixShmConstants, Types, \A p \in Proc : NodeOk(p), NEW c \in Conn, ConnStep(c)
    PROVE  Types'
<1> USE ProcOf, Members DEF Types, fileVars, lockVars, Goes, Purge, OpenFails, SetLocks, aLock
<1>0. "getlk" \in Steps /\ "first" \in Steps /\ "empty" \in Steps /\ "attach" \in Steps
  BY DEF Steps
<1>1. CASE ShareDb(c) BY <1>1 DEF ShareDb
<1>2. CASE OpenAgain(c) BY <1>2 DEF OpenAgain
<1>3. CASE OpenFile(c) BY <1>0, <1>3, NewInode DEF OpenFile
<1>f. ASSUME OpenFails(c)
      PROVE  /\ opening' \in [Proc -> {None} \cup Calls]
             /\ node' \in [Proc -> Nodes] /\ flock' \in [Proc -> FLocks]
             /\ isFresh' \in BOOLEAN /\ spoilt' \in BOOLEAN
  BY <1>f
<1>4. CASE GetLk(c)
  <2>1. CASE IsBeingEmptied(pid[c])
    BY <1>4, <1>f, <2>1 DEF GetLk
  <2>2. CASE ~IsBeingEmptied(pid[c])
    <3>1. PICK at \in Steps : Goes(c, at)
      BY <1>0, <1>4, <2>2, Zenon DEF GetLk
    <3>2. opening' \in [Proc -> {None} \cup Calls]
      BY <3>1
    <3> QED BY <1>4, <2>2, <3>2 DEF GetLk
  <2> QED BY <2>1, <2>2
<1>5. CASE LockFirst(c)
  <2>1. CASE IsFirst(pid[c])
    <3>1. flock' \in [Proc -> FLocks]
      BY <1>5, <2>1, LockedBytes DEF LockFirst
    <3>2. opening' \in [Proc -> {None} \cup Calls]
      <4>1. PICK at \in Steps : Goes(c, at)
        BY <1>0, <1>5, <2>1, Zenon DEF LockFirst
      <4> QED BY <4>1
    <3> QED BY <1>5, <2>1, <3>1, <3>2 DEF LockFirst
  <2>2. CASE ~IsFirst(pid[c])
    BY <1>5, <1>f, <2>2 DEF LockFirst
  <2> QED BY <2>1, <2>2
<1>6. CASE Empty(c) BY <1>0, <1>6 DEF Empty
<1>7. CASE Attach(c)
  <2>1. CASE Granted(pid[c], {DMS}, "RDLCK")
    <3>1. flock' \in [Proc -> FLocks]
      BY <1>7, <2>1, LockedBytes DEF Attach
    <3>2. WithRefs(node[pid[c]], 1) \in Nodes
      OBVIOUS
    <3>3. node' \in [Proc -> Nodes]
      BY <1>7, <2>1, <3>2 DEF Attach
    <3> QED BY <1>7, <2>1, <3>1, <3>3 DEF Attach
  <2>2. CASE ~Granted(pid[c], {DMS}, "RDLCK")
    BY <1>7, <1>f, <2>2 DEF Attach
  <2> QED BY <2>1, <2>2
<1>8. ASSUME NEW i \in Slots, ShareSlot(c, i) PROVE Types'
  <2>1. flock' \in [Proc -> FLocks]
    BY <1>8, LockedBytes DEF ShareSlot
  <2>2. [aLock(c) EXCEPT ![i] = @ + 1] \in [Slots -> Int]
    OBVIOUS
  <2>3. node' \in [Proc -> Nodes]
    BY <1>8, <2>2 DEF ShareSlot
  <2>4. /\ UNCHANGED <<fileVars, exclMask, isMapped, opening, isDelete>>
        /\ sharedMask' \in [Conn -> SUBSET Slots]
    BY <1>8 DEF ShareSlot
  <2> QED BY <2>1, <2>3, <2>4
<1>9. ASSUME NEW S \in Ranges, LockSlots(c, S) PROVE Types'
  <2>0. S \subseteq Slots BY DEF UnixShmConstants
  <2>1. flock' \in [Proc -> FLocks]
    BY <1>9, <2>0, LockedBytes DEF LockSlots
  <2>2. [i \in Slots |-> IF i \in S THEN -1 ELSE aLock(c)[i]] \in [Slots -> Int]
    OBVIOUS
  <2>3. node' \in [Proc -> Nodes]
    BY <1>9, <2>2 DEF LockSlots
  <2>4. /\ UNCHANGED <<fileVars, sharedMask, isMapped, opening, isDelete>>
        /\ exclMask' \in [Conn -> SUBSET Slots]
    BY <1>9, <2>0 DEF LockSlots
  <2> QED BY <2>1, <2>3, <2>4
<1>10. ASSUME NEW S \in Ranges, UnlockSlots(c, S) PROVE Types'
  <2>0. S \subseteq Slots BY DEF UnixShmConstants
  <2>1. flock' \in [Proc -> FLocks]
    <3>1. CASE IsLast(c, S) BY <1>10, <2>0, <3>1, LockedBytes DEF UnlockSlots
    <3>2. CASE ~IsLast(c, S) BY <1>10, <3>2 DEF UnlockSlots
    <3> QED BY <3>1, <3>2
  <2>2. node' \in [Proc -> Nodes]
    <3>1. /\ [i \in Slots |-> IF i \in S THEN 0 ELSE aLock(c)[i]] \in [Slots -> Int]
          /\ [i \in Slots |-> IF i \in S THEN aLock(c)[i] - 1 ELSE aLock(c)[i]] \in [Slots -> Int]
      OBVIOUS
    <3>2. PICK f \in [Slots -> Int] : SetLocks(c, f)
      BY <1>10, <3>1, Zenon DEF UnlockSlots
    <3> QED BY <3>2
  <2>3. /\ UNCHANGED <<fileVars, isMapped, opening, isDelete>>
        /\ sharedMask' \in [Conn -> SUBSET Slots] /\ exclMask' \in [Conn -> SUBSET Slots]
    BY <1>10, <2>0 DEF UnlockSlots
  <2> QED BY <2>1, <2>2, <2>3
<1>11. CASE CloseAlone(c) BY <1>11 DEF CloseAlone
<1>12. CASE Unmap(c)
  <2>0. WithRefs(node[pid[c]], node[pid[c]].nRef - 1) \in Nodes
    OBVIOUS
  <2>1. node' \in [Proc -> Nodes] /\ flock' \in [Proc -> FLocks]
    BY <1>12, <2>0 DEF Unmap
  <2>2. shmFile' \in Nat
    BY <1>12 DEF Unmap
  <2> QED BY <1>12, <2>1, <2>2 DEF Unmap
<1>13. CASE UnlockDb(c) BY <1>13 DEF UnlockDb
<1> QED BY <1>1, <1>2, <1>3, <1>4, <1>5, <1>6, <1>7, <1>8, <1>9, <1>10, <1>11, <1>12, <1>13
        DEF ConnStep, Opening, Locking

\* The step of a connection leaves the other processes and the other
\* connections alone, but for the file that they share.
LEMMA Untouched ==
    ASSUME UnixShmConstants, Types, NEW c \in Conn, ConnStep(c)
    PROVE  /\ \A q \in Proc : q # pid[c] => /\ node'[q] = node[q] /\ flock'[q] = flock[q]
                                            /\ opening'[q] = opening[q]
           /\ \A d \in Conn : d # c => /\ dbLock'[d] = dbLock[d]
                                       /\ (d \in isMapped' <=> d \in isMapped)
                                       /\ sharedMask'[d] = sharedMask[d]
                                       /\ exclMask'[d] = exclMask[d]
           /\ (isFresh => isFresh')
           /\ isDelete' \subseteq isDelete \cup {c}
<1> USE ProcOf DEF Types, fileVars, lockVars, Goes, Purge, OpenFails, SetLocks, SystemLock
<1>1. \A q \in Proc : q # pid[c] => node'[q] = node[q] /\ opening'[q] = opening[q]
  <2>1. CASE ShareDb(c) BY <2>1 DEF ShareDb
  <2>2. CASE OpenAgain(c) BY <2>2 DEF OpenAgain
  <2>3. CASE OpenFile(c) BY <2>3 DEF OpenFile
  <2>4. CASE GetLk(c) BY <2>4 DEF GetLk
  <2>5. CASE LockFirst(c) BY <2>5 DEF LockFirst
  <2>6. CASE Empty(c) BY <2>6 DEF Empty
  <2>7. CASE Attach(c) BY <2>7 DEF Attach
  <2>8. CASE CloseAlone(c) BY <2>8 DEF CloseAlone
  <2>9. CASE Unmap(c) BY <2>9 DEF Unmap
  <2>10. CASE UnlockDb(c) BY <2>10 DEF UnlockDb
  <2>11. CASE \E i \in Slots : ShareSlot(c, i) BY <2>11 DEF ShareSlot
  <2>12. CASE \E S \in Ranges : LockSlots(c, S) BY <2>12 DEF LockSlots
  <2>13. CASE \E S \in Ranges : UnlockSlots(c, S) BY <2>13 DEF UnlockSlots
  <2> QED BY <2>1, <2>2, <2>3, <2>4, <2>5, <2>6, <2>7, <2>8, <2>9, <2>10, <2>11, <2>12, <2>13 DEF ConnStep, Opening, Locking
<1>2. \A q \in Proc : q # pid[c] => flock'[q] = flock[q]
  <2>1. CASE ShareDb(c) BY <2>1 DEF ShareDb
  <2>2. CASE OpenAgain(c) BY <2>2 DEF OpenAgain
  <2>3. CASE OpenFile(c) BY <2>3 DEF OpenFile
  <2>4. CASE GetLk(c) BY <2>4 DEF GetLk
  <2>5. CASE LockFirst(c) BY <2>5 DEF LockFirst
  <2>6. CASE Empty(c) BY <2>6 DEF Empty
  <2>7. CASE Attach(c) BY <2>7 DEF Attach
  <2>8. CASE CloseAlone(c) BY <2>8 DEF CloseAlone
  <2>9. CASE Unmap(c) BY <2>9 DEF Unmap
  <2>10. CASE UnlockDb(c) BY <2>10 DEF UnlockDb
  <2>11. CASE \E i \in Slots : ShareSlot(c, i) BY <2>11 DEF ShareSlot
  <2>12. CASE \E S \in Ranges : LockSlots(c, S) BY <2>12 DEF LockSlots
  <2>13. CASE \E S \in Ranges : UnlockSlots(c, S) BY <2>13 DEF UnlockSlots
  <2> QED BY <2>1, <2>2, <2>3, <2>4, <2>5, <2>6, <2>7, <2>8, <2>9, <2>10, <2>11, <2>12, <2>13 DEF ConnStep, Opening, Locking
<1>3. \A d \in Conn : d # c => /\ dbLock'[d] = dbLock[d]
                               /\ (d \in isMapped' <=> d \in isMapped)
  <2>1. CASE ShareDb(c) BY <2>1 DEF ShareDb
  <2>2. CASE OpenAgain(c) BY <2>2 DEF OpenAgain
  <2>3. CASE OpenFile(c) BY <2>3 DEF OpenFile
  <2>4. CASE GetLk(c) BY <2>4 DEF GetLk
  <2>5. CASE LockFirst(c) BY <2>5 DEF LockFirst
  <2>6. CASE Empty(c) BY <2>6 DEF Empty
  <2>7. CASE Attach(c) BY <2>7 DEF Attach
  <2>8. CASE CloseAlone(c) BY <2>8 DEF CloseAlone
  <2>9. CASE Unmap(c) BY <2>9 DEF Unmap
  <2>10. CASE UnlockDb(c) BY <2>10 DEF UnlockDb
  <2>11. CASE \E i \in Slots : ShareSlot(c, i) BY <2>11 DEF ShareSlot
  <2>12. CASE \E S \in Ranges : LockSlots(c, S) BY <2>12 DEF LockSlots
  <2>13. CASE \E S \in Ranges : UnlockSlots(c, S) BY <2>13 DEF UnlockSlots
  <2> QED BY <2>1, <2>2, <2>3, <2>4, <2>5, <2>6, <2>7, <2>8, <2>9, <2>10, <2>11, <2>12, <2>13 DEF ConnStep, Opening, Locking
<1>4. \A d \in Conn : d # c => /\ sharedMask'[d] = sharedMask[d]
                               /\ exclMask'[d] = exclMask[d]
  <2>1. CASE ShareDb(c) BY <2>1 DEF ShareDb
  <2>2. CASE OpenAgain(c) BY <2>2 DEF OpenAgain
  <2>3. CASE OpenFile(c) BY <2>3 DEF OpenFile
  <2>4. CASE GetLk(c) BY <2>4 DEF GetLk
  <2>5. CASE LockFirst(c) BY <2>5 DEF LockFirst
  <2>6. CASE Empty(c) BY <2>6 DEF Empty
  <2>7. CASE Attach(c) BY <2>7 DEF Attach
  <2>8. CASE CloseAlone(c) BY <2>8 DEF CloseAlone
  <2>9. CASE Unmap(c) BY <2>9 DEF Unmap
  <2>10. CASE UnlockDb(c) BY <2>10 DEF UnlockDb
  <2>11. CASE \E i \in Slots : ShareSlot(c, i) BY <2>11 DEF ShareSlot
  <2>12. CASE \E S \in Ranges : LockSlots(c, S) BY <2>12 DEF LockSlots
  <2>13. CASE \E S \in Ranges : UnlockSlots(c, S) BY <2>13 DEF UnlockSlots
  <2> QED BY <2>1, <2>2, <2>3, <2>4, <2>5, <2>6, <2>7, <2>8, <2>9, <2>10, <2>11, <2>12, <2>13 DEF ConnStep, Opening, Locking
<1>5. isFresh => isFresh'
  BY DEF ConnStep, Opening, Locking, ShareDb, OpenAgain, OpenFile, GetLk, LockFirst, Empty, Attach,
         ShareSlot, LockSlots, UnlockSlots, CloseAlone, Unmap, UnlockDb
<1>6. isDelete' \subseteq isDelete \cup {c}
  BY DEF ConnStep, Opening, Locking, ShareDb, OpenAgain, OpenFile, GetLk, LockFirst, Empty, Attach,
         ShareSlot, LockSlots, UnlockSlots, CloseAlone, Unmap, UnlockDb
<1> QED BY <1>1, <1>2, <1>3, <1>4, <1>5, <1>6

\* DbLocked is kept: a connection locks the database before it uses the
\* wal-index, and has it for itself before it will delete it.
LEMMA DbLockedStep ==
    ASSUME UnixShmConstants, Types, DbLocked, \A p \in Proc : NodeOk(p), NEW c \in Conn, ConnStep(c)
    PROVE  DbLocked'
<1> USE ProcOf DEF Types, DbLocked, fileVars, lockVars, NO_LOCK, SHARED_LOCK, EXCLUSIVE_LOCK
<1>1. CASE ShareDb(c) BY <1>1 DEF ShareDb
<1>2. CASE OpenAgain(c) BY <1>2 DEF OpenAgain
<1>3. CASE OpenFile(c) BY <1>3 DEF OpenFile
<1>4. CASE GetLk(c) BY <1>4 DEF GetLk
<1>5. CASE LockFirst(c) BY <1>5 DEF LockFirst
<1>6. CASE Empty(c) BY <1>6 DEF Empty
<1>7. CASE Attach(c)
  <2>1. dbLock[c] # NO_LOCK
    BY <1>7 DEF Attach, IsAt, NodeOk, Opens, UnixShmConstants, Steps
  <2> QED BY <1>7, <2>1 DEF Attach
<1>8. CASE Locking(c) BY <1>8 DEF Locking, ShareSlot, LockSlots, UnlockSlots
<1>11. CASE CloseAlone(c) BY <1>11 DEF CloseAlone, IsAlone
<1>12. CASE Unmap(c) BY <1>12 DEF Unmap
<1>13. CASE UnlockDb(c) BY <1>13 DEF UnlockDb
<1> QED BY <1>1, <1>2, <1>3, <1>4, <1>5, <1>6, <1>7, <1>8, <1>11, <1>12, <1>13
        DEF ConnStep, Opening

\* The file is made when there is none, and deleted by the last connection
\* that has locked the database: no other process has it open then.
LEMMA FileChanges ==
    ASSUME UnixShmConstants, Types, DbLocked, \A p \in Proc : NodeOk(p), NEW c \in Conn, ConnStep(c),
           shmFile' # shmFile
    PROVE  \A q \in Proc : q # pid[c] => opening[q] = None /\ Unused(q)
<1> USE ProcOf DEF NodeOk, Used, Opens, fileVars
<1> SUFFICES ASSUME NEW q \in Proc, q # pid[c] PROVE opening[q] = None /\ Unused(q)
  OBVIOUS
<1>1. CASE OpenFile(c)
  <2>1. shmFile = 0 BY <1>1 DEF OpenFile
  <2> QED BY <2>1
<1>2. CASE Unmap(c)
  <2>1. c \in isDelete /\ dbLock[c] = EXCLUSIVE_LOCK
    BY <1>2 DEF Unmap, DbLocked
  <2>2. \A d \in Conn : d # c => dbLock[d] = NO_LOCK
    BY <2>1 DEF DbLocked
  <2>3. \A d \in isMapped : d = c
    BY <2>2 DEF DbLocked, Types
  <2>4. opening[q] = None
    <3> SUFFICES ASSUME opening[q] # None PROVE FALSE
      OBVIOUS
    <3>1. opening[q].conn \in Conn
      BY DEF Types, Calls
    <3> QED BY <2>2, <3>1 DEF NO_LOCK, SHARED_LOCK
  <2> QED BY <2>3, <2>4
<1> QED BY <1>1, <1>2 DEF ConnStep, Opening, Locking, ShareDb, OpenAgain, GetLk, LockFirst, Empty,
      Attach, ShareSlot, LockSlots, UnlockSlots, CloseAlone, UnlockDb

\* So the other processes have open the file that is there, as before.
LEMMA NodeOthers ==
    ASSUME UnixShmConstants, Types, DbLocked, \A p \in Proc : NodeOk(p), NEW c \in Conn, ConnStep(c),
           NEW q \in Proc, q # pid[c]
    PROVE  NodeOk(q)'
<1>0. /\ node'[q] = node[q] /\ flock'[q] = flock[q] /\ opening'[q] = opening[q]
      /\ (isFresh => isFresh')
  BY Untouched
<1>d. ASSUME NEW d \in Conn, pid[d] = q
      PROVE  dbLock'[d] = dbLock[d] /\ (d \in isMapped' <=> d \in isMapped)
  <2>1. d # c BY <1>d
  <2> QED BY <2>1, Untouched
<1>m. isMapped \subseteq Conn /\ isMapped' \subseteq Conn
  BY TypesStep DEF Types
<1>1. CASE opening[q] = None /\ Unused(q)
  BY <1>0, <1>d, <1>1, <1>m DEF NodeOk, Unused
<1>2. CASE ~(opening[q] = None /\ Unused(q))
  <2>1. shmFile' = shmFile
    BY <1>2, FileChanges
  <2>2. CASE opening[q] = None
    <3>1. Used(q) BY <1>2, <2>2 DEF NodeOk
    <3>2. Used(q)' BY <1>0, <1>d, <1>m, <2>1, <3>1 DEF Used
    <3> QED BY <1>0, <2>2, <3>2 DEF NodeOk
  <2>3. CASE opening[q] # None
    <3>1. Opens(q) BY <2>3 DEF NodeOk
    <3>2. opening[q].conn \in Conn BY <2>3 DEF Types, Calls
    <3>3. Opens(q)'
      BY <1>0, <1>d, <1>m, <2>1, <3>1, <3>2 DEF Opens, NewNode
    <3> QED BY <1>0, <2>3, <3>3 DEF NodeOk
  <2> QED BY <2>2, <2>3
<1> QED BY <1>1, <1>2

\* The process of a connection that opens goes from step to step, holding the
\* dead man's switch when the next step relies on it.
LEMMA NodeOpening ==
    ASSUME UnixShmConstants, Types, DbLocked, \A p \in Proc : NodeOk(p), NEW c \in Conn, Opening(c)
    PROVE  NodeOk(pid[c])'
<1> DEFINE p == pid[c]
<1> USE ProcOf DEF Types
<1>c. \A at : None # [conn |-> c, at |-> at] \/ at \notin Steps
  BY DEF UnixShmConstants
<1>n. /\ NoNode.ino = 0 /\ \A n : NewNode(n).ino = n
      /\ Unlocked[DMS] = "UNLCK"
  BY DEF NoNode, NewNode, Unlocked
<1>f. ASSUME OpenFails(c), UNCHANGED isMapped, opening[p] # None PROVE NodeOk(p)'
  BY <1>f DEF OpenFails, Purge, NodeOk, Unused, Opens, NoNode, NewNode, Unlocked
<1>1. CASE OpenFile(c)
  <2>0. Unused(p)
    BY <1>1, <1>n DEF OpenFile, BigLockFree, NodeOk, Used
  <2>1. opening'[p] = [conn |-> c, at |-> "getlk"] /\ opening'[p] # None
    BY <1>1, <1>c DEF OpenFile, Goes, Steps
  <2>2. shmFile' # 0 /\ node'[p] = NewNode(shmFile')
    BY <1>1, NewInode DEF OpenFile
  <2>3. flock'[p][DMS] = "UNLCK" /\ isMapped' = isMapped /\ dbLock' = dbLock /\ dbLock[c] = SHARED_LOCK
    BY <1>1, <2>0, <1>n DEF OpenFile, Unused, lockVars
  <2>4. Opens(p)'
    BY <2>0, <2>1, <2>2, <2>3 DEF Opens, Unused, NewNode
  <2> QED BY <2>1, <2>4 DEF NodeOk
<1>o. ASSUME NEW at \in Steps, IsAt(c, at)
      PROVE  opening[p] # None /\ opening[p] = [conn |-> c, at |-> at] /\ Opens(p)
  BY <1>o, <1>c DEF IsAt, NodeOk
<1>s. "getlk" \in Steps /\ "first" \in Steps /\ "empty" \in Steps /\ "attach" \in Steps
  BY DEF Steps
<1>2. CASE GetLk(c)
  <2>0. opening[p] # None /\ opening[p] = [conn |-> c, at |-> "getlk"] /\ Opens(p)
    BY <1>2, <1>o, <1>s DEF GetLk
  <2>1. CASE IsBeingEmptied(p)
    BY <1>2, <1>f, <2>0, <2>1 DEF GetLk
  <2>2. CASE ~IsBeingEmptied(p)
    <3>1. PICK at \in {"attach", "first"} :
             /\ opening'[p] = [conn |-> c, at |-> at]
             /\ at = "attach" => OthersHold(p, DMS, {"RDLCK", "WRLCK"})
      BY <1>2, <2>2, Zenon DEF GetLk, Goes
    <3>2. UNCHANGED <<node, flock, isFresh, shmFile, isMapped, dbLock>>
      BY <1>2, <2>2, Zenon DEF GetLk
    <3>3. at = "attach" => isFresh
      <4> SUFFICES ASSUME at = "attach" PROVE isFresh OBVIOUS
      <4>1. PICK q \in Proc \ {p} : node[q].ino = node[p].ino /\ flock[q][DMS] = "RDLCK"
        BY <2>2, <3>1 DEF OthersHold, IsBeingEmptied
      <4>2. Unlocked[DMS] = "UNLCK" BY <1>n
      <4> QED BY <4>1, <4>2 DEF NodeOk, Unused, Used, Opens, Calls, Steps
    <3>4. Opens(p)'
      BY <2>0, <3>1, <3>2, <3>3 DEF Opens, NewNode
    <3>5. opening'[p] # None
      BY <3>1, <1>c, <1>s
    <3> QED BY <3>4, <3>5 DEF NodeOk
  <2> QED BY <2>1, <2>2
<1>3. CASE LockFirst(c)
  <2>0. opening[p] # None /\ opening[p] = [conn |-> c, at |-> "first"] /\ Opens(p)
    BY <1>3, <1>o, <1>s DEF LockFirst
  <2>1. CASE ~IsFirst(p)
    BY <1>3, <1>f, <2>0, <2>1 DEF LockFirst
  <2>2. CASE IsFirst(p)
    <3>1. opening'[p] = [conn |-> c, at |-> "empty"] /\ opening'[p] # None
      BY <1>3, <2>2, <1>c, <1>s DEF LockFirst, Goes
    <3>2. UNCHANGED <<node, isFresh, shmFile, isMapped, dbLock>>
      BY <1>3, <2>2, Zenon DEF LockFirst
    <3>3. flock'[p][DMS] = "WRLCK"
      BY <1>3, <2>2, LockedBytes DEF LockFirst
    <3>4. Opens(p)'
      BY <2>0, <3>1, <3>2, <3>3 DEF Opens, NewNode
    <3> QED BY <3>1, <3>4 DEF NodeOk
  <2> QED BY <2>1, <2>2
<1>4. CASE Empty(c)
  <2>0. opening[p] # None /\ opening[p] = [conn |-> c, at |-> "empty"] /\ Opens(p)
    BY <1>4, <1>o, <1>s DEF Empty
  <2>1. opening'[p] = [conn |-> c, at |-> "attach"] /\ opening'[p] # None
    BY <1>4, <1>c, <1>s DEF Empty, Goes
  <2>2. UNCHANGED <<node, flock, shmFile, isMapped, dbLock>> /\ isFresh'
    BY <1>4 DEF Empty, lockVars
  <2>3. Opens(p)'
    BY <2>0, <2>1, <2>2 DEF Opens, NewNode
  <2> QED BY <2>1, <2>3 DEF NodeOk
<1>5. CASE Attach(c)
  <2>0. opening[p] # None /\ opening[p] = [conn |-> c, at |-> "attach"] /\ Opens(p)
    BY <1>5, <1>o, <1>s DEF Attach
  <2>1. CASE ~Granted(p, {DMS}, "RDLCK")
    BY <1>5, <1>f, <2>0, <2>1 DEF Attach
  <2>2. CASE Granted(p, {DMS}, "RDLCK")
    <3>1. opening'[p] = None /\ c \in isMapped' /\ UNCHANGED <<isFresh, shmFile>>
      BY <1>5, <2>2 DEF Attach
    <3>2. flock'[p][DMS] = "RDLCK"
      BY <1>5, <2>2, LockedBytes DEF Attach
    <3>3. node'[p].ino = node[p].ino
      BY <1>5, <2>2 DEF Attach, WithRefs
    <3>4. Used(p)'
      BY <2>0, <3>1, <3>2, <3>3, <1>n DEF Used, Opens
    <3> QED BY <3>1, <3>4 DEF NodeOk
  <2> QED BY <2>1, <2>2
<1> QED BY <1>1, <1>2, <1>3, <1>4, <1>5 DEF Opening

\* A connection that has a unixShm is not opening one, nor is any other one
\* of its process.
LEMMA MappedUses ==
    ASSUME Types, NEW p \in Proc, NodeOk(p), NEW c \in isMapped, pid[c] = p
    PROVE  opening[p] = None /\ Used(p)
  BY DEF NodeOk, Unused, Opens

\* What nRef counts is finite.
LEMMA FiniteMapped ==
    ASSUME UnixShmConstants, Types, NEW p
    PROVE  IsFiniteSet(Mapped(p)) /\ Cardinality(Mapped(p)) \in 0..Cardinality(Conn)
<1>1. Mapped(p) \in SUBSET Conn
  BY DEF Mapped, Types
<1> QED BY <1>1, FS_Subset, FS_CardinalityType DEF UnixShmConstants

\* The last connection that unmaps the file leaves its process without one.
LEMMA NodeOwn ==
    ASSUME UnixShmConstants, Types, DbLocked, \A p \in Proc : NodeOk(p), RefsCounted,
           NEW c \in Conn, ConnStep(c)
    PROVE  NodeOk(pid[c])'
<1> DEFINE p == pid[c]
<1> USE ProcOf DEF Types, fileVars, lockVars
<1>1. CASE Opening(c) BY <1>1, NodeOpening
<1>2. CASE ShareDb(c) \/ CloseAlone(c) \/ UnlockDb(c)
  <2>1. UNCHANGED <<node, flock, opening, isMapped, shmFile, isFresh>>
    BY <1>2 DEF ShareDb, CloseAlone, UnlockDb
  <2>2. ASSUME opening[p] # None PROVE dbLock'[opening[p].conn] = SHARED_LOCK
    <3>1. /\ opening[p].conn \in Conn /\ opening[p].at \in Steps
          /\ opening[p] = [conn |-> opening[p].conn, at |-> opening[p].at]
      BY <2>2 DEF Calls
    <3>2. dbLock[opening[p].conn] = SHARED_LOCK /\ pid[opening[p].conn] = p
      BY <2>2 DEF NodeOk, Opens
    <3>3. CASE ShareDb(c)
      BY <3>1, <3>2, <3>3 DEF ShareDb, NO_LOCK, SHARED_LOCK
    <3>4. CASE CloseAlone(c)
      BY <2>2, <3>4, MappedUses DEF CloseAlone
    <3>5. CASE UnlockDb(c)
      BY <3>1, <3>2, <3>5 DEF UnlockDb, IsOpening, IsAt
    <3> QED BY <1>2, <3>3, <3>4, <3>5
  <2> QED BY <2>1, <2>2 DEF NodeOk, Unused, Used, Opens, NoNode, NewNode, Unlocked
<1>3. CASE OpenAgain(c)
  <2>1. opening[p] = None /\ Used(p)
    BY <1>3 DEF OpenAgain, BigLockFree, NodeOk, Unused
  <2>2. /\ node'[p].ino = node[p].ino /\ isMapped \subseteq isMapped'
        /\ UNCHANGED <<flock, opening, shmFile, isFresh>>
    BY <1>3 DEF OpenAgain, WithRefs
  <2> QED BY <2>1, <2>2 DEF NodeOk, Used
<1>4. CASE Locking(c)
  <2>1. opening[p] = None /\ Used(p)
    <3>1. c \in isMapped
      BY <1>4 DEF Locking, ShareSlot, LockSlots, UnlockSlots
    <3> QED BY <3>1, MappedUses
  <2>2. node'[p].ino = node[p].ino /\ UNCHANGED <<opening, shmFile, isFresh, isMapped>>
    <3>1. PICK f : SetLocks(c, f)
      BY <1>4 DEF Locking, ShareSlot, LockSlots, UnlockSlots
    <3> QED BY <1>4, <3>1 DEF Locking, ShareSlot, LockSlots, UnlockSlots, SetLocks, WithLocks
  <2>3. flock'[p][DMS] = flock[p][DMS]
    <3>1. PICK B \in SUBSET Slots :
             UNCHANGED flock \/ \E type \in {"UNLCK", "RDLCK", "WRLCK"} : SystemLock(p, B, type)
      <4>1. CASE \E i \in Slots : ShareSlot(c, i)
        <5>1. PICK i \in Slots : ShareSlot(c, i) BY <4>1
        <5>2. UNCHANGED flock \/ SystemLock(p, {i}, "RDLCK") BY <5>1 DEF ShareSlot
        <5> QED BY <5>2
      <4>2. CASE \E S \in Ranges : LockSlots(c, S) \/ UnlockSlots(c, S)
        <5>1. PICK S \in Ranges : LockSlots(c, S) \/ UnlockSlots(c, S) BY <4>2
        <5>2. UNCHANGED flock \/ SystemLock(p, S, "WRLCK") \/ SystemLock(p, S, "UNLCK")
          BY <5>1 DEF LockSlots, UnlockSlots
        <5>3. S \in SUBSET Slots BY DEF UnixShmConstants
        <5> QED BY <5>2, <5>3
      <4> QED BY <1>4, <4>1, <4>2 DEF Locking
    <3>2. DMS \notin Slots
      BY DEF DMS, UnixShmConstants
    <3> QED BY <3>1, <3>2, LockedBytes
  <2> QED BY <2>1, <2>2, <2>3 DEF NodeOk, Used
<1>5. CASE Unmap(c)
  <2>1. opening[p] = None /\ Used(p) /\ opening' = opening /\ isMapped' = isMapped \ {c} /\ isFresh' = isFresh
    BY <1>5, MappedUses DEF Unmap
  <2>2. c \in Mapped(p) /\ IsFiniteSet(Mapped(p)) /\ node[p].nRef = Cardinality(Mapped(p))
    BY <1>5, FiniteMapped DEF Mapped, RefsCounted, Unmap
  <2>3. CASE node[p].nRef = 1
    <3>0. PICK e : Mapped(p) = {e}
      BY <2>2, <2>3, FS_Singleton
    <3>1. Mapped(p) = {c}
      BY <2>2, <3>0
    <3>2. \A d \in isMapped' : pid[d] # p
      BY <2>1, <3>1 DEF Mapped
    <3>3. node'[p] = NoNode /\ flock'[p] = Unlocked
      BY <1>5, <2>3 DEF Unmap, Purge
    <3>4. Unused(p)'
      BY <3>2, <3>3 DEF Unused, NoNode, NewNode, Unlocked
    <3> QED BY <2>1, <3>4 DEF NodeOk
  <2>4. CASE node[p].nRef # 1
    <3>1. Mapped(p) # {c}
      BY <2>2, <2>4, FS_Singleton
    <3>2. PICK d \in isMapped : d # c /\ pid[d] = p
      BY <2>2, <3>1 DEF Mapped
    <3>3. node'[p].ino = node[p].ino /\ UNCHANGED <<flock, shmFile>>
      BY <1>5, <2>4 DEF Unmap, WithRefs
    <3>4. Used(p)'
      BY <2>1, <3>2, <3>3 DEF Used
    <3> QED BY <2>1, <3>4 DEF NodeOk
  <2> QED BY <2>3, <2>4
<1> QED BY <1>1, <1>2, <1>3, <1>4, <1>5 DEF ConnStep

\* nRef counts the connections of the process that have a unixShm.
LEMMA RefsStep ==
    ASSUME UnixShmConstants, Types, \A p \in Proc : NodeOk(p), RefsCounted,
           NEW c \in Conn, ConnStep(c)
    PROVE  RefsCounted'
<1> USE ProcOf
<1> DEFINE p == pid[c]
<1>1. ASSUME NEW q \in Proc, q # p PROVE node'[q].nRef = Cardinality(Mapped(q)')
  <2>1. node'[q] = node[q]
    BY <1>1, Untouched
  <2>2. Mapped(q)' = Mapped(q)
    <3>1. \A d \in Conn : pid[d] = q => (d \in isMapped' <=> d \in isMapped)
      <4> SUFFICES ASSUME NEW d \in Conn, pid[d] = q PROVE d \in isMapped' <=> d \in isMapped
        OBVIOUS
      <4>1. d # c BY <1>1
      <4> QED BY <4>1, Untouched
    <3>2. isMapped \subseteq Conn /\ isMapped' \subseteq Conn
      BY TypesStep DEF Types
    <3> QED BY <3>1, <3>2 DEF Mapped
  <2> QED BY <2>1, <2>2 DEF RefsCounted
<1>2. node'[p].nRef = Cardinality(Mapped(p)')
  <2>0. /\ node[p].nRef = Cardinality(Mapped(p)) /\ IsFiniteSet(Mapped(p)) /\ node[p] \in Nodes
        /\ node \in [Proc -> Nodes]
    BY FiniteMapped DEF RefsCounted, Types
  <2>1. CASE isMapped' = isMapped /\ node'[p].nRef = node[p].nRef
    BY <2>0, <2>1 DEF Mapped
  <2>2. CASE OpenAgain(c)
    <3>1. Mapped(p)' = Mapped(p) \cup {c} /\ c \notin Mapped(p)
      BY <2>2 DEF Mapped, OpenAgain
    <3>2. node'[p].nRef = node[p].nRef + 1
      BY <2>0, <2>2 DEF OpenAgain, WithRefs
    <3> QED BY <2>0, <3>1, <3>2, FS_AddElement
  <2>o. ASSUME NEW at \in Steps, IsAt(c, at) PROVE Mapped(p) = {} /\ node[p] = NewNode(shmFile)
    BY <2>o DEF IsAt, NodeOk, Opens, UnixShmConstants, Mapped
  <2>f. ASSUME NEW at \in Steps, IsAt(c, at), OpenFails(c), UNCHANGED isMapped
        PROVE  node'[p].nRef = Cardinality(Mapped(p)')
    <3>1. Mapped(p)' = {} BY <2>o, <2>f DEF Mapped
    <3>2. node'[p].nRef = 0
      BY <2>0, <2>f DEF OpenFails, Purge, NoNode, NewNode
    <3> QED BY <3>1, <3>2, FS_EmptySet
  <2>3. CASE OpenFile(c)
    <3>1. node[p].nRef = 0 /\ node'[p].nRef = 0 /\ isMapped' = isMapped
      BY <2>0, <2>3 DEF OpenFile, NoNode, NewNode
    <3> QED BY <2>0, <3>1 DEF Mapped
  <2>4. CASE GetLk(c) \/ LockFirst(c) \/ Empty(c)
    BY <2>1, <2>f, <2>4 DEF GetLk, LockFirst, Empty, Steps
  <2>5. CASE Attach(c)
    <3>0. Mapped(p) = {} BY <2>5, <2>o DEF Attach, Steps
    <3>1. CASE Granted(p, {DMS}, "RDLCK")
      <4>1. Mapped(p)' = {c} BY <2>5, <3>0, <3>1 DEF Mapped, Attach
      <4>2. node'[p].nRef = 1 BY <2>0, <2>5, <3>1 DEF Attach, WithRefs
      <4> QED BY <4>1, <4>2, FS_Singleton
    <3>2. CASE ~Granted(p, {DMS}, "RDLCK")
      BY <2>5, <2>f, <3>2 DEF Attach, Steps
    <3> QED BY <3>1, <3>2
  <2>6. CASE Locking(c)
    <3>1. node'[p].nRef = node[p].nRef /\ isMapped' = isMapped
      <4>1. PICK f : SetLocks(c, f)
        BY <2>6 DEF Locking, ShareSlot, LockSlots, UnlockSlots
      <4>2. isMapped' = isMapped
        BY <2>6 DEF Locking, ShareSlot, LockSlots, UnlockSlots
      <4> QED BY <2>0, <4>1, <4>2 DEF SetLocks, WithLocks
    <3> QED BY <2>1, <3>1
  <2>7. CASE ShareDb(c) \/ CloseAlone(c) \/ UnlockDb(c)
    BY <2>1, <2>7 DEF ShareDb, CloseAlone, UnlockDb
  <2>8. CASE Unmap(c)
    <3>1. Mapped(p)' = Mapped(p) \ {c} /\ c \in Mapped(p)
      BY <2>8 DEF Mapped, Unmap
    <3>2. node[p].nRef \in Int /\ node'[p].nRef = node[p].nRef - 1
      BY <2>0, <2>8 DEF Unmap, WithRefs, Purge, NoNode, NewNode, Nodes
    <3> QED BY <2>0, <3>1, <3>2, FS_RemoveElement
  <2> QED BY <2>2, <2>3, <2>4, <2>5, <2>6, <2>7, <2>8 DEF ConnStep, Opening
<1> QED BY <1>1, <1>2 DEF RefsCounted

(***************************************************************************)
(* The locks                                                               *)
(***************************************************************************)
\* Processes that have locks have the same file open, so that what the kernel
\* grants conflicts with no lock of another process.
LEMMA GrantedIsFree ==
    ASSUME Types, \A p \in Proc : NodeOk(p), NEW p \in Proc, node[p].ino = shmFile,
           NEW B \in SUBSET (Slots \cup {DMS}), NEW type \in {"RDLCK", "WRLCK"}, Granted(p, B, type),
           NEW q \in Proc, q # p, NEW b \in B
    PROVE  flock[q][b] # "WRLCK" /\ (type = "WRLCK" => flock[q][b] = "UNLCK")
<1>1. flock[q][b] \in {"UNLCK", "RDLCK", "WRLCK"}
  BY DEF Types, FLocks
<1>2. flock[q][b] # "UNLCK" => node[q].ino = shmFile
  BY DEF NodeOk, Unused, Used, Opens, Unlocked, NewNode
<1> QED BY <1>1, <1>2 DEF Granted, OthersHold

\* What a step of a connection does to the locks of its process.
LEMMA FlockChange ==
    ASSUME UnixShmConstants, Types, \A p \in Proc : NodeOk(p), NEW c \in Conn, ConnStep(c)
    PROVE  \/ flock'[pid[c]] = flock[pid[c]]
           \/ flock'[pid[c]] = Unlocked
           \/ \E B \in SUBSET (Slots \cup {DMS}) : SystemLock(pid[c], B, "UNLCK")
           \/ \E B \in SUBSET (Slots \cup {DMS}), type \in {"RDLCK", "WRLCK"} :
                 /\ node[pid[c]].ino = shmFile /\ Granted(pid[c], B, type)
                 /\ SystemLock(pid[c], B, type)
<1> USE ProcOf DEF lockVars
<1>o. ASSUME NEW at \in Steps, IsAt(c, at) PROVE node[pid[c]].ino = shmFile
  BY <1>o DEF IsAt, NodeOk, Opens, UnixShmConstants, NewNode
<1>m. ASSUME c \in isMapped PROVE node[pid[c]].ino = shmFile
  BY <1>m, MappedUses DEF Used
<1>f. ASSUME OpenFails(c) PROVE flock'[pid[c]] = Unlocked
  BY <1>f DEF OpenFails, Purge, Types
<1>1. CASE ShareDb(c) \/ OpenAgain(c) \/ OpenFile(c) \/ Empty(c) \/ CloseAlone(c) \/ UnlockDb(c)
  BY <1>1 DEF ShareDb, OpenAgain, OpenFile, Empty, CloseAlone, UnlockDb
<1>2. CASE GetLk(c)
  BY <1>2, <1>f, Zenon DEF GetLk
<1>3. CASE LockFirst(c)
  <2>1. CASE IsFirst(pid[c])
    <3>1. IsAt(c, "first") /\ Granted(pid[c], {DMS}, "WRLCK") /\ SystemLock(pid[c], {DMS}, "WRLCK")
      BY <1>3, <2>1 DEF LockFirst, IsFirst
    <3> QED BY <1>o, <3>1 DEF Steps
  <2>2. CASE ~IsFirst(pid[c])
    BY <1>3, <1>f, <2>2 DEF LockFirst
  <2> QED BY <2>1, <2>2
<1>4. CASE Attach(c)
  <2>1. CASE Granted(pid[c], {DMS}, "RDLCK")
    <3>1. IsAt(c, "attach") /\ SystemLock(pid[c], {DMS}, "RDLCK")
      BY <1>4, <2>1 DEF Attach
    <3> QED BY <1>o, <2>1, <3>1 DEF Steps
  <2>2. CASE ~Granted(pid[c], {DMS}, "RDLCK")
    BY <1>4, <1>f, <2>2 DEF Attach
  <2> QED BY <2>1, <2>2
<1>5. ASSUME NEW i \in Slots, ShareSlot(c, i)
      PROVE  \/ flock' = flock
             \/ /\ node[pid[c]].ino = shmFile /\ Granted(pid[c], {i}, "RDLCK")
                /\ SystemLock(pid[c], {i}, "RDLCK")
  BY <1>5, <1>m DEF ShareSlot
<1>6. ASSUME NEW S \in Ranges, LockSlots(c, S)
      PROVE  /\ node[pid[c]].ino = shmFile /\ Granted(pid[c], S, "WRLCK")
             /\ SystemLock(pid[c], S, "WRLCK") /\ S \in SUBSET (Slots \cup {DMS})
  BY <1>6, <1>m DEF LockSlots, UnixShmConstants
<1>7. ASSUME NEW S \in Ranges, UnlockSlots(c, S)
      PROVE  flock' = flock \/ (SystemLock(pid[c], S, "UNLCK") /\ S \in SUBSET (Slots \cup {DMS}))
  BY <1>7 DEF UnlockSlots, UnixShmConstants
<1>8. CASE Unmap(c)
  BY <1>8 DEF Unmap, Purge, Types
<1>9. CASE Locking(c)
  BY <1>5, <1>6, <1>7, <1>9 DEF Locking
<1> QED BY <1>1, <1>2, <1>3, <1>4, <1>8, <1>9 DEF ConnStep, Opening

\* A process never has a byte locked for writing that another one has locked.
LEMMA KernelStep ==
    ASSUME UnixShmConstants, Types, \A p \in Proc : NodeOk(p), KernelOk, NEW c \in Conn, ConnStep(c)
    PROVE  KernelOk'
<1> USE ProcOf
<1> DEFINE p == pid[c]
<1>1. \A q \in Proc : q # p => flock'[q] = flock[q]
  BY Untouched
<1>2. SUFFICES ASSUME NEW q \in Proc, q # p, NEW b \in Slots \cup {DMS}
               PROVE  /\ flock'[p][b] = "WRLCK" => flock[q][b] = "UNLCK"
                      /\ flock[q][b] = "WRLCK" => flock'[p][b] = "UNLCK"
  BY <1>1 DEF KernelOk
<1>3. /\ flock[p][b] = "WRLCK" => flock[q][b] = "UNLCK"
      /\ flock[q][b] = "WRLCK" => flock[p][b] = "UNLCK"
  BY <1>2 DEF KernelOk
<1>4. CASE flock'[p] = flock[p]
  BY <1>3, <1>4
<1>5. CASE flock'[p] = Unlocked
  BY <1>5 DEF Unlocked
<1>6. ASSUME NEW B \in SUBSET (Slots \cup {DMS}), SystemLock(p, B, "UNLCK")
      PROVE  flock'[p][b] \in {flock[p][b], "UNLCK"}
  BY <1>6, LockedBytes
<1>7. ASSUME NEW B \in SUBSET (Slots \cup {DMS}), NEW type \in {"RDLCK", "WRLCK"},
             node[p].ino = shmFile, Granted(p, B, type), SystemLock(p, B, type)
      PROVE  /\ flock'[p][b] = "WRLCK" => flock[q][b] = "UNLCK"
             /\ flock[q][b] = "WRLCK" => flock'[p][b] = "UNLCK"
  <2>1. flock'[p][b] = IF b \in B THEN type ELSE flock[p][b]
    BY <1>7, LockedBytes
  <2>2. b \in B => flock[q][b] # "WRLCK" /\ (type = "WRLCK" => flock[q][b] = "UNLCK")
    BY <1>2, <1>7, GrantedIsFree
  <2> QED BY <1>3, <1>7, <2>1, <2>2
<1> QED BY <1>3, <1>4, <1>5, <1>6, <1>7, FlockChange

\* What aLock counts is finite.
LEMMA FiniteSharers ==
    ASSUME UnixShmConstants, NEW p, NEW i
    PROVE  IsFiniteSet(Sharers(p, i)) /\ Cardinality(Sharers(p, i)) \in 0..Cardinality(Conn)
<1>1. Sharers(p, i) \in SUBSET Conn
  BY DEF Sharers
<1> QED BY <1>1, FS_Subset, FS_CardinalityType DEF UnixShmConstants

\* LockArrayOk, byte by byte.
LEMMA ArrayIsOk == LockArrayOk <=> \A p \in Proc, i \in Slots : ArrayOk(p, i)
  BY DEF LockArrayOk, ArrayOk, Sharers

\* A byte that a process has not locked none of its connections has, and one
\* that it has not locked for writing none has for itself.
LEMMA FreeByte ==
    ASSUME UnixShmConstants, Types, NEW p \in Proc, NEW i \in Slots, ArrayOk(p, i),
           NEW d \in Conn, pid[d] = p
    PROVE  /\ node[p].aLock[i] = 0 <=> flock[p][i] = "UNLCK"
           /\ node[p].aLock[i] = 0 => i \notin sharedMask[d] \cup exclMask[d]
           /\ node[p].aLock[i] >= 0 <=> flock[p][i] # "WRLCK"
           /\ node[p].aLock[i] >= 0 => i \notin exclMask[d]
<1>1. Cardinality(Sharers(p, i)) \in Nat /\ (Cardinality(Sharers(p, i)) = 0 => Sharers(p, i) = {})
  BY FiniteSharers, FS_EmptySet
<1>2. node[p].aLock[i] \in Int
  BY DEF Types, Nodes
<1>3. i \in exclMask[d] => node[p].aLock[i] = -1
  BY DEF ArrayOk
<1>4. i \in sharedMask[d] => Sharers(p, i) # {}
  BY DEF Sharers
<1>5. node[p].aLock[i] = 0 => Cardinality(Sharers(p, i)) = 0
  BY DEF ArrayOk
<1>6. node[p].aLock[i] = 0 <=> flock[p][i] = "UNLCK"
  BY <1>2 DEF ArrayOk
<1>7. node[p].aLock[i] >= 0 <=> flock[p][i] # "WRLCK"
  BY <1>2 DEF ArrayOk
<1> QED BY <1>1, <1>2, <1>3, <1>4, <1>5, <1>6, <1>7

\* What unixShmLock checks, with the kernel, keeps two connections from
\* having a byte that one of them wants for itself.
LEMMA MasksStep ==
    ASSUME UnixShmConstants, Types, \A p \in Proc : NodeOk(p), MasksOk, KernelOk, LockArrayOk,
           NEW c \in Conn, ConnStep(c)
    PROVE  MasksOk'
<1> USE ProcOf DEF fileVars, lockVars
<1>0. \A p \in Proc, i \in Slots : ArrayOk(p, i)
  BY ArrayIsOk
<1>1. ASSUME NEW i \in Slots, ShareSlot(c, i) PROVE MasksOk'
  <2>1. \A d \in Conn : i \notin exclMask[d]
    <3> SUFFICES ASSUME NEW d \in Conn PROVE i \notin exclMask[d]
      OBVIOUS
    <3>1. ArrayOk(pid[c], i) /\ ArrayOk(pid[d], i) /\ node[pid[c]].aLock[i] >= 0
      BY <1>0, <1>1 DEF ShareSlot, aLock
    <3>2. CASE pid[d] = pid[c]
      BY <3>1, <3>2, FreeByte
    <3>3. CASE pid[d] # pid[c]
      <4>1. flock[pid[d]][i] # "WRLCK"
        <5>1. CASE node[pid[c]].aLock[i] = 0
          <6>1. Granted(pid[c], {i}, "RDLCK") /\ node[pid[c]].ino = shmFile
            BY <1>1, <5>1, MappedUses DEF ShareSlot, aLock, Used
          <6>2. {i} \in SUBSET (Slots \cup {DMS}) /\ i \in {i} OBVIOUS
          <6> QED BY <3>3, <6>1, <6>2, GrantedIsFree
        <5>2. CASE node[pid[c]].aLock[i] # 0
          <6>1. flock[pid[c]][i] # "UNLCK"
            BY <3>1, <5>2, FreeByte
          <6> QED BY <3>3, <6>1 DEF KernelOk
        <5> QED BY <5>1, <5>2
      <4> QED BY <3>1, <4>1, FreeByte
    <3> QED BY <3>2, <3>3
  <2>2. /\ sharedMask' = [sharedMask EXCEPT ![c] = @ \cup {i}] /\ exclMask' = exclMask
        /\ isMapped' = isMapped /\ c \in isMapped
    BY <1>1 DEF ShareSlot
  <2> QED BY <2>1, <2>2 DEF MasksOk, Types
<1>2. ASSUME NEW S \in Ranges, LockSlots(c, S) PROVE MasksOk'
  <2>0. S \subseteq Slots BY DEF UnixShmConstants
  <2>1. \A d \in Conn : S \cap (sharedMask[d] \cup exclMask[d]) = {}
    <3> SUFFICES ASSUME NEW d \in Conn, NEW i \in S PROVE i \notin sharedMask[d] \cup exclMask[d]
      OBVIOUS
    <3>1. ArrayOk(pid[c], i) /\ ArrayOk(pid[d], i) /\ node[pid[c]].aLock[i] = 0 /\ i \in Slots
      BY <1>0, <1>2, <2>0 DEF LockSlots, aLock, NoSiblingHolds
    <3>2. CASE pid[d] = pid[c]
      BY <3>1, <3>2, FreeByte
    <3>3. CASE pid[d] # pid[c]
      <4>1. Granted(pid[c], S, "WRLCK") /\ node[pid[c]].ino = shmFile
        BY <1>2, MappedUses DEF LockSlots, Used
      <4>2. S \in SUBSET (Slots \cup {DMS}) BY <2>0
      <4>3. flock[pid[d]][i] = "UNLCK"
        BY <3>3, <4>1, <4>2, GrantedIsFree
      <4> QED BY <3>1, <4>3, FreeByte
    <3> QED BY <3>2, <3>3
  <2>2. /\ exclMask' = [exclMask EXCEPT ![c] = @ \cup S] /\ sharedMask' = sharedMask
        /\ isMapped' = isMapped /\ c \in isMapped
    BY <1>2 DEF LockSlots
  <2> QED BY <2>1, <2>2 DEF MasksOk, Types
<1>3. ASSUME NEW S \in Ranges, UnlockSlots(c, S) PROVE MasksOk'
  BY <1>3 DEF UnlockSlots, MasksOk, Types
<1>4. ASSUME UNCHANGED <<sharedMask, exclMask>>, isMapped \subseteq isMapped' PROVE MasksOk'
  BY <1>4 DEF MasksOk
<1>5. CASE Unmap(c)
  BY <1>5 DEF Unmap, MasksOk, Types
<1> QED BY <1>1, <1>2, <1>3, <1>4, <1>5 DEF ConnStep, Opening, Locking, ShareDb, OpenAgain, OpenFile,
      GetLk, LockFirst, Empty, Attach, CloseAlone, UnlockDb

\* What nobody changes is right as before.
LEMMA ArrayFrame ==
    ASSUME NEW p \in Proc, NEW i \in Slots, ArrayOk(p, i),
           node'[p].aLock[i] = node[p].aLock[i], flock'[p][i] = flock[p][i],
           \A d \in Conn : pid[d] = p => /\ (i \in sharedMask'[d] <=> i \in sharedMask[d])
                                         /\ (i \in exclMask'[d] <=> i \in exclMask[d])
    PROVE  ArrayOk(p, i)'
<1>1. Sharers(p, i)' = Sharers(p, i)
  BY DEF Sharers
<1>2. (\E c \in {d \in Conn : pid[d] = p} : i \in exclMask'[c])
      <=> (\E c \in {d \in Conn : pid[d] = p} : i \in exclMask[c])
  OBVIOUS
<1> QED BY <1>1, <1>2 DEF ArrayOk

\* A process without a node has no locks.
LEMMA ArrayUnused ==
    ASSUME NEW p \in Proc, NEW i \in Slots, Unused(p)', MasksOk'
    PROVE  ArrayOk(p, i)'
<1>1. \A d \in Conn : pid[d] = p => sharedMask'[d] = {} /\ exclMask'[d] = {}
  BY DEF Unused, MasksOk
<1>2. Sharers(p, i)' = {}
  BY <1>1 DEF Sharers
<1>3. node'[p].aLock[i] = 0 /\ flock'[p][i] = "UNLCK"
  BY DEF Unused, NoNode, NewNode, Unlocked
<1> QED BY <1>1, <1>2, <1>3, FS_EmptySet DEF ArrayOk

\* A step that changes nothing of aLock, of the masks and of the bytes for
\* them.
LEMMA ArrayKept ==
    ASSUME UnixShmConstants, Types, LockArrayOk, NEW c \in Conn, UNCHANGED <<sharedMask, exclMask>>,
           \A i \in Slots : flock'[pid[c]][i] = flock[pid[c]][i],
           node'[pid[c]].aLock = node[pid[c]].aLock, NEW i \in Slots
    PROVE  ArrayOk(pid[c], i)'
<1>1. ArrayOk(pid[c], i)
  BY ProcOf, ArrayIsOk
<1> QED BY <1>1, ProcOf, ArrayFrame

\* Sharing, locking and unlocking bytes.
LEMMA ArrayLocking ==
    ASSUME UnixShmConstants, Types, MasksOk, LockArrayOk, NEW c \in Conn, Locking(c), NEW i \in Slots
    PROVE  ArrayOk(pid[c], i)'
<1> USE ProcOf
<1> DEFINE p == pid[c]
<1>0. ArrayOk(p, i) /\ node[p].aLock \in [Slots -> Int] /\ node \in [Proc -> Nodes] /\ DMS \notin Slots
  BY ArrayIsOk DEF Types, Nodes, DMS, UnixShmConstants
<1>n. /\ Cardinality(Sharers(p, i)) \in Nat /\ IsFiniteSet(Sharers(p, i))
      /\ (Cardinality(Sharers(p, i)) = 0 <=> Sharers(p, i) = {})
  BY FiniteSharers, FS_EmptySet
<1>s. ASSUME NEW f, SetLocks(c, f) PROVE node'[p].aLock = f
  BY <1>0, <1>s DEF SetLocks, WithLocks
<1>1. ASSUME NEW j \in Slots, ShareSlot(c, j) PROVE ArrayOk(p, i)'
  <2>1. /\ node'[p].aLock = [node[p].aLock EXCEPT ![j] = @ + 1] /\ node[p].aLock[j] >= 0
        /\ sharedMask' = [sharedMask EXCEPT ![c] = @ \cup {j}] /\ exclMask' = exclMask
        /\ j \notin sharedMask[c]
    BY <1>1, <1>s DEF ShareSlot, aLock
  <2>2. flock'[p][i] = IF i = j /\ node[p].aLock[j] = 0 THEN "RDLCK" ELSE flock[p][i]
    <3>1. CASE node[p].aLock[j] = 0
      <4>1. SystemLock(p, {j}, "RDLCK") /\ {j} \in SUBSET (Slots \cup {DMS})
        BY <1>1, <3>1 DEF ShareSlot, aLock
      <4> QED BY <3>1, <4>1, LockedBytes
    <3>2. CASE node[p].aLock[j] # 0
      BY <1>1, <3>2 DEF ShareSlot, aLock
    <3> QED BY <3>1, <3>2
  <2>3. CASE i # j
    BY <1>0, <2>1, <2>2, <2>3, ArrayFrame DEF Types
  <2>4. CASE i = j
    <3>1. ~\E d \in {d \in Conn : pid[d] = p} : i \in exclMask[d]
      BY <1>0, <2>1, <2>4 DEF ArrayOk
    <3>2. Sharers(p, i)' = Sharers(p, i) \cup {c} /\ c \notin Sharers(p, i)
      BY <2>1, <2>4 DEF Sharers, Types
    <3>3. Cardinality(Sharers(p, i)') = Cardinality(Sharers(p, i)) + 1
      BY <1>n, <3>2, FS_AddElement
    <3>4. node[p].aLock[i] = Cardinality(Sharers(p, i)) /\ node'[p].aLock[i] = node[p].aLock[i] + 1
      BY <1>0, <2>1, <2>4, <3>1 DEF ArrayOk
    <3>5. flock'[p][i] = "RDLCK"
      BY <1>0, <1>n, <2>2, <2>4, <3>4 DEF ArrayOk
    <3> QED BY <1>n, <2>1, <3>1, <3>3, <3>4, <3>5 DEF ArrayOk
  <2> QED BY <2>3, <2>4
<1>2. ASSUME NEW S \in Ranges, LockSlots(c, S) PROVE ArrayOk(p, i)'
  <2>0. S \in SUBSET (Slots \cup {DMS}) BY DEF UnixShmConstants
  <2>1. /\ node'[p].aLock = [k \in Slots |-> IF k \in S THEN -1 ELSE node[p].aLock[k]]
        /\ exclMask' = [exclMask EXCEPT ![c] = @ \cup S] /\ sharedMask' = sharedMask
    BY <1>2, <1>s DEF LockSlots, aLock
  <2>2. flock'[p][i] = IF i \in S THEN "WRLCK" ELSE flock[p][i]
    BY <1>2, <2>0, LockedBytes DEF LockSlots
  <2>3. CASE i \notin S
    BY <1>0, <2>1, <2>2, <2>3, ArrayFrame DEF Types
  <2>4. CASE i \in S
    <3>1. i \in exclMask'[c] BY <2>1, <2>4 DEF Types
    <3>2. node'[p].aLock[i] = -1 BY <2>1, <2>4
    <3> QED BY <2>2, <2>4, <3>1, <3>2 DEF ArrayOk
  <2> QED BY <2>3, <2>4
<1>3. ASSUME NEW S \in Ranges, UnlockSlots(c, S) PROVE ArrayOk(p, i)'
  <2>0. S \in SUBSET (Slots \cup {DMS}) BY DEF UnixShmConstants
  <2>1. /\ sharedMask' = [sharedMask EXCEPT ![c] = @ \ S] /\ exclMask' = [exclMask EXCEPT ![c] = @ \ S]
        /\ S \subseteq exclMask[c] \/ (S \subseteq sharedMask[c] /\ Cardinality(S) = 1)
    BY <1>3 DEF UnlockSlots
  <2>2. CASE IsLast(c, S)
    <3>1. node'[p].aLock = [k \in Slots |-> IF k \in S THEN 0 ELSE node[p].aLock[k]]
      BY <1>3, <1>s, <2>2 DEF UnlockSlots, aLock
    <3>2. flock'[p][i] = IF i \in S THEN "UNLCK" ELSE flock[p][i]
      BY <1>3, <2>0, <2>2, LockedBytes DEF UnlockSlots
    <3>3. CASE i \notin S
      <4>1. node'[p].aLock[i] = node[p].aLock[i] /\ flock'[p][i] = flock[p][i]
        BY <3>1, <3>2, <3>3
      <4>2. \A d \in Conn : /\ (i \in sharedMask'[d] <=> i \in sharedMask[d])
                            /\ (i \in exclMask'[d] <=> i \in exclMask[d])
        BY <2>1, <3>3 DEF Types
      <4> QED BY <1>0, <4>1, <4>2, ArrayFrame
    <3>4. CASE i \in S
      <4>1. node'[p].aLock[i] = 0 /\ flock'[p][i] = "UNLCK"
        BY <3>1, <3>2, <3>4
      <4>2. \A d \in Conn : pid[d] = p => i \notin exclMask'[d]
        <5>1. CASE i \in exclMask[c]
          BY <2>1, <3>4, <5>1 DEF MasksOk, Types
        <5>2. CASE i \in sharedMask[c]
          BY <2>1, <3>4, <5>2 DEF MasksOk, Types
        <5> QED BY <2>1, <3>4, <5>1, <5>2
      <4>3. Sharers(p, i)' = {}
        <5>1. CASE i \in exclMask[c]
          <6>1. \A d \in Conn : i \notin sharedMask[d]
            BY <5>1 DEF MasksOk
          <6> QED BY <2>1, <6>1 DEF Sharers, Types
        <5>2. CASE i \in sharedMask[c]
          <6>1. node[p].aLock[i] <= 1
            BY <2>2, <3>4, <5>2 DEF IsLast, aLock
          <6>2. \A d \in Conn : i \notin exclMask[d]
            BY <5>2 DEF MasksOk
          <6>3. Cardinality(Sharers(p, i)) <= 1 /\ c \in Sharers(p, i)
            BY <1>0, <5>2, <6>1, <6>2 DEF ArrayOk, Sharers
          <6>4. Sharers(p, i) = {c}
            <7>1. PICK x : Sharers(p, i) = {x}
              BY <1>n, <6>3, FS_Singleton
            <7> QED BY <6>3, <7>1
          <6>5. Sharers(p, i)' = Sharers(p, i) \ {c}
            BY <2>1, <3>4 DEF Sharers, Types
          <6> QED BY <6>4, <6>5
        <5> QED BY <2>1, <3>4, <5>1, <5>2
      <4> QED BY <4>1, <4>2, <4>3, FS_EmptySet DEF ArrayOk
    <3> QED BY <3>3, <3>4
  <2>3. CASE ~IsLast(c, S)
    <3>1. node'[p].aLock = [k \in Slots |-> IF k \in S THEN node[p].aLock[k] - 1 ELSE node[p].aLock[k]]
      BY <1>3, <1>s, <2>3 DEF UnlockSlots, aLock
    <3>2. flock' = flock
      BY <1>3, <2>3 DEF UnlockSlots
    <3>3. CASE i \notin S
      <4>1. node'[p].aLock[i] = node[p].aLock[i] /\ flock'[p][i] = flock[p][i]
        BY <3>1, <3>2, <3>3
      <4>2. \A d \in Conn : /\ (i \in sharedMask'[d] <=> i \in sharedMask[d])
                            /\ (i \in exclMask'[d] <=> i \in exclMask[d])
        BY <2>1, <3>3 DEF Types
      <4> QED BY <1>0, <4>1, <4>2, ArrayFrame
    <3>4. CASE i \in S
      <4>1. PICK k \in S : ~(node[p].aLock[k] <= (IF k \in sharedMask[c] THEN 1 ELSE 0))
        BY <2>3 DEF IsLast, aLock
      <4>2. k \in Slots /\ ArrayOk(p, k) /\ node[p].aLock[k] \in Int
        BY <1>0, ArrayIsOk DEF UnixShmConstants
      <4>3. k \notin exclMask[c]
        BY <4>1, <4>2 DEF ArrayOk
      <4>4. S \subseteq sharedMask[c] /\ Cardinality(S) = 1
        BY <2>1, <4>3
      <4>5. k = i
        <5>1. IsFiniteSet(S)
          BY FS_Subset DEF UnixShmConstants
        <5>2. PICK x : S = {x} BY <4>4, <5>1, FS_Singleton
        <5> QED BY <3>4, <5>2
      <4>6. ~\E d \in {d \in Conn : pid[d] = p} : i \in exclMask[d]
        BY <3>4, <4>4 DEF MasksOk
      <4>7. Sharers(p, i)' = Sharers(p, i) \ {c} /\ c \in Sharers(p, i)
        BY <2>1, <3>4, <4>4 DEF Sharers, Types
      <4>8. Cardinality(Sharers(p, i)') = Cardinality(Sharers(p, i)) - 1
        <5> HIDE DEF Sharers
        <5> QED BY <1>n, <4>7, FS_RemoveElement
      <4>9. /\ node[p].aLock[i] = Cardinality(Sharers(p, i)) /\ node[p].aLock[i] > 1
            /\ node'[p].aLock[i] = node[p].aLock[i] - 1
        BY <1>0, <3>1, <3>4, <4>1, <4>2, <4>4, <4>5, <4>6 DEF ArrayOk
      <4>10. ~\E d \in {d \in Conn : pid[d] = p} : i \in exclMask'[d]
        BY <2>1, <4>6 DEF Types
      <4> QED BY <1>0, <3>2, <4>8, <4>9, <4>10 DEF ArrayOk
    <3> QED BY <3>3, <3>4
  <2> QED BY <2>2, <2>3
<1> QED BY <1>1, <1>2, <1>3 DEF Locking

\* LockArrayOk is kept by every step of a connection.
LEMMA ArrayStep ==
    ASSUME UnixShmConstants, IInv, NEW c \in Conn, ConnStep(c)
    PROVE  LockArrayOk'
<1> USE ProcOf DEF lockVars
<1> DEFINE p == pid[c]
<1>i. Types /\ DbLocked /\ (\A q \in Proc : NodeOk(q)) /\ RefsCounted /\ MasksOk /\ KernelOk /\ LockArrayOk
  BY DEF IInv
<1>a. MasksOk' BY <1>i, MasksStep
<1>1. ASSUME NEW q \in Proc, q # p, NEW i \in Slots PROVE ArrayOk(q, i)'
  <2>1. ArrayOk(q, i) /\ node'[q] = node[q] /\ flock'[q] = flock[q]
    BY <1>1, <1>i, ArrayIsOk, Untouched
  <2>2. ASSUME NEW d \in Conn, pid[d] = q
        PROVE  sharedMask'[d] = sharedMask[d] /\ exclMask'[d] = exclMask[d]
    <3>1. d # c BY <1>1, <2>2
    <3> QED BY <3>1, <1>i, Untouched
  <2> QED BY <2>1, <2>2, ArrayFrame
<1>2. ASSUME NEW i \in Slots PROVE ArrayOk(p, i)'
  <2>k. ASSUME UNCHANGED <<sharedMask, exclMask>>, \A j \in Slots : flock'[p][j] = flock[p][j],
               node'[p].aLock = node[p].aLock
        PROVE  ArrayOk(p, i)'
    BY <1>i, <2>k, ArrayKept
  <2>d. DMS \notin Slots /\ node \in [Proc -> Nodes]
    BY <1>i DEF DMS, UnixShmConstants, Types
  <2>u. ASSUME UNCHANGED isMapped, OpenFails(c), opening[p] # None PROVE ArrayOk(p, i)'
    <3>1. Unused(p)'
      BY <1>i, <2>u DEF OpenFails, Purge, NodeOk, Opens, Unused, NoNode, NewNode, Unlocked, Types
    <3> QED BY <1>a, <3>1, ArrayUnused
  <2>o. ASSUME NEW at \in Steps, IsAt(c, at) PROVE opening[p] # None
    BY <2>o DEF IsAt, UnixShmConstants
  <2>1. CASE ShareDb(c) \/ Empty(c) \/ CloseAlone(c) \/ UnlockDb(c)
    BY <2>1, <2>k DEF ShareDb, Empty, CloseAlone, UnlockDb
  <2>2. CASE OpenAgain(c)
    BY <2>2, <2>d, <2>k DEF OpenAgain, WithRefs
  <2>3. CASE OpenFile(c)
    BY <2>3, <2>d, <2>k DEF OpenFile, NoNode, NewNode
  <2>4. CASE GetLk(c)
    BY <2>4, <2>k, <2>u, <2>o DEF GetLk, Steps
  <2>5. CASE LockFirst(c)
    <3>1. CASE IsFirst(p)
      <4>1. \A j \in Slots : flock'[p][j] = flock[p][j]
        <5>1. SystemLock(p, {DMS}, "WRLCK") BY <2>5, <3>1 DEF LockFirst
        <5> QED BY <1>i, <2>d, <5>1, LockedBytes
      <4> QED BY <2>5, <2>k, <3>1, <4>1 DEF LockFirst
    <3>2. CASE ~IsFirst(p)
      BY <2>5, <2>u, <2>o, <3>2 DEF LockFirst, Steps
    <3> QED BY <3>1, <3>2
  <2>6. CASE Attach(c)
    <3>1. CASE Granted(p, {DMS}, "RDLCK")
      <4>1. \A j \in Slots : flock'[p][j] = flock[p][j]
        <5>1. SystemLock(p, {DMS}, "RDLCK") BY <2>6, <3>1 DEF Attach
        <5> QED BY <1>i, <2>d, <5>1, LockedBytes
      <4>2. node'[p].aLock = node[p].aLock
        BY <2>6, <2>d, <3>1 DEF Attach, WithRefs
      <4> QED BY <2>6, <2>k, <4>1, <4>2 DEF Attach
    <3>2. CASE ~Granted(p, {DMS}, "RDLCK")
      BY <2>6, <2>u, <2>o, <3>2 DEF Attach, Steps
    <3> QED BY <3>1, <3>2
  <2>7. CASE Locking(c)
    BY <1>i, <2>7, ArrayLocking
  <2>8. CASE Unmap(c)
    <3>1. CASE node[p].nRef = 1
      <4>1. NodeOk(p)' BY <1>i, NodeOwn
      <4>2. opening' = opening /\ node'[p] = NoNode
        BY <2>8, <2>d, <3>1 DEF Unmap, Purge
      <4>3. opening[p] = None
        BY <2>8 DEF Unmap, BigLockFree
      <4>4. ~Used(p)'
        <5>1. NoNode.ino = 0 BY DEF NoNode, NewNode
        <5> QED BY <4>2, <5>1 DEF Used
      <4>5. Unused(p)' BY <4>1, <4>2, <4>3, <4>4 DEF NodeOk
      <4> QED BY <1>a, <4>5, ArrayUnused
    <3>2. CASE node[p].nRef # 1
      BY <2>8, <2>d, <2>k, <3>2 DEF Unmap, WithRefs
    <3> QED BY <3>1, <3>2
  <2> QED BY <2>1, <2>2, <2>3, <2>4, <2>5, <2>6, <2>7, <2>8 DEF ConnStep, Opening
<1>3. \A q \in Proc, i \in Slots : ArrayOk(q, i)'
  BY <1>1, <1>2
<1> QED BY <1>3 DEF LockArrayOk, ArrayOk, Sharers

(***************************************************************************)
(* The invariant                                                           *)
(***************************************************************************)
\* Processes that end leave nothing of theirs behind, and the others what
\* they have.
LEMMA EndsStep == ASSUME UnixShmConstants, IInv, Ends PROVE IInv'
<1> USE ProcOf
<1>i. Types /\ DbLocked /\ (\A q \in Proc : NodeOk(q)) /\ RefsCounted /\ MasksOk /\ KernelOk
      /\ LockArrayOk /\ ~spoilt
  BY DEF IInv
<1>1. PICK P \in SUBSET Proc : /\ Gone(P) /\ UNCHANGED <<shmFile, spoilt>>
                               /\ isFresh' \in BOOLEAN /\ (P # Proc => isFresh' = isFresh)
  BY DEF Ends
<1>g. /\ dbLock' = [c \in Conn |-> IF pid[c] \in P THEN NO_LOCK ELSE dbLock[c]]
      /\ node' = [p \in Proc |-> IF p \in P THEN NoNode ELSE node[p]]
      /\ flock' = [p \in Proc |-> IF p \in P THEN Unlocked ELSE flock[p]]
      /\ opening' = [p \in Proc |-> IF p \in P THEN None ELSE opening[p]]
      /\ sharedMask' = [c \in Conn |-> IF pid[c] \in P THEN {} ELSE sharedMask[c]]
      /\ exclMask' = [c \in Conn |-> IF pid[c] \in P THEN {} ELSE exclMask[c]]
      /\ isMapped' = {c \in isMapped : pid[c] \notin P}
      /\ isDelete' = {c \in isDelete : pid[c] \notin P}
  BY <1>1, <1>i DEF Gone, Types
<1>2. Types'
  <2>1. node' \in [Proc -> Nodes] /\ flock' \in [Proc -> FLocks] /\ opening' \in [Proc -> {None} \cup Calls]
    BY <1>g, <1>i, Members DEF Types
  <2>2. dbLock' \in [Conn -> {NO_LOCK, SHARED_LOCK, EXCLUSIVE_LOCK}]
    BY <1>g, <1>i DEF Types
  <2>3. sharedMask' \in [Conn -> SUBSET Slots] /\ exclMask' \in [Conn -> SUBSET Slots]
    BY <1>g, <1>i DEF Types
  <2>4. isMapped' \subseteq Conn /\ isDelete' \subseteq isMapped'
    BY <1>g, <1>i DEF Types
  <2> QED BY <1>1, <1>i, <2>1, <2>2, <2>3, <2>4 DEF Types
<1>3. DbLocked'
  <2>1. \A c \in Conn : dbLock'[c] = NO_LOCK \/ (dbLock'[c] = dbLock[c] /\ pid[c] \notin P)
    BY <1>g
  <2>2. \A c \in Conn : pid[c] \notin P => dbLock'[c] = dbLock[c]
    BY <1>g
  <2>3. isMapped' \subseteq isMapped /\ isDelete' \subseteq isDelete /\ isMapped \subseteq Conn
        /\ isDelete \subseteq Conn /\ \A c \in isMapped' \cup isDelete' : pid[c] \notin P
    BY <1>g, <1>i DEF Types
  <2> QED BY <1>i, <2>1, <2>2, <2>3 DEF DbLocked, NO_LOCK, EXCLUSIVE_LOCK
<1>4. ASSUME NEW p \in Proc PROVE NodeOk(p)'
  <2>1. CASE p \in P
    BY <1>g, <2>1 DEF NodeOk, Unused, NoNode, NewNode, Unlocked
  <2>2. CASE p \notin P
    <3>1. isFresh' = isFresh /\ shmFile' = shmFile BY <1>1, <2>2
    <3>2. /\ node'[p] = node[p] /\ flock'[p] = flock[p] /\ opening'[p] = opening[p]
          /\ \A c \in isMapped' : c \in isMapped
          /\ \A c \in isMapped : pid[c] = p => c \in isMapped'
      BY <1>g, <2>2
    <3>3. \A c \in Conn : pid[c] = p => dbLock'[c] = dbLock[c]
      BY <1>g, <2>2
    <3>4. opening[p] # None => opening[p].conn \in Conn
      BY <1>i DEF Types, Calls
    <3> QED BY <1>i, <3>1, <3>2, <3>3, <3>4 DEF NodeOk, Unused, Used, Opens, NoNode, NewNode, Unlocked
  <2> QED BY <2>1, <2>2
<1>5. RefsCounted'
  <2> SUFFICES ASSUME NEW p \in Proc PROVE node'[p].nRef = Cardinality(Mapped(p)')
    BY DEF RefsCounted
  <2>1. CASE p \in P
    <3>1. Mapped(p)' = {} /\ node'[p].nRef = 0 BY <1>g, <2>1 DEF Mapped, NoNode, NewNode
    <3> QED BY <3>1, FS_EmptySet
  <2>2. CASE p \notin P
    <3>1. Mapped(p)' = Mapped(p) /\ node'[p] = node[p] BY <1>g, <2>2 DEF Mapped
    <3> QED BY <1>i, <3>1 DEF RefsCounted
  <2> QED BY <2>1, <2>2
<1>6. MasksOk'
  <2>1. \A c \in Conn : /\ sharedMask'[c] \subseteq sharedMask[c] /\ exclMask'[c] \subseteq exclMask[c]
    BY <1>g
  <2>2. \A c \in Conn : c \in isMapped' \/ c \notin isMapped \/ (sharedMask'[c] = {} /\ exclMask'[c] = {})
    BY <1>g
  <2>3. ASSUME NEW c \in Conn
        PROVE  /\ c \notin isMapped' => sharedMask'[c] = {} /\ exclMask'[c] = {}
               /\ sharedMask'[c] \cap exclMask'[c] = {}
    BY <1>i, <2>1, <2>2 DEF MasksOk
  <2>4. ASSUME NEW c \in Conn, NEW d \in Conn, c # d
        PROVE  exclMask'[c] \cap (sharedMask'[d] \cup exclMask'[d]) = {}
    BY <1>i, <2>1, <2>4 DEF MasksOk
  <2> QED BY <2>3, <2>4 DEF MasksOk
<1>7. KernelOk'
  BY <1>g, <1>i DEF KernelOk, Unlocked
<1>8. LockArrayOk'
  <2>1. ASSUME NEW p \in Proc, NEW i \in Slots PROVE ArrayOk(p, i)'
    <3>1. CASE p \in P
      <4>1. Unused(p)'
        BY <1>g, <3>1 DEF Unused, NoNode, NewNode, Unlocked
      <4> QED BY <1>6, <4>1, ArrayUnused
    <3>2. CASE p \notin P
      <4>1. node'[p] = node[p] /\ flock'[p] = flock[p] /\ ArrayOk(p, i)
        BY <1>g, <1>i, <3>2, ArrayIsOk
      <4>2. \A d \in Conn : pid[d] = p => sharedMask'[d] = sharedMask[d] /\ exclMask'[d] = exclMask[d]
        BY <1>g, <3>2
      <4> QED BY <4>1, <4>2, ArrayFrame
    <3> QED BY <3>1, <3>2
  <2> QED BY <2>1 DEF LockArrayOk, ArrayOk, Sharers
<1> QED BY <1>1, <1>i, <1>2, <1>3, <1>4, <1>5, <1>6, <1>7, <1>8 DEF IInv

\* No connection uses the file while a process empties it: each has the dead
\* man's switch of its process locked.
LEMMA SpoiltStep ==
    ASSUME UnixShmConstants, IInv, NEW c \in Conn, ConnStep(c)
    PROVE  ~spoilt'
<1> USE ProcOf DEF fileVars
<1>1. CASE Empty(c)
  <2> SUFFICES ASSUME UsedByOthers(pid[c]) PROVE FALSE
    BY <1>1 DEF Empty, IInv, Types
  <2>1. PICK d \in isMapped : pid[d] # pid[c]
    BY DEF UsedByOthers
  <2>2. d \in Conn BY DEF IInv, Types
  <2>3. flock[pid[d]][DMS] = "RDLCK"
    BY <2>2, MappedUses DEF IInv, Used
  <2>4. flock[pid[c]][DMS] = "WRLCK"
    BY <1>1 DEF Empty, IsAt, IInv, NodeOk, Opens, UnixShmConstants, Steps
  <2> QED BY <2>1, <2>2, <2>3, <2>4 DEF IInv, KernelOk
<1> QED BY <1>1 DEF IInv, ConnStep, Opening, Locking, ShareDb, OpenAgain, OpenFile, GetLk, LockFirst,
      OpenFails, Attach, ShareSlot, LockSlots, UnlockSlots, CloseAlone, Unmap, UnlockDb

\* The operations of a connection keep the invariant.
LEMMA ConnStepInv ==
    ASSUME UnixShmConstants, IInv, NEW c \in Conn, ConnStep(c)
    PROVE  IInv'
<1>i. Types /\ DbLocked /\ (\A q \in Proc : NodeOk(q)) /\ RefsCounted /\ MasksOk /\ KernelOk /\ LockArrayOk
  BY DEF IInv
<1>1. Types' BY <1>i, TypesStep
<1>2. DbLocked' BY <1>i, DbLockedStep
<1>3. \A p \in Proc : NodeOk(p)' BY <1>i, NodeOthers, NodeOwn
<1>4. RefsCounted' BY <1>i, RefsStep
<1>5. MasksOk' BY <1>i, MasksStep
<1>6. KernelOk' BY <1>i, KernelStep
<1>7. LockArrayOk' BY ArrayStep
<1>8. ~spoilt' BY SpoiltStep
<1> QED BY <1>1, <1>2, <1>3, <1>4, <1>5, <1>6, <1>7, <1>8 DEF IInv

\* The invariant holds when no process has the file open ...
LEMMA InitInv == ASSUME UnixShmConstants, Init PROVE IInv
<1> USE DEF Init
<1>1. Types
  <2>1. node \in [Proc -> Nodes] /\ flock \in [Proc -> FLocks] /\ opening \in [Proc -> {None} \cup Calls]
    BY Members
  <2>2. /\ dbLock \in [Conn -> {NO_LOCK, SHARED_LOCK, EXCLUSIVE_LOCK}]
        /\ sharedMask \in [Conn -> SUBSET Slots] /\ exclMask \in [Conn -> SUBSET Slots]
    OBVIOUS
  <2>3. shmFile \in Nat
    OBVIOUS
  <2>4. isFresh \in BOOLEAN /\ spoilt \in BOOLEAN
    BY Zenon
  <2> QED BY <2>1, <2>2, <2>3, <2>4 DEF Types
<1>2. DbLocked BY DEF DbLocked, NO_LOCK, EXCLUSIVE_LOCK
<1>3. \A p \in Proc : NodeOk(p) BY DEF NodeOk, Unused
<1>4. RefsCounted
  <2>1. \A p \in Proc : Mapped(p) = {} /\ node[p].nRef = 0 BY DEF Mapped, NoNode, NewNode
  <2> QED BY <2>1, FS_EmptySet DEF RefsCounted
<1>5. MasksOk /\ KernelOk BY DEF MasksOk, KernelOk, Unlocked
<1>6. LockArrayOk
  <2>1. ASSUME NEW p \in Proc, NEW i \in Slots PROVE ArrayOk(p, i)
    <3>1. Sharers(p, i) = {} /\ node[p].aLock[i] = 0 /\ flock[p][i] = "UNLCK"
      BY DEF Sharers, NoNode, NewNode, Unlocked
    <3> QED BY <3>1, FS_EmptySet DEF ArrayOk
  <2> QED BY <2>1, ArrayIsOk
<1> QED BY <1>1, <1>2, <1>3, <1>4, <1>5, <1>6 DEF IInv

\* ... and every step keeps it.
LEMMA NextInv == ASSUME UnixShmConstants, IInv, [Next]_vars PROVE IInv'
<1>1. CASE Next
  BY <1>1, StepCases, ConnStepInv, EndsStep DEF IInv
<1>2. CASE UNCHANGED vars
  <2> USE <1>2 DEF vars, fileVars, lockVars, IInv
  <2>1. Types' /\ DbLocked' /\ MasksOk' /\ KernelOk' /\ ~spoilt'
    BY DEF Types, DbLocked, MasksOk, KernelOk
  <2>2. \A p \in Proc : NodeOk(p)'
    BY DEF NodeOk, Unused, Used, Opens
  <2>3. RefsCounted' /\ LockArrayOk'
    BY DEF RefsCounted, Mapped, LockArrayOk
  <2> QED BY <2>1, <2>2, <2>3
<1> QED BY <1>1, <1>2

\* It implies the bounds of the counters, and that all connections use the
\* file that is there.
LEMMA InvImplies == ASSUME UnixShmConstants, IInv PROVE TypeOK /\ LockArrayOk /\ OneWalIndex
<1>1. OneWalIndex
  BY ProcOf, MappedUses DEF OneWalIndex, IInv, Types, Used
<1>2. Cardinality(Conn) \in Nat
  BY FS_CardinalityType DEF UnixShmConstants
<1>3. ASSUME NEW p \in Proc
      PROVE  node[p] \in [ino : Nat, nRef : 0..Cardinality(Conn), aLock : [Slots -> -1..Cardinality(Conn)]]
  <2>1. node[p] \in Nodes /\ node[p].nRef \in 0..Cardinality(Conn)
    BY FiniteMapped DEF IInv, Types, RefsCounted
  <2>2. ASSUME NEW i \in Slots PROVE node[p].aLock[i] \in -1..Cardinality(Conn)
    <3>1. ArrayOk(p, i) BY ArrayIsOk DEF IInv
    <3>2. Cardinality(Sharers(p, i)) \in 0..Cardinality(Conn) BY FiniteSharers
    <3> QED BY <1>2, <3>1, <3>2 DEF ArrayOk
  <2>3. node[p].aLock \in [Slots -> -1..Cardinality(Conn)]
    BY <2>1, <2>2 DEF Nodes
  <2> QED BY <2>1, <2>3 DEF Nodes
<1>4. TypeOK
  BY <1>3 DEF TypeOK, IInv, Types, FLocks, Calls
<1> QED BY <1>1, <1>4 DEF IInv

(***************************************************************************)
(* The masks are a table of lock bytes                                     *)
(***************************************************************************)
\* The holder of a byte is the connection that has it in its exclMask.
LEMMA HolderIs ==
    ASSUME UnixShmConstants, MasksOk, NEW i
    PROVE  /\ \A c \in Conn : Holder(i) = c <=> i \in exclMask[c]
           /\ (\A c \in Conn : i \notin exclMask[c]) => Holder(i) = None
<1>1. CASE \E c \in Conn : i \in exclMask[c]
  <2>1. Holder(i) \in Conn /\ i \in exclMask[Holder(i)]
    BY <1>1 DEF Holder
  <2>2. \A c \in Conn : i \in exclMask[c] => c = Holder(i)
    BY <2>1 DEF MasksOk
  <2> QED BY <1>1, <2>1, <2>2
<1>2. CASE ~\E c \in Conn : i \in exclMask[c]
  BY <1>2 DEF Holder, UnixShmConstants
<1> QED BY <1>1, <1>2

\* The steps of ShmLocks, byte by byte.
SharesByte ==
    \E c \in Conn, i \in Slots :
        /\ Holder(i) = None
        /\ \A j \in Slots : /\ Holder(j)' = Holder(j)
                            /\ Holders(j)' = IF j = i THEN Holders(j) \cup {c} ELSE Holders(j)
LocksBytes ==
    \E c \in Conn, S \in SUBSET Slots :
        /\ \A j \in S : Holder(j) = None /\ Holders(j) = {}
        /\ \A j \in Slots : /\ Holder(j)' = IF j \in S THEN c ELSE Holder(j)
                            /\ Holders(j)' = Holders(j)
UnlocksBytes(C, S) ==
    \A j \in Slots : /\ Holder(j)' = IF j \in S /\ Holder(j) \in C THEN None ELSE Holder(j)
                     /\ Holders(j)' = IF j \in S THEN Holders(j) \ C ELSE Holders(j)
KeepsBytes == \A j \in Slots : Holder(j)' = Holder(j) /\ Holders(j)' = Holders(j)

\* Every step does to the masks what one of ShmLocks does to its table.
LEMMA TableStep ==
    ASSUME UnixShmConstants, IInv, [Next]_vars
    PROVE  \/ SharesByte \/ LocksBytes \/ KeepsBytes
           \/ \E c \in Conn, S \in SUBSET Slots : UnlocksBytes({c}, S)
           \/ \E C \in SUBSET Conn : UnlocksBytes(C, Slots)
<1> USE ProcOf
<1>0. IInv' BY NextInv
<1>m. MasksOk /\ MasksOk' /\ Types /\ Types' BY <1>0 DEF IInv
<1>n. None \notin Conn BY DEF UnixShmConstants
<1>h. \A i : /\ \A c \in Conn : Holder(i) = c <=> i \in exclMask[c]
             /\ (\A c \in Conn : i \notin exclMask[c]) => Holder(i) = None
  BY <1>m, HolderIs
<1>k. ASSUME UNCHANGED <<sharedMask, exclMask>> PROVE KeepsBytes
  BY <1>k DEF KeepsBytes, Holder, Holders
<1>1. ASSUME NEW c \in Conn, NEW i \in Slots, ShareSlot(c, i) PROVE SharesByte
  <2>1. sharedMask' = [sharedMask EXCEPT ![c] = @ \cup {i}] /\ exclMask' = exclMask
    BY <1>1 DEF ShareSlot
  <2>2. i \in sharedMask'[c] BY <1>m, <2>1 DEF Types
  <2>3. \A d \in Conn : i \notin exclMask[d]
    BY <1>m, <2>1, <2>2 DEF MasksOk
  <2>4. Holder(i) = None BY <1>h, <2>3
  <2>5. \A j \in Slots : Holder(j)' = Holder(j) BY <2>1 DEF Holder
  <2>6. \A j \in Slots : Holders(j)' = IF j = i THEN Holders(j) \cup {c} ELSE Holders(j)
    BY <1>m, <2>1 DEF Holders, Types
  <2> QED BY <2>4, <2>5, <2>6 DEF SharesByte
<1>2. ASSUME NEW c \in Conn, NEW S \in Ranges, LockSlots(c, S) PROVE LocksBytes
  <2>0. S \in SUBSET Slots BY DEF UnixShmConstants
  <2>1. /\ exclMask' = [exclMask EXCEPT ![c] = @ \cup S] /\ sharedMask' = sharedMask
        /\ S \cap (sharedMask[c] \cup exclMask[c]) = {}
    BY <1>2 DEF LockSlots, lockVars
  <2>2. S \subseteq exclMask'[c] BY <1>m, <2>1 DEF Types
  <2>3. \A j \in S, d \in Conn : j \notin exclMask[d] /\ j \notin sharedMask[d]
    <3> SUFFICES ASSUME NEW j \in S, NEW d \in Conn, d # c PROVE j \notin exclMask[d] /\ j \notin sharedMask[d]
      BY <2>1
    <3>1. exclMask'[d] = exclMask[d] BY <1>m, <2>1 DEF Types
    <3> QED BY <1>m, <2>1, <2>2, <3>1 DEF MasksOk
  <2>4. \A j \in S : Holder(j) = None /\ Holders(j) = {}
    BY <1>h, <2>3 DEF Holders
  <2>5. ASSUME NEW j \in Slots PROVE Holder(j)' = IF j \in S THEN c ELSE Holder(j)
    <3>1. CASE j \in S
      <4>1. j \in exclMask'[c] BY <2>2, <3>1
      <4>2. (\E d \in Conn : j \in exclMask'[d]) /\ \A d \in Conn : j \in exclMask'[d] => d = c
        BY <1>m, <4>1 DEF MasksOk
      <4> QED BY <3>1, <4>2 DEF Holder
    <3>2. CASE j \notin S
      <4>1. \A d \in Conn : j \in exclMask'[d] <=> j \in exclMask[d]
        BY <1>m, <2>1, <3>2 DEF Types
      <4>2. Holder(j)' = Holder(j)
        <5>1. CASE \E d \in Conn : j \in exclMask[d]
          <6>1. PICK d \in Conn : j \in exclMask[d] BY <5>1
          <6>2. Holder(j) = d BY <1>h, <6>1
          <6>3. (\E e \in Conn : j \in exclMask'[e]) /\ \A e \in Conn : j \in exclMask'[e] => e = d
            BY <1>m, <4>1, <6>1 DEF MasksOk
          <6> QED BY <6>2, <6>3 DEF Holder
        <5>2. CASE ~\E d \in Conn : j \in exclMask[d]
          BY <4>1, <5>2 DEF Holder
        <5> QED BY <5>1, <5>2
      <4> QED BY <3>2, <4>2
    <3> QED BY <3>1, <3>2
  <2>6. \A j \in Slots : Holders(j)' = Holders(j) BY <2>1 DEF Holders
  <2> QED BY <2>0, <2>4, <2>5, <2>6 DEF LocksBytes
<1>u. ASSUME NEW C \in SUBSET Conn, NEW S \in SUBSET Slots,
             \A d \in Conn : d \notin C => exclMask'[d] = exclMask[d] /\ sharedMask'[d] = sharedMask[d],
             \A d \in C : exclMask'[d] = exclMask[d] \ S /\ sharedMask'[d] = sharedMask[d] \ S
      PROVE  UnlocksBytes(C, S)
  <2>1. ASSUME NEW j \in Slots PROVE Holders(j)' = IF j \in S THEN Holders(j) \ C ELSE Holders(j)
    <3>1. \A d \in Conn : j \in sharedMask'[d] <=> j \in sharedMask[d] /\ ~(d \in C /\ j \in S)
      BY <1>u
    <3> QED BY <3>1 DEF Holders
  <2>2. ASSUME NEW j \in Slots
        PROVE  Holder(j)' = IF j \in S /\ Holder(j) \in C THEN None ELSE Holder(j)
    <3>1. \A d \in Conn : j \in exclMask'[d] <=> j \in exclMask[d] /\ ~(d \in C /\ j \in S)
      BY <1>u
    <3>2. CASE \E d \in Conn : j \in exclMask[d]
      <4>1. PICK d \in Conn : j \in exclMask[d] BY <3>2
      <4>2. Holder(j) = d BY <1>h, <4>1
      <4>3. \A e \in Conn : j \in exclMask[e] => e = d BY <1>m, <4>1 DEF MasksOk
      <4>4. CASE j \in S /\ d \in C
        BY <3>1, <4>2, <4>3, <4>4 DEF Holder
      <4>5. CASE ~(j \in S /\ d \in C)
        <5>1. (\E e \in Conn : j \in exclMask'[e]) /\ \A e \in Conn : j \in exclMask'[e] => e = d
          BY <3>1, <4>1, <4>3, <4>5
        <5> QED BY <4>2, <4>5, <5>1 DEF Holder
      <4> QED BY <4>4, <4>5
    <3>3. CASE ~\E d \in Conn : j \in exclMask[d]
      <4>1. Holder(j) = None BY <1>h, <3>3
      <4> QED BY <1>n, <3>1, <3>3, <4>1 DEF Holder
    <3> QED BY <3>2, <3>3
  <2> QED BY <2>1, <2>2 DEF UnlocksBytes
<1>3. ASSUME NEW c \in Conn, NEW S \in Ranges, UnlockSlots(c, S) PROVE S \in SUBSET Slots /\ UnlocksBytes({c}, S)
  <2>1. S \in SUBSET Slots BY DEF UnixShmConstants
  <2>2. sharedMask' = [sharedMask EXCEPT ![c] = @ \ S] /\ exclMask' = [exclMask EXCEPT ![c] = @ \ S]
    BY <1>3 DEF UnlockSlots
  <2>3. /\ \A d \in Conn : d \notin {c} => exclMask'[d] = exclMask[d] /\ sharedMask'[d] = sharedMask[d]
        /\ \A d \in {c} : exclMask'[d] = exclMask[d] \ S /\ sharedMask'[d] = sharedMask[d] \ S
    BY <1>m, <2>2 DEF Types
  <2> QED BY <1>u, <2>1, <2>3
<1>4. ASSUME NEW P \in SUBSET Proc, Gone(P) PROVE UnlocksBytes({c \in Conn : pid[c] \in P}, Slots)
  <2> DEFINE C == {c \in Conn : pid[c] \in P}
  <2>1. /\ \A d \in Conn : d \notin C => exclMask'[d] = exclMask[d] /\ sharedMask'[d] = sharedMask[d]
        /\ \A d \in C : exclMask'[d] = {} /\ sharedMask'[d] = {}
    BY <1>4 DEF Gone
  <2>2. \A d \in C : exclMask[d] \ Slots = {} /\ sharedMask[d] \ Slots = {}
    BY <1>m DEF Types
  <2>3. C \in SUBSET Conn /\ Slots \in SUBSET Slots OBVIOUS
  <2> QED BY <1>u, <2>1, <2>2, <2>3
<1>5. CASE Ends
  <2>1. PICK P \in SUBSET Proc : Gone(P) BY <1>5 DEF Ends
  <2>2. {c \in Conn : pid[c] \in P} \in SUBSET Conn OBVIOUS
  <2> QED BY <1>4, <2>1, <2>2
<1>6. ASSUME NEW c \in Conn, ConnStep(c), ~Locking(c) PROVE KeepsBytes
  <2>1. UNCHANGED <<sharedMask, exclMask>>
    BY <1>6 DEF ConnStep, Opening, ShareDb, OpenAgain, OpenFile, GetLk, LockFirst, Empty, Attach,
       CloseAlone, Unmap, UnlockDb, lockVars
  <2> QED BY <1>k, <2>1
<1>7. CASE UNCHANGED vars
  BY <1>7, <1>k DEF vars, lockVars
<1>8. CASE Next
  BY <1>1, <1>2, <1>3, <1>5, <1>6, <1>8, <1>m, StepCases DEF Locking
<1> QED BY <1>7, <1>8
=============================================================================
