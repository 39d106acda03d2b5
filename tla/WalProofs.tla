----------------------------- MODULE WalProofs -----------------------------
(***************************************************************************)
(* Proofs about Wal.  IInv (module WalInv) is inductive; it implies the    *)
(* type invariant, the lock discipline and that no header names a frame    *)
(* the WAL file does not have, and with it every step satisfies            *)
(* BackfillOwner and MarkIsStable.  VersionInv (module WalVersions) and    *)
(* CounterInv (WalSnapshots) are invariant until a process is killed: no   *)
(* commit is lost, a page cache that is kept from one transaction to the   *)
(* next is not stale, and, unless a checkpointer is overtaken between the  *)
(* header and nBackfill, the frames that are said to be copied are frames  *)
(* of the log there is.                                                    *)
(*                                                                         *)
(* For a step of connection c the invariant is shown for c and for the     *)
(* others apart: the others keep what they know of themselves, and what    *)
(* they know of shared state is protected by a lock that c does not hold.  *)
(***************************************************************************)
EXTENDS WalSnapshots, FiniteSetTheorems, WellFoundedInduction, TLAPS

\* A step of connection c other than its end in a crash.
Step(c) == CallStep(c) \/ UserStep(c)

\* What c knows of its control state and of its locks.
Own(c) ==
    /\ CkptControl(c) /\ MarkControl(c) /\ TodoControl(c)
    /\ WriterLock(c) /\ CkptLock(c) /\ MarkLocks(c)

USE DEF WAL_WRITE_LOCK, WAL_CKPT_LOCK, WAL_RECOVER_LOCK, WAL_READ_LOCK, RetryFrom

(***************************************************************************)
(* Numbers of locks and marks                                              *)
(***************************************************************************)
\* The lock bytes are different, and read marks are numbered from 1.
LEMMA LockNumbers ==
    /\ WAL_WRITE_LOCK \in Locks /\ WAL_CKPT_LOCK \in Locks /\ WAL_RECOVER_LOCK \in Locks
    /\ \A i \in 0..(WAL_NREADER - 1) :
          WAL_READ_LOCK(i) \in Locks \ {WAL_WRITE_LOCK, WAL_CKPT_LOCK, WAL_RECOVER_LOCK}
    /\ \A i, j \in 0..(WAL_NREADER - 1) : WAL_READ_LOCK(i) = WAL_READ_LOCK(j) => i = j
    /\ ReadMarks \subseteq 0..(WAL_NREADER - 1) /\ ReadMarks \subseteq 0..WAL_NREADER
    /\ 0 \notin ReadMarks /\ 1 \in ReadMarks
    /\ \A i \in ReadMarks : i + 1 \in 1..WAL_NREADER
    /\ \A i \in 1..WAL_NREADER : i \in 0..WAL_NREADER
    /\ \A i \in 0..(WAL_NREADER - 1) : i # 0 => i \in ReadMarks
    /\ 0 \in 0..(WAL_NREADER - 1) /\ 0 \in 0..WAL_NREADER /\ 1 \in 0..WAL_NREADER
  BY BoundAssumption, SMTT(30) DEF Locks, ReadMarks


(***************************************************************************)
(* Control and locks                                                       *)
(***************************************************************************)

\* After its step c holds the locks that its new place needs.
LEMMA OwnLocks ==
    ASSUME NEW c \in Conn, Step(c), ControlTypes, Own(c)
    PROVE  CkptControl(c)' /\ WriterLock(c)' /\ CkptLock(c)' /\ MarkLocks(c)'
<1> USE LockNumbers, ConnAssumption DEF ControlTypes, Own, CkptControl, MarkControl, WriterLock,
    CkptLock, MarkLocks, bWriteLock, InCkpt, RestartPCs, RecPCs, WritePCs, TryPCs, CkptPCs,
    WriterPCs, OneMarkPCs, AllMarksPCs, lockVars, ckptVars
<1>1. CASE ReadHdr(c)
  BY <1>1 DEF ReadHdr, AfterHdr, walIndexTryHdr, Goto
<1>2. CASE HdrLock(c)
  BY <1>2 DEF HdrLock, Lock, CanLock, Goto
<1>3. CASE HdrRetry(c)
  BY <1>3 DEF HdrRetry, Unlock, HdrLocks, AfterHdr, walIndexTryHdr, Goto
<1>4. CASE RecoverLock(c)
  BY <1>4 DEF RecoverLock, Lock, CanLock, RecoverLocks, Goto
<1>5. CASE RecoverBusy(c)
  BY <1>5 DEF RecoverBusy, Unlock, CanLock, HdrLocks, RecoverLocks, Goto
<1>6. CASE CkptHdrBusy(c)
  BY <1>6 DEF CkptHdrBusy, CanLock, Goto
<1>7. CASE RecoverScan(c)
  BY <1>7 DEF RecoverScan, Goto
<1>8. CASE RecoverHdr(c)
  BY <1>8 DEF RecoverHdr, Goto
<1>9. CASE RecoverInfo(c)
  BY <1>9 DEF RecoverInfo, RecoverBackfill, RecoverAttempted, Goto
<1>10. CASE RecoverMarkLock(c)
  BY <1>10 DEF RecoverMarkLock, Lock, CanLock, Goto
<1>11. CASE RecoverMarkSet(c)
  BY <1>11 DEF RecoverMarkSet, Unlock, Goto
<1>12. CASE RecoverEnd(c)
  BY <1>12 DEF RecoverEnd, Unlock, HdrLocks, RecoverLocks, AfterHdr, Goto
<1>13. CASE CheckBackfill(c)
  BY <1>13 DEF CheckBackfill, ToScan, Goto
<1>14. CASE Lock0(c)
  BY <1>14 DEF Lock0, Share, CanShare, ToScan, Goto
<1>15. CASE Check0(c)
  BY <1>15 DEF Check0, HdrUnchanged, Unshare, Opened, useWal, Goto
<1>16. CASE ScanMark(c)
  BY <1>16 DEF ScanMark, Goto
<1>17. CASE RaiseLock(c)
  BY <1>17 DEF RaiseLock, Lock, CanRaise, CanLock, Goto
<1>18. CASE RaiseBusy(c)
  BY <1>18 DEF RaiseBusy, Retry, ToScan, Goto, useWal, CanRaise, CanLock
<1>19. CASE RaiseSet(c)
  BY <1>19 DEF RaiseSet, Unlock, Goto
<1>20. CASE LockI(c)
  BY <1>20 DEF LockI, Share, CanShare, Retry, ToScan, Goto, useWal
<1>21. CASE LoadMinFrame(c)
  BY <1>21 DEF LoadMinFrame, FirstFrame, Goto
<1>22. CASE CheckI(c)
  BY <1>22 DEF CheckI, HdrUnchanged, MarkUnchanged, Unshare, Retry, ToScan, Goto, useWal, Opened
<1>23. CASE WriteCheck(c)
  BY <1>23 DEF WriteCheck, SnapshotIsCurrent, Unlock, Goto
<1>24. CASE RestartLog(c)
  BY <1>24 DEF RestartLog, Lock, LogReadLocks, CanRestart, CanLock, Goto
<1>25. CASE RestartLogEnd(c)
  BY <1>25 DEF RestartLogEnd, Unlock, Unshare, LogReadLocks, ToScan, Goto, CanRestart, CanLock
<1>26. CASE RestartHdr1(c)
  BY <1>26 DEF RestartHdr1, Goto
<1>27. CASE RestartHdr0(c)
  BY <1>27 DEF RestartHdr0, Goto
<1>28. CASE RestartInfo(c)
  BY <1>28 DEF RestartInfo, RestartBackfill, RestartAttempted, Reset, Goto
<1>29. CASE RestartMarks(c)
  BY <1>29 DEF RestartMarks, Goto
<1>30. CASE Publish1(c)
  BY <1>30 DEF Publish1, Goto
<1>31. CASE Publish0(c)
  BY <1>31 DEF Publish0, Goto
<1>32. CASE EndWrite(c)
  BY <1>32 DEF EndWrite, Unlock, Goto
<1>33. CASE CkptWriter(c)
  BY <1>33 DEF CkptWriter, Lock, CanLock, Goto
<1>34. CASE CkptInfo(c)
  BY <1>34 DEF CkptInfo, AfterCopy, Goto
<1>35. CASE CkptMark(c)
  BY <1>35 DEF CkptMark, Goto
<1>36. CASE CkptMarkBusy(c)
  BY <1>36 DEF CkptMarkBusy, SafeWithReader, CanLock, Goto
<1>37. CASE CkptMarkLock(c)
  BY <1>37 DEF CkptMarkLock, Lock, CanLock, Goto
<1>38. CASE CkptMarkSet(c)
  BY <1>38 DEF CkptMarkSet, Unlock, Goto
<1>39. CASE CkptLock0(c)
  <2>1. CASE MoreToCopy(c) /\ CanLock({WAL_READ_LOCK(0)})
    <3>1. pc'[c] = "ckptCopy" /\ eMode' = eMode /\ pc[c] = "ckptMarks"
      BY <1>39, <2>1 DEF CkptLock0, Goto
    <3>2. lockX' = [l \in Locks |-> IF l = WAL_READ_LOCK(0) THEN c ELSE lockX[l]]
      BY <1>39, <2>1 DEF CkptLock0, Lock
    <3> QED
      BY <3>1, <3>2
  <2>2. CASE ~ (MoreToCopy(c) /\ CanLock({WAL_READ_LOCK(0)}))
    BY <1>39, <2>2 DEF CkptLock0, AfterCopy, Goto
  <2> QED
    BY <2>1, <2>2
<1>40. CASE CkptCopy(c)
  BY <1>40 DEF CkptCopy
<1>41. CASE CkptTruncateDb(c)
  BY <1>41 DEF CkptTruncateDb, Goto
<1>42. CASE CkptDone(c)
  BY <1>42 DEF CkptDone, Goto
<1>43. CASE CkptUnlock0(c)
  BY <1>43 DEF CkptUnlock0, Unlock, AfterCopy, Goto
<1>44. CASE CkptRestart(c)
  BY <1>44 DEF CkptRestart, Lock, CanLock, LogReadLocks, WantsRestart, AfterDrain, Goto
<1>45. CASE CkptNoRestart(c)
  BY <1>45 DEF CkptNoRestart, CanLock, LogReadLocks, WantsRestart, Goto
<1>46. CASE CkptTruncateLog(c)
  BY <1>46 DEF CkptTruncateLog, Goto
<1>47. CASE CkptUnlock(c)
  BY <1>47 DEF CkptUnlock, Unlock, LogReadLocks, Goto
<1>48. CASE CkptEnd(c)
  BY <1>48 DEF CkptEnd, HdrAfterCkpt, Unlock, Goto
<1>49. CASE BeginRead(c)
  BY <1>49 DEF BeginRead, Goto
<1>50. CASE ReadFails(c)
  BY <1>50 DEF ReadFails, Goto
<1>51. CASE EndRead(c)
  BY <1>51 DEF EndRead, Unshare, Goto
<1>52. CASE BeginWrite(c)
  BY <1>52 DEF BeginWrite, Lock, CanLock, Goto
<1>53. CASE WriteWalHdr(c)
  BY <1>53 DEF WriteWalHdr, Goto
<1>54. CASE Spill(c)
  BY <1>54 DEF Spill, InFrames, Goto
<1>55. CASE Commit(c)
  BY <1>55 DEF Commit, InFrames, Goto
<1>56. CASE Rollback(c)
  BY <1>56 DEF Rollback, TxnUsed, Unlock, Goto
<1>57. CASE BeginCkpt(c)
  BY <1>57 DEF BeginCkpt, Lock, CanLock, Goto
<1>58. CASE CkptInterrupt(c)
  BY <1>58 DEF CkptInterrupt, Unlock, Goto
<1> QED
  BY <1>1, <1>2, <1>3, <1>4, <1>5, <1>6, <1>7, <1>8, <1>9, <1>10, <1>11, <1>12, <1>13, <1>14,
      <1>15, <1>16, <1>17, <1>18, <1>19, <1>20, <1>21, <1>22, <1>23, <1>24, <1>25, <1>26, <1>27,
      <1>28, <1>29, <1>30, <1>31, <1>32, <1>33, <1>34, <1>35, <1>36, <1>37, <1>38, <1>39, <1>40,
      <1>41, <1>42, <1>43, <1>44, <1>45, <1>46, <1>47, <1>48, <1>49, <1>50, <1>51, <1>52, <1>53,
      <1>54, <1>55, <1>56, <1>57, <1>58, Zenon
     DEF Step, CallStep, HdrStep, ReadStep, WriteStep, CkptStep, UserStep

\* No step makes a lock exclusive and shared.
LEMMA LocksExclude ==
    ASSUME NEW c \in Conn, Step(c), ControlTypes, Own(c), LockExcludes
    PROVE  LockExcludes'
<1> USE LockNumbers, ConnAssumption DEF ControlTypes, LockExcludes, Own, CkptControl,
    MarkControl, WriterLock, CkptLock, MarkLocks, bWriteLock, InCkpt, RestartPCs, RecPCs,
    WritePCs, TryPCs, CkptPCs, WriterPCs, OneMarkPCs, AllMarksPCs
<1>1. CASE HdrLock(c)
  BY <1>1 DEF HdrLock, Lock, CanLock, Goto
<1>2. CASE HdrRetry(c)
  BY <1>2 DEF HdrRetry, Unlock, HdrLocks, AfterHdr, walIndexTryHdr, Goto
<1>3. CASE RecoverLock(c)
  BY <1>3 DEF RecoverLock, Lock, CanLock, RecoverLocks, Goto
<1>4. CASE RecoverBusy(c)
  BY <1>4 DEF RecoverBusy, Unlock, CanLock, HdrLocks, RecoverLocks, Goto
<1>5. CASE RecoverMarkLock(c)
  BY <1>5 DEF RecoverMarkLock, Lock, CanLock, Goto
<1>6. CASE RecoverMarkSet(c)
  BY <1>6 DEF RecoverMarkSet, Unlock, Goto
<1>7. CASE RecoverEnd(c)
  BY <1>7 DEF RecoverEnd, Unlock, HdrLocks, RecoverLocks, AfterHdr, Goto
<1>8. CASE Lock0(c)
  BY <1>8 DEF Lock0, Share, CanShare, ToScan, Goto
<1>9. CASE Check0(c)
  BY <1>9 DEF Check0, Unshare
<1>10. CASE RaiseLock(c)
  BY <1>10 DEF RaiseLock, Lock, CanRaise, CanLock, Goto
<1>11. CASE RaiseSet(c)
  BY <1>11 DEF RaiseSet, Unlock, Goto
<1>12. CASE LockI(c)
  BY <1>12 DEF LockI, Share, CanShare, Retry, ToScan, Goto, useWal
<1>13. CASE CheckI(c)
  BY <1>13 DEF CheckI, Unshare
<1>14. CASE WriteCheck(c)
  BY <1>14 DEF WriteCheck, SnapshotIsCurrent, Unlock, Goto
<1>15. CASE RestartLog(c)
  BY <1>15 DEF RestartLog, Lock, LogReadLocks, CanRestart, CanLock, Goto
<1>16. CASE RestartLogEnd(c)
  BY <1>16 DEF RestartLogEnd, Unlock, Unshare, LogReadLocks, ToScan, Goto, CanRestart, CanLock
<1>17. CASE EndWrite(c)
  BY <1>17 DEF EndWrite, Unlock, Goto
<1>18. CASE CkptWriter(c)
  BY <1>18 DEF CkptWriter, Lock, CanLock, Goto
<1>19. CASE CkptMarkLock(c)
  BY <1>19 DEF CkptMarkLock, Lock, CanLock, Goto
<1>20. CASE CkptMarkSet(c)
  BY <1>20 DEF CkptMarkSet, Unlock, Goto
<1>21. CASE CkptLock0(c)
  BY <1>21 DEF CkptLock0, Lock, CanLock
<1>22. CASE CkptUnlock0(c)
  BY <1>22 DEF CkptUnlock0, Unlock, AfterCopy, Goto
<1>23. CASE CkptRestart(c)
  BY <1>23 DEF CkptRestart, Lock, CanLock, LogReadLocks, WantsRestart, AfterDrain, Goto
<1>24. CASE CkptUnlock(c)
  BY <1>24 DEF CkptUnlock, Unlock, LogReadLocks, Goto
<1>25. CASE CkptEnd(c)
  BY <1>25 DEF CkptEnd, HdrAfterCkpt, Unlock, Goto
<1>26. CASE EndRead(c)
  BY <1>26 DEF EndRead, Unshare, Goto
<1>27. CASE BeginWrite(c)
  BY <1>27 DEF BeginWrite, Lock, CanLock, Goto
<1>28. CASE Rollback(c)
  BY <1>28 DEF Rollback, TxnUsed, Unlock, Goto
<1>29. CASE BeginCkpt(c)
  BY <1>29 DEF BeginCkpt, Lock, CanLock, Goto
<1>30. CASE CkptInterrupt(c)
  BY <1>30 DEF CkptInterrupt, Unlock, Goto
<1>31. CASE ~ (HdrLock(c) \/ HdrRetry(c) \/ RecoverLock(c) \/ RecoverBusy(c) \/
              RecoverMarkLock(c) \/ RecoverMarkSet(c) \/ RecoverEnd(c) \/ Lock0(c) \/ Check0(c)
              \/ RaiseLock(c) \/ RaiseSet(c) \/ LockI(c) \/ CheckI(c) \/ WriteCheck(c) \/
              RestartLog(c) \/ RestartLogEnd(c) \/ EndWrite(c) \/ CkptWriter(c) \/
              CkptMarkLock(c) \/ CkptMarkSet(c) \/ CkptLock0(c) \/ CkptUnlock0(c) \/
              CkptRestart(c) \/ CkptUnlock(c) \/ CkptEnd(c) \/ EndRead(c) \/ BeginWrite(c) \/
              Rollback(c) \/ BeginCkpt(c) \/ CkptInterrupt(c))
  <2>1. UNCHANGED lockVars
    BY <1>31, Zenon DEF Step, CallStep, HdrStep, ReadStep, WriteStep, CkptStep, UserStep,
        ReadHdr, fileVars, shmVars, infoVars, lockVars, readVars, ckptVars, commitVars,
        viewVars, CkptHdrBusy, hdrVars, RecoverScan, RecoverHdr, RecoverInfo, RecoverBackfill, RecoverAttempted, CheckBackfill,
        ScanMark, RaiseBusy, LoadMinFrame, RestartHdr1, RestartHdr0, RestartInfo, RestartBackfill, RestartAttempted, RestartMarks,
        Publish1, Publish0, CkptInfo, CkptMark, CkptMarkBusy, CkptCopy, CkptTruncateDb,
        CkptDone, CkptNoRestart, CkptTruncateLog, BeginRead, ReadFails, WriteWalHdr, Spill,
        Commit
  <2> QED
    BY <2>1 DEF lockVars
<1> QED
  BY <1>1, <1>2, <1>3, <1>4, <1>5, <1>6, <1>7, <1>8, <1>9, <1>10, <1>11, <1>12, <1>13, <1>14,
      <1>15, <1>16, <1>17, <1>18, <1>19, <1>20, <1>21, <1>22, <1>23, <1>24, <1>25, <1>26, <1>27,
      <1>28, <1>29, <1>30, <1>31

\* c takes free locks only and releases only its own.
LEMMA LocksOfOthers ==
    ASSUME NEW c \in Conn, Step(c), ControlTypes, Own(c)
    PROVE  \A d \in Conn \ {c} :
              /\ pc'[d] = pc[d] /\ eMode'[d] = eMode[d] /\ iMark'[d] = iMark[d]
              /\ \A l \in Locks : lockX'[l] = d <=> lockX[l] = d
<1> USE LockNumbers, ConnAssumption DEF ControlTypes, Own, CkptControl, MarkControl, WriterLock,
    CkptLock, MarkLocks, bWriteLock, InCkpt, RestartPCs, RecPCs, WritePCs, TryPCs, CkptPCs,
    WriterPCs, OneMarkPCs, AllMarksPCs, lockVars, ckptVars
<1>1. CASE ReadHdr(c)
  BY <1>1 DEF ReadHdr, AfterHdr, walIndexTryHdr, Goto
<1>2. CASE HdrLock(c)
  BY <1>2 DEF HdrLock, Lock, CanLock, Goto
<1>3. CASE HdrRetry(c)
  BY <1>3 DEF HdrRetry, Unlock, HdrLocks, AfterHdr, walIndexTryHdr, Goto
<1>4. CASE RecoverLock(c)
  BY <1>4 DEF RecoverLock, Lock, CanLock, RecoverLocks, Goto
<1>5. CASE RecoverBusy(c)
  BY <1>5 DEF RecoverBusy, Unlock, CanLock, HdrLocks, RecoverLocks, Goto
<1>6. CASE CkptHdrBusy(c)
  BY <1>6 DEF CkptHdrBusy, CanLock, Goto
<1>7. CASE RecoverScan(c)
  BY <1>7 DEF RecoverScan, Goto
<1>8. CASE RecoverHdr(c)
  BY <1>8 DEF RecoverHdr, Goto
<1>9. CASE RecoverInfo(c)
  BY <1>9 DEF RecoverInfo, RecoverBackfill, RecoverAttempted, Goto
<1>10. CASE RecoverMarkLock(c)
  BY <1>10 DEF RecoverMarkLock, Lock, CanLock, Goto
<1>11. CASE RecoverMarkSet(c)
  BY <1>11 DEF RecoverMarkSet, Unlock, Goto
<1>12. CASE RecoverEnd(c)
  BY <1>12 DEF RecoverEnd, Unlock, HdrLocks, RecoverLocks, AfterHdr, Goto
<1>13. CASE CheckBackfill(c)
  BY <1>13 DEF CheckBackfill, ToScan, Goto
<1>14. CASE Lock0(c)
  BY <1>14 DEF Lock0, Share, CanShare, ToScan, Goto
<1>15. CASE Check0(c)
  BY <1>15 DEF Check0, HdrUnchanged, Unshare, Opened, useWal, Goto
<1>16. CASE ScanMark(c)
  BY <1>16 DEF ScanMark, Goto
<1>17. CASE RaiseLock(c)
  BY <1>17 DEF RaiseLock, Lock, CanRaise, CanLock, Goto
<1>18. CASE RaiseBusy(c)
  BY <1>18 DEF RaiseBusy, Retry, ToScan, Goto, useWal, CanRaise, CanLock
<1>19. CASE RaiseSet(c)
  BY <1>19 DEF RaiseSet, Unlock, Goto
<1>20. CASE LockI(c)
  BY <1>20 DEF LockI, Share, CanShare, Retry, ToScan, Goto, useWal
<1>21. CASE LoadMinFrame(c)
  BY <1>21 DEF LoadMinFrame, FirstFrame, Goto
<1>22. CASE CheckI(c)
  BY <1>22 DEF CheckI, HdrUnchanged, MarkUnchanged, Unshare, Retry, ToScan, Goto, useWal, Opened
<1>23. CASE WriteCheck(c)
  BY <1>23 DEF WriteCheck, SnapshotIsCurrent, Unlock, Goto
<1>24. CASE RestartLog(c)
  BY <1>24 DEF RestartLog, Lock, LogReadLocks, CanRestart, CanLock, Goto
<1>25. CASE RestartLogEnd(c)
  BY <1>25 DEF RestartLogEnd, Unlock, Unshare, LogReadLocks, ToScan, Goto, CanRestart, CanLock
<1>26. CASE RestartHdr1(c)
  BY <1>26 DEF RestartHdr1, Goto
<1>27. CASE RestartHdr0(c)
  BY <1>27 DEF RestartHdr0, Goto
<1>28. CASE RestartInfo(c)
  BY <1>28 DEF RestartInfo, RestartBackfill, RestartAttempted, Reset, Goto
<1>29. CASE RestartMarks(c)
  BY <1>29 DEF RestartMarks, Goto
<1>30. CASE Publish1(c)
  BY <1>30 DEF Publish1, Goto
<1>31. CASE Publish0(c)
  BY <1>31 DEF Publish0, Goto
<1>32. CASE EndWrite(c)
  BY <1>32 DEF EndWrite, Unlock, Goto
<1>33. CASE CkptWriter(c)
  BY <1>33 DEF CkptWriter, Lock, CanLock, Goto
<1>34. CASE CkptInfo(c)
  BY <1>34 DEF CkptInfo, AfterCopy, Goto
<1>35. CASE CkptMark(c)
  BY <1>35 DEF CkptMark, Goto
<1>36. CASE CkptMarkBusy(c)
  BY <1>36 DEF CkptMarkBusy, SafeWithReader, CanLock, Goto
<1>37. CASE CkptMarkLock(c)
  BY <1>37 DEF CkptMarkLock, Lock, CanLock, Goto
<1>38. CASE CkptMarkSet(c)
  BY <1>38 DEF CkptMarkSet, Unlock, Goto
<1>39. CASE CkptLock0(c)
  BY <1>39 DEF CkptLock0, CkptFrames, Lock, CanLock, AfterCopy, MoreToCopy, Goto
<1>40. CASE CkptCopy(c)
  BY <1>40 DEF CkptCopy
<1>41. CASE CkptTruncateDb(c)
  BY <1>41 DEF CkptTruncateDb, Goto
<1>42. CASE CkptDone(c)
  BY <1>42 DEF CkptDone, Goto
<1>43. CASE CkptUnlock0(c)
  BY <1>43 DEF CkptUnlock0, Unlock, AfterCopy, Goto
<1>44. CASE CkptRestart(c)
  BY <1>44 DEF CkptRestart, Lock, CanLock, LogReadLocks, WantsRestart, AfterDrain, Goto
<1>45. CASE CkptNoRestart(c)
  BY <1>45 DEF CkptNoRestart, CanLock, LogReadLocks, WantsRestart, Goto
<1>46. CASE CkptTruncateLog(c)
  BY <1>46 DEF CkptTruncateLog, Goto
<1>47. CASE CkptUnlock(c)
  BY <1>47 DEF CkptUnlock, Unlock, LogReadLocks, Goto
<1>48. CASE CkptEnd(c)
  BY <1>48 DEF CkptEnd, HdrAfterCkpt, Unlock, Goto
<1>49. CASE BeginRead(c)
  BY <1>49 DEF BeginRead, Goto
<1>50. CASE ReadFails(c)
  BY <1>50 DEF ReadFails, Goto
<1>51. CASE EndRead(c)
  BY <1>51 DEF EndRead, Unshare, Goto
<1>52. CASE BeginWrite(c)
  BY <1>52 DEF BeginWrite, Lock, CanLock, Goto
<1>53. CASE WriteWalHdr(c)
  BY <1>53 DEF WriteWalHdr, Goto
<1>54. CASE Spill(c)
  BY <1>54 DEF Spill, InFrames, Goto
<1>55. CASE Commit(c)
  BY <1>55 DEF Commit, InFrames, Goto
<1>56. CASE Rollback(c)
  BY <1>56 DEF Rollback, TxnUsed, Unlock, Goto
<1>57. CASE BeginCkpt(c)
  BY <1>57 DEF BeginCkpt, Lock, CanLock, Goto
<1>58. CASE CkptInterrupt(c)
  BY <1>58 DEF CkptInterrupt, Unlock, Goto
<1> QED
  BY <1>1, <1>2, <1>3, <1>4, <1>5, <1>6, <1>7, <1>8, <1>9, <1>10, <1>11, <1>12, <1>13, <1>14,
      <1>15, <1>16, <1>17, <1>18, <1>19, <1>20, <1>21, <1>22, <1>23, <1>24, <1>25, <1>26, <1>27,
      <1>28, <1>29, <1>30, <1>31, <1>32, <1>33, <1>34, <1>35, <1>36, <1>37, <1>38, <1>39, <1>40,
      <1>41, <1>42, <1>43, <1>44, <1>45, <1>46, <1>47, <1>48, <1>49, <1>50, <1>51, <1>52, <1>53,
      <1>54, <1>55, <1>56, <1>57, <1>58, Zenon
     DEF Step, CallStep, HdrStep, ReadStep, WriteStep, CkptStep, UserStep

\* Control state and locks keep their types.
LEMMA ControlTypesStep ==
    ASSUME NEW c \in Conn, Step(c), ControlTypes, Own(c)
    PROVE  ControlTypes'
<1> USE LockNumbers, ConnAssumption DEF ControlTypes, PCs, lockVars, ckptVars
<1>1. CASE ReadHdr(c)
  BY <1>1 DEF ReadHdr, AfterHdr, InCkpt, walIndexTryHdr, Goto
<1>2. CASE HdrLock(c)
  BY <1>2 DEF HdrLock, Lock, CanLock, bWriteLock, InCkpt, Goto
<1>3. CASE HdrRetry(c)
  BY <1>3 DEF HdrRetry, Unlock, HdrLocks, bWriteLock, InCkpt, AfterHdr, walIndexTryHdr, Goto
<1>4. CASE RecoverLock(c)
  BY <1>4 DEF RecoverLock, Lock, CanLock, RecoverLocks, InCkpt, Goto
<1>5. CASE RecoverBusy(c)
  BY <1>5 DEF RecoverBusy, Unlock, CanLock, InCkpt, HdrLocks, bWriteLock, RecoverLocks, Goto
<1>6. CASE CkptHdrBusy(c)
  BY <1>6 DEF CkptHdrBusy, CanLock, InCkpt, bWriteLock, Goto
<1>7. CASE RecoverScan(c)
  BY <1>7 DEF RecoverScan, Goto
<1>8. CASE RecoverHdr(c)
  BY <1>8 DEF RecoverHdr, Goto
<1>9. CASE RecoverInfo(c)
  BY <1>9 DEF RecoverInfo, RecoverBackfill, RecoverAttempted, Goto
<1>10. CASE RecoverMarkLock(c)
  BY <1>10 DEF RecoverMarkLock, Lock, CanLock, Goto, Own, MarkControl, OneMarkPCs
<1>11. CASE RecoverMarkSet(c)
  BY <1>11 DEF RecoverMarkSet, Unlock, Goto, Own, MarkControl, OneMarkPCs
<1>12. CASE RecoverEnd(c)
  BY <1>12 DEF RecoverEnd, Unlock, HdrLocks, bWriteLock, InCkpt, RecoverLocks, AfterHdr, Goto
<1>13. CASE CheckBackfill(c)
  BY <1>13 DEF CheckBackfill, ToScan, Goto
<1>14. CASE Lock0(c)
  BY <1>14 DEF Lock0, Share, CanShare, ToScan, Goto
<1>15. CASE Check0(c)
  <2>1. CASE HdrUnchanged(c)
    <3>1. UNCHANGED <<lockX, lockS, eMode, iMark>>
      BY <1>15, <2>1 DEF Check0
    <3>2. \E p \in {"write", "read"} : pc' = [pc EXCEPT ![c] = p]
      BY <1>15, <2>1 DEF Check0, Opened, Goto
    <3> QED
      BY <3>1, <3>2
  <2>2. CASE ~ HdrUnchanged(c)
    BY <1>15, <2>2 DEF Check0, Unshare, Goto
  <2> QED
    BY <2>1, <2>2
<1>16. CASE ScanMark(c)
  BY <1>16 DEF ScanMark, Goto, Own, MarkControl, OneMarkPCs
<1>17. CASE RaiseLock(c)
  BY <1>17 DEF RaiseLock, Lock, CanRaise, CanLock, Goto
<1>18. CASE RaiseBusy(c)
  BY <1>18 DEF RaiseBusy, Retry, ToScan, Goto, useWal, CanRaise, CanLock, Own, MarkControl,
      OneMarkPCs
<1>19. CASE RaiseSet(c)
  BY <1>19 DEF RaiseSet, Unlock, Goto
<1>20. CASE LockI(c)
  BY <1>20 DEF LockI, Share, CanShare, Retry, ToScan, Goto, useWal
<1>21. CASE LoadMinFrame(c)
  BY <1>21 DEF LoadMinFrame, FirstFrame, Goto
<1>22. CASE CheckI(c)
  <2>1. CASE MarkUnchanged(c) /\ HdrUnchanged(c)
    <3>1. pc' = [pc EXCEPT ![c] = "write"] \/ pc' = [pc EXCEPT ![c] = "read"]
      BY <1>22, <2>1 DEF CheckI, Opened, Goto
    <3>2. UNCHANGED <<eMode, iMark, lockX, lockS>>
      BY <1>22, <2>1 DEF CheckI
    <3> QED
      BY <3>1, <3>2
  <2>2. CASE ~ (MarkUnchanged(c) /\ HdrUnchanged(c))
    BY <1>22, <2>2 DEF CheckI, Unshare, Retry, ToScan, Goto
  <2> QED
    BY <2>1, <2>2
<1>23. CASE WriteCheck(c)
  BY <1>23 DEF WriteCheck, SnapshotIsCurrent, Unlock, Goto
<1>24. CASE RestartLog(c)
  BY <1>24 DEF RestartLog, Lock, LogReadLocks, CanRestart, CanLock, Goto
<1>25. CASE RestartLogEnd(c)
  BY <1>25 DEF RestartLogEnd, Unlock, Unshare, LogReadLocks, ToScan, Goto, CanRestart, CanLock
<1>26. CASE RestartHdr1(c)
  BY <1>26 DEF RestartHdr1, Goto
<1>27. CASE RestartHdr0(c)
  BY <1>27 DEF RestartHdr0, Goto
<1>28. CASE RestartInfo(c)
  BY <1>28 DEF RestartInfo, RestartBackfill, RestartAttempted, Reset, Goto
<1>29. CASE RestartMarks(c)
  BY <1>29 DEF RestartMarks, InCkpt, Goto
<1>30. CASE Publish1(c)
  BY <1>30 DEF Publish1, Goto
<1>31. CASE Publish0(c)
  BY <1>31 DEF Publish0, Goto
<1>32. CASE EndWrite(c)
  BY <1>32 DEF EndWrite, Unlock, Goto
<1>33. CASE CkptWriter(c)
  BY <1>33 DEF CkptWriter, Lock, CanLock, Goto
<1>34. CASE CkptInfo(c)
  BY <1>34 DEF CkptInfo, AfterCopy, Goto
<1>35. CASE CkptMark(c)
  BY <1>35 DEF CkptMark, Goto, Own, MarkControl, OneMarkPCs
<1>36. CASE CkptMarkBusy(c)
  BY <1>36 DEF CkptMarkBusy, SafeWithReader, CanLock, Goto, Own, MarkControl, OneMarkPCs
<1>37. CASE CkptMarkLock(c)
  BY <1>37 DEF CkptMarkLock, Lock, CanLock, Goto
<1>38. CASE CkptMarkSet(c)
  BY <1>38 DEF CkptMarkSet, Unlock, Goto, Own, MarkControl, OneMarkPCs
<1>39. CASE CkptLock0(c)
  BY <1>39 DEF CkptLock0, Lock, AfterCopy, Goto
<1>40. CASE CkptCopy(c)
  BY <1>40 DEF CkptCopy
<1>41. CASE CkptTruncateDb(c)
  BY <1>41 DEF CkptTruncateDb, Goto
<1>42. CASE CkptDone(c)
  BY <1>42 DEF CkptDone, Goto
<1>43. CASE CkptUnlock0(c)
  BY <1>43 DEF CkptUnlock0, Unlock, AfterCopy, Goto
<1>44. CASE CkptRestart(c)
  BY <1>44 DEF CkptRestart, Lock, CanLock, LogReadLocks, WantsRestart, AfterDrain, Goto
<1>45. CASE CkptNoRestart(c)
  BY <1>45 DEF CkptNoRestart, CanLock, LogReadLocks, WantsRestart, Goto
<1>46. CASE CkptTruncateLog(c)
  BY <1>46 DEF CkptTruncateLog, Goto
<1>47. CASE CkptUnlock(c)
  BY <1>47 DEF CkptUnlock, Unlock, LogReadLocks, Goto
<1>48. CASE CkptEnd(c)
  BY <1>48 DEF CkptEnd, HdrAfterCkpt, Unlock, Goto
<1>49. CASE BeginRead(c)
  BY <1>49 DEF BeginRead, Goto
<1>50. CASE ReadFails(c)
  BY <1>50 DEF ReadFails, InCkpt, Goto
<1>51. CASE EndRead(c)
  BY <1>51 DEF EndRead, Unshare, Goto
<1>52. CASE BeginWrite(c)
  BY <1>52 DEF BeginWrite, Lock, CanLock, Goto
<1>53. CASE WriteWalHdr(c)
  BY <1>53 DEF WriteWalHdr, Goto
<1>54. CASE Spill(c)
  BY <1>54 DEF Spill, InFrames, Goto
<1>55. CASE Commit(c)
  BY <1>55 DEF Commit, InFrames, Goto
<1>56. CASE Rollback(c)
  BY <1>56 DEF Rollback, TxnUsed, Unlock, Goto
<1>57. CASE BeginCkpt(c)
  BY <1>57 DEF BeginCkpt, Lock, CanLock, Goto
<1>58. CASE CkptInterrupt(c)
  BY <1>58 DEF CkptInterrupt, Unlock, Goto
<1> QED
  BY <1>1, <1>2, <1>3, <1>4, <1>5, <1>6, <1>7, <1>8, <1>9, <1>10, <1>11, <1>12, <1>13, <1>14,
      <1>15, <1>16, <1>17, <1>18, <1>19, <1>20, <1>21, <1>22, <1>23, <1>24, <1>25, <1>26, <1>27,
      <1>28, <1>29, <1>30, <1>31, <1>32, <1>33, <1>34, <1>35, <1>36, <1>37, <1>38, <1>39, <1>40,
      <1>41, <1>42, <1>43, <1>44, <1>45, <1>46, <1>47, <1>48, <1>49, <1>50, <1>51, <1>52, <1>53,
      <1>54, <1>55, <1>56, <1>57, <1>58, Zenon
     DEF Step, CallStep, HdrStep, ReadStep, WriteStep, CkptStep, UserStep

\* The loops over the read marks stay within them.
LEMMA MarkControlStep ==
    ASSUME NEW c \in Conn, Step(c), ControlTypes, Own(c), mxI \in [Conn -> 0..(WAL_NREADER - 1)]
    PROVE  MarkControl(c)'
<1> USE LockNumbers, ConnAssumption DEF ControlTypes, Own, MarkControl, OneMarkPCs, lockVars,
    ckptVars, readVars
<1>1. CASE ReadHdr(c)
  BY <1>1 DEF ReadHdr, AfterHdr, InCkpt, walIndexTryHdr, Goto
<1>2. CASE HdrLock(c)
  BY <1>2 DEF HdrLock, Lock, CanLock, bWriteLock, InCkpt, Goto
<1>3. CASE HdrRetry(c)
  BY <1>3 DEF HdrRetry, Unlock, HdrLocks, bWriteLock, InCkpt, AfterHdr, walIndexTryHdr, Goto
<1>4. CASE RecoverLock(c)
  BY <1>4 DEF RecoverLock, Lock, CanLock, RecoverLocks, InCkpt, Goto
<1>5. CASE RecoverBusy(c)
  BY <1>5 DEF RecoverBusy, Unlock, CanLock, InCkpt, HdrLocks, bWriteLock, RecoverLocks, Goto
<1>6. CASE CkptHdrBusy(c)
  BY <1>6 DEF CkptHdrBusy, CanLock, InCkpt, bWriteLock, Goto
<1>7. CASE RecoverScan(c)
  BY <1>7 DEF RecoverScan, Goto
<1>8. CASE RecoverHdr(c)
  BY <1>8 DEF RecoverHdr, Goto
<1>9. CASE RecoverInfo(c)
  BY <1>9 DEF RecoverInfo, RecoverBackfill, RecoverAttempted, Goto
<1>10. CASE RecoverMarkLock(c)
  BY <1>10 DEF RecoverMarkLock, Lock, CanLock, Goto
<1>11. CASE RecoverMarkSet(c)
  BY <1>11 DEF RecoverMarkSet, Unlock, Goto
<1>12. CASE RecoverEnd(c)
  BY <1>12 DEF RecoverEnd, Unlock, HdrLocks, bWriteLock, InCkpt, RecoverLocks, AfterHdr, Goto
<1>13. CASE CheckBackfill(c)
  BY <1>13 DEF CheckBackfill, ToScan, Goto
<1>14. CASE Lock0(c)
  BY <1>14 DEF Lock0, Share, CanShare, ToScan, Goto
<1>15. CASE Check0(c)
  BY <1>15 DEF Check0, HdrUnchanged, Unshare, Opened, useWal, Goto
<1>16. CASE ScanMark(c)
  <2>1. iMark[c] \in ReadMarks /\ mxI'[c] \in 0..(WAL_NREADER - 1)
    BY <1>16 DEF ScanMark
  <2>2. CASE iMark[c] + 1 \in ReadMarks
    BY <1>16, <2>1, <2>2 DEF ScanMark
  <2>3. CASE iMark[c] + 1 \notin ReadMarks /\ pc'[c] = "raise"
    BY <1>16, <2>1, <2>3 DEF ScanMark, Goto
  <2>4. CASE iMark[c] + 1 \notin ReadMarks /\ pc'[c] = "lockI"
    <3>1. mxI'[c] # 0
      BY <1>16, <2>4 DEF ScanMark, Goto
    <3> QED
      BY <2>1, <2>4, <3>1
  <2> QED
    BY <1>16, <2>2, <2>3, <2>4 DEF ScanMark, Goto
<1>17. CASE RaiseLock(c)
  BY <1>17 DEF RaiseLock, Lock, CanRaise, CanLock, Goto
<1>18. CASE RaiseBusy(c)
  <2>1. CASE iMark[c] + 1 \in ReadMarks
    BY <1>18, <2>1 DEF RaiseBusy
  <2>2. CASE iMark[c] + 1 \notin ReadMarks /\ mxI[c] # 0
    BY <1>18, <2>2 DEF RaiseBusy, Goto
  <2>3. CASE iMark[c] + 1 \notin ReadMarks /\ mxI[c] = 0
    BY <1>18, <2>3 DEF RaiseBusy, Retry, ToScan, Goto
  <2> QED
    BY <2>1, <2>2, <2>3
<1>19. CASE RaiseSet(c)
  BY <1>19 DEF RaiseSet, Unlock, Goto
<1>20. CASE LockI(c)
  BY <1>20 DEF LockI, Share, CanShare, Retry, ToScan, Goto, useWal
<1>21. CASE LoadMinFrame(c)
  BY <1>21 DEF LoadMinFrame, FirstFrame, Goto
<1>22. CASE CheckI(c)
  BY <1>22 DEF CheckI, HdrUnchanged, MarkUnchanged, Unshare, Retry, ToScan, Goto, useWal, Opened
<1>23. CASE WriteCheck(c)
  BY <1>23 DEF WriteCheck, SnapshotIsCurrent, Unlock, Goto
<1>24. CASE RestartLog(c)
  BY <1>24 DEF RestartLog, Lock, LogReadLocks, CanRestart, CanLock, Goto
<1>25. CASE RestartLogEnd(c)
  BY <1>25 DEF RestartLogEnd, Unlock, Unshare, LogReadLocks, ToScan, Goto, CanRestart, CanLock
<1>26. CASE RestartHdr1(c)
  BY <1>26 DEF RestartHdr1, Goto
<1>27. CASE RestartHdr0(c)
  BY <1>27 DEF RestartHdr0, Goto
<1>28. CASE RestartInfo(c)
  BY <1>28 DEF RestartInfo, RestartBackfill, RestartAttempted, Reset, Goto
<1>29. CASE RestartMarks(c)
  BY <1>29 DEF RestartMarks, InCkpt, Goto
<1>30. CASE Publish1(c)
  BY <1>30 DEF Publish1, Goto
<1>31. CASE Publish0(c)
  BY <1>31 DEF Publish0, Goto
<1>32. CASE EndWrite(c)
  BY <1>32 DEF EndWrite, Unlock, Goto
<1>33. CASE CkptWriter(c)
  BY <1>33 DEF CkptWriter, Lock, CanLock, Goto
<1>34. CASE CkptInfo(c)
  BY <1>34 DEF CkptInfo, AfterCopy, Goto
<1>35. CASE CkptMark(c)
  BY <1>35 DEF CkptMark, Goto
<1>36. CASE CkptMarkBusy(c)
  BY <1>36 DEF CkptMarkBusy, SafeWithReader, CanLock, Goto
<1>37. CASE CkptMarkLock(c)
  BY <1>37 DEF CkptMarkLock, Lock, CanLock, Goto
<1>38. CASE CkptMarkSet(c)
  BY <1>38 DEF CkptMarkSet, Unlock, Goto
<1>39. CASE CkptLock0(c)
  BY <1>39 DEF CkptLock0, CkptFrames, Lock, CanLock, AfterCopy, MoreToCopy, Goto
<1>40. CASE CkptCopy(c)
  BY <1>40 DEF CkptCopy
<1>41. CASE CkptTruncateDb(c)
  BY <1>41 DEF CkptTruncateDb, Goto
<1>42. CASE CkptDone(c)
  BY <1>42 DEF CkptDone, Goto
<1>43. CASE CkptUnlock0(c)
  BY <1>43 DEF CkptUnlock0, Unlock, AfterCopy, Goto
<1>44. CASE CkptRestart(c)
  BY <1>44 DEF CkptRestart, Lock, CanLock, LogReadLocks, WantsRestart, AfterDrain, Goto
<1>45. CASE CkptNoRestart(c)
  BY <1>45 DEF CkptNoRestart, CanLock, LogReadLocks, WantsRestart, Goto
<1>46. CASE CkptTruncateLog(c)
  BY <1>46 DEF CkptTruncateLog, Goto
<1>47. CASE CkptUnlock(c)
  BY <1>47 DEF CkptUnlock, Unlock, LogReadLocks, Goto
<1>48. CASE CkptEnd(c)
  BY <1>48 DEF CkptEnd, HdrAfterCkpt, Unlock, Goto
<1>49. CASE BeginRead(c)
  BY <1>49 DEF BeginRead, Goto
<1>50. CASE ReadFails(c)
  BY <1>50 DEF ReadFails, InCkpt, Goto
<1>51. CASE EndRead(c)
  BY <1>51 DEF EndRead, Unshare, Goto
<1>52. CASE BeginWrite(c)
  BY <1>52 DEF BeginWrite, Lock, CanLock, Goto
<1>53. CASE WriteWalHdr(c)
  BY <1>53 DEF WriteWalHdr, Goto
<1>54. CASE Spill(c)
  BY <1>54 DEF Spill, InFrames, Goto
<1>55. CASE Commit(c)
  BY <1>55 DEF Commit, InFrames, Goto
<1>56. CASE Rollback(c)
  BY <1>56 DEF Rollback, TxnUsed, Unlock, Goto
<1>57. CASE BeginCkpt(c)
  BY <1>57 DEF BeginCkpt, Lock, CanLock, Goto
<1>58. CASE CkptInterrupt(c)
  BY <1>58 DEF CkptInterrupt, Unlock, Goto
<1> QED
  BY <1>1, <1>2, <1>3, <1>4, <1>5, <1>6, <1>7, <1>8, <1>9, <1>10, <1>11, <1>12, <1>13, <1>14,
      <1>15, <1>16, <1>17, <1>18, <1>19, <1>20, <1>21, <1>22, <1>23, <1>24, <1>25, <1>26, <1>27,
      <1>28, <1>29, <1>30, <1>31, <1>32, <1>33, <1>34, <1>35, <1>36, <1>37, <1>38, <1>39, <1>40,
      <1>41, <1>42, <1>43, <1>44, <1>45, <1>46, <1>47, <1>48, <1>49, <1>50, <1>51, <1>52, <1>53,
      <1>54, <1>55, <1>56, <1>57, <1>58, Zenon
     DEF Step, CallStep, HdrStep, ReadStep, WriteStep, CkptStep, UserStep

\* The iterator of a checkpoint is empty outside the copy.
LEMMA TodoControlStep ==
    ASSUME NEW c \in Conn, Step(c), ControlTypes, Own(c), CkptTypes
    PROVE  TodoControl(c)'
<1> USE DEF ControlTypes, Own, TodoControl, CkptTypes, ckptVars
<1>1. CASE ReadHdr(c)
  BY <1>1 DEF ReadHdr, AfterHdr, InCkpt, walIndexTryHdr, Goto
<1>2. CASE HdrLock(c)
  BY <1>2 DEF HdrLock, Lock, CanLock, bWriteLock, InCkpt, Goto
<1>3. CASE HdrRetry(c)
  BY <1>3 DEF HdrRetry, Unlock, HdrLocks, bWriteLock, InCkpt, AfterHdr, walIndexTryHdr, Goto
<1>4. CASE RecoverLock(c)
  BY <1>4 DEF RecoverLock, Lock, CanLock, RecoverLocks, InCkpt, Goto
<1>5. CASE RecoverBusy(c)
  BY <1>5 DEF RecoverBusy, Unlock, CanLock, InCkpt, HdrLocks, bWriteLock, RecoverLocks, Goto
<1>6. CASE CkptHdrBusy(c)
  BY <1>6 DEF CkptHdrBusy, CanLock, InCkpt, bWriteLock, Goto
<1>7. CASE RecoverScan(c)
  BY <1>7 DEF RecoverScan, Goto
<1>8. CASE RecoverHdr(c)
  BY <1>8 DEF RecoverHdr, Goto
<1>9. CASE RecoverInfo(c)
  BY <1>9 DEF RecoverInfo, RecoverBackfill, RecoverAttempted, Goto
<1>10. CASE RecoverMarkLock(c)
  BY <1>10 DEF RecoverMarkLock, Lock, CanLock, Goto
<1>11. CASE RecoverMarkSet(c)
  BY <1>11 DEF RecoverMarkSet, Unlock, Goto
<1>12. CASE RecoverEnd(c)
  BY <1>12 DEF RecoverEnd, Unlock, HdrLocks, bWriteLock, InCkpt, RecoverLocks, AfterHdr, Goto
<1>13. CASE CheckBackfill(c)
  BY <1>13 DEF CheckBackfill, ToScan, Goto
<1>14. CASE Lock0(c)
  BY <1>14 DEF Lock0, Share, CanShare, ToScan, Goto
<1>15. CASE Check0(c)
  BY <1>15 DEF Check0, HdrUnchanged, Unshare, Opened, useWal, Goto
<1>16. CASE ScanMark(c)
  BY <1>16 DEF ScanMark, Goto
<1>17. CASE RaiseLock(c)
  BY <1>17 DEF RaiseLock, Lock, CanRaise, CanLock, Goto
<1>18. CASE RaiseBusy(c)
  BY <1>18 DEF RaiseBusy, Retry, ToScan, Goto, useWal, CanRaise, CanLock
<1>19. CASE RaiseSet(c)
  BY <1>19 DEF RaiseSet, Unlock, Goto
<1>20. CASE LockI(c)
  BY <1>20 DEF LockI, Share, CanShare, Retry, ToScan, Goto, useWal
<1>21. CASE LoadMinFrame(c)
  BY <1>21 DEF LoadMinFrame, FirstFrame, Goto
<1>22. CASE CheckI(c)
  BY <1>22 DEF CheckI, HdrUnchanged, MarkUnchanged, Unshare, Retry, ToScan, Goto, useWal, Opened
<1>23. CASE WriteCheck(c)
  BY <1>23 DEF WriteCheck, SnapshotIsCurrent, Unlock, Goto
<1>24. CASE RestartLog(c)
  BY <1>24 DEF RestartLog, Lock, LogReadLocks, CanRestart, CanLock, Goto
<1>25. CASE RestartLogEnd(c)
  BY <1>25 DEF RestartLogEnd, Unlock, Unshare, LogReadLocks, ToScan, Goto, CanRestart, CanLock
<1>26. CASE RestartHdr1(c)
  BY <1>26 DEF RestartHdr1, Goto
<1>27. CASE RestartHdr0(c)
  BY <1>27 DEF RestartHdr0, Goto
<1>28. CASE RestartInfo(c)
  BY <1>28 DEF RestartInfo, RestartBackfill, RestartAttempted, Reset, Goto
<1>29. CASE RestartMarks(c)
  BY <1>29 DEF RestartMarks, InCkpt, Goto
<1>30. CASE Publish1(c)
  BY <1>30 DEF Publish1, Goto
<1>31. CASE Publish0(c)
  BY <1>31 DEF Publish0, Goto
<1>32. CASE EndWrite(c)
  BY <1>32 DEF EndWrite, Unlock, Goto
<1>33. CASE CkptWriter(c)
  BY <1>33 DEF CkptWriter, Lock, CanLock, Goto
<1>34. CASE CkptInfo(c)
  BY <1>34 DEF CkptInfo, AfterCopy, Goto
<1>35. CASE CkptMark(c)
  BY <1>35 DEF CkptMark, Goto
<1>36. CASE CkptMarkBusy(c)
  BY <1>36 DEF CkptMarkBusy, SafeWithReader, CanLock, Goto
<1>37. CASE CkptMarkLock(c)
  BY <1>37 DEF CkptMarkLock, Lock, CanLock, Goto
<1>38. CASE CkptMarkSet(c)
  BY <1>38 DEF CkptMarkSet, Unlock, Goto
<1>39. CASE CkptLock0(c)
  BY <1>39 DEF CkptLock0, CkptFrames, Lock, CanLock, AfterCopy, MoreToCopy, Goto
<1>40. CASE CkptCopy(c)
  BY <1>40 DEF CkptCopy
<1>41. CASE CkptTruncateDb(c)
  BY <1>41 DEF CkptTruncateDb, Goto
<1>42. CASE CkptDone(c)
  BY <1>42 DEF CkptDone, Goto
<1>43. CASE CkptUnlock0(c)
  BY <1>43 DEF CkptUnlock0, Unlock, AfterCopy, Goto
<1>44. CASE CkptRestart(c)
  BY <1>44 DEF CkptRestart, Lock, CanLock, LogReadLocks, WantsRestart, AfterDrain, Goto
<1>45. CASE CkptNoRestart(c)
  BY <1>45 DEF CkptNoRestart, CanLock, LogReadLocks, WantsRestart, Goto
<1>46. CASE CkptTruncateLog(c)
  BY <1>46 DEF CkptTruncateLog, Goto
<1>47. CASE CkptUnlock(c)
  BY <1>47 DEF CkptUnlock, Unlock, LogReadLocks, Goto
<1>48. CASE CkptEnd(c)
  BY <1>48 DEF CkptEnd, HdrAfterCkpt, Unlock, Goto
<1>49. CASE BeginRead(c)
  BY <1>49 DEF BeginRead, Goto
<1>50. CASE ReadFails(c)
  BY <1>50 DEF ReadFails, InCkpt, Goto
<1>51. CASE EndRead(c)
  BY <1>51 DEF EndRead, Unshare, Goto
<1>52. CASE BeginWrite(c)
  BY <1>52 DEF BeginWrite, Lock, CanLock, Goto
<1>53. CASE WriteWalHdr(c)
  BY <1>53 DEF WriteWalHdr, Goto
<1>54. CASE Spill(c)
  BY <1>54 DEF Spill, InFrames, Goto
<1>55. CASE Commit(c)
  BY <1>55 DEF Commit, InFrames, Goto
<1>56. CASE Rollback(c)
  BY <1>56 DEF Rollback, TxnUsed, Unlock, Goto
<1>57. CASE BeginCkpt(c)
  BY <1>57 DEF BeginCkpt, Lock, CanLock, Goto
<1>58. CASE CkptInterrupt(c)
  BY <1>58 DEF CkptInterrupt, Unlock, Goto
<1> QED
  BY <1>1, <1>2, <1>3, <1>4, <1>5, <1>6, <1>7, <1>8, <1>9, <1>10, <1>11, <1>12, <1>13, <1>14,
      <1>15, <1>16, <1>17, <1>18, <1>19, <1>20, <1>21, <1>22, <1>23, <1>24, <1>25, <1>26, <1>27,
      <1>28, <1>29, <1>30, <1>31, <1>32, <1>33, <1>34, <1>35, <1>36, <1>37, <1>38, <1>39, <1>40,
      <1>41, <1>42, <1>43, <1>44, <1>45, <1>46, <1>47, <1>48, <1>49, <1>50, <1>51, <1>52, <1>53,
      <1>54, <1>55, <1>56, <1>57, <1>58, Zenon
     DEF Step, CallStep, HdrStep, ReadStep, WriteStep, CkptStep, UserStep


(***************************************************************************)
(* Types of the data                                                       *)
(***************************************************************************)
\* Top of a bounded set of numbers is a member of it, and the largest one.
LEMMA TopIsMember ==
    ASSUME NEW n \in Nat, NEW S \in SUBSET (0..n), S # {}
    PROVE  Top(S) \in S /\ \A i \in S : i <= Top(S)
<1> DEFINE T == {n - i : i \in S}
<1>1. T \subseteq Nat /\ T # {}
  <2>1. \A i \in S : i \in 0..n
    OBVIOUS
  <2>2. \A i \in 0..n : n - i \in Nat
    OBVIOUS
  <2>3. T \subseteq Nat
    BY <2>1, <2>2
  <2> QED
    BY <2>3
<1>2. PICK x \in T : \A z \in T : ~ (<<z, x>> \in OpToRel(<, Nat))
  <2> HIDE DEF T
  <2> QED
    BY <1>1, NatLessThanWellFounded, WFMin
<1>3. \A z \in T : ~ (z < x)
  BY <1>1, <1>2 DEF OpToRel
<1>4. PICK m \in S : x = n - m
  BY <1>2
<1>5. ASSUME NEW i \in S
      PROVE  i <= m
  <2>1. i \in 0..n /\ m \in 0..n
    BY <1>4
  <2>2. ~ (n - i < n - m)
    BY <1>3, <1>4
  <2> QED
    BY <2>1, <2>2
<1> QED
  BY <1>4, <1>5 DEF Top

\* Recovery finds its last commit within the WAL file.
LEMMA RecoveredInLog ==
    ASSUME FileTypes
    PROVE  RecoveredFrame \in 0..Len(log)
<1> DEFINE S == {m \in 1..Len(log) : /\ log[m].nTruncate # 0
                                     /\ \A i \in 1..m : walDecodeFrame(i)}
<1>1. Len(log) \in Nat
  BY DEF FileTypes
<1>2. CASE S = {}
  BY <1>1, <1>2 DEF RecoveredFrame, Top
<1>3. CASE S # {}
  <2>1. S \in SUBSET (0..Len(log))
    BY <1>1
  <2>2. Top(S) \in S
    <3> HIDE DEF S
    <3> QED
      BY <1>1, <1>3, <2>1, TopIsMember
  <2>3. RecoveredFrame = Top(S)
    BY DEF RecoveredFrame
  <2> HIDE DEF S
  <2> QED
    BY <2>1, <2>2, <2>3
<1> QED
  BY <1>2, <1>3

\* So the header it builds is one.
LEMMA RecoveredHdrType ==
    ASSUME FileTypes
    PROVE  RecoveredHdr \in Header
<1>1. RecoveredFrame \in 0..Len(log) /\ Len(log) \in Nat /\ Len(log) <= MaxFrame
  BY RecoveredInLog DEF FileTypes
<1>2. RecoveredFrame \in Frame
  BY <1>1, BoundAssumption DEF Frame
<1>3. ASSUME RecoveredFrame # 0
      PROVE  log[RecoveredFrame] \in FrameRec
  BY <1>1, <1>3 DEF FileTypes
<1>4. 0 \in 0..MaxPage /\ 0 \in 0..MaxSalt /\ 0 \in Txn
  BY BoundAssumption DEF Txn
<1> QED
  BY <1>2, <1>3, <1>4 DEF RecoveredHdr, Header, FrameRec, FileTypes


\* Small numbers of every type.
LEMMA Zeros ==
    /\ 0 \in Frame /\ 0 \in Txn /\ 0 \in 0..MaxPage /\ 0 \in 0..MaxSalt /\ 0 \in 0..1 /\ 1 \in 0..1
    /\ 0 \in 0..(WAL_NREADER - 1) /\ 0 \in -1..(WAL_NREADER - 1) /\ -1 \in -1..(WAL_NREADER - 1)
    /\ 0 \in 0..(MaxFrame + 1) /\ 0 \in 0..READMARK_NOT_USED
    /\ READMARK_NOT_USED \in 0..READMARK_NOT_USED
    /\ \A n \in Frame : n \in 0..READMARK_NOT_USED /\ n + 1 \in 0..(MaxFrame + 1) /\ n \in Nat
    /\ \A i \in ReadMarks : i \in 0..(WAL_NREADER - 1) /\ i \in -1..(WAL_NREADER - 1)
    /\ ZeroHdr \in Header /\ NoImage \in Image
    /\ [txn |-> 0, img |-> NoImage] \in Version
  BY BoundAssumption DEF Frame, Txn, READMARK_NOT_USED, ReadMarks, ZeroHdr, Header, NoImage, Image,
     Version

\* What walTryBeginRead computes has its type.
LEMMA ReadTypesStep ==
    ASSUME NEW c \in Conn, Step(c), ControlTypes, Own(c), ReadTypes, ShmTypes, HdrTypes
    PROVE  ReadTypes'
<1> USE LockNumbers, Zeros DEF ReadTypes
<1>1. CASE CheckBackfill(c)
  BY <1>1 DEF CheckBackfill, ToScan
<1>2. CASE Lock0(c)
  BY <1>2 DEF Lock0, ToScan
<1>3. CASE Check0(c)
  BY <1>3 DEF Check0
<1>4. CASE ScanMark(c)
  <2>1. iMark[c] \in ReadMarks /\ hdr[c].mxFrame \in Frame
    BY <1>4 DEF ScanMark, Own, MarkControl, HdrTypes, Header
  <2>2. aReadMark[iMark[c]] \in 0..READMARK_NOT_USED
    BY <2>1 DEF ShmTypes
  <2>3. MarkIsUsable(c, aReadMark[iMark[c]]) => aReadMark[iMark[c]] \in Frame
    BY <2>1, <2>2, BoundAssumption DEF MarkIsUsable, Frame, READMARK_NOT_USED
  <2>4. mxReadMark' \in [Conn -> Frame]
    BY <1>4, <2>3 DEF ScanMark
  <2>5. mxI' \in [Conn -> 0..(WAL_NREADER - 1)]
    BY <1>4, <2>1 DEF ScanMark
  <2> QED
    BY <1>4, <2>4, <2>5 DEF ScanMark
<1>5. CASE RaiseBusy(c)
  BY <1>5 DEF RaiseBusy, Retry, ToScan
<1>6. CASE RaiseSet(c)
  <2>1. iMark[c] \in ReadMarks /\ hdr[c].mxFrame \in Frame
    BY <1>6 DEF RaiseSet, Own, MarkControl, OneMarkPCs, HdrTypes, Header
  <2> QED
    BY <1>6, <2>1 DEF RaiseSet
<1>7. CASE LockI(c)
  BY <1>7 DEF LockI, Retry, ToScan
<1>8. CASE LoadMinFrame(c)
  BY <1>8 DEF LoadMinFrame, FirstFrame, ShmTypes
<1>9. CASE CheckI(c)
  <2>1. mxI[c] \in ReadMarks
    BY <1>9 DEF CheckI, Own, MarkControl
  <2>2. CASE MarkUnchanged(c) /\ HdrUnchanged(c)
    BY <1>9, <2>1, <2>2 DEF CheckI
  <2>3. CASE ~ (MarkUnchanged(c) /\ HdrUnchanged(c))
    BY <1>9, <2>3 DEF CheckI, Retry, ToScan
  <2> QED
    BY <2>2, <2>3
<1>10. CASE EndRead(c)
  BY <1>10 DEF EndRead
<1>11. CASE RestartLogEnd(c)
  BY <1>11 DEF RestartLogEnd, ToScan
<1>12. CASE ~ (CheckBackfill(c) \/ Lock0(c) \/ Check0(c) \/ ScanMark(c) \/ RaiseBusy(c) \/
              RaiseSet(c) \/ LockI(c) \/ LoadMinFrame(c) \/ CheckI(c) \/ EndRead(c) \/
              RestartLogEnd(c))
  <2>1. UNCHANGED readVars
    BY <1>12, Zenon DEF Step, CallStep, HdrStep, ReadStep, WriteStep, CkptStep, UserStep,
        ReadHdr, fileVars, shmVars, infoVars, lockVars, readVars, ckptVars, commitVars,
        viewVars, HdrLock, hdrVars, HdrRetry, RecoverLock, RecoverBusy, CkptHdrBusy,
        RecoverScan, RecoverHdr, RecoverInfo, RecoverBackfill, RecoverAttempted, RecoverMarkLock, RecoverMarkSet, RecoverEnd,
        RaiseLock, WriteCheck, RestartLog, RestartHdr1, RestartHdr0, RestartInfo, RestartBackfill, RestartAttempted, RestartMarks,
        Publish1, Publish0, EndWrite, CkptWriter, CkptInfo, CkptMark, CkptMarkBusy,
        CkptMarkLock, CkptMarkSet, CkptLock0, CkptCopy, CkptTruncateDb, CkptDone, CkptUnlock0,
        CkptRestart, CkptNoRestart, CkptTruncateLog, CkptUnlock, CkptEnd, BeginRead, ReadFails,
        BeginWrite, WriteWalHdr, Spill, Commit, Rollback, BeginCkpt, CkptInterrupt
  <2> QED
    BY <2>1 DEF readVars
<1> QED
  BY <1>1, <1>2, <1>3, <1>4, <1>5, <1>6, <1>7, <1>8, <1>9, <1>10, <1>11, <1>12

\* What walCheckpoint computes has its type.
LEMMA CkptTypesStep ==
    ASSUME NEW c \in Conn, Step(c), ControlTypes, Own(c), CkptTypes, ShmTypes, HdrTypes, FileTypes
    PROVE  CkptTypes'
<1> USE LockNumbers, Zeros DEF CkptTypes
<1>1. CASE CkptInfo(c)
  <2>1. hdr[c].mxFrame \in Frame
    BY DEF HdrTypes, Header
  <2> QED
    BY <1>1, <2>1 DEF CkptInfo
<1>2. CASE CkptMark(c)
  <2>1. aReadMark[iMark[c]] \in 0..READMARK_NOT_USED /\ mxSafeFrame[c] \in Frame
    BY <1>2 DEF CkptMark, ShmTypes
  <2>2. mxSafeFrame[c] > aReadMark[iMark[c]] => aReadMark[iMark[c]] \in Frame
    BY <2>1, BoundAssumption DEF Frame, READMARK_NOT_USED
  <2> QED
    BY <1>2, <2>2 DEF CkptMark
<1>3. CASE CkptMarkBusy(c)
  BY <1>3 DEF CkptMarkBusy, SafeWithReader
<1>4. CASE CkptMarkSet(c)
  BY <1>4 DEF CkptMarkSet
<1>5. CASE CkptLock0(c)
  <2>1. CkptFrames(c) \subseteq 1..Len(log)
    BY DEF CkptFrames
  <2>2. CkptFrames(c) \subseteq 1..MaxFrame
    BY <2>1, BoundAssumption, SMTT(30) DEF FileTypes
  <2> QED
    BY <1>5, <2>2 DEF CkptLock0
<1>6. CASE CkptCopy(c)
  BY <1>6 DEF CkptCopy
<1>7. CASE CkptInterrupt(c)
  BY <1>7 DEF CkptInterrupt
<1>8. CASE CkptEnd(c)
  BY <1>8 DEF CkptEnd
<1>9. CASE ~ (CkptInfo(c) \/ CkptMark(c) \/ CkptMarkBusy(c) \/ CkptMarkSet(c) \/ CkptLock0(c) \/
              CkptCopy(c) \/ CkptInterrupt(c) \/ CkptEnd(c))
  <2>1. UNCHANGED <<y, mxSafeFrame, todo>>
    BY <1>9, Zenon DEF Step, CallStep, HdrStep, ReadStep, WriteStep, CkptStep, UserStep,
        ReadHdr, fileVars, shmVars, infoVars, lockVars, readVars, ckptVars, commitVars,
        viewVars, HdrLock, hdrVars, HdrRetry, RecoverLock, RecoverBusy, CkptHdrBusy,
        RecoverScan, RecoverHdr, RecoverInfo, RecoverBackfill, RecoverAttempted, RecoverMarkLock, RecoverMarkSet, RecoverEnd,
        CheckBackfill, Lock0, Check0, ScanMark, RaiseLock, RaiseBusy, RaiseSet, LockI,
        LoadMinFrame, CheckI, WriteCheck, RestartLog, RestartLogEnd, RestartHdr1, RestartHdr0,
        RestartInfo, RestartBackfill, RestartAttempted, RestartMarks, Publish1, Publish0, EndWrite, CkptWriter, CkptMarkLock,
        CkptTruncateDb, CkptDone, CkptUnlock0, CkptRestart, CkptNoRestart, CkptTruncateLog,
        CkptUnlock, BeginRead, ReadFails, EndRead, BeginWrite, WriteWalHdr, Spill, Commit,
        Rollback, BeginCkpt
  <2> QED
    BY <2>1
<1> QED
  BY <1>1, <1>2, <1>3, <1>4, <1>5, <1>6, <1>7, <1>8, <1>9


\* The header of an empty log is one.
LEMMA RestartHdrType ==
    ASSUME NEW c \in Conn, HdrTypes, RestartHdr1(c)
    PROVE  /\ hdr' \in [Conn -> Header]
           /\ hdr'[c] \in Header /\ hdr'[c].mxFrame = 0
<1>1. PICK s \in NewSalts : hdr' = [hdr EXCEPT ![c].mxFrame = 0, ![c].aSalt = s]
  BY DEF RestartHdr1
<1>2. s \in 0..MaxSalt
  BY BoundAssumption DEF NewSalts
<1>3. hdr[c] \in Header
  BY DEF HdrTypes
<1> DEFINE h == [hdr[c] EXCEPT !.mxFrame = 0, !.aSalt = s]
<1>4. h \in Header /\ h.mxFrame = 0
  BY <1>2, <1>3, Zeros DEF Header
<1>5. hdr' = [hdr EXCEPT ![c] = h]
  BY <1>1, <1>3 DEF HdrTypes
<1> QED
  BY <1>4, <1>5 DEF HdrTypes

\* A frame of the running transaction is one.
LEMMA FrameType ==
    ASSUME NEW c \in Conn, HdrTypes, HistTypes,
           NEW p \in Page, NEW first \in BOOLEAN, NEW n \in 0..MaxPage
    PROVE  FrameOf(c, p, first, n) \in FrameRec
<1>1. hdr[c].aSalt \in 0..MaxSalt /\ hdr[c].aFrameCksum \in Txn
  BY DEF HdrTypes, Header
<1>2. txn \in Txn
  BY BoundAssumption DEF HistTypes, Txn
<1> QED
  BY <1>1, <1>2 DEF FrameOf, FrameRec

\* Frames written behind a frame of the log leave a log that is not shorter.
LEMMA WriteFramesType ==
    ASSUME NEW c \in Conn, FileTypes, HdrTypes, hdr[c].mxFrame <= Len(log),
           NEW fs \in Seq(FrameRec), hdr[c].mxFrame + Len(fs) <= MaxFrame
    PROVE  /\ WriteFrames(c, fs) \in Seq(FrameRec)
           /\ Len(WriteFrames(c, fs)) <= MaxFrame
           /\ Len(log) <= Len(WriteFrames(c, fs))
           /\ hdr[c].mxFrame + Len(fs) <= Len(WriteFrames(c, fs))
<1> DEFINE m == hdr[c].mxFrame
           n == m + Len(fs)
           k == IF n > Len(log) THEN n ELSE Len(log)
<1>1. m \in Nat /\ Len(fs) \in Nat /\ Len(log) \in Nat
  <2>1. m \in Frame
    BY DEF HdrTypes, Header
  <2> QED
    BY <2>1, Zeros DEF FileTypes
<1>2. n \in Nat /\ k \in Nat /\ k <= MaxFrame /\ n <= k /\ Len(log) <= k
  BY <1>1 DEF FileTypes
<1>3. WriteFrames(c, fs) = [i \in 1..k |-> IF i > m /\ i <= n THEN fs[i - m] ELSE log[i]]
  BY DEF WriteFrames
<1>4. ASSUME NEW i \in 1..k
      PROVE  (IF i > m /\ i <= n THEN fs[i - m] ELSE log[i]) \in FrameRec
  <2>1. CASE i > m /\ i <= n
    <3>1. i - m \in 1..Len(fs)
      BY <1>1, <1>2, <2>1
    <3> QED
      BY <2>1, <3>1
  <2>2. CASE ~ (i > m /\ i <= n)
    <3>1. i \in 1..Len(log)
      BY <1>1, <1>2, <2>2
    <3> QED
      BY <2>2, <3>1 DEF FileTypes
  <2> QED
    BY <2>1, <2>2
<1>5. WriteFrames(c, fs) \in [1..k -> FrameRec]
  BY <1>3, <1>4
<1>6. WriteFrames(c, fs) \in Seq(FrameRec) /\ Len(WriteFrames(c, fs)) = k
  <2> HIDE DEF k
  <2> QED
    BY <1>2, <1>5
<1> QED
  BY <1>2, <1>6

\* The wal-index keeps its type.
LEMMA ShmTypesStep ==
    ASSUME NEW c \in Conn, Step(c), ControlTypes, Own(c), ShmTypes, HdrTypes, CkptTypes, FileTypes
    PROVE  ShmTypes'
<1> USE LockNumbers, Zeros DEF ShmTypes
<1>1. CASE RecoverScan(c)
  BY <1>1, RecoveredHdrType DEF RecoverScan, infoVars
<1>2. CASE RecoverHdr(c)
  BY <1>2 DEF RecoverHdr, infoVars, HdrTypes
<1>3. CASE RecoverInfo(c)
  BY <1>3 DEF RecoverInfo, RecoverBackfill, RecoverAttempted, HdrTypes, Header
<1>4. CASE RecoverMarkSet(c)
  BY <1>4 DEF RecoverMarkSet, infoVars, HdrTypes, Header
<1>5. CASE RaiseSet(c)
  BY <1>5 DEF RaiseSet, infoVars, HdrTypes, Header
<1>6. CASE RestartHdr1(c)
  BY <1>6, RestartHdrType DEF RestartHdr1, infoVars
<1>7. CASE RestartHdr0(c)
  BY <1>7 DEF RestartHdr0, infoVars, HdrTypes
<1>8. CASE RestartInfo(c)
  BY <1>8 DEF RestartInfo, RestartBackfill, RestartAttempted, Reset
<1>9. CASE RestartMarks(c)
  BY <1>9 DEF RestartMarks, infoVars
<1>10. CASE Publish1(c)
  BY <1>10 DEF Publish1, infoVars, HdrTypes
<1>11. CASE Publish0(c)
  BY <1>11 DEF Publish0, infoVars, HdrTypes
<1>12. CASE CkptMarkSet(c)
  BY <1>12 DEF CkptMarkSet, infoVars, CkptTypes
<1>13. CASE CkptLock0(c)
  BY <1>13 DEF CkptLock0, CkptTypes
<1>14. CASE CkptDone(c)
  BY <1>14 DEF CkptDone, CkptTypes
<1>15. CASE ~ (RecoverScan(c) \/ RecoverHdr(c) \/ RecoverInfo(c) \/ RecoverMarkSet(c) \/
              RaiseSet(c) \/ RestartHdr1(c) \/ RestartHdr0(c) \/ RestartInfo(c) \/
              RestartMarks(c) \/ Publish1(c) \/ Publish0(c) \/ CkptMarkSet(c) \/ CkptLock0(c) \/
              CkptDone(c))
  <2>1. UNCHANGED shmVars
    BY <1>15, Zenon DEF Step, CallStep, HdrStep, ReadStep, WriteStep, CkptStep, UserStep,
        ReadHdr, fileVars, shmVars, infoVars, lockVars, readVars, ckptVars, commitVars,
        viewVars, HdrLock, hdrVars, HdrRetry, RecoverLock, RecoverBusy, CkptHdrBusy,
        RecoverMarkLock, RecoverEnd, CheckBackfill, Lock0, Check0, ScanMark, RaiseLock,
        RaiseBusy, LockI, LoadMinFrame, CheckI, WriteCheck, RestartLog, RestartLogEnd, EndWrite,
        CkptWriter, CkptInfo, CkptMark, CkptMarkBusy, CkptMarkLock, CkptCopy, CkptTruncateDb,
        CkptUnlock0, CkptRestart, CkptNoRestart, CkptTruncateLog, CkptUnlock, CkptEnd,
        BeginRead, ReadFails, EndRead, BeginWrite, WriteWalHdr, Spill, Commit, Rollback,
        BeginCkpt, CkptInterrupt
  <2> QED
    BY <2>1 DEF shmVars, infoVars
<1> QED
  BY <1>1, <1>2, <1>3, <1>4, <1>5, <1>6, <1>7, <1>8, <1>9, <1>10, <1>11, <1>12, <1>13, <1>14,
      <1>15


\* The frames of a commit are frames.
LEMMA CommitFramesType ==
    ASSUME NEW c \in Conn, HdrTypes, HistTypes,
           NEW w \in Writes, NEW q \in Ascending(NewPages(c, w.pages))
    PROVE  /\ Len(q) \in Nat
           /\ CommitFrames(c, q, w.size) \in Seq(FrameRec)
           /\ Len(CommitFrames(c, q, w.size)) = Len(q)
<1> DEFINE S == NewPages(c, w.pages)
           fs == CommitFrames(c, q, w.size)
<1>1. w.pages \subseteq Page /\ w.size \in 0..MaxPage /\ 0 \in 0..MaxPage
  BY BoundAssumption DEF Page
<1>2. S \subseteq Page
  BY <1>1 DEF NewPages
<1>3. Cardinality(S) \in Nat
  <2>1. IsFiniteSet(Page)
    BY BoundAssumption, FS_Interval DEF Page
  <2>2. IsFiniteSet(S)
    BY <1>2, <2>1, FS_Subset
  <2> HIDE DEF S
  <2> QED
    BY <2>2, FS_CardinalityType
<1>4. q \in [1..Cardinality(S) -> S]
  BY DEF Ascending
<1> HIDE DEF S
<1>5. Len(q) = Cardinality(S)
  BY <1>3, <1>4
<1>6. \A i \in 1..Len(q) : q[i] \in Page
  BY <1>2, <1>4, <1>5
<1>7. \A i \in 1..Len(q) : fs[i] \in FrameRec
  BY <1>1, <1>6, FrameType DEF CommitFrames
<1>8. fs \in [1..Len(q) -> FrameRec]
  BY <1>7 DEF CommitFrames
<1> HIDE DEF fs
<1>9. fs \in Seq(FrameRec) /\ Len(fs) = Len(q)
  BY <1>3, <1>5, <1>8
<1> QED
  BY <1>3, <1>5, <1>9 DEF fs

\* What a spill writes, and the header it leaves.
LEMMA SpillType ==
    ASSUME NEW c \in Conn, FileTypes, HdrTypes, HistTypes, hdr[c].mxFrame <= Len(log), Spill(c)
    PROVE  /\ log' \in Seq(FrameRec) /\ Len(log') <= MaxFrame /\ Len(log) <= Len(log')
           /\ hdr' \in [Conn -> Header]
           /\ hdr'[c].mxFrame <= Len(log')
           /\ work' \in Image
<1>1. PICK p \in Spills : /\ log' = WriteFrames(c, <<FrameOf(c, p, TRUE, 0)>>)
                          /\ work' = [work EXCEPT ![p] = txn]
  BY DEF Spill
<1>2. p \in Page /\ 0 \in 0..MaxPage
  BY BoundAssumption DEF Page
<1> DEFINE fs == <<FrameOf(c, p, TRUE, 0)>>
<1>3. fs \in Seq(FrameRec) /\ Len(fs) = 1
  <2>1. FrameOf(c, p, TRUE, 0) \in FrameRec
    BY <1>2, FrameType
  <2>2. ASSUME NEW S, NEW x \in S PROVE <<x>> \in Seq(S) /\ Len(<<x>>) = 1
    OBVIOUS
  <2> QED
    BY <2>1, <2>2
<1>4. hdr[c] \in Header /\ hdr[c].mxFrame \in Frame /\ hdr[c].mxFrame < MaxFrame
  BY DEF HdrTypes, Header, Spill
<1>5. hdr[c].mxFrame + 1 <= MaxFrame /\ hdr[c].mxFrame + 1 \in Frame
  BY <1>4, BoundAssumption DEF Frame
<1>6. /\ log' \in Seq(FrameRec) /\ Len(log') <= MaxFrame /\ Len(log) <= Len(log')
      /\ hdr[c].mxFrame + 1 <= Len(log')
  BY <1>1, <1>3, <1>5, WriteFramesType
<1>7. txn \in Txn
  BY BoundAssumption DEF HistTypes, Txn
<1> DEFINE h == [hdr[c] EXCEPT !.mxFrame = hdr[c].mxFrame + 1, !.aFrameCksum = txn]
<1>8. hdr' = [hdr EXCEPT ![c] = h]
  BY <1>4 DEF Spill, HdrTypes
<1>9. h \in Header /\ h.mxFrame = hdr[c].mxFrame + 1
  BY <1>4, <1>5, <1>7 DEF Header
<1>10. hdr' \in [Conn -> Header] /\ hdr'[c].mxFrame <= Len(log')
  BY <1>6, <1>8, <1>9 DEF HdrTypes
<1>11. work' \in Image
  BY <1>1, <1>2, <1>7 DEF HistTypes, Image
<1> QED
  BY <1>6, <1>10, <1>11

\* What a commit writes, and the header it leaves.
LEMMA CommitType ==
    ASSUME NEW c \in Conn, FileTypes, HdrTypes, HistTypes, hdr[c].mxFrame <= Len(log), Commit(c)
    PROVE  /\ log' \in Seq(FrameRec) /\ Len(log') <= MaxFrame /\ Len(log) <= Len(log')
           /\ hdr' \in [Conn -> Header]
           /\ hdr'[c].mxFrame <= Len(log')
           /\ pend' \in Version
<1>1. PICK w \in Writes :
        \E q \in Ascending(NewPages(c, w.pages)) :
          /\ hdr[c].mxFrame + Len(q) <= MaxFrame
          /\ log' = WriteFrames(c, CommitFrames(c, q, w.size))
          /\ hdr' = [hdr EXCEPT ![c].mxFrame = @ + Len(q), ![c].aFrameCksum = txn,
                                ![c].iChange = @ + 1, ![c].nPage = w.size]
          /\ pend' = [txn |-> txn, img |-> Committed(w.pages, w.size)]
  BY DEF Commit
<1>2. PICK q \in Ascending(NewPages(c, w.pages)) :
          /\ hdr[c].mxFrame + Len(q) <= MaxFrame
          /\ log' = WriteFrames(c, CommitFrames(c, q, w.size))
          /\ hdr' = [hdr EXCEPT ![c].mxFrame = @ + Len(q), ![c].aFrameCksum = txn,
                                ![c].iChange = @ + 1, ![c].nPage = w.size]
          /\ pend' = [txn |-> txn, img |-> Committed(w.pages, w.size)]
  BY <1>1
<1> DEFINE fs == CommitFrames(c, q, w.size)
<1>3. Len(q) \in Nat /\ fs \in Seq(FrameRec) /\ Len(fs) = Len(q)
  BY CommitFramesType
<1>4. hdr[c] \in Header /\ hdr[c].mxFrame \in Frame
  BY DEF HdrTypes, Header
<1>5. hdr[c].mxFrame + Len(q) \in Frame
  BY <1>2, <1>3, <1>4, BoundAssumption, SMTT(30) DEF Frame
<1>6. /\ log' \in Seq(FrameRec) /\ Len(log') <= MaxFrame /\ Len(log) <= Len(log')
      /\ hdr[c].mxFrame + Len(q) <= Len(log')
  <2> HIDE DEF fs
  <2>1. log' = WriteFrames(c, fs)
    BY <1>2 DEF fs
  <2> QED
    BY <1>2, <1>3, <2>1, WriteFramesType
<1>7. txn \in Txn
  BY BoundAssumption DEF HistTypes, Txn
<1>8. w.size \in 0..MaxPage
  BY BoundAssumption
<1> DEFINE h == [hdr[c] EXCEPT !.mxFrame = hdr[c].mxFrame + Len(q), !.aFrameCksum = txn,
                               !.iChange = hdr[c].iChange + 1, !.nPage = w.size]
<1>9. hdr' = [hdr EXCEPT ![c] = h]
  BY <1>2, <1>4 DEF HdrTypes
<1>10. h \in Header /\ h.mxFrame = hdr[c].mxFrame + Len(q)
  <2>1. hdr[c].iChange + 1 \in Nat
    BY <1>4 DEF Header
  <2>2. ASSUME NEW m \in Frame, NEW i \in Nat
        PROVE  LET g == [hdr[c] EXCEPT !.mxFrame = m, !.aFrameCksum = txn,
                                       !.iChange = i, !.nPage = w.size]
               IN  g \in Header /\ g.mxFrame = m
    BY <1>4, <1>7, <1>8 DEF Header
  <2> QED
    BY <1>5, <2>1, <2>2
<1>11. hdr' \in [Conn -> Header] /\ hdr'[c].mxFrame <= Len(log')
  BY <1>6, <1>9, <1>10 DEF HdrTypes
<1>12. Committed(w.pages, w.size) \in Image
  BY <1>7, Zeros DEF Committed, Image, HistTypes
<1>13. pend' \in Version
  BY <1>2, <1>7, <1>12 DEF Version
<1> QED
  BY <1>6, <1>11, <1>13


\* A connection about to write frames has a header that the log covers.
LEMMA WriterHdrInLog ==
    ASSUME NEW c \in Conn, LogCoversHdr, InFrames(c)
    PROVE  hdr[c].mxFrame <= Len(log)
  BY DEF LogCoversHdr, InFrames, OwnHdr, InWrite, WritePCs

\* The files keep their types.
LEMMA FileTypesStep ==
    ASSUME NEW c \in Conn, Step(c), ControlTypes, Own(c), FileTypes, HdrTypes, HistTypes,
           CkptTypes, LogCoversHdr, CopyInv(c)
    PROVE  FileTypes'
<1> USE DEF FileTypes
<1>1. CASE WriteWalHdr(c)
  <2>1. \E s \in 0..MaxSalt : logHdr' = [aSalt |-> s, nCkpt |-> nCkpt[c]]
    BY <1>1, BoundAssumption DEF WriteWalHdr, NewSalts, HdrTypes, Header
  <2> QED
    BY <1>1, <2>1 DEF WriteWalHdr, HdrTypes
<1>2. CASE Spill(c)
  <2>1. hdr[c].mxFrame <= Len(log)
    BY <1>2, WriterHdrInLog DEF Spill
  <2> QED
    BY <1>2, <2>1, SpillType DEF Spill
<1>3. CASE Commit(c)
  <2>1. hdr[c].mxFrame <= Len(log)
    BY <1>3, WriterHdrInLog DEF Commit
  <2> QED
    BY <1>3, <2>1, CommitType DEF Commit
<1>4. CASE CkptCopy(c)
  <2>1. PICK i \in todo[c] : db' = [db EXCEPT ![log[i].pgno] = log[i].val]
    BY <1>4 DEF CkptCopy
  <2>2. log[i] \in FrameRec
    BY <2>1 DEF CopyInv
  <2>3. db' \in Image
    BY <2>1, <2>2 DEF Image, FrameRec
  <2> QED
    BY <1>4, <2>3 DEF CkptCopy
<1>5. CASE CkptTruncateDb(c)
  <2>1. db' \in Image
    BY <1>5, Zeros DEF CkptTruncateDb, Image
  <2> QED
    BY <1>5, <2>1 DEF CkptTruncateDb
<1>6. CASE CkptTruncateLog(c)
  <2>1. Len(<<>>) = 0 /\ <<>> \in Seq(FrameRec)
    OBVIOUS
  <2> QED
    BY <1>6, <2>1, BoundAssumption, Zeros DEF CkptTruncateLog, NoLogHdr
<1>7. CASE ~ (WriteWalHdr(c) \/ Spill(c) \/ Commit(c) \/ CkptCopy(c) \/ CkptTruncateDb(c) \/
              CkptTruncateLog(c))
  <2>1. UNCHANGED fileVars
    BY <1>7, Zenon DEF Step, CallStep, HdrStep, ReadStep, WriteStep, CkptStep, UserStep,
        ReadHdr, fileVars, shmVars, infoVars, lockVars, readVars, ckptVars, commitVars,
        viewVars, HdrLock, hdrVars, HdrRetry, RecoverLock, RecoverBusy, CkptHdrBusy,
        RecoverScan, RecoverHdr, RecoverInfo, RecoverBackfill, RecoverAttempted, RecoverMarkLock, RecoverMarkSet, RecoverEnd,
        CheckBackfill, Lock0, Check0, ScanMark, RaiseLock, RaiseBusy, RaiseSet, LockI,
        LoadMinFrame, CheckI, WriteCheck, RestartLog, RestartLogEnd, RestartHdr1, RestartHdr0,
        RestartInfo, RestartBackfill, RestartAttempted, RestartMarks, Publish1, Publish0, EndWrite, CkptWriter, CkptInfo, CkptMark,
        CkptMarkBusy, CkptMarkLock, CkptMarkSet, CkptLock0, CkptDone, CkptUnlock0, CkptRestart,
        CkptNoRestart, CkptUnlock, CkptEnd, BeginRead, ReadFails, EndRead, BeginWrite, Rollback,
        BeginCkpt, CkptInterrupt
  <2> QED
    BY <2>1 DEF fileVars
<1> QED
  BY <1>1, <1>2, <1>3, <1>4, <1>5, <1>6, <1>7

\* Every connection's header has its type.
LEMMA HdrTypesStep ==
    ASSUME NEW c \in Conn, Step(c), ControlTypes, Own(c), FileTypes, ShmTypes, HdrTypes,
           HistTypes, LogCoversHdr
    PROVE  HdrTypes'
<1> USE Zeros DEF HdrTypes
<1>1. CASE ReadHdr(c)
  BY <1>1 DEF ReadHdr, walIndexTryHdr, ShmTypes
<1>2. CASE HdrRetry(c)
  BY <1>2 DEF HdrRetry, walIndexTryHdr, ShmTypes
<1>3. CASE RecoverBusy(c)
  BY <1>3 DEF RecoverBusy
<1>4. CASE ReadFails(c)
  BY <1>4 DEF ReadFails
<1>5. CASE RecoverScan(c)
  BY <1>5, RecoveredHdrType DEF RecoverScan, FileTypes
<1>6. CASE Check0(c)
  BY <1>6 DEF Check0, Opened
<1>7. CASE CheckI(c)
  BY <1>7 DEF CheckI, Opened
<1>8. CASE EndRead(c)
  BY <1>8 DEF EndRead
<1>9. CASE RestartHdr1(c)
  BY <1>9, RestartHdrType DEF RestartHdr1
<1>10. CASE WriteWalHdr(c)
  <2>0. PICK s \in IF nCkpt[c] = 0 THEN NewSalts ELSE {hdr[c].aSalt} :
           hdr' = [hdr EXCEPT ![c].aSalt = s, ![c].aFrameCksum = 0]
    BY <1>10 DEF WriteWalHdr
  <2>1. s \in 0..MaxSalt
    BY <2>0, BoundAssumption DEF NewSalts, Header
  <2> DEFINE h == [hdr[c] EXCEPT !.aSalt = s, !.aFrameCksum = 0]
  <2>2. h \in Header
    BY <2>1 DEF Header
  <2>3. hdr' = [hdr EXCEPT ![c] = h]
    BY <2>0
  <2>4. hdr' \in [Conn -> Header]
    BY <2>2, <2>3
  <2> QED
    BY <1>10, <2>4 DEF WriteWalHdr
<1>11. CASE Spill(c)
  <2>1. hdr[c].mxFrame <= Len(log)
    BY <1>11, WriterHdrInLog DEF Spill
  <2>2. hdr' \in [Conn -> Header]
    BY <1>11, <2>1, SpillType
  <2> QED
    BY <1>11, <2>2 DEF Spill
<1>12. CASE Commit(c)
  <2>1. hdr[c].mxFrame <= Len(log)
    BY <1>12, WriterHdrInLog DEF Commit
  <2>2. hdr' \in [Conn -> Header]
    BY <1>12, <2>1, CommitType
  <2> QED
    BY <1>12, <2>2 DEF Commit
<1>13. CASE Rollback(c)
  BY <1>13 DEF Rollback, ShmTypes
<1>14. CASE CkptEnd(c)
  BY <1>14 DEF CkptEnd, HdrAfterCkpt
<1>15. CASE ~ (ReadHdr(c) \/ HdrRetry(c) \/ RecoverBusy(c) \/ ReadFails(c) \/ RecoverScan(c) \/
              Check0(c) \/ CheckI(c) \/ EndRead(c) \/ RestartHdr1(c) \/ WriteWalHdr(c) \/
              Spill(c) \/ Commit(c) \/ Rollback(c) \/ CkptEnd(c))
  <2>1. UNCHANGED hdrVars
    BY <1>15, Zenon DEF Step, CallStep, HdrStep, ReadStep, WriteStep, CkptStep, UserStep,
        HdrLock, fileVars, shmVars, infoVars, hdrVars, readVars, ckptVars, commitVars, viewVars,
        RecoverLock, CkptHdrBusy, lockVars, RecoverHdr, RecoverInfo, RecoverBackfill, RecoverAttempted, RecoverMarkLock,
        RecoverMarkSet, RecoverEnd, CheckBackfill, Lock0, ScanMark, RaiseLock, RaiseBusy,
        RaiseSet, LockI, LoadMinFrame, WriteCheck, RestartLog, RestartLogEnd, RestartHdr0,
        RestartInfo, RestartBackfill, RestartAttempted, RestartMarks, Publish1, Publish0, EndWrite, CkptWriter, CkptInfo, CkptMark,
        CkptMarkBusy, CkptMarkLock, CkptMarkSet, CkptLock0, CkptCopy, CkptTruncateDb, CkptDone,
        CkptUnlock0, CkptRestart, CkptNoRestart, CkptTruncateLog, CkptUnlock, BeginRead,
        BeginWrite, BeginCkpt, CkptInterrupt
  <2> QED
    BY <2>1 DEF hdrVars
<1> QED
  BY <1>1, <1>2, <1>3, <1>4, <1>5, <1>6, <1>7, <1>8, <1>9, <1>10, <1>11, <1>12, <1>13, <1>14,
      <1>15


\* A version of the history is one.
LEMMA HistAppend ==
    ASSUME HistTypes
    PROVE  /\ Append(hist, pend) \in Seq(Version)
           /\ Len(Append(hist, pend)) = Len(hist) + 1 /\ Len(hist) \in Nat /\ Len(hist) >= 1
<1>1. ASSUME NEW S, NEW s \in Seq(S), NEW x \in S
      PROVE  /\ Append(s, x) \in Seq(S) /\ Len(Append(s, x)) = Len(s) + 1
             /\ Len(s) \in Nat
  OBVIOUS
<1> QED
  BY <1>1 DEF HistTypes

\* The history keeps its type.
LEMMA HistTypesStep ==
    ASSUME NEW c \in Conn, Step(c), ControlTypes, Own(c), FileTypes, HdrTypes, HistTypes,
           LogCoversHdr, TxnInv(c)
    PROVE  HistTypes'
<1> USE Zeros, HistAppend, BoundAssumption DEF HistTypes
<1>1. CASE RecoverHdr(c)
  <2>1. hist' = hist \/ hist' = Append(hist, pend)
    BY <1>1 DEF RecoverHdr
  <2> QED
    BY <1>1, <2>1, SMTT(30) DEF RecoverHdr, viewVars
<1>2. CASE ReadFails(c)
  BY <1>2 DEF ReadFails, commitVars
<1>3. CASE Check0(c)
  BY <1>3 DEF Check0, Opened, commitVars, viewVars
<1>4. CASE CheckI(c)
  BY <1>4 DEF CheckI, Opened, commitVars, viewVars
<1>5. CASE EndRead(c)
  BY <1>5 DEF EndRead, commitVars
<1>6. CASE WriteCheck(c)
  <2>1. txn \in Nat /\ txn <= MaxTxn
    BY <1>6 DEF WriteCheck, TxnInv
  <2>2. txn' \in 1..(MaxTxn + 1)
    BY <1>6, <2>1 DEF WriteCheck
  <2>3. snap[c] \in 1..Len(hist)
    BY <1>6 DEF WriteCheck, TxnInv, InWrite, WritePCs
  <2>4. hist[snap[c]].img \in Image
    <3>1. hist[snap[c]] \in Version
      BY <2>3
    <3> QED
      BY <3>1 DEF Version
  <2>5. work' \in Image
    BY <1>6, <2>4 DEF WriteCheck
  <2> QED
    BY <1>6, <2>2, <2>5 DEF WriteCheck, viewVars
<1>7. CASE Spill(c)
  <2>1. hdr[c].mxFrame <= Len(log)
    BY <1>7, WriterHdrInLog DEF Spill
  <2>2. work' \in Image
    BY <1>7, <2>1, SpillType
  <2> QED
    BY <1>7, <2>2 DEF Spill, viewVars
<1>8. CASE Commit(c)
  <2>1. hdr[c].mxFrame <= Len(log)
    BY <1>8, WriterHdrInLog DEF Commit
  <2>2. pend' \in Version
    BY <1>8, <2>1, CommitType
  <2> QED
    BY <1>8, <2>2 DEF Commit, viewVars
<1>9. CASE Publish0(c)
  BY <1>9 DEF Publish0
<1>10. CASE EndWrite(c)
  BY <1>10 DEF EndWrite, viewVars
<1>11. CASE Rollback(c)
  <2>1. txn >= 2
    BY <1>11 DEF Rollback, TxnInv, InWrite, WritePCs
  <2>2. txn' \in 1..(MaxTxn + 1)
    BY <1>11, <2>1 DEF Rollback
  <2> QED
    BY <1>11, <2>2 DEF Rollback, viewVars
<1>12. CASE ~ (RecoverHdr(c) \/ ReadFails(c) \/ Check0(c) \/ CheckI(c) \/ EndRead(c) \/
              WriteCheck(c) \/ Spill(c) \/ Commit(c) \/ Publish0(c) \/ EndWrite(c) \/
              Rollback(c))
  <2>1. UNCHANGED <<commitVars, viewVars, nCrash>>
    BY <1>12, Zenon DEF Step, CallStep, HdrStep, ReadStep, WriteStep, CkptStep, UserStep,
        ReadHdr, fileVars, shmVars, infoVars, lockVars, readVars, ckptVars, commitVars,
        viewVars, HdrLock, hdrVars, HdrRetry, RecoverLock, RecoverBusy, CkptHdrBusy,
        RecoverScan, RecoverInfo, RecoverBackfill, RecoverAttempted, RecoverMarkLock, RecoverMarkSet, RecoverEnd, CheckBackfill,
        Lock0, ScanMark, RaiseLock, RaiseBusy, RaiseSet, LockI, LoadMinFrame, RestartLog,
        RestartLogEnd, RestartHdr1, RestartHdr0, RestartInfo, RestartBackfill, RestartAttempted, RestartMarks, Publish1,
        CkptWriter, CkptInfo, CkptMark, CkptMarkBusy, CkptMarkLock, CkptMarkSet, CkptLock0,
        CkptCopy, CkptTruncateDb, CkptDone, CkptUnlock0, CkptRestart, CkptNoRestart,
        CkptTruncateLog, CkptUnlock, CkptEnd, BeginRead, BeginWrite, WriteWalHdr, BeginCkpt,
        CkptInterrupt
  <2> QED
    BY <2>1 DEF commitVars, viewVars
<1> QED
  BY <1>1, <1>2, <1>3, <1>4, <1>5, <1>6, <1>7, <1>8, <1>9, <1>10, <1>11, <1>12


(***************************************************************************)
(* What the locks protect                                                  *)
(***************************************************************************)

\* The transaction of c has its version and number, and there is one way only
\* into a restart, a copy, and the ownership of a header.
LEMMA OwnSteps ==
    ASSUME NEW c \in Conn, Step(c), ControlTypes, Own(c), HistTypes, TxnInv(c)
    PROVE  /\ TxnInv(c)'
           /\ OwnHdr(c)' => OwnHdr(c) \/ WriteCheck(c) \/ RecoverScan(c)
           /\ pc'[c] \in {"restart0", "restartBackfill", "restartAttempted", "restartMarks", "truncate"} =>
                 RestartHdr1(c) \/ RestartHdr0(c) \/ RestartInfo(c) \/ RestartMarks(c)
           /\ pc'[c] \in {"ckptCopy", "ckptDone"} =>
                 CkptLock0(c) \/ CkptCopy(c) \/ CkptTruncateDb(c)
<1> USE LockNumbers, ConnAssumption DEF ControlTypes, HistTypes, TxnInv, InWrite, OwnHdr, Own,
    CkptControl, WriterLock, CkptLock, bWriteLock, InCkpt, RestartPCs, RecPCs, WritePCs, TryPCs,
    CkptPCs, WriterPCs, OneMarkPCs, AllMarksPCs, lockVars, ckptVars, commitVars, viewVars
<1>1. CASE ReadHdr(c)
  BY <1>1 DEF ReadHdr, AfterHdr, walIndexTryHdr, Goto
<1>2. CASE HdrLock(c)
  BY <1>2 DEF HdrLock, Lock, CanLock, Goto
<1>3. CASE HdrRetry(c)
  BY <1>3 DEF HdrRetry, Unlock, HdrLocks, AfterHdr, walIndexTryHdr, Goto
<1>4. CASE RecoverLock(c)
  BY <1>4 DEF RecoverLock, Lock, CanLock, RecoverLocks, Goto
<1>5. CASE RecoverBusy(c)
  BY <1>5 DEF RecoverBusy, Unlock, CanLock, HdrLocks, RecoverLocks, Goto
<1>6. CASE CkptHdrBusy(c)
  BY <1>6 DEF CkptHdrBusy, CanLock, Goto
<1>7. CASE RecoverScan(c)
  BY <1>7 DEF RecoverScan, Goto
<1>8. CASE RecoverHdr(c)
  <2>1. hist' = hist \/ hist' = Append(hist, pend)
    BY <1>8 DEF RecoverHdr
  <2>2. Len(hist) <= Len(hist')
    BY <2>1, HistAppend
  <2> QED
    BY <1>8, <2>2 DEF RecoverHdr, Goto
<1>9. CASE RecoverInfo(c)
  BY <1>9 DEF RecoverInfo, RecoverBackfill, RecoverAttempted, Goto
<1>10. CASE RecoverMarkLock(c)
  BY <1>10 DEF RecoverMarkLock, Lock, CanLock, Goto
<1>11. CASE RecoverMarkSet(c)
  BY <1>11 DEF RecoverMarkSet, Unlock, Goto
<1>12. CASE RecoverEnd(c)
  BY <1>12 DEF RecoverEnd, Unlock, HdrLocks, RecoverLocks, AfterHdr, Goto
<1>13. CASE CheckBackfill(c)
  BY <1>13 DEF CheckBackfill, ToScan, Goto
<1>14. CASE Lock0(c)
  BY <1>14 DEF Lock0, Share, CanShare, ToScan, Goto
<1>15. CASE Check0(c)
  BY <1>15 DEF Check0, HdrUnchanged, Unshare, Opened, useWal, Goto
<1>16. CASE ScanMark(c)
  BY <1>16 DEF ScanMark, Goto
<1>17. CASE RaiseLock(c)
  BY <1>17 DEF RaiseLock, Lock, CanRaise, CanLock, Goto
<1>18. CASE RaiseBusy(c)
  BY <1>18, SMTT(30) DEF RaiseBusy, Retry, ToScan, Goto, useWal
<1>19. CASE RaiseSet(c)
  BY <1>19 DEF RaiseSet, Unlock, Goto
<1>20. CASE LockI(c)
  BY <1>20 DEF LockI, Share, CanShare, Retry, ToScan, Goto, useWal
<1>21. CASE LoadMinFrame(c)
  BY <1>21 DEF LoadMinFrame, FirstFrame, Goto
<1>22. CASE CheckI(c)
  BY <1>22, SMTT(30) DEF CheckI, Unshare, Retry, ToScan, Goto, useWal, Opened
<1>23. CASE WriteCheck(c)
  BY <1>23 DEF WriteCheck, SnapshotIsCurrent, Unlock, Goto
<1>24. CASE RestartLog(c)
  BY <1>24 DEF RestartLog, Lock, LogReadLocks, CanRestart, CanLock, Goto
<1>25. CASE RestartLogEnd(c)
  BY <1>25 DEF RestartLogEnd, Unlock, Unshare, LogReadLocks, ToScan, Goto, CanRestart, CanLock
<1>26. CASE RestartHdr1(c)
  BY <1>26 DEF RestartHdr1, Goto
<1>27. CASE RestartHdr0(c)
  BY <1>27 DEF RestartHdr0, Goto
<1>28. CASE RestartInfo(c)
  BY <1>28 DEF RestartInfo, RestartBackfill, RestartAttempted, Reset, Goto
<1>29. CASE RestartMarks(c)
  BY <1>29 DEF RestartMarks, Goto
<1>30. CASE Publish1(c)
  BY <1>30 DEF Publish1, Goto
<1>31. CASE Publish0(c)
  <2>1. Len(hist') = Len(hist) + 1
    BY <1>31, HistAppend DEF Publish0
  <2> QED
    BY <1>31, <2>1 DEF Publish0, Goto
<1>32. CASE EndWrite(c)
  BY <1>32 DEF EndWrite, Unlock, Goto
<1>33. CASE CkptWriter(c)
  BY <1>33 DEF CkptWriter, Lock, CanLock, Goto
<1>34. CASE CkptInfo(c)
  BY <1>34 DEF CkptInfo, AfterCopy, Goto
<1>35. CASE CkptMark(c)
  BY <1>35 DEF CkptMark, Goto
<1>36. CASE CkptMarkBusy(c)
  BY <1>36 DEF CkptMarkBusy, SafeWithReader, CanLock, Goto
<1>37. CASE CkptMarkLock(c)
  BY <1>37 DEF CkptMarkLock, Lock, CanLock, Goto
<1>38. CASE CkptMarkSet(c)
  BY <1>38 DEF CkptMarkSet, Unlock, Goto
<1>39. CASE CkptLock0(c)
  <2>1. pc'[c] \in {"ckptCopy", "ckptEnd", "ckptMode"} /\ eMode' = eMode /\ pc[c] = "ckptMarks"
    BY <1>39 DEF CkptLock0, Goto, AfterCopy
  <2> QED
    BY <1>39, <2>1 DEF CkptLock0
<1>40. CASE CkptCopy(c)
  BY <1>40 DEF CkptCopy
<1>41. CASE CkptTruncateDb(c)
  BY <1>41 DEF CkptTruncateDb, Goto
<1>42. CASE CkptDone(c)
  BY <1>42 DEF CkptDone, Goto
<1>43. CASE CkptUnlock0(c)
  BY <1>43 DEF CkptUnlock0, Unlock, AfterCopy, Goto
<1>44. CASE CkptRestart(c)
  BY <1>44 DEF CkptRestart, Lock, CanLock, LogReadLocks, WantsRestart, AfterDrain, Goto
<1>45. CASE CkptNoRestart(c)
  BY <1>45 DEF CkptNoRestart, CanLock, LogReadLocks, WantsRestart, Goto
<1>46. CASE CkptTruncateLog(c)
  BY <1>46 DEF CkptTruncateLog, Goto
<1>47. CASE CkptUnlock(c)
  BY <1>47 DEF CkptUnlock, Unlock, LogReadLocks, Goto
<1>48. CASE CkptEnd(c)
  BY <1>48 DEF CkptEnd, HdrAfterCkpt, Unlock, Goto
<1>49. CASE BeginRead(c)
  BY <1>49 DEF BeginRead, Goto
<1>50. CASE ReadFails(c)
  BY <1>50 DEF ReadFails, Goto
<1>51. CASE EndRead(c)
  BY <1>51 DEF EndRead, Unshare, Goto
<1>52. CASE BeginWrite(c)
  BY <1>52 DEF BeginWrite, Lock, CanLock, Goto
<1>53. CASE WriteWalHdr(c)
  BY <1>53 DEF WriteWalHdr, Goto
<1>54. CASE Spill(c)
  BY <1>54 DEF Spill, InFrames, Goto
<1>55. CASE Commit(c)
  BY <1>55 DEF Commit, InFrames, Goto
<1>56. CASE Rollback(c)
  BY <1>56 DEF Rollback, TxnUsed, Unlock, Goto
<1>57. CASE BeginCkpt(c)
  BY <1>57 DEF BeginCkpt, Lock, CanLock, Goto
<1>58. CASE CkptInterrupt(c)
  BY <1>58 DEF CkptInterrupt, Unlock, Goto
<1> QED
  BY <1>1, <1>2, <1>3, <1>4, <1>5, <1>6, <1>7, <1>8, <1>9, <1>10, <1>11, <1>12, <1>13, <1>14,
      <1>15, <1>16, <1>17, <1>18, <1>19, <1>20, <1>21, <1>22, <1>23, <1>24, <1>25, <1>26, <1>27,
      <1>28, <1>29, <1>30, <1>31, <1>32, <1>33, <1>34, <1>35, <1>36, <1>37, <1>38, <1>39, <1>40,
      <1>41, <1>42, <1>43, <1>44, <1>45, <1>46, <1>47, <1>48, <1>49, <1>50, <1>51, <1>52, <1>53,
      <1>54, <1>55, <1>56, <1>57, <1>58, Zenon
     DEF Step, CallStep, HdrStep, ReadStep, WriteStep, CkptStep, UserStep

\* Only the holder of the WRITER lock changes the log, and only a TRUNCATE
\* checkpoint makes it shorter.
LEMMA LogStep ==
    ASSUME NEW c \in Conn, Step(c), ControlTypes, Own(c), FileTypes, HdrTypes, HistTypes,
           LogCoversHdr
    PROVE  /\ log' # log => lockX[WAL_WRITE_LOCK] = c
           /\ pc[c] # "truncate" => Len(log) <= Len(log')
           /\ pc[c] = "truncate" => CkptTruncateLog(c)
<1>1. CASE Spill(c)
  <2>1. hdr[c].mxFrame <= Len(log) /\ pc[c] \in {"write", "frames"}
    BY <1>1, WriterHdrInLog DEF Spill, InFrames
  <2>2. Len(log) <= Len(log')
    BY <1>1, <2>1, SpillType
  <2>3. lockX[WAL_WRITE_LOCK] = c
    BY <2>1 DEF Own, WriterLock, WriterPCs, WritePCs
  <2> QED
    BY <2>1, <2>2, <2>3
<1>2. CASE Commit(c)
  <2>1. hdr[c].mxFrame <= Len(log) /\ pc[c] \in {"write", "frames"}
    BY <1>2, WriterHdrInLog DEF Commit, InFrames
  <2>2. Len(log) <= Len(log')
    BY <1>2, <2>1, CommitType
  <2>3. lockX[WAL_WRITE_LOCK] = c
    BY <2>1 DEF Own, WriterLock, WriterPCs, WritePCs
  <2> QED
    BY <2>1, <2>2, <2>3
<1>3. CASE CkptTruncateLog(c)
  BY <1>3 DEF CkptTruncateLog, Own, WriterLock, WriterPCs
<1>4. CASE ~ (Spill(c) \/ Commit(c) \/ CkptTruncateLog(c))
  <2>1. UNCHANGED log
    BY <1>4, Zenon DEF Step, CallStep, HdrStep, ReadStep, WriteStep, CkptStep, UserStep,
        ReadHdr, fileVars, shmVars, infoVars, lockVars, readVars, ckptVars, commitVars,
        viewVars, HdrLock, hdrVars, HdrRetry, RecoverLock, RecoverBusy, CkptHdrBusy,
        RecoverScan, RecoverHdr, RecoverInfo, RecoverBackfill, RecoverAttempted, RecoverMarkLock, RecoverMarkSet, RecoverEnd,
        CheckBackfill, Lock0, Check0, ScanMark, RaiseLock, RaiseBusy, RaiseSet, LockI,
        LoadMinFrame, CheckI, WriteCheck, RestartLog, RestartLogEnd, RestartHdr1, RestartHdr0,
        RestartInfo, RestartBackfill, RestartAttempted, RestartMarks, Publish1, Publish0, EndWrite, CkptWriter, CkptInfo, CkptMark,
        CkptMarkBusy, CkptMarkLock, CkptMarkSet, CkptLock0, CkptCopy, CkptTruncateDb, CkptDone,
        CkptUnlock0, CkptRestart, CkptNoRestart, CkptUnlock, CkptEnd, BeginRead, ReadFails,
        EndRead, BeginWrite, WriteWalHdr, Rollback, BeginCkpt, CkptInterrupt
  <2>2. pc[c] # "truncate"
    BY <1>4 DEF Step, CallStep, HdrStep, ReadStep, WriteStep, CkptStep, UserStep, ReadHdr,
        HdrLock, HdrRetry, RecoverLock, RecoverBusy, CkptHdrBusy, RecoverScan, RecoverHdr,
        RecoverInfo, RecoverBackfill, RecoverAttempted, RecoverMarkLock, RecoverMarkSet, RecoverEnd, CheckBackfill, Lock0, Check0,
        ScanMark, RaiseLock, RaiseBusy, RaiseSet, LockI, LoadMinFrame, CheckI, WriteCheck,
        RestartLog, RestartLogEnd, RestartHdr1, RestartHdr0, RestartInfo, RestartBackfill, RestartAttempted, RestartMarks,
        Publish1, Publish0, EndWrite, CkptWriter, CkptInfo, CkptMark, CkptMarkBusy,
        CkptMarkLock, CkptMarkSet, CkptLock0, CkptCopy, CkptTruncateDb, CkptDone, CkptUnlock0,
        CkptRestart, CkptNoRestart, CkptUnlock, CkptEnd, BeginRead, ReadFails, EndRead,
        BeginWrite, WriteWalHdr, Rollback, BeginCkpt, CkptInterrupt
  <2> QED
    BY <2>1, <2>2 DEF FileTypes
<1> QED
  BY <1>1, <1>2, <1>3, <1>4

\* Only the holder of the WRITER lock changes the header in the wal-index.
LEMMA HdrStoreStep ==
    ASSUME NEW c \in Conn, Step(c), ControlTypes, Own(c)
    PROVE  aHdr' # aHdr => lockX[WAL_WRITE_LOCK] = c
<1> USE DEF Own, WriterLock, WriterPCs, RecPCs, RestartPCs, WritePCs
<1>1. CASE RecoverScan(c)
  BY <1>1 DEF RecoverScan
<1>2. CASE RecoverHdr(c)
  BY <1>2 DEF RecoverHdr
<1>3. CASE RestartHdr1(c)
  BY <1>3 DEF RestartHdr1
<1>4. CASE RestartHdr0(c)
  BY <1>4 DEF RestartHdr0
<1>5. CASE Publish1(c)
  BY <1>5 DEF Publish1
<1>6. CASE Publish0(c)
  BY <1>6 DEF Publish0
<1>7. CASE ~ (RecoverScan(c) \/ RecoverHdr(c) \/ RestartHdr1(c) \/ RestartHdr0(c) \/ Publish1(c)
              \/ Publish0(c))
  <2>1. UNCHANGED aHdr
    BY <1>7, Zenon DEF Step, CallStep, HdrStep, ReadStep, WriteStep, CkptStep, UserStep,
        ReadHdr, fileVars, shmVars, infoVars, lockVars, readVars, ckptVars, commitVars,
        viewVars, HdrLock, hdrVars, HdrRetry, RecoverLock, RecoverBusy, CkptHdrBusy,
        RecoverInfo, RecoverBackfill, RecoverAttempted, RecoverMarkLock, RecoverMarkSet, RecoverEnd, CheckBackfill, Lock0, Check0,
        ScanMark, RaiseLock, RaiseBusy, RaiseSet, LockI, LoadMinFrame, CheckI, WriteCheck,
        RestartLog, RestartLogEnd, RestartInfo, RestartBackfill, RestartAttempted, RestartMarks, EndWrite, CkptWriter, CkptInfo,
        CkptMark, CkptMarkBusy, CkptMarkLock, CkptMarkSet, CkptLock0, CkptCopy, CkptTruncateDb,
        CkptDone, CkptUnlock0, CkptRestart, CkptNoRestart, CkptTruncateLog, CkptUnlock, CkptEnd,
        BeginRead, ReadFails, EndRead, BeginWrite, WriteWalHdr, Spill, Commit, Rollback,
        BeginCkpt, CkptInterrupt
  <2> QED
    BY <2>1
<1> QED
  BY <1>1, <1>2, <1>3, <1>4, <1>5, <1>6, <1>7

\* Only the holder of the WRITER lock numbers transactions.
LEMMA TxnStep ==
    ASSUME NEW c \in Conn, Step(c), ControlTypes, Own(c)
    PROVE  txn' # txn => lockX[WAL_WRITE_LOCK] = c
<1> USE DEF Own, WriterLock, WriterPCs, WritePCs
<1>1. CASE WriteCheck(c)
  BY <1>1 DEF WriteCheck
<1>2. CASE Rollback(c)
  BY <1>2 DEF Rollback
<1>3. CASE ~ (WriteCheck(c) \/ Rollback(c))
  <2>1. UNCHANGED txn
    BY <1>3, Zenon DEF Step, CallStep, HdrStep, ReadStep, WriteStep, CkptStep, UserStep,
        ReadHdr, fileVars, shmVars, infoVars, lockVars, readVars, ckptVars, commitVars,
        viewVars, HdrLock, hdrVars, HdrRetry, RecoverLock, RecoverBusy, CkptHdrBusy,
        RecoverScan, RecoverHdr, RecoverInfo, RecoverBackfill, RecoverAttempted, RecoverMarkLock, RecoverMarkSet, RecoverEnd,
        CheckBackfill, Lock0, Check0, ScanMark, RaiseLock, RaiseBusy, RaiseSet, LockI,
        LoadMinFrame, CheckI, RestartLog, RestartLogEnd, RestartHdr1, RestartHdr0, RestartInfo, RestartBackfill, RestartAttempted,
        RestartMarks, Publish1, Publish0, EndWrite, CkptWriter, CkptInfo, CkptMark,
        CkptMarkBusy, CkptMarkLock, CkptMarkSet, CkptLock0, CkptCopy, CkptTruncateDb, CkptDone,
        CkptUnlock0, CkptRestart, CkptNoRestart, CkptTruncateLog, CkptUnlock, CkptEnd,
        BeginRead, ReadFails, EndRead, BeginWrite, WriteWalHdr, Spill, Commit, BeginCkpt,
        CkptInterrupt
  <2> QED
    BY <2>1
<1> QED
  BY <1>1, <1>2, <1>3

\* The history of versions only grows.
LEMMA HistStep ==
    ASSUME NEW c \in Conn, Step(c), HistTypes
    PROVE  Len(hist) <= Len(hist')
<1> USE HistAppend
<1>1. CASE RecoverHdr(c)
  BY <1>1 DEF RecoverHdr
<1>2. CASE Publish0(c)
  BY <1>2 DEF Publish0
<1>3. CASE ~ (RecoverHdr(c) \/ Publish0(c))
  <2>1. UNCHANGED hist
    BY <1>3, Zenon DEF Step, CallStep, HdrStep, ReadStep, WriteStep, CkptStep, UserStep,
        ReadHdr, fileVars, shmVars, infoVars, lockVars, readVars, ckptVars, commitVars,
        viewVars, HdrLock, hdrVars, HdrRetry, RecoverLock, RecoverBusy, CkptHdrBusy,
        RecoverScan, RecoverInfo, RecoverBackfill, RecoverAttempted, RecoverMarkLock, RecoverMarkSet, RecoverEnd, CheckBackfill,
        Lock0, Check0, ScanMark, RaiseLock, RaiseBusy, RaiseSet, LockI, LoadMinFrame, CheckI,
        WriteCheck, RestartLog, RestartLogEnd, RestartHdr1, RestartHdr0, RestartInfo, RestartBackfill, RestartAttempted,
        RestartMarks, Publish1, EndWrite, CkptWriter, CkptInfo, CkptMark, CkptMarkBusy,
        CkptMarkLock, CkptMarkSet, CkptLock0, CkptCopy, CkptTruncateDb, CkptDone, CkptUnlock0,
        CkptRestart, CkptNoRestart, CkptTruncateLog, CkptUnlock, CkptEnd, BeginRead, ReadFails,
        EndRead, BeginWrite, WriteWalHdr, Spill, Commit, Rollback, BeginCkpt, CkptInterrupt
  <2> QED
    BY <2>1
<1> QED
  BY <1>1, <1>2, <1>3

\* nBackfill is raised under the CKPT lock at the end of a copy; it falls
\* only to zero, under the WRITER lock.
LEMMA BackfillStep ==
    ASSUME NEW c \in Conn, Step(c), ControlTypes, Own(c), ShmTypes, CkptTypes, CopyInv(c)
    PROVE  \/ nBackfill' = nBackfill
           \/ /\ nBackfill' > nBackfill
              /\ pc[c] = "ckptDone" /\ lockX[WAL_CKPT_LOCK] = c
           \/ /\ nBackfill' = 0
              /\ lockX[WAL_WRITE_LOCK] = c
<1> USE DEF Own
<1>1. CASE RecoverInfo(c)
  BY <1>1 DEF RecoverInfo, RecoverBackfill, RecoverAttempted, WriterLock, WriterPCs, RecPCs
<1>2. CASE RestartInfo(c)
  BY <1>2 DEF RestartInfo, RestartBackfill, RestartAttempted, Reset, WriterLock, WriterPCs, RestartPCs
<1>3. CASE CkptDone(c)
  <2>1. pc[c] = "ckptDone" /\ nBackfill' = mxSafeFrame[c] /\ nBackfill < mxSafeFrame[c]
    BY <1>3 DEF CkptDone, CopyInv
  <2>2. lockX[WAL_CKPT_LOCK] = c
    BY <2>1 DEF CkptControl, CkptLock, CkptPCs
  <2>3. nBackfill \in Nat /\ mxSafeFrame[c] \in Nat
    BY Zeros DEF ShmTypes, CkptTypes
  <2> QED
    BY <2>1, <2>2, <2>3
<1>4. CASE ~ (RecoverInfo(c) \/ RestartInfo(c) \/ CkptDone(c))
  <2>1. UNCHANGED nBackfill
    BY <1>4, Zenon DEF Step, CallStep, HdrStep, ReadStep, WriteStep, CkptStep, UserStep,
        ReadHdr, fileVars, shmVars, infoVars, lockVars, readVars, ckptVars, commitVars,
        viewVars, HdrLock, hdrVars, HdrRetry, RecoverLock, RecoverBusy, CkptHdrBusy,
        RecoverScan, RecoverHdr, RecoverMarkLock, RecoverMarkSet, RecoverEnd, CheckBackfill,
        Lock0, Check0, ScanMark, RaiseLock, RaiseBusy, RaiseSet, LockI, LoadMinFrame, CheckI,
        WriteCheck, RestartLog, RestartLogEnd, RestartHdr1, RestartHdr0, RestartMarks, Publish1,
        Publish0, EndWrite, CkptWriter, CkptInfo, CkptMark, CkptMarkBusy, CkptMarkLock,
        CkptMarkSet, CkptLock0, CkptCopy, CkptTruncateDb, CkptUnlock0, CkptRestart,
        CkptNoRestart, CkptTruncateLog, CkptUnlock, CkptEnd, BeginRead, ReadFails, EndRead,
        BeginWrite, WriteWalHdr, Spill, Commit, Rollback, BeginCkpt, CkptInterrupt
  <2> QED
    BY <2>1
<1> QED
  BY <1>1, <1>2, <1>3, <1>4

\* A read mark is stored under its READ lock, held exclusively.
LEMMA MarkStep ==
    ASSUME NEW c \in Conn, Step(c), ControlTypes, Own(c), ShmTypes
    PROVE  \A i \in ReadMarks :
              aReadMark'[i] # aReadMark[i] => lockX[WAL_READ_LOCK(i)] = c
<1> USE DEF Own, ShmTypes, MarkLocks, MarkControl, OneMarkPCs, AllMarksPCs, RestartPCs
<1>1. CASE RecoverMarkSet(c)
  BY <1>1 DEF RecoverMarkSet
<1>2. CASE RaiseSet(c)
  BY <1>2 DEF RaiseSet
<1>3. CASE RestartMarks(c)
  BY <1>3 DEF RestartMarks
<1>4. CASE CkptMarkSet(c)
  BY <1>4 DEF CkptMarkSet
<1>5. CASE ~ (RecoverMarkSet(c) \/ RaiseSet(c) \/ RestartMarks(c) \/ CkptMarkSet(c))
  <2>1. UNCHANGED aReadMark
    BY <1>5, Zenon DEF Step, CallStep, HdrStep, ReadStep, WriteStep, CkptStep, UserStep,
        ReadHdr, fileVars, shmVars, infoVars, lockVars, readVars, ckptVars, commitVars,
        viewVars, HdrLock, hdrVars, HdrRetry, RecoverLock, RecoverBusy, CkptHdrBusy,
        RecoverScan, RecoverHdr, RecoverInfo, RecoverBackfill, RecoverAttempted, RecoverMarkLock, RecoverEnd, CheckBackfill, Lock0,
        Check0, ScanMark, RaiseLock, RaiseBusy, LockI, LoadMinFrame, CheckI, WriteCheck,
        RestartLog, RestartLogEnd, RestartHdr1, RestartHdr0, RestartInfo, RestartBackfill, RestartAttempted, Publish1, Publish0,
        EndWrite, CkptWriter, CkptInfo, CkptMark, CkptMarkBusy, CkptMarkLock, CkptLock0,
        CkptCopy, CkptTruncateDb, CkptDone, CkptUnlock0, CkptRestart, CkptNoRestart,
        CkptTruncateLog, CkptUnlock, CkptEnd, BeginRead, ReadFails, EndRead, BeginWrite,
        WriteWalHdr, Spill, Commit, Rollback, BeginCkpt, CkptInterrupt
  <2> QED
    BY <2>1
<1> QED
  BY <1>1, <1>2, <1>3, <1>4, <1>5

\* The other connections keep their own variables.
LEMMA OthersFrame ==
    ASSUME NEW c \in Conn, Step(c), HdrTypes, ReadTypes, CkptTypes, HistTypes
    PROVE  \A d \in Conn \ {c} :
              /\ hdr'[d] = hdr[d] /\ mxI'[d] = mxI[d] /\ todo'[d] = todo[d]
              /\ mxSafeFrame'[d] = mxSafeFrame[d] /\ snap'[d] = snap[d]
<1> USE DEF HdrTypes, ReadTypes, CkptTypes, HistTypes, hdrVars, readVars, ckptVars, viewVars
<1>1. CASE ReadHdr(c)
  BY <1>1 DEF ReadHdr, walIndexTryHdr
<1>2. CASE HdrLock(c)
  BY <1>2 DEF HdrLock
<1>3. CASE HdrRetry(c)
  BY <1>3 DEF HdrRetry, walIndexTryHdr
<1>4. CASE RecoverLock(c)
  BY <1>4 DEF RecoverLock
<1>5. CASE RecoverBusy(c)
  BY <1>5 DEF RecoverBusy
<1>6. CASE CkptHdrBusy(c)
  BY <1>6 DEF CkptHdrBusy
<1>7. CASE RecoverScan(c)
  BY <1>7 DEF RecoverScan
<1>8. CASE RecoverHdr(c)
  BY <1>8 DEF RecoverHdr
<1>9. CASE RecoverInfo(c)
  BY <1>9 DEF RecoverInfo, RecoverBackfill, RecoverAttempted
<1>10. CASE RecoverMarkLock(c)
  BY <1>10 DEF RecoverMarkLock
<1>11. CASE RecoverMarkSet(c)
  BY <1>11 DEF RecoverMarkSet
<1>12. CASE RecoverEnd(c)
  BY <1>12 DEF RecoverEnd
<1>13. CASE CheckBackfill(c)
  BY <1>13 DEF CheckBackfill, ToScan
<1>14. CASE Lock0(c)
  BY <1>14 DEF Lock0, ToScan
<1>15. CASE Check0(c)
  BY <1>15 DEF Check0, Opened
<1>16. CASE ScanMark(c)
  BY <1>16 DEF ScanMark
<1>17. CASE RaiseLock(c)
  BY <1>17 DEF RaiseLock
<1>18. CASE RaiseBusy(c)
  BY <1>18 DEF RaiseBusy, Retry, ToScan
<1>19. CASE RaiseSet(c)
  BY <1>19 DEF RaiseSet
<1>20. CASE LockI(c)
  BY <1>20 DEF LockI, Retry, ToScan
<1>21. CASE LoadMinFrame(c)
  BY <1>21 DEF LoadMinFrame
<1>22. CASE CheckI(c)
  BY <1>22, SMTT(30) DEF CheckI, Retry, ToScan, Opened
<1>23. CASE WriteCheck(c)
  BY <1>23 DEF WriteCheck
<1>24. CASE RestartLog(c)
  BY <1>24 DEF RestartLog
<1>25. CASE RestartLogEnd(c)
  BY <1>25 DEF RestartLogEnd, ToScan
<1>26. CASE RestartHdr1(c)
  BY <1>26 DEF RestartHdr1
<1>27. CASE RestartHdr0(c)
  BY <1>27 DEF RestartHdr0
<1>28. CASE RestartInfo(c)
  BY <1>28 DEF RestartInfo, RestartBackfill, RestartAttempted
<1>29. CASE RestartMarks(c)
  BY <1>29 DEF RestartMarks
<1>30. CASE Publish1(c)
  BY <1>30 DEF Publish1
<1>31. CASE Publish0(c)
  BY <1>31 DEF Publish0
<1>32. CASE EndWrite(c)
  BY <1>32 DEF EndWrite
<1>33. CASE CkptWriter(c)
  BY <1>33 DEF CkptWriter
<1>34. CASE CkptInfo(c)
  BY <1>34 DEF CkptInfo
<1>35. CASE CkptMark(c)
  BY <1>35 DEF CkptMark
<1>36. CASE CkptMarkBusy(c)
  BY <1>36 DEF CkptMarkBusy
<1>37. CASE CkptMarkLock(c)
  BY <1>37 DEF CkptMarkLock
<1>38. CASE CkptMarkSet(c)
  BY <1>38 DEF CkptMarkSet
<1>39. CASE CkptLock0(c)
  BY <1>39 DEF CkptLock0
<1>40. CASE CkptCopy(c)
  BY <1>40 DEF CkptCopy
<1>41. CASE CkptTruncateDb(c)
  BY <1>41 DEF CkptTruncateDb
<1>42. CASE CkptDone(c)
  BY <1>42 DEF CkptDone
<1>43. CASE CkptUnlock0(c)
  BY <1>43 DEF CkptUnlock0
<1>44. CASE CkptRestart(c)
  BY <1>44 DEF CkptRestart
<1>45. CASE CkptNoRestart(c)
  BY <1>45 DEF CkptNoRestart
<1>46. CASE CkptTruncateLog(c)
  BY <1>46 DEF CkptTruncateLog
<1>47. CASE CkptUnlock(c)
  BY <1>47 DEF CkptUnlock
<1>48. CASE CkptEnd(c)
  BY <1>48 DEF CkptEnd
<1>49. CASE BeginRead(c)
  BY <1>49 DEF BeginRead
<1>50. CASE ReadFails(c)
  BY <1>50 DEF ReadFails
<1>51. CASE EndRead(c)
  BY <1>51 DEF EndRead
<1>52. CASE BeginWrite(c)
  BY <1>52 DEF BeginWrite
<1>53. CASE WriteWalHdr(c)
  BY <1>53 DEF WriteWalHdr
<1>54. CASE Spill(c)
  BY <1>54 DEF Spill
<1>55. CASE Commit(c)
  BY <1>55 DEF Commit
<1>56. CASE Rollback(c)
  BY <1>56 DEF Rollback
<1>57. CASE BeginCkpt(c)
  BY <1>57 DEF BeginCkpt
<1>58. CASE CkptInterrupt(c)
  BY <1>58 DEF CkptInterrupt
<1> QED
  BY <1>1, <1>2, <1>3, <1>4, <1>5, <1>6, <1>7, <1>8, <1>9, <1>10, <1>11, <1>12, <1>13, <1>14,
      <1>15, <1>16, <1>17, <1>18, <1>19, <1>20, <1>21, <1>22, <1>23, <1>24, <1>25, <1>26, <1>27,
      <1>28, <1>29, <1>30, <1>31, <1>32, <1>33, <1>34, <1>35, <1>36, <1>37, <1>38, <1>39, <1>40,
      <1>41, <1>42, <1>43, <1>44, <1>45, <1>46, <1>47, <1>48, <1>49, <1>50, <1>51, <1>52, <1>53,
      <1>54, <1>55, <1>56, <1>57, <1>58, Zenon
     DEF Step, CallStep, HdrStep, ReadStep, WriteStep, CkptStep, UserStep


\* A restart stores a header without frames in both copies, then resets the
\* rest of the wal-index, before a checkpoint truncates the log.
LEMMA RestartStep ==
    ASSUME NEW c \in Conn, Step(c), ControlTypes, Own(c), ShmTypes, HdrTypes, HistTypes, TxnInv(c),
           RestartInv(c)
    PROVE  RestartInv(c)'
<1>1. CASE RestartHdr1(c)
  <2>1. hdr'[c].mxFrame = 0
    BY <1>1, RestartHdrType
  <2>2. aHdr'[1] = hdr'[c]
    BY <1>1 DEF RestartHdr1, ShmTypes
  <2>3. pc'[c] = "restart0"
    BY <1>1 DEF RestartHdr1, Goto, ControlTypes
  <2> QED
    BY <2>1, <2>2, <2>3 DEF RestartInv
<1>2. CASE RestartHdr0(c)
  <2>1. aHdr' = [aHdr EXCEPT ![0] = hdr[c]] /\ pc'[c] = "restartBackfill" /\ pc[c] = "restart0"
    BY <1>2 DEF RestartHdr0, Goto, ControlTypes
  <2>2. \A k \in 0..1 : aHdr'[k].mxFrame = 0
    BY <2>1 DEF RestartInv, ShmTypes
  <2> QED
    BY <2>1, <2>2 DEF RestartInv
<1>3. CASE RestartInfo(c) \/ RestartMarks(c)
  <2>1. aHdr' = aHdr /\ pc'[c] # "restart0" /\ pc[c] \in {"restartBackfill", "restartAttempted", "restartMarks"}
    BY <1>3 DEF RestartInfo, RestartBackfill, RestartAttempted, RestartMarks, Goto, ControlTypes
  <2> QED
    BY <2>1 DEF RestartInv
<1>4. CASE ~ (RestartHdr1(c) \/ RestartHdr0(c) \/ RestartInfo(c) \/ RestartMarks(c))
  BY <1>4, OwnSteps DEF RestartInv
<1> QED
  BY <1>1, <1>2, <1>3, <1>4

\* What a checkpoint copies is in the log.
LEMMA CopyStep ==
    ASSUME NEW c \in Conn, Step(c), ControlTypes, Own(c), FileTypes, HdrTypes, HistTypes,
           CkptTypes, LogCoversHdr, TxnInv(c), CopyInv(c)
    PROVE  CopyInv(c)'
<1>1. CASE CkptLock0(c)
  <2>1. CkptFrames(c) \subseteq 1..Len(log)
    BY DEF CkptFrames
  <2>2. /\ log' = log /\ nBackfill' = nBackfill /\ mxSafeFrame' = mxSafeFrame
        /\ todo'[c] \subseteq 1..Len(log)
    BY <1>1, <2>1 DEF CkptLock0, fileVars, CkptTypes, CopyInv
  <2>3. pc'[c] \in {"ckptCopy", "ckptDone"} => nBackfill < mxSafeFrame[c]
    BY <1>1 DEF CkptLock0, MoreToCopy, AfterCopy, Goto, ControlTypes
  <2> QED
    BY <2>2, <2>3 DEF CopyInv
<1>2. CASE CkptCopy(c) \/ CkptTruncateDb(c)
  <2>1. /\ log' = log /\ nBackfill' = nBackfill /\ mxSafeFrame' = mxSafeFrame
        /\ todo'[c] \subseteq todo[c] /\ pc[c] = "ckptCopy"
    BY <1>2 DEF CkptCopy, CkptTruncateDb, shmVars, infoVars, ckptVars, CkptTypes
  <2> QED
    BY <2>1 DEF CopyInv
<1>3. CASE ~ (CkptLock0(c) \/ CkptCopy(c) \/ CkptTruncateDb(c))
  <2>1. pc'[c] \notin {"ckptCopy", "ckptDone"}
    BY <1>3, OwnSteps
  <2>2. todo'[c] = {}
    BY <2>1, TodoControlStep DEF TodoControl
  <2> QED
    BY <2>1, <2>2 DEF CopyInv
<1> QED
  BY <1>1, <1>2, <1>3

\* The header that c may write names frames of the log only.
LEMMA OwnHdrStep ==
    ASSUME NEW c \in Conn, Step(c), ControlTypes, Own(c), FileTypes, ShmTypes, HdrTypes, HistTypes,
           LogCoversHdr, TxnInv(c), OwnHdr(c)'
    PROVE  hdr'[c].mxFrame <= Len(log')
<1>1. CASE WriteCheck(c)
  <2>1. log' = log /\ hdr' = hdr
    BY <1>1 DEF WriteCheck, fileVars, hdrVars
  <2>2. CASE SnapshotIsCurrent(c)
    BY <2>1, <2>2 DEF SnapshotIsCurrent, LogCoversHdr
  <2>3. CASE ~ SnapshotIsCurrent(c)
    BY <1>1, <2>3 DEF WriteCheck, Goto, ControlTypes, OwnHdr, InWrite, WritePCs, TryPCs, RecPCs,
       RestartPCs
  <2> QED
    BY <2>2, <2>3
<1>2. CASE RecoverScan(c)
  <2>1. log' = log /\ hdr'[c] = RecoveredHdr
    BY <1>2 DEF RecoverScan, fileVars, HdrTypes
  <2>2. RecoveredHdr.mxFrame = RecoveredFrame
    BY DEF RecoveredHdr
  <2> QED
    BY <2>1, <2>2, RecoveredInLog
<1>3. CASE Spill(c)
  BY <1>3, WriterHdrInLog, SpillType DEF Spill
<1>4. CASE Commit(c)
  BY <1>4, WriterHdrInLog, CommitType DEF Commit
<1>5. CASE RestartHdr1(c)
  <2>1. log' = log /\ hdr'[c].mxFrame = 0
    BY <1>5, RestartHdrType DEF RestartHdr1, fileVars
  <2> QED
    BY <2>1 DEF FileTypes
<1>6. CASE WriteWalHdr(c)
  <2>1. log' = log /\ hdr'[c].mxFrame = hdr[c].mxFrame
    BY <1>6 DEF WriteWalHdr, HdrTypes, Header
  <2>2. OwnHdr(c)
    BY <1>6 DEF WriteWalHdr, OwnHdr, InWrite, WritePCs
  <2> QED
    BY <2>1, <2>2 DEF LogCoversHdr
<1>7. CASE \/ ReadHdr(c) \/ HdrRetry(c) \/ EndRead(c) \/ CkptEnd(c) \/ CkptTruncateLog(c)
           \/ Rollback(c)
  <2>1. ~ Rollback(c) => OwnHdr(c)
    BY <1>7, OwnSteps DEF ReadHdr, HdrRetry, EndRead, CkptEnd, CkptTruncateLog, WriteCheck,
       RecoverScan
  <2>2. /\ ~ Rollback(c) => pc[c] \in {"hdr", "hdrLocked", "read", "ckptEnd", "truncate"}
        /\ Rollback(c) => pc'[c] = "read"
    BY <1>7 DEF ReadHdr, HdrRetry, EndRead, CkptEnd, CkptTruncateLog, Rollback, Goto, ControlTypes
  <2> QED
    BY <2>1, <2>2 DEF OwnHdr, InWrite, WritePCs, TryPCs, RestartPCs, RecPCs
<1>8. CASE ~ (\/ WriteCheck(c) \/ RecoverScan(c) \/ Spill(c) \/ Commit(c) \/ RestartHdr1(c)
              \/ WriteWalHdr(c) \/ ReadHdr(c) \/ HdrRetry(c) \/ EndRead(c) \/ CkptEnd(c)
              \/ CkptTruncateLog(c) \/ Rollback(c))
  <2>1. OwnHdr(c)
    BY <1>8, OwnSteps
  <2>2. hdr[c].mxFrame <= Len(log)
    BY <2>1 DEF LogCoversHdr
  <2>3. log' = log /\ hdr'[c] = hdr[c]
    BY <1>8, Zenon DEF Step, CallStep, HdrStep, ReadStep, WriteStep, CkptStep, UserStep,
        HdrLock, fileVars, shmVars, infoVars, hdrVars, RecoverLock, RecoverBusy, CkptHdrBusy,
        RecoverHdr, RecoverInfo, RecoverBackfill, RecoverAttempted, RecoverMarkLock, RecoverMarkSet, RecoverEnd, CheckBackfill,
        Lock0, Check0, ScanMark, RaiseLock, RaiseBusy, RaiseSet, LockI, LoadMinFrame, CheckI,
        RestartLog, RestartLogEnd, RestartHdr0, RestartInfo, RestartBackfill, RestartAttempted, RestartMarks, Publish1, Publish0,
        EndWrite, CkptWriter, CkptInfo, CkptMark, CkptMarkBusy, CkptMarkLock, CkptMarkSet,
        CkptLock0, CkptCopy, CkptTruncateDb, CkptDone, CkptUnlock0, CkptRestart, CkptNoRestart,
        CkptUnlock, BeginRead, ReadFails, BeginWrite, BeginCkpt, CkptInterrupt
  <2> QED
    BY <2>2, <2>3
<1> QED
  BY <1>1, <1>2, <1>3, <1>4, <1>5, <1>6, <1>7, <1>8

\* Both headers in the wal-index name frames of the log only.
LEMMA SharedHdrStep ==
    ASSUME NEW c \in Conn, Step(c), ControlTypes, Own(c), FileTypes, ShmTypes, HdrTypes, HistTypes,
           CkptTypes, LogCoversHdr, TxnInv(c), RestartInv(c), CopyInv(c)
    PROVE  \A k \in 0..1 : aHdr'[k].mxFrame <= Len(log')
<1>1. CASE pc[c] = "truncate"
  <2>1. CkptTruncateLog(c)
    BY <1>1, LogStep
  <2>2. aHdr' = aHdr /\ Len(log') = 0
    BY <2>1 DEF CkptTruncateLog, shmVars
  <2> QED
    BY <1>1, <2>2 DEF RestartInv
<1>2. CASE pc[c] # "truncate"
  <2>1. Len(log) <= Len(log')
    BY <1>2, LogStep
  <2>2. \A k \in 0..1 : aHdr[k].mxFrame \in Nat /\ aHdr[k].mxFrame <= Len(log)
    BY Zeros DEF ShmTypes, Header, LogCoversHdr
  <2>3. Len(log) \in Nat /\ Len(log') \in Nat
    BY FileTypesStep DEF FileTypes
  <2>4. \A k \in 0..1 : aHdr[k].mxFrame <= Len(log')
    BY <2>1, <2>2, <2>3
  <2>5. CASE RecoverScan(c)
    <3>1. \A k \in 0..1 : aHdr'[k] \in {aHdr[k], RecoveredHdr}
      BY <2>5 DEF RecoverScan, ShmTypes
    <3>2. RecoveredHdr.mxFrame = RecoveredFrame /\ log' = log
      BY <2>5 DEF RecoveredHdr, RecoverScan, fileVars
    <3> QED
      BY <2>4, <3>1, <3>2, RecoveredInLog
  <2>6. CASE RecoverHdr(c) \/ RestartHdr0(c) \/ Publish1(c) \/ Publish0(c)
    <3>1. \A k \in 0..1 : aHdr'[k] \in {aHdr[k], hdr[c]}
      BY <2>6 DEF RecoverHdr, RestartHdr0, Publish1, Publish0, ShmTypes
    <3>2. hdr[c].mxFrame <= Len(log) /\ log' = log
      BY <2>6 DEF RecoverHdr, RestartHdr0, Publish1, Publish0, fileVars, LogCoversHdr, OwnHdr,
         InWrite, WritePCs, RecPCs, RestartInv, FileTypes
    <3> QED
      BY <2>4, <3>1, <3>2
  <2>7. CASE RestartHdr1(c)
    <3>1. \A k \in 0..1 : aHdr'[k] \in {aHdr[k], hdr'[c]}
      BY <2>7 DEF RestartHdr1, ShmTypes
    <3> QED
      BY <2>3, <2>4, <2>7, <3>1, RestartHdrType
  <2>8. CASE ~ (\/ RecoverScan(c) \/ RecoverHdr(c) \/ RestartHdr0(c) \/ Publish1(c) \/ Publish0(c)
                \/ RestartHdr1(c))
    <3>1. aHdr' = aHdr
      BY <2>8, Zenon DEF Step, CallStep, HdrStep, ReadStep, WriteStep, CkptStep, UserStep,
          ReadHdr, shmVars, HdrLock, HdrRetry, RecoverLock, RecoverBusy, CkptHdrBusy,
          RecoverInfo, RecoverBackfill, RecoverAttempted, RecoverMarkLock, RecoverMarkSet, RecoverEnd, CheckBackfill, Lock0,
          Check0, ScanMark, RaiseLock, RaiseBusy, RaiseSet, LockI, LoadMinFrame, CheckI,
          WriteCheck, RestartLog, RestartLogEnd, RestartInfo, RestartBackfill, RestartAttempted, RestartMarks, EndWrite,
          CkptWriter, CkptInfo, CkptMark, CkptMarkBusy, CkptMarkLock, CkptMarkSet, CkptLock0,
          CkptCopy, CkptTruncateDb, CkptDone, CkptUnlock0, CkptRestart, CkptNoRestart,
          CkptTruncateLog, CkptUnlock, CkptEnd, BeginRead, ReadFails, EndRead, BeginWrite,
          WriteWalHdr, Spill, Commit, Rollback, BeginCkpt, CkptInterrupt
    <3> QED
      BY <2>4, <3>1
  <2> QED
    BY <2>5, <2>6, <2>7, <2>8
<1> QED
  BY <1>1, <1>2


(***************************************************************************)
(* The other connections                                                   *)
(***************************************************************************)
\* What d knows of its control state, its locks and its data.
ConnInv(d) == Own(d) /\ TxnInv(d) /\ RestartInv(d) /\ CopyInv(d)

\* The control state and the locks of a connection d that does not move.
LEMMA OthersOwn ==
    ASSUME NEW c \in Conn, Step(c), ControlTypes, HdrTypes, ReadTypes, CkptTypes, HistTypes, Own(c),
           NEW d \in Conn \ {c}, Own(d)
    PROVE  Own(d)'
<1>1. /\ pc'[d] = pc[d] /\ eMode'[d] = eMode[d] /\ iMark'[d] = iMark[d]
      /\ \A l \in Locks : lockX'[l] = d <=> lockX[l] = d
  BY LocksOfOthers
<1>2. mxI'[d] = mxI[d] /\ todo'[d] = todo[d]
  BY OthersFrame
<1>3. CkptControl(d)' /\ MarkControl(d)' /\ TodoControl(d)'
  BY <1>1, <1>2 DEF Own, CkptControl, MarkControl, TodoControl
<1>4. WriterLock(d)' /\ CkptLock(d)'
  BY <1>1, LockNumbers DEF Own, WriterLock, CkptLock, bWriteLock, InCkpt
<1>5. MarkLocks(d)'
  BY <1>1, LockNumbers DEF Own, MarkLocks, MarkControl
<1> QED
  BY <1>3, <1>4, <1>5 DEF Own

\* A connection in a write transaction, in a restart or in a recovery holds
\* the WRITER lock, and one that copies holds the CKPT lock.
LEMMA LocksOfData ==
    ASSUME NEW d \in Conn, Own(d)
    PROVE  /\ InWrite(d) \/ OwnHdr(d) \/ pc[d] \in WriterPCs => lockX[WAL_WRITE_LOCK] = d
           /\ pc[d] \in CkptPCs => lockX[WAL_CKPT_LOCK] = d
  BY DEF Own, WriterLock, CkptLock, CkptControl, InWrite, OwnHdr, WriterPCs

\* The data of a connection that does not move.
LEMMA OthersData ==
    ASSUME NEW c \in Conn, Step(c), FileTypes, ShmTypes, ControlTypes, HdrTypes, ReadTypes, CkptTypes,
           HistTypes, LogCoversHdr, ConnInv(c),
           NEW d \in Conn \ {c}, ConnInv(d)
    PROVE  /\ ConnInv(d)'
           /\ OwnHdr(d)' => OwnHdr(d) /\ hdr'[d] = hdr[d] /\ log' = log
<1>1. /\ pc'[d] = pc[d] /\ eMode'[d] = eMode[d]
      /\ \A l \in Locks : lockX'[l] = d <=> lockX[l] = d
  BY LocksOfOthers DEF ConnInv
<1>2. /\ hdr'[d] = hdr[d] /\ todo'[d] = todo[d] /\ mxSafeFrame'[d] = mxSafeFrame[d]
      /\ snap'[d] = snap[d]
  BY OthersFrame
<1>3. (InWrite(d)' <=> InWrite(d)) /\ (OwnHdr(d)' <=> OwnHdr(d))
  BY <1>1, LockNumbers DEF InWrite, OwnHdr
<1>4. ASSUME lockX[WAL_WRITE_LOCK] = d
      PROVE  log' = log /\ aHdr' = aHdr /\ txn' = txn
  BY <1>4, LogStep, HdrStoreStep, TxnStep DEF ConnInv
<1>5. TxnInv(d)'
  <2>1. snap[d] \in Nat /\ Len(hist) \in Nat /\ Len(hist) <= Len(hist')
    BY HistAppend, HistStep DEF HistTypes
  <2>2. Len(hist') \in Nat
    BY HistTypesStep DEF ConnInv, HistTypes
  <2>3. snap'[d] <= Len(hist')
    BY <1>2, <2>1, <2>2 DEF ConnInv, TxnInv
  <2>4. InWrite(d) \/ pc[d] = "writeCheck" => txn' = txn
    BY <1>4, LocksOfData DEF ConnInv, WriterPCs, WritePCs
  <2> QED
    BY <1>1, <1>2, <1>3, <2>3, <2>4 DEF ConnInv, TxnInv
<1>6. RestartInv(d)'
  <2>1. pc[d] \in {"restart0", "restartBackfill", "restartAttempted", "restartMarks", "truncate"} => aHdr' = aHdr
    BY <1>4, LocksOfData DEF ConnInv, WriterPCs, RestartPCs
  <2> QED
    BY <1>1, <1>2, <2>1 DEF ConnInv, RestartInv
<1>7. CopyInv(d)'
  <2>1. CASE pc[d] \notin {"ckptCopy", "ckptDone"}
    BY <1>1, <1>2, <2>1 DEF ConnInv, CopyInv, Own, TodoControl
  <2>2. CASE pc[d] \in {"ckptCopy", "ckptDone"}
    <3>1. lockX[WAL_CKPT_LOCK] # c
      BY <2>2, LocksOfData DEF ConnInv, CkptPCs
    <3>2. pc[c] # "truncate"
      BY <3>1, LocksOfData DEF ConnInv, CkptPCs
    <3>3. Len(log) <= Len(log') /\ Len(log) \in Nat
      BY <3>2, LogStep DEF ConnInv, FileTypes
    <3>4. Len(log') \in Nat
      BY FileTypesStep DEF ConnInv, FileTypes
    <3>5. todo'[d] \subseteq 1..Len(log')
      BY <1>2, <3>3, <3>4 DEF ConnInv, CopyInv
    <3>6. nBackfill' = nBackfill \/ nBackfill' = 0
      BY <3>1, BackfillStep DEF ConnInv
    <3>7. nBackfill \in Nat /\ mxSafeFrame[d] \in Nat
      BY Zeros DEF ShmTypes, CkptTypes
    <3>8. nBackfill' < mxSafeFrame'[d]
      BY <1>2, <2>2, <3>6, <3>7 DEF ConnInv, CopyInv
    <3> QED
      BY <3>5, <3>8 DEF CopyInv
  <2> QED
    BY <2>1, <2>2
<1>8. Own(d)'
  BY OthersOwn DEF ConnInv
<1>9. OwnHdr(d) => log' = log
  BY <1>4, LocksOfData DEF ConnInv
<1> QED
  BY <1>2, <1>3, <1>5, <1>6, <1>7, <1>8, <1>9 DEF ConnInv


(***************************************************************************)
(* The invariant                                                           *)
(***************************************************************************)
\* IInv by connection.
LEMMA IInvByConn ==
    IInv <=> TypeOK /\ LockExcludes /\ LogCoversHdr /\ \A c \in Conn : ConnInv(c)
  BY DEF IInv, Control, LockDiscipline, DataInv, ConnInv, Own

\* A step of a connection preserves the invariant.
LEMMA ConnStep ==
    ASSUME IInv, NEW c \in Conn, Step(c)
    PROVE  IInv'
<1>1. /\ FileTypes /\ ShmTypes /\ ControlTypes /\ HdrTypes /\ ReadTypes /\ CkptTypes /\ HistTypes
      /\ LockExcludes /\ LogCoversHdr /\ \A d \in Conn : ConnInv(d)
  BY IInvByConn DEF TypeOK
<1>2. Own(c) /\ TxnInv(c) /\ RestartInv(c) /\ CopyInv(c)
  BY <1>1 DEF ConnInv
<1>3. TypeOK'
  <2>1. FileTypes' /\ ShmTypes' /\ ControlTypes'
    BY <1>1, <1>2, FileTypesStep, ShmTypesStep, ControlTypesStep
  <2>2. HdrTypes' /\ ReadTypes' /\ CkptTypes' /\ HistTypes'
    BY <1>1, <1>2, HdrTypesStep, ReadTypesStep, CkptTypesStep, HistTypesStep
  <2> QED
    BY <2>1, <2>2 DEF TypeOK
<1>4. LockExcludes'
  BY <1>1, <1>2, LocksExclude
<1>5. ConnInv(c)'
  <2>1. mxI \in [Conn -> 0..(WAL_NREADER - 1)]
    BY <1>1 DEF ReadTypes
  <2>2. Own(c)'
    BY <1>1, <1>2, <2>1, OwnLocks, MarkControlStep, TodoControlStep DEF Own
  <2>3. TxnInv(c)' /\ RestartInv(c)' /\ CopyInv(c)'
    BY <1>1, <1>2, OwnSteps, RestartStep, CopyStep
  <2> QED
    BY <2>2, <2>3 DEF ConnInv
<1>6. \A d \in Conn \ {c} :
        /\ ConnInv(d)'
        /\ OwnHdr(d)' => OwnHdr(d) /\ hdr'[d] = hdr[d] /\ log' = log
  BY <1>1, OthersData
<1>7. LogCoversHdr'
  <2>1. \A k \in 0..1 : aHdr'[k].mxFrame <= Len(log')
    BY <1>1, <1>2, SharedHdrStep
  <2>2. OwnHdr(c)' => hdr'[c].mxFrame <= Len(log')
    BY <1>1, <1>2, OwnHdrStep
  <2>3. \A d \in Conn \ {c} : OwnHdr(d)' => hdr'[d].mxFrame <= Len(log')
    BY <1>1, <1>6 DEF LogCoversHdr
  <2> QED
    BY <2>1, <2>2, <2>3 DEF LogCoversHdr
<1>8. \A d \in Conn : ConnInv(d)'
  BY <1>5, <1>6
<1> QED
  BY <1>3, <1>4, <1>7, <1>8 DEF IInv, Control, LockDiscipline, DataInv, ConnInv, Own

\* A connection whose process has been killed starts again from nothing, and
\* the others do not notice.
LEMMA ResetInv ==
    ASSUME IInv, NEW C \in SUBSET Conn, ResetConn(C),
           UNCHANGED <<fileVars, txn, hist, pend>>, work' \in Image, nCrash' \in 0..MaxCrash
    PROVE  /\ FileTypes' /\ ControlTypes' /\ HdrTypes' /\ ReadTypes' /\ CkptTypes' /\ HistTypes'
           /\ LockExcludes'
           /\ \A d \in Conn : Own(d)' /\ TxnInv(d)' /\ (OwnHdr(d)' => d \notin C /\ OwnHdr(d))
           /\ \A d \in Conn : IF d \in C THEN pc'[d] = "idle" /\ todo'[d] = {}
                              ELSE /\ pc'[d] = pc[d] /\ hdr'[d] = hdr[d] /\ todo'[d] = todo[d]
                                   /\ mxSafeFrame'[d] = mxSafeFrame[d]
<1> USE LockNumbers, Zeros, ConnAssumption
<1>1. /\ FileTypes /\ ControlTypes /\ HdrTypes /\ ReadTypes /\ CkptTypes /\ HistTypes
      /\ LockExcludes /\ \A d \in Conn : Own(d) /\ TxnInv(d)
  BY IInvByConn DEF TypeOK, ConnInv
<1>2. FileTypes'
  BY <1>1 DEF FileTypes, fileVars
<1>3. ControlTypes' /\ LockExcludes'
  BY <1>1 DEF ControlTypes, LockExcludes, ResetConn, PCs
<1>4. HdrTypes' /\ ReadTypes'
  BY <1>1 DEF HdrTypes, ReadTypes, ResetConn
<1>5. CkptTypes' /\ HistTypes'
  BY <1>1 DEF CkptTypes, HistTypes, ResetConn
<1>6. ASSUME NEW d \in C
      PROVE  /\ pc'[d] = "idle" /\ eMode'[d] = "NONE" /\ todo'[d] = {} /\ snap'[d] = 0
             /\ \A l \in Locks : lockX'[l] # d
  BY <1>1 DEF ControlTypes, ResetConn
<1>7. ASSUME NEW d \in Conn, d \notin C
      PROVE  /\ pc'[d] = pc[d] /\ eMode'[d] = eMode[d] /\ iMark'[d] = iMark[d]
             /\ hdr'[d] = hdr[d] /\ mxI'[d] = mxI[d] /\ todo'[d] = todo[d]
             /\ mxSafeFrame'[d] = mxSafeFrame[d] /\ snap'[d] = snap[d]
             /\ \A l \in Locks : lockX'[l] = d <=> lockX[l] = d
  BY <1>1, <1>7 DEF ControlTypes, ResetConn
<1>8. ASSUME NEW d \in C
      PROVE  Own(d)' /\ TxnInv(d)' /\ ~ OwnHdr(d)'
  <2>1. Own(d)'
    BY <1>6 DEF Own, CkptControl, MarkControl, TodoControl, WriterLock, CkptLock, MarkLocks,
       bWriteLock, InCkpt, CkptPCs, TryPCs, WritePCs, RestartPCs, RecPCs, WriterPCs, AllMarksPCs,
       OneMarkPCs
  <2>2. ~ InWrite(d)' /\ ~ OwnHdr(d)'
    BY <1>6 DEF InWrite, OwnHdr, TryPCs, WritePCs, RestartPCs, RecPCs
  <2>3. TxnInv(d)'
    BY <1>1, <1>6, <2>2, HistAppend DEF TxnInv
  <2> QED
    BY <2>1, <2>2, <2>3
<1>9. ASSUME NEW d \in Conn, d \notin C
      PROVE  Own(d)' /\ TxnInv(d)' /\ (OwnHdr(d)' => OwnHdr(d))
  <2>1. CkptControl(d)' /\ MarkControl(d)' /\ TodoControl(d)'
    BY <1>1, <1>7, <1>9 DEF Own, CkptControl, MarkControl, TodoControl
  <2>2. WriterLock(d)' /\ CkptLock(d)'
    BY <1>1, <1>7, <1>9 DEF Own, WriterLock, CkptLock, bWriteLock, InCkpt
  <2>3. MarkLocks(d)'
    <3>1. MarkLocks(d) /\ MarkControl(d)
      BY <1>1 DEF Own
    <3>2. /\ pc'[d] = pc[d] /\ iMark'[d] = iMark[d]
          /\ \A l \in Locks : lockX'[l] = d <=> lockX[l] = d
      BY <1>7, <1>9
    <3> QED
      BY <3>1, <3>2 DEF MarkLocks, MarkControl
  <2>4. (InWrite(d)' <=> InWrite(d)) /\ (OwnHdr(d)' <=> OwnHdr(d))
    BY <1>7, <1>9 DEF InWrite, OwnHdr
  <2>5. TxnInv(d)'
    BY <1>1, <1>7, <1>9, <2>4 DEF TxnInv
  <2> QED
    BY <2>1, <2>2, <2>3, <2>4, <2>5 DEF Own
<1>10. \A d \in Conn : Own(d)' /\ TxnInv(d)' /\ (OwnHdr(d)' => d \notin C /\ OwnHdr(d))
  BY <1>8, <1>9
<1>11. \A d \in Conn : IF d \in C THEN pc'[d] = "idle" /\ todo'[d] = {}
                       ELSE /\ pc'[d] = pc[d] /\ hdr'[d] = hdr[d] /\ todo'[d] = todo[d]
                            /\ mxSafeFrame'[d] = mxSafeFrame[d]
  BY <1>6, <1>7
<1> QED
  BY <1>2, <1>3, <1>4, <1>5, <1>10, <1>11

\* So the death of one process preserves the invariant.
LEMMA CrashStep ==
    ASSUME IInv, NEW c \in Conn, Crash(c)
    PROVE  IInv'
<1>1. /\ ShmTypes /\ HistTypes /\ LogCoversHdr /\ \A d \in Conn : RestartInv(d) /\ CopyInv(d)
  BY IInvByConn DEF TypeOK, ConnInv
<1>2. work' \in Image /\ nCrash' \in 0..MaxCrash
  BY <1>1, Zeros, BoundAssumption DEF Crash, HistTypes
<1>3. UNCHANGED <<fileVars, shmVars, txn, hist, pend>> /\ ResetConn({c}) /\ {c} \in SUBSET Conn
  BY DEF Crash
<1>4. /\ FileTypes' /\ ControlTypes' /\ HdrTypes' /\ ReadTypes' /\ CkptTypes' /\ HistTypes'
      /\ LockExcludes'
      /\ \A d \in Conn : Own(d)' /\ TxnInv(d)' /\ (OwnHdr(d)' => d \notin {c} /\ OwnHdr(d))
      /\ \A d \in Conn : IF d \in {c} THEN pc'[d] = "idle" /\ todo'[d] = {}
                         ELSE /\ pc'[d] = pc[d] /\ hdr'[d] = hdr[d] /\ todo'[d] = todo[d]
                              /\ mxSafeFrame'[d] = mxSafeFrame[d]
  BY <1>2, <1>3, ResetInv
<1>5. ShmTypes' /\ log' = log /\ aHdr' = aHdr /\ nBackfill' = nBackfill
  BY <1>1, <1>3 DEF ShmTypes, shmVars, infoVars, fileVars
<1>6. LogCoversHdr'
  BY <1>1, <1>4, <1>5 DEF LogCoversHdr
<1>7. \A d \in Conn : RestartInv(d)' /\ CopyInv(d)'
  BY <1>1, <1>4, <1>5 DEF RestartInv, CopyInv
<1> QED
  BY <1>4, <1>5, <1>6, <1>7 DEF IInv, TypeOK, Control, LockDiscipline, DataInv, Own

\* And the death of all, after which the wal-index is zeroed.
LEMMA CrashAllStep ==
    ASSUME IInv, CrashAll
    PROVE  IInv'
<1>1. FileTypes /\ HistTypes
  BY IInvByConn DEF TypeOK
<1>2. work' \in Image /\ nCrash' \in 0..MaxCrash
  BY <1>1, Zeros, BoundAssumption DEF CrashAll, HistTypes
<1>3. UNCHANGED <<fileVars, txn, hist, pend>> /\ ResetConn(Conn) /\ Conn \in SUBSET Conn
  BY DEF CrashAll
<1>4. /\ FileTypes' /\ ControlTypes' /\ HdrTypes' /\ ReadTypes' /\ CkptTypes' /\ HistTypes'
      /\ LockExcludes'
      /\ \A d \in Conn : Own(d)' /\ TxnInv(d)' /\ ~ OwnHdr(d)'
      /\ \A d \in Conn : pc'[d] = "idle" /\ todo'[d] = {}
  BY <1>2, <1>3, ResetInv
<1>5. aHdr' = [k \in 0..1 |-> ZeroHdr] /\ Len(log') \in Nat
  BY <1>1, <1>3 DEF CrashAll, fileVars, FileTypes
<1>6. ShmTypes'
  BY Zeros DEF CrashAll, ShmTypes
<1>7. LogCoversHdr'
  BY <1>4, <1>5 DEF LogCoversHdr, ZeroHdr
<1>8. \A d \in Conn : RestartInv(d)' /\ CopyInv(d)'
  BY <1>4 DEF RestartInv, CopyInv
<1> QED
  BY <1>4, <1>6, <1>7, <1>8 DEF IInv, TypeOK, Control, LockDiscipline, DataInv, Own

\* And a step that changes nothing.
LEMMA StutterStep ==
    ASSUME IInv, UNCHANGED vars
    PROVE  IInv'
<1> USE DEF vars
<1>1. UNCHANGED <<fileVars, shmVars, lockVars, pc, hdrVars, readVars, ckptVars, iMark,
                  commitVars, viewVars, nCrash>>
  OBVIOUS
<1>2. TypeOK'
  BY <1>1 DEF IInv, TypeOK, FileTypes, ShmTypes, ControlTypes, HdrTypes, ReadTypes, CkptTypes,
     HistTypes, fileVars, shmVars, infoVars, lockVars, hdrVars, readVars, ckptVars, commitVars,
     viewVars
<1>3. Control' /\ LockDiscipline'
  BY <1>1 DEF IInv, Control, CkptControl, MarkControl, TodoControl, LockDiscipline, LockExcludes,
     WriterLock, CkptLock, MarkLocks, bWriteLock, InCkpt, lockVars, readVars, ckptVars
<1>4. DataInv' /\ LogCoversHdr'
  BY <1>1 DEF IInv, DataInv, TxnInv, RestartInv, CopyInv, LogCoversHdr, InWrite, OwnHdr, fileVars,
     shmVars, infoVars, lockVars, hdrVars, ckptVars, commitVars, viewVars
<1> QED
  BY <1>2, <1>3, <1>4 DEF IInv

\* The initial states satisfy the invariant.
LEMMA InitInv ==
    ASSUME Init
    PROVE  IInv
<1> USE LockNumbers, Zeros, BoundAssumption
<1>1. FileTypes /\ ShmTypes
  <2>1. [ZeroHdr EXCEPT !.isInit = TRUE] \in Header
    BY DEF Header, ZeroHdr
  <2>2. 1 \in Txn /\ Len(<<>>) = 0 /\ <<>> \in Seq(FrameRec)
    BY DEF Txn
  <2> QED
    BY <2>1, <2>2 DEF Init, FileTypes, ShmTypes, Image, NoLogHdr
<1>2. ControlTypes /\ HdrTypes /\ ReadTypes /\ CkptTypes
  BY DEF Init, ControlTypes, HdrTypes, ReadTypes, CkptTypes, PCs
<1>3. HistTypes
  <2>1. [txn |-> 1, img |-> db] \in Version
    <3>1. 1 \in Txn /\ db \in Image
      BY <1>1 DEF Txn, FileTypes
    <3> QED
      BY <3>1 DEF Version
  <2>2. ASSUME NEW S, NEW x \in S PROVE <<x>> \in Seq(S) /\ Len(<<x>>) = 1
    OBVIOUS
  <2>3. hist \in Seq(Version) /\ Len(hist) = 1
    BY <2>1, <2>2 DEF Init
  <2> QED
    BY <2>3 DEF Init, HistTypes
<1>4. \A c \in Conn : /\ pc[c] = "idle" /\ eMode[c] = "NONE" /\ todo[c] = {} /\ snap[c] = 0
                      /\ \A l \in Locks : lockX[l] # c
  BY ConnAssumption DEF Init
<1>5. Control
  BY <1>4 DEF Control, CkptControl, MarkControl, TodoControl, CkptPCs, TryPCs, WritePCs, OneMarkPCs
<1>6. LockDiscipline
  BY <1>4 DEF Init, LockDiscipline, LockExcludes, WriterLock, CkptLock, MarkLocks, bWriteLock,
     InCkpt, WritePCs, RestartPCs, RecPCs, WriterPCs, AllMarksPCs, OneMarkPCs
<1>7. \A c \in Conn : ~ InWrite(c) /\ ~ OwnHdr(c)
  BY <1>4 DEF InWrite, OwnHdr, TryPCs, WritePCs, RestartPCs, RecPCs
<1>8. DataInv
  BY <1>3, <1>4, <1>7 DEF DataInv, TxnInv, RestartInv, CopyInv, HistTypes
<1>9. LogCoversHdr
  <2>1. \A k \in 0..1 : aHdr[k].mxFrame = 0
    BY DEF Init, ZeroHdr
  <2>2. Len(log) \in Nat
    BY <1>1 DEF FileTypes
  <2> QED
    BY <1>7, <2>1, <2>2 DEF LogCoversHdr
<1> QED
  BY <1>1, <1>2, <1>3, <1>5, <1>6, <1>8, <1>9 DEF IInv, TypeOK

\* Every step preserves the invariant.
LEMMA NextInv ==
    ASSUME IInv, [Next]_vars
    PROVE  IInv'
<1>1. ASSUME NEW c \in Conn, CallStep(c) \/ UserStep(c)
      PROVE  IInv'
  BY <1>1, ConnStep DEF Step
<1> QED
  BY <1>1, CrashStep, CrashAllStep, StutterStep DEF Next

\* IInv holds in every reachable state.
THEOREM InductiveInvariant == Spec => []IInv
<1> QED
  BY InitInv, NextInv, PTL DEF Spec


(***************************************************************************)
(* Theorems                                                                *)
(***************************************************************************)
\* Every variable has its type in every reachable state: a header names at
\* most MaxFrame frames, every read mark is a frame number or
\* READMARK_NOT_USED (struct WalIndexHdr and WalCkptInfo).
THEOREM TypeCorrect == Spec => []TypeOK
<1>1. IInv => TypeOK
  BY DEF IInv
<1> QED
  BY <1>1, InductiveInvariant, PTL

\* The locks that wal.c says protect the log, the checkpoint and the read
\* marks are held wherever it changes them, and never by two connections,
\* whoever is killed on the way.
THEOREM LocksProtect == Spec => []LockDiscipline
<1>1. IInv => LockDiscipline
  BY DEF IInv
<1> QED
  BY <1>1, InductiveInvariant, PTL

\* No header in shared memory names a frame that the WAL file does not have,
\* although a TRUNCATE checkpoint may empty the file at any time
\* (walCheckpoint, walRestartHdr).
THEOREM HeaderWithinLog == Spec => []LogCoversHdr
<1>1. IInv => LogCoversHdr
  BY DEF IInv
<1> QED
  BY <1>1, InductiveInvariant, PTL

\* The three ways a step can change nBackfill and the read marks: a step of a
\* connection that holds the lock, the death of a process, or not at all.
LEMMA SharedStep ==
    ASSUME IInv, [Next]_vars
    PROVE  \/ \E c \in Conn : Step(c)
           \/ UNCHANGED <<nBackfill, aReadMark>>
           \/ nCrash' > nCrash /\ nBackfill' = 0
<1>1. ASSUME NEW c \in Conn, Crash(c)
      PROVE  UNCHANGED <<nBackfill, aReadMark>>
  BY <1>1 DEF Crash, shmVars, infoVars
<1>2. ASSUME CrashAll
      PROVE  nCrash' > nCrash /\ nBackfill' = 0
  <2>1. nCrash \in Nat
    BY BoundAssumption DEF IInv, TypeOK, HistTypes
  <2> QED
    BY <1>2, <2>1 DEF CrashAll
<1>3. ASSUME UNCHANGED vars
      PROVE  UNCHANGED <<nBackfill, aReadMark>>
  BY <1>3 DEF vars, shmVars, infoVars
<1> QED
  BY <1>1, <1>2, <1>3 DEF Next, Step

\* nBackfill grows only at the end of a checkpoint's copy, under the CKPT
\* lock, and falls only to zero, under the WRITER lock (comment on struct
\* WalCkptInfo, walCheckpoint, walRestartHdr, walIndexRecover).
THEOREM BackfillProtected == Spec => BackfillOwner
<1> DEFINE A == /\ nBackfill' > nBackfill =>
                      \E c \in Conn : lockX[WAL_CKPT_LOCK] = c /\ pc[c] = "ckptDone"
                /\ nBackfill' < nBackfill =>
                      /\ nBackfill' = 0
                      /\ lockX[WAL_WRITE_LOCK] # None \/ nCrash' > nCrash
<1>1. ASSUME IInv, [Next]_vars
      PROVE  A
  <2>1. nBackfill \in Nat
    BY <1>1, Zeros DEF IInv, TypeOK, ShmTypes
  <2>2. CASE \E c \in Conn : Step(c)
    <3>1. PICK c \in Conn : Step(c)
      BY <2>2
    <3>2. ControlTypes /\ ShmTypes /\ CkptTypes /\ Own(c) /\ CopyInv(c)
      BY <1>1, IInvByConn DEF TypeOK, ConnInv
    <3>3. \/ nBackfill' = nBackfill
          \/ nBackfill' > nBackfill /\ pc[c] = "ckptDone" /\ lockX[WAL_CKPT_LOCK] = c
          \/ nBackfill' = 0 /\ lockX[WAL_WRITE_LOCK] = c
      BY <3>1, <3>2, BackfillStep
    <3>4. nBackfill' \in Nat
      BY <3>2, <1>1, NextInv, Zeros DEF IInv, TypeOK, ShmTypes
    <3> QED
      BY <2>1, <3>3, <3>4, ConnAssumption
  <2>3. CASE UNCHANGED <<nBackfill, aReadMark>>
    BY <2>1, <2>3
  <2>4. CASE nCrash' > nCrash /\ nBackfill' = 0
    BY <2>1, <2>4
  <2> QED
    BY <1>1, <2>2, <2>3, <2>4, SharedStep
<1>2. IInv /\ [Next]_vars => [A]_vars
  BY <1>1
<1> QED
  BY <1>2, InductiveInvariant, PTL DEF Spec, BackfillOwner

\* A read mark does not change while any connection holds its READ lock
\* shared: what a checkpoint may copy is fixed as long as the reader stays
\* (comment on aReadMark in struct WalCkptInfo, walTryBeginRead).
THEOREM MarksProtected == Spec => MarkIsStable
<1> DEFINE A == \A i \in ReadMarks :
                   aReadMark'[i] # aReadMark[i] =>
                       lockS[WAL_READ_LOCK(i)] = {} \/ nCrash' > nCrash
<1>1. ASSUME IInv, [Next]_vars
      PROVE  A
  <2>1. CASE \E c \in Conn : Step(c)
    <3>1. PICK c \in Conn : Step(c)
      BY <2>1
    <3>2. ControlTypes /\ ShmTypes /\ Own(c) /\ LockExcludes
      BY <1>1, IInvByConn DEF TypeOK, ConnInv
    <3>3. \A i \in ReadMarks : aReadMark'[i] # aReadMark[i] => lockX[WAL_READ_LOCK(i)] = c
      BY <3>1, <3>2, MarkStep
    <3>4. \A i \in ReadMarks : WAL_READ_LOCK(i) \in Locks
      BY LockNumbers
    <3> QED
      BY <3>2, <3>3, <3>4, ConnAssumption DEF LockExcludes
  <2>2. CASE UNCHANGED <<nBackfill, aReadMark>>
    BY <2>2
  <2>3. CASE nCrash' > nCrash /\ nBackfill' = 0
    BY <2>3
  <2> QED
    BY <1>1, <2>1, <2>2, <2>3, SharedStep
<1>2. IInv /\ [Next]_vars => [A]_vars
  BY <1>1
<1> QED
  BY <1>2, InductiveInvariant, PTL DEF Spec, MarkIsStable

(***************************************************************************)
(* The headers that a writer makes                                         *)
(***************************************************************************)
\* walRestartHdr: no frames, a new salt.
LEMMA RestartHdrFields ==
    ASSUME NEW c \in Conn, HdrTypes, RestartHdr1(c)
    PROVE  \E s \in NewSalts :
              /\ hdr'[c].mxFrame = 0 /\ hdr'[c].aSalt = s
              /\ hdr'[c].isInit = hdr[c].isInit /\ hdr'[c].iChange = hdr[c].iChange
              /\ hdr'[c].nPage = hdr[c].nPage /\ hdr'[c].aFrameCksum = hdr[c].aFrameCksum
<1>1. PICK s \in NewSalts : hdr' = [hdr EXCEPT ![c].mxFrame = 0, ![c].aSalt = s]
  BY DEF RestartHdr1
<1>2. hdr[c] \in Header
  BY DEF HdrTypes
<1> DEFINE h == [hdr[c] EXCEPT !.mxFrame = 0, !.aSalt = s]
<1>3. /\ h.mxFrame = 0 /\ h.aSalt = s /\ h.isInit = hdr[c].isInit /\ h.iChange = hdr[c].iChange
      /\ h.nPage = hdr[c].nPage /\ h.aFrameCksum = hdr[c].aFrameCksum
  BY <1>2 DEF Header
<1>4. hdr' = [hdr EXCEPT ![c] = h]
  BY <1>1, <1>2 DEF HdrTypes
<1> HIDE DEF h
<1>5. hdr'[c] = h
  BY <1>4 DEF HdrTypes
<1> QED
  BY <1>3, <1>5

\* sqlite3WalFrames before the first frame of a log: perhaps a new salt.
LEMMA WalHdrFields ==
    ASSUME NEW c \in Conn, HdrTypes, WriteWalHdr(c)
    PROVE  \E s \in NewSalts \cup {hdr[c].aSalt} :
              /\ hdr'[c].mxFrame = hdr[c].mxFrame /\ hdr'[c].aSalt = s
              /\ hdr'[c].isInit = hdr[c].isInit /\ hdr'[c].iChange = hdr[c].iChange
              /\ hdr'[c].nPage = hdr[c].nPage /\ hdr'[c].aFrameCksum = 0
              /\ logHdr' = [aSalt |-> s, nCkpt |-> nCkpt[c]]
<1>1. PICK s \in NewSalts \cup {hdr[c].aSalt} :
        /\ hdr' = [hdr EXCEPT ![c].aSalt = s, ![c].aFrameCksum = 0]
        /\ logHdr' = [aSalt |-> s, nCkpt |-> nCkpt[c]]
  BY DEF WriteWalHdr
<1>2. hdr[c] \in Header
  BY DEF HdrTypes
<1> DEFINE h == [hdr[c] EXCEPT !.aSalt = s, !.aFrameCksum = 0]
<1>3. /\ h.mxFrame = hdr[c].mxFrame /\ h.aSalt = s /\ h.isInit = hdr[c].isInit
      /\ h.iChange = hdr[c].iChange /\ h.nPage = hdr[c].nPage /\ h.aFrameCksum = 0
  BY <1>2 DEF Header
<1>4. hdr' = [hdr EXCEPT ![c] = h]
  BY <1>1, <1>2 DEF HdrTypes
<1> HIDE DEF h
<1>5. hdr'[c] = h
  BY <1>4 DEF HdrTypes
<1> QED
  BY <1>1, <1>3, <1>5

\* A spilled page: a frame more.
LEMMA SpillFields ==
    ASSUME NEW c \in Conn, HdrTypes, Spill(c)
    PROVE  /\ hdr'[c].mxFrame = hdr[c].mxFrame + 1 /\ hdr'[c].aSalt = hdr[c].aSalt
           /\ hdr'[c].isInit = hdr[c].isInit /\ hdr'[c].iChange = hdr[c].iChange
           /\ hdr'[c].nPage = hdr[c].nPage /\ hdr'[c].aFrameCksum = txn
<1>1. hdr[c] \in Header
  BY DEF HdrTypes
<1> DEFINE h == [hdr[c] EXCEPT !.mxFrame = hdr[c].mxFrame + 1, !.aFrameCksum = txn]
<1>2. /\ h.mxFrame = hdr[c].mxFrame + 1 /\ h.aSalt = hdr[c].aSalt /\ h.isInit = hdr[c].isInit
      /\ h.iChange = hdr[c].iChange /\ h.nPage = hdr[c].nPage /\ h.aFrameCksum = txn
  BY <1>1 DEF Header
<1>3. hdr' = [hdr EXCEPT ![c] = h]
  BY <1>1 DEF Spill, HdrTypes
<1> HIDE DEF h
<1>4. hdr'[c] = h
  BY <1>3 DEF HdrTypes
<1> QED
  BY <1>2, <1>4

\* A commit: its frames, its size, and a change of the database more.
LEMMA CommitFields ==
    ASSUME NEW c \in Conn, HdrTypes, Commit(c)
    PROVE  \E w \in Writes :
           \E q \in Ascending(NewPages(c, w.pages)) :
              /\ hdr[c].mxFrame + Len(q) <= MaxFrame
              /\ \A p \in 1..w.size : Committed(w.pages, w.size)[p] # 0
              /\ log' = WriteFrames(c, CommitFrames(c, q, w.size))
              /\ pend' = [txn |-> txn, img |-> Committed(w.pages, w.size)]
              /\ hdr'[c].mxFrame = hdr[c].mxFrame + Len(q) /\ hdr'[c].aSalt = hdr[c].aSalt
              /\ hdr'[c].isInit = hdr[c].isInit /\ hdr'[c].iChange = hdr[c].iChange + 1
              /\ hdr'[c].nPage = w.size /\ hdr'[c].aFrameCksum = txn
<1> DEFINE F(w, q) ==
              /\ hdr[c].mxFrame + Len(q) <= MaxFrame
              /\ \A p \in 1..w.size : Committed(w.pages, w.size)[p] # 0
              /\ log' = WriteFrames(c, CommitFrames(c, q, w.size))
              /\ pend' = [txn |-> txn, img |-> Committed(w.pages, w.size)]
<1>1. PICK w \in Writes :
        \E q \in Ascending(NewPages(c, w.pages)) :
          /\ F(w, q)
          /\ hdr' = [hdr EXCEPT ![c].mxFrame = @ + Len(q), ![c].aFrameCksum = txn,
                                ![c].iChange = @ + 1, ![c].nPage = w.size]
  BY DEF Commit
<1>2. PICK q \in Ascending(NewPages(c, w.pages)) :
          /\ F(w, q)
          /\ hdr' = [hdr EXCEPT ![c].mxFrame = @ + Len(q), ![c].aFrameCksum = txn,
                                ![c].iChange = @ + 1, ![c].nPage = w.size]
  BY <1>1
<1>3. hdr[c] \in Header
  BY DEF HdrTypes
<1> DEFINE h == [hdr[c] EXCEPT !.mxFrame = hdr[c].mxFrame + Len(q), !.aFrameCksum = txn,
                               !.iChange = hdr[c].iChange + 1, !.nPage = w.size]
<1>4. hdr' = [hdr EXCEPT ![c] = h]
  BY <1>2, <1>3 DEF HdrTypes
<1>5. ASSUME NEW m, NEW i, NEW n, NEW t
      PROVE  LET g == [hdr[c] EXCEPT !.mxFrame = m, !.aFrameCksum = t, !.iChange = i, !.nPage = n]
             IN  /\ g.mxFrame = m /\ g.aFrameCksum = t /\ g.iChange = i /\ g.nPage = n
                 /\ g.aSalt = hdr[c].aSalt /\ g.isInit = hdr[c].isInit
  BY <1>3 DEF Header
<1>6. /\ h.mxFrame = hdr[c].mxFrame + Len(q) /\ h.aSalt = hdr[c].aSalt /\ h.isInit = hdr[c].isInit
      /\ h.iChange = hdr[c].iChange + 1 /\ h.nPage = w.size /\ h.aFrameCksum = txn
  BY <1>5
<1> HIDE DEF h
<1>7. hdr'[c] = h
  BY <1>4 DEF HdrTypes
<1> QED
  BY <1>2, <1>6, <1>7

(***************************************************************************)
(* The step of a connection                                                *)
(***************************************************************************)
\* A bad header is one that is just being stored, so that nobody gets as far
\* as a recovery.
LEMMA NobodyRecovers ==
    ASSUME IInv, VersionInv, NEW c \in Conn
    PROVE  ~HdrLock(c)
<1> SUFFICES ASSUME HdrLock(c) PROVE FALSE
  OBVIOUS
<1>1. ~HdrOk /\ pc[c] = "hdr" /\ (bWriteLock(c) \/ CanLock({WAL_WRITE_LOCK}))
  BY DEF HdrLock
<1>2. PICK d \in Conn : pc[d] \in {"publish0", "restart0"}
  BY <1>1 DEF HdrOk, VersionInv, GoodHdrs
<1>3. lockX[WAL_WRITE_LOCK] = d
  BY <1>2 DEF IInv, LockDiscipline, WriterLock, WriterPCs, WritePCs, RestartPCs
<1>4. lockX[WAL_WRITE_LOCK] # c
  BY <1>1, <1>2, <1>3
<1>5. ~bWriteLock(c)
  BY <1>1, <1>4 DEF IInv, LockDiscipline, WriterLock
<1> QED
  BY <1>1, <1>3, <1>5, ConnAssumption DEF CanLock

\* What c and its header stand for after a step of c.
LEMMA OwnVersion ==
    ASSUME NEW c \in Conn, Step(c), ~HdrLock(c), ControlTypes, Own(c), ShmTypes, HdrTypes, HistTypes,
           TxnInv(c), aHdr[0].isInit, HdrCounts, NoRecovery(c), ModeControl(c), HdrAge(c), SnapAge(c),
           CacheAge(c)
    PROVE  /\ aHdr'[0].isInit /\ HdrCounts'
           /\ NoRecovery(c)' /\ ModeControl(c)' /\ HdrAge(c)' /\ SnapAge(c)' /\ CacheAge(c)'
<1>n. /\ \A d \in Conn : hdr[d].iChange \in Nat
      /\ \A k \in 0..1 : aHdr[k].iChange \in Nat
      /\ Len(hist) \in Nat
  BY HistAppend DEF HdrTypes, ShmTypes, Header
<1> USE <1>n, LockNumbers, ConnAssumption DEF ControlTypes, HdrTypes, ShmTypes, HistTypes, InWrite, Own,
    CkptControl, WriterLock, bWriteLock, InCkpt, RestartPCs, RecPCs, WritePCs, TryPCs,
    CkptPCs, WriterPCs, OneMarkPCs, AllMarksPCs, fileVars, shmVars, infoVars, lockVars, hdrVars, ckptVars,
    commitVars, viewVars, HdrCounts, NoRecovery, ModeControl, HdrAge, SnapAge, CacheAge, InFullCkpt, ZeroHdr
<1>t. ASSUME UNCHANGED <<aHdr, hist, hdr, changed, snap, cache, eMode>>,
             lockX'[WAL_WRITE_LOCK] = c <=> lockX[WAL_WRITE_LOCK] = c,
             pc[c] \in TryPCs, pc'[c] \in TryPCs \cup {"hdr"}
      PROVE  /\ aHdr'[0].isInit /\ HdrCounts'
             /\ NoRecovery(c)' /\ ModeControl(c)' /\ HdrAge(c)' /\ SnapAge(c)' /\ CacheAge(c)'
  <2>1. (InWrite(c)' => InWrite(c)) /\ hdr[c].isInit
    BY <1>t
  <2>6. ~InFullCkpt(c)'
    BY <1>t
  <2>2. /\ pc'[c] \notin RecPCs \cup RestartPCs \cup WritePCs \cup
                     {"hdrLocked", "publish0", "restart0", "publish1", "read", "writeCheck", "ckptMode",
                      "truncate", "ckptUnlock"}
        /\ pc[c] \notin {"publish0", "publish1", "writeCheck", "read"}
    BY <1>t
  <2>3. NoRecovery(c)' /\ ModeControl(c)' /\ SnapAge(c)'
    BY <1>t, <2>1, <2>2
  <2>4. HdrAge(c)'
    BY <1>t, <2>1, <2>2, <2>6
  <2>5. CacheAge(c)'
    BY <1>t, <2>1, <2>2
  <2> QED
    BY <1>t, <2>3, <2>4, <2>5
<1>1. CASE ReadHdr(c)
  <2>1. /\ UNCHANGED <<aHdr, hist, snap, cache, eMode, lockX>>
        /\ hdr'[c] = aHdr[0]
    BY <1>1 DEF ReadHdr, walIndexTryHdr
  <2>2. pc[c] = "hdr" /\ pc'[c] = AfterHdr(c)
    BY <1>1 DEF ReadHdr, Goto
  <2>3. ~changed'[c] => ~changed[c] /\ hdr[c] = aHdr[0]
    BY <1>1, Zenon DEF ReadHdr, walIndexTryHdr
  <2>4. HdrCounts' /\ NoRecovery(c)' /\ ModeControl(c)' /\ HdrAge(c)' /\ SnapAge(c)'
    BY <2>1, <2>2 DEF AfterHdr
  <2>5. CacheAge(c)'
    BY <2>1, <2>2, <2>3 DEF AfterHdr
  <2> QED
    BY <2>1, <2>4, <2>5
<1>2. CASE HdrLock(c)
  BY <1>2
<1>3. CASE HdrRetry(c)
  BY <1>3 DEF HdrRetry
<1>4. CASE RecoverLock(c)
  BY <1>4 DEF RecoverLock
<1>5. CASE RecoverBusy(c)
  BY <1>5 DEF RecoverBusy
<1>6. CASE CkptHdrBusy(c)
  BY <1>6 DEF CkptHdrBusy, CanLock, Goto
<1>7. CASE RecoverScan(c)
  BY <1>7 DEF RecoverScan
<1>8. CASE RecoverHdr(c)
  BY <1>8 DEF RecoverHdr
<1>9. CASE RecoverInfo(c)
  BY <1>9 DEF RecoverInfo, RecoverBackfill, RecoverAttempted
<1>10. CASE RecoverMarkLock(c)
  BY <1>10 DEF RecoverMarkLock
<1>11. CASE RecoverMarkSet(c)
  BY <1>11 DEF RecoverMarkSet
<1>12. CASE RecoverEnd(c)
  BY <1>12 DEF RecoverEnd
<1>13. CASE CheckBackfill(c)
  <2>1. /\ UNCHANGED <<aHdr, hist, hdr, changed, snap, cache, eMode>>
        /\ lockX'[WAL_WRITE_LOCK] = c <=> lockX[WAL_WRITE_LOCK] = c
    BY <1>13 DEF CheckBackfill, ToScan, Goto
  <2>2. pc[c] \in TryPCs /\ pc'[c] \in TryPCs \cup {"hdr"}
    BY <1>13 DEF CheckBackfill, ToScan, Goto
  <2> QED
    BY <1>t, <2>1, <2>2
<1>14. CASE Lock0(c)
  <2>1. /\ UNCHANGED <<aHdr, hist, hdr, changed, snap, cache, eMode>>
        /\ lockX'[WAL_WRITE_LOCK] = c <=> lockX[WAL_WRITE_LOCK] = c
    BY <1>14 DEF Lock0, ToScan, Goto
  <2>2. pc[c] \in TryPCs /\ pc'[c] \in TryPCs \cup {"hdr"}
    BY <1>14 DEF Lock0, ToScan, Goto
  <2> QED
    BY <1>t, <2>1, <2>2
<1>15. CASE Check0(c)
  <2>1. lockX[WAL_WRITE_LOCK] # c
    BY <1>15 DEF Check0
  <2>2. CASE HdrUnchanged(c)
    <3>1. /\ UNCHANGED <<aHdr, hist, hdr, eMode, lockX>>
          /\ hdr[c] = aHdr[0] /\ pc'[c] = "read" /\ pc[c] = "check0" /\ snap'[c] = Len(hist) /\ ~changed'[c]
      BY <1>15, <2>1, <2>2 DEF Check0, HdrUnchanged, Opened, useWal, Goto
    <3>2. cache'[c] = IF changed[c] \/ cache[c] = 0 THEN Len(hist) ELSE cache[c]
      BY <1>15, <2>1, <2>2 DEF Check0, HdrUnchanged, Opened, useWal, Goto
    <3>3. changed[c] \/ cache[c] = 0 \/ cache[c] = Len(hist)
      BY <3>1
    <3>4. cache'[c] = Len(hist)
      BY <3>2, <3>3
    <3> QED
      BY <3>1, <3>4
  <2>3. CASE ~HdrUnchanged(c)
    <3>1. /\ UNCHANGED <<aHdr, hist, hdr, changed, snap, cache, eMode>>
          /\ lockX' = lockX
      BY <1>15, <2>3 DEF Check0, Goto
    <3>2. pc[c] \in TryPCs /\ pc'[c] \in TryPCs \cup {"hdr"}
      BY <1>15, <2>3 DEF Check0, Goto
    <3> QED
      BY <1>t, <3>1, <3>2
  <2> QED
    BY <2>2, <2>3
<1>16. CASE ScanMark(c)
  <2>1. /\ UNCHANGED <<aHdr, hist, hdr, changed, snap, cache, eMode>>
        /\ lockX'[WAL_WRITE_LOCK] = c <=> lockX[WAL_WRITE_LOCK] = c
    BY <1>16 DEF ScanMark, Goto
  <2>2. pc[c] \in TryPCs /\ pc'[c] \in TryPCs \cup {"hdr"}
    BY <1>16 DEF ScanMark, Goto
  <2> QED
    BY <1>t, <2>1, <2>2
<1>17. CASE RaiseLock(c)
  <2>1. /\ UNCHANGED <<aHdr, hist, hdr, changed, snap, cache, eMode>>
        /\ lockX'[WAL_WRITE_LOCK] = c <=> lockX[WAL_WRITE_LOCK] = c
    BY <1>17 DEF RaiseLock, Lock, Goto
  <2>2. pc[c] \in TryPCs /\ pc'[c] \in TryPCs \cup {"hdr"}
    BY <1>17 DEF RaiseLock, Lock, Goto
  <2> QED
    BY <1>t, <2>1, <2>2
<1>18. CASE RaiseBusy(c)
  <2>1. /\ UNCHANGED <<aHdr, hist, hdr, changed, snap, cache, eMode>>
        /\ lockX'[WAL_WRITE_LOCK] = c <=> lockX[WAL_WRITE_LOCK] = c
    BY <1>18 DEF RaiseBusy, Retry, ToScan, Goto, useWal
  <2>2. pc[c] \in TryPCs /\ pc'[c] \in TryPCs \cup {"hdr"}
    BY <1>18 DEF RaiseBusy, Retry, ToScan, Goto, useWal
  <2> QED
    BY <1>t, <2>1, <2>2
<1>19. CASE RaiseSet(c)
  BY <1>19 DEF RaiseSet, Unlock, Goto
<1>20. CASE LockI(c)
  <2>1. /\ UNCHANGED <<aHdr, hist, hdr, changed, snap, cache, eMode>>
        /\ lockX'[WAL_WRITE_LOCK] = c <=> lockX[WAL_WRITE_LOCK] = c
    BY <1>20 DEF LockI, Retry, ToScan, Goto, useWal
  <2>2. pc[c] \in TryPCs /\ pc'[c] \in TryPCs \cup {"hdr"}
    BY <1>20 DEF LockI, Retry, ToScan, Goto, useWal
  <2> QED
    BY <1>t, <2>1, <2>2
<1>21. CASE LoadMinFrame(c)
  BY <1>21 DEF LoadMinFrame, FirstFrame, Goto
<1>22. CASE CheckI(c)
  <2>1. CASE ~(MarkUnchanged(c) /\ HdrUnchanged(c))
    <3>1. /\ UNCHANGED <<aHdr, hist, hdr, changed, snap, cache, eMode>>
          /\ lockX' = lockX
      BY <1>22, <2>1 DEF CheckI, Retry, ToScan, Goto
    <3>2. pc[c] \in TryPCs /\ pc'[c] \in TryPCs \cup {"hdr"}
      BY <1>22, <2>1 DEF CheckI, Retry, ToScan, Goto
    <3> QED
      BY <1>t, <3>1, <3>2
  <2>2. CASE MarkUnchanged(c) /\ HdrUnchanged(c) /\ useWal(c)
    <3>1. /\ UNCHANGED <<aHdr, hist, hdr, changed, snap, cache, eMode, lockX>>
          /\ pc[c] = "checkI" /\ pc'[c] = "write" /\ lockX[WAL_WRITE_LOCK] = c
      BY <1>22, <2>2 DEF CheckI, Opened, useWal, Goto
    <3> QED
      BY <3>1
  <2>3. CASE MarkUnchanged(c) /\ HdrUnchanged(c) /\ ~useWal(c)
    <3>1. /\ UNCHANGED <<aHdr, hist, hdr, eMode, lockX>>
          /\ hdr[c] = aHdr[0] /\ pc'[c] = "read" /\ pc[c] = "checkI" /\ snap'[c] = Len(hist) /\ ~changed'[c]
      BY <1>22, <2>3 DEF CheckI, HdrUnchanged, Opened, useWal, Goto
    <3>2. cache'[c] = IF changed[c] \/ cache[c] = 0 THEN Len(hist) ELSE cache[c]
      BY <1>22, <2>3 DEF CheckI, HdrUnchanged, Opened, useWal, Goto
    <3>3. changed[c] \/ cache[c] = 0 \/ cache[c] = Len(hist)
      BY <3>1
    <3>4. cache'[c] = Len(hist)
      BY <3>2, <3>3
    <3> QED
      BY <3>1, <3>4
  <2> QED
    BY <2>1, <2>2, <2>3
<1>23. CASE WriteCheck(c)
  <2>1. /\ UNCHANGED <<aHdr, hist, hdr, changed, snap, cache, eMode>> /\ pc[c] = "writeCheck"
        /\ \/ pc'[c] = "write" /\ hdr[c] = aHdr[0]
           \/ pc'[c] = "read"
    BY <1>23 DEF WriteCheck, SnapshotIsCurrent, Goto
  <2> QED
    BY <2>1
<1>24. CASE RestartLog(c)
  BY <1>24 DEF RestartLog, Lock, LogReadLocks, CanRestart, CanLock, Goto
<1>25. CASE RestartLogEnd(c)
  BY <1>25 DEF RestartLogEnd, Unlock, Unshare, LogReadLocks, ToScan, Goto, CanRestart, CanLock
<1>26. CASE RestartHdr1(c)
  <2>1. /\ hdr'[c].isInit = hdr[c].isInit /\ hdr'[c].iChange = hdr[c].iChange
        /\ aHdr' = [aHdr EXCEPT ![1] = hdr'[c]]
    BY <1>26, RestartHdrFields DEF RestartHdr1
  <2> QED
    BY <1>26, <2>1 DEF RestartHdr1, Goto
<1>27. CASE RestartHdr0(c)
  <2>1. /\ UNCHANGED <<hist, hdr, changed, snap, cache, eMode, lockX>>
        /\ aHdr'[0] = hdr[c] /\ aHdr'[1] = aHdr[1] /\ pc[c] = "restart0"
        /\ pc'[c] = "restartBackfill"
    BY <1>27 DEF RestartHdr0, Goto
  <2>2. hdr[c].iChange = aHdr[0].iChange /\ hdr[c].isInit
    BY <2>1
  <2> QED
    BY <2>1, <2>2
<1>28. CASE RestartInfo(c)
  <2>1. UNCHANGED <<aHdr, hist, hdr, changed, snap, cache, eMode, lockX>>
    BY <1>28 DEF RestartInfo, RestartBackfill, RestartAttempted
  <2>2. \/ pc[c] = "restartBackfill" /\ pc'[c] = "restartAttempted"
        \/ pc[c] = "restartAttempted" /\ pc'[c] = "restartMarks"
    BY <1>28 DEF RestartInfo, RestartBackfill, RestartAttempted, Goto
  <2> QED
    BY <2>1, <2>2
<1>29. CASE RestartMarks(c)
  BY <1>29 DEF RestartMarks, Goto
<1>30. CASE Publish1(c)
  BY <1>30 DEF Publish1, Goto
<1>31. CASE Publish0(c)
  <2>1. Len(hist') = Len(hist) + 1
    BY <1>31, HistAppend DEF Publish0
  <2> QED
    BY <1>31, <2>1 DEF Publish0, Goto
<1>32. CASE EndWrite(c)
  BY <1>32 DEF EndWrite, Unlock, Goto
<1>33. CASE CkptWriter(c)
  BY <1>33 DEF CkptWriter, Lock, CanLock, Goto
<1>34. CASE CkptInfo(c)
  <2>1. UNCHANGED <<aHdr, hist, hdr, changed, snap, cache, eMode>>
    BY <1>34 DEF CkptInfo, Goto
  <2>2. pc[c] = "ckptInfo" /\ (pc'[c] = "ckptMarks" \/ pc'[c] = AfterCopy(c))
    BY <1>34 DEF CkptInfo, Goto
  <2> QED
    BY <2>1, <2>2 DEF AfterCopy
<1>35. CASE CkptMark(c)
  <2>1. UNCHANGED <<aHdr, hist, hdr, changed, snap, cache, eMode>>
    BY <1>35 DEF CkptMark, Goto
  <2>2. pc[c] = "ckptMarks" /\ (pc'[c] = "ckptMarks" \/ pc'[c] = "ckptMarkLock")
    BY <1>35 DEF CkptMark, Goto
  <2> QED
    BY <2>1, <2>2 DEF AfterCopy
<1>36. CASE CkptMarkBusy(c)
  BY <1>36 DEF CkptMarkBusy, SafeWithReader, CanLock, Goto
<1>37. CASE CkptMarkLock(c)
  BY <1>37 DEF CkptMarkLock, Lock, CanLock, Goto
<1>38. CASE CkptMarkSet(c)
  BY <1>38 DEF CkptMarkSet, Unlock, Goto
<1>39. CASE CkptLock0(c)
  <2>1. UNCHANGED <<aHdr, hist, hdr, changed, snap, cache, eMode>>
    BY <1>39 DEF CkptLock0, Goto
  <2>2. pc[c] = "ckptMarks" /\ (pc'[c] = "ckptCopy" \/ pc'[c] = AfterCopy(c))
    BY <1>39 DEF CkptLock0, Goto
  <2> QED
    BY <2>1, <2>2 DEF AfterCopy
<1>40. CASE CkptCopy(c)
  BY <1>40 DEF CkptCopy
<1>41. CASE CkptTruncateDb(c)
  BY <1>41 DEF CkptTruncateDb, Goto
<1>42. CASE CkptDone(c)
  BY <1>42 DEF CkptDone, Goto
<1>43. CASE CkptUnlock0(c)
  BY <1>43 DEF CkptUnlock0, Unlock, AfterCopy, Goto
<1>44. CASE CkptRestart(c)
  BY <1>44 DEF CkptRestart, Lock, CanLock, LogReadLocks, WantsRestart, AfterDrain, Goto
<1>45. CASE CkptNoRestart(c)
  BY <1>45 DEF CkptNoRestart, CanLock, LogReadLocks, WantsRestart, Goto
<1>46. CASE CkptTruncateLog(c)
  BY <1>46 DEF CkptTruncateLog, Goto
<1>47. CASE CkptUnlock(c)
  BY <1>47 DEF CkptUnlock, Unlock, LogReadLocks, Goto
<1>48. CASE CkptEnd(c)
  BY <1>48 DEF CkptEnd, HdrAfterCkpt, Unlock, Goto
<1>49. CASE BeginRead(c)
  BY <1>49 DEF BeginRead, Goto
<1>50. CASE ReadFails(c)
  BY <1>50 DEF ReadFails, Goto
<1>51. CASE EndRead(c)
  BY <1>51 DEF EndRead, Unshare, Goto
<1>52. CASE BeginWrite(c)
  BY <1>52 DEF BeginWrite, Lock, CanLock, Goto
<1>53. CASE WriteWalHdr(c)
  <2>1. hdr'[c].isInit = hdr[c].isInit /\ hdr'[c].iChange = hdr[c].iChange
    BY <1>53, WalHdrFields
  <2> QED
    BY <1>53, <2>1 DEF WriteWalHdr, Goto
<1>54. CASE Spill(c)
  <2>1. hdr'[c].isInit = hdr[c].isInit /\ hdr'[c].iChange = hdr[c].iChange
    BY <1>54, SpillFields
  <2> QED
    BY <1>54, <2>1 DEF Spill, InFrames, Goto
<1>55. CASE Commit(c)
  <2>1. hdr'[c].isInit = hdr[c].isInit /\ hdr'[c].iChange = hdr[c].iChange + 1
    BY <1>55, CommitFields
  <2>2. /\ UNCHANGED <<aHdr, hist, snap, cache, changed, lockX, eMode>>
        /\ pc[c] \in {"write", "frames"} /\ pc'[c] = "publish1"
    BY <1>55 DEF Commit, InFrames, Goto
  <2> QED
    BY <2>1, <2>2
<1>56. CASE Rollback(c)
  BY <1>56 DEF Rollback, TxnUsed, Unlock, Goto
<1>57. CASE BeginCkpt(c)
  BY <1>57 DEF BeginCkpt, Lock, CanLock, Goto
<1>58. CASE CkptInterrupt(c)
  BY <1>58 DEF CkptInterrupt, Unlock, Goto
<1> QED
  BY <1>1, <1>2, <1>3, <1>4, <1>5, <1>6, <1>7, <1>8, <1>9, <1>10, <1>11, <1>12, <1>13, <1>14, <1>15,
      <1>16, <1>17, <1>18, <1>19, <1>20, <1>21, <1>22, <1>23, <1>24, <1>25, <1>26, <1>27, <1>28,
      <1>29, <1>30, <1>31, <1>32, <1>33, <1>34, <1>35, <1>36, <1>37, <1>38, <1>39, <1>40, <1>41,
      <1>42, <1>43, <1>44, <1>45, <1>46, <1>47, <1>48, <1>49, <1>50, <1>51, <1>52, <1>53, <1>54,
      <1>55, <1>56, <1>57, <1>58, Zenon
     DEF Step, CallStep, HdrStep, ReadStep, WriteStep, CkptStep, UserStep

\* The steps that store a header or a version, and the places they are at.
LEMMA StoreStep ==
    ASSUME NEW c \in Conn, Step(c), NoRecovery(c), ~HdrLock(c),
           ~(RestartHdr1(c) \/ Publish1(c) \/ RestartHdr0(c) \/ Publish0(c))
    PROVE  /\ aHdr' = aHdr /\ hist' = hist
           /\ pc[c] \notin {"publish1", "publish0", "restart1", "restart0"}
<1>1. ~(RecoverScan(c) \/ RecoverHdr(c))
  BY DEF NoRecovery, RecPCs, RecoverScan, RecoverHdr
<1> USE DEF fileVars, shmVars, commitVars
<1>2. CASE HdrStep(c)
  <2>1. aHdr' = aHdr /\ hist' = hist
    BY <1>1, <1>2, Zenon DEF HdrStep, ReadHdr, HdrLock, HdrRetry, RecoverLock, RecoverBusy,
       CkptHdrBusy, RecoverInfo, RecoverBackfill, RecoverAttempted, RecoverMarkLock, RecoverMarkSet, RecoverEnd
  <2>2. pc[c] \notin {"publish1", "publish0", "restart1", "restart0"}
    BY <1>1, <1>2 DEF HdrStep, ReadHdr, HdrLock, HdrRetry, RecoverLock, RecoverBusy, CkptHdrBusy,
       RecoverInfo, RecoverBackfill, RecoverAttempted, RecoverMarkLock, RecoverMarkSet, RecoverEnd
  <2> QED
    BY <2>1, <2>2
<1>3. CASE ReadStep(c)
  <2>1. aHdr' = aHdr /\ hist' = hist
    BY <1>1, <1>3, Zenon DEF ReadStep, CheckBackfill, Lock0, Check0, ScanMark, RaiseLock, RaiseBusy,
       RaiseSet, LockI, LoadMinFrame, CheckI
  <2>2. pc[c] \notin {"publish1", "publish0", "restart1", "restart0"}
    BY <1>1, <1>3 DEF ReadStep, CheckBackfill, Lock0, Check0, ScanMark, RaiseLock, RaiseBusy,
       RaiseSet, LockI, LoadMinFrame, CheckI
  <2> QED
    BY <2>1, <2>2
<1>4. CASE WriteStep(c)
  <2>1. aHdr' = aHdr /\ hist' = hist
    BY <1>1, <1>4, Zenon DEF WriteStep, WriteCheck, RestartLog, RestartLogEnd, RestartInfo, RestartBackfill, RestartAttempted,
       RestartMarks, EndWrite
  <2>2. pc[c] \notin {"publish1", "publish0", "restart1", "restart0"}
    BY <1>1, <1>4 DEF WriteStep, WriteCheck, RestartLog, RestartLogEnd, RestartInfo, RestartBackfill, RestartAttempted, RestartMarks,
       EndWrite
  <2> QED
    BY <2>1, <2>2
<1>5. CASE CkptStep(c)
  <2>1. aHdr' = aHdr /\ hist' = hist
    BY <1>1, <1>5, Zenon DEF CkptStep, CkptWriter, CkptInfo, CkptMark, CkptMarkBusy, CkptMarkLock,
       CkptMarkSet, CkptLock0, CkptCopy, CkptTruncateDb, CkptDone, CkptUnlock0, CkptRestart,
       CkptNoRestart, CkptTruncateLog, CkptUnlock, CkptEnd
  <2>2. pc[c] \notin {"publish1", "publish0", "restart1", "restart0"}
    BY <1>1, <1>5 DEF CkptStep, CkptWriter, CkptInfo, CkptMark, CkptMarkBusy, CkptMarkLock,
       CkptMarkSet, CkptLock0, CkptCopy, CkptTruncateDb, CkptDone, CkptUnlock0, CkptRestart,
       CkptNoRestart, CkptTruncateLog, CkptUnlock, CkptEnd
  <2> QED
    BY <2>1, <2>2
<1>6. CASE UserStep(c)
  <2>1. aHdr' = aHdr /\ hist' = hist
    BY <1>1, <1>6, Zenon DEF UserStep, BeginRead, ReadFails, EndRead, BeginWrite, WriteWalHdr,
       Spill, Commit, Rollback, BeginCkpt, CkptInterrupt
  <2>2. pc[c] \notin {"publish1", "publish0", "restart1", "restart0"}
    BY <1>1, <1>6 DEF UserStep, BeginRead, ReadFails, EndRead, BeginWrite, WriteWalHdr, Spill,
       Commit, Rollback, BeginCkpt, CkptInterrupt, InFrames
  <2> QED
    BY <2>1, <2>2
<1> QED
  BY <1>2, <1>3, <1>4, <1>5, <1>6 DEF Step, CallStep

\* A header that is about to be stored is not older than the one it replaces.
LEMMA StoredAge ==
    ASSUME NEW c \in Conn, Own(c), ModeControl(c), HdrAge(c), ShmTypes, HdrTypes,
           pc[c] \in {"restart0", "publish0"}
    PROVE  hdr[c].iChange >= aHdr[0].iChange
<1>1. hdr[c].iChange \in Nat /\ aHdr[0].iChange \in Nat
  BY DEF ShmTypes, HdrTypes, Header
<1>2. CASE pc[c] = "publish0"
  BY <1>1, <1>2 DEF HdrAge
<1>3. CASE pc[c] = "restart0"
  BY <1>1, <1>3 DEF HdrAge, InWrite, InFullCkpt, bWriteLock, InCkpt, RestartPCs, ModeControl
<1> QED
  BY <1>2, <1>3

\* No step of a connection counts a crash.
LEMMA CrashCount ==
    ASSUME NEW c \in Conn, Step(c)
    PROVE  nCrash' = nCrash
  BY Zenon DEF Step, CallStep, HdrStep, ReadStep, WriteStep, CkptStep, UserStep, fileVars,
      shmVars, infoVars, lockVars, hdrVars, readVars, ckptVars, commitVars, viewVars, ReadHdr,
      HdrLock, HdrRetry, RecoverLock, RecoverBusy, CkptHdrBusy, RecoverScan, RecoverHdr,
      RecoverInfo, RecoverBackfill, RecoverAttempted, RecoverMarkLock, RecoverMarkSet, RecoverEnd, CheckBackfill, Lock0, Check0,
      ScanMark, RaiseLock, RaiseBusy, RaiseSet, LockI, LoadMinFrame, CheckI, WriteCheck, RestartLog,
      RestartLogEnd, RestartHdr1, RestartHdr0, RestartInfo, RestartBackfill, RestartAttempted, RestartMarks, Publish1, Publish0,
      EndWrite, CkptWriter, CkptInfo, CkptMark, CkptMarkBusy, CkptMarkLock, CkptMarkSet, CkptLock0,
      CkptCopy, CkptTruncateDb, CkptDone, CkptUnlock0, CkptRestart, CkptNoRestart, CkptTruncateLog,
      CkptUnlock, CkptEnd, BeginRead, ReadFails, EndRead, BeginWrite, WriteWalHdr, Spill, Commit,
      Rollback, BeginCkpt, CkptInterrupt

\* The other connections keep their caches.
LEMMA CacheFrame ==
    ASSUME NEW c \in Conn, Step(c), HdrTypes, HistTypes
    PROVE  \A d \in Conn \ {c} : cache'[d] = cache[d] /\ changed'[d] = changed[d]
<1> USE DEF HdrTypes, HistTypes, hdrVars, viewVars
<1>1. CASE ReadHdr(c)
  BY <1>1 DEF ReadHdr, walIndexTryHdr
<1>2. CASE HdrRetry(c)
  BY <1>2 DEF HdrRetry, walIndexTryHdr
<1>3. CASE RecoverBusy(c)
  BY <1>3 DEF RecoverBusy
<1>4. CASE ReadFails(c)
  BY <1>4 DEF ReadFails
<1>5. CASE RecoverScan(c)
  BY <1>5 DEF RecoverScan
<1>6. CASE Check0(c)
  BY <1>6 DEF Check0, Opened
<1>7. CASE CheckI(c)
  BY <1>7 DEF CheckI, Opened
<1>8. CASE EndRead(c)
  BY <1>8 DEF EndRead
<1>9. CASE Publish0(c)
  BY <1>9 DEF Publish0
<1>10. CASE CkptEnd(c)
  BY <1>10 DEF CkptEnd
<1>11. CASE ~(ReadHdr(c) \/ HdrRetry(c) \/ RecoverBusy(c) \/ ReadFails(c) \/ RecoverScan(c)
              \/ Check0(c) \/ CheckI(c) \/ EndRead(c) \/ Publish0(c) \/ CkptEnd(c))
  <2>1. UNCHANGED <<cache, changed>>
    BY <1>11, Zenon DEF Step, CallStep, HdrStep, ReadStep, WriteStep, CkptStep, UserStep, fileVars,
      shmVars, infoVars, lockVars, hdrVars, readVars, ckptVars, commitVars, viewVars, HdrLock,
      RecoverLock, CkptHdrBusy, RecoverHdr, RecoverInfo, RecoverBackfill, RecoverAttempted, RecoverMarkLock, RecoverMarkSet,
      RecoverEnd, CheckBackfill, Lock0, ScanMark, RaiseLock, RaiseBusy, RaiseSet, LockI,
      LoadMinFrame, WriteCheck, RestartLog, RestartLogEnd, RestartHdr1, RestartHdr0, RestartInfo, RestartBackfill, RestartAttempted,
      RestartMarks, Publish1, EndWrite, CkptWriter, CkptInfo, CkptMark, CkptMarkBusy, CkptMarkLock,
      CkptMarkSet, CkptLock0, CkptCopy, CkptTruncateDb, CkptDone, CkptUnlock0, CkptRestart,
      CkptNoRestart, CkptTruncateLog, CkptUnlock, BeginRead, BeginWrite, WriteWalHdr, Spill, Commit,
      Rollback, BeginCkpt, CkptInterrupt
  <2> QED
    BY <2>1
<1> QED
  BY <1>1, <1>2, <1>3, <1>4, <1>5, <1>6, <1>7, <1>8, <1>9, <1>10, <1>11

\* What has two copies in shared memory agrees again after a store of both.
LEMMA GoodHdrsStep ==
    ASSUME IInv, VersionInv, NEW c \in Conn, Step(c)
    PROVE  GoodHdrs'
<1> USE DEF IInv, TypeOK, VersionInv
<1>0. /\ ~HdrLock(c) /\ ControlTypes /\ ShmTypes /\ Own(c) /\ NoRecovery(c) /\ HdrTypes /\ HistTypes
      /\ TxnInv(c) /\ aHdr[0].isInit
  BY NobodyRecovers, IInvByConn DEF ConnInv, GoodHdrs
<1>1. aHdr'[0].isInit
  BY <1>0, OwnVersion
<1>2. CASE RestartHdr1(c) \/ Publish1(c)
  BY <1>0, <1>1, <1>2 DEF RestartHdr1, Publish1, Goto, ControlTypes, GoodHdrs
<1>3. CASE RestartHdr0(c) \/ Publish0(c)
  BY <1>0, <1>1, <1>3 DEF RestartHdr0, Publish0, NoRecovery, ShmTypes, GoodHdrs
<1>4. CASE ~(RestartHdr1(c) \/ Publish1(c) \/ RestartHdr0(c) \/ Publish0(c))
  <2>1. aHdr' = aHdr
    BY <1>0, <1>4, StoreStep
  <2>2. pc[c] \notin {"publish0", "restart0"} /\ \A d \in Conn \ {c} : pc'[d] = pc[d]
    BY <1>0, <1>4, StoreStep, LocksOfOthers
  <2> QED
    BY <1>1, <2>1, <2>2 DEF GoodHdrs
<1> QED
  BY <1>2, <1>3, <1>4

\* What another connection d stands for is not touched by a step of c.
LEMMA OthersVersion ==
    ASSUME IInv, VersionInv, NEW c \in Conn, Step(c), NEW d \in Conn \ {c}
    PROVE  NoRecovery(d)' /\ ModeControl(d)' /\ HdrAge(d)' /\ SnapAge(d)' /\ CacheAge(d)'
<1>0. /\ ~HdrLock(c) /\ FileTypes /\ ShmTypes /\ ControlTypes /\ HdrTypes /\ ReadTypes /\ CkptTypes
      /\ HistTypes /\ Own(c) /\ Own(d) /\ TxnInv(c) /\ NoRecovery(c)
      /\ ModeControl(c) /\ HdrAge(c)
      /\ NoRecovery(d) /\ ModeControl(d) /\ HdrAge(d) /\ SnapAge(d) /\ CacheAge(d)
  BY NobodyRecovers, IInvByConn DEF ConnInv, IInv, TypeOK, VersionInv
<1>1. /\ pc'[d] = pc[d] /\ eMode'[d] = eMode[d]
      /\ lockX'[WAL_WRITE_LOCK] = d <=> lockX[WAL_WRITE_LOCK] = d
  BY <1>0, LocksOfOthers, LockNumbers
<1>2. hdr'[d] = hdr[d] /\ snap'[d] = snap[d]
  BY <1>0, OthersFrame
<1>3. cache'[d] = cache[d] /\ changed'[d] = changed[d]
  BY <1>0, CacheFrame
<1>4. /\ InWrite(d)' <=> InWrite(d)
      /\ InFullCkpt(d)' <=> InFullCkpt(d)
  BY <1>1 DEF InWrite, InFullCkpt, bWriteLock, InCkpt
<1>5. lockX[WAL_WRITE_LOCK] = d => aHdr' = aHdr /\ hist' = hist
  <2>1. CASE RestartHdr1(c) \/ Publish1(c) \/ RestartHdr0(c) \/ Publish0(c)
    BY <1>0, <2>1, LocksOfData DEF WriterPCs, WritePCs, RestartPCs, RestartHdr1, Publish1, RestartHdr0, Publish0
  <2>2. CASE ~(RestartHdr1(c) \/ Publish1(c) \/ RestartHdr0(c) \/ Publish0(c))
    BY <1>0, <2>2, StoreStep
  <2> QED
    BY <2>1, <2>2
<1>6. InWrite(d) \/ InFullCkpt(d) \/ pc[d] \in {"publish1", "publish0", "restart0"} =>
         aHdr' = aHdr /\ hist' = hist
  BY <1>0, <1>5, LocksOfData DEF InFullCkpt, WriterPCs, WritePCs, RestartPCs, Own, WriterLock
<1>7. aHdr[0].iChange <= aHdr'[0].iChange
  <2>1. CASE RestartHdr0(c) \/ Publish0(c)
    <3>1. aHdr'[0] = hdr[c] /\ pc[c] \in {"restart0", "publish0"}
      BY <1>0, <2>1 DEF RestartHdr0, Publish0, ShmTypes
    <3>2. hdr[c].iChange >= aHdr[0].iChange
      BY <1>0, <3>1, StoredAge
    <3> QED
      BY <3>1, <3>2
  <2>2. CASE RestartHdr1(c) \/ Publish1(c)
    <3>1. aHdr'[0] = aHdr[0]
      BY <1>0, <2>2 DEF RestartHdr1, Publish1, ShmTypes
    <3> QED
      BY <1>0, <3>1 DEF ShmTypes, Header
  <2>3. CASE ~(RestartHdr1(c) \/ Publish1(c) \/ RestartHdr0(c) \/ Publish0(c))
    BY <1>0, <2>3, StoreStep DEF ShmTypes, Header
  <2> QED
    BY <2>1, <2>2, <2>3
<1>8. hdr[d].iChange \in Nat /\ aHdr[0].iChange \in Nat /\ aHdr'[0].iChange \in Nat
  <2>1. ShmTypes'
    BY ConnStep DEF IInv, TypeOK
  <2> QED
    BY <1>0, <2>1 DEF ShmTypes, HdrTypes, Header
<1>9. NoRecovery(d)' /\ ModeControl(d)'
  BY <1>0, <1>1, <1>2, <1>6 DEF NoRecovery, ModeControl
<1>10. HdrAge(d)'
  BY <1>0, <1>1, <1>2, <1>4, <1>6, <1>7, <1>8 DEF HdrAge
<1>11. SnapAge(d)'
  BY <1>0, <1>1, <1>2, <1>4, <1>6 DEF SnapAge
<1>12. CacheAge(d)'
  BY <1>0, <1>1, <1>2, <1>3, <1>4 DEF CacheAge
<1> QED
  BY <1>9, <1>10, <1>11, <1>12

\* VersionInv is kept by the step of a connection.
LEMMA VersionStep ==
    ASSUME IInv, VersionInv, NEW c \in Conn, Step(c)
    PROVE  VersionInv'
<1>0. /\ ~HdrLock(c) /\ ControlTypes /\ ShmTypes /\ HdrTypes /\ HistTypes /\ Own(c) /\ TxnInv(c)
      /\ aHdr[0].isInit /\ HdrCounts /\ NoRecovery(c) /\ ModeControl(c) /\ HdrAge(c) /\ SnapAge(c)
      /\ CacheAge(c)
  BY NobodyRecovers, IInvByConn DEF ConnInv, IInv, TypeOK, VersionInv, GoodHdrs
<1>1. HdrCounts' /\ NoRecovery(c)' /\ ModeControl(c)' /\ HdrAge(c)' /\ SnapAge(c)' /\ CacheAge(c)'
  BY <1>0, OwnVersion
<1>2. GoodHdrs'
  BY GoodHdrsStep
<1>3. \A d \in Conn \ {c} :
         NoRecovery(d)' /\ ModeControl(d)' /\ HdrAge(d)' /\ SnapAge(d)' /\ CacheAge(d)'
  BY OthersVersion
<1>4. \A d \in Conn : NoRecovery(d)' /\ ModeControl(d)' /\ HdrAge(d)' /\ SnapAge(d)' /\ CacheAge(d)'
  BY <1>1, <1>3
<1> QED
  BY <1>1, <1>2, <1>4 DEF VersionInv

(***************************************************************************)
(* The invariant                                                           *)
(***************************************************************************)
\* VersionInv, as long as no process has been killed.
VersionsUntilCrash == nCrash = 0 => VersionInv

\* It holds at first,
LEMMA VersionInit == Init => VersionsUntilCrash
<1> SUFFICES ASSUME Init PROVE VersionInv
  BY DEF VersionsUntilCrash
<1>1. /\ aHdr[0] = aHdr[1] /\ aHdr[0].isInit /\ aHdr[0].iChange = 0
      /\ \A c \in Conn : /\ pc[c] = "idle" /\ hdr[c] = ZeroHdr /\ eMode[c] = "NONE"
                           /\ snap[c] = 0 /\ cache[c] = 0
  BY DEF Init, ZeroHdr
<1>2. Len(hist) = 1
  BY DEF Init
<1>3. ZeroHdr.iChange = 0 /\ ~ZeroHdr.isInit
  BY DEF ZeroHdr
<1> QED
  BY <1>1, <1>2, <1>3 DEF VersionInv, GoodHdrs, HdrCounts, NoRecovery, ModeControl, HdrAge, SnapAge, CacheAge,
     InWrite, InFullCkpt, bWriteLock, InCkpt, RecPCs, WritePCs, TryPCs, RestartPCs, CkptPCs

\* and is kept by every step.
LEMMA VersionNext ==
    ASSUME IInv, VersionsUntilCrash, [Next]_vars
    PROVE  VersionsUntilCrash'
<1> SUFFICES ASSUME nCrash' = 0 PROVE VersionInv'
  BY DEF VersionsUntilCrash
<1>n. nCrash \in Nat
  BY BoundAssumption DEF IInv, TypeOK, HistTypes
<1>1. ASSUME NEW c \in Conn, Step(c) PROVE VersionInv'
  <2>1. nCrash' = nCrash
    BY <1>1, CrashCount
  <2> QED
    BY <1>1, <2>1, VersionStep DEF VersionsUntilCrash
<1>2. ASSUME NEW c \in Conn, Crash(c) PROVE FALSE
  BY <1>2, <1>n DEF Crash
<1>3. CASE CrashAll
  BY <1>3, <1>n DEF CrashAll
<1>4. CASE UNCHANGED vars
  <2>1. VersionInv
    BY <1>4 DEF VersionsUntilCrash, vars
  <2> QED
    BY <1>4, <2>1 DEF VersionInv, GoodHdrs, HdrCounts, NoRecovery, ModeControl, HdrAge, SnapAge, CacheAge,
       InWrite, InFullCkpt, bWriteLock, InCkpt, vars, shmVars, lockVars, hdrVars, ckptVars, commitVars, viewVars
<1> QED
  BY <1>1, <1>2, <1>3, <1>4 DEF Next, Step

\* Until a process is killed, headers, versions and caches go together.
THEOREM VersionInvariant == Spec => []VersionsUntilCrash
<1> QED
  BY VersionInit, VersionNext, InductiveInvariant, PTL DEF Spec

(***************************************************************************)
(* Theorems                                                                *)
(***************************************************************************)
\* Until a process is killed, a write transaction builds on the newest
\* version, however many connections read, write, restart the log and
\* checkpoint: the header that sqlite3WalBeginWriteTransaction compares
\* differs as soon as another connection has committed.
THEOREM NoLostUpdateUntilCrash == Spec => [](nCrash = 0 => NoLostUpdate)
<1>1. IInv /\ VersionsUntilCrash => (nCrash = 0 => NoLostUpdate)
  BY DEF VersionsUntilCrash, VersionInv, SnapAge, NoLostUpdate, InWrite, WritePCs
<1> QED
  BY <1>1, InductiveInvariant, VersionInvariant, PTL

\* Until a process is killed, a page cache that the pager keeps holds the
\* version that the transaction reads: every commit of another connection
\* changes the header (pChanged of sqlite3WalBeginReadTransaction), and a
\* checkpoint forgets a header that the cache does not know of.
THEOREM CacheIsFreshUntilCrash == Spec => [](nCrash = 0 => CacheIsFresh)
<1>1. VersionsUntilCrash => (nCrash = 0 => CacheIsFresh)
  BY DEF VersionsUntilCrash, VersionInv, CacheAge, CacheIsFresh, InWrite, WritePCs
<1> QED
  BY <1>1, VersionInvariant, PTL

(***************************************************************************)
(* Which steps change what                                                 *)
(***************************************************************************)
\* A step that is no part of a recovery.
LiveStep(c) ==
    \/ ReadHdr(c) \/ CkptHdrBusy(c) \/ CheckBackfill(c) \/ Lock0(c) \/ Check0(c)
    \/ ScanMark(c) \/ RaiseLock(c) \/ RaiseBusy(c) \/ RaiseSet(c) \/ LockI(c)
    \/ LoadMinFrame(c) \/ CheckI(c) \/ WriteCheck(c) \/ RestartLog(c) \/ RestartLogEnd(c)
    \/ RestartHdr1(c) \/ RestartHdr0(c) \/ RestartInfo(c) \/ RestartMarks(c) \/ Publish1(c)
    \/ Publish0(c) \/ EndWrite(c) \/ CkptWriter(c) \/ CkptInfo(c) \/ CkptMark(c)
    \/ CkptMarkBusy(c) \/ CkptMarkLock(c) \/ CkptMarkSet(c) \/ CkptLock0(c) \/ CkptCopy(c)
    \/ CkptTruncateDb(c) \/ CkptDone(c) \/ CkptUnlock0(c) \/ CkptRestart(c)
    \/ CkptNoRestart(c) \/ CkptTruncateLog(c) \/ CkptUnlock(c) \/ CkptEnd(c) \/ BeginRead(c)
    \/ ReadFails(c) \/ EndRead(c) \/ BeginWrite(c) \/ WriteWalHdr(c) \/ Spill(c)
    \/ Commit(c) \/ Rollback(c) \/ BeginCkpt(c) \/ CkptInterrupt(c)

\* Nobody has to recover.
LEMMA OnlyLive ==
    ASSUME NEW c \in Conn, Step(c), NoRecovery(c), ~HdrLock(c)
    PROVE  LiveStep(c)
<1>1. ~(HdrRetry(c) \/ RecoverLock(c) \/ RecoverBusy(c) \/ RecoverScan(c) \/ RecoverHdr(c)
        \/ RecoverInfo(c) \/ RecoverMarkLock(c) \/ RecoverMarkSet(c) \/ RecoverEnd(c))
  BY DEF NoRecovery, RecPCs, HdrRetry, RecoverLock, RecoverBusy, RecoverScan, RecoverHdr, RecoverInfo, RecoverBackfill, RecoverAttempted,
     RecoverMarkLock, RecoverMarkSet, RecoverEnd
<1> QED
  BY <1>1, Zenon DEF LiveStep, Step, CallStep, HdrStep, ReadStep, WriteStep, CkptStep, UserStep

\* The steps that change a variable.
Changes(c) ==
    /\ \/ hdr' = hdr \/ ReadHdr(c) \/ EndRead(c) \/ RestartHdr1(c) \/ WriteWalHdr(c)
       \/ Spill(c) \/ Commit(c) \/ Rollback(c) \/ CkptEnd(c)
    /\ aHdr' = aHdr \/ RestartHdr1(c) \/ RestartHdr0(c) \/ Publish1(c) \/ Publish0(c)
    /\ nBackfill' = nBackfill \/ RestartBackfill(c) \/ CkptDone(c)
    /\ nBackfillAttempted' = nBackfillAttempted \/ RestartAttempted(c) \/ CkptLock0(c)
    /\ aReadMark' = aReadMark \/ RaiseSet(c) \/ RestartMarks(c) \/ CkptMarkSet(c)
    /\ db' = db \/ CkptCopy(c) \/ CkptTruncateDb(c)
    /\ log' = log \/ Spill(c) \/ Commit(c) \/ CkptTruncateLog(c)
    /\ readLock' = readLock \/ Check0(c) \/ CheckI(c) \/ EndRead(c) \/ RestartLogEnd(c)
    /\ lockS' = lockS \/ Lock0(c) \/ Check0(c) \/ LockI(c) \/ CheckI(c) \/ EndRead(c) \/ RestartLogEnd(c)
    /\ minFrame' = minFrame \/ LoadMinFrame(c) \/ CheckI(c) \/ EndRead(c)
    /\ hist' = hist \/ Publish0(c)
    /\ snap' = snap \/ Check0(c) \/ CheckI(c) \/ EndRead(c) \/ Publish0(c)
    /\ work' = work \/ WriteCheck(c) \/ Spill(c) \/ EndWrite(c) \/ Rollback(c)
    /\ pend' = pend \/ Spill(c) \/ Commit(c)
    /\ txn' = txn \/ WriteCheck(c) \/ Rollback(c)
    /\ y' = y \/ CkptMark(c) \/ CkptMarkBusy(c) \/ CkptMarkSet(c)
    /\ mxSafeFrame' = mxSafeFrame \/ CkptInfo(c) \/ CkptMarkBusy(c) \/ CkptEnd(c)
    /\ todo' = todo \/ CkptLock0(c) \/ CkptCopy(c) \/ CkptInterrupt(c)

\* Every other step leaves it alone.
LEMMA StepChanges ==
    ASSUME NEW c \in Conn, LiveStep(c)
    PROVE  Changes(c)
<1> USE DEF fileVars, shmVars, infoVars, lockVars, hdrVars, readVars, ckptVars, commitVars, viewVars
<1>1. CASE ReadHdr(c)
  BY <1>1, Zenon DEF Changes, ReadHdr, walIndexTryHdr
<1>2. CASE CkptHdrBusy(c)
  BY <1>2, Zenon DEF Changes, CkptHdrBusy
<1>3. CASE CheckBackfill(c)
  BY <1>3, Zenon DEF Changes, CheckBackfill, ToScan
<1>4. CASE Lock0(c)
  BY <1>4, Zenon DEF Changes, Lock0, ToScan
<1>5. CASE Check0(c)
  BY <1>5, Zenon DEF Changes, Check0, Opened
<1>6. CASE ScanMark(c)
  BY <1>6, Zenon DEF Changes, ScanMark
<1>7. CASE RaiseLock(c)
  BY <1>7, Zenon DEF Changes, RaiseLock
<1>8. CASE RaiseBusy(c)
  BY <1>8, Zenon DEF Changes, RaiseBusy, ToScan
<1>9. CASE RaiseSet(c)
  BY <1>9, Zenon DEF Changes, RaiseSet
<1>10. CASE LockI(c)
  BY <1>10, Zenon DEF Changes, LockI, ToScan
<1>11. CASE LoadMinFrame(c)
  BY <1>11, Zenon DEF Changes, LoadMinFrame
<1>12. CASE CheckI(c)
  BY <1>12, Zenon DEF Changes, CheckI, Opened, Retry, ToScan
<1>13. CASE WriteCheck(c)
  BY <1>13, Zenon DEF Changes, WriteCheck
<1>14. CASE RestartLog(c)
  BY <1>14, Zenon DEF Changes, RestartLog
<1>15. CASE RestartLogEnd(c)
  BY <1>15, Zenon DEF Changes, RestartLogEnd, ToScan
<1>16. CASE RestartHdr1(c)
  BY <1>16, Zenon DEF Changes, RestartHdr1
<1>17. CASE RestartHdr0(c)
  BY <1>17, Zenon DEF Changes, RestartHdr0
<1>18. CASE RestartInfo(c)
  BY <1>18, Zenon DEF Changes, RestartInfo, RestartBackfill, RestartAttempted
<1>19. CASE RestartMarks(c)
  BY <1>19, Zenon DEF Changes, RestartMarks
<1>20. CASE Publish1(c)
  BY <1>20, Zenon DEF Changes, Publish1
<1>21. CASE Publish0(c)
  BY <1>21, Zenon DEF Changes, Publish0
<1>22. CASE EndWrite(c)
  BY <1>22, Zenon DEF Changes, EndWrite
<1>23. CASE CkptWriter(c)
  BY <1>23, Zenon DEF Changes, CkptWriter
<1>24. CASE CkptInfo(c)
  BY <1>24, Zenon DEF Changes, CkptInfo
<1>25. CASE CkptMark(c)
  BY <1>25, Zenon DEF Changes, CkptMark
<1>26. CASE CkptMarkBusy(c)
  BY <1>26, Zenon DEF Changes, CkptMarkBusy
<1>27. CASE CkptMarkLock(c)
  BY <1>27, Zenon DEF Changes, CkptMarkLock
<1>28. CASE CkptMarkSet(c)
  BY <1>28, Zenon DEF Changes, CkptMarkSet
<1>29. CASE CkptLock0(c)
  BY <1>29, Zenon DEF Changes, CkptLock0
<1>30. CASE CkptCopy(c)
  BY <1>30, Zenon DEF Changes, CkptCopy
<1>31. CASE CkptTruncateDb(c)
  BY <1>31, Zenon DEF Changes, CkptTruncateDb
<1>32. CASE CkptDone(c)
  BY <1>32, Zenon DEF Changes, CkptDone
<1>33. CASE CkptUnlock0(c)
  BY <1>33, Zenon DEF Changes, CkptUnlock0
<1>34. CASE CkptRestart(c)
  BY <1>34, Zenon DEF Changes, CkptRestart
<1>35. CASE CkptNoRestart(c)
  BY <1>35, Zenon DEF Changes, CkptNoRestart
<1>36. CASE CkptTruncateLog(c)
  BY <1>36, Zenon DEF Changes, CkptTruncateLog
<1>37. CASE CkptUnlock(c)
  BY <1>37, Zenon DEF Changes, CkptUnlock
<1>38. CASE CkptEnd(c)
  BY <1>38, Zenon DEF Changes, CkptEnd
<1>39. CASE BeginRead(c)
  BY <1>39, Zenon DEF Changes, BeginRead
<1>40. CASE ReadFails(c)
  BY <1>40, Zenon DEF Changes, ReadFails
<1>41. CASE EndRead(c)
  BY <1>41, Zenon DEF Changes, EndRead
<1>42. CASE BeginWrite(c)
  BY <1>42, Zenon DEF Changes, BeginWrite
<1>43. CASE WriteWalHdr(c)
  BY <1>43, Zenon DEF Changes, WriteWalHdr
<1>44. CASE Spill(c)
  BY <1>44, Zenon DEF Changes, Spill
<1>45. CASE Commit(c)
  BY <1>45, Zenon DEF Changes, Commit
<1>46. CASE Rollback(c)
  BY <1>46, Zenon DEF Changes, Rollback
<1>47. CASE BeginCkpt(c)
  BY <1>47, Zenon DEF Changes, BeginCkpt
<1>48. CASE CkptInterrupt(c)
  BY <1>48, Zenon DEF Changes, CkptInterrupt
<1> QED
  BY <1>1, <1>2, <1>3, <1>4, <1>5, <1>6, <1>7, <1>8, <1>9, <1>10, <1>11, <1>12, <1>13, <1>14, <1>15,
      <1>16, <1>17, <1>18, <1>19, <1>20, <1>21, <1>22, <1>23, <1>24, <1>25, <1>26, <1>27, <1>28,
      <1>29, <1>30, <1>31, <1>32, <1>33, <1>34, <1>35, <1>36, <1>37, <1>38, <1>39, <1>40, <1>41,
      <1>42, <1>43, <1>44, <1>45, <1>46, <1>47, <1>48, Zenon DEF LiveStep

\* The steps that lead to a place.
Arrives(c) ==
    /\ pc'[c] = "ckptInfo" => ReadHdr(c)
    /\ pc'[c] \in CopyPCs =>
          \/ CkptInfo(c) \/ CkptMark(c) \/ CkptMarkBusy(c) \/ CkptMarkLock(c)
          \/ CkptMarkSet(c) \/ CkptLock0(c) \/ CkptCopy(c) \/ CkptTruncateDb(c)
    /\ pc'[c] \in {"ckptCopy", "ckptDone"} => CkptLock0(c) \/ CkptCopy(c) \/ CkptTruncateDb(c)
    /\ pc'[c] # "recAttempted"
    /\ pc'[c] = "restart1" => RestartLog(c) \/ CkptRestart(c)
    /\ pc'[c] = "restart0" => RestartHdr1(c)
    /\ pc'[c] = "restartBackfill" => RestartHdr0(c)
    /\ pc'[c] = "restartAttempted" => RestartBackfill(c)
    /\ pc'[c] = "publish1" => Commit(c)
    /\ pc'[c] = "publish0" => Publish1(c)
    /\ pc'[c] = "lock0" => CheckBackfill(c)
    /\ pc'[c] = "check0" => Lock0(c)
    /\ pc'[c] = "minFrame" => LockI(c)
    /\ pc'[c] = "checkI" => LoadMinFrame(c)
    /\ pc'[c] = "read" => Check0(c) \/ CheckI(c) \/ WriteCheck(c) \/ EndWrite(c) \/ Rollback(c)
    /\ pc'[c] = "writeCheck" => BeginWrite(c)
    /\ pc'[c] = "write" => WriteCheck(c) \/ Check0(c) \/ CheckI(c) \/ Spill(c)
    /\ pc'[c] = "frames" => WriteWalHdr(c)
    /\ pc'[c] = "endWrite" => Publish0(c)
    /\ pc'[c] \in TryPCs \ {"backfill", "lock0", "check0"} =>
          \/ CheckBackfill(c) \/ Lock0(c) \/ ScanMark(c) \/ RaiseLock(c) \/ RaiseBusy(c) \/ RaiseSet(c)
          \/ LockI(c) \/ LoadMinFrame(c) \/ CheckI(c) \/ RestartLogEnd(c)
    /\ pc[c] = "restartBackfill" => RestartBackfill(c)
    /\ pc[c] = "restartAttempted" => RestartAttempted(c)
    /\ pc[c] \in {"publish1", "publish0", "endWrite"} => pc'[c] \in {"publish0", "endWrite", "read"}

\* There is no other way to it.
LEMMA StepArrives ==
    ASSUME NEW c \in Conn, LiveStep(c), ControlTypes
    PROVE  Arrives(c)
<1> USE DEF ControlTypes, CopyPCs, TryPCs
<1>1. CASE ReadHdr(c)
  <2>1. pc[c] = "hdr" /\ pc'[c] \in {"ckptInfo", "backfill"}
    BY <1>1 DEF ReadHdr, AfterHdr, Goto
  <2> QED
    BY <1>1, <2>1 DEF Arrives
<1>2. CASE CkptHdrBusy(c)
  <2>1. pc[c] = "hdr" /\ pc'[c] = "ckptEnd"
    BY <1>2 DEF CkptHdrBusy, Goto
  <2> QED
    BY <1>2, <2>1 DEF Arrives
<1>3. CASE CheckBackfill(c)
  <2>1. pc[c] = "backfill" /\ pc'[c] \in {"lock0", "scan"}
    BY <1>3 DEF CheckBackfill, ToScan, Goto
  <2> QED
    BY <1>3, <2>1 DEF Arrives
<1>4. CASE Lock0(c)
  <2>1. pc[c] = "lock0" /\ pc'[c] \in {"check0", "scan"}
    BY <1>4 DEF Lock0, ToScan, Goto
  <2> QED
    BY <1>4, <2>1 DEF Arrives
<1>5. CASE Check0(c)
  <2>1. pc[c] = "check0" /\ pc'[c] \in {"read", "write", "hdr"}
    BY <1>5 DEF Check0, Opened, Goto
  <2> QED
    BY <1>5, <2>1 DEF Arrives
<1>6. CASE ScanMark(c)
  <2>1. pc[c] = "scan" /\ pc'[c] \in {"scan", "raise", "lockI"}
    BY <1>6 DEF ScanMark, Goto
  <2> QED
    BY <1>6, <2>1 DEF Arrives
<1>7. CASE RaiseLock(c)
  <2>1. pc[c] = "raise" /\ pc'[c] = "raiseSet"
    BY <1>7 DEF RaiseLock, Goto
  <2> QED
    BY <1>7, <2>1 DEF Arrives
<1>8. CASE RaiseBusy(c)
  <2>1. pc[c] = "raise" /\ pc'[c] \in {"raise", "lockI", "scan", "hdr"}
    BY <1>8 DEF RaiseBusy, Retry, ToScan, Goto
  <2> QED
    BY <1>8, <2>1 DEF Arrives
<1>9. CASE RaiseSet(c)
  <2>1. pc[c] = "raiseSet" /\ pc'[c] = "lockI"
    BY <1>9 DEF RaiseSet, Goto
  <2> QED
    BY <1>9, <2>1 DEF Arrives
<1>10. CASE LockI(c)
  <2>1. pc[c] = "lockI" /\ pc'[c] \in {"minFrame", "scan", "hdr"}
    BY <1>10 DEF LockI, Retry, ToScan, Goto
  <2> QED
    BY <1>10, <2>1 DEF Arrives
<1>11. CASE LoadMinFrame(c)
  <2>1. pc[c] = "minFrame" /\ pc'[c] = "checkI"
    BY <1>11 DEF LoadMinFrame, Goto
  <2> QED
    BY <1>11, <2>1 DEF Arrives
<1>12. CASE CheckI(c)
  <2>1. pc[c] = "checkI" /\ pc'[c] \in {"read", "write", "scan", "hdr"}
    BY <1>12 DEF CheckI, Retry, ToScan, Goto, Opened
  <2> QED
    BY <1>12, <2>1 DEF Arrives
<1>13. CASE WriteCheck(c)
  <2>1. pc[c] = "writeCheck" /\ pc'[c] \in {"write", "read"}
    BY <1>13 DEF WriteCheck, Goto
  <2> QED
    BY <1>13, <2>1 DEF Arrives
<1>14. CASE RestartLog(c)
  <2>1. pc[c] = "write" /\ pc'[c] = "restart1"
    BY <1>14 DEF RestartLog, Goto
  <2> QED
    BY <1>14, <2>1 DEF Arrives
<1>15. CASE RestartLogEnd(c)
  <2>1. pc[c] \in {"write", "restarted"} /\ pc'[c] = "scan"
    BY <1>15 DEF RestartLogEnd, ToScan, Goto
  <2> QED
    BY <1>15, <2>1 DEF Arrives
<1>16. CASE RestartHdr1(c)
  <2>1. pc[c] = "restart1" /\ pc'[c] = "restart0"
    BY <1>16 DEF RestartHdr1, Goto
  <2> QED
    BY <1>16, <2>1 DEF Arrives
<1>17. CASE RestartHdr0(c)
  <2>1. pc[c] = "restart0" /\ pc'[c] = "restartBackfill"
    BY <1>17 DEF RestartHdr0, Goto
  <2> QED
    BY <1>17, <2>1 DEF Arrives
<1>18. CASE RestartInfo(c)
  <2>1. \/ RestartBackfill(c) /\ pc[c] = "restartBackfill" /\ pc'[c] = "restartAttempted"
        \/ RestartAttempted(c) /\ pc[c] = "restartAttempted" /\ pc'[c] = "restartMarks"
    BY <1>18 DEF RestartInfo, RestartBackfill, RestartAttempted, Goto
  <2> QED
    BY <2>1 DEF Arrives
<1>19. CASE RestartMarks(c)
  <2>1. pc[c] = "restartMarks" /\ pc'[c] \in {"truncate", "restarted"}
    BY <1>19 DEF RestartMarks, Goto
  <2> QED
    BY <1>19, <2>1 DEF Arrives
<1>20. CASE Publish1(c)
  <2>1. pc[c] = "publish1" /\ pc'[c] = "publish0"
    BY <1>20 DEF Publish1, Goto
  <2> QED
    BY <1>20, <2>1 DEF Arrives
<1>21. CASE Publish0(c)
  <2>1. pc[c] = "publish0" /\ pc'[c] = "endWrite"
    BY <1>21 DEF Publish0, Goto
  <2> QED
    BY <1>21, <2>1 DEF Arrives
<1>22. CASE EndWrite(c)
  <2>1. pc[c] = "endWrite" /\ pc'[c] = "read"
    BY <1>22 DEF EndWrite, Goto
  <2> QED
    BY <1>22, <2>1 DEF Arrives
<1>23. CASE CkptWriter(c)
  <2>1. pc[c] = "ckptWriter" /\ pc'[c] = "hdr"
    BY <1>23 DEF CkptWriter, Goto
  <2> QED
    BY <1>23, <2>1 DEF Arrives
<1>24. CASE CkptInfo(c)
  <2>1. pc[c] = "ckptInfo" /\ pc'[c] \in {"ckptMarks", "ckptEnd", "ckptMode"}
    BY <1>24 DEF CkptInfo, AfterCopy, Goto
  <2> QED
    BY <1>24, <2>1 DEF Arrives
<1>25. CASE CkptMark(c)
  <2>1. pc[c] = "ckptMarks" /\ pc'[c] \in {"ckptMarks", "ckptMarkLock"}
    BY <1>25 DEF CkptMark, Goto
  <2> QED
    BY <1>25, <2>1 DEF Arrives
<1>26. CASE CkptMarkBusy(c)
  <2>1. pc[c] = "ckptMarkLock" /\ pc'[c] = "ckptMarks"
    BY <1>26 DEF CkptMarkBusy, Goto
  <2> QED
    BY <1>26, <2>1 DEF Arrives
<1>27. CASE CkptMarkLock(c)
  <2>1. pc[c] = "ckptMarkLock" /\ pc'[c] = "ckptMarkSet"
    BY <1>27 DEF CkptMarkLock, Goto
  <2> QED
    BY <1>27, <2>1 DEF Arrives
<1>28. CASE CkptMarkSet(c)
  <2>1. pc[c] = "ckptMarkSet" /\ pc'[c] = "ckptMarks"
    BY <1>28 DEF CkptMarkSet, Goto
  <2> QED
    BY <1>28, <2>1 DEF Arrives
<1>29. CASE CkptLock0(c)
  <2>1. pc[c] = "ckptMarks" /\ pc'[c] \in {"ckptCopy", "ckptEnd", "ckptMode"}
    BY <1>29 DEF CkptLock0, Goto, AfterCopy
  <2> QED
    BY <1>29, <2>1 DEF Arrives
<1>30. CASE CkptCopy(c)
  <2>1. pc[c] = "ckptCopy" /\ pc'[c] = "ckptCopy"
    BY <1>30 DEF CkptCopy
  <2> QED
    BY <1>30, <2>1 DEF Arrives
<1>31. CASE CkptTruncateDb(c)
  <2>1. pc[c] = "ckptCopy" /\ pc'[c] = "ckptDone"
    BY <1>31 DEF CkptTruncateDb, Goto
  <2> QED
    BY <1>31, <2>1 DEF Arrives
<1>32. CASE CkptDone(c)
  <2>1. pc[c] = "ckptDone" /\ pc'[c] = "ckptUnlock0"
    BY <1>32 DEF CkptDone, Goto
  <2> QED
    BY <1>32, <2>1 DEF Arrives
<1>33. CASE CkptUnlock0(c)
  <2>1. pc[c] = "ckptUnlock0" /\ pc'[c] \in {"ckptEnd", "ckptMode"}
    BY <1>33 DEF CkptUnlock0, AfterCopy, Goto
  <2> QED
    BY <1>33, <2>1 DEF Arrives
<1>34. CASE CkptRestart(c)
  <2>1. pc[c] = "ckptMode" /\ pc'[c] \in {"restart1", "ckptUnlock"}
    BY <1>34 DEF CkptRestart, AfterDrain, Goto
  <2> QED
    BY <1>34, <2>1 DEF Arrives
<1>35. CASE CkptNoRestart(c)
  <2>1. pc[c] = "ckptMode" /\ pc'[c] = "ckptEnd"
    BY <1>35 DEF CkptNoRestart, Goto
  <2> QED
    BY <1>35, <2>1 DEF Arrives
<1>36. CASE CkptTruncateLog(c)
  <2>1. pc[c] = "truncate" /\ pc'[c] = "ckptUnlock"
    BY <1>36 DEF CkptTruncateLog, Goto
  <2> QED
    BY <1>36, <2>1 DEF Arrives
<1>37. CASE CkptUnlock(c)
  <2>1. pc[c] = "ckptUnlock" /\ pc'[c] = "ckptEnd"
    BY <1>37 DEF CkptUnlock, Goto
  <2> QED
    BY <1>37, <2>1 DEF Arrives
<1>38. CASE CkptEnd(c)
  <2>1. pc[c] = "ckptEnd" /\ pc'[c] = "idle"
    BY <1>38 DEF CkptEnd, Goto
  <2> QED
    BY <1>38, <2>1 DEF Arrives
<1>39. CASE BeginRead(c)
  <2>1. pc[c] = "idle" /\ pc'[c] = "hdr"
    BY <1>39 DEF BeginRead, Goto
  <2> QED
    BY <1>39, <2>1 DEF Arrives
<1>40. CASE ReadFails(c)
  <2>1. pc[c] = "hdr" /\ pc'[c] = "idle"
    BY <1>40 DEF ReadFails, Goto
  <2> QED
    BY <1>40, <2>1 DEF Arrives
<1>41. CASE EndRead(c)
  <2>1. pc[c] = "read" /\ pc'[c] = "idle"
    BY <1>41 DEF EndRead, Goto
  <2> QED
    BY <1>41, <2>1 DEF Arrives
<1>42. CASE BeginWrite(c)
  <2>1. pc[c] = "read" /\ pc'[c] = "writeCheck"
    BY <1>42 DEF BeginWrite, Goto
  <2> QED
    BY <1>42, <2>1 DEF Arrives
<1>43. CASE WriteWalHdr(c)
  <2>1. pc[c] = "write" /\ pc'[c] = "frames"
    BY <1>43 DEF WriteWalHdr, Goto
  <2> QED
    BY <1>43, <2>1 DEF Arrives
<1>44. CASE Spill(c)
  <2>1. pc[c] \in {"write", "frames"} /\ pc'[c] = "write"
    BY <1>44 DEF Spill, Goto, InFrames
  <2> QED
    BY <1>44, <2>1 DEF Arrives
<1>45. CASE Commit(c)
  <2>1. pc[c] \in {"write", "frames"} /\ pc'[c] = "publish1"
    BY <1>45 DEF Commit, Goto, InFrames
  <2> QED
    BY <1>45, <2>1 DEF Arrives
<1>46. CASE Rollback(c)
  <2>1. pc[c] \in {"write", "frames"} /\ pc'[c] = "read"
    BY <1>46 DEF Rollback, Goto
  <2> QED
    BY <1>46, <2>1 DEF Arrives
<1>47. CASE BeginCkpt(c)
  <2>1. pc[c] = "idle" /\ pc'[c] \in {"hdr", "ckptWriter"}
    BY <1>47 DEF BeginCkpt, Goto
  <2> QED
    BY <1>47, <2>1 DEF Arrives
<1>48. CASE CkptInterrupt(c)
  <2>1. pc[c] = "ckptCopy" /\ pc'[c] = "ckptEnd"
    BY <1>48 DEF CkptInterrupt, Goto
  <2> QED
    BY <1>48, <2>1 DEF Arrives
<1> QED
  BY <1>1, <1>2, <1>3, <1>4, <1>5, <1>6, <1>7, <1>8, <1>9, <1>10, <1>11, <1>12, <1>13, <1>14, <1>15,
      <1>16, <1>17, <1>18, <1>19, <1>20, <1>21, <1>22, <1>23, <1>24, <1>25, <1>26, <1>27, <1>28,
      <1>29, <1>30, <1>31, <1>32, <1>33, <1>34, <1>35, <1>36, <1>37, <1>38, <1>39, <1>40, <1>41,
      <1>42, <1>43, <1>44, <1>45, <1>46, <1>47, <1>48, Zenon DEF LiveStep

\* What the step of c leaves to another connection d.
Kept(c, d) ==
    /\ pc'[d] = pc[d] /\ eMode'[d] = eMode[d] /\ iMark'[d] = iMark[d]
    /\ hdr'[d] = hdr[d] /\ snap'[d] = snap[d]
    /\ readLock'[d] = readLock[d] /\ minFrame'[d] = minFrame[d]
    /\ mxI'[d] = mxI[d] /\ mxReadMark'[d] = mxReadMark[d]
    /\ y'[d] = y[d] /\ mxSafeFrame'[d] = mxSafeFrame[d] /\ todo'[d] = todo[d]
    /\ \A l \in Locks : (lockX'[l] = d <=> lockX[l] = d) /\ (d \in lockS[l] => d \in lockS'[l])

\* A step of c leaves alone what is d's own.
LEMMA StepKeeps ==
    ASSUME NEW c \in Conn, Step(c), LiveStep(c), ControlTypes, HdrTypes, ReadTypes, CkptTypes, HistTypes,
           Own(c), NEW d \in Conn \ {c}
    PROVE  Kept(c, d)
<1>1. Changes(c)
  BY StepChanges
<1>2. /\ pc'[d] = pc[d] /\ eMode'[d] = eMode[d] /\ iMark'[d] = iMark[d]
      /\ \A l \in Locks : lockX'[l] = d <=> lockX[l] = d
  BY LocksOfOthers
<1>3. /\ hdr'[d] = hdr[d] /\ mxI'[d] = mxI[d] /\ todo'[d] = todo[d]
      /\ mxSafeFrame'[d] = mxSafeFrame[d] /\ snap'[d] = snap[d]
  BY OthersFrame
<1>4. readLock'[d] = readLock[d]
  <2>1. readLock' = readLock \/ Check0(c) \/ CheckI(c) \/ EndRead(c) \/ RestartLogEnd(c)
    BY <1>1 DEF Changes
  <2> QED
    BY <2>1 DEF ReadTypes, Check0, CheckI, EndRead, RestartLogEnd
<1>5. minFrame'[d] = minFrame[d]
  <2>1. minFrame' = minFrame \/ LoadMinFrame(c) \/ CheckI(c) \/ EndRead(c)
    BY <1>1 DEF Changes
  <2> QED
    BY <2>1 DEF ReadTypes, LoadMinFrame, CheckI, EndRead
<1>6. y'[d] = y[d]
  <2>1. y' = y \/ CkptMark(c) \/ CkptMarkBusy(c) \/ CkptMarkSet(c)
    BY <1>1 DEF Changes
  <2> QED
    BY <2>1 DEF CkptTypes, CkptMark, CkptMarkBusy, CkptMarkSet
<1>7. \A l \in Locks : d \in lockS[l] => d \in lockS'[l]
  <2>1. \/ lockS' = lockS \/ Lock0(c) \/ Check0(c) \/ LockI(c) \/ CheckI(c) \/ EndRead(c)
        \/ RestartLogEnd(c)
    BY <1>1 DEF Changes
  <2>2. \/ lockS' = lockS
        \/ \E l : lockS' = [lockS EXCEPT ![l] = @ \cup {c}]
        \/ \E l : lockS' = [lockS EXCEPT ![l] = @ \ {c}]
    BY <2>1 DEF Lock0, Check0, LockI, CheckI, EndRead, RestartLogEnd, Share, Unshare
  <2> QED
    BY <2>2 DEF ControlTypes
<1>8. mxReadMark'[d] = mxReadMark[d]
  <2>1. CASE mxReadMark' = mxReadMark
    BY <2>1
  <2>2. CASE CheckBackfill(c) \/ Lock0(c) \/ ScanMark(c) \/ RaiseBusy(c) \/ RaiseSet(c)
             \/ LockI(c) \/ CheckI(c) \/ RestartLogEnd(c)
    <3>1. mxReadMark' = mxReadMark \/ \E m : mxReadMark' = [mxReadMark EXCEPT ![c] = m]
      BY <2>2 DEF CheckBackfill, Lock0, ScanMark, RaiseBusy, RaiseSet, LockI, CheckI, RestartLogEnd,
         Retry, ToScan, readVars
    <3> QED
      BY <3>1 DEF ReadTypes
  <2>3. CASE ~(CheckBackfill(c) \/ Lock0(c) \/ ScanMark(c) \/ RaiseBusy(c) \/ RaiseSet(c)
               \/ LockI(c) \/ CheckI(c) \/ RestartLogEnd(c))
    <3>1. mxReadMark' = mxReadMark
      BY <2>3, Zenon DEF readVars, LiveStep, ReadHdr, CkptHdrBusy, Check0, RaiseLock,
         LoadMinFrame, WriteCheck, RestartLog, RestartHdr1, RestartHdr0,
         RestartInfo, RestartBackfill, RestartAttempted, RestartMarks, Publish1, Publish0, EndWrite, CkptWriter,
         CkptInfo, CkptMark, CkptMarkBusy, CkptMarkLock, CkptMarkSet, CkptLock0,
         CkptCopy, CkptTruncateDb, CkptDone, CkptUnlock0, CkptRestart,
         CkptNoRestart, CkptTruncateLog, CkptUnlock, CkptEnd, BeginRead,
         ReadFails, EndRead, BeginWrite, WriteWalHdr, Spill, Commit, Rollback,
         BeginCkpt, CkptInterrupt
    <3> QED
      BY <3>1
  <2> QED
    BY <2>2, <2>3
<1> QED
  BY <1>2, <1>3, <1>4, <1>5, <1>6, <1>7, <1>8 DEF Kept

(***************************************************************************)
(* Slots                                                                   *)
(***************************************************************************)
\* The slot of c after its step.
LEMMA OwnSlot ==
    ASSUME NEW c \in Conn, LiveStep(c), ControlTypes, ReadTypes, Own(c), SlotLock(c), SlotControl(c)
    PROVE  SlotLock(c)' /\ SlotControl(c)'
<1> USE LockNumbers, ConnAssumption DEF ControlTypes, ReadTypes, Own, CkptControl, MarkControl,
    WriterLock, bWriteLock, InCkpt, SlotLock, SlotControl, RestartPCs, WritePCs, TryPCs, CkptPCs,
    WriterPCs, OneMarkPCs, AllMarksPCs, RecPCs, lockVars, readVars, ckptVars
<1>1. CASE ReadHdr(c)
  BY <1>1 DEF ReadHdr, AfterHdr, walIndexTryHdr, Goto
<1>2. CASE CkptHdrBusy(c)
  BY <1>2 DEF CkptHdrBusy, CanLock, Goto
<1>3. CASE CheckBackfill(c)
  BY <1>3 DEF CheckBackfill, ToScan, Goto
<1>4. CASE Lock0(c)
  BY <1>4 DEF Lock0, Share, CanShare, ToScan, Goto
<1>5. CASE Check0(c)
  BY <1>5 DEF Check0, HdrUnchanged, Unshare, Opened, useWal, Goto
<1>6. CASE ScanMark(c)
  BY <1>6 DEF ScanMark, Goto
<1>7. CASE RaiseLock(c)
  BY <1>7 DEF RaiseLock, Lock, CanRaise, CanLock, Goto
<1>8. CASE RaiseBusy(c)
  BY <1>8 DEF RaiseBusy, Retry, ToScan, Goto, useWal
<1>9. CASE RaiseSet(c)
  BY <1>9 DEF RaiseSet, Unlock, Goto
<1>10. CASE LockI(c)
  BY <1>10 DEF LockI, Share, CanShare, Retry, ToScan, Goto, useWal
<1>11. CASE LoadMinFrame(c)
  BY <1>11 DEF LoadMinFrame, FirstFrame, Goto
<1>12. CASE CheckI(c)
  <2>1. CASE MarkUnchanged(c) /\ HdrUnchanged(c)
    <3>1. /\ readLock' = [readLock EXCEPT ![c] = mxI[c]] /\ lockS' = lockS /\ pc[c] = "checkI"
          /\ eMode' = eMode
      BY <1>12, <2>1 DEF CheckI
    <3>2. pc'[c] \in {"read", "write"}
      BY <1>12, <2>1 DEF CheckI, Opened, Goto
    <3> QED
      BY <3>1, <3>2
  <2>2. CASE ~(MarkUnchanged(c) /\ HdrUnchanged(c))
    <3>1. readLock'[c] = -1
      BY <1>12, <2>2 DEF CheckI
    <3>2. pc'[c] \in {"hdr", "scan", "backfill"}
      BY <1>12, <2>2 DEF CheckI, Retry, ToScan, Goto
    <3> QED
      BY <3>1, <3>2
  <2> QED
    BY <2>1, <2>2
<1>13. CASE WriteCheck(c)
  BY <1>13 DEF WriteCheck, SnapshotIsCurrent, Unlock, Goto
<1>14. CASE RestartLog(c)
  BY <1>14 DEF RestartLog, Lock, LogReadLocks, CanRestart, CanLock, Goto
<1>15. CASE RestartLogEnd(c)
  BY <1>15 DEF RestartLogEnd, Unlock, Unshare, LogReadLocks, ToScan, Goto, CanRestart, CanLock
<1>16. CASE RestartHdr1(c)
  BY <1>16 DEF RestartHdr1, Goto
<1>17. CASE RestartHdr0(c)
  BY <1>17 DEF RestartHdr0, Goto
<1>18. CASE RestartInfo(c)
  BY <1>18 DEF RestartInfo, RestartBackfill, RestartAttempted, Reset, Goto
<1>19. CASE RestartMarks(c)
  BY <1>19 DEF RestartMarks, Goto
<1>20. CASE Publish1(c)
  BY <1>20 DEF Publish1, Goto
<1>21. CASE Publish0(c)
  BY <1>21 DEF Publish0, Goto
<1>22. CASE EndWrite(c)
  BY <1>22 DEF EndWrite, Unlock, Goto
<1>23. CASE CkptWriter(c)
  BY <1>23 DEF CkptWriter, Lock, CanLock, Goto
<1>24. CASE CkptInfo(c)
  BY <1>24 DEF CkptInfo, AfterCopy, Goto
<1>25. CASE CkptMark(c)
  BY <1>25 DEF CkptMark, Goto
<1>26. CASE CkptMarkBusy(c)
  BY <1>26 DEF CkptMarkBusy, SafeWithReader, CanLock, Goto
<1>27. CASE CkptMarkLock(c)
  BY <1>27 DEF CkptMarkLock, Lock, CanLock, Goto
<1>28. CASE CkptMarkSet(c)
  BY <1>28 DEF CkptMarkSet, Unlock, Goto
<1>29. CASE CkptLock0(c)
  BY <1>29 DEF CkptLock0, Goto, AfterCopy
<1>30. CASE CkptCopy(c)
  BY <1>30 DEF CkptCopy
<1>31. CASE CkptTruncateDb(c)
  BY <1>31 DEF CkptTruncateDb, Goto
<1>32. CASE CkptDone(c)
  BY <1>32 DEF CkptDone, Goto
<1>33. CASE CkptUnlock0(c)
  BY <1>33 DEF CkptUnlock0, Unlock, AfterCopy, Goto
<1>34. CASE CkptRestart(c)
  BY <1>34 DEF CkptRestart, Lock, CanLock, LogReadLocks, WantsRestart, AfterDrain, Goto
<1>35. CASE CkptNoRestart(c)
  BY <1>35 DEF CkptNoRestart, CanLock, LogReadLocks, WantsRestart, Goto
<1>36. CASE CkptTruncateLog(c)
  BY <1>36 DEF CkptTruncateLog, Goto
<1>37. CASE CkptUnlock(c)
  BY <1>37 DEF CkptUnlock, Unlock, LogReadLocks, Goto
<1>38. CASE CkptEnd(c)
  BY <1>38 DEF CkptEnd, HdrAfterCkpt, Unlock, Goto
<1>39. CASE BeginRead(c)
  BY <1>39 DEF BeginRead, Goto
<1>40. CASE ReadFails(c)
  BY <1>40 DEF ReadFails, Goto
<1>41. CASE EndRead(c)
  BY <1>41 DEF EndRead, Unshare, Goto
<1>42. CASE BeginWrite(c)
  BY <1>42 DEF BeginWrite, Lock, CanLock, Goto
<1>43. CASE WriteWalHdr(c)
  BY <1>43 DEF WriteWalHdr, Goto
<1>44. CASE Spill(c)
  BY <1>44 DEF Spill, InFrames, Goto
<1>45. CASE Commit(c)
  BY <1>45 DEF Commit, InFrames, Goto
<1>46. CASE Rollback(c)
  BY <1>46 DEF Rollback, TxnUsed, Unlock, Goto
<1>47. CASE BeginCkpt(c)
  BY <1>47 DEF BeginCkpt, Lock, CanLock, Goto
<1>48. CASE CkptInterrupt(c)
  BY <1>48 DEF CkptInterrupt, Unlock, Goto
<1> QED
  BY <1>1, <1>2, <1>3, <1>4, <1>5, <1>6, <1>7, <1>8, <1>9, <1>10, <1>11, <1>12, <1>13, <1>14, <1>15,
      <1>16, <1>17, <1>18, <1>19, <1>20, <1>21, <1>22, <1>23, <1>24, <1>25, <1>26, <1>27, <1>28,
      <1>29, <1>30, <1>31, <1>32, <1>33, <1>34, <1>35, <1>36, <1>37, <1>38, <1>39, <1>40, <1>41,
      <1>42, <1>43, <1>44, <1>45, <1>46, <1>47, <1>48, Zenon DEF LiveStep

\* The slots of the others.
LEMMA OthersSlot ==
    ASSUME NEW c \in Conn, NEW d \in Conn \ {c}, Kept(c, d), ReadTypes, SlotLock(d), SlotControl(d),
           MarkControl(d)
    PROVE  SlotLock(d)' /\ SlotControl(d)'
<1>1. /\ pc'[d] = pc[d] /\ eMode'[d] = eMode[d] /\ readLock'[d] = readLock[d] /\ mxI'[d] = mxI[d]
      /\ \A i \in 0..(WAL_NREADER - 1) : d \in lockS[WAL_READ_LOCK(i)] => d \in lockS'[WAL_READ_LOCK(i)]
  BY LockNumbers DEF Kept
<1>2. readLock[d] >= 0 => readLock[d] \in 0..(WAL_NREADER - 1)
  BY DEF ReadTypes
<1>3. mxI[d] \in 0..(WAL_NREADER - 1) /\ 0 \in 0..(WAL_NREADER - 1)
  BY LockNumbers DEF ReadTypes
<1> QED
  BY <1>1, <1>2, <1>3 DEF SlotLock, SlotControl

(***************************************************************************)
(* Facts for a step of c                                                   *)
(***************************************************************************)
\* The types, and what every connection knows of itself.
LEMMA KnownFacts ==
    ASSUME IInv, VersionInv
    PROVE  /\ FileTypes /\ ShmTypes /\ ControlTypes /\ HdrTypes /\ ReadTypes /\ CkptTypes /\ HistTypes
           /\ \A d \in Conn : /\ Own(d) /\ TxnInv(d) /\ RestartInv(d) /\ CopyInv(d)
                              /\ NoRecovery(d) /\ ModeControl(d) /\ HdrAge(d)
  BY IInvByConn DEF ConnInv, IInv, TypeOK, VersionInv

\* The fields of headers are numbers.
LEMMA HdrNumbers ==
    ASSUME ShmTypes, HdrTypes
    PROVE  /\ \A d \in Conn : /\ hdr[d].mxFrame \in Nat /\ hdr[d].nPage \in Nat
                              /\ hdr[d].iChange \in Nat /\ hdr[d].aSalt \in Nat
           /\ \A k \in 0..1 : /\ aHdr[k].mxFrame \in Nat /\ aHdr[k].nPage \in Nat
                              /\ aHdr[k].iChange \in Nat /\ aHdr[k].aSalt \in Nat
           /\ nBackfill \in Nat /\ nBackfillAttempted \in Nat
  BY DEF ShmTypes, HdrTypes, Header, Frame

\* What a step of c does.
LEMMA StepFacts ==
    ASSUME IInv, VersionInv, NEW c \in Conn, Step(c)
    PROVE  LiveStep(c) /\ Changes(c) /\ Arrives(c) /\ \A d \in Conn \ {c} : Kept(c, d)
<1>0. /\ FileTypes /\ ShmTypes /\ ControlTypes /\ HdrTypes /\ ReadTypes /\ CkptTypes /\ HistTypes
      /\ Own(c) /\ NoRecovery(c)
  BY KnownFacts
<1>1. LiveStep(c)
  BY <1>0, NobodyRecovers, OnlyLive
<1> QED
  BY <1>0, <1>1, StepChanges, StepArrives, StepKeeps

\* Only one connection has the WRITER lock, and the CKPT lock.
LEMMA OneHolder ==
    ASSUME NEW c \in Conn, NEW d \in Conn \ {c}, Own(c), Own(d)
    PROVE  /\ ~(lockX[WAL_WRITE_LOCK] = c /\ lockX[WAL_WRITE_LOCK] = d)
           /\ ~(pc[c] \in CkptPCs /\ pc[d] \in CkptPCs)
  BY LocksOfData

\* The first copy of the header changes in two places.
LEMMA FirstCopy ==
    ASSUME NEW c \in Conn, Changes(c), ShmTypes
    PROVE  \/ aHdr'[0] = aHdr[0]
           \/ aHdr'[0] = hdr[c] /\ (RestartHdr0(c) \/ Publish0(c))
<1>1. aHdr' = aHdr \/ RestartHdr1(c) \/ RestartHdr0(c) \/ Publish1(c) \/ Publish0(c)
  BY DEF Changes
<1>2. CASE RestartHdr1(c) \/ Publish1(c)
  BY <1>2 DEF RestartHdr1, Publish1, ShmTypes
<1>3. CASE RestartHdr0(c) \/ Publish0(c)
  BY <1>3 DEF RestartHdr0, Publish0, ShmTypes
<1> QED
  BY <1>1, <1>2, <1>3

(***************************************************************************)
(* The range of a copy                                                     *)
(***************************************************************************)
\* While frames are copied nobody is restarting the log.
LEMMA CopyExcludesRestart ==
    ASSUME NEW c \in Conn, NEW d \in Conn, ShmTypes, HdrTypes, CkptRange(d), AllCopied(c), RestartInv(c),
           pc[d] \in CopyPCs
    PROVE  pc[c] \notin {"restart1", "restart0", "restartBackfill", "restartAttempted"}
  BY HdrNumbers DEF CkptRange, AllCopied, RestartInv

\* The checkpointer's own steps
LEMMA OwnRange ==
    ASSUME NEW c \in Conn, Arrives(c), ShmTypes, ControlTypes, HdrTypes, CkptTypes, MarkControl(c),
           CkptRange(c)
    PROVE  CkptRange(c)'
<1> USE HdrNumbers DEF ShmTypes, ControlTypes, HdrTypes, CkptTypes, CkptRange, CopyPCs, shmVars,
    infoVars, hdrVars, ckptVars
<1>a. CASE pc'[c] = "ckptInfo"
  <2>1. ReadHdr(c)
    BY <1>a DEF Arrives
  <2> QED
    BY <1>a, <2>1 DEF ReadHdr, walIndexTryHdr
<1>b. CASE pc'[c] \in CopyPCs
  <2>0. \/ CkptInfo(c) \/ CkptMark(c) \/ CkptMarkBusy(c) \/ CkptMarkLock(c) \/ CkptMarkSet(c)
        \/ CkptLock0(c) \/ CkptCopy(c) \/ CkptTruncateDb(c)
    BY <1>b DEF Arrives
  <2>1. CASE CkptInfo(c)
    BY <1>b, <2>1 DEF CkptInfo, AfterCopy, Goto
  <2>2. CASE CkptMark(c)
    <3>1. aReadMark[iMark[c]] \in Int /\ mxSafeFrame[c] \in Nat
      BY <2>2, BoundAssumption DEF CkptMark, Frame, READMARK_NOT_USED
    <3> QED
      BY <1>b, <2>2, <3>1 DEF CkptMark, Goto
  <2>3. CASE CkptMarkBusy(c)
    <3>1. y[c] \in Nat /\ mxSafeFrame[c] \in Nat
      BY DEF Frame
    <3> QED
      BY <1>b, <2>3, <3>1 DEF CkptMarkBusy, SafeWithReader, Goto
  <2>4. CASE CkptMarkLock(c)
    BY <1>b, <2>4 DEF CkptMarkLock, Goto
  <2>5. CASE CkptMarkSet(c)
    BY <1>b, <2>5 DEF CkptMarkSet, Goto
  <2>6. CASE CkptLock0(c)
    BY <1>b, <2>6 DEF CkptLock0, AfterCopy, Goto
  <2>7. CASE CkptCopy(c)
    BY <1>b, <2>7 DEF CkptCopy
  <2>8. CASE CkptTruncateDb(c)
    BY <1>b, <2>8 DEF CkptTruncateDb, Goto
  <2> QED
    BY <2>0, <2>1, <2>2, <2>3, <2>4, <2>5, <2>6, <2>7, <2>8
<1> QED
  BY <1>a, <1>b

\* and those of others, who add frames while it copies.
LEMMA OthersRange ==
    ASSUME NEW c \in Conn, NEW d \in Conn \ {c}, ShmTypes, HdrTypes, Own(c), Own(d), Changes(c),
           Kept(c, d), RestartInv(c), AllCopied(c), WriterHdr(c), CkptRange(d), pc[d] # "ckptInfo"
    PROVE  CkptRange(d)'
<1> SUFFICES ASSUME pc[d] \in CopyPCs PROVE CkptRange(d)'
  BY DEF Kept, CkptRange, CopyPCs
<1>1. pc[c] \notin {"restart1", "restart0", "restartBackfill", "restartAttempted"}
  BY CopyExcludesRestart
<1>2. pc[c] # "ckptDone"
  BY OneHolder DEF CkptPCs, CopyPCs
<1>3. nBackfill' = nBackfill
  BY <1>1, <1>2 DEF Changes, RestartInfo, RestartBackfill, RestartAttempted, CkptDone
<1>4. \/ aHdr'[0] = aHdr[0]
      \/ aHdr'[0] = hdr[c] /\ pc[c] = "publish0"
  BY <1>1, FirstCopy DEF RestartHdr0, Publish0
<1>5. aHdr[0].mxFrame <= aHdr'[0].mxFrame /\ aHdr'[0].mxFrame \in Nat
  BY <1>4, HdrNumbers DEF WriterHdr
<1>6. /\ nBackfill < hdr[d].mxFrame /\ hdr[d].mxFrame <= aHdr[0].mxFrame
      /\ mxSafeFrame[d] <= hdr[d].mxFrame
      /\ pc[d] = "ckptMarkLock" => y[d] < mxSafeFrame[d]
  BY DEF CkptRange
<1>7. /\ pc'[d] = pc[d] /\ hdr'[d] = hdr[d] /\ mxSafeFrame'[d] = mxSafeFrame[d] /\ y'[d] = y[d]
  BY DEF Kept
<1>8. hdr[d].mxFrame <= aHdr'[0].mxFrame
  BY <1>5, <1>6, HdrNumbers
<1> QED
  BY <1>3, <1>6, <1>7, <1>8 DEF CkptRange

\* A commit writes at least one frame.
LEMMA CommitGrows ==
    ASSUME NEW c \in Conn, FileTypes, ShmTypes, HdrTypes, HistTypes, Commit(c)
    PROVE  hdr'[c].mxFrame > hdr[c].mxFrame /\ hdr'[c].mxFrame \in Nat
<1>1. PICK w \in Writes : \E q \in Ascending(NewPages(c, w.pages)) :
                              hdr'[c].mxFrame = hdr[c].mxFrame + Len(q)
  BY CommitFields
<1>2. PICK q \in Ascending(NewPages(c, w.pages)) : hdr'[c].mxFrame = hdr[c].mxFrame + Len(q)
  BY <1>1
<1> DEFINE S == NewPages(c, w.pages)
<1>3. w.pages \subseteq Page /\ w.pages # {}
  <2>1. w \in [pages : (SUBSET (1..MaxPage)) \ {{}}, size : 1..MaxPage]
    BY <1>1, BoundAssumption
  <2>2. w.pages \in (SUBSET (1..MaxPage)) \ {{}}
    BY <2>1
  <2> QED
    BY <2>2 DEF Page
<1>4. Top(w.pages) \in S
  <2>1. w.pages \in SUBSET (0..MaxPage)
    BY <1>3, BoundAssumption DEF Page
  <2>2. Top(w.pages) \in w.pages
    BY <1>3, <2>1, BoundAssumption, TopIsMember
  <2> QED
    BY <2>2 DEF NewPages
<1>5. IsFiniteSet(S)
  <2>1. IsFiniteSet(Page)
    BY BoundAssumption, FS_Interval DEF Page
  <2>2. S \subseteq Page
    BY <1>3 DEF NewPages
  <2> QED
    BY <2>1, <2>2, FS_Subset
<1>6. q \in [1..Cardinality(S) -> S]
  BY DEF Ascending
<1> HIDE DEF S
<1>7. Cardinality(S) \in Nat /\ Cardinality(S) # 0
  BY <1>4, <1>5, FS_CardinalityType, FS_EmptySet
<1>8. Len(q) \in Nat /\ Len(q) >= 1
  BY <1>6, <1>7
<1>9. hdr[c].mxFrame \in Nat
  BY HdrNumbers
<1> QED
  BY <1>2, <1>8, <1>9

(***************************************************************************)
(* The header of a writer                                                  *)
(***************************************************************************)
\* A writer that takes its locks, writes frames or ends.
LEMMA OwnWriterHdr ==
    ASSUME NEW c \in Conn, LiveStep(c), FileTypes, ShmTypes, ControlTypes, HdrTypes, ReadTypes,
           HistTypes, Own(c), TxnInv(c), ModeControl(c), SlotControl(c), WriterHdr(c)
    PROVE  WriterHdr(c)'
<1> USE HdrNumbers, LockNumbers, ConnAssumption DEF ShmTypes, ControlTypes, HdrTypes, ReadTypes, Own,
    CkptControl, WriterLock, bWriteLock, InCkpt, ModeControl, SlotControl, WriterHdr, InWrite, InFullCkpt,
    RestartPCs, WritePCs, TryPCs, CkptPCs, WriterPCs, RecPCs, shmVars, infoVars, lockVars, hdrVars,
    readVars, ckptVars
<1>1. CASE ReadHdr(c)
  BY <1>1 DEF ReadHdr, AfterHdr, walIndexTryHdr, Goto
<1>2. CASE CkptHdrBusy(c)
  BY <1>2 DEF CkptHdrBusy, CanLock, Goto
<1>3. CASE CheckBackfill(c)
  BY <1>3 DEF CheckBackfill, ToScan, Goto
<1>4. CASE Lock0(c)
  BY <1>4 DEF Lock0, Share, CanShare, ToScan, Goto
<1>5. CASE Check0(c)
  <2>1. pc[c] = "check0" /\ eMode' = eMode
    BY <1>5 DEF Check0
  <2>2. eMode[c] = "NONE" /\ ~useWal(c)
    BY <2>1 DEF useWal
  <2>3. pc'[c] \in {"read", "hdr"}
    BY <1>5, <2>2 DEF Check0, Opened, Goto
  <2> QED
    BY <2>1, <2>2, <2>3
<1>6. CASE ScanMark(c)
  BY <1>6 DEF ScanMark, Goto
<1>7. CASE RaiseLock(c)
  BY <1>7 DEF RaiseLock, Lock, CanRaise, CanLock, Goto
<1>8. CASE RaiseBusy(c)
  BY <1>8 DEF RaiseBusy, Retry, ToScan, Goto, useWal
<1>9. CASE RaiseSet(c)
  BY <1>9 DEF RaiseSet, Unlock, Goto
<1>10. CASE LockI(c)
  BY <1>10 DEF LockI, Share, CanShare, Retry, ToScan, Goto, useWal
<1>11. CASE LoadMinFrame(c)
  BY <1>11 DEF LoadMinFrame, FirstFrame, Goto
<1>12. CASE CheckI(c)
  <2>1. pc[c] = "checkI" /\ UNCHANGED <<eMode, hdr, aHdr>>
    BY <1>12 DEF CheckI
  <2>2. eMode[c] = "NONE"
    BY <2>1
  <2>3. CASE useWal(c)
    <3>1. pc'[c] \in {"write", "scan"}
      BY <1>12, <2>3 DEF CheckI, Opened, Retry, ToScan, Goto
    <3>2. hdr[c] = aHdr[0]
      BY <2>1, <2>3 DEF useWal
    <3> QED
      BY <2>1, <2>2, <3>1, <3>2
  <2>4. CASE ~useWal(c)
    <3>1. pc'[c] \in {"read", "hdr"}
      BY <1>12, <2>4 DEF CheckI, Opened, Retry, Goto
    <3> QED
      BY <2>1, <2>2, <3>1
  <2> QED
    BY <2>3, <2>4
<1>13. CASE WriteCheck(c)
  BY <1>13 DEF WriteCheck, SnapshotIsCurrent, Unlock, Goto
<1>14. CASE RestartLog(c)
  BY <1>14 DEF RestartLog, Lock, LogReadLocks, CanRestart, CanLock, Goto
<1>15. CASE RestartLogEnd(c)
  BY <1>15 DEF RestartLogEnd, Unlock, Unshare, LogReadLocks, ToScan, Goto, CanRestart, CanLock
<1>16. CASE RestartHdr1(c)
  <2>1. pc'[c] = "restart0" /\ eMode' = eMode
    BY <1>16 DEF RestartHdr1, Goto
  <2> QED
    BY <2>1
<1>17. CASE RestartHdr0(c)
  BY <1>17 DEF RestartHdr0, Goto
<1>18. CASE RestartInfo(c)
  BY <1>18 DEF RestartInfo, RestartBackfill, RestartAttempted, Reset, Goto
<1>19. CASE RestartMarks(c)
  BY <1>19 DEF RestartMarks, Goto
<1>20. CASE Publish1(c)
  BY <1>20 DEF Publish1, Goto
<1>21. CASE Publish0(c)
  BY <1>21 DEF Publish0, Goto
<1>22. CASE EndWrite(c)
  BY <1>22 DEF EndWrite, Unlock, Goto
<1>23. CASE CkptWriter(c)
  BY <1>23 DEF CkptWriter, Lock, CanLock, Goto
<1>24. CASE CkptInfo(c)
  BY <1>24 DEF CkptInfo, AfterCopy, Goto
<1>25. CASE CkptMark(c)
  BY <1>25 DEF CkptMark, Goto
<1>26. CASE CkptMarkBusy(c)
  BY <1>26 DEF CkptMarkBusy, SafeWithReader, CanLock, Goto
<1>27. CASE CkptMarkLock(c)
  BY <1>27 DEF CkptMarkLock, Lock, CanLock, Goto
<1>28. CASE CkptMarkSet(c)
  BY <1>28 DEF CkptMarkSet, Unlock, Goto
<1>29. CASE CkptLock0(c)
  BY <1>29 DEF CkptLock0, Goto, AfterCopy
<1>30. CASE CkptCopy(c)
  BY <1>30 DEF CkptCopy
<1>31. CASE CkptTruncateDb(c)
  BY <1>31 DEF CkptTruncateDb, Goto
<1>32. CASE CkptDone(c)
  BY <1>32 DEF CkptDone, Goto
<1>33. CASE CkptUnlock0(c)
  BY <1>33 DEF CkptUnlock0, Unlock, AfterCopy, Goto
<1>34. CASE CkptRestart(c)
  BY <1>34 DEF CkptRestart, Lock, CanLock, LogReadLocks, WantsRestart, AfterDrain, Goto
<1>35. CASE CkptNoRestart(c)
  BY <1>35 DEF CkptNoRestart, CanLock, LogReadLocks, WantsRestart, Goto
<1>36. CASE CkptTruncateLog(c)
  BY <1>36 DEF CkptTruncateLog, Goto
<1>37. CASE CkptUnlock(c)
  BY <1>37 DEF CkptUnlock, Unlock, LogReadLocks, Goto
<1>38. CASE CkptEnd(c)
  BY <1>38 DEF CkptEnd, HdrAfterCkpt, Unlock, Goto
<1>39. CASE BeginRead(c)
  BY <1>39 DEF BeginRead, Goto
<1>40. CASE ReadFails(c)
  BY <1>40 DEF ReadFails, Goto
<1>41. CASE EndRead(c)
  BY <1>41 DEF EndRead, Unshare, Goto
<1>42. CASE BeginWrite(c)
  BY <1>42 DEF BeginWrite, Lock, CanLock, Goto
<1>43. CASE WriteWalHdr(c)
  <2>1. hdr'[c].mxFrame = hdr[c].mxFrame /\ hdr'[c].nPage = hdr[c].nPage
    BY <1>43, WalHdrFields
  <2>2. /\ pc[c] = "write" /\ pc'[c] = "frames"
        /\ UNCHANGED <<aHdr, readLock, eMode>>
    BY <1>43 DEF WriteWalHdr, Goto
  <2> QED
    BY <2>1, <2>2
<1>44. CASE Spill(c)
  <2>1. hdr'[c].mxFrame = hdr[c].mxFrame + 1 /\ hdr'[c].nPage = hdr[c].nPage
    BY <1>44, SpillFields
  <2>2. /\ pc[c] \in {"write", "frames"} /\ pc'[c] = "write" /\ readLock[c] > 0
        /\ UNCHANGED <<aHdr, readLock, eMode>>
    BY <1>44 DEF Spill, InFrames, Goto
  <2> QED
    BY <2>1, <2>2
<1>45. CASE Commit(c)
  <2>1. hdr'[c].mxFrame > hdr[c].mxFrame /\ hdr'[c].mxFrame \in Nat
    BY <1>45, CommitGrows
  <2>2. /\ pc[c] \in {"write", "frames"} /\ pc'[c] = "publish1"
        /\ UNCHANGED <<aHdr, readLock, eMode>>
    BY <1>45 DEF Commit, InFrames, Goto
  <2>3. eMode[c] = "NONE" /\ hdr[c].mxFrame >= aHdr[0].mxFrame
    BY <2>2
  <2>4. hdr'[c].mxFrame > aHdr[0].mxFrame
    BY <2>1, <2>3
  <2> QED
    BY <2>2, <2>3, <2>4
<1>46. CASE Rollback(c)
  BY <1>46 DEF Rollback, TxnUsed, Unlock, Goto
<1>47. CASE BeginCkpt(c)
  BY <1>47 DEF BeginCkpt, Lock, CanLock, Goto
<1>48. CASE CkptInterrupt(c)
  BY <1>48 DEF CkptInterrupt, Unlock, Goto
<1> QED
  BY <1>1, <1>2, <1>3, <1>4, <1>5, <1>6, <1>7, <1>8, <1>9, <1>10, <1>11, <1>12, <1>13, <1>14, <1>15,
      <1>16, <1>17, <1>18, <1>19, <1>20, <1>21, <1>22, <1>23, <1>24, <1>25, <1>26, <1>27, <1>28,
      <1>29, <1>30, <1>31, <1>32, <1>33, <1>34, <1>35, <1>36, <1>37, <1>38, <1>39, <1>40, <1>41,
      <1>42, <1>43, <1>44, <1>45, <1>46, <1>47, <1>48, Zenon DEF LiveStep

\* Others leave the header alone.
LEMMA OthersWriterHdr ==
    ASSUME NEW c \in Conn, NEW d \in Conn \ {c}, Step(c), ControlTypes, Own(c), Own(d), Kept(c, d),
           WriterHdr(d)
    PROVE  WriterHdr(d)'
<1>1. /\ pc'[d] = pc[d] /\ eMode'[d] = eMode[d] /\ hdr'[d] = hdr[d] /\ readLock'[d] = readLock[d]
      /\ lockX'[WAL_WRITE_LOCK] = d <=> lockX[WAL_WRITE_LOCK] = d
  BY LockNumbers DEF Kept
<1>2. (InWrite(d)' <=> InWrite(d)) /\ (InFullCkpt(d)' <=> InFullCkpt(d))
  BY <1>1 DEF InWrite, InFullCkpt, bWriteLock, InCkpt
<1>3. lockX[WAL_WRITE_LOCK] = d => aHdr' = aHdr
  BY HdrStoreStep
<1>4. InWrite(d) \/ InFullCkpt(d) \/ pc[d] \in WritePCs => lockX[WAL_WRITE_LOCK] = d
  BY LocksOfData DEF InFullCkpt, Own, WriterLock, WriterPCs
<1>5. InWrite(d) \/ InFullCkpt(d) \/ pc[d] \in {"write", "frames", "publish1", "publish0"} => aHdr' = aHdr
  BY <1>3, <1>4 DEF WritePCs
<1> QED
  BY <1>1, <1>2, <1>5 DEF WriterHdr

(***************************************************************************)
(* The salt of a restarted log                                             *)
(***************************************************************************)
\* The salt is drawn,
LEMMA OwnSalt ==
    ASSUME NEW c \in Conn, Arrives(c), ShmTypes, HdrTypes, \A d \in Conn \ {c} : Kept(c, d)
    PROVE  FreshSalt(c)'
<1> SUFFICES ASSUME pc'[c] = "restart0" PROVE FreshSalt(c)'
  BY DEF FreshSalt
<1>1. RestartHdr1(c)
  BY DEF Arrives
<1>2. PICK s \in NewSalts : hdr'[c].aSalt = s
  BY <1>1, RestartHdrFields
<1>3. s # 0 /\ s # aHdr[0].aSalt /\ \A d \in Conn : s # hdr[d].aSalt
  BY DEF NewSalts, UsedSalts
<1>4. aHdr'[0] = aHdr[0]
  BY <1>1 DEF RestartHdr1, ShmTypes
<1>5. \A d \in Conn \ {c} : hdr'[d] = hdr[d]
  BY DEF Kept
<1> QED
  BY <1>2, <1>3, <1>4, <1>5 DEF FreshSalt

\* and nobody reads it before the restart is over.
LEMMA OthersSalt ==
    ASSUME NEW c \in Conn, NEW d \in Conn \ {c}, Step(c), ShmTypes, ControlTypes, HdrTypes, Own(c), Own(d),
           Changes(c), \A e \in Conn \ {c} : Kept(c, e), NoRecovery(d), FreshSalt(d)
    PROVE  FreshSalt(d)'
<1> SUFFICES ASSUME pc[d] = "restart0" PROVE FreshSalt(d)'
  BY DEF FreshSalt, Kept
<1>1. lockX[WAL_WRITE_LOCK] = d
  BY LocksOfData DEF WriterPCs, RestartPCs
<1>2. aHdr' = aHdr
  BY <1>1, HdrStoreStep
<1>3. hdr'[d] = hdr[d] /\ \A e \in Conn \ {c} : hdr'[e] = hdr[e]
  BY DEF Kept
<1>4. pc[c] \notin WriterPCs
  BY <1>1, LocksOfData
<1>5. ~HdrOk
  <2>1. aHdr[1] = hdr[d]
    BY DEF NoRecovery
  <2>2. hdr[d].aSalt # aHdr[0].aSalt
    BY DEF FreshSalt
  <2> QED
    BY <2>1, <2>2 DEF HdrOk
<1>6. hdr' = hdr \/ EndRead(c) \/ CkptEnd(c)
  <2>1. ~ReadHdr(c)
    BY <1>5 DEF ReadHdr, walIndexTryHdr
  <2>2. pc[c] \notin {"restart1", "write", "frames"}
    BY <1>4 DEF WriterPCs, WritePCs, RestartPCs
  <2>3. ~RestartHdr1(c) /\ ~WriteWalHdr(c) /\ ~Rollback(c)
    BY <2>2 DEF RestartHdr1, WriteWalHdr, Rollback
  <2>4. ~InFrames(c)
    BY <2>2 DEF InFrames
  <2>5. ~Spill(c) /\ ~Commit(c)
    BY <2>4 DEF Spill, Commit
  <2> QED
    BY <2>1, <2>3, <2>5, Zenon DEF Changes
<1>7. hdr'[c] = hdr[c] \/ hdr'[c] = ZeroHdr
  BY <1>6 DEF EndRead, CkptEnd, HdrAfterCkpt, HdrTypes
<1>8. hdr'[c].aSalt = hdr[c].aSalt \/ hdr'[c].aSalt = 0
  BY <1>7 DEF ZeroHdr
<1> QED
  BY <1>2, <1>3, <1>8 DEF FreshSalt

(***************************************************************************)
(* The log is copied                                                       *)
(***************************************************************************)
\* Nobody else is between the stores of a restart.
LEMMA NoStores ==
    ASSUME NEW c \in Conn, lockX[WAL_WRITE_LOCK] = c,
           pc[c] \notin {"restartBackfill", "restartAttempted"},
           \A d \in Conn : Own(d) /\ NoRecovery(d)
    PROVE  \A d \in Conn : pc[d] \notin {"restartBackfill", "restartAttempted", "recBackfill", "recAttempted"}
  BY LocksOfData DEF WriterPCs, RestartPCs, NoRecovery, RecPCs

\* A number between n and n.
LEMMA BothBounds == \A m, n \in Nat : m <= n /\ m >= n => m = n
  OBVIOUS

\* Whoever c is when it takes slot 0 or restarts the log.
LEMMA OwnCopied ==
    ASSUME NEW c \in Conn, Arrives(c), FileTypes, ShmTypes, ControlTypes, HdrTypes, ReadTypes, 
           \A d \in Conn : Own(d) /\ NoRecovery(d), ModeControl(c), SlotControl(c), WriterHdr(c),
           BackfillBounded, AllCopied(c)
    PROVE  AllCopied(c)'
<1> USE HdrNumbers DEF ControlTypes, shmVars, infoVars, hdrVars, readVars
<1>1. pc'[c] = "lock0" => (hdr'[c] = aHdr'[0] => nBackfill' = aHdr'[0].mxFrame)
  BY DEF Arrives, CheckBackfill, ToScan, Goto
<1>2. pc'[c] = "check0" => (hdr'[c] = aHdr'[0] => nBackfill' = aHdr'[0].mxFrame)
  BY DEF Arrives, Lock0, ToScan, Goto, AllCopied
<1>3. pc'[c] = "writeCheck" /\ readLock'[c] = 0 => (hdr'[c] = aHdr'[0] => nBackfill' = aHdr'[0].mxFrame)
  BY DEF Arrives, BeginWrite, Goto, AllCopied
<1>4. pc'[c] = "write" /\ readLock'[c] = 0 => (hdr'[c] = aHdr'[0] => nBackfill' = aHdr'[0].mxFrame)
  <2> SUFFICES ASSUME pc'[c] = "write", readLock'[c] = 0
               PROVE  hdr'[c] = aHdr'[0] => nBackfill' = aHdr'[0].mxFrame
    OBVIOUS
  <2>1. WriteCheck(c) \/ Check0(c) \/ CheckI(c) \/ Spill(c)
    BY DEF Arrives
  <2>2. ~Spill(c)
    <3> SUFFICES ASSUME Spill(c) PROVE FALSE
      OBVIOUS
    <3>1. InFrames(c) /\ readLock' = readLock
      BY DEF Spill
    <3> QED
      BY <3>1 DEF InFrames, SlotControl
  <2>3. ~CheckI(c)
    <3> SUFFICES ASSUME CheckI(c) PROVE FALSE
      OBVIOUS
    <3>1. readLock'[c] = mxI[c] \/ readLock' = readLock
      BY DEF CheckI, ReadTypes
    <3>2. mxI[c] \in ReadMarks /\ readLock[c] = -1
      BY DEF CheckI, Own, MarkControl, SlotControl, TryPCs
    <3> QED
      BY <3>1, <3>2, LockNumbers
  <2>4. CASE WriteCheck(c)
    BY <2>4 DEF WriteCheck, AllCopied, Goto
  <2>5. CASE Check0(c)
    BY <2>5 DEF Check0, AllCopied
  <2> QED
    BY <2>1, <2>2, <2>3, <2>4, <2>5
<1>5. pc'[c] = "read" /\ readLock'[c] = 0 => (hdr'[c] = aHdr'[0] => nBackfill' = aHdr'[0].mxFrame)
  <2> SUFFICES ASSUME pc'[c] = "read", readLock'[c] = 0
               PROVE  hdr'[c] = aHdr'[0] => nBackfill' = aHdr'[0].mxFrame
    OBVIOUS
  <2>1. Check0(c) \/ CheckI(c) \/ WriteCheck(c) \/ EndWrite(c) \/ Rollback(c)
    BY DEF Arrives
  <2>2. ~EndWrite(c)
    BY DEF EndWrite, SlotControl
  <2>3. ~CheckI(c)
    <3> SUFFICES ASSUME CheckI(c) PROVE FALSE
      OBVIOUS
    <3>1. readLock'[c] = mxI[c] \/ readLock' = readLock
      BY DEF CheckI, ReadTypes
    <3>2. mxI[c] \in ReadMarks /\ readLock[c] = -1
      BY DEF CheckI, Own, MarkControl, SlotControl, TryPCs
    <3> QED
      BY <3>1, <3>2, LockNumbers
  <2>4. CASE WriteCheck(c)
    BY <2>4 DEF WriteCheck, AllCopied, Goto
  <2>5. CASE Check0(c)
    BY <2>5 DEF Check0, AllCopied
  <2>6. CASE Rollback(c)
    <3>1. UNCHANGED <<aHdr, nBackfill, readLock>> /\ pc[c] = "write"
      BY <2>6 DEF Rollback, SlotControl
    <3> QED
      BY <3>1 DEF AllCopied, WriterHdr
  <2> QED
    BY <2>1, <2>2, <2>3, <2>4, <2>5, <2>6
<1>6. pc'[c] = "restart1" => nBackfill' = aHdr'[0].mxFrame
  <2>1. ASSUME RestartLog(c) PROVE nBackfill' = aHdr'[0].mxFrame
    BY <2>1 DEF RestartLog, WriterHdr, AllCopied
  <2>2. ASSUME CkptRestart(c) PROVE nBackfill' = aHdr'[0].mxFrame
    <3>1. /\ UNCHANGED <<aHdr, nBackfill>> /\ pc[c] = "ckptMode" /\ nBackfill >= hdr[c].mxFrame
      BY <2>2 DEF CkptRestart, WantsRestart
    <3>2. bWriteLock(c)
      BY <3>1 DEF ModeControl, Own, CkptControl, CkptPCs, bWriteLock, InCkpt
    <3>3. lockX[WAL_WRITE_LOCK] = c /\ hdr[c] = aHdr[0]
      BY <3>1, <3>2 DEF Own, WriterLock, WriterHdr, InFullCkpt, CkptPCs
    <3>4. nBackfill <= aHdr[0].mxFrame
      BY <3>1, <3>3, NoStores DEF BackfillBounded
    <3>5. nBackfill \in Nat /\ aHdr[0].mxFrame \in Nat
      BY HdrNumbers DEF ShmTypes, Header, Frame
    <3>6. nBackfill >= aHdr[0].mxFrame
      BY <3>1, <3>3
    <3>7. nBackfill = aHdr[0].mxFrame
      BY <3>4, <3>5, <3>6, BothBounds, Zenon
    <3> QED
      BY <3>1, <3>7
  <2> QED
    BY <2>1, <2>2 DEF Arrives
<1>7. pc'[c] = "restart0" => nBackfill' = aHdr'[0].mxFrame
  <2> SUFFICES ASSUME pc'[c] = "restart0" PROVE nBackfill' = aHdr'[0].mxFrame
    OBVIOUS
  <2>1. RestartHdr1(c)
    BY DEF Arrives
  <2>2. aHdr'[0] = aHdr[0] /\ nBackfill' = nBackfill /\ pc[c] = "restart1"
    BY <2>1 DEF RestartHdr1, ShmTypes
  <2> QED
    BY <2>2 DEF AllCopied
<1> QED
  BY <1>1, <1>2, <1>3, <1>4, <1>5, <1>6, <1>7 DEF AllCopied

\* While d ignores the log, a header of another version replaces its own.
LEMMA OthersCopied ==
    ASSUME NEW c \in Conn, NEW d \in Conn \ {c}, Step(c), ShmTypes, ControlTypes, HdrTypes, CkptTypes,
           Own(c), Own(d), Changes(c), Kept(c, d), RestartInv(c), CopyInv(c), HdrAge(c), HdrAge(d),
           CkptRange(c), FreshSalt(c), AllCopied(d)
    PROVE  AllCopied(d)'
<1>1. /\ pc'[d] = pc[d] /\ hdr'[d] = hdr[d] /\ readLock'[d] = readLock[d]
  BY DEF Kept
<1>2. CASE pc[d] \in {"restart1", "restart0"}
  <2>1. lockX[WAL_WRITE_LOCK] = d
    BY <1>2, LocksOfData DEF WriterPCs, RestartPCs
  <2>2. aHdr' = aHdr
    BY <2>1, HdrStoreStep
  <2>3. ~RestartBackfill(c)
    BY <2>1, LocksOfData DEF WriterPCs, RestartPCs, RestartBackfill
  <2>4. ~CkptDone(c)
    BY <1>2, HdrNumbers DEF CkptDone, CkptRange, CopyPCs, AllCopied
  <2>5. nBackfill' = nBackfill
    BY <2>3, <2>4 DEF Changes
  <2> QED
    BY <1>1, <1>2, <2>2, <2>5 DEF AllCopied
<1>3. CASE /\ pc[d] \in {"lock0", "check0"}
              \/ (readLock[d] = 0 /\ pc[d] \in {"read", "writeCheck", "write"})
           /\ hdr'[d] = aHdr'[0]
  <2>1. ~RestartHdr0(c)
    <3> SUFFICES ASSUME RestartHdr0(c) PROVE FALSE
      OBVIOUS
    <3>1. aHdr'[0] = hdr[c] /\ pc[c] = "restart0"
      BY DEF RestartHdr0, ShmTypes
    <3> QED
      BY <1>1, <1>3, <3>1 DEF FreshSalt
  <2>2. ~Publish0(c)
    <3> SUFFICES ASSUME Publish0(c) PROVE FALSE
      OBVIOUS
    <3>1. aHdr'[0] = hdr[c] /\ pc[c] = "publish0"
      BY DEF Publish0, ShmTypes
    <3>2. hdr[c].iChange = aHdr[0].iChange + 1 /\ hdr[d].iChange <= aHdr[0].iChange
      BY <1>3, <3>1 DEF HdrAge
    <3> QED
      BY <1>1, <1>3, <3>1, <3>2, HdrNumbers
  <2>3. aHdr'[0] = aHdr[0]
    BY <2>1, <2>2, FirstCopy
  <2>4. nBackfill = aHdr[0].mxFrame
    BY <1>1, <1>3, <2>3 DEF AllCopied
  <2>5. ~CkptDone(c)
    BY <2>4, HdrNumbers DEF CkptDone, CkptRange, CopyPCs
  <2>6. RestartBackfill(c) => nBackfill' = 0 /\ aHdr[0].mxFrame = 0
    BY DEF RestartBackfill, Reset, RestartInv
  <2>7. nBackfill' = aHdr'[0].mxFrame
    BY <2>3, <2>4, <2>5, <2>6 DEF Changes
  <2> QED
    BY <1>1, <1>3, <2>7 DEF AllCopied
<1> QED
  BY <1>1, <1>2, <1>3 DEF AllCopied

(***************************************************************************)
(* The bounds                                                              *)
(***************************************************************************)
\* A step of c keeps the counters within the log.
LEMMA BoundsStep ==
    ASSUME NEW c \in Conn, ShmTypes, ControlTypes, HdrTypes, CkptTypes, CopyInv(c), Changes(c), Arrives(c),
           \A d \in Conn \ {c} : Kept(c, d), CkptRange(c), WriterHdr(c), NoRecovery(c), 
           BackfillBounded, AttemptedBounded
    PROVE  BackfillBounded' /\ AttemptedBounded'
<1> USE HdrNumbers
<1>1. ASSUME pc'[c] # "restartBackfill"
      PROVE  aHdr[0].mxFrame <= aHdr'[0].mxFrame /\ aHdr'[0].mxFrame \in Nat
  <2>1. ~RestartHdr0(c)
    BY <1>1 DEF RestartHdr0, Goto, ControlTypes
  <2>2. aHdr'[0] = aHdr[0] \/ (aHdr'[0] = hdr[c] /\ hdr[c].mxFrame > aHdr[0].mxFrame)
    <3>1. aHdr'[0] = aHdr[0] \/ (aHdr'[0] = hdr[c] /\ Publish0(c))
      BY <2>1, FirstCopy
    <3>2. Publish0(c) => hdr[c].mxFrame > aHdr[0].mxFrame
      BY DEF WriterHdr, Publish0
    <3> QED
      BY <3>1, <3>2
  <2> QED
    BY <2>2
<1>2. pc[c] \notin {"recBackfill", "recAttempted"}
  BY DEF NoRecovery, RecPCs
<1>3. mxSafeFrame[c] \in Nat
  BY DEF CkptTypes, Frame
<1>4. ASSUME \A d \in Conn : pc'[d] \notin {"restartBackfill", "recBackfill"}
      PROVE  nBackfill' <= aHdr'[0].mxFrame
  <2>1. CASE RestartBackfill(c)
    <3>1. nBackfill' = 0 /\ aHdr' = aHdr
      BY <2>1 DEF RestartBackfill, Reset
    <3> QED
      BY <3>1
  <2>2. CASE ~RestartBackfill(c)
    <3>1. pc[c] # "restartBackfill"
      BY <2>2 DEF Arrives
    <3>2. nBackfill <= aHdr[0].mxFrame
      BY <1>2, <1>4, <3>1 DEF Kept, BackfillBounded
    <3>3. nBackfill' <= aHdr[0].mxFrame /\ nBackfill' \in Nat
      <4>1. CASE CkptDone(c)
        <5>1. nBackfill' = mxSafeFrame[c] /\ pc[c] \in CopyPCs /\ nBackfill < mxSafeFrame[c]
          BY <4>1 DEF CkptDone, CopyPCs, CopyInv
        <5> QED
          BY <1>3, <5>1 DEF CkptRange
      <4>2. CASE nBackfill' = nBackfill
        BY <3>2, <4>2
      <4> QED
        BY <2>2, <4>1, <4>2 DEF Changes
    <3> QED
      BY <1>1, <1>4, <3>3
  <2> QED
    BY <2>1, <2>2
<1>5. ASSUME \A d \in Conn : pc'[d] \notin {"restartBackfill", "restartAttempted", "recBackfill",
                                         "recAttempted"}
      PROVE  nBackfillAttempted' <= aHdr'[0].mxFrame
  <2>1. CASE RestartAttempted(c)
    <3>1. nBackfillAttempted' = 0 /\ aHdr' = aHdr
      BY <2>1 DEF RestartAttempted, Reset
    <3> QED
      BY <3>1
  <2>2. CASE ~RestartAttempted(c)
    <3>0. ~RestartBackfill(c)
      BY <1>5 DEF RestartBackfill, Goto, ControlTypes
    <3>1. pc[c] \notin {"restartBackfill", "restartAttempted"}
      BY <2>2, <3>0 DEF Arrives
    <3>2. nBackfillAttempted <= aHdr[0].mxFrame
      BY <1>2, <1>5, <3>1 DEF Kept, AttemptedBounded
    <3>3. nBackfillAttempted' <= aHdr[0].mxFrame /\ nBackfillAttempted' \in Nat
      <4>1. CASE CkptLock0(c)
        <5>1. nBackfillAttempted' \in {mxSafeFrame[c], nBackfillAttempted} /\ pc[c] \in CopyPCs
          BY <4>1 DEF CkptLock0, CopyPCs
        <5> QED
          BY <1>3, <3>2, <5>1 DEF CkptRange
      <4>2. CASE nBackfillAttempted' = nBackfillAttempted
        BY <3>2, <4>2
      <4> QED
        BY <2>2, <4>1, <4>2 DEF Changes
    <3> QED
      BY <1>1, <1>5, <3>3
  <2> QED
    BY <2>1, <2>2
<1> QED
  BY <1>4, <1>5 DEF BackfillBounded, AttemptedBounded

(***************************************************************************)
(* The invariant                                                           *)
(***************************************************************************)
\* A step of a connection keeps the invariant, unless it overtakes a
\* checkpointer that has read the header and not yet nBackfill.
LEMMA CounterStep ==
    ASSUME IInv, VersionInv, CounterInv, NEW c \in Conn, Step(c),
           \A d \in Conn \ {c} : pc[d] # "ckptInfo"
    PROVE  CounterInv'
<1>1. LiveStep(c) /\ Changes(c) /\ Arrives(c) /\ \A d \in Conn \ {c} : Kept(c, d)
  BY StepFacts
<1>2. /\ FileTypes /\ ShmTypes /\ ControlTypes /\ HdrTypes /\ ReadTypes /\ CkptTypes /\ HistTypes
      /\ \A d \in Conn : /\ Own(d) /\ TxnInv(d) /\ RestartInv(d) /\ CopyInv(d)
                         /\ NoRecovery(d) /\ ModeControl(d) /\ HdrAge(d)
  BY KnownFacts
<1>3. \A d \in Conn : MarkControl(d)
  BY <1>2 DEF Own
<1>4. /\ BackfillBounded /\ AttemptedBounded
      /\ \A d \in Conn : /\ SlotLock(d) /\ SlotControl(d) /\ CkptRange(d) /\ WriterHdr(d)
                         /\ FreshSalt(d) /\ AllCopied(d)
  BY DEF CounterInv
<1>5. BackfillBounded' /\ AttemptedBounded'
  BY <1>1, <1>2, <1>4, BoundsStep
<1>6. /\ SlotLock(c)' /\ SlotControl(c)' /\ CkptRange(c)' /\ WriterHdr(c)' /\ FreshSalt(c)'
      /\ AllCopied(c)'
  <2>1. SlotLock(c)' /\ SlotControl(c)'
    BY <1>1, <1>2, <1>4, OwnSlot
  <2>2. CkptRange(c)'
    BY <1>1, <1>2, <1>3, <1>4, OwnRange
  <2>3. WriterHdr(c)'
    BY <1>1, <1>2, <1>4, OwnWriterHdr
  <2>4. FreshSalt(c)'
    BY <1>1, <1>2, OwnSalt
  <2>5. AllCopied(c)'
    BY <1>1, <1>2, <1>4, OwnCopied
  <2> QED
    BY <2>1, <2>2, <2>3, <2>4, <2>5
<1>7. ASSUME NEW d \in Conn \ {c}
      PROVE  /\ SlotLock(d)' /\ SlotControl(d)' /\ CkptRange(d)' /\ WriterHdr(d)' /\ FreshSalt(d)'
             /\ AllCopied(d)'
  <2>1. SlotLock(d)' /\ SlotControl(d)'
    BY <1>1, <1>2, <1>3, <1>4, OthersSlot
  <2>2. CkptRange(d)'
    BY <1>1, <1>2, <1>4, OthersRange
  <2>3. WriterHdr(d)'
    BY <1>1, <1>2, <1>4, OthersWriterHdr
  <2>4. FreshSalt(d)'
    BY <1>1, <1>2, <1>4, OthersSalt
  <2>5. AllCopied(d)'
    BY <1>1, <1>2, <1>4, OthersCopied
  <2> QED
    BY <2>1, <2>2, <2>3, <2>4, <2>5
<1>8. \A d \in Conn : /\ SlotLock(d)' /\ SlotControl(d)' /\ CkptRange(d)' /\ WriterHdr(d)'
                      /\ FreshSalt(d)' /\ AllCopied(d)'
  BY <1>6, <1>7
<1> QED
  BY <1>5, <1>8 DEF CounterInv

\* CounterInv, as long as no process has been killed.
CountersUntilCrash == ~CkptPreempt /\ nCrash = 0 => CounterInv

\* It holds at first,
LEMMA CounterInit == Init => CountersUntilCrash
<1> SUFFICES ASSUME Init PROVE CounterInv
  BY DEF CountersUntilCrash
<1>1. /\ nBackfill = 0 /\ nBackfillAttempted = 0 /\ aHdr[0].mxFrame = 0
      /\ \A c \in Conn : pc[c] = "idle" /\ eMode[c] = "NONE" /\ readLock[c] = -1
  BY DEF Init, ZeroHdr
<1> QED
  BY <1>1 DEF CounterInv, BackfillBounded, AttemptedBounded, SlotLock, SlotControl, CkptRange,
     WriterHdr, FreshSalt, AllCopied, InWrite, InFullCkpt, bWriteLock, InCkpt, WritePCs, TryPCs,
     RestartPCs, CkptPCs, CopyPCs

\* and is kept by every step.
LEMMA CounterNext ==
    ASSUME IInv, VersionsUntilCrash, CountersUntilCrash, [Next]_vars
    PROVE  CountersUntilCrash'
<1> SUFFICES ASSUME ~CkptPreempt, nCrash' = 0 PROVE CounterInv'
  BY DEF CountersUntilCrash
<1>n. nCrash \in Nat
  BY BoundAssumption DEF IInv, TypeOK, HistTypes
<1>1. ASSUME NEW c \in Conn, MayRun(c), Step(c) PROVE CounterInv'
  <2>1. nCrash' = nCrash
    BY <1>1, CrashCount
  <2>2. VersionInv /\ CounterInv
    BY <2>1 DEF VersionsUntilCrash, CountersUntilCrash
  <2>3. \A d \in Conn \ {c} : pc[d] # "ckptInfo"
    BY <1>1 DEF MayRun
  <2> QED
    BY <1>1, <2>2, <2>3, CounterStep
<1>2. ASSUME NEW c \in Conn, Crash(c) PROVE FALSE
  BY <1>2, <1>n DEF Crash
<1>3. CASE CrashAll
  BY <1>3, <1>n DEF CrashAll
<1>4. CASE UNCHANGED vars
  <2>1. CounterInv
    BY <1>4 DEF CountersUntilCrash, vars
  <2>2. UNCHANGED <<aHdr, nBackfill, nBackfillAttempted, lockX, lockS, pc, hdr, readLock, mxI, eMode, y,
                    mxSafeFrame>>
    BY <1>4 DEF vars, shmVars, infoVars, lockVars, hdrVars, readVars, ckptVars
  <2>3. BackfillBounded' /\ AttemptedBounded'
    BY <2>1, <2>2 DEF CounterInv, BackfillBounded, AttemptedBounded
  <2>4. ASSUME NEW c \in Conn
        PROVE  /\ SlotLock(c)' /\ SlotControl(c)' /\ CkptRange(c)' /\ FreshSalt(c)' /\ AllCopied(c)'
    BY <2>1, <2>2 DEF CounterInv, SlotLock, SlotControl, CkptRange, FreshSalt, AllCopied
  <2>5. ASSUME NEW c \in Conn PROVE WriterHdr(c)'
    BY <2>1, <2>2 DEF CounterInv, WriterHdr, InWrite, InFullCkpt, bWriteLock, InCkpt
  <2> QED
    BY <2>3, <2>4, <2>5 DEF CounterInv
<1> QED
  BY <1>1, <1>2, <1>3, <1>4 DEF Next, Step

\* Until a process is killed, the counters are those of the log there is.
THEOREM CounterInvariant == Spec => []CountersUntilCrash
<1> QED
  BY CounterInit, CounterNext, InductiveInvariant, VersionInvariant, PTL DEF Spec

(***************************************************************************)
(* Theorems                                                                *)
(***************************************************************************)
\* "The nBackfill number is never greater than WalIndexHdr.mxFrame" (struct
\* WalCkptInfo): until a process is killed, and if nobody restarts the log
\* between a checkpointer's read of the header and its load of nBackfill.
THEOREM BackfillBoundedUntilCrash == Spec => [](~CkptPreempt /\ nCrash = 0 => BackfillBounded)
<1>1. CountersUntilCrash => (~CkptPreempt /\ nCrash = 0 => BackfillBounded)
  BY DEF CountersUntilCrash, CounterInv
<1> QED
  BY <1>1, CounterInvariant, PTL

\* Under the same conditions a checkpoint claims (nBackfillAttempted, set
\* before the copy) only frames that are committed.
THEOREM AttemptedBoundedUntilCrash == Spec => [](~CkptPreempt /\ nCrash = 0 => AttemptedBounded)
<1>1. CountersUntilCrash => (~CkptPreempt /\ nCrash = 0 => AttemptedBounded)
  BY DEF CountersUntilCrash, CounterInv
<1> QED
  BY <1>1, CounterInvariant, PTL
(***************************************************************************)
(* The order of the two counters, whoever is killed                        *)
(***************************************************************************)
\* A step of a recovery.
RecStep(c) ==
    \/ HdrLock(c) \/ HdrRetry(c) \/ RecoverLock(c) \/ RecoverBusy(c) \/ RecoverScan(c)
    \/ RecoverHdr(c) \/ RecoverInfo(c) \/ RecoverMarkLock(c) \/ RecoverMarkSet(c) \/ RecoverEnd(c)

\* It takes no slot.
LEMMA RecKeeps ==
    ASSUME NEW c \in Conn, RecStep(c)
    PROVE  /\ UNCHANGED <<lockS, readLock, mxI, mxSafeFrame, eMode>>
           /\ nBackfill' = nBackfill \/ RecoverBackfill(c)
           /\ nBackfillAttempted' = nBackfillAttempted \/ RecoverAttempted(c)
<1> USE DEF shmVars, infoVars, lockVars, readVars, ckptVars
<1>1. CASE HdrLock(c) \/ HdrRetry(c) \/ RecoverLock(c) \/ RecoverBusy(c) \/ RecoverScan(c)
  BY <1>1 DEF HdrLock, HdrRetry, RecoverLock, RecoverBusy, RecoverScan
<1>2. CASE RecoverHdr(c) \/ RecoverMarkLock(c) \/ RecoverMarkSet(c) \/ RecoverEnd(c)
  BY <1>2 DEF RecoverHdr, RecoverMarkLock, RecoverMarkSet, RecoverEnd
<1>3. CASE RecoverBackfill(c)
  BY <1>3 DEF RecoverBackfill
<1>4. CASE RecoverAttempted(c)
  BY <1>4 DEF RecoverAttempted
<1> QED
  BY <1>1, <1>2, <1>3, <1>4, Zenon DEF RecStep, RecoverInfo

\* It ends where a transaction or a checkpoint goes on.
LEMMA RecArrives ==
    ASSUME NEW c \in Conn, RecStep(c), ControlTypes
    PROVE  /\ pc[c] \in RecPCs \cup {"hdr", "hdrLocked"}
           /\ pc'[c] \in RecPCs \cup {"hdr", "hdrLocked", "backfill", "ckptInfo", "ckptEnd"}
           /\ pc'[c] = "recAttempted" => RecoverBackfill(c)
  BY DEF RecStep, HdrLock, HdrRetry, RecoverLock, RecoverBusy, RecoverScan, RecoverHdr,
     RecoverInfo, RecoverBackfill, RecoverAttempted, RecoverMarkLock, RecoverMarkSet, RecoverEnd,
     AfterHdr, Goto, RecPCs, ControlTypes

\* Every step is one or the other.
LEMMA LiveOrRec ==
    ASSUME NEW c \in Conn, Step(c)
    PROVE  LiveStep(c) \/ RecStep(c)
  BY Zenon DEF LiveStep, RecStep, Step, CallStep, HdrStep, ReadStep, WriteStep, CkptStep, UserStep

\* While one connection copies, no other restarts the log or recovers.
LEMMA CopyAlone ==
    ASSUME NEW c \in Conn, NEW d \in Conn \ {c}, LockExcludes, Own(c), Own(d), SlotLock(c),
           SlotControl(c), pc[d] \in {"ckptCopy", "ckptDone"}
    PROVE  pc[c] \notin RestartPCs \cup RecPCs \cup CkptPCs
<1>1. lockX[WAL_CKPT_LOCK] = d /\ lockX[WAL_READ_LOCK(0)] = d
  BY DEF Own, CkptControl, CkptLock, MarkLocks, CkptPCs
<1>2. pc[c] \notin RecPCs \cup CkptPCs /\ eMode[c] = "NONE"
  BY <1>1 DEF Own, CkptControl, CkptLock
<1>3. WAL_READ_LOCK(0) \in Locks
  BY LockNumbers
<1>4. lockS[WAL_READ_LOCK(0)] = {}
  BY <1>1, <1>3, ConnAssumption DEF LockExcludes
<1>5. pc[c] \in RestartPCs => readLock[c] = 0
  BY <1>2 DEF SlotControl
<1> QED
  BY <1>2, <1>4, <1>5 DEF SlotLock

\* A step of c leaves the slots in order.
LEMMA SlotsStep ==
    ASSUME IInv, NEW c \in Conn, Step(c), \A d \in Conn : SlotLock(d) /\ SlotControl(d)
    PROVE  /\ \A d \in Conn : SlotLock(d)' /\ SlotControl(d)'
           /\ \A d \in Conn \ {c} : pc'[d] = pc[d] /\ mxSafeFrame'[d] = mxSafeFrame[d]
<1>0. /\ FileTypes /\ ShmTypes /\ ControlTypes /\ HdrTypes /\ ReadTypes /\ CkptTypes /\ HistTypes
      /\ \A d \in Conn : Own(d) /\ MarkControl(d)
  BY IInvByConn DEF ConnInv, IInv, TypeOK, Own
<1>1. CASE LiveStep(c)
  <2>1. \A d \in Conn \ {c} : Kept(c, d)
    BY <1>0, <1>1, StepKeeps
  <2>2. SlotLock(c)' /\ SlotControl(c)'
    BY <1>0, <1>1, OwnSlot
  <2>3. \A d \in Conn \ {c} : SlotLock(d)' /\ SlotControl(d)'
    BY <1>0, <2>1, OthersSlot
  <2> QED
    BY <2>1, <2>2, <2>3 DEF Kept
<1>2. CASE RecStep(c)
  <2>1. UNCHANGED <<lockS, readLock, mxI, mxSafeFrame, eMode>>
    BY <1>2, RecKeeps
  <2>2. \A d \in Conn \ {c} : pc'[d] = pc[d]
    BY <1>0, LocksOfOthers
  <2>3. \A d \in Conn \ {c} : SlotLock(d)' /\ SlotControl(d)'
    BY <2>1, <2>2 DEF SlotLock, SlotControl
  <2>4. readLock'[c] = -1
    BY <1>0, <1>2, <2>1, RecArrives DEF SlotControl
  <2>5. pc'[c] \in RecPCs \cup {"hdr", "hdrLocked", "backfill", "ckptInfo", "ckptEnd"}
    BY <1>0, <1>2, RecArrives
  <2>6. SlotLock(c)' /\ SlotControl(c)'
    BY <2>4, <2>5 DEF SlotLock, SlotControl, RecPCs, WritePCs, RestartPCs
  <2> QED
    BY <2>1, <2>2, <2>3, <2>6
<1> QED
  BY <1>1, <1>2, LiveOrRec

\* A step of c keeps the counters in order.
LEMMA AttemptStep ==
    ASSUME IInv, AttemptInv, NEW c \in Conn, Step(c)
    PROVE  AttemptInv'
<1>0. /\ ShmTypes /\ ControlTypes /\ HdrTypes /\ CkptTypes /\ LockExcludes /\ AttemptedCovers
      /\ \A d \in Conn : /\ Own(d) /\ CopyInv(d) /\ SlotLock(d) /\ SlotControl(d)
                         /\ CountersInOrder(d)
  BY IInvByConn DEF ConnInv, IInv, TypeOK, AttemptInv
<1>1. /\ \A d \in Conn : SlotLock(d)' /\ SlotControl(d)'
      /\ \A d \in Conn \ {c} : pc'[d] = pc[d] /\ mxSafeFrame'[d] = mxSafeFrame[d]
  BY <1>0, SlotsStep
<1>n. /\ nBackfill \in Nat /\ nBackfillAttempted \in Nat /\ hdr[c].mxFrame \in Nat
      /\ \A d \in Conn : mxSafeFrame[d] \in Nat
  BY <1>0, HdrNumbers DEF CkptTypes, Frame
<1>2. \/ nBackfill' = nBackfill
      \/ nBackfill' = 0 /\ nBackfillAttempted' = nBackfillAttempted
      \/ CkptDone(c)
  <2>1. CASE LiveStep(c)
    <3>1. nBackfill' = nBackfill \/ RestartBackfill(c) \/ CkptDone(c)
      BY <2>1, StepChanges DEF Changes
    <3> QED
      BY <3>1 DEF RestartBackfill, Reset
  <2>2. CASE RecStep(c)
    BY <2>2, RecKeeps DEF RecoverBackfill
  <2> QED
    BY <2>1, <2>2, LiveOrRec
<1>3. \/ nBackfillAttempted' = nBackfillAttempted
      \/ /\ pc[c] \in {"restartAttempted", "recAttempted"} /\ nBackfill' = nBackfill
         /\ nBackfillAttempted' \in Nat
      \/ /\ pc[c] = "ckptMarks" /\ nBackfill' = nBackfill
         /\ nBackfillAttempted' = mxSafeFrame[c] /\ nBackfill < mxSafeFrame[c]
  <2>1. CASE LiveStep(c)
    <3>1. nBackfillAttempted' = nBackfillAttempted \/ RestartAttempted(c) \/ CkptLock0(c)
      BY <2>1, StepChanges DEF Changes
    <3> QED
      BY <3>1 DEF RestartAttempted, Reset, CkptLock0, MoreToCopy
  <2>2. CASE RecStep(c)
    BY <1>n, <2>2, RecKeeps DEF RecoverAttempted
  <2> QED
    BY <2>1, <2>2, LiveOrRec
<1>4. CkptDone(c) => /\ nBackfill' = mxSafeFrame[c] /\ nBackfillAttempted' = nBackfillAttempted
                     /\ pc[c] = "ckptDone"
  BY DEF CkptDone
<1>5. AttemptedCovers'
  BY <1>0, <1>n, <1>2, <1>3, <1>4 DEF AttemptedCovers, CountersInOrder
<1>6. ASSUME NEW d \in Conn \ {c} PROVE CountersInOrder(d)'
  <2>1. pc[d] \in {"ckptCopy", "ckptDone"} => pc[c] \notin RestartPCs \cup RecPCs \cup CkptPCs
    BY <1>0, CopyAlone
  <2>2. pc[d] \in {"ckptCopy", "ckptDone"} => nBackfillAttempted' = nBackfillAttempted
    BY <1>3, <2>1 DEF RestartPCs, RecPCs, CkptPCs
  <2>3. pc[c] \in {"ckptCopy", "ckptDone"} => pc[d] \notin RestartPCs \cup RecPCs
    BY <1>0, CopyAlone
  <2>4. pc[d] \in {"restartAttempted", "recAttempted"} => nBackfill' = 0
    BY <1>0, <1>2, <1>4, <2>3 DEF RestartPCs, RecPCs, CountersInOrder
  <2> QED
    BY <1>0, <1>1, <2>2, <2>4 DEF CountersInOrder
<1>7. CountersInOrder(c)'
  <2>1. CASE LiveStep(c)
    <3>1. Arrives(c) /\ Changes(c)
      BY <1>0, <2>1, StepArrives, StepChanges
    <3>2. pc'[c] # "recAttempted"
      BY <3>1 DEF Arrives
    <3>3. pc'[c] = "restartAttempted" => nBackfill' = 0
      BY <3>1 DEF Arrives, RestartBackfill, Reset
    <3>4. ASSUME pc'[c] \in {"ckptCopy", "ckptDone"}
          PROVE  mxSafeFrame'[c] <= nBackfillAttempted'
      <4>1. CASE CkptLock0(c)
        BY <1>0, <1>n, <3>4, <4>1 DEF CkptLock0, AfterCopy, Goto, ControlTypes
      <4>2. CASE CkptCopy(c) \/ CkptTruncateDb(c)
        <5>1. /\ pc[c] = "ckptCopy" /\ mxSafeFrame' = mxSafeFrame
              /\ nBackfillAttempted' = nBackfillAttempted
          BY <4>2 DEF CkptCopy, CkptTruncateDb, shmVars, infoVars, ckptVars
        <5> QED
          BY <1>0, <5>1 DEF CountersInOrder
      <4> QED
        BY <3>1, <3>4, <4>1, <4>2 DEF Arrives
    <3> QED
      BY <3>2, <3>3, <3>4 DEF CountersInOrder
  <2>2. CASE RecStep(c)
    <3>1. pc'[c] \notin {"restartAttempted", "ckptCopy", "ckptDone"}
      BY <1>0, <2>2, RecArrives DEF RecPCs
    <3>2. pc'[c] = "recAttempted" => nBackfill' = 0
      BY <1>0, <2>2, RecArrives DEF RecoverBackfill
    <3> QED
      BY <3>1, <3>2 DEF CountersInOrder
  <2> QED
    BY <2>1, <2>2, LiveOrRec
<1> QED
  BY <1>1, <1>5, <1>6, <1>7 DEF AttemptInv

\* Whoever is killed starts again without a slot.
LEMMA AttemptReset ==
    ASSUME IInv, AttemptInv, NEW C \in SUBSET Conn, ResetConn(C)
    PROVE  /\ \A c \in Conn : SlotLock(c)' /\ SlotControl(c)'
           /\ \A c \in Conn : IF c \in C THEN pc'[c] = "idle"
                              ELSE pc'[c] = pc[c] /\ mxSafeFrame'[c] = mxSafeFrame[c]
<1>0. ControlTypes /\ ReadTypes /\ \A c \in Conn : SlotLock(c) /\ SlotControl(c) /\ MarkControl(c)
  BY IInvByConn DEF ConnInv, IInv, TypeOK, AttemptInv, Own
<1>1. ASSUME NEW c \in C PROVE pc'[c] = "idle" /\ readLock'[c] = -1
  BY <1>1 DEF ResetConn
<1>2. ASSUME NEW c \in Conn, c \notin C
      PROVE  /\ pc'[c] = pc[c] /\ eMode'[c] = eMode[c] /\ readLock'[c] = readLock[c]
             /\ mxI'[c] = mxI[c] /\ mxSafeFrame'[c] = mxSafeFrame[c]
             /\ \A l \in Locks : c \in lockS[l] => c \in lockS'[l]
  BY <1>2 DEF ResetConn
<1>3. ASSUME NEW c \in C PROVE SlotLock(c)' /\ SlotControl(c)'
  BY <1>1 DEF SlotLock, SlotControl, WritePCs, RestartPCs
<1>4. ASSUME NEW c \in Conn, c \notin C PROVE SlotLock(c)' /\ SlotControl(c)'
  <2>1. readLock[c] >= 0 => WAL_READ_LOCK(readLock[c]) \in Locks
    BY <1>0, LockNumbers DEF ReadTypes
  <2>2. /\ WAL_READ_LOCK(0) \in Locks
        /\ pc[c] \in {"minFrame", "checkI"} => WAL_READ_LOCK(mxI[c]) \in Locks
    BY <1>0, LockNumbers DEF MarkControl
  <2> QED
    BY <1>0, <1>2, <1>4, <2>1, <2>2 DEF SlotLock, SlotControl
<1> QED
  BY <1>1, <1>2, <1>3, <1>4

\* The order holds at first,
LEMMA AttemptInit == Init => AttemptInv
<1> SUFFICES ASSUME Init PROVE AttemptInv
  OBVIOUS
<1>1. /\ nBackfill = 0 /\ nBackfillAttempted = 0
      /\ \A c \in Conn : pc[c] = "idle" /\ readLock[c] = -1
  BY DEF Init
<1> QED
  BY <1>1 DEF AttemptInv, AttemptedCovers, SlotLock, SlotControl, CountersInOrder, WritePCs, RestartPCs

\* and is kept by every step.
LEMMA AttemptNext ==
    ASSUME IInv, AttemptInv, [Next]_vars
    PROVE  AttemptInv'
<1>1. ASSUME NEW c \in Conn, Step(c) PROVE AttemptInv'
  BY <1>1, AttemptStep
<1>2. ASSUME NEW c \in Conn, Crash(c) PROVE AttemptInv'
  <2>1. UNCHANGED <<nBackfill, nBackfillAttempted>> /\ ResetConn({c}) /\ {c} \in SUBSET Conn
    BY <1>2 DEF Crash, shmVars, infoVars
  <2>2. \A d \in Conn : SlotLock(d)' /\ SlotControl(d)'
    BY <2>1, AttemptReset
  <2>3. \A d \in Conn : pc'[d] = "idle" \/ (pc'[d] = pc[d] /\ mxSafeFrame'[d] = mxSafeFrame[d])
    BY <2>1, AttemptReset
  <2> QED
    BY <2>1, <2>2, <2>3 DEF AttemptInv, AttemptedCovers, CountersInOrder
<1>3. CASE CrashAll
  <2>1. nBackfill' = 0 /\ nBackfillAttempted' = 0 /\ ResetConn(Conn) /\ Conn \in SUBSET Conn
    BY <1>3 DEF CrashAll
  <2>2. \A d \in Conn : SlotLock(d)' /\ SlotControl(d)' /\ pc'[d] = "idle"
    BY <2>1, AttemptReset
  <2> QED
    BY <2>1, <2>2 DEF AttemptInv, AttemptedCovers, CountersInOrder
<1>4. CASE UNCHANGED vars
  <2>1. UNCHANGED <<nBackfill, nBackfillAttempted, lockS, pc, readLock, mxI, eMode, mxSafeFrame>>
    BY <1>4 DEF vars, shmVars, infoVars, lockVars, readVars, ckptVars
  <2> QED
    BY <2>1 DEF AttemptInv, AttemptedCovers, SlotLock, SlotControl, CountersInOrder
<1> QED
  BY <1>1, <1>2, <1>3, <1>4 DEF Next, Step

\* nBackfill never exceeds nBackfillAttempted (struct WalCkptInfo), in every
\* schedule and wherever processes are killed: walCheckpoint raises
\* nBackfillAttempted before it copies, and walRestartHdr and walIndexRecover,
\* which no copy overlaps, lower nBackfill first.
THEOREM AttemptedCoversCorrect == Spec => []AttemptedCovers
<1>1. AttemptInv => AttemptedCovers
  BY DEF AttemptInv
<1> QED
  BY <1>1, AttemptInit, AttemptNext, InductiveInvariant, PTL DEF Spec
=============================================================================
