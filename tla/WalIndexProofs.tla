--------------------------- MODULE WalIndexProofs ---------------------------
(***************************************************************************)
(* What the words of the wal-index always mean (HeadersInv), what its hash *)
(* tables hold (TablesInv) and where searches in them are (SearchInv), and *)
(* that every step of WalIndex keeps it; the tables, as long as no writer  *)
(* is killed inside the memset of walCleanupHash.                          *)
(***************************************************************************)
EXTENDS WalIndex, FiniteSetTheorems, WellFoundedInduction, TLAPS

(***************************************************************************)
(* Headers                                                                 *)
(***************************************************************************)
\* The headers and the frames that there can be.
Header == [mxFrame : 0..MaxFrame, nPage : 0..MaxPage, aSalt : Nat, aCksum : (0..MaxFrame) \X (0..MaxPage) \X Nat]
Frame == [pg : Pgno, nTruncate : 0..MaxPage, ok : BOOLEAN]

\* Every frame up to m is valid, and m is the last one of a transaction.
IsCommit(m) == m \in 1..Len(log) /\ log[m].nTruncate # 0 /\ \A i \in 1..m : log[i].ok

\* A header may say this of the log as it is now; one without frames may be
\* about the next log already.
Says(m, n, salt) ==
    \/ m = 0 /\ salt \in {logSalt, logSalt + 1}
    \/ IsCommit(m) /\ salt = logSalt /\ n = log[m].nTruncate

\* The word with the checksum was taken from a header that says so.
SumOk(hdr) ==
    /\ hdr.nPage = hdr.aCksum[2] /\ hdr.aSalt = hdr.aCksum[3]
    /\ Says(hdr.aCksum[1], hdr.nPage, hdr.aSalt)

\* A reader accepts the header; what the writer is doing; the words that
\* walIndexWriteHdr stores together with the checksum.
IsGood == HdrOk(aHdr[0], aHdr[1])
IsStoring == w.pc \in {"hdr1", "hdr0"}
InTransaction == w.pc \in {"open", "append", "pgno", "slot", "cleanup"}
IsAppending == w.pc \in {"append", "pgno", "slot"} \/ (w.pc = "cleanup" /\ w.ret = "pgno")
SumWord == {"nPage", "aSalt", "aCksum"}

\* Frame m of the log of a salt is one that the header has, or the header that
\* is being stored.
IsCurrent(m, salt) ==
    /\ IsGood => m <= aHdr[0].mxFrame /\ salt = aHdr[0].aSalt
    /\ IsStoring => m <= w.hdr.mxFrame /\ salt = w.hdr.aSalt

\* The log and the counters are in their sets.
LogInv ==
    /\ log \in Seq(Frame) /\ Len(log) <= MaxFrame
    /\ logSalt \in Nat \ {0}
    /\ nBackfill \in 0..MaxFrame /\ nCrash \in 0..MaxCrash

\* Each copy of the header has words of headers that were true when stored.
HdrInv ==
    /\ aHdr \in [0..1 -> Header]
    /\ SumOk(aHdr[0]) /\ SumOk(aHdr[1])

\* The fields of the writer.
WriterType ==
    w \in [pc : {"idle", "recover", "hdr1", "hdr0", "open", "append", "pgno", "slot", "cleanup"},
           ret : {"idle", "commit", "restart", "recover", "open", "pgno"},
           hdr : Header, iFrame : Nat, list : Seq(Pgno), nTruncate : 0..MaxPage, todo : SUBSET Words, save : Header]

\* The words of the header that have been stored in a copy.
IsStored(copy) ==
    /\ {"mxFrame"} \notin w.todo => copy.mxFrame = w.hdr.mxFrame
    /\ SumWord \notin w.todo => copy.nPage = w.hdr.nPage /\ copy.aSalt = w.hdr.aSalt /\ copy.aCksum = w.hdr.aCksum

\* A header that is stored.
StoringInv ==
    /\ w.ret \in {"commit", "restart", "recover"}
    /\ w.hdr.aSalt # 0 /\ w.hdr = Hdr(w.hdr.mxFrame, w.hdr.nPage, w.hdr.aSalt)
    /\ Says(w.hdr.mxFrame, w.hdr.nPage, w.hdr.aSalt)
    /\ w.todo # {}
    /\ w.pc = "hdr1" => IsStored(aHdr[1])
    /\ w.pc = "hdr0" => aHdr[1] = w.hdr /\ IsStored(aHdr[0])
    /\ w.ret = "commit" => /\ w.hdr.mxFrame # 0
                           /\ aHdr[0].aCksum[1] <= w.hdr.mxFrame /\ aHdr[0].aSalt = w.hdr.aSalt
    /\ w.ret = "restart" => w.hdr.mxFrame = 0 /\ aHdr[0].mxFrame \in {0, nBackfill}
    /\ w.ret = "recover" => (IsGood => aHdr[0].mxFrame = w.hdr.mxFrame)
    /\ w.ret # "commit" => ck.pc = "idle"

\* A transaction has the committed frames and its own.
TransactionInv ==
    /\ IsGood
    /\ w.hdr = Hdr(w.hdr.mxFrame, w.hdr.nPage, w.hdr.aSalt)
    /\ w.hdr.aSalt = aHdr[0].aSalt /\ aHdr[0].mxFrame <= w.hdr.mxFrame
    /\ w.hdr.mxFrame # 0 => w.hdr.aSalt = logSalt /\ w.hdr.mxFrame <= Len(log)
    /\ w.save # ZeroHdr => aHdr[0].mxFrame <= (IF w.save.aSalt = w.hdr.aSalt THEN w.save.mxFrame ELSE 0)

\* What is still to be entered in the tables are the frames of the log from
\* iFrame, valid ones if they are committed.
AppendInv ==
    /\ w.hdr.aSalt = logSalt
    /\ w.hdr.mxFrame < w.iFrame /\ w.list # <<>> /\ w.iFrame + Len(w.list) = Len(log) + 1
    /\ \A i \in 1..Len(w.list) : log[w.iFrame + i - 1].pg = w.list[i]
    /\ w.nTruncate # 0 => log[Len(log)].nTruncate = w.nTruncate /\ \A i \in 1..Len(log) : log[i].ok

\* The writer, at each place it can be.
WriterInv ==
    /\ WriterType
    /\ w.pc = "recover" => ~IsGood /\ ck.pc = "idle"
    /\ IsStoring => StoringInv
    /\ InTransaction => TransactionInv
    /\ IsAppending => AppendInv
    /\ w.pc = "cleanup" => w.hdr.mxFrame # 0 /\ w.ret \in {"idle", "open", "pgno"}

\* A checkpointer has loaded words of headers that say what is true, and works
\* on one of them.
CkptInv ==
    /\ ck.pc \in {"idle", "copy0", "copy1", "loaded", "iterate", "done"}
    /\ ck.h1 \in Header /\ ck.h2 \in Header /\ ck.todo \in SUBSET Words
    /\ ck = [pc |-> ck.pc, h1 |-> ck.h1, h2 |-> ck.h2, todo |-> ck.todo, nBackfill |-> ck.nBackfill,
             mxSafeFrame |-> ck.mxSafeFrame, aIndex |-> ck.aIndex, iPrior |-> ck.iPrior, out |-> ck.out]
    /\ (ck.pc = "copy0" /\ SumWord \notin ck.todo) \/ ck.pc \in {"copy1", "loaded", "iterate", "done"} =>
          SumOk(ck.h1) /\ IsCurrent(ck.h1.aCksum[1], ck.h1.aSalt)
    /\ ck.pc \in {"iterate", "done"} =>
          /\ ck.h1 = Hdr(ck.h1.mxFrame, ck.h1.nPage, ck.h1.aSalt)
          /\ nBackfill < ck.h1.mxFrame
          /\ ck.mxSafeFrame \in 0..ck.h1.mxFrame

\* The fields of a reader.
ReaderType(a) ==
    /\ a.pc \in {"idle", "walk", "found"} /\ a.mxFrame \in 0..MaxFrame /\ a.minFrame \in Nat
    /\ a = [pc |-> a.pc, mxFrame |-> a.mxFrame, minFrame |-> a.minFrame, pgno |-> a.pgno,
            iHash |-> a.iHash, iKey |-> a.iKey, iRead |-> a.iRead]

\* A snapshot is a transaction of the log.
ReaderInv(a) == ReaderType(a) /\ (a.pc # "idle" => IsCommit(a.mxFrame) /\ IsCurrent(a.mxFrame, logSalt) /\ a.minFrame # 0)
ReadersInv == rd = [r \in Readers |-> rd[r]] /\ \A r \in Readers : ReaderInv(rd[r])

\* The inductive invariant of the headers.
HeadersInv == LogInv /\ HdrInv /\ WriterInv /\ CkptInv /\ ReadersInv

(***************************************************************************)
(* Hash tables                                                             *)
(***************************************************************************)
\* Where a frame is in its table, and the slots of a table.
Index(f) == f - iZero(walFramePage(f))
Slot == 0..(HASHTABLE_NSLOT - 1)

\* Index i of a table has one slot, and those that a search for its page looks
\* at before are of frames before it.
HasSlot(pg, slot, i) ==
    /\ \E j \in Slot : /\ slot[Probe(pg[i], j)] = i
                       /\ \A j2 \in 0..(j - 1) : slot[Probe(pg[i], j2)] \in 1..(i - 1)
    /\ \A k, k2 \in Slot : slot[k] = i /\ slot[k2] = i => k = k2

\* A frame that a search finds, and all up to n.
Placed(f) ==
    /\ aPgno[walFramePage(f)][Index(f)] = log[f].pg
    /\ HasSlot(aPgno[walFramePage(f)], aHash[walFramePage(f)], Index(f))
PlacedUpTo(n) == \A f \in 1..n : Placed(f)

\* There is nothing above index n.
IsClean(pg, slot, n) == (\A i \in DOMAIN pg : i > n => pg[i] = 0) /\ \A k \in Slot : slot[k] <= n

\* The page numbers have no gap, and slots are of indices that have one.
IsOrderly(pg, slot) ==
    /\ \A i \in DOMAIN pg : pg[i] # 0 => \A i2 \in 1..i : pg[i2] # 0
    /\ \A k \in Slot : slot[k] # 0 => pg[slot[k]] # 0

\* The tables have page numbers and indices of frames.
TablesType ==
    /\ aPgno = [h \in Tables |-> aPgno[h]] /\ aHash = [h \in Tables |-> aHash[h]]
    /\ \A h \in Tables : /\ aPgno[h] \in [1..TableSize(h) -> {0} \cup Pgno]
                         /\ aHash[h] \in [Slot -> 0..TableSize(h)]

\* Only a recovery has tables in disorder, those it is going to copy over.
OrderInv ==
    \A h \in Tables : IsGood \/ IsStoring \/ h > walFramePage(Len(Valid) + 1) => IsOrderly(aPgno[h], aHash[h])

\* Whoever has a snapshot finds its frames.
SnapshotsPlaced ==
    /\ \A r \in Readers : rd[r].pc # "idle" => PlacedUpTo(rd[r].mxFrame)
    /\ IsGood => PlacedUpTo(aHdr[0].mxFrame)
    /\ IsStoring \/ InTransaction => PlacedUpTo(w.hdr.mxFrame)
    /\ IsAppending => PlacedUpTo(w.iFrame - 1)

\* The remains of others are gone before a frame is entered.
RemainsInv ==
    /\ w.pc = "cleanup" /\ w.ret = "pgno" => w.iFrame = w.hdr.mxFrame + 1 /\ idx # 1
    /\ w.pc = "pgno" \/ (w.pc = "append" /\ w.iFrame > w.hdr.mxFrame + 1 /\ idx # 1) =>
          IsClean(aPgno[iHashNow], aHash[iHashNow], idx - 1)
    /\ w.pc = "slot" => /\ \A i \in DOMAIN aPgno[iHashNow] : i > idx => aPgno[iHashNow][i] = 0
                        /\ \A k \in Slot : aHash[iHashNow][k] <= idx - 1
                        /\ aPgno[iHashNow][idx] = Head(w.list)

\* The inductive invariant of the tables, together with that of the headers.
TablesInv == TablesType /\ OrderInv /\ SnapshotsPlaced /\ RemainsInv

\* The frames of a reader's snapshot that are of its page, and those of them in
\* the table where it searches.
Wanted(a) == {f \in a.minFrame..a.mxFrame : log[f].pg = a.pgno}
WantedHere(a) == {f \in Wanted(a) : walFramePage(f) = a.iHash}

\* A search: the newest frame in the table is found already, or its slot is
\* ahead; the tables after it have no frame of the page.
SearchOk(a) ==
    /\ a.pc # "idle" => a.pgno \in Pgno
    /\ a.pc = "walk" =>
          /\ a.iHash \in Tables /\ a.iRead \in Nat
          /\ \A f \in Wanted(a) : walFramePage(f) <= a.iHash
          /\ \E j \in Slot :
                /\ a.iKey = Probe(a.pgno, j)
                /\ \A f \in WantedHere(a) : (\A g \in WantedHere(a) : g <= f) =>
                      \/ a.iRead = f
                      \/ \E j2 \in j..(HASHTABLE_NSLOT - 1) : aHash[a.iHash][Probe(a.pgno, j2)] = Index(f)
          /\ WantedHere(a) = {} => a.iRead = 0
    /\ a.pc = "found" => a.iRead = Newest(a.pgno, a.minFrame, a.mxFrame)

\* That of the searches, together with both.
SearchInv == \A r \in Readers : SearchOk(rd[r])

(***************************************************************************)
(* Numbers                                                                 *)
(***************************************************************************)
\* A set of numbers that is not empty has a smallest member,
LEMMA LowestIs ==
    ASSUME NEW S \in SUBSET Nat, S # {}
    PROVE  Lowest(S) \in S /\ \A n \in S : Lowest(S) <= n
<1>1. PICK x \in S : \A z \in S : ~ (<<z, x>> \in OpToRel(<, Nat))
  BY NatLessThanWellFounded, WFMin
<1>2. \A z \in S : ~ (z < x) BY <1>1 DEF OpToRel
<1>3. \A z \in S : x <= z
  <2> TAKE z \in S
  <2>1. z \in Nat /\ x \in Nat OBVIOUS
  <2>2. ~ (z < x) BY <1>2
  <2> QED BY <2>1, <2>2
<1> QED BY <1>3 DEF Lowest

\* and a bounded one has a largest.
LEMMA HighestIs ==
    ASSUME NEW b \in Nat, NEW S \in SUBSET (0..b), S # {}
    PROVE  Highest(S) \in S /\ \A n \in S : n <= Highest(S)
<1> DEFINE T == {b - i : i \in S}
<1>1. T \subseteq Nat /\ T # {}
  <2>1. \A i \in S : i \in 0..b OBVIOUS
  <2>2. \A i \in 0..b : b - i \in Nat OBVIOUS
  <2>3. T \subseteq Nat BY <2>1, <2>2
  <2> QED BY <2>3
<1>2. PICK x \in T : \A z \in T : x <= z
  <2> HIDE DEF T
  <2> QED BY <1>1, LowestIs
<1>3. PICK m \in S : x = b - m BY <1>2
<1>4. ASSUME NEW i \in S PROVE i <= m
  <2>1. i \in 0..b /\ m \in 0..b BY <1>3
  <2>2. b - m <= b - i BY <1>2, <1>3
  <2> QED BY <2>1, <2>2
<1> QED BY <1>3, <1>4 DEF Highest

\* Remainders.
LEMMA ModRange ==
    ASSUME NEW n \in Nat, NEW m \in Nat \ {0}
    PROVE  n % m \in 0..(m - 1)
OBVIOUS

\* A number below the modulus,
LEMMA ModSmall ==
    ASSUME NEW m \in Nat \ {0}, NEW n \in 0..(m - 1)
    PROVE  n % m = n
OBVIOUS

\* and one that is reduced once.
LEMMA ModWrap ==
    ASSUME NEW m \in Nat \ {0}, NEW n \in m..(2 * m - 1)
    PROVE  n % m = n - m
OBVIOUS

\* A table has more slots than frames.
LEMMA SlotCount ==
    /\ HASHTABLE_NSLOT \in Nat \ {0}
    /\ Slot = 0..(HASHTABLE_NSLOT - 1) /\ Slot \subseteq Nat /\ 0 \in Slot
    /\ \A h : TableSize(h) \in Nat \ {0} /\ TableSize(h) < HASHTABLE_NSLOT
BY WalIndexAssumption DEF HASHTABLE_NSLOT, Slot, TableSize

\* A search starts in a slot of the table.
LEMMA HashRange == \A p \in Nat : walHash(p) \in Slot
<1> SUFFICES ASSUME NEW p \in Nat PROVE walHash(p) \in Slot OBVIOUS
<1>1. p * HASHTABLE_HASH_1 \in Nat BY WalIndexAssumption
<1> QED BY <1>1, SlotCount, ModRange DEF walHash

\* The slot after j others, written without a remainder.
LEMMA ProbeIs ==
    ASSUME NEW p \in Nat, NEW j \in Slot
    PROVE  Probe(p, j) = IF walHash(p) + j < HASHTABLE_NSLOT THEN walHash(p) + j
                         ELSE walHash(p) + j - HASHTABLE_NSLOT
<1> DEFINE N == HASHTABLE_NSLOT
           a == walHash(p)
<1>1. N \in Nat \ {0} /\ a \in 0..(N - 1) /\ j \in 0..(N - 1) BY SlotCount, HashRange
<1>2. Probe(p, j) = (a + j) % N BY DEF Probe
<1> HIDE DEF N, a
<1>3. CASE a + j < N
  <2>1. a + j \in 0..(N - 1) BY <1>1, <1>3
  <2> QED BY <1>1, <1>2, <1>3, <2>1, ModSmall DEF N, a
<1>4. CASE ~(a + j < N)
  <2>1. a + j \in N..(2 * N - 1) BY <1>1, <1>4
  <2> QED BY <1>1, <1>2, <1>4, <2>1, ModWrap DEF N, a
<1> QED BY <1>3, <1>4

\* A search goes through all slots, each once,
LEMMA ProbeSlots ==
    ASSUME NEW p \in Nat
    PROVE  /\ \A j \in Slot : Probe(p, j) \in Slot
           /\ \A j, j2 \in Slot : Probe(p, j) = Probe(p, j2) => j = j2
           /\ \A k \in Slot : \E j \in Slot : Probe(p, j) = k
           /\ Probe(p, 0) = walHash(p)
<1> DEFINE N == HASHTABLE_NSLOT
           a == walHash(p)
<1>1. N \in Nat \ {0} /\ Slot = 0..(N - 1) /\ a \in 0..(N - 1) BY SlotCount, HashRange
<1>2. \A j \in Slot : Probe(p, j) = IF a + j < N THEN a + j ELSE a + j - N BY ProbeIs
<1> HIDE DEF N, a
<1>3. \A j \in Slot : Probe(p, j) \in Slot BY <1>1, <1>2
<1>4. \A j, j2 \in Slot : Probe(p, j) = Probe(p, j2) => j = j2 BY <1>1, <1>2
<1>5. ASSUME NEW k \in Slot PROVE \E j \in Slot : Probe(p, j) = k
  <2>1. CASE k >= a
    <3>1. k - a \in Slot /\ Probe(p, k - a) = k BY <1>1, <1>2, <2>1
    <3> QED BY <3>1
  <2>2. CASE k < a
    <3>1. k - a + N \in Slot /\ Probe(p, k - a + N) = k BY <1>1, <1>2, <2>2
    <3> QED BY <3>1
  <2> QED BY <1>1, <2>1, <2>2
<1>6. Probe(p, 0) = a BY <1>1, <1>2
<1> QED BY <1>3, <1>4, <1>5, <1>6 DEF a

\* one after the other.
LEMMA ProbeNext ==
    ASSUME NEW p \in Nat, NEW j \in Slot
    PROVE  walNextHash(Probe(p, j)) = Probe(p, IF j + 1 < HASHTABLE_NSLOT THEN j + 1 ELSE 0)
<1> DEFINE N == HASHTABLE_NSLOT
           a == walHash(p)
           k == Probe(p, j)
<1>1. N \in Nat \ {0} /\ Slot = 0..(N - 1) /\ a \in 0..(N - 1) BY SlotCount, HashRange
<1>2. \A i \in Slot : Probe(p, i) = IF a + i < N THEN a + i ELSE a + i - N BY ProbeIs
<1>3. walNextHash(k) = (k + 1) % N BY DEF walNextHash
<1>4. k \in Slot /\ k = IF a + j < N THEN a + j ELSE a + j - N BY <1>2, ProbeSlots
<1> HIDE DEF N, a, k
<1>5. walNextHash(k) = IF k + 1 < N THEN k + 1 ELSE 0
  <2>1. CASE k + 1 < N
    <3>1. k + 1 \in 0..(N - 1) BY <1>1, <1>4, <2>1
    <3> QED BY <1>1, <1>3, <2>1, <3>1, ModSmall
  <2>2. CASE ~(k + 1 < N)
    <3>1. k + 1 = N /\ N \in N..(2 * N - 1) BY <1>1, <1>4, <2>2
    <3>2. N % N = N - N BY <1>1, <3>1, ModWrap
    <3> QED BY <1>1, <1>3, <2>2, <3>1, <3>2
  <2> QED BY <2>1, <2>2
<1>6. CASE j + 1 < N
  <2>1. j + 1 \in Slot BY <1>1, <1>6
  <2>2. Probe(p, j + 1) = IF a + (j + 1) < N THEN a + (j + 1) ELSE a + (j + 1) - N BY <1>2, <2>1
  <2> QED BY <1>1, <1>4, <1>5, <1>6, <2>2 DEF k, N
<1>7. CASE ~(j + 1 < N)
  <2>1. j = N - 1 BY <1>1, <1>7
  <2>2. Probe(p, 0) = a BY <1>1, <1>2
  <2> QED BY <1>1, <1>4, <1>5, <1>7, <2>1, <2>2 DEF k, N
<1> QED BY <1>6, <1>7

(***************************************************************************)
(* Frames and tables                                                       *)
(***************************************************************************)
\* A quotient is the number of whole parts.
LEMMA DivIs ==
    ASSUME NEW n \in Nat, NEW m \in Nat \ {0}
    PROVE  /\ n \div m \in Nat /\ m * (n \div m) <= n /\ n < m * (n \div m) + m
OBVIOUS

\* The product of a table and its length is strictly monotonic.
LEMMA TimesMono ==
    ASSUME NEW m \in Nat \ {0}, NEW a \in Nat, NEW b \in Nat, a < b
    PROVE  m * a + m <= m * b
OBVIOUS

\* The table of a frame, by the frames it has.
LEMMA FrameTable ==
    ASSUME NEW f \in Nat \ {0}
    PROVE  /\ walFramePage(f) \in Nat /\ iZero(walFramePage(f)) \in Nat
           /\ Index(f) \in 1..TableSize(walFramePage(f))
           /\ f = iZero(walFramePage(f)) + Index(f)
<1> DEFINE P == HASHTABLE_NPAGE
           O == HASHTABLE_NPAGE_ONE
           h == walFramePage(f)
<1>1. P \in Nat \ {0} /\ O \in 1..P BY WalIndexAssumption
<1>2. h = (f + P - O - 1) \div P BY DEF walFramePage
<1>3. iZero(h) = (IF h = 0 THEN 0 ELSE O + (h - 1) * P) /\ TableSize(h) = (IF h = 0 THEN O ELSE P)
  BY DEF iZero, TableSize
<1>4. Index(f) = f - iZero(h) BY DEF Index
<1> HIDE DEF P, O, h
<1>5. f + P - O - 1 \in Nat BY <1>1
<1>6. h \in Nat /\ P * h <= f + P - O - 1 /\ f + P - O - 1 < P * h + P BY <1>1, <1>2, <1>5, DivIs
<1>7. CASE h = 0
  BY <1>1, <1>3, <1>4, <1>6, <1>7 DEF h
<1>8. CASE h # 0
  <2>1. (h - 1) * P = P * h - P BY <1>1, <1>6
  <2>2. P * h \in Nat /\ P * h >= P BY <1>1, <1>6, <1>8
  <2> QED BY <1>1, <1>3, <1>4, <1>6, <1>8, <2>1, <2>2 DEF h
<1> QED BY <1>7, <1>8

\* The first frames of tables, in order.
LEMMA ZeroOrder ==
    ASSUME NEW h \in Nat, NEW g \in Nat, h < g
    PROVE  iZero(h) \in Nat /\ iZero(g) \in Nat /\ iZero(h) + TableSize(h) <= iZero(g)
<1> DEFINE P == HASHTABLE_NPAGE
           O == HASHTABLE_NPAGE_ONE
<1>1. P \in Nat \ {0} /\ O \in 1..P BY WalIndexAssumption
<1>2. /\ iZero(h) = (IF h = 0 THEN 0 ELSE O + (h - 1) * P) /\ TableSize(h) = (IF h = 0 THEN O ELSE P)
      /\ iZero(g) = O + (g - 1) * P
  BY DEF iZero, TableSize
<1> HIDE DEF P, O
<1>3. CASE h = 0
  <2>1. (g - 1) * P \in Nat BY <1>1
  <2> QED BY <1>1, <1>2, <1>3, <2>1
<1>4. CASE h # 0
  <2>1. h - 1 \in Nat /\ g - 1 \in Nat /\ h - 1 < g - 1 BY <1>4
  <2>2. P * (h - 1) + P <= P * (g - 1) BY <1>1, <2>1, TimesMono
  <2>3. (h - 1) * P = P * (h - 1) /\ (g - 1) * P = P * (g - 1) /\ P * (h - 1) \in Nat /\ P * (g - 1) \in Nat
    BY <1>1, <2>1
  <2> QED BY <1>1, <1>2, <1>4, <2>2, <2>3
<1> QED BY <1>3, <1>4

\* An index of a table is that of one frame.
LEMMA TableFrame ==
    ASSUME NEW h \in Nat, NEW i \in 1..TableSize(h)
    PROVE  /\ iZero(h) \in Nat /\ iZero(h) + i \in Nat \ {0}
           /\ walFramePage(iZero(h) + i) = h /\ Index(iZero(h) + i) = i
<1>a. h + 1 \in Nat /\ h < h + 1 OBVIOUS
<1>0. TableSize(h) \in Nat /\ iZero(h) \in Nat BY <1>a, SlotCount, ZeroOrder
<1> DEFINE f == iZero(h) + i
           g == walFramePage(f)
<1>1. f \in Nat \ {0} BY <1>0
<1>2. g \in Nat /\ iZero(g) \in Nat /\ Index(f) \in 1..TableSize(g) /\ f = iZero(g) + Index(f) BY <1>1, FrameTable
<1>3. TableSize(g) \in Nat BY SlotCount
<1>4. f = iZero(h) + i OBVIOUS
<1> HIDE DEF f, g
<1>5. ~(g < h)
  <2> SUFFICES ASSUME g < h PROVE FALSE OBVIOUS
  <2>1. iZero(g) + TableSize(g) <= iZero(h) BY <1>2, ZeroOrder
  <2> QED BY <1>0, <1>2, <1>3, <1>4, <2>1
<1>6. ~(h < g)
  <2> SUFFICES ASSUME h < g PROVE FALSE OBVIOUS
  <2>1. iZero(h) + TableSize(h) <= iZero(g) BY <1>2, ZeroOrder
  <2> QED BY <1>0, <1>2, <1>3, <1>4, <2>1
<1>7. g = h BY <1>2, <1>5, <1>6
<1>8. Index(f) = i BY <1>0, <1>2, <1>4, <1>7
<1> QED BY <1>0, <1>1, <1>7, <1>8 DEF f, g

\* Frames are in tables in their order, and in a table as well.
LEMMA FrameOrder ==
    ASSUME NEW f \in Nat \ {0}, NEW g \in Nat \ {0}
    PROVE  /\ f <= g => walFramePage(f) <= walFramePage(g)
           /\ walFramePage(f) = walFramePage(g) => (f <= g <=> Index(f) <= Index(g))
           /\ walFramePage(f) = walFramePage(g) /\ Index(f) = Index(g) => f = g
<1> DEFINE a == walFramePage(f)
           b == walFramePage(g)
<1>1. a \in Nat /\ iZero(a) \in Nat /\ Index(f) \in 1..TableSize(a) /\ f = iZero(a) + Index(f) BY FrameTable
<1>2. b \in Nat /\ iZero(b) \in Nat /\ Index(g) \in 1..TableSize(b) /\ g = iZero(b) + Index(g) BY FrameTable
<1>3. TableSize(a) \in Nat /\ TableSize(b) \in Nat BY SlotCount
<1>4. b < a => iZero(b) + TableSize(b) <= iZero(a) BY <1>1, <1>2, ZeroOrder
<1> HIDE DEF a, b
<1>5. f <= g => a <= b BY <1>1, <1>2, <1>3, <1>4
<1>6. a = b => (f <= g <=> Index(f) <= Index(g)) BY <1>1, <1>2, <1>3
<1>7. a = b /\ Index(f) = Index(g) => f = g BY <1>1, <1>2, <1>3
<1> QED BY <1>5, <1>6, <1>7 DEF a, b

\* The table of a frame is one of the tables.
LEMMA FrameInTables ==
    ASSUME NEW f \in 1..MaxFrame
    PROVE  walFramePage(f) \in Tables /\ Tables \subseteq Nat
<1>1. f \in Nat \ {0} /\ MaxFrame \in Nat \ {0} /\ f <= MaxFrame BY WalIndexAssumption
<1>2. walFramePage(f) \in Nat /\ walFramePage(MaxFrame) \in Nat BY <1>1, FrameTable
<1>3. walFramePage(f) <= walFramePage(MaxFrame) BY <1>1, FrameOrder
<1> QED BY <1>2, <1>3 DEF Tables

\* The frame after another one is the next in its table or the first of one.
LEMMA NextFrame ==
    ASSUME NEW f \in Nat \ {0}
    PROVE  /\ Index(f + 1) # 1 => walFramePage(f + 1) = walFramePage(f) /\ Index(f + 1) = Index(f) + 1
           /\ \A g \in Nat \ {0} : Index(f) = 1 /\ walFramePage(g) = walFramePage(f) => f <= g
<1> DEFINE a == walFramePage(f)
           e == f + 1
           b == walFramePage(e)
<1>0. e \in Nat \ {0} /\ e = f + 1 OBVIOUS
<1>1. a \in Nat /\ iZero(a) \in Nat /\ Index(f) \in 1..TableSize(a) /\ f = iZero(a) + Index(f) BY FrameTable
<1>2. b \in Nat /\ iZero(b) \in Nat /\ Index(e) \in 1..TableSize(b) /\ e = iZero(b) + Index(e) BY <1>0, FrameTable
<1>3. TableSize(a) \in Nat /\ TableSize(b) \in Nat BY SlotCount
<1>4. a < b => iZero(a) + TableSize(a) <= iZero(b) BY <1>1, <1>2, ZeroOrder
<1>5. a <= b BY <1>0, FrameOrder
<1> HIDE DEF a, b, e
<1>6. Index(e) # 1 => b = a /\ Index(e) = Index(f) + 1 BY <1>0, <1>1, <1>2, <1>3, <1>4, <1>5
<1>7. ASSUME NEW g \in Nat \ {0}, Index(f) = 1, walFramePage(g) = a PROVE f <= g
  <2>1. Index(g) \in 1..TableSize(a) BY <1>7, FrameTable
  <2>2. Index(f) <= Index(g) BY <1>3, <1>7, <2>1
  <2> QED BY <1>7, <2>2, FrameOrder DEF a
<1> QED BY <1>6, <1>7 DEF a, b, e

(***************************************************************************)
(* Slots                                                                   *)
(***************************************************************************)
\* A search stops at the first empty slot, or after all of them.
LEMMA InUseIs ==
    ASSUME NEW slots, NEW p \in Nat
    PROVE  /\ InUse(slots, p) \in 0..HASHTABLE_NSLOT
           /\ \A j \in 0..(InUse(slots, p) - 1) : slots[Probe(p, j)] # 0
           /\ InUse(slots, p) < HASHTABLE_NSLOT => slots[Probe(p, InUse(slots, p))] = 0
<1> DEFINE N == HASHTABLE_NSLOT
           Z == {j \in Slot : slots[Probe(p, j)] = 0}
           Is(n) == /\ \A j \in 0..(n - 1) : slots[Probe(p, j)] # 0
                    /\ n < N => slots[Probe(p, n)] = 0
<1>1. N \in Nat \ {0} /\ Slot = 0..(N - 1) BY SlotCount
<1>2. \E n \in 0..N : Is(n)
  <2>1. CASE Z = {}
    <3>1. Is(N)
      <4>1. \A j \in 0..(N - 1) : slots[Probe(p, j)] # 0 BY <1>1, <2>1
      <4> QED BY <1>1, <4>1
    <3> QED BY <1>1, <3>1
  <2>2. CASE Z # {}
    <3> DEFINE n == Lowest(Z)
    <3>1. Z \in SUBSET Nat BY SlotCount
    <3>2. n \in Z /\ \A m \in Z : n <= m
      <4> HIDE DEF Z
      <4> QED BY <2>2, <3>1, LowestIs
    <3> HIDE DEF n
    <3>3. n \in 0..(N - 1) /\ slots[Probe(p, n)] = 0 BY <1>1, <3>2
    <3>4. ASSUME NEW j \in 0..(n - 1) PROVE slots[Probe(p, j)] # 0
      <4>1. j \in Slot /\ ~(n <= j) BY <1>1, <3>3
      <4> QED BY <3>2, <4>1
    <3>5. Is(n) BY <3>3, <3>4
    <3>6. n \in 0..N BY <1>1, <3>3
    <3> QED BY <3>5, <3>6
  <2> QED BY <2>1, <2>2
<1>3. InUse(slots, p) = CHOOSE n \in 0..N : Is(n) BY DEF InUse
<1> HIDE DEF Is, N
<1>4. InUse(slots, p) \in 0..N /\ Is(InUse(slots, p)) BY <1>2, <1>3
<1> QED BY <1>4 DEF Is, N

\* FreeSlot is a slot.
LEMMA FreeSlotRange ==
    ASSUME NEW slots, NEW p \in Nat
    PROVE  FreeSlot(slots, p) \in Slot
<1>1. InUse(slots, p) \in Nat /\ walHash(p) \in Nat BY InUseIs, HashRange, SlotCount
<1>2. walHash(p) + InUse(slots, p) \in Nat BY <1>1
<1>3. FreeSlot(slots, p) = (walHash(p) + InUse(slots, p)) % HASHTABLE_NSLOT BY DEF FreeSlot, Probe
<1>4. (walHash(p) + InUse(slots, p)) % HASHTABLE_NSLOT \in 0..(HASHTABLE_NSLOT - 1) BY <1>2, SlotCount, ModRange
<1> QED BY <1>3, <1>4, SlotCount

\* A table whose slots are of different frames, fewer than it has slots, has
\* one that is empty.
LEMMA SomeSlotFree ==
    ASSUME NEW n \in Nat, n < HASHTABLE_NSLOT, NEW slots \in [Slot -> Nat],
           \A k \in Slot : slots[k] <= n,
           \A k, k2 \in Slot : slots[k] = slots[k2] /\ slots[k] # 0 => k = k2
    PROVE  \E k \in Slot : slots[k] = 0
<1> SUFFICES ASSUME \A k \in Slot : slots[k] # 0 PROVE FALSE OBVIOUS
<1> DEFINE N == HASHTABLE_NSLOT
<1>1. N \in Nat \ {0} /\ Slot = 0..(N - 1) BY SlotCount
<1>2. IsFiniteSet(0..(N - 1)) /\ Cardinality(0..(N - 1)) = N
  <2>1. 0 \in Int /\ N - 1 \in Int BY <1>1
  <2>2. IsFiniteSet(0..(N - 1)) /\ Cardinality(0..(N - 1)) = IF 0 > N - 1 THEN 0 ELSE N - 1 - 0 + 1
    BY <2>1, FS_Interval
  <2> QED BY <1>1, <2>2
<1>3. IsFiniteSet(1..n) /\ Cardinality(1..n) = n
  <2>1. IsFiniteSet(1..n) /\ Cardinality(1..n) = IF 1 > n THEN 0 ELSE n - 1 + 1 BY FS_Interval
  <2> QED BY <2>1
<1>4. slots \in [0..(N - 1) -> 1..n]
  <2>1. \A k \in Slot : slots[k] \in 1..n OBVIOUS
  <2> QED BY <1>1, <2>1
<1>5. PICK x \in 0..(N - 1), y \in 0..(N - 1) : x # y /\ slots[x] = slots[y]
  <2>1. Cardinality(1..n) < Cardinality(0..(N - 1)) BY <1>1, <1>2, <1>3
  <2> DEFINE S == 0..(N - 1)
             T == 1..n
  <2>2. IsFiniteSet(S) /\ IsFiniteSet(T) /\ Cardinality(T) < Cardinality(S) /\ slots \in [S -> T]
    BY <1>2, <1>3, <1>4, <2>1
  <2> HIDE DEF S, T
  <2>3. \E x, y \in S : x # y /\ slots[x] = slots[y] BY <2>2, FS_PigeonHole
  <2> QED BY <2>3 DEF S
<1> QED BY <1>1, <1>5

\* FreeSlot of such a table is empty, and the slots before it are in use.
LEMMA FreeSlotIs ==
    ASSUME NEW n \in Nat, n < HASHTABLE_NSLOT, NEW slots \in [Slot -> Nat],
           \A k \in Slot : slots[k] <= n,
           \A k, k2 \in Slot : slots[k] = slots[k2] /\ slots[k] # 0 => k = k2,
           NEW p \in Nat
    PROVE  \E j \in Slot : /\ FreeSlot(slots, p) = Probe(p, j) /\ slots[Probe(p, j)] = 0
                           /\ \A j2 \in 0..(j - 1) : slots[Probe(p, j2)] \in 1..n
<1> DEFINE N == HASHTABLE_NSLOT
           j == InUse(slots, p)
<1>1. N \in Nat \ {0} /\ Slot = 0..(N - 1) BY SlotCount
<1>2. j \in 0..N /\ (\A i \in 0..(j - 1) : slots[Probe(p, i)] # 0) /\ (j < N => slots[Probe(p, j)] = 0) BY InUseIs
<1>3. PICK k \in Slot : slots[k] = 0 BY SomeSlotFree
<1>4. PICK i \in Slot : Probe(p, i) = k BY <1>3, ProbeSlots
<1> HIDE DEF N
<1>5. FreeSlot(slots, p) = Probe(p, j) BY DEF FreeSlot
<1> HIDE DEF j
<1>6. j < N
  <2> SUFFICES ASSUME ~(j < N) PROVE FALSE OBVIOUS
  <2>1. i \in 0..(j - 1) BY <1>1, <1>2, <1>4
  <2> QED BY <1>2, <1>3, <1>4, <2>1
<1>7. j \in Slot BY <1>1, <1>2, <1>6
<1>8. ASSUME NEW j2 \in 0..(j - 1) PROVE slots[Probe(p, j2)] \in 1..n
  <2>1. j2 \in Slot BY <1>1, <1>2, <1>6
  <2>2. Probe(p, j2) \in Slot BY <2>1, ProbeSlots
  <2>3. slots[Probe(p, j2)] \in Nat /\ slots[Probe(p, j2)] <= n BY <2>2
  <2>4. slots[Probe(p, j2)] # 0 BY <1>2
  <2> QED BY <2>3, <2>4
<1> QED BY <1>2, <1>5, <1>6, <1>7, <1>8

(***************************************************************************)
(* Headers: what each step keeps                                           *)
(***************************************************************************)
\* A header made by Hdr, and the one of no frames.
LEMMA HdrType ==
    /\ \A m \in 0..MaxFrame, n \in 0..MaxPage, s \in Nat :
          /\ Hdr(m, n, s) \in Header /\ Hdr(m, n, s).mxFrame = m /\ Hdr(m, n, s).nPage = n
          /\ Hdr(m, n, s).aSalt = s /\ Hdr(m, n, s).aCksum = <<m, n, s>>
    /\ ZeroHdr \in Header
<1>1. 0 \in 0..MaxFrame /\ 0 \in 0..MaxPage BY WalIndexAssumption
<1> QED BY <1>1 DEF Hdr, Header, ZeroHdr

\* The copy of a word.
LEMMA CopyIs ==
    ASSUME NEW a \in Header, NEW b \in Header, NEW x \in Words
    PROVE  /\ Copy(a, b, x) \in Header
           /\ x = {"mxFrame"} \/ x = SumWord
           /\ x = {"mxFrame"} => Copy(a, b, x) = [mxFrame |-> b.mxFrame, nPage |-> a.nPage, aSalt |-> a.aSalt, aCksum |-> a.aCksum]
           /\ x = SumWord => Copy(a, b, x) = [mxFrame |-> a.mxFrame, nPage |-> b.nPage, aSalt |-> b.aSalt, aCksum |-> b.aCksum]
<1>1. x = {"mxFrame"} \/ x = SumWord BY DEF Words, SumWord
<1>2. CASE x = {"mxFrame"}
  <2>1. Copy(a, b, x) = [mxFrame |-> b.mxFrame, nPage |-> a.nPage, aSalt |-> a.aSalt, aCksum |-> a.aCksum]
    BY <1>2 DEF Copy, Header
  <2>2. {"mxFrame"} # SumWord BY DEF SumWord
  <2> QED BY <1>2, <2>1, <2>2 DEF Header
<1>3. CASE x = SumWord
  <2>1. Copy(a, b, x) = [mxFrame |-> a.mxFrame, nPage |-> b.nPage, aSalt |-> b.aSalt, aCksum |-> b.aCksum]
    BY <1>3 DEF Copy, Header, SumWord
  <2>2. {"mxFrame"} # SumWord BY DEF SumWord
  <2> QED BY <1>3, <2>1, <2>2 DEF Header
<1> QED BY <1>1, <1>2, <1>3

\* The same, word by word.
LEMMA CopyWord ==
    ASSUME NEW a \in Header, NEW b \in Header
    PROVE  /\ Copy(a, b, {"mxFrame"}) = [mxFrame |-> b.mxFrame, nPage |-> a.nPage, aSalt |-> a.aSalt, aCksum |-> a.aCksum]
           /\ Copy(a, b, SumWord) = [mxFrame |-> a.mxFrame, nPage |-> b.nPage, aSalt |-> b.aSalt, aCksum |-> b.aCksum]
<1>1. {"mxFrame"} \in Words /\ SumWord \in Words BY DEF Words, SumWord
<1> QED BY <1>1, CopyIs, Zenon

\* What IsGood says of the first copy.
LEMMA GoodHdr ==
    ASSUME HdrInv, IsGood
    PROVE  /\ aHdr[1] = aHdr[0] /\ aHdr[0] \in Header /\ aHdr[0].aSalt # 0
           /\ aHdr[0] = Hdr(aHdr[0].mxFrame, aHdr[0].nPage, aHdr[0].aSalt)
           /\ aHdr[0].aCksum[1] = aHdr[0].mxFrame
           /\ Says(aHdr[0].mxFrame, aHdr[0].nPage, aHdr[0].aSalt)
<1>1. aHdr[0] \in Header /\ SumOk(aHdr[0]) BY DEF HdrInv
<1>2. aHdr[1] = aHdr[0] /\ aHdr[0].aSalt # 0 /\ aHdr[0] = Hdr(aHdr[0].mxFrame, aHdr[0].nPage, aHdr[0].aSalt)
  BY DEF IsGood, HdrOk
<1> DEFINE m == aHdr[0].mxFrame
<1>3. Hdr(m, aHdr[0].nPage, aHdr[0].aSalt).aCksum = <<m, aHdr[0].nPage, aHdr[0].aSalt>> BY DEF Hdr
<1>4. aHdr[0].aCksum[1] = m BY <1>2, <1>3
<1> QED BY <1>1, <1>2, <1>4 DEF SumOk

\* These only depend on the log and its salt.
LEMMA LogSame ==
    ASSUME UNCHANGED <<log, logSalt>>
    PROVE  /\ \A m : IsCommit(m)' <=> IsCommit(m)
           /\ \A m, n, s : Says(m, n, s)' <=> Says(m, n, s)
           /\ \A hdr : SumOk(hdr)' <=> SumOk(hdr)
BY DEF IsCommit, Says, SumOk

\* A step that leaves the log, the headers and the checkpointer alone, and
\* stores no header, leaves all but the writer as it is.
LEMMA QuietStep ==
    ASSUME HeadersInv, UNCHANGED <<log, logSalt, aHdr, nBackfill, ck, rd>>, nCrash' \in 0..MaxCrash, ~IsStoring'
    PROVE  LogInv' /\ HdrInv' /\ CkptInv' /\ ReadersInv' /\ (IsGood' <=> IsGood)
<1>1. LogInv' BY DEF HeadersInv, LogInv
<1>2. HdrInv'
  <2>1. aHdr' \in [0..1 -> Header] BY DEF HeadersInv, HdrInv
  <2>2. SumOk(aHdr[0])' /\ SumOk(aHdr[1])' BY DEF HeadersInv, HdrInv, SumOk, Says, IsCommit
  <2> QED BY <2>1, <2>2 DEF HdrInv
<1>3. IsGood' <=> IsGood BY DEF IsGood, HdrOk
<1>4. \A m, s : IsCurrent(m, s) => IsCurrent(m, s)' BY <1>3 DEF IsCurrent
<1>5. CkptInv' 
  <2>1. SumOk(ck.h1)' <=> SumOk(ck.h1) BY DEF SumOk, Says, IsCommit
  <2>2. IsCurrent(ck.h1.aCksum[1], ck.h1.aSalt) => IsCurrent(ck.h1.aCksum[1], ck.h1.aSalt)' BY <1>3 DEF IsCurrent
  <2> QED BY <2>1, <2>2 DEF HeadersInv, CkptInv
<1>6. ReadersInv'
  <2>1. ASSUME NEW r \in Readers PROVE ReaderInv(rd[r])'
    <3>1. ReaderInv(rd[r]) BY DEF HeadersInv, ReadersInv
    <3> QED BY <1>3, <3>1 DEF ReaderInv, ReaderType, IsCurrent, IsCommit
  <2> QED BY <2>1 DEF HeadersInv, ReadersInv
<1> QED BY <1>1, <1>2, <1>3, <1>5, <1>6

\* Steps of readers change nothing else.
LEMMA ReaderKeeps ==
    ASSUME HeadersInv, UNCHANGED readerUnchanged
    PROVE  /\ LogInv' /\ HdrInv' /\ WriterInv' /\ CkptInv'
           /\ \A m, s : IsCurrent(m, s)' <=> IsCurrent(m, s)
           /\ \A m : IsCommit(m)' <=> IsCommit(m)
<1> USE DEF readerUnchanged, shmVars
<1>1. LogInv' BY DEF HeadersInv, LogInv
<1>2. HdrInv' BY DEF HeadersInv, HdrInv, SumOk, Says, IsCommit
<1>3. WriterInv'
  BY DEF HeadersInv, WriterInv, WriterType, StoringInv, TransactionInv, AppendInv, IsStoring, InTransaction, IsAppending, IsGood,
         HdrOk, Says, IsCommit, IsStored
<1>4. CkptInv' BY DEF HeadersInv, CkptInv, SumOk, Says, IsCommit, IsCurrent, IsGood, HdrOk, IsStoring
<1>5. \A m, s : IsCurrent(m, s)' <=> IsCurrent(m, s) BY DEF IsCurrent, IsGood, HdrOk, IsStoring
<1>6. \A m : IsCommit(m)' <=> IsCommit(m) BY DEF IsCommit
<1> QED BY <1>1, <1>2, <1>3, <1>4, <1>5, <1>6

\* One reader changes.
LEMMA ReaderStep ==
    ASSUME HeadersInv, UNCHANGED readerUnchanged, NEW r \in Readers, NEW a, SetReader(r, a),
           ReaderInv(a)
    PROVE  HeadersInv'
<1>1. LogInv' /\ HdrInv' /\ WriterInv' /\ CkptInv' BY ReaderKeeps
<1>2. \A x : ReaderInv(x) => ReaderInv(x)'
  <2>1. UNCHANGED logSalt BY DEF readerUnchanged
  <2> QED BY <2>1, ReaderKeeps DEF ReaderInv, ReaderType
<1>3. rd' = [rd EXCEPT ![r] = a] /\ rd = [q \in Readers |-> rd[q]] BY DEF SetReader, HeadersInv, ReadersInv
<1>4. rd' = [q \in Readers |-> rd'[q]] BY <1>3
<1>6. \A q \in Readers : ReaderInv(rd[q])'
  <2> TAKE q \in Readers
  <2>1. PICK x : x = rd'[q] OBVIOUS
  <2>2. x = IF q = r THEN a ELSE rd[q] BY <1>3, <2>1
  <2>3. ReaderInv(rd[q]) BY DEF HeadersInv, ReadersInv
  <2>4. ReaderInv(x) BY <2>2, <2>3
  <2>5. ReaderInv(x)' BY <1>2, <2>4
  <2> QED BY <2>1, <2>5 DEF ReaderInv, ReaderType, IsCommit, IsCurrent, IsGood, HdrOk, IsStoring
<1> QED BY <1>1, <1>4, <1>6 DEF HeadersInv, ReadersInv

\* A search begins with a header that is good: its frames are a transaction.
LEMMA FindBeginHeaders == ASSUME HeadersInv, NEW r \in Readers, FindBegin(r) PROVE HeadersInv'
<1>1. PICK p \in Pgno :
        SetReader(r, [pc |-> "walk", mxFrame |-> aHdr[0].mxFrame, minFrame |-> nBackfill + 1,
                      pgno |-> p, iHash |-> walFramePage(aHdr[0].mxFrame), iKey |-> walHash(p), iRead |-> 0])
  BY DEF FindBegin
<1> DEFINE m == aHdr[0].mxFrame
           a == [pc |-> "walk", mxFrame |-> m, minFrame |-> nBackfill + 1,
                 pgno |-> p, iHash |-> walFramePage(m), iKey |-> walHash(p), iRead |-> 0]
<1>2. IsGood /\ m # 0 /\ m # nBackfill BY DEF FindBegin, IsGood
<1>3. m \in 0..MaxFrame /\ nBackfill \in Nat
  <2>1. aHdr[0] \in Header BY <1>2, GoodHdr DEF HeadersInv
  <2> QED BY <2>1 DEF Header, HeadersInv, LogInv
<1>4. ReaderType(a) BY <1>3 DEF ReaderType
<1>5. IsCommit(m) /\ aHdr[0].aSalt = logSalt BY <1>2, GoodHdr DEF Says, HeadersInv
<1>6. IsCurrent(m, logSalt)
  <2>1. CASE ~IsStoring BY <1>3, <1>5, <2>1 DEF IsCurrent
  <2>2. CASE IsStoring
    <3>1. StoringInv BY <2>2 DEF HeadersInv, WriterInv
    <3>2. aHdr[0].aCksum[1] = m BY <1>2, GoodHdr DEF HeadersInv
    <3>3. w.ret # "restart" BY <1>2, <3>1 DEF StoringInv
    <3>4. CASE w.ret = "commit" BY <1>3, <1>5, <3>1, <3>2, <3>4 DEF StoringInv, IsCurrent
    <3>5. CASE w.ret = "recover"
      <4>1. w.hdr.mxFrame = m BY <1>2, <3>1, <3>5 DEF StoringInv
      <4>2. Says(m, w.hdr.nPage, w.hdr.aSalt) BY <3>1, <4>1 DEF StoringInv
      <4>3. w.hdr.aSalt = logSalt BY <1>2, <4>2 DEF Says
      <4> QED BY <1>3, <1>5, <4>1, <4>3 DEF IsCurrent
    <3> QED BY <3>1, <3>3, <3>4, <3>5 DEF StoringInv
  <2> QED BY <2>1, <2>2
<1>7. ReaderInv(a) BY <1>3, <1>4, <1>5, <1>6 DEF ReaderInv
<1>8. UNCHANGED readerUnchanged BY DEF FindBegin
<1> QED BY <1>1, <1>7, <1>8, ReaderStep

\* What a step of the search of reader a makes of it: one slot more is read, the
\* search ends, or it goes on in the table before.
ReadsSlot(a, b) ==
    /\ b.pc = a.pc /\ b.iHash = a.iHash /\ b.iKey = walNextHash(a.iKey)
    /\ b.iRead = IF IsFrameOf(a.iHash, aHash[a.iHash][a.iKey], a.pgno, a.minFrame, a.mxFrame)
                 THEN aHash[a.iHash][a.iKey] + iZero(a.iHash) ELSE a.iRead
EndsSearch(a, b) ==
    /\ aHash[a.iHash][a.iKey] = 0 /\ (a.iRead # 0 \/ a.iHash <= walFramePage(a.minFrame))
    /\ b.pc = "found" /\ b.iRead = a.iRead
ChangesTable(a, b) ==
    /\ aHash[a.iHash][a.iKey] = 0 /\ ~(a.iRead # 0 \/ a.iHash <= walFramePage(a.minFrame))
    /\ b.pc = a.pc /\ b.iHash = a.iHash - 1 /\ b.iKey = walHash(a.pgno) /\ b.iRead = a.iRead

\* A step of a search: the fields that it changes.
LEMMA FindStepIs ==
    ASSUME NEW r \in Readers, NEW a, a = rd[r], ReaderType(a), FindStep(r)
    PROVE  \E b : /\ SetReader(r, b) /\ ReaderType(b)
                  /\ b.mxFrame = a.mxFrame /\ b.minFrame = a.minFrame /\ b.pgno = a.pgno
                  /\ ReadsSlot(a, b) \/ EndsSearch(a, b) \/ ChangesTable(a, b)
<1> DEFINE iH == aHash[a.iHash][a.iKey]
           x == IF IsFrameOf(a.iHash, iH, a.pgno, a.minFrame, a.mxFrame) THEN iH + iZero(a.iHash) ELSE a.iRead
           n == walNextHash(a.iKey)
           g == a.iHash - 1
           k == walHash(a.pgno)
           stop == a.iRead # 0 \/ a.iHash <= walFramePage(a.minFrame)
<1>1. SetReader(r, IF iH # 0 THEN [a EXCEPT !.iKey = n, !.iRead = x]
                   ELSE IF stop THEN [a EXCEPT !.pc = "found"]
                   ELSE [a EXCEPT !.iHash = g, !.iKey = k])
  BY Zenon DEF FindStep
<1> HIDE DEF iH, x, n, g, k, stop
<1>2. CASE iH # 0
  <2>1. PICK b : b = [a EXCEPT !.iKey = n, !.iRead = x] OBVIOUS
  <2>2. SetReader(r, b) BY <1>1, <1>2, <2>1
  <2>3. /\ ReaderType(b) /\ b.mxFrame = a.mxFrame /\ b.minFrame = a.minFrame /\ b.pgno = a.pgno
        /\ b.pc = a.pc /\ b.iHash = a.iHash /\ b.iKey = n /\ b.iRead = x
    BY <2>1 DEF ReaderType
  <2> QED BY <2>2, <2>3 DEF n, x, iH, ReadsSlot
<1>3. CASE iH = 0 /\ stop
  <2>1. PICK b : b = [a EXCEPT !.pc = "found"] OBVIOUS
  <2>2. SetReader(r, b) BY <1>1, <1>3, <2>1
  <2>3. /\ ReaderType(b) /\ b.mxFrame = a.mxFrame /\ b.minFrame = a.minFrame /\ b.pgno = a.pgno
        /\ b.pc = "found" /\ b.iRead = a.iRead
    BY <2>1 DEF ReaderType
  <2> QED BY <1>3, <2>2, <2>3 DEF stop, iH, EndsSearch
<1>4. CASE iH = 0 /\ ~stop
  <2>1. PICK b : b = [a EXCEPT !.iHash = g, !.iKey = k] OBVIOUS
  <2>2. SetReader(r, b) BY <1>1, <1>4, <2>1
  <2>3. /\ ReaderType(b) /\ b.mxFrame = a.mxFrame /\ b.minFrame = a.minFrame /\ b.pgno = a.pgno
        /\ b.pc = a.pc /\ b.iRead = a.iRead /\ b.iHash = g /\ b.iKey = k
    BY <2>1 DEF ReaderType
  <2> QED BY <1>4, <2>2, <2>3 DEF stop, iH, g, k, ChangesTable
<1> QED BY <1>2, <1>3, <1>4

\* A step of a search leaves the snapshot alone.
LEMMA FindStepHeaders == ASSUME HeadersInv, NEW r \in Readers, FindStep(r) PROVE HeadersInv'
<1>0. UNCHANGED readerUnchanged BY DEF FindStep
<1>1. rd[r].pc = "walk" /\ ReaderInv(rd[r]) BY DEF FindStep, HeadersInv, ReadersInv
<1>2. PICK a : a = rd[r] OBVIOUS
<1>3. ReaderType(a) /\ a.pc = "walk" /\ IsCommit(a.mxFrame) /\ IsCurrent(a.mxFrame, logSalt) /\ a.minFrame # 0
  BY <1>1, <1>2 DEF ReaderInv
<1>4. PICK b : SetReader(r, b) /\ ReaderType(b) /\ b.mxFrame = a.mxFrame /\ b.minFrame = a.minFrame
  BY <1>2, <1>3, FindStepIs
<1>5. ReaderInv(b) BY <1>3, <1>4 DEF ReaderInv
<1> QED BY <1>0, <1>4, <1>5, ReaderStep

\* A reader that ends has no snapshot.
LEMMA EndReadHeaders == ASSUME HeadersInv, NEW r \in Readers, EndRead(r) PROVE HeadersInv'
<1>1. UNCHANGED readerUnchanged /\ SetReader(r, NoReader) BY DEF EndRead
<1>2. ReaderInv(NoReader) BY WalIndexAssumption DEF ReaderInv, ReaderType, NoReader
<1> QED BY <1>1, <1>2, ReaderStep

\* Steps of the checkpointer change nothing else: none is taken while a restart
\* or a recovery stores a header, apart from the beginning.
LEMMA CkptKeeps ==
    ASSUME HeadersInv, UNCHANGED ckptUnchanged, nBackfill' \in 0..MaxFrame,
           w.pc = "recover" \/ (IsStoring /\ w.ret # "commit") => ck'.pc = "idle" /\ nBackfill' = nBackfill
    PROVE  /\ LogInv' /\ HdrInv' /\ WriterInv' /\ ReadersInv'
           /\ \A m, s : IsCurrent(m, s)' <=> IsCurrent(m, s)
<1> USE DEF ckptUnchanged
<1>1. LogInv' BY DEF HeadersInv, LogInv
<1>2. HdrInv' BY DEF HeadersInv, HdrInv, SumOk, Says, IsCommit
<1>0. IsGood' <=> IsGood BY DEF IsGood, HdrOk
<1>3. WriterInv'
  <2>0. WriterInv BY DEF HeadersInv
  <2>1. WriterType' BY <2>0 DEF WriterInv, WriterType
  <2>2. (w.pc = "recover" => ~IsGood /\ ck.pc = "idle")' BY <1>0, <2>0 DEF WriterInv
  <2>3. ASSUME IsStoring' PROVE StoringInv'
    <3>1. StoringInv BY <2>0, <2>3 DEF WriterInv, IsStoring
    <3>2. (w.ret # "commit" => ck.pc = "idle")' BY <2>3 DEF IsStoring
    <3>3. w.ret = "restart" => nBackfill' = nBackfill BY <2>3 DEF IsStoring
    <3> QED BY <1>0, <3>1, <3>2, <3>3 DEF StoringInv, Says, IsCommit, IsStored
  <2>4. (InTransaction => TransactionInv)' BY <1>0, <2>0 DEF WriterInv, InTransaction, TransactionInv
  <2>5. (IsAppending => AppendInv)' BY <2>0 DEF WriterInv, IsAppending, AppendInv
  <2>6. (w.pc = "cleanup" => w.hdr.mxFrame # 0 /\ w.ret \in {"idle", "open", "pgno"})' BY <2>0 DEF WriterInv
  <2> QED BY <2>1, <2>2, <2>3, <2>4, <2>5, <2>6 DEF WriterInv
<1>4. \A m, s : IsCurrent(m, s)' <=> IsCurrent(m, s) BY <1>0 DEF IsCurrent, IsStoring
<1>5. ReadersInv'
  <2>1. ASSUME NEW r \in Readers PROVE ReaderInv(rd[r])'
    <3>1. ReaderInv(rd[r]) BY DEF HeadersInv, ReadersInv
    <3> QED BY <1>0, <3>1 DEF ReaderInv, ReaderType, IsCurrent, IsCommit, IsStoring
  <2> QED BY <2>1 DEF HeadersInv, ReadersInv
<1> QED BY <1>1, <1>2, <1>3, <1>4, <1>5

\* While it is at work, no restart or recovery stores a header.
LEMMA CkptAlone ==
    ASSUME HeadersInv, ck.pc # "idle"
    PROVE  ~(w.pc = "recover" \/ (IsStoring /\ w.ret # "commit"))
BY DEF HeadersInv, WriterInv, StoringInv

\* A checkpointer that is idle.
LEMMA NoCkptInv == ASSUME ck' = NoCkpt PROVE CkptInv'
<1>1. ck'.pc = "idle" /\ ck'.h1 = ZeroHdr /\ ck'.h2 = ZeroHdr /\ ck'.todo = {} BY DEF NoCkpt
<1>2. ck' = [pc |-> ck'.pc, h1 |-> ck'.h1, h2 |-> ck'.h2, todo |-> ck'.todo, nBackfill |-> ck'.nBackfill,
             mxSafeFrame |-> ck'.mxSafeFrame, aIndex |-> ck'.aIndex, iPrior |-> ck'.iPrior, out |-> ck'.out]
  BY DEF NoCkpt
<1> QED BY <1>1, <1>2, HdrType DEF CkptInv

\* A checkpoint begins: nothing is loaded yet.
LEMMA BeginCkptHeaders == ASSUME HeadersInv, BeginCkpt PROVE HeadersInv'
<1>1. UNCHANGED ckptUnchanged /\ nBackfill' = nBackfill BY DEF BeginCkpt
<1>2. ~(w.pc = "recover" \/ (IsStoring /\ w.ret # "commit")) BY DEF BeginCkpt, IsStoring
<1>3. nBackfill' \in 0..MaxFrame BY <1>1 DEF HeadersInv, LogInv
<1>4. LogInv' /\ HdrInv' /\ WriterInv' /\ ReadersInv' BY <1>1, <1>2, <1>3, CkptKeeps
<1>5. CkptInv'
  <2>1. ck' = [NoCkpt EXCEPT !.pc = "copy0", !.todo = Words] BY DEF BeginCkpt
  <2>2. ck'.pc = "copy0" /\ ck'.h1 = ZeroHdr /\ ck'.h2 = ZeroHdr /\ ck'.todo = Words BY <2>1 DEF NoCkpt
  <2>3. ck' = [pc |-> ck'.pc, h1 |-> ck'.h1, h2 |-> ck'.h2, todo |-> ck'.todo, nBackfill |-> ck'.nBackfill,
               mxSafeFrame |-> ck'.mxSafeFrame, aIndex |-> ck'.aIndex, iPrior |-> ck'.iPrior, out |-> ck'.out]
    BY <2>1 DEF NoCkpt
  <2>4. SumWord \in Words BY DEF SumWord, Words
  <2> QED BY <2>2, <2>3, <2>4, HdrType DEF CkptInv
<1> QED BY <1>4, <1>5 DEF HeadersInv

\* A load: one word of one copy.
LEMMA LoadIs ==
    ASSUME CkptInv, NEW a \in Loads(ck), ck.pc \in {"copy0", "copy1"}
    PROVE  \E x \in ck.todo :
              /\ a = [pc |-> a.pc, h1 |-> a.h1, h2 |-> a.h2, todo |-> a.todo, nBackfill |-> a.nBackfill,
                      mxSafeFrame |-> a.mxSafeFrame, aIndex |-> a.aIndex, iPrior |-> a.iPrior, out |-> a.out]
              /\ ck.pc = "copy0" => a.h1 = Copy(ck.h1, aHdr[0], x) /\ a.h2 = ck.h2
              /\ ck.pc = "copy1" => a.h1 = ck.h1 /\ a.h2 = Copy(ck.h2, aHdr[1], x)
              /\ \/ a.pc = ck.pc /\ a.todo = ck.todo \ {x} /\ a.todo # {}
                 \/ ck.pc = "copy0" /\ a.pc = "copy1" /\ a.todo = Words /\ ck.todo \ {x} = {}
                 \/ ck.pc = "copy1" /\ a.pc = "loaded" /\ a.todo = {}
<1> DEFINE B(x) == IF ck.pc = "copy0" THEN [ck EXCEPT !.h1 = Copy(ck.h1, aHdr[0], x), !.todo = ck.todo \ {x}]
                   ELSE [ck EXCEPT !.h2 = Copy(ck.h2, aHdr[1], x), !.todo = ck.todo \ {x}]
<1>1. PICK x \in ck.todo : a = IF B(x).todo # {} THEN B(x)
                               ELSE IF ck.pc = "copy0" THEN [B(x) EXCEPT !.pc = "copy1", !.todo = Words]
                               ELSE [B(x) EXCEPT !.pc = "loaded"]
  BY Zenon DEF Loads
<1>2. PICK c0, c1, t : c0 = Copy(ck.h1, aHdr[0], x) /\ c1 = Copy(ck.h2, aHdr[1], x) /\ t = ck.todo \ {x} OBVIOUS
<1>3. PICK b : b = B(x) OBVIOUS
<1>4. ck = [pc |-> ck.pc, h1 |-> ck.h1, h2 |-> ck.h2, todo |-> ck.todo, nBackfill |-> ck.nBackfill,
            mxSafeFrame |-> ck.mxSafeFrame, aIndex |-> ck.aIndex, iPrior |-> ck.iPrior, out |-> ck.out]
  BY DEF CkptInv
<1>5. /\ b = [pc |-> b.pc, h1 |-> b.h1, h2 |-> b.h2, todo |-> b.todo, nBackfill |-> b.nBackfill,
              mxSafeFrame |-> b.mxSafeFrame, aIndex |-> b.aIndex, iPrior |-> b.iPrior, out |-> b.out]
      /\ b.pc = ck.pc /\ b.todo = t
      /\ ck.pc = "copy0" => b.h1 = c0 /\ b.h2 = ck.h2
      /\ ck.pc = "copy1" => b.h1 = ck.h1 /\ b.h2 = c1
  <2>1. CASE ck.pc = "copy0"
    <3>1. b = [ck EXCEPT !.h1 = c0, !.todo = t] BY <1>2, <1>3, <2>1
    <3> QED BY <1>4, <2>1, <3>1
  <2>2. CASE ck.pc = "copy1"
    <3>1. b = [ck EXCEPT !.h2 = c1, !.todo = t] BY <1>2, <1>3, <2>2
    <3> QED BY <1>4, <2>2, <3>1
  <2> QED BY <2>1, <2>2
<1>6. a = IF b.todo # {} THEN b ELSE IF ck.pc = "copy0" THEN [b EXCEPT !.pc = "copy1", !.todo = Words]
                               ELSE [b EXCEPT !.pc = "loaded"]
  BY <1>1, <1>3
<1>7. CASE b.todo # {}
  <2>1. a = b BY <1>6, <1>7
  <2> QED BY <1>2, <1>5, <1>7, <2>1
<1>8. CASE b.todo = {} /\ ck.pc = "copy0"
  <2>1. a = [b EXCEPT !.pc = "copy1", !.todo = Words] BY <1>6, <1>8
  <2>2. /\ a = [pc |-> a.pc, h1 |-> a.h1, h2 |-> a.h2, todo |-> a.todo, nBackfill |-> a.nBackfill,
              mxSafeFrame |-> a.mxSafeFrame, aIndex |-> a.aIndex, iPrior |-> a.iPrior, out |-> a.out]
        /\ a.pc = "copy1" /\ a.todo = Words /\ a.h1 = b.h1 /\ a.h2 = b.h2
    BY <1>5, <2>1
  <2> QED BY <1>2, <1>5, <1>8, <2>2
<1>9. CASE b.todo = {} /\ ck.pc = "copy1"
  <2>1. a = [b EXCEPT !.pc = "loaded"] BY <1>6, <1>9
  <2>2. /\ a = [pc |-> a.pc, h1 |-> a.h1, h2 |-> a.h2, todo |-> a.todo, nBackfill |-> a.nBackfill,
              mxSafeFrame |-> a.mxSafeFrame, aIndex |-> a.aIndex, iPrior |-> a.iPrior, out |-> a.out]
        /\ a.pc = "loaded" /\ a.todo = b.todo /\ a.h1 = b.h1 /\ a.h2 = b.h2
    BY <1>5, <2>1
  <2> QED BY <1>2, <1>5, <1>9, <2>2
<1> QED BY <1>7, <1>8, <1>9

\* A word of a header is loaded, of whichever copy and in whichever order.
LEMMA CkptReadHdrHeaders == ASSUME HeadersInv, CkptReadHdr PROVE HeadersInv'
<1>1. UNCHANGED ckptUnchanged /\ nBackfill' = nBackfill /\ ck.pc \in {"copy0", "copy1"} BY DEF CkptReadHdr
<1>2. ~(w.pc = "recover" \/ (IsStoring /\ w.ret # "commit")) BY <1>1, CkptAlone
<1>3. nBackfill' \in 0..MaxFrame BY <1>1 DEF HeadersInv, LogInv
<1>4. LogInv' /\ HdrInv' /\ WriterInv' /\ ReadersInv' BY <1>1, <1>2, <1>3, CkptKeeps
<1>5. PICK a \in Loads(ck) : ck' = a BY DEF CkptReadHdr
<1>6. PICK x \in ck.todo :
        /\ a = [pc |-> a.pc, h1 |-> a.h1, h2 |-> a.h2, todo |-> a.todo, nBackfill |-> a.nBackfill,
                mxSafeFrame |-> a.mxSafeFrame, aIndex |-> a.aIndex, iPrior |-> a.iPrior, out |-> a.out]
        /\ ck.pc = "copy0" => a.h1 = Copy(ck.h1, aHdr[0], x) /\ a.h2 = ck.h2
        /\ ck.pc = "copy1" => a.h1 = ck.h1 /\ a.h2 = Copy(ck.h2, aHdr[1], x)
        /\ \/ a.pc = ck.pc /\ a.todo = ck.todo \ {x} /\ a.todo # {}
           \/ ck.pc = "copy0" /\ a.pc = "copy1" /\ a.todo = Words /\ ck.todo \ {x} = {}
           \/ ck.pc = "copy1" /\ a.pc = "loaded" /\ a.todo = {}
  BY <1>1, LoadIs DEF HeadersInv
<1>7. ck.h1 \in Header /\ ck.h2 \in Header /\ ck.todo \in SUBSET Words /\ x \in Words BY DEF HeadersInv, CkptInv
<1>8. aHdr[0] \in Header /\ aHdr[1] \in Header BY DEF HeadersInv, HdrInv
<1>9. a.h1 \in Header /\ a.h2 \in Header /\ a.todo \in SUBSET Words
  <2>1. Copy(ck.h1, aHdr[0], x) \in Header /\ Copy(ck.h2, aHdr[1], x) \in Header BY <1>7, <1>8, CopyIs
  <2>2. a.todo \in SUBSET Words BY <1>6, <1>7
  <2> QED BY <1>1, <1>6, <1>7, <2>1, <2>2
<1>10. SumOk(aHdr[0]) /\ IsCurrent(aHdr[0].aCksum[1], aHdr[0].aSalt)
  <2>1. SumOk(aHdr[0]) /\ HdrInv BY DEF HeadersInv, HdrInv
  <2>2. IsGood => aHdr[0].aCksum[1] <= aHdr[0].mxFrame
    <3>1. aHdr[0].mxFrame \in Nat BY <1>8 DEF Header
    <3> QED BY <2>1, <3>1, GoodHdr
  <2>3. IsStoring => aHdr[0].aCksum[1] <= w.hdr.mxFrame /\ aHdr[0].aSalt = w.hdr.aSalt
    BY <1>2 DEF HeadersInv, WriterInv, StoringInv
  <2> QED BY <2>1, <2>2, <2>3 DEF IsCurrent
<1> DEFINE Ok(hdr) == SumOk(hdr) /\ IsCurrent(hdr.aCksum[1], hdr.aSalt)
<1>11. (a.pc = "copy0" /\ SumWord \notin a.todo) \/ a.pc \in {"copy1", "loaded"} => Ok(a.h1)
  <2> SUFFICES ASSUME (a.pc = "copy0" /\ SumWord \notin a.todo) \/ a.pc \in {"copy1", "loaded"} PROVE Ok(a.h1) OBVIOUS
  <2>1. CASE ck.pc = "copy1"
    <3>1. Ok(ck.h1) BY <2>1 DEF HeadersInv, CkptInv
    <3> QED BY <1>6, <2>1, <3>1
  <2>2. CASE ck.pc = "copy0" /\ x = SumWord
    <3>1. a.h1 = [mxFrame |-> ck.h1.mxFrame, nPage |-> aHdr[0].nPage, aSalt |-> aHdr[0].aSalt, aCksum |-> aHdr[0].aCksum]
      <4>1. a.h1 = Copy(ck.h1, aHdr[0], x) BY <1>6, <2>2
      <4> QED BY <1>7, <1>8, <2>2, <4>1, CopyWord
    <3>2. a.h1.nPage = aHdr[0].nPage /\ a.h1.aSalt = aHdr[0].aSalt /\ a.h1.aCksum = aHdr[0].aCksum BY <3>1
    <3>3. SumOk(a.h1) BY <1>10, <3>2 DEF SumOk
    <3>4. IsCurrent(a.h1.aCksum[1], a.h1.aSalt) BY <1>10, <3>2, Zenon
    <3> QED BY <3>3, <3>4, Zenon
  <2>3. CASE ck.pc = "copy0" /\ x # SumWord
    <3>1. x = {"mxFrame"} BY <1>7, <1>8, <2>3, CopyIs
    <3>2. a.h1 = [mxFrame |-> aHdr[0].mxFrame, nPage |-> ck.h1.nPage, aSalt |-> ck.h1.aSalt, aCksum |-> ck.h1.aCksum]
      <4>1. a.h1 = Copy(ck.h1, aHdr[0], x) BY <1>6, <2>3
      <4> QED BY <1>7, <1>8, <3>1, <4>1, CopyWord
    <3>3. a.h1.nPage = ck.h1.nPage /\ a.h1.aSalt = ck.h1.aSalt /\ a.h1.aCksum = ck.h1.aCksum BY <3>2
    <3>4. SumWord \notin ck.todo BY <1>6, <2>3
    <3>5. Ok(ck.h1) BY <2>3, <3>4 DEF HeadersInv, CkptInv
    <3>6. SumOk(a.h1) BY <3>3, <3>5 DEF SumOk
    <3>7. IsCurrent(a.h1.aCksum[1], a.h1.aSalt) BY <3>3, <3>5, Zenon
    <3> QED BY <3>6, <3>7, Zenon
  <2> QED BY <1>1, <2>1, <2>2, <2>3
<1>12. Ok(a.h1) => SumOk(ck.h1)' /\ IsCurrent(ck.h1.aCksum[1], ck.h1.aSalt)'
  <2>1. UNCHANGED <<log, logSalt, aHdr, w>> /\ ck'.h1 = a.h1 BY <1>1, <1>5 DEF ckptUnchanged
  <2> QED BY <2>1 DEF SumOk, Says, IsCommit, IsCurrent, IsGood, HdrOk, IsStoring
<1>13. a.pc \in {"copy0", "copy1", "loaded"} BY <1>1, <1>6
<1> HIDE DEF Ok
<1>14. CkptInv' BY <1>5, <1>6, <1>9, <1>11, <1>12, <1>13 DEF CkptInv
<1> QED BY <1>4, <1>14 DEF HeadersInv

\* The frames that may be copied back are among those of the snapshot.
LEMMA SafeFrameIs ==
    ASSUME HeadersInv
    PROVE  SafeFrame \in 0..ck.h1.mxFrame
<1> DEFINE S == {ck.h1.mxFrame} \cup {rd[r].mxFrame : r \in {q \in Readers : rd[q].pc # "idle"}}
<1>1. ck.h1.mxFrame \in Nat BY DEF HeadersInv, CkptInv, Header
<1>2. \A r \in Readers : rd[r].mxFrame \in Nat BY DEF HeadersInv, ReadersInv, ReaderInv, ReaderType
<1>3. S \in SUBSET Nat /\ S # {} /\ ck.h1.mxFrame \in S BY <1>1, <1>2
<1>4. SafeFrame = Lowest(S) BY DEF SafeFrame
<1> HIDE DEF S
<1>5. PICK m : m = Lowest(S) OBVIOUS
<1>6. m \in S /\ \A n \in S : m <= n BY <1>3, <1>5, LowestIs
<1>7. m \in Nat /\ m <= ck.h1.mxFrame BY <1>3, <1>6
<1> QED BY <1>1, <1>4, <1>5, <1>7

\* The two copies agree, so that the header is one that was stored.
LEMMA CkptSortHeaders == ASSUME HeadersInv, CkptSort PROVE HeadersInv'
<1>1. UNCHANGED ckptUnchanged /\ nBackfill' = nBackfill /\ ck.pc = "loaded" BY DEF CkptSort
<1>2. ~(w.pc = "recover" \/ (IsStoring /\ w.ret # "commit")) BY <1>1, CkptAlone
<1>3. nBackfill' \in 0..MaxFrame BY <1>1 DEF HeadersInv, LogInv
<1>4. LogInv' /\ HdrInv' /\ WriterInv' /\ ReadersInv' BY <1>1, <1>2, <1>3, CkptKeeps
<1>5. CASE ck' = NoCkpt BY <1>4, <1>5, NoCkptInv DEF HeadersInv
<1>6. CASE ck' # NoCkpt
  <2>1. PICK s, x, n : s = SafeFrame /\ x = walIteratorInit(nBackfill, ck.h1.mxFrame) /\ n = nBackfill OBVIOUS
  <2>2. /\ HdrOk(ck.h1, ck.h2) /\ n < s
        /\ ck' = [ck EXCEPT !.pc = "iterate", !.nBackfill = n, !.mxSafeFrame = s, !.aIndex = x]
    BY <1>6, <2>1, Zenon DEF CkptSort
  <2>3. ck = [pc |-> ck.pc, h1 |-> ck.h1, h2 |-> ck.h2, todo |-> ck.todo, nBackfill |-> ck.nBackfill,
              mxSafeFrame |-> ck.mxSafeFrame, aIndex |-> ck.aIndex, iPrior |-> ck.iPrior, out |-> ck.out]
    BY DEF HeadersInv, CkptInv
  <2>4. /\ ck'.pc = "iterate" /\ ck'.h1 = ck.h1 /\ ck'.h2 = ck.h2 /\ ck'.todo = ck.todo /\ ck'.mxSafeFrame = s
        /\ ck' = [pc |-> ck'.pc, h1 |-> ck'.h1, h2 |-> ck'.h2, todo |-> ck'.todo, nBackfill |-> ck'.nBackfill,
                  mxSafeFrame |-> ck'.mxSafeFrame, aIndex |-> ck'.aIndex, iPrior |-> ck'.iPrior, out |-> ck'.out]
    BY <2>2, <2>3
  <2>5. SumOk(ck.h1) /\ IsCurrent(ck.h1.aCksum[1], ck.h1.aSalt) /\ ck.h1 \in Header /\ ck.h2 \in Header /\ ck.todo \in SUBSET Words
    BY <1>1 DEF HeadersInv, CkptInv
  <2>6. SumOk(ck.h1)' /\ IsCurrent(ck.h1.aCksum[1], ck.h1.aSalt)'
    <3>1. UNCHANGED <<log, logSalt, aHdr, w>> BY <1>1 DEF ckptUnchanged
    <3> QED BY <2>4, <2>5, <3>1 DEF SumOk, Says, IsCommit, IsCurrent, IsGood, HdrOk, IsStoring
  <2>7. ck.h1 = Hdr(ck.h1.mxFrame, ck.h1.nPage, ck.h1.aSalt) BY <2>2 DEF HdrOk
  <2>8. s \in 0..ck.h1.mxFrame /\ ck.h1.mxFrame \in Nat BY <2>1, <2>5, SafeFrameIs DEF Header
  <2>9. nBackfill < ck.h1.mxFrame
    <3>1. n \in Nat /\ nBackfill = n BY <2>1 DEF HeadersInv, LogInv
    <3> QED BY <2>2, <2>8, <3>1
  <2>10. CkptInv' BY <1>1, <2>4, <2>5, <2>6, <2>7, <2>8, <2>9 DEF CkptInv
  <2> QED BY <1>4, <2>10 DEF HeadersInv
<1> QED BY <1>5, <1>6

\* A step of the iterator leaves the snapshot alone.
LEMMA CkptNextHeaders == ASSUME HeadersInv, CkptNext PROVE HeadersInv'
<1>1. UNCHANGED ckptUnchanged /\ nBackfill' = nBackfill /\ ck.pc = "iterate" BY DEF CkptNext
<1>2. ~(w.pc = "recover" \/ (IsStoring /\ w.ret # "commit")) BY <1>1, CkptAlone
<1>3. nBackfill' \in 0..MaxFrame BY <1>1 DEF HeadersInv, LogInv
<1>4. LogInv' /\ HdrInv' /\ WriterInv' /\ ReadersInv' BY <1>1, <1>2, <1>3, CkptKeeps
<1>5. PICK n, p, o : n = walIteratorNext(ck.aIndex, ck.iPrior) /\ p = n.pg /\ o = Append(ck.out, n) OBVIOUS
<1>6. ck' = IF p = 0 THEN [ck EXCEPT !.pc = "done"] ELSE [ck EXCEPT !.iPrior = p, !.out = o]
  BY <1>5, Zenon DEF CkptNext
<1>7. ck = [pc |-> ck.pc, h1 |-> ck.h1, h2 |-> ck.h2, todo |-> ck.todo, nBackfill |-> ck.nBackfill,
            mxSafeFrame |-> ck.mxSafeFrame, aIndex |-> ck.aIndex, iPrior |-> ck.iPrior, out |-> ck.out]
  BY DEF HeadersInv, CkptInv
<1>8. /\ ck'.pc \in {"iterate", "done"} /\ ck'.h1 = ck.h1 /\ ck'.h2 = ck.h2 /\ ck'.todo = ck.todo
      /\ ck'.mxSafeFrame = ck.mxSafeFrame
      /\ ck' = [pc |-> ck'.pc, h1 |-> ck'.h1, h2 |-> ck'.h2, todo |-> ck'.todo, nBackfill |-> ck'.nBackfill,
                mxSafeFrame |-> ck'.mxSafeFrame, aIndex |-> ck'.aIndex, iPrior |-> ck'.iPrior, out |-> ck'.out]
  <2>1. CASE p = 0
    <3>1. ck' = [ck EXCEPT !.pc = "done"] BY <1>6, <2>1
    <3> QED BY <1>7, <3>1
  <2>2. CASE p # 0
    <3>1. ck' = [ck EXCEPT !.iPrior = p, !.out = o] BY <1>6, <2>2
    <3> QED BY <1>1, <1>7, <3>1
  <2> QED BY <2>1, <2>2
<1>9. SumOk(ck.h1)' /\ IsCurrent(ck.h1.aCksum[1], ck.h1.aSalt)'
  <2>1. UNCHANGED <<log, logSalt, aHdr, w>> BY <1>1 DEF ckptUnchanged
  <2>2. SumOk(ck.h1) /\ IsCurrent(ck.h1.aCksum[1], ck.h1.aSalt) BY <1>1 DEF HeadersInv, CkptInv
  <2> QED BY <1>8, <2>1, <2>2 DEF SumOk, Says, IsCommit, IsCurrent, IsGood, HdrOk, IsStoring
<1>10. CkptInv' BY <1>1, <1>8, <1>9 DEF CkptInv, HeadersInv
<1> QED BY <1>4, <1>10 DEF HeadersInv

\* nBackfill stays within the frames of the snapshot.
LEMMA CkptEndHeaders == ASSUME HeadersInv, CkptEnd PROVE HeadersInv'
<1>1. UNCHANGED ckptUnchanged /\ nBackfill' = ck.mxSafeFrame /\ ck.pc = "done" /\ ck' = NoCkpt BY DEF CkptEnd
<1>2. ~(w.pc = "recover" \/ (IsStoring /\ w.ret # "commit")) BY <1>1, CkptAlone
<1>3. nBackfill' \in 0..MaxFrame
  <2>1. ck.h1.mxFrame \in 0..MaxFrame /\ ck.mxSafeFrame \in 0..ck.h1.mxFrame BY <1>1 DEF HeadersInv, CkptInv, Header
  <2>2. MaxFrame \in Nat BY WalIndexAssumption
  <2> QED BY <1>1, <2>1, <2>2
<1>4. LogInv' /\ HdrInv' /\ WriterInv' /\ ReadersInv' BY <1>1, <1>2, <1>3, CkptKeeps
<1> QED BY <1>1, <1>4, NoCkptInv DEF HeadersInv

\* The records that the steps of a writer make.
LEMMA WriterIs ==
    ASSUME NEW a, NEW hdr, NEW next
    PROVE  /\ NoWriter = [pc |-> "idle", ret |-> "idle", hdr |-> ZeroHdr, iFrame |-> 0, list |-> <<>>,
                          nTruncate |-> 0, todo |-> {}, save |-> ZeroHdr]
           /\ Between(a, hdr) = [pc |-> "open", ret |-> "idle", hdr |-> hdr, iFrame |-> 0, list |-> <<>>,
                                 nTruncate |-> 0, todo |-> {}, save |-> a.save]
           /\ WriteHdr(hdr, next) = [pc |-> "hdr1", ret |-> next, hdr |-> hdr, iFrame |-> 0, list |-> <<>>,
                                     nTruncate |-> 0, todo |-> Words, save |-> w.save]
<1>1. NoWriter = [pc |-> "idle", ret |-> "idle", hdr |-> ZeroHdr, iFrame |-> 0, list |-> <<>>,
                  nTruncate |-> 0, todo |-> {}, save |-> ZeroHdr]
  BY DEF NoWriter
<1>2. ASSUME NEW s PROVE [NoWriter EXCEPT !.pc = "open", !.hdr = hdr, !.save = s] =
                           [pc |-> "open", ret |-> "idle", hdr |-> hdr, iFrame |-> 0, list |-> <<>>,
                            nTruncate |-> 0, todo |-> {}, save |-> s]
  <2>1. PICK v : v = [NoWriter EXCEPT !.pc = "open", !.hdr = hdr, !.save = s] OBVIOUS
  <2>2. v = [pc |-> "open", ret |-> "idle", hdr |-> hdr, iFrame |-> 0, list |-> <<>>,
             nTruncate |-> 0, todo |-> {}, save |-> s]
    BY <2>1 DEF NoWriter
  <2> QED BY <2>1, <2>2
<1>3. ASSUME NEW b PROVE Between(b, hdr) = [pc |-> "open", ret |-> "idle", hdr |-> hdr, iFrame |-> 0, list |-> <<>>,
                                            nTruncate |-> 0, todo |-> {}, save |-> b.save]
  <2>1. PICK s : s = b.save OBVIOUS
  <2> QED BY <1>2, <2>1 DEF Between
<1>4. PICK s, c : s = w.save /\ c = Between(w, hdr) OBVIOUS
<1>5. c = [pc |-> "open", ret |-> "idle", hdr |-> hdr, iFrame |-> 0, list |-> <<>>,
           nTruncate |-> 0, todo |-> {}, save |-> s]
  BY <1>3, <1>4
<1>6. [c EXCEPT !.pc = "hdr1", !.ret = next, !.todo = Words] =
          [pc |-> "hdr1", ret |-> next, hdr |-> hdr, iFrame |-> 0, list |-> <<>>,
           nTruncate |-> 0, todo |-> Words, save |-> s]
  <2>1. PICK v : v = [c EXCEPT !.pc = "hdr1", !.ret = next, !.todo = Words] OBVIOUS
  <2>2. v = [pc |-> "hdr1", ret |-> next, hdr |-> hdr, iFrame |-> 0, list |-> <<>>,
             nTruncate |-> 0, todo |-> Words, save |-> s]
    BY <1>5, <2>1
  <2> QED BY <2>1, <2>2
<1>7. WriteHdr(hdr, next) = [c EXCEPT !.pc = "hdr1", !.ret = next, !.todo = Words] BY <1>4 DEF WriteHdr
<1> QED BY <1>1, <1>3, <1>4, <1>6, <1>7

\* The sets of a record that a writer is.
LEMMA WriterTypeIs ==
    WriterType => /\ w.pc \in {"idle", "recover", "hdr1", "hdr0", "open", "append", "pgno", "slot", "cleanup"}
                  /\ w.ret \in {"idle", "commit", "restart", "recover", "open", "pgno"}
                  /\ w.hdr \in Header /\ w.iFrame \in Nat /\ w.list \in Seq(Pgno) /\ w.nTruncate \in 0..MaxPage
                  /\ w.todo \in SUBSET Words /\ w.save \in Header
BY DEF WriterType

\* The fields of a header.
LEMMA HeaderIs ==
    ASSUME NEW hdr \in Header
    PROVE  /\ hdr.mxFrame \in 0..MaxFrame /\ hdr.mxFrame \in Nat /\ hdr.nPage \in 0..MaxPage /\ hdr.aSalt \in Nat
           /\ hdr.aCksum[1] \in 0..MaxFrame /\ hdr.aCksum[1] \in Nat
BY DEF Header

\* A writer that is idle.
LEMMA NoWriterInv == ASSUME w' = NoWriter PROVE WriterInv' /\ ~IsStoring'
<1>1. /\ w'.pc = "idle" /\ w'.ret = "idle" /\ w'.hdr = ZeroHdr /\ w'.iFrame = 0 /\ w'.list = <<>>
      /\ w'.nTruncate = 0 /\ w'.todo = {} /\ w'.save = ZeroHdr
  BY DEF NoWriter
<1>2. WriterType'
  <2>1. 0 \in 0..MaxPage /\ <<>> \in Seq(Pgno) /\ {} \in SUBSET Words BY WalIndexAssumption
  <2> QED BY <2>1, HdrType DEF WriterType, NoWriter
<1> QED BY <1>1, <1>2 DEF WriterInv, IsStoring, InTransaction, IsAppending

\* A writer that dies leaves the words that it has stored.
LEMMA CrashWriterHeaders == ASSUME HeadersInv, CrashWriter PROVE HeadersInv'
<1>1. UNCHANGED <<log, logSalt, aHdr, nBackfill, ck, rd>> /\ w' = NoWriter BY DEF CrashWriter, shmVars
<1>2. nCrash' \in 0..MaxCrash
  <2>1. nCrash' = nCrash + 1 /\ nCrash < MaxCrash /\ nCrash \in 0..MaxCrash /\ MaxCrash \in Nat
    BY WalIndexAssumption DEF CrashWriter, HeadersInv, LogInv
  <2> QED BY <2>1
<1>3. WriterInv' /\ ~IsStoring' BY <1>1, NoWriterInv
<1> QED BY <1>1, <1>2, <1>3, QuietStep DEF HeadersInv

\* A writer begins from the header, or with a recovery if it is not good.
LEMMA BeginWriteHeaders == ASSUME HeadersInv, BeginWrite PROVE HeadersInv'
<1>1. UNCHANGED <<log, logSalt, aHdr, nBackfill, ck, rd, nCrash>> BY DEF BeginWrite, shmVars
<1>2. nCrash' \in 0..MaxCrash BY <1>1 DEF HeadersInv, LogInv
<1>3. 0 \in 0..MaxPage /\ <<>> \in Seq(Pgno) /\ {} \in SUBSET Words BY WalIndexAssumption
<1>4. CASE IsGood /\ w' = [NoWriter EXCEPT !.pc = "open", !.hdr = aHdr[0]]
  <2>1. PICK hdr : hdr = aHdr[0] OBVIOUS
  <2>2. w' = [pc |-> "open", ret |-> "idle", hdr |-> hdr, iFrame |-> 0, list |-> <<>>,
              nTruncate |-> 0, todo |-> {}, save |-> ZeroHdr]
    BY <1>4, <2>1 DEF NoWriter
  <2>3. /\ hdr \in Header /\ hdr = Hdr(hdr.mxFrame, hdr.nPage, hdr.aSalt) /\ Says(hdr.mxFrame, hdr.nPage, hdr.aSalt)
    BY <1>4, <2>1, GoodHdr DEF HeadersInv
  <2>4. WriterType' BY <1>3, <2>2, <2>3, HdrType DEF WriterType
  <2>5. w'.pc = "open" /\ w'.hdr = hdr /\ w'.save = ZeroHdr BY <2>2
  <2>6. ~IsStoring' BY <2>5 DEF IsStoring
  <2>7. LogInv' /\ HdrInv' /\ CkptInv' /\ ReadersInv' /\ IsGood' BY <1>1, <1>2, <1>4, <2>6, QuietStep
  <2>8. TransactionInv'
    <3>1. hdr.mxFrame \in Nat BY <2>3, HeaderIs
    <3>2. hdr.mxFrame # 0 => hdr.aSalt = logSalt /\ hdr.mxFrame <= Len(log)
      <4>1. Len(log) \in Nat BY DEF HeadersInv, LogInv
      <4> QED BY <2>3, <4>1 DEF Says, IsCommit
    <3> QED BY <1>1, <2>1, <2>3, <2>5, <2>7, <3>1, <3>2 DEF TransactionInv
  <2>9. WriterInv' BY <2>4, <2>5, <2>6, <2>8 DEF WriterInv, IsAppending
  <2> QED BY <2>7, <2>9 DEF HeadersInv
<1>5. CASE ~IsGood /\ ck.pc = "idle" /\ w' = [NoWriter EXCEPT !.pc = "recover"]
  <2>1. w' = [pc |-> "recover", ret |-> "idle", hdr |-> ZeroHdr, iFrame |-> 0, list |-> <<>>,
              nTruncate |-> 0, todo |-> {}, save |-> ZeroHdr]
    BY <1>5 DEF NoWriter
  <2>2. WriterType' BY <1>3, <2>1, HdrType DEF WriterType
  <2>3. w'.pc = "recover" /\ ck'.pc = "idle" BY <1>1, <1>5, <2>1
  <2>4. ~IsStoring' BY <2>3 DEF IsStoring
  <2>5. LogInv' /\ HdrInv' /\ CkptInv' /\ ReadersInv' /\ ~IsGood' BY <1>1, <1>2, <1>5, <2>4, QuietStep
  <2>6. WriterInv' BY <2>2, <2>3, <2>4, <2>5 DEF WriterInv, InTransaction, IsAppending
  <2> QED BY <2>5, <2>6 DEF HeadersInv
<1> QED BY <1>4, <1>5 DEF BeginWrite, IsGood

\* A header is going to be stored: whoever has a frame of the log has one that
\* it has too.
LEMMA StoreBegins ==
    ASSUME HeadersInv, UNCHANGED <<log, logSalt, aHdr, nBackfill, ck, rd, nCrash>>, w'.hdr.mxFrame \in Nat,
           \A r \in Readers : rd[r].pc # "idle" => rd[r].mxFrame <= w'.hdr.mxFrame /\ w'.hdr.aSalt = logSalt,
           ck.pc # "idle" => IsGood /\ aHdr[0].mxFrame <= w'.hdr.mxFrame /\ w'.hdr.aSalt = aHdr[0].aSalt
    PROVE  LogInv' /\ HdrInv' /\ CkptInv' /\ ReadersInv' /\ (IsGood' <=> IsGood)
<1>1. LogInv' BY DEF HeadersInv, LogInv
<1>2. HdrInv'
  <2>1. aHdr' \in [0..1 -> Header] BY DEF HeadersInv, HdrInv
  <2>2. SumOk(aHdr[0])' /\ SumOk(aHdr[1])' BY DEF HeadersInv, HdrInv, SumOk, Says, IsCommit
  <2> QED BY <2>1, <2>2 DEF HdrInv
<1>3. IsGood' <=> IsGood BY DEF IsGood, HdrOk
<1>4. CkptInv'
  <2>1. SumOk(ck.h1)' <=> SumOk(ck.h1) BY DEF SumOk, Says, IsCommit
  <2>2. ck.h1 \in Header /\ aHdr[0] \in Header BY DEF HeadersInv, CkptInv, HdrInv
  <2>3. ck.h1.aCksum[1] \in Nat /\ aHdr[0].mxFrame \in Nat BY <2>2, HeaderIs
  <2>4. ck.pc # "idle" /\ IsCurrent(ck.h1.aCksum[1], ck.h1.aSalt) => IsCurrent(ck.h1.aCksum[1], ck.h1.aSalt)'
    <3> SUFFICES ASSUME ck.pc # "idle", IsCurrent(ck.h1.aCksum[1], ck.h1.aSalt)
                 PROVE  IsCurrent(ck.h1.aCksum[1], ck.h1.aSalt)'
      OBVIOUS
    <3>1. ck.h1.aCksum[1] <= aHdr[0].mxFrame /\ ck.h1.aSalt = aHdr[0].aSalt BY DEF IsCurrent
    <3>2. ck.h1.aCksum[1] <= w'.hdr.mxFrame /\ ck.h1.aSalt = w'.hdr.aSalt BY <2>3, <3>1
    <3> QED BY <3>1, <3>2 DEF IsCurrent
  <2> QED BY <2>1, <2>4 DEF HeadersInv, CkptInv
<1>5. ReadersInv'
  <2>1. ASSUME NEW r \in Readers PROVE ReaderInv(rd[r])'
    <3>1. ReaderInv(rd[r]) BY DEF HeadersInv, ReadersInv
    <3> QED BY <1>3, <3>1 DEF ReaderInv, ReaderType, IsCurrent, IsCommit
  <2> QED BY <2>1 DEF HeadersInv, ReadersInv
<1> QED BY <1>1, <1>2, <1>3, <1>4, <1>5

\* It is a good header, and nothing of it is stored yet.
LEMMA StoreBeginsWriter ==
    ASSUME NEW hdr \in Header, NEW next \in {"commit", "restart", "recover"}, w' = WriteHdr(hdr, next), WriterType,
           hdr.aSalt # 0, hdr = Hdr(hdr.mxFrame, hdr.nPage, hdr.aSalt), Says(hdr.mxFrame, hdr.nPage, hdr.aSalt)',
           next = "commit" => /\ hdr.mxFrame # 0
                              /\ aHdr'[0].aCksum[1] <= hdr.mxFrame /\ aHdr'[0].aSalt = hdr.aSalt,
           next = "restart" => hdr.mxFrame = 0 /\ aHdr'[0].mxFrame \in {0, nBackfill'},
           next = "recover" => ~IsGood',
           next # "commit" => ck'.pc = "idle"
    PROVE  WriterInv' /\ IsStoring' /\ w'.hdr = hdr
<1>1. w' = [pc |-> "hdr1", ret |-> next, hdr |-> hdr, iFrame |-> 0, list |-> <<>>,
            nTruncate |-> 0, todo |-> Words, save |-> w.save]
  BY WriterIs
<1>2. w'.pc = "hdr1" /\ w'.ret = next /\ w'.hdr = hdr /\ w'.todo = Words BY <1>1
<1>3. WriterType'
  <2>1. 0 \in 0..MaxPage /\ <<>> \in Seq(Pgno) /\ Words \in SUBSET Words /\ w.save \in Header
    BY WalIndexAssumption, WriterTypeIs
  <2> QED BY <1>1, <2>1 DEF WriterType
<1>4. {"mxFrame"} \in Words /\ SumWord \in Words /\ Words # {} BY DEF Words, SumWord
<1>5. StoringInv'
  <2>1. IsStored(aHdr[1])' BY <1>2, <1>4 DEF IsStored
  <2> QED BY <1>2, <1>4, <2>1 DEF StoringInv
<1> QED BY <1>2, <1>3, <1>5 DEF WriterInv, IsStoring, InTransaction, IsAppending

\* walRestartHdr: a header without frames, of the next log.
LEMMA RestartLogHeaders == ASSUME HeadersInv, RestartLog PROVE HeadersInv'
<1>1. UNCHANGED <<log, logSalt, aHdr, nBackfill, ck, rd, nCrash>> BY DEF RestartLog, shmVars
<1>2. /\ w.pc = "open" /\ w.hdr = aHdr[0] /\ nBackfill = w.hdr.mxFrame /\ nBackfill > 0
      /\ \A r \in Readers : rd[r].pc = "idle"
      /\ ck.pc \notin {"copy0", "copy1", "loaded"}
  BY DEF RestartLog
<1>3. WriterType /\ TransactionInv BY <1>2 DEF HeadersInv, WriterInv, InTransaction
<1>4. IsGood BY <1>3 DEF TransactionInv
<1>5. /\ aHdr[0] \in Header /\ aHdr[0].aSalt # 0 /\ Says(aHdr[0].mxFrame, aHdr[0].nPage, aHdr[0].aSalt)
  BY <1>4, GoodHdr DEF HeadersInv
<1>6. nBackfill \in Nat /\ aHdr[0].nPage \in 0..MaxPage /\ aHdr[0].aSalt \in Nat BY <1>2, <1>5, HeaderIs
<1>7. aHdr[0].aSalt = logSalt BY <1>2, <1>5, <1>6 DEF Says
<1>8. ck.pc = "idle"
  <2> SUFFICES ASSUME ck.pc \in {"iterate", "done"} PROVE FALSE BY <1>2 DEF HeadersInv, CkptInv
  <2>1. /\ ck.h1 \in Header /\ ck.h1 = Hdr(ck.h1.mxFrame, ck.h1.nPage, ck.h1.aSalt) /\ nBackfill < ck.h1.mxFrame
        /\ IsCurrent(ck.h1.aCksum[1], ck.h1.aSalt)
    BY DEF HeadersInv, CkptInv
  <2>2. ck.h1.aCksum[1] = ck.h1.mxFrame /\ ck.h1.mxFrame \in Nat
    <3>1. ck.h1.mxFrame \in 0..MaxFrame /\ ck.h1.nPage \in 0..MaxPage /\ ck.h1.aSalt \in Nat BY <2>1, HeaderIs
    <3>2. Hdr(ck.h1.mxFrame, ck.h1.nPage, ck.h1.aSalt).aCksum = <<ck.h1.mxFrame, ck.h1.nPage, ck.h1.aSalt>> BY <3>1, HdrType
    <3> QED BY <2>1, <3>1, <3>2
  <2>3. ck.h1.mxFrame <= aHdr[0].mxFrame BY <1>4, <2>1, <2>2 DEF IsCurrent
  <2> QED BY <1>2, <1>6, <2>1, <2>2, <2>3
<1>9. PICK hdr : hdr = Hdr(0, w.hdr.nPage, w.hdr.aSalt + 1) OBVIOUS
<1>10. w' = WriteHdr(hdr, "restart") BY <1>9 DEF RestartLog
<1>11. /\ hdr \in Header /\ hdr.mxFrame = 0 /\ hdr.nPage = w.hdr.nPage /\ hdr.aSalt = w.hdr.aSalt + 1
       /\ hdr = Hdr(hdr.mxFrame, hdr.nPage, hdr.aSalt)
  <2>1. 0 \in 0..MaxFrame /\ w.hdr.nPage \in 0..MaxPage /\ w.hdr.aSalt + 1 \in Nat BY <1>2, <1>6, WalIndexAssumption
  <2> QED BY <1>9, <2>1, HdrType
<1>12. hdr.aSalt # 0 /\ Says(hdr.mxFrame, hdr.nPage, hdr.aSalt)'
  <2>1. hdr.aSalt = logSalt + 1 /\ logSalt \in Nat BY <1>2, <1>6, <1>7, <1>11
  <2> QED BY <1>1, <1>11, <2>1 DEF Says
<1>13. WriterInv' /\ IsStoring' /\ w'.hdr = hdr
  <2>1. aHdr'[0].mxFrame \in {0, nBackfill'} BY <1>1, <1>2
  <2>2. ck'.pc = "idle" BY <1>1, <1>8
  <2> QED BY <1>3, <1>10, <1>11, <1>12, <2>1, <2>2, StoreBeginsWriter
<1>14. LogInv' /\ HdrInv' /\ CkptInv' /\ ReadersInv' BY <1>1, <1>2, <1>8, <1>11, <1>13, StoreBegins
<1> QED BY <1>13, <1>14 DEF HeadersInv

\* The copies after the store of a word: one of them has it.
LEMMA StoreIs ==
    ASSUME HeadersInv, IsStoring, NEW x \in w.todo, NEW i \in 0..1,
           i = IF w.pc = "hdr1" THEN 1 ELSE 0,
           aHdr' = [aHdr EXCEPT ![i] = Copy(aHdr[i], w.hdr, x)]
    PROVE  /\ aHdr' \in [0..1 -> Header] /\ aHdr'[1 - i] = aHdr[1 - i]
           /\ x = {"mxFrame"} \/ x = SumWord
           /\ x = {"mxFrame"} => aHdr'[i] = [mxFrame |-> w.hdr.mxFrame, nPage |-> aHdr[i].nPage,
                                             aSalt |-> aHdr[i].aSalt, aCksum |-> aHdr[i].aCksum]
           /\ x = SumWord => aHdr'[i] = [mxFrame |-> aHdr[i].mxFrame, nPage |-> w.hdr.nPage,
                                         aSalt |-> w.hdr.aSalt, aCksum |-> w.hdr.aCksum]
<1>1. x \in Words /\ w.hdr \in Header /\ aHdr \in [0..1 -> Header]
  BY WriterTypeIs DEF HeadersInv, WriterInv, HdrInv
<1>2. aHdr[i] \in Header BY <1>1
<1>3. aHdr'[i] = Copy(aHdr[i], w.hdr, x) BY <1>1
<1>4. Copy(aHdr[i], w.hdr, x) \in Header BY <1>1, <1>2, CopyIs
<1>5. aHdr' \in [0..1 -> Header] BY <1>1, <1>4
<1>6. 1 - i \in 0..1 /\ 1 - i # i OBVIOUS
<1>7. aHdr'[1 - i] = aHdr[1 - i] BY <1>1, <1>6
<1>8. x = {"mxFrame"} \/ x = SumWord BY <1>1, <1>2, CopyIs
<1>9. PICK c, hdr : c = aHdr[i] /\ hdr = w.hdr OBVIOUS
<1>10. /\ x = {"mxFrame"} =>
            Copy(c, hdr, x) = [mxFrame |-> hdr.mxFrame, nPage |-> c.nPage, aSalt |-> c.aSalt, aCksum |-> c.aCksum]
       /\ x = SumWord =>
            Copy(c, hdr, x) = [mxFrame |-> c.mxFrame, nPage |-> hdr.nPage, aSalt |-> hdr.aSalt, aCksum |-> hdr.aCksum]
  <2>1. c \in Header /\ hdr \in Header BY <1>1, <1>2, <1>9
  <2>2. /\ Copy(c, hdr, {"mxFrame"}) = [mxFrame |-> hdr.mxFrame, nPage |-> c.nPage, aSalt |-> c.aSalt, aCksum |-> c.aCksum]
        /\ Copy(c, hdr, SumWord) = [mxFrame |-> c.mxFrame, nPage |-> hdr.nPage, aSalt |-> hdr.aSalt, aCksum |-> hdr.aCksum]
    BY <2>1, CopyWord
  <2> QED BY <2>2, Zenon
<1>11. aHdr'[i] = Copy(c, hdr, x) BY <1>3, <1>9
<1> QED BY <1>5, <1>7, <1>8, <1>9, <1>10, <1>11

\* They still say what is true, and a good header is the one that is stored.
LEMMA StoreHdrWords ==
    ASSUME HeadersInv, StoreHdr
    PROVE  /\ HdrInv'
           /\ IsGood' => /\ aHdr'[0].mxFrame = w.hdr.mxFrame
                         /\ w.hdr.mxFrame # 0 => aHdr'[0].aSalt = w.hdr.aSalt /\ w.hdr.aSalt = logSalt
<1>1. UNCHANGED <<log, logSalt>> /\ IsStoring BY DEF StoreHdr, IsStoring
<1>2. PICK i : i = IF w.pc = "hdr1" THEN 1 ELSE 0 OBVIOUS
<1>3. i \in 0..1 BY <1>2
<1>4. PICK x \in w.todo : aHdr' = [aHdr EXCEPT ![i] = Copy(aHdr[i], w.hdr, x)] BY <1>2, Zenon DEF StoreHdr
<1>5. /\ aHdr' \in [0..1 -> Header] /\ aHdr'[1 - i] = aHdr[1 - i]
      /\ x = {"mxFrame"} \/ x = SumWord
      /\ x = {"mxFrame"} => aHdr'[i] = [mxFrame |-> w.hdr.mxFrame, nPage |-> aHdr[i].nPage,
                                        aSalt |-> aHdr[i].aSalt, aCksum |-> aHdr[i].aCksum]
      /\ x = SumWord => aHdr'[i] = [mxFrame |-> aHdr[i].mxFrame, nPage |-> w.hdr.nPage,
                                    aSalt |-> w.hdr.aSalt, aCksum |-> w.hdr.aCksum]
  BY <1>1, <1>2, <1>3, <1>4, StoreIs
<1>6. /\ w.hdr = Hdr(w.hdr.mxFrame, w.hdr.nPage, w.hdr.aSalt) /\ Says(w.hdr.mxFrame, w.hdr.nPage, w.hdr.aSalt)
      /\ w.hdr \in Header
  BY <1>1, WriterTypeIs DEF HeadersInv, WriterInv, StoringInv
<1>7. w.hdr.aCksum = <<w.hdr.mxFrame, w.hdr.nPage, w.hdr.aSalt>>
  <2>1. w.hdr.mxFrame \in 0..MaxFrame /\ w.hdr.nPage \in 0..MaxPage /\ w.hdr.aSalt \in Nat BY <1>6, HeaderIs
  <2>2. Hdr(w.hdr.mxFrame, w.hdr.nPage, w.hdr.aSalt).aCksum = <<w.hdr.mxFrame, w.hdr.nPage, w.hdr.aSalt>> BY <2>1, HdrType
  <2> QED BY <1>6, <2>2
<1>8. SumOk(w.hdr) BY <1>6, <1>7 DEF SumOk
<1>9. SumOk(aHdr[i]) /\ SumOk(aHdr[1 - i]) BY <1>3 DEF HeadersInv, HdrInv
<1>10. PICK g, e : g = aHdr'[i] /\ e = aHdr'[1 - i] OBVIOUS
<1>11. SumOk(g) /\ SumOk(e)
  <2>1. CASE x = {"mxFrame"}
    <3>1. g.nPage = aHdr[i].nPage /\ g.aSalt = aHdr[i].aSalt /\ g.aCksum = aHdr[i].aCksum BY <1>5, <1>10, <2>1
    <3> QED BY <1>5, <1>9, <1>10, <3>1 DEF SumOk
  <2>2. CASE x = SumWord
    <3>1. g.nPage = w.hdr.nPage /\ g.aSalt = w.hdr.aSalt /\ g.aCksum = w.hdr.aCksum BY <1>5, <1>10, <2>2
    <3> QED BY <1>5, <1>8, <1>9, <1>10, <3>1 DEF SumOk
  <2> QED BY <1>5, <2>1, <2>2
<1>12. SumOk(g)' /\ SumOk(e)' BY <1>1, <1>11, LogSame
<1>13. HdrInv'
  <2>1. SumOk(aHdr[i])' /\ SumOk(aHdr[1 - i])' BY <1>10, <1>12 DEF SumOk, Says, IsCommit
  <2>2. SumOk(aHdr[0])' /\ SumOk(aHdr[1])'
    <3>1. CASE i = 0 BY <2>1, <3>1
    <3>2. CASE i = 1 BY <2>1, <3>2
    <3> QED BY <1>2, <3>1, <3>2
  <2> QED BY <1>5, <2>2 DEF HdrInv
<1>14. ASSUME IsGood'
       PROVE  /\ aHdr'[0].mxFrame = w.hdr.mxFrame
              /\ w.hdr.mxFrame # 0 => aHdr'[0].aSalt = w.hdr.aSalt /\ w.hdr.aSalt = logSalt
  <2>1. /\ g = e /\ g \in Header /\ g = Hdr(g.mxFrame, g.nPage, g.aSalt) /\ aHdr'[0] = g
    BY <1>2, <1>5, <1>10, <1>14 DEF IsGood, HdrOk
  <2>2. g.aCksum = <<g.mxFrame, g.nPage, g.aSalt>>
    <3>1. g.mxFrame \in 0..MaxFrame /\ g.nPage \in 0..MaxPage /\ g.aSalt \in Nat BY <2>1, HeaderIs
    <3>2. Hdr(g.mxFrame, g.nPage, g.aSalt).aCksum = <<g.mxFrame, g.nPage, g.aSalt>> BY <3>1, HdrType
    <3> QED BY <2>1, <3>2
  <2>3. g.mxFrame = w.hdr.mxFrame
    <3>1. CASE x = {"mxFrame"} BY <1>5, <1>10, <3>1
    <3>2. CASE x = SumWord
      <4>1. g.aCksum = w.hdr.aCksum BY <1>5, <1>10, <3>2
      <4> QED BY <1>7, <2>2, <4>1
    <3> QED BY <1>5, <3>1, <3>2
  <2>4. Says(g.aCksum[1], g.nPage, g.aSalt) /\ g.aCksum[1] = g.mxFrame BY <1>11, <2>2 DEF SumOk
  <2>5. g.mxFrame # 0 => g.aSalt = logSalt BY <2>4 DEF Says
  <2>6. w.hdr.mxFrame # 0 => w.hdr.aSalt = logSalt BY <1>6 DEF Says
  <2> QED BY <2>1, <2>3, <2>5, <2>6
<1> QED BY <1>13, <1>14

\* Nobody has a frame that the header does not have.
LEMMA StoreHdrOthers ==
    ASSUME HeadersInv, StoreHdr, IsStoring' => w'.hdr = w.hdr
    PROVE  LogInv' /\ HdrInv' /\ CkptInv' /\ ReadersInv'
<1>1. UNCHANGED <<log, logSalt, rd, ck, nCrash>> /\ IsStoring BY DEF StoreHdr, IsStoring
<1>2. nBackfill' = nBackfill \/ (nBackfill' = 0 /\ w.ret # "commit") BY DEF StoreHdr
<1>3. LogInv'
  <2>1. nBackfill' \in 0..MaxFrame BY <1>2, WalIndexAssumption DEF HeadersInv, LogInv
  <2> QED BY <1>1, <2>1 DEF HeadersInv, LogInv
<1>4. StoringInv BY <1>1 DEF HeadersInv, WriterInv
<1>5. ASSUME NEW m \in Nat, NEW s, IsCurrent(m, s), w.hdr.mxFrame # 0 PROVE IsCurrent(m, s)'
  <2>1. m <= w.hdr.mxFrame /\ s = w.hdr.aSalt BY <1>1, <1>5 DEF IsCurrent
  <2> QED BY <1>1, <1>5, <2>1, StoreHdrWords DEF IsCurrent
<1>6. CkptInv'
  <2>1. CASE ck.pc = "idle" BY <1>1, <2>1 DEF HeadersInv, CkptInv
  <2>2. CASE ck.pc # "idle"
    <3>1. nBackfill' = nBackfill /\ w.hdr.mxFrame # 0 BY <1>2, <1>4, <2>2 DEF StoringInv
    <3>2. PICK hdr : hdr = ck.h1 OBVIOUS
    <3>3. hdr \in Header BY <3>2 DEF HeadersInv, CkptInv
    <3>4. PICK m, s : m = hdr.aCksum[1] /\ s = hdr.aSalt /\ m \in Nat BY <3>3, HeaderIs
    <3>5. SumOk(hdr) => SumOk(hdr)' BY <1>1, LogSame
    <3>6. IsCurrent(m, s) => IsCurrent(m, s)' BY <1>5, <3>1, <3>4
    <3>7. SumOk(ck.h1)' <=> SumOk(hdr)' BY <1>1, <3>2 DEF SumOk, Says, IsCommit
    <3>8. IsCurrent(ck.h1.aCksum[1], ck.h1.aSalt)' <=> IsCurrent(m, s)' BY <1>1, <3>2, <3>4 DEF IsCurrent
    <3>9. SumOk(ck.h1) /\ IsCurrent(ck.h1.aCksum[1], ck.h1.aSalt) => SumOk(hdr) /\ IsCurrent(m, s) BY <3>2, <3>4, Zenon
    <3> QED BY <1>1, <3>1, <3>5, <3>6, <3>7, <3>8, <3>9 DEF HeadersInv, CkptInv
  <2> QED BY <2>1, <2>2
<1>7. ReadersInv'
  <2>1. ASSUME NEW r \in Readers PROVE ReaderInv(rd[r])'
    <3>1. ReaderInv(rd[r]) BY DEF HeadersInv, ReadersInv
    <3>2. CASE rd[r].pc = "idle" BY <1>1, <3>1, <3>2 DEF ReaderInv, ReaderType
    <3>3. CASE rd[r].pc # "idle"
      <4>1. PICK m, s : m = rd[r].mxFrame /\ s = logSalt OBVIOUS
      <4>2. m \in Nat /\ IsCommit(m) /\ IsCurrent(m, s) BY <3>1, <3>3, <4>1 DEF ReaderInv, ReaderType
      <4>3. m # 0 /\ m <= w.hdr.mxFrame BY <1>1, <4>2 DEF IsCommit, IsCurrent
      <4>4. w.hdr.mxFrame # 0
        <5>1. w.hdr \in Header BY WriterTypeIs DEF HeadersInv, WriterInv
        <5> QED BY <4>2, <4>3, <5>1, HeaderIs
      <4>5. IsCurrent(m, s)' /\ IsCommit(m)' BY <1>1, <1>5, <4>2, <4>4, LogSame
      <4>6. IsCurrent(rd[r].mxFrame, logSalt)' /\ IsCommit(rd[r].mxFrame)' BY <1>1, <4>1, <4>5 DEF IsCurrent, IsCommit
      <4> QED BY <1>1, <3>1, <3>3, <4>6 DEF ReaderInv, ReaderType
    <3> QED BY <3>2, <3>3
  <2> QED BY <1>1, <2>1 DEF HeadersInv, ReadersInv
<1> QED BY <1>3, <1>6, <1>7, StoreHdrWords

\* A word more is stored; the last one completes the copy.
LEMMA StoreWord ==
    ASSUME HeadersInv, IsStoring, NEW x \in w.todo, NEW i \in 0..1,
           i = IF w.pc = "hdr1" THEN 1 ELSE 0,
           aHdr' = [aHdr EXCEPT ![i] = Copy(aHdr[i], w.hdr, x)]
    PROVE  /\ {"mxFrame"} \notin w.todo \ {x} => aHdr'[i].mxFrame = w.hdr.mxFrame
           /\ SumWord \notin w.todo \ {x} =>
                aHdr'[i].nPage = w.hdr.nPage /\ aHdr'[i].aSalt = w.hdr.aSalt /\ aHdr'[i].aCksum = w.hdr.aCksum
           /\ w.todo = {x} => aHdr'[i] = w.hdr
<1>1. /\ aHdr' \in [0..1 -> Header]
      /\ x = {"mxFrame"} \/ x = SumWord
      /\ x = {"mxFrame"} => aHdr'[i] = [mxFrame |-> w.hdr.mxFrame, nPage |-> aHdr[i].nPage,
                                        aSalt |-> aHdr[i].aSalt, aCksum |-> aHdr[i].aCksum]
      /\ x = SumWord => aHdr'[i] = [mxFrame |-> aHdr[i].mxFrame, nPage |-> w.hdr.nPage,
                                    aSalt |-> w.hdr.aSalt, aCksum |-> w.hdr.aCksum]
  BY StoreIs
<1>2. IsStored(aHdr[i]) /\ w.hdr \in Header
  BY WriterTypeIs DEF HeadersInv, WriterInv, StoringInv, IsStoring
<1>3. {"mxFrame"} # SumWord BY DEF SumWord
<1>4. PICK g, c, hdr : g = aHdr'[i] /\ c = aHdr[i] /\ hdr = w.hdr OBVIOUS
<1>5. {"mxFrame"} \notin w.todo \ {x} => g.mxFrame = hdr.mxFrame
  BY <1>1, <1>2, <1>4 DEF IsStored
<1>6. SumWord \notin w.todo \ {x} => g.nPage = hdr.nPage /\ g.aSalt = hdr.aSalt /\ g.aCksum = hdr.aCksum
  BY <1>1, <1>2, <1>4 DEF IsStored
<1>7. ASSUME w.todo = {x} PROVE g = hdr
  <2>1. g.mxFrame = hdr.mxFrame /\ g.nPage = hdr.nPage /\ g.aSalt = hdr.aSalt /\ g.aCksum = hdr.aCksum
    BY <1>5, <1>6, <1>7
  <2>2. g \in Header /\ hdr \in Header BY <1>1, <1>2, <1>4
  <2> QED BY <2>1, <2>2 DEF Header
<1> QED BY <1>4, <1>5, <1>6, <1>7

\* A store of the header.
LEMMA StoreHdrHeaders == ASSUME HeadersInv, StoreHdr PROVE HeadersInv'
<1>1. UNCHANGED <<log, logSalt, rd, ck, nCrash>> /\ IsStoring BY DEF StoreHdr, IsStoring
<1>2. PICK i : i = IF w.pc = "hdr1" THEN 1 ELSE 0 OBVIOUS
<1>3. i \in 0..1 BY <1>2
<1>4. PICK x \in w.todo :
        /\ aHdr' = [aHdr EXCEPT ![i] = Copy(aHdr[i], w.hdr, x)]
        /\ nBackfill' = IF w.todo = {x} /\ w.pc = "hdr0" /\ w.ret # "commit" THEN 0 ELSE nBackfill
        /\ w' = IF w.todo = {x} /\ w.pc = "hdr0" THEN IF w.ret = "restart" THEN Between(w, w.hdr) ELSE NoWriter
                ELSE IF w.todo = {x} THEN [w EXCEPT !.pc = "hdr0", !.todo = Words]
                ELSE [w EXCEPT !.todo = w.todo \ {x}]
  BY <1>2, Zenon DEF StoreHdr
<1>5. StoringInv /\ WriterType BY <1>1 DEF HeadersInv, WriterInv
<1>6. aHdr' \in [0..1 -> Header] /\ aHdr'[1 - i] = aHdr[1 - i] BY <1>1, <1>2, <1>3, <1>4, StoreIs
<1>7. /\ {"mxFrame"} \notin w.todo \ {x} => aHdr'[i].mxFrame = w.hdr.mxFrame
      /\ SumWord \notin w.todo \ {x} =>
           aHdr'[i].nPage = w.hdr.nPage /\ aHdr'[i].aSalt = w.hdr.aSalt /\ aHdr'[i].aCksum = w.hdr.aCksum
      /\ w.todo = {x} => aHdr'[i] = w.hdr
  BY <1>1, <1>2, <1>3, <1>4, StoreWord
<1>8. /\ w.hdr \in Header /\ w.hdr = Hdr(w.hdr.mxFrame, w.hdr.nPage, w.hdr.aSalt) /\ w.hdr.aSalt # 0
      /\ Says(w.hdr.mxFrame, w.hdr.nPage, w.hdr.aSalt) /\ w.todo \in SUBSET Words /\ w.save \in Header
  BY <1>5, WriterTypeIs DEF StoringInv
<1>9. w.hdr.aCksum[1] = w.hdr.mxFrame /\ w.hdr.mxFrame \in Nat
  <2>1. w.hdr.mxFrame \in 0..MaxFrame /\ w.hdr.nPage \in 0..MaxPage /\ w.hdr.aSalt \in Nat BY <1>8, HeaderIs
  <2>2. Hdr(w.hdr.mxFrame, w.hdr.nPage, w.hdr.aSalt).aCksum = <<w.hdr.mxFrame, w.hdr.nPage, w.hdr.aSalt>> BY <2>1, HdrType
  <2> QED BY <1>8, <2>1, <2>2
<1>10. CASE w.todo = {x} /\ w.pc = "hdr0"
  <2>1. aHdr'[0] = w.hdr /\ aHdr'[1] = w.hdr
    <3>1. i = 0 BY <1>2, <1>10
    <3>2. aHdr[1] = w.hdr BY <1>5, <1>10 DEF StoringInv
    <3> QED BY <1>6, <1>7, <1>10, <3>1, <3>2
  <2>2. IsGood' BY <1>8, <2>1 DEF IsGood, HdrOk
  <2>3. CASE w.ret # "restart"
    <3>1. w' = NoWriter BY <1>4, <1>10, <2>3
    <3>2. WriterInv' /\ ~IsStoring' BY <3>1, NoWriterInv
    <3> QED BY <3>2, StoreHdrOthers DEF HeadersInv
  <2>4. CASE w.ret = "restart"
    <3>1. w' = [pc |-> "open", ret |-> "idle", hdr |-> w.hdr, iFrame |-> 0, list |-> <<>>,
                nTruncate |-> 0, todo |-> {}, save |-> w.save]
      BY <1>4, <1>10, <2>4, WriterIs
    <3>2. w'.pc = "open" /\ w'.hdr = w.hdr /\ w'.save = w.save BY <3>1
    <3>3. WriterType'
      <4>1. 0 \in 0..MaxPage /\ <<>> \in Seq(Pgno) /\ {} \in SUBSET Words BY WalIndexAssumption
      <4> QED BY <1>8, <3>1, <4>1 DEF WriterType
    <3>4. w.hdr.mxFrame = 0 BY <1>5, <2>4 DEF StoringInv
    <3>5. w.save.mxFrame \in Nat BY <1>8, HeaderIs
    <3>6. TransactionInv' BY <1>8, <2>1, <2>2, <3>2, <3>4, <3>5 DEF TransactionInv
    <3>7. ~IsStoring' BY <3>2 DEF IsStoring
    <3>8. WriterInv' BY <3>2, <3>3, <3>6, <3>7 DEF WriterInv, IsAppending
    <3> QED BY <3>7, <3>8, StoreHdrOthers DEF HeadersInv
  <2> QED BY <2>3, <2>4
<1>11. CASE ~(w.todo = {x} /\ w.pc = "hdr0")
  <2>1. PICK t, p : /\ t = IF w.todo = {x} THEN Words ELSE w.todo \ {x}
                    /\ p = IF w.todo = {x} THEN "hdr0" ELSE w.pc
    OBVIOUS
  <2>2. w' = [w EXCEPT !.pc = p, !.todo = t]
    <3>1. CASE w.todo = {x} BY <1>4, <1>11, <2>1, <3>1
    <3>2. CASE w.todo # {x}
      <4>1. w' = [w EXCEPT !.todo = t] BY <1>4, <2>1, <3>2
      <4>2. [w EXCEPT !.todo = t] = [w EXCEPT !.pc = w.pc, !.todo = t] BY <1>5 DEF WriterType
      <4> QED BY <2>1, <3>2, <4>1, <4>2
    <3> QED BY <3>1, <3>2
  <2>3. p \in {"hdr1", "hdr0"} /\ t \in SUBSET Words /\ t # {}
    <3>1. Words # {} BY DEF Words
    <3> QED BY <1>1, <1>8, <2>1, <3>1 DEF IsStoring
  <2>4. w'.pc = p /\ w'.todo = t /\ w'.hdr = w.hdr /\ w'.ret = w.ret /\ WriterType'
    BY <1>5, <2>2, <2>3 DEF WriterType
  <2>5. IsStoring' BY <2>3, <2>4 DEF IsStoring
  <2>6. nBackfill' = nBackfill BY <1>4, <1>11
  <2>7. LogInv' /\ HdrInv' /\ CkptInv' /\ ReadersInv' BY <2>4, StoreHdrOthers
  <2>8. (w.pc = "hdr1" => IsStored(aHdr[1]))'
    <3> SUFFICES ASSUME p = "hdr1" PROVE IsStored(aHdr[1])' BY <2>4
    <3>1. t = w.todo \ {x} /\ i = 1 BY <1>2, <2>1
    <3> QED BY <1>7, <2>4, <3>1 DEF IsStored
  <2>9. (w.pc = "hdr0" => aHdr[1] = w.hdr /\ IsStored(aHdr[0]))'
    <3> SUFFICES ASSUME p = "hdr0" PROVE (aHdr[1] = w.hdr /\ IsStored(aHdr[0]))' BY <2>4
    <3>1. CASE w.todo = {x}
      <4>1. i = 1 /\ t = Words BY <1>1, <1>2, <1>11, <2>1, <3>1 DEF IsStoring
      <4>2. {"mxFrame"} \in Words /\ SumWord \in Words BY DEF Words, SumWord
      <4> QED BY <1>7, <2>4, <3>1, <4>1, <4>2 DEF IsStored
    <3>2. CASE w.todo # {x}
      <4>1. i = 0 /\ t = w.todo \ {x} /\ w.pc = "hdr0" BY <1>2, <2>1, <3>2
      <4>2. aHdr[1] = w.hdr BY <1>5, <4>1 DEF StoringInv
      <4> QED BY <1>6, <1>7, <2>4, <4>1, <4>2 DEF IsStored
    <3> QED BY <3>1, <3>2
  <2>10. w.ret = "commit" => aHdr'[0].aCksum[1] <= w.hdr.mxFrame /\ aHdr'[0].aSalt = w.hdr.aSalt
    <3> SUFFICES ASSUME w.ret = "commit" PROVE aHdr'[0].aCksum[1] <= w.hdr.mxFrame /\ aHdr'[0].aSalt = w.hdr.aSalt
      OBVIOUS
    <3>1. aHdr[0].aCksum[1] <= w.hdr.mxFrame /\ aHdr[0].aSalt = w.hdr.aSalt BY <1>5 DEF StoringInv
    <3>2. \/ aHdr'[0].aCksum = w.hdr.aCksum /\ aHdr'[0].aSalt = w.hdr.aSalt
          \/ aHdr'[0].aCksum = aHdr[0].aCksum /\ aHdr'[0].aSalt = aHdr[0].aSalt
      <4>1. CASE i = 1 BY <1>6, <4>1
      <4>2. CASE i = 0
        <5>1. /\ x = {"mxFrame"} \/ x = SumWord
              /\ x = {"mxFrame"} => aHdr'[0] = [mxFrame |-> w.hdr.mxFrame, nPage |-> aHdr[0].nPage,
                                                aSalt |-> aHdr[0].aSalt, aCksum |-> aHdr[0].aCksum]
              /\ x = SumWord => aHdr'[0] = [mxFrame |-> aHdr[0].mxFrame, nPage |-> w.hdr.nPage,
                                            aSalt |-> w.hdr.aSalt, aCksum |-> w.hdr.aCksum]
          BY <1>1, <1>2, <1>3, <1>4, <4>2, StoreIs
        <5> QED BY <5>1
      <4> QED BY <1>2, <4>1, <4>2
    <3> QED BY <1>9, <3>1, <3>2
  <2>11. w.ret = "restart" => aHdr'[0].mxFrame \in {0, nBackfill'}
    <3> SUFFICES ASSUME w.ret = "restart" PROVE aHdr'[0].mxFrame \in {0, nBackfill} BY <2>6
    <3>1. aHdr[0].mxFrame \in {0, nBackfill} /\ w.hdr.mxFrame = 0 BY <1>5 DEF StoringInv
    <3>2. CASE i = 1 BY <1>6, <3>1, <3>2
    <3>3. CASE i = 0
      <4>1. /\ x = {"mxFrame"} \/ x = SumWord
            /\ x = {"mxFrame"} => aHdr'[0] = [mxFrame |-> w.hdr.mxFrame, nPage |-> aHdr[0].nPage,
                                              aSalt |-> aHdr[0].aSalt, aCksum |-> aHdr[0].aCksum]
            /\ x = SumWord => aHdr'[0] = [mxFrame |-> aHdr[0].mxFrame, nPage |-> w.hdr.nPage,
                                          aSalt |-> w.hdr.aSalt, aCksum |-> w.hdr.aCksum]
        BY <1>1, <1>2, <1>3, <1>4, <3>3, StoreIs
      <4> QED BY <3>1, <4>1
    <3> QED BY <1>2, <3>2, <3>3
  <2>12. IsGood' => aHdr'[0].mxFrame = w.hdr.mxFrame BY StoreHdrWords
  <2>13. Says(w.hdr.mxFrame, w.hdr.nPage, w.hdr.aSalt)' BY <1>1, <1>8, <2>4 DEF Says, IsCommit
  <2>14. StoringInv'
    BY <1>1, <1>5, <1>8, <2>3, <2>4, <2>8, <2>9, <2>10, <2>11, <2>12, <2>13 DEF StoringInv
  <2>15. WriterInv' BY <2>3, <2>4, <2>5, <2>14 DEF WriterInv, InTransaction, IsAppending
  <2> QED BY <2>7, <2>15 DEF HeadersInv
<1> QED BY <1>10, <1>11

\* Steps of a transaction that change neither the log nor the headers.
LEMMA TransactionStep ==
    ASSUME HeadersInv, UNCHANGED <<log, logSalt, aHdr, nBackfill, ck, rd, nCrash>>, WriterType', InTransaction',
           TransactionInv', (IsAppending => AppendInv)',
           (w.pc = "cleanup" => w.hdr.mxFrame # 0 /\ w.ret \in {"idle", "open", "pgno"})'
    PROVE  HeadersInv'
<1>1. ~IsStoring' /\ w'.pc # "recover" BY DEF IsStoring, InTransaction
<1>2. nCrash' \in 0..MaxCrash BY DEF HeadersInv, LogInv
<1>3. LogInv' /\ HdrInv' /\ CkptInv' /\ ReadersInv' BY <1>1, <1>2, QuietStep
<1>4. WriterInv' BY <1>1 DEF WriterInv
<1> QED BY <1>3, <1>4 DEF HeadersInv

\* A writer in a transaction, and what it knows.
LEMMA InTransactionIs ==
    ASSUME HeadersInv, InTransaction
    PROVE  /\ WriterType /\ TransactionInv /\ IsGood
           /\ w.hdr \in Header /\ w.hdr.mxFrame \in Nat /\ w.hdr.mxFrame \in 0..MaxFrame /\ w.hdr.aSalt \in Nat \ {0}
           /\ w.hdr.nPage \in 0..MaxPage /\ aHdr[0] \in Header /\ aHdr[0].mxFrame \in Nat /\ Len(log) \in Nat
           /\ IsAppending => AppendInv
           /\ w.pc = "cleanup" => w.hdr.mxFrame # 0 /\ w.ret \in {"idle", "open", "pgno"}
<1>1. WriterType /\ TransactionInv /\ WriterInv BY DEF HeadersInv, WriterInv
<1>2. IsGood BY <1>1 DEF TransactionInv
<1>3. aHdr[0] \in Header /\ aHdr[0].aSalt # 0 BY <1>2, GoodHdr DEF HeadersInv
<1>4. w.hdr \in Header /\ w.hdr.aSalt = aHdr[0].aSalt BY <1>1, WriterTypeIs DEF TransactionInv
<1>5. w.hdr.mxFrame \in Nat /\ w.hdr.mxFrame \in 0..MaxFrame /\ w.hdr.aSalt \in Nat /\ w.hdr.nPage \in 0..MaxPage
  BY <1>4, HeaderIs
<1>6. aHdr[0].mxFrame \in Nat BY <1>3, HeaderIs
<1>7. Len(log) \in Nat BY DEF HeadersInv, LogInv
<1> QED BY <1>1, <1>2, <1>3, <1>4, <1>5, <1>6, <1>7 DEF WriterInv

\* Only the place in the code changes.
LEMMA TransactionPc ==
    ASSUME HeadersInv, UNCHANGED <<log, logSalt, aHdr, nBackfill, ck, rd, nCrash>>, InTransaction,
           NEW p \in {"open", "append", "pgno", "slot", "cleanup"}, NEW r \in {"idle", "open", "pgno", "commit", "restart", "recover"},
           w' = [w EXCEPT !.pc = p, !.ret = r], IsAppending' => IsAppending,
           p = "cleanup" => w.hdr.mxFrame # 0 /\ r \in {"idle", "open", "pgno"}
    PROVE  HeadersInv'
<1>1. WriterType /\ TransactionInv /\ IsGood /\ (IsAppending => AppendInv) BY InTransactionIs
<1>2. /\ w'.pc = p /\ w'.ret = r /\ w'.hdr = w.hdr /\ w'.iFrame = w.iFrame /\ w'.list = w.list
      /\ w'.nTruncate = w.nTruncate /\ w'.save = w.save /\ WriterType'
  BY <1>1 DEF WriterType
<1>3. InTransaction' BY <1>2 DEF InTransaction
<1>4. TransactionInv' BY <1>1, <1>2 DEF TransactionInv, IsGood, HdrOk
<1>5. IsAppending' => AppendInv' BY <1>1, <1>2 DEF AppendInv
<1>6. (w.pc = "cleanup" => w.hdr.mxFrame # 0 /\ w.ret \in {"idle", "open", "pgno"})' BY <1>2
<1> QED BY <1>1, <1>2, <1>3, <1>4, <1>5, <1>6, TransactionStep

\* What CleanupThen does.
LEMMA CleanupThenIs ==
    ASSUME NEW a, NEW next
    PROVE  CleanupThen(a, next) = IF a.hdr.mxFrame = 0 THEN [a EXCEPT !.pc = next]
                                  ELSE [a EXCEPT !.pc = "cleanup", !.ret = next]
BY DEF CleanupThen

\* The steps of walIndexAppend before the slot.
LEMMA AppendStepHeaders == ASSUME HeadersInv, AppendZero \/ AppendCleanup \/ AppendPgno PROVE HeadersInv'
<1>1. UNCHANGED <<log, logSalt, aHdr, nBackfill, ck, rd, nCrash>> BY DEF AppendZero, AppendCleanup, AppendPgno, indexOnly
<1>2. w.pc \in {"append", "pgno"} BY DEF AppendZero, AppendCleanup, AppendPgno
<1>3. InTransaction /\ IsAppending BY <1>2 DEF InTransaction, IsAppending
<1>4. WriterType BY <1>3, InTransactionIs
<1>5. PICK p \in {"pgno", "slot", "cleanup"}, r \in {w.ret, "pgno"} :
        w' = [w EXCEPT !.pc = p, !.ret = r] /\ (p = "cleanup" => w.hdr.mxFrame # 0 /\ r = "pgno")
  <2>0. ASSUME NEW p PROVE [w EXCEPT !.pc = p] = [w EXCEPT !.pc = p, !.ret = w.ret] BY <1>4 DEF WriterType
  <2>1. CASE w' = [w EXCEPT !.pc = "pgno"] BY <2>0, <2>1
  <2>2. CASE w' = [w EXCEPT !.pc = "slot"] BY <2>0, <2>2
  <2>3. CASE AppendCleanup
    <3>1. w' = CleanupThen(w, "pgno") BY <2>3 DEF AppendCleanup
    <3> QED BY <2>1, <3>1, CleanupThenIs
  <2> QED BY <2>1, <2>2, <2>3 DEF AppendZero, AppendPgno
<1>6. p \in {"open", "append", "pgno", "slot", "cleanup"} /\ r \in {"idle", "open", "pgno", "commit", "restart", "recover"}
  BY <1>4, WriterTypeIs
<1> QED BY <1>1, <1>3, <1>5, <1>6, TransactionPc

\* walCleanupHash.
LEMMA CleanupHashHeaders == ASSUME HeadersInv, CleanupHash PROVE HeadersInv'
<1>1. UNCHANGED <<log, logSalt, aHdr, nBackfill, ck, rd, nCrash>> /\ w.pc = "cleanup" BY DEF CleanupHash, indexOnly
<1>2. InTransaction BY <1>1 DEF InTransaction
<1>3. WriterType /\ w.hdr.mxFrame # 0 /\ w.ret \in {"idle", "open", "pgno"} BY <1>1, <1>2, InTransactionIs
<1>4. w' = w \/ (w.ret = "idle" /\ w' = NoWriter) \/ (w.ret # "idle" /\ w' = [w EXCEPT !.pc = w.ret, !.ret = "idle"])
  BY Zenon DEF CleanupHash
<1>5. CASE w' = w
  <2>1. w' = [w EXCEPT !.pc = w.pc, !.ret = w.ret] BY <1>3, <1>5 DEF WriterType
  <2>2. IsAppending' => IsAppending BY <1>5 DEF IsAppending
  <2> QED BY <1>1, <1>2, <1>3, <2>1, <2>2, TransactionPc
<1>6. CASE w' = NoWriter
  <2>1. WriterInv' /\ ~IsStoring' BY <1>6, NoWriterInv
  <2>2. nCrash' \in 0..MaxCrash BY <1>1 DEF HeadersInv, LogInv
  <2> QED BY <1>1, <2>1, <2>2, QuietStep DEF HeadersInv
<1>7. CASE w.ret # "idle" /\ w' = [w EXCEPT !.pc = w.ret, !.ret = "idle"]
  <2>1. PICK p : p = w.ret OBVIOUS
  <2>2. p \in {"open", "pgno"} /\ w' = [w EXCEPT !.pc = p, !.ret = "idle"] BY <1>3, <1>7, <2>1
  <2>3. w'.pc = p /\ w'.ret = "idle" BY <1>3, <2>2 DEF WriterType
  <2>4. IsAppending' => IsAppending BY <1>1, <2>1, <2>2, <2>3 DEF IsAppending
  <2> QED BY <1>1, <1>2, <2>2, <2>4, TransactionPc
<1> QED BY <1>4, <1>5, <1>6, <1>7

\* A rollback.
LEMMA UndoHeaders == ASSUME HeadersInv, Undo PROVE HeadersInv'
<1>1. UNCHANGED <<log, logSalt, aHdr, nBackfill, ck, rd, nCrash>> /\ w.pc = "open" BY DEF Undo, indexOnly
<1>2. InTransaction BY <1>1 DEF InTransaction
<1>3. WriterType /\ TransactionInv /\ IsGood /\ aHdr[0] \in Header BY <1>2, InTransactionIs
<1>4. CASE w' = NoWriter
  <2>1. WriterInv' /\ ~IsStoring' BY <1>4, NoWriterInv
  <2>2. nCrash' \in 0..MaxCrash BY <1>1 DEF HeadersInv, LogInv
  <2> QED BY <1>1, <2>1, <2>2, QuietStep DEF HeadersInv
<1>5. CASE w' # NoWriter
  <2>1. PICK hdr : hdr = aHdr[0] OBVIOUS
  <2>2. PICK a : a = [w EXCEPT !.hdr = hdr] OBVIOUS
  <2>3. hdr.mxFrame # 0 /\ w' = CleanupThen(a, "idle") BY <1>5, <2>1, <2>2, Zenon DEF Undo
  <2>4. hdr \in Header BY <1>3, <2>1
  <2>5. a.hdr = hdr /\ w' = [a EXCEPT !.pc = "cleanup", !.ret = "idle"]
    <3>1. a.hdr = hdr BY <1>3, <2>2 DEF WriterType
    <3> QED BY <2>3, <3>1, CleanupThenIs
  <2>6. /\ WriterType' /\ w'.pc = "cleanup" /\ w'.ret = "idle" /\ w'.hdr = hdr /\ w'.save = w.save
    BY <1>3, <2>2, <2>4, <2>5 DEF WriterType
  <2>7. InTransaction' /\ ~IsAppending' BY <2>6 DEF InTransaction, IsAppending
  <2>8. /\ hdr = Hdr(hdr.mxFrame, hdr.nPage, hdr.aSalt) /\ Says(hdr.mxFrame, hdr.nPage, hdr.aSalt)
    BY <1>3, <2>1, GoodHdr DEF HeadersInv
  <2>9. hdr.mxFrame \in Nat /\ hdr.aSalt = logSalt /\ hdr.mxFrame <= Len(log)
    <3>1. Len(log) \in Nat BY DEF HeadersInv, LogInv
    <3> QED BY <2>3, <2>4, <2>8, <3>1, HeaderIs DEF Says, IsCommit
  <2>10. IsGood' BY <1>1, <1>3 DEF IsGood, HdrOk
  <2>11. w.hdr.aSalt = hdr.aSalt BY <1>3, <2>1 DEF TransactionInv
  <2>12. TransactionInv' BY <1>1, <1>3, <2>1, <2>6, <2>8, <2>9, <2>10, <2>11 DEF TransactionInv
  <2> QED BY <1>1, <2>3, <2>6, <2>7, <2>12, TransactionStep
<1> QED BY <1>4, <1>5

\* A savepoint is opened.
LEMMA SavepointHeaders == ASSUME HeadersInv, Savepoint PROVE HeadersInv'
<1>1. UNCHANGED <<log, logSalt, aHdr, nBackfill, ck, rd, nCrash>> /\ w.pc = "open" BY DEF Savepoint, indexOnly
<1>2. InTransaction BY <1>1 DEF InTransaction
<1>3. WriterType /\ TransactionInv /\ IsGood /\ aHdr[0] \in Header /\ w.hdr \in Header BY <1>2, InTransactionIs
<1>4. PICK hdr : hdr = w.hdr OBVIOUS
<1>5. w' = [w EXCEPT !.save = hdr] BY <1>4 DEF Savepoint
<1>6. WriterType' /\ w'.pc = "open" /\ w'.hdr = hdr /\ w'.save = hdr BY <1>1, <1>3, <1>4, <1>5 DEF WriterType
<1>7. InTransaction' /\ ~IsAppending' BY <1>6 DEF InTransaction, IsAppending
<1>8. IsGood' BY <1>1, <1>3 DEF IsGood, HdrOk
<1>9. TransactionInv' BY <1>1, <1>3, <1>4, <1>6, <1>8 DEF TransactionInv
<1> QED BY <1>1, <1>6, <1>7, <1>9, TransactionStep

\* A rollback to a savepoint.
LEMMA SavepointUndoHeaders == ASSUME HeadersInv, SavepointUndo PROVE HeadersInv'
<1>1. UNCHANGED <<log, logSalt, aHdr, nBackfill, ck, rd, nCrash>> /\ w.pc = "open" /\ w.save # ZeroHdr
  BY DEF SavepointUndo, indexOnly
<1>2. InTransaction BY <1>1 DEF InTransaction
<1>3. /\ WriterType /\ TransactionInv /\ IsGood /\ aHdr[0].mxFrame \in Nat /\ w.hdr.mxFrame \in Nat /\ w.hdr.aSalt \in Nat
      /\ w.hdr.nPage \in 0..MaxPage /\ w.hdr.mxFrame \in 0..MaxFrame /\ Len(log) \in Nat
  BY <1>2, InTransactionIs
<1>4. PICK mx : mx = IF w.save.aSalt # w.hdr.aSalt THEN 0 ELSE w.save.mxFrame OBVIOUS
<1>5. PICK hdr : hdr = Hdr(mx, w.hdr.nPage, w.hdr.aSalt) OBVIOUS
<1>6. PICK a : a = [w EXCEPT !.hdr = hdr, !.save = hdr] OBVIOUS
<1>7. mx < w.hdr.mxFrame /\ w' = CleanupThen(a, "open") BY <1>4, <1>5, <1>6, Zenon DEF SavepointUndo
<1>8. mx \in Nat /\ mx \in 0..MaxFrame
  <2>1. w.save \in Header BY <1>3, WriterTypeIs
  <2> QED BY <1>4, <2>1, HeaderIs, WalIndexAssumption
<1>9. aHdr[0].mxFrame <= mx BY <1>1, <1>3, <1>4 DEF TransactionInv
<1>10. /\ hdr \in Header /\ hdr.mxFrame = mx /\ hdr.nPage = w.hdr.nPage /\ hdr.aSalt = w.hdr.aSalt
       /\ hdr = Hdr(hdr.mxFrame, hdr.nPage, hdr.aSalt)
  BY <1>3, <1>5, <1>8, HdrType
<1>11. WriterType' /\ w'.hdr = hdr /\ w'.save = hdr /\ (w'.pc = "open" \/ (w'.pc = "cleanup" /\ w'.ret = "open" /\ mx # 0))
  <2>1. a.hdr = hdr BY <1>3, <1>6 DEF WriterType
  <2>2. CASE mx = 0
    <3>1. w' = [a EXCEPT !.pc = "open"] BY <1>7, <1>10, <2>1, <2>2, CleanupThenIs
    <3> QED BY <1>3, <1>6, <1>10, <3>1 DEF WriterType
  <2>3. CASE mx # 0
    <3>1. w' = [a EXCEPT !.pc = "cleanup", !.ret = "open"] BY <1>7, <1>10, <2>1, <2>3, CleanupThenIs
    <3> QED BY <1>3, <1>6, <1>10, <2>3, <3>1 DEF WriterType
  <2> QED BY <2>2, <2>3
<1>12. InTransaction' /\ ~IsAppending' BY <1>11 DEF InTransaction, IsAppending
<1>13. IsGood' BY <1>1, <1>3 DEF IsGood, HdrOk
<1>14. TransactionInv'
  <2>1. w.hdr.aSalt = aHdr[0].aSalt /\ w.hdr.aSalt = logSalt /\ w.hdr.mxFrame <= Len(log) BY <1>3, <1>7, <1>8 DEF TransactionInv
  <2>2. mx <= Len(log) BY <1>3, <1>7, <1>8, <2>1
  <2> QED BY <1>1, <1>9, <1>10, <1>11, <1>13, <2>1, <2>2 DEF TransactionInv
<1>15. (w.pc = "cleanup" => w.hdr.mxFrame # 0 /\ w.ret \in {"idle", "open", "pgno"})' BY <1>10, <1>11
<1> QED BY <1>1, <1>11, <1>12, <1>14, <1>15, TransactionStep

\* walIndexAppend ends for a frame; after the last one of a commit the header
\* is written.
LEMMA AppendSlotHeaders == ASSUME HeadersInv, AppendSlot PROVE HeadersInv'
<1>1. UNCHANGED <<log, logSalt, aHdr, nBackfill, ck, rd, nCrash>> /\ w.pc = "slot" BY DEF AppendSlot
<1>2. InTransaction /\ IsAppending BY <1>1 DEF InTransaction, IsAppending
<1>3. /\ WriterType /\ TransactionInv /\ IsGood /\ AppendInv /\ w.hdr \in Header /\ w.hdr.mxFrame \in Nat
      /\ w.hdr.aSalt \in Nat \ {0} /\ w.hdr.nPage \in 0..MaxPage /\ aHdr[0] \in Header /\ aHdr[0].mxFrame \in Nat
      /\ Len(log) \in Nat
  BY <1>2, InTransactionIs
<1>4. /\ w.iFrame \in Nat /\ w.list \in Seq(Pgno) /\ w.nTruncate \in 0..MaxPage /\ w.save \in Header
      /\ Len(w.list) \in Nat /\ w.list # <<>>
  BY <1>3, WriterTypeIs DEF AppendInv
<1>5. Len(w.list) >= 1 /\ w.iFrame + Len(w.list) = Len(log) + 1 /\ w.hdr.mxFrame < w.iFrame
  BY <1>3, <1>4 DEF AppendInv
<1>6. w.iFrame \in 1..Len(log) /\ Len(log) <= MaxFrame /\ w.iFrame \in 0..MaxFrame /\ MaxFrame \in Nat
  <2>1. Len(log) <= MaxFrame /\ MaxFrame \in Nat BY WalIndexAssumption DEF HeadersInv, LogInv
  <2> QED BY <1>3, <1>4, <1>5, <2>1
<1>7. PICK n : n = IF w.nTruncate = 0 THEN w.hdr.nPage ELSE w.nTruncate OBVIOUS
<1>8. PICK hdr : hdr = Hdr(w.iFrame, n, w.hdr.aSalt) OBVIOUS
<1>9. /\ hdr \in Header /\ hdr.mxFrame = w.iFrame /\ hdr.nPage = n /\ hdr.aSalt = w.hdr.aSalt
      /\ hdr = Hdr(hdr.mxFrame, hdr.nPage, hdr.aSalt)
  BY <1>3, <1>4, <1>6, <1>7, <1>8, HdrType
<1>10. w.hdr.aSalt = logSalt /\ aHdr[0].aSalt = logSalt /\ aHdr[0].mxFrame <= w.hdr.mxFrame
  BY <1>3 DEF AppendInv, TransactionInv
<1>11. IsGood' BY <1>1, <1>3 DEF IsGood, HdrOk
<1>12. PICK t, e : t = Tail(w.list) /\ e = w.iFrame + 1 OBVIOUS
<1>13. PICK a : a = [w EXCEPT !.list = t, !.iFrame = e] OBVIOUS
<1>14. w' = IF Len(w.list) > 1 THEN [a EXCEPT !.pc = "append"]
            ELSE IF w.nTruncate # 0 THEN WriteHdr(hdr, "commit")
            ELSE Between(w, hdr)
  BY <1>7, <1>8, <1>12, <1>13, Zenon DEF AppendSlot
<1>15. CASE Len(w.list) > 1
  <2>1. t \in Seq(Pgno) /\ Len(t) = Len(w.list) - 1 /\ \A i \in 1..Len(t) : t[i] = w.list[i + 1]
    BY <1>4, <1>12, <1>15
  <2>2. w' = [a EXCEPT !.pc = "append"] /\ e \in Nat BY <1>4, <1>12, <1>14, <1>15
  <2>3. /\ WriterType' /\ w'.pc = "append" /\ w'.hdr = w.hdr /\ w'.iFrame = e /\ w'.list = t
        /\ w'.nTruncate = w.nTruncate /\ w'.save = w.save
    BY <1>3, <1>13, <2>1, <2>2 DEF WriterType
  <2>4. InTransaction' BY <2>3 DEF InTransaction
  <2>5. TransactionInv' BY <1>1, <1>3, <1>11, <2>3 DEF TransactionInv
  <2>6. AppendInv'
    <3>1. t # <<>> BY <1>4, <1>15, <2>1
    <3>2. e + Len(t) = Len(log) + 1 /\ w.hdr.mxFrame < e BY <1>3, <1>4, <1>5, <1>12, <2>1
    <3>3. \A i \in 1..Len(t) : log[e + i - 1].pg = t[i]
      <4> TAKE i \in 1..Len(t)
      <4>0. PICK l, len : l = w.iFrame /\ len = Len(w.list) OBVIOUS
      <4>1. i + 1 \in 1..Len(w.list) /\ w.iFrame + (i + 1) - 1 = e + i - 1
        <5>1. l \in Nat /\ len \in Nat /\ e = l + 1 /\ i \in 1..(len - 1) BY <1>4, <1>12, <2>1, <4>0
        <5>2. i + 1 \in 1..len /\ l + (i + 1) - 1 = e + i - 1 BY <5>1
        <5> QED BY <4>0, <5>2
      <4>2. log[w.iFrame + (i + 1) - 1].pg = w.list[i + 1] BY <1>3, <4>1 DEF AppendInv
      <4> QED BY <2>1, <4>1, <4>2
    <3> QED BY <1>1, <1>3, <1>10, <2>3, <3>1, <3>2, <3>3 DEF AppendInv
  <2> QED BY <1>1, <2>3, <2>4, <2>5, <2>6, TransactionStep
<1>16. CASE ~(Len(w.list) > 1) /\ w.nTruncate # 0
  <2>1. w' = WriteHdr(hdr, "commit") BY <1>14, <1>16
  <2>2. w.iFrame = Len(log) /\ n = w.nTruncate BY <1>3, <1>4, <1>5, <1>7, <1>16
  <2>3. Says(hdr.mxFrame, hdr.nPage, hdr.aSalt)'
    <3>1. log[Len(log)].nTruncate = w.nTruncate /\ \A i \in 1..Len(log) : log[i].ok BY <1>3, <1>16 DEF AppendInv
    <3>2. IsCommit(w.iFrame) BY <1>6, <1>16, <2>2, <3>1 DEF IsCommit
    <3>3. Says(hdr.mxFrame, hdr.nPage, hdr.aSalt) BY <1>9, <1>10, <2>2, <3>1, <3>2 DEF Says
    <3> QED BY <1>1, <3>3, LogSame
  <2>4. hdr.mxFrame # 0 /\ aHdr'[0].aCksum[1] <= hdr.mxFrame /\ aHdr'[0].aSalt = hdr.aSalt
    <3>1. aHdr[0].aCksum[1] = aHdr[0].mxFrame BY <1>3, GoodHdr DEF HeadersInv
    <3>2. aHdr[0].mxFrame <= w.iFrame BY <1>3, <1>4, <1>5, <1>10
    <3> QED BY <1>1, <1>6, <1>9, <1>10, <3>1, <3>2
  <2>5. WriterInv' /\ IsStoring' /\ w'.hdr = hdr BY <1>3, <1>9, <2>1, <2>3, <2>4, StoreBeginsWriter
  <2>6. ASSUME NEW r \in Readers, rd[r].pc # "idle" PROVE rd[r].mxFrame <= w'.hdr.mxFrame /\ w'.hdr.aSalt = logSalt
    <3>1. IsCommit(rd[r].mxFrame) BY <2>6 DEF HeadersInv, ReadersInv, ReaderInv
    <3> QED BY <1>3, <1>9, <1>10, <2>2, <2>5, <3>1 DEF IsCommit
  <2>7. aHdr[0].mxFrame <= w'.hdr.mxFrame /\ w'.hdr.aSalt = aHdr[0].aSalt /\ w'.hdr.mxFrame \in Nat
    BY <1>3, <1>4, <1>5, <1>9, <1>10, <2>5
  <2>8. LogInv' /\ HdrInv' /\ CkptInv' /\ ReadersInv' BY <1>1, <1>3, <2>6, <2>7, StoreBegins
  <2> QED BY <2>5, <2>8 DEF HeadersInv
<1>17. CASE ~(Len(w.list) > 1) /\ w.nTruncate = 0
  <2>1. w' = [pc |-> "open", ret |-> "idle", hdr |-> hdr, iFrame |-> 0, list |-> <<>>,
              nTruncate |-> 0, todo |-> {}, save |-> w.save]
    BY <1>14, <1>17, WriterIs
  <2>2. w'.pc = "open" /\ w'.hdr = hdr /\ w'.save = w.save BY <2>1
  <2>3. WriterType'
    <3>1. 0 \in 0..MaxPage /\ <<>> \in Seq(Pgno) /\ {} \in SUBSET Words BY WalIndexAssumption
    <3> QED BY <1>4, <1>9, <2>1, <3>1 DEF WriterType
  <2>4. InTransaction' /\ ~IsAppending' BY <2>2 DEF InTransaction, IsAppending
  <2>5. aHdr[0].mxFrame <= hdr.mxFrame /\ hdr.mxFrame <= Len(log) BY <1>3, <1>4, <1>5, <1>6, <1>9, <1>10
  <2>6. TransactionInv' BY <1>1, <1>3, <1>9, <1>10, <1>11, <2>2, <2>5 DEF TransactionInv
  <2> QED BY <1>1, <2>2, <2>3, <2>4, <2>6, TransactionStep
<1> QED BY <1>15, <1>16, <1>17

\* The log that sqlite3WalFrames leaves: the frames of the header are kept, the
\* others of the transaction have their page, and new ones follow.
LEMMA FramesIs ==
    ASSUME HeadersInv, NEW S \in SUBSET Pgno, NEW isCommit \in BOOLEAN, Frames(S, isCommit)
    PROVE  \E append \in Seq(Pgno), top \in Pgno :
              /\ append \in Ascending
              /\ log' \in Seq(Frame) /\ Len(log') = w.hdr.mxFrame + Len(append) /\ Len(log') <= MaxFrame
              /\ \A i \in 1..w.hdr.mxFrame : log'[i].pg = log[i].pg /\ log'[i].nTruncate = log[i].nTruncate
              /\ \A i \in 1..aHdr[0].mxFrame : log[i].ok => log'[i].ok
              /\ \A i \in 1..Len(append) : log'[w.hdr.mxFrame + i].pg = append[i]
              /\ isCommit => /\ \A i \in 1..Len(log') : log'[i].ok
                             /\ append # <<>> => log'[Len(log')].nTruncate = top
              /\ w' = IF append = <<>> THEN w
                      ELSE [w EXCEPT !.pc = "append", !.iFrame = w.hdr.mxFrame + 1, !.list = append,
                                     !.nTruncate = IF isCommit THEN top ELSE 0]
<1> DEFINE mx == w.hdr.mxFrame
           iFirst == IF w.hdr # aHdr[0] THEN aHdr[0].mxFrame + 1 ELSE 0
           inPlace == {p \in S : /\ iFirst # 0
                                 /\ p # Highest(S) \/ ~isCommit
                                 /\ FindFrame(p, mx) >= iFirst}
           touched == {FindFrame(p, mx) : p \in inPlace}
           top == Highest(S)
           L(append) == [i \in 1..(mx + Len(append)) |->
                           IF i <= mx THEN [log[i] EXCEPT !.ok = isCommit \/ (log[i].ok /\ i \notin touched)]
                           ELSE [pg |-> append[i - mx], ok |-> TRUE,
                                 nTruncate |-> IF isCommit /\ i = mx + Len(append) THEN top ELSE 0]]
<1>1. /\ w.pc = "open" /\ S # {}
      /\ \E append \in Ascending :
              /\ mx + Len(append) <= MaxFrame
              /\ log' = L(append)
              /\ w' = IF append = <<>> THEN w
                      ELSE [w EXCEPT !.pc = "append", !.iFrame = mx + 1, !.list = append,
                                     !.nTruncate = IF isCommit THEN top ELSE 0]
  BY Zenon DEF Frames
<1>2. top \in Pgno
  <2>1. S \in SUBSET (0..MaxPage) /\ MaxPage \in Nat BY WalIndexAssumption DEF Pgno
  <2>2. top \in S BY <1>1, <2>1, HighestIs
  <2> QED BY <2>2
<1>3. ASSUME NEW i \in 1..aHdr[0].mxFrame PROVE i \notin touched
  <2> SUFFICES ASSUME i \in touched PROVE FALSE OBVIOUS
  <2>1. PICK p \in S : iFirst # 0 /\ FindFrame(p, mx) >= iFirst /\ i = FindFrame(p, mx) OBVIOUS
  <2>2. i >= aHdr[0].mxFrame + 1 BY <2>1
  <2>3. InTransaction BY <1>1 DEF InTransaction
  <2>4. aHdr[0].mxFrame \in Nat BY <2>3, InTransactionIs
  <2> QED BY <2>2, <2>4
<1> HIDE DEF touched, top
<1>4. PICK append \in Ascending :
        /\ mx + Len(append) <= MaxFrame
        /\ log' = L(append)
        /\ w' = IF append = <<>> THEN w
                ELSE [w EXCEPT !.pc = "append", !.iFrame = mx + 1, !.list = append,
                               !.nTruncate = IF isCommit THEN top ELSE 0]
  BY <1>1
<1>5. append \in Seq(Pgno) /\ Len(append) \in Nat
  <2>1. PICK n \in 0..MaxPage : append \in [1..n -> Pgno] BY DEF Ascending
  <2> QED BY <2>1
<1>6. InTransaction BY <1>1 DEF InTransaction
<1>7. mx \in Nat /\ aHdr[0].mxFrame \in Nat /\ aHdr[0].mxFrame <= mx /\ (mx # 0 => mx <= Len(log)) /\ Len(log) \in Nat
  BY <1>6, InTransactionIs DEF TransactionInv
<1>8. \A i \in 1..mx : log[i] \in Frame BY <1>7 DEF HeadersInv, LogInv
<1> DEFINE len == mx + Len(append)
<1>9. len \in Nat BY <1>5, <1>7
<1>10. \A i \in 1..len : log'[i] = IF i <= mx THEN [log[i] EXCEPT !.ok = isCommit \/ (log[i].ok /\ i \notin touched)]
                           ELSE [pg |-> append[i - mx], ok |-> TRUE,
                                 nTruncate |-> IF isCommit /\ i = len THEN top ELSE 0]
  BY <1>4
<1>11. ASSUME NEW i \in 1..mx
       PROVE  /\ log'[i] \in Frame /\ log'[i].pg = log[i].pg /\ log'[i].nTruncate = log[i].nTruncate
              /\ (log[i].ok /\ i \notin touched) \/ isCommit => log'[i].ok
  <2>1. i \in 1..len /\ i <= mx BY <1>5, <1>7
  <2>2. PICK f, ok : f = log[i] /\ ok = (isCommit \/ (f.ok /\ i \notin touched)) OBVIOUS
  <2>3. log'[i] = [f EXCEPT !.ok = ok] BY <1>10, <2>1, <2>2
  <2>4. f \in Frame BY <1>8, <2>2
  <2>5. ok \in BOOLEAN BY <2>2, Zenon
  <2>6. log'[i] = [pg |-> f.pg, nTruncate |-> f.nTruncate, ok |-> ok] BY <2>3, <2>4 DEF Frame
  <2>7. log'[i] \in Frame /\ log'[i].pg = f.pg /\ log'[i].nTruncate = f.nTruncate /\ log'[i].ok = ok
    BY <2>4, <2>5, <2>6 DEF Frame
  <2> QED BY <2>2, <2>7
<1>12. ASSUME NEW i \in 1..Len(append)
       PROVE  /\ log'[mx + i] \in Frame /\ log'[mx + i].pg = append[i] /\ log'[mx + i].ok
              /\ isCommit /\ i = Len(append) => log'[mx + i].nTruncate = top
  <2>1. mx + i \in 1..len /\ ~(mx + i <= mx) /\ mx + i - mx = i BY <1>5, <1>7
  <2>b. PICK k \in 1..len : k = mx + i BY <2>1
  <2>c. ~(k <= mx) /\ k - mx = i BY <1>5, <1>7, <2>b
  <2>2. PICK f, p, n : f = log'[k] /\ p = append[k - mx] /\ n = IF isCommit /\ k = len THEN top ELSE 0 OBVIOUS
  <2>3. k \in 1..len /\ ~(k <= mx) /\ p = append[i] BY <2>2, <2>b, <2>c
  <2>a. f = [pg |-> p, ok |-> TRUE, nTruncate |-> n]
    <3>1. log'[k] = IF k <= mx THEN [log[k] EXCEPT !.ok = isCommit \/ (log[k].ok /\ k \notin touched)]
                    ELSE [pg |-> append[k - mx], ok |-> TRUE, nTruncate |-> IF isCommit /\ k = len THEN top ELSE 0]
      BY <1>10, <2>3, Zenon
    <3>2. log'[k] = [pg |-> append[k - mx], ok |-> TRUE, nTruncate |-> IF isCommit /\ k = len THEN top ELSE 0]
      BY <2>3, <3>1, Zenon
    <3> QED BY <2>2, <3>2, Zenon
  <2>4. p \in Pgno BY <1>5, <2>3
  <2>5. n \in 0..MaxPage
    <3>1. top \in 0..MaxPage /\ 0 \in 0..MaxPage BY <1>2, WalIndexAssumption DEF Pgno
    <3> QED BY <2>2, <3>1
  <2>6. f \in Frame /\ f.pg = p /\ f.ok /\ f.nTruncate = n BY <2>a, <2>4, <2>5 DEF Frame
  <2> QED BY <2>2, <2>3, <2>6, <2>b
<1>13. \A i \in 1..len : i \in 1..mx \/ \E k \in 1..Len(append) : i = mx + k
  <2> TAKE i \in 1..len
  <2>1. CASE i <= mx BY <1>7, <2>1
  <2>2. CASE ~(i <= mx)
    <3>1. i - mx \in 1..Len(append) /\ i = mx + (i - mx) BY <1>5, <1>7, <2>2
    <3> QED BY <3>1
  <2> QED BY <2>1, <2>2
<1>14. log' \in Seq(Frame) /\ Len(log') = len
  <2>1. \A i \in 1..len : log'[i] \in Frame BY <1>11, <1>12, <1>13
  <2>2. log' = [i \in 1..len |-> log'[i]] BY <1>4
  <2>3. log' \in [1..len -> Frame] BY <2>1, <2>2
  <2> HIDE DEF len
  <2> QED BY <1>9, <2>3
<1>15. \A i \in 1..mx : log'[i].pg = log[i].pg /\ log'[i].nTruncate = log[i].nTruncate BY <1>11
<1>16. \A i \in 1..aHdr[0].mxFrame : log[i].ok => log'[i].ok
  <2> TAKE i \in 1..aHdr[0].mxFrame
  <2>1. i \in 1..mx BY <1>7
  <2> QED BY <1>3, <1>11, <2>1
<1>17. \A i \in 1..Len(append) : log'[mx + i].pg = append[i] BY <1>12
<1>18. isCommit => \A i \in 1..len : log'[i].ok BY <1>11, <1>12, <1>13
<1>19. isCommit /\ append # <<>> => log'[len].nTruncate = top
  <2>1. append # <<>> => Len(append) \in 1..Len(append) BY <1>5
  <2> QED BY <1>12, <2>1
<1>20. isCommit => (\A i \in 1..Len(log') : log'[i].ok) /\ (append # <<>> => log'[Len(log')].nTruncate = top)
  BY <1>14, <1>18, <1>19
<1> HIDE DEF L
<1> QED BY <1>2, <1>4, <1>5, <1>14, <1>15, <1>16, <1>17, <1>20

\* Frames are written to the log.
LEMMA FramesHeaders ==
    ASSUME HeadersInv, NEW S \in SUBSET Pgno, NEW isCommit \in BOOLEAN, Frames(S, isCommit)
    PROVE  HeadersInv'
<1>1. /\ UNCHANGED <<aHdr, nBackfill, ck, rd, nCrash>> /\ logSalt' = w.hdr.aSalt /\ w.pc = "open"
  BY DEF Frames, shmVars
<1>2. InTransaction BY <1>1 DEF InTransaction
<1>3. /\ WriterType /\ TransactionInv /\ IsGood /\ w.hdr \in Header /\ w.hdr.mxFrame \in Nat
      /\ w.hdr.aSalt \in Nat \ {0} /\ aHdr[0] \in Header /\ aHdr[0].mxFrame \in Nat /\ Len(log) \in Nat
  BY <1>2, InTransactionIs
<1>4. PICK append \in Seq(Pgno), top \in Pgno :
        /\ append \in Ascending
        /\ log' \in Seq(Frame) /\ Len(log') = w.hdr.mxFrame + Len(append) /\ Len(log') <= MaxFrame
        /\ \A i \in 1..w.hdr.mxFrame : log'[i].pg = log[i].pg /\ log'[i].nTruncate = log[i].nTruncate
        /\ \A i \in 1..aHdr[0].mxFrame : log[i].ok => log'[i].ok
        /\ \A i \in 1..Len(append) : log'[w.hdr.mxFrame + i].pg = append[i]
        /\ isCommit => /\ \A i \in 1..Len(log') : log'[i].ok
                       /\ append # <<>> => log'[Len(log')].nTruncate = top
        /\ w' = IF append = <<>> THEN w
                ELSE [w EXCEPT !.pc = "append", !.iFrame = w.hdr.mxFrame + 1, !.list = append,
                               !.nTruncate = IF isCommit THEN top ELSE 0]
  BY FramesIs, Zenon
<1>5. Len(append) \in Nat /\ Len(log') \in Nat /\ w.hdr.mxFrame <= Len(log') BY <1>3, <1>4
<1>6. /\ aHdr[0].mxFrame <= w.hdr.mxFrame /\ w.hdr.aSalt = aHdr[0].aSalt
      /\ w.hdr.mxFrame # 0 => w.hdr.aSalt = logSalt /\ w.hdr.mxFrame <= Len(log)
  BY <1>3 DEF TransactionInv
<1>7. ASSUME NEW m \in Nat, IsCommit(m), m <= aHdr[0].mxFrame
      PROVE  IsCommit(m)' /\ log'[m].nTruncate = log[m].nTruncate /\ logSalt' = logSalt
  <2>1. m \in 1..Len(log) /\ log[m].nTruncate # 0 /\ \A i \in 1..m : log[i].ok BY <1>7 DEF IsCommit
  <2>2. m \in 1..w.hdr.mxFrame /\ m \in 1..Len(log') /\ w.hdr.mxFrame # 0 BY <1>3, <1>5, <1>6, <1>7, <2>1
  <2>3. log'[m].nTruncate = log[m].nTruncate BY <1>4, <2>2
  <2>4. \A i \in 1..m : i \in 1..aHdr[0].mxFrame BY <1>3, <1>7
  <2>5. \A i \in 1..m : log'[i].ok BY <1>4, <2>1, <2>4
  <2> QED BY <1>1, <1>6, <2>1, <2>2, <2>3, <2>5 DEF IsCommit
<1>8. ASSUME NEW m \in Nat, NEW n, NEW s, Says(m, n, s), m <= aHdr[0].mxFrame, s = aHdr[0].aSalt
      PROVE  Says(m, n, s)'
  <2>1. CASE m = 0 BY <1>1, <1>6, <1>8, <2>1 DEF Says
  <2>2. CASE m # 0
    <3>1. IsCommit(m) /\ s = logSalt /\ n = log[m].nTruncate BY <1>8, <2>2 DEF Says
    <3>2. IsCommit(m)' /\ log'[m].nTruncate = log[m].nTruncate /\ logSalt' = logSalt BY <1>7, <1>8, <3>1
    <3> QED BY <3>1, <3>2 DEF Says
  <2> QED BY <2>1, <2>2
<1>9. LogInv'
  <2>1. nBackfill \in 0..MaxFrame /\ nCrash \in 0..MaxCrash BY DEF HeadersInv, LogInv
  <2> QED BY <1>1, <1>3, <1>4, <2>1 DEF LogInv
<1>10. IsGood' BY <1>1, <1>3 DEF IsGood, HdrOk
<1>11. HdrInv'
  <2>1. PICK hdr : hdr = aHdr[0] OBVIOUS
  <2>2. SumOk(hdr) /\ hdr.aCksum[1] = hdr.mxFrame /\ aHdr[1] = hdr /\ aHdr \in [0..1 -> Header]
    BY <1>3, <2>1, GoodHdr DEF HeadersInv, HdrInv
  <2>3. hdr.mxFrame \in Nat /\ hdr.mxFrame <= aHdr[0].mxFrame BY <1>3, <2>1
  <2>4. Says(hdr.mxFrame, hdr.nPage, hdr.aSalt) BY <2>2 DEF SumOk
  <2>5. Says(hdr.mxFrame, hdr.nPage, hdr.aSalt)' BY <1>8, <2>1, <2>3, <2>4
  <2>6. SumOk(hdr)' BY <2>2, <2>5 DEF SumOk
  <2>7. aHdr'[0] = hdr /\ aHdr'[1] = hdr /\ aHdr' \in [0..1 -> Header] BY <1>1, <2>1, <2>2
  <2>8. SumOk(aHdr[0])' /\ SumOk(aHdr[1])' BY <2>6, <2>7 DEF SumOk, Says, IsCommit
  <2> QED BY <2>7, <2>8 DEF HdrInv
<1>12. w'.pc \in {"open", "append"} /\ w'.hdr = w.hdr /\ w'.save = w.save /\ WriterType'
  <2>1. CASE append = <<>> BY <1>1, <1>3, <1>4, <2>1 DEF WriterType
  <2>2. CASE append # <<>>
    <3>1. PICK n, e : n = (IF isCommit THEN top ELSE 0) /\ e = w.hdr.mxFrame + 1 OBVIOUS
    <3>2. n \in 0..MaxPage /\ e \in Nat
      <4>1. top \in 0..MaxPage /\ 0 \in 0..MaxPage BY WalIndexAssumption DEF Pgno
      <4> QED BY <1>3, <3>1, <4>1
    <3>3. w' = [w EXCEPT !.pc = "append", !.iFrame = e, !.list = append, !.nTruncate = n] BY <1>4, <2>2, <3>1
    <3> QED BY <1>3, <3>2, <3>3 DEF WriterType
  <2> QED BY <2>1, <2>2
<1>13. ~IsStoring' /\ InTransaction' /\ w'.pc # "recover" /\ w'.pc # "cleanup" BY <1>12 DEF IsStoring, InTransaction
<1>14. ASSUME NEW m, NEW s, m <= aHdr[0].mxFrame, s = aHdr[0].aSalt PROVE IsCurrent(m, s)'
  BY <1>1, <1>13, <1>14 DEF IsCurrent
<1>15. TransactionInv'
  BY <1>1, <1>3, <1>5, <1>10, <1>12 DEF TransactionInv
<1>16. (IsAppending => AppendInv)'
  <2> SUFFICES ASSUME IsAppending' PROVE AppendInv' OBVIOUS
  <2>1. w'.pc = "append" BY <1>12 DEF IsAppending
  <2>2. append # <<>> BY <1>1, <1>4, <2>1
  <2>3. PICK n, e : n = (IF isCommit THEN top ELSE 0) /\ e = w.hdr.mxFrame + 1 OBVIOUS
  <2>4. w' = [w EXCEPT !.pc = "append", !.iFrame = e, !.list = append, !.nTruncate = n] BY <1>4, <2>2, <2>3
  <2>5. w'.iFrame = e /\ w'.list = append /\ w'.nTruncate = n BY <1>3, <2>4 DEF WriterType
  <2>6. e + Len(append) = Len(log') + 1 /\ w.hdr.mxFrame < e BY <1>3, <1>4, <1>5, <2>3
  <2>7. \A i \in 1..Len(append) : log'[e + i - 1].pg = append[i]
    <3> TAKE i \in 1..Len(append)
    <3>1. e + i - 1 = w.hdr.mxFrame + i BY <1>3, <1>5, <2>3
    <3> QED BY <1>4, <3>1
  <2>8. n # 0 => isCommit /\ n = top BY <2>3
  <2>9. n # 0 => log'[Len(log')].nTruncate = n /\ \A i \in 1..Len(log') : log'[i].ok BY <1>4, <2>2, <2>8
  <2> QED BY <1>1, <1>12, <2>2, <2>5, <2>6, <2>7, <2>9 DEF AppendInv
<1>17. WriterInv' BY <1>12, <1>13, <1>15, <1>16 DEF WriterInv
<1>18. CkptInv'
  <2>1. PICK hdr : hdr = ck.h1 OBVIOUS
  <2>2. hdr \in Header BY <2>1 DEF HeadersInv, CkptInv
  <2>3. hdr.aCksum[1] \in Nat BY <2>2, HeaderIs
  <2>4. ASSUME SumOk(hdr), IsCurrent(hdr.aCksum[1], hdr.aSalt) PROVE SumOk(hdr)' /\ IsCurrent(hdr.aCksum[1], hdr.aSalt)'
    <3>1. hdr.aCksum[1] <= aHdr[0].mxFrame /\ hdr.aSalt = aHdr[0].aSalt BY <1>3, <2>4 DEF IsCurrent
    <3>2. Says(hdr.aCksum[1], hdr.nPage, hdr.aSalt) BY <2>4 DEF SumOk
    <3>3. Says(hdr.aCksum[1], hdr.nPage, hdr.aSalt)' BY <1>8, <2>3, <3>1, <3>2
    <3>4. SumOk(hdr)' BY <2>4, <3>3 DEF SumOk
    <3> QED BY <1>14, <3>1, <3>4
  <2>5. SumOk(hdr)' => SumOk(ck.h1)' BY <1>1, <2>1 DEF SumOk, Says, IsCommit
  <2>6. IsCurrent(hdr.aCksum[1], hdr.aSalt)' => IsCurrent(ck.h1.aCksum[1], ck.h1.aSalt)' BY <1>1, <2>1 DEF IsCurrent
  <2>7. SumOk(ck.h1) /\ IsCurrent(ck.h1.aCksum[1], ck.h1.aSalt) => SumOk(hdr) /\ IsCurrent(hdr.aCksum[1], hdr.aSalt)
    BY <2>1, Zenon
  <2> QED BY <1>1, <2>4, <2>5, <2>6, <2>7 DEF HeadersInv, CkptInv
<1>19. ReadersInv'
  <2>1. ASSUME NEW r \in Readers PROVE ReaderInv(rd[r])'
    <3>1. ReaderInv(rd[r]) BY DEF HeadersInv, ReadersInv
    <3>2. CASE rd[r].pc = "idle" BY <1>1, <3>1, <3>2 DEF ReaderInv, ReaderType
    <3>3. CASE rd[r].pc # "idle"
      <4>1. PICK m : m = rd[r].mxFrame OBVIOUS
      <4>2. m \in Nat /\ IsCommit(m) /\ IsCurrent(m, logSalt) BY <3>1, <3>3, <4>1 DEF ReaderInv, ReaderType
      <4>3. m <= aHdr[0].mxFrame /\ logSalt = aHdr[0].aSalt BY <1>3, <4>2 DEF IsCurrent
      <4>4. IsCommit(m)' /\ logSalt' = logSalt BY <1>7, <4>2, <4>3
      <4>5. PICK s : s = logSalt OBVIOUS
      <4>6. IsCurrent(m, s)' BY <1>14, <4>3, <4>5
      <4>7. IsCurrent(rd[r].mxFrame, logSalt)' /\ IsCommit(rd[r].mxFrame)'
        BY <1>1, <4>1, <4>4, <4>5, <4>6 DEF IsCurrent, IsCommit
      <4> QED BY <1>1, <3>1, <3>3, <4>7 DEF ReaderInv, ReaderType
    <3> QED BY <3>2, <3>3
  <2> QED BY <1>1, <2>1 DEF HeadersInv, ReadersInv
<1> QED BY <1>9, <1>11, <1>17, <1>18, <1>19 DEF HeadersInv

\* The frames with right checksums are the first ones.
LEMMA ValidIs ==
    ASSUME LogInv
    PROVE  /\ Valid \in Seq(Frame) /\ Len(Valid) \in Nat /\ Len(Valid) <= Len(log) /\ Len(log) <= MaxFrame
           /\ \A i \in 1..Len(Valid) : Valid[i] = log[i] /\ log[i].ok
           /\ Len(Valid) < Len(log) => ~log[Len(Valid) + 1].ok
<1> DEFINE bad == {i \in 1..Len(log) : ~log[i].ok}
           b == Lowest(bad)
<1>1. log \in Seq(Frame) /\ Len(log) \in Nat /\ Len(log) <= MaxFrame BY DEF LogInv
<1>2. CASE bad = {}
  <2>1. Valid = log BY <1>2 DEF Valid
  <2> QED BY <1>1, <1>2, <2>1
<1>3. CASE bad # {}
  <2>1. bad \in SUBSET Nat OBVIOUS
  <2>2. b \in bad /\ \A n \in bad : b <= n
    <3> HIDE DEF bad
    <3> QED BY <1>3, <2>1, LowestIs
  <2>3. Valid = SubSeq(log, 1, b - 1) BY <1>3 DEF Valid
  <2> HIDE DEF b
  <2>4. b \in 1..Len(log) /\ ~log[b].ok BY <2>2
  <2>5. b - 1 \in 0..Len(log) BY <1>1, <2>4
  <2>6. Valid \in Seq(Frame) /\ Len(Valid) = b - 1 /\ \A i \in 1..(b - 1) : Valid[i] = log[i] BY <1>1, <2>3, <2>5
  <2>7. ASSUME NEW i \in 1..(b - 1) PROVE log[i].ok
    <3>1. i \in 1..Len(log) /\ ~(b <= i) BY <1>1, <2>4
    <3> QED BY <2>2, <3>1
  <2> QED BY <1>1, <2>4, <2>5, <2>6, <2>7
<1> QED BY <1>2, <1>3

\* A transaction that is complete is valid.
LEMMA CommitIsValid ==
    ASSUME LogInv, NEW m \in Nat, IsCommit(m)
    PROVE  m <= Len(Valid)
<1>1. m \in 1..Len(log) /\ \A i \in 1..m : log[i].ok BY DEF IsCommit
<1>2. PICK v : v = Len(Valid) OBVIOUS
<1>3. v \in Nat /\ v <= Len(log) /\ (v < Len(log) => ~log[v + 1].ok) /\ Len(log) \in Nat BY <1>2, ValidIs DEF LogInv
<1>4. CASE v < m
  <2>1. v + 1 \in 1..m /\ v < Len(log) BY <1>1, <1>3, <1>4
  <2> QED BY <1>1, <1>3, <2>1
<1> QED BY <1>2, <1>3, <1>4

\* The transaction that a recovery finds is the last one of the valid frames.
LEMMA RecoveredIs ==
    ASSUME LogInv, NEW commits, commits = {0} \cup {i \in 1..Len(Valid) : log[i].nTruncate # 0}
    PROVE  /\ Highest(commits) \in 0..MaxFrame /\ Highest(commits) \in Nat /\ Highest(commits) <= Len(Valid)
           /\ Highest(commits) # 0 => IsCommit(Highest(commits))
           /\ \A m \in Nat : IsCommit(m) => m <= Highest(commits)
<1>1. /\ Len(Valid) \in Nat /\ Len(Valid) <= Len(log) /\ Len(log) <= MaxFrame /\ Len(log) \in Nat /\ MaxFrame \in Nat
      /\ \A i \in 1..Len(Valid) : log[i].ok
  BY ValidIs, WalIndexAssumption DEF LogInv
<1>2. PICK v : v = Len(Valid) OBVIOUS
<1>3. commits \in SUBSET (0..v) /\ commits # {} /\ v \in Nat BY <1>1, <1>2
<1>4. Highest(commits) \in commits /\ \A n \in commits : n <= Highest(commits) BY <1>3, HighestIs
<1>5. PICK h : h = Highest(commits) OBVIOUS
<1>6. h \in 0..v /\ h \in 0..MaxFrame /\ h \in Nat BY <1>1, <1>2, <1>3, <1>4, <1>5
<1>7. ASSUME h # 0 PROVE IsCommit(h)
  <2>1. h \in 1..v /\ log[h].nTruncate # 0 BY <1>2, <1>4, <1>5, <1>7
  <2>2. h \in 1..Len(log) /\ \A i \in 1..h : i \in 1..v BY <1>1, <1>2, <1>3, <2>1
  <2> QED BY <1>1, <1>2, <2>1, <2>2 DEF IsCommit
<1>8. ASSUME NEW m \in Nat, IsCommit(m) PROVE m <= h
  <2>1. m <= v BY <1>2, <1>8, CommitIsValid
  <2>2. m \in 1..v /\ log[m].nTruncate # 0 BY <1>3, <1>8, <2>1 DEF IsCommit
  <2>3. m \in commits BY <1>2, <2>2
  <2> QED BY <1>4, <1>5, <2>3
<1> QED BY <1>2, <1>5, <1>6, <1>7, <1>8

\* A recovery copies tables and then writes the header.
LEMMA RecoverHeaders == ASSUME HeadersInv, Recover PROVE HeadersInv'
<1> DEFINE to == {h \in Tables : h <= walFramePage(Len(Valid) + 1)}
           diff == {h \in to : aPgno[h] # Rebuilt[h].pg \/ aHash[h] # Rebuilt[h].slot}
           commits == {0} \cup {i \in 1..Len(Valid) : log[i].nTruncate # 0}
<1>1. UNCHANGED <<log, logSalt, aHdr, nBackfill, ck, rd, nCrash>> /\ w.pc = "recover" BY DEF Recover
<1>2. WriterInv /\ WriterType /\ ~IsGood /\ ck.pc = "idle" /\ LogInv BY <1>1 DEF HeadersInv, WriterInv
<1>3. CASE w' = w
  <2>1. ~IsStoring' BY <1>1, <1>3 DEF IsStoring
  <2>2. nCrash' \in 0..MaxCrash BY <1>1 DEF HeadersInv, LogInv
  <2>3. LogInv' /\ HdrInv' /\ CkptInv' /\ ReadersInv' /\ ~IsGood' BY <1>1, <1>2, <2>1, <2>2, QuietStep
  <2>4. WriterType' BY <1>2, <1>3 DEF WriterType
  <2>5. WriterInv' BY <1>1, <1>2, <1>3, <2>1, <2>3, <2>4 DEF WriterInv, InTransaction, IsAppending
  <2> QED BY <2>3, <2>5 DEF HeadersInv
<1>4. CASE w' # w
  <2>1. PICK mx : mx = Highest(commits) OBVIOUS
  <2>2. PICK n : n = IF mx = 0 THEN 0 ELSE log[mx].nTruncate OBVIOUS
  <2>3. PICK hdr : hdr = Hdr(mx, n, logSalt) OBVIOUS
  <2>4. w' = WriteHdr(hdr, "recover") BY <1>4, <2>1, <2>2, <2>3, Zenon DEF Recover
  <2>5. mx \in 0..MaxFrame /\ mx \in Nat /\ (mx # 0 => IsCommit(mx)) /\ \A m \in Nat : IsCommit(m) => m <= mx
    BY <1>2, <2>1, RecoveredIs
  <2>6. n \in 0..MaxPage /\ logSalt \in Nat /\ logSalt # 0
    <3>1. mx # 0 => log[mx] \in Frame BY <1>2, <2>5 DEF IsCommit, LogInv
    <3> QED BY <1>2, <2>2, <3>1, WalIndexAssumption DEF Frame, LogInv
  <2>7. /\ hdr \in Header /\ hdr.mxFrame = mx /\ hdr.nPage = n /\ hdr.aSalt = logSalt
        /\ hdr = Hdr(hdr.mxFrame, hdr.nPage, hdr.aSalt)
    BY <2>3, <2>5, <2>6, HdrType
  <2>8. Says(mx, n, logSalt) BY <2>2, <2>5 DEF Says
  <2>9. Says(hdr.mxFrame, hdr.nPage, hdr.aSalt)'
    <3>1. Says(hdr.mxFrame, hdr.nPage, hdr.aSalt) BY <2>7, <2>8
    <3> QED BY <1>1, <3>1, LogSame
  <2>10. ~IsGood' /\ ck'.pc = "idle" BY <1>1, <1>2 DEF IsGood, HdrOk
  <2>11. WriterInv' /\ w'.hdr = hdr BY <1>2, <2>4, <2>6, <2>7, <2>9, <2>10, StoreBeginsWriter
  <2>12. ASSUME NEW r \in Readers, rd[r].pc # "idle" PROVE rd[r].mxFrame <= w'.hdr.mxFrame /\ w'.hdr.aSalt = logSalt
    <3>1. IsCommit(rd[r].mxFrame) /\ rd[r].mxFrame \in Nat BY <2>12 DEF HeadersInv, ReadersInv, ReaderInv, ReaderType
    <3> QED BY <2>5, <2>7, <2>11, <3>1
  <2>13. w'.hdr.mxFrame \in Nat BY <2>5, <2>7, <2>11
  <2>14. LogInv' /\ HdrInv' /\ CkptInv' /\ ReadersInv' BY <1>1, <1>2, <2>12, <2>13, StoreBegins
  <2> QED BY <2>11, <2>14 DEF HeadersInv
<1> QED BY <1>3, <1>4, Zenon

\* The headers say what is true at the start,
LEMMA HeadersInit == MemoryInit => HeadersInv
<1> SUFFICES ASSUME MemoryInit PROVE HeadersInv OBVIOUS
<1>1. /\ log = <<>> /\ logSalt = 1 /\ aHdr = [i \in 0..1 |-> Hdr(0, 0, 1)] /\ nBackfill = 0 /\ w = NoWriter
      /\ rd = [r \in Readers |-> NoReader] /\ ck = NoCkpt /\ nCrash = 0
  BY DEF MemoryInit
<1>2. 0 \in 0..MaxFrame /\ 0 \in 0..MaxPage /\ 0 \in 0..MaxCrash /\ MaxFrame \in Nat BY WalIndexAssumption
<1>3. LogInv BY <1>1, <1>2 DEF LogInv
<1>4. HdrInv
  <2>1. PICK hdr : hdr = Hdr(0, 0, 1) OBVIOUS
  <2>2. hdr \in Header /\ hdr.mxFrame = 0 /\ hdr.nPage = 0 /\ hdr.aSalt = 1 /\ hdr.aCksum = <<0, 0, 1>>
    BY <1>2, <2>1, HdrType
  <2>3. SumOk(hdr) BY <1>1, <2>2 DEF SumOk, Says
  <2>4. aHdr[0] = hdr /\ aHdr[1] = hdr /\ aHdr \in [0..1 -> Header] BY <1>1, <2>1, <2>2
  <2> QED BY <2>3, <2>4 DEF HdrInv
<1>5. WriterInv
  <2>1. w.pc = "idle" /\ WriterType
    <3>1. <<>> \in Seq(Pgno) /\ {} \in SUBSET Words OBVIOUS
    <3> QED BY <1>1, <1>2, <3>1, HdrType DEF NoWriter, WriterType
  <2> QED BY <2>1 DEF WriterInv, IsStoring, InTransaction, IsAppending
<1>6. CkptInv
  <2>1. ck.pc = "idle" /\ ck.h1 = ZeroHdr /\ ck.h2 = ZeroHdr /\ ck.todo = {} BY <1>1 DEF NoCkpt
  <2>2. ck = [pc |-> ck.pc, h1 |-> ck.h1, h2 |-> ck.h2, todo |-> ck.todo, nBackfill |-> ck.nBackfill,
              mxSafeFrame |-> ck.mxSafeFrame, aIndex |-> ck.aIndex, iPrior |-> ck.iPrior, out |-> ck.out]
    BY <1>1 DEF NoCkpt
  <2> QED BY <2>1, <2>2, HdrType DEF CkptInv
<1>7. ReadersInv
  <2>1. ReaderInv(NoReader) BY WalIndexAssumption DEF ReaderInv, ReaderType, NoReader
  <2> QED BY <1>1, <2>1 DEF ReadersInv
<1> QED BY <1>3, <1>4, <1>5, <1>6, <1>7 DEF HeadersInv

\* and every step keeps it so.
LEMMA HeadersNext == HeadersInv /\ MemoryNext => HeadersInv'
<1> SUFFICES ASSUME HeadersInv, MemoryNext PROVE HeadersInv' OBVIOUS
<1>1. CASE \E r \in Readers : FindBegin(r) \/ FindStep(r) \/ EndRead(r)
  BY <1>1, FindBeginHeaders, FindStepHeaders, EndReadHeaders
<1>2. CASE BeginCkpt \/ CkptReadHdr \/ CkptSort \/ CkptNext \/ CkptEnd
  BY <1>2, BeginCkptHeaders, CkptReadHdrHeaders, CkptSortHeaders, CkptNextHeaders, CkptEndHeaders
<1>3. CASE BeginWrite \/ RestartLog \/ StoreHdr BY <1>3, BeginWriteHeaders, RestartLogHeaders, StoreHdrHeaders
<1>4. CASE \E S \in SUBSET Pgno, isCommit \in BOOLEAN : Frames(S, isCommit) BY <1>4, FramesHeaders
<1>5. CASE AppendZero \/ AppendCleanup \/ AppendPgno \/ AppendSlot \/ CleanupHash
  BY <1>5, AppendStepHeaders, AppendSlotHeaders, CleanupHashHeaders
<1>6. CASE Undo \/ Savepoint \/ SavepointUndo \/ CrashWriter \/ Recover
  BY <1>6, UndoHeaders, SavepointHeaders, SavepointUndoHeaders, CrashWriterHeaders, RecoverHeaders
<1> QED BY <1>1, <1>2, <1>3, <1>4, <1>5, <1>6 DEF MemoryNext

(***************************************************************************)
(* Slots of one table                                                      *)
(***************************************************************************)
\* The slots before that of an index are of indices before it.
LEMMA SlotBefore ==
    ASSUME NEW pg, NEW slot, NEW i, pg[i] \in Nat, HasSlot(pg, slot, i),
           NEW j \in Slot, slot[Probe(pg[i], j)] = i
    PROVE  \A j2 \in 0..(j - 1) : slot[Probe(pg[i], j2)] \in 1..(i - 1)
<1>1. PICK j1 \in Slot : /\ slot[Probe(pg[i], j1)] = i
                         /\ \A j2 \in 0..(j1 - 1) : slot[Probe(pg[i], j2)] \in 1..(i - 1)
  BY DEF HasSlot
<1>2. Probe(pg[i], j) \in Slot /\ Probe(pg[i], j1) \in Slot BY ProbeSlots
<1>3. Probe(pg[i], j) = Probe(pg[i], j1) BY <1>1, <1>2 DEF HasSlot
<1>4. j = j1 BY <1>3, ProbeSlots
<1> QED BY <1>1, <1>4

\* Two tables of the same pages have the same slots for them: those before a
\* slot decide where it is.
BothHave(n, pg, slot, pg2, slot2) ==
    \A i \in 1..n : pg[i] \in Nat /\ pg2[i] = pg[i] /\ HasSlot(pg, slot, i) /\ HasSlot(pg2, slot2, i)

\* By induction on the index.
LEMMA SlotsUnique ==
    ASSUME NEW n \in Nat, NEW pg, NEW slot, NEW pg2, NEW slot2, BothHave(n, pg, slot, pg2, slot2)
    PROVE  \A i \in 1..n, k \in Slot : slot[k] = i <=> slot2[k] = i
<1> USE DEF BothHave
<1> DEFINE Bad == {i \in 1..n : \E k \in Slot : ~(slot[k] = i <=> slot2[k] = i)}
<1>1. CASE Bad = {} BY <1>1
<1>2. CASE Bad # {}
  <2>1. Bad \in SUBSET Nat OBVIOUS
  <2>2. PICK i \in Bad : \A m \in Bad : i <= m
    <3> HIDE DEF Bad
    <3> QED BY <1>2, <2>1, LowestIs
  <2>3. i \in 1..n /\ \E k \in Slot : ~(slot[k] = i <=> slot2[k] = i) BY <2>2
  <2>4. ASSUME NEW v \in 1..(i - 1), NEW k \in Slot PROVE slot[k] = v <=> slot2[k] = v
    <3>1. v \in 1..n /\ ~(i <= v) BY <2>3
    <3> QED BY <2>2, <3>1
  <2> HIDE DEF Bad
  <2>5. PICK p : p = pg[i] OBVIOUS
  <2>6. p \in Nat /\ pg2[i] = p /\ HasSlot(pg, slot, i) /\ HasSlot(pg2, slot2, i) BY <2>3, <2>5
  <2>7. PICK j \in Slot : slot[Probe(p, j)] = i /\ \A j2 \in 0..(j - 1) : slot[Probe(p, j2)] \in 1..(i - 1)
    BY <2>5, <2>6 DEF HasSlot
  <2>8. PICK e \in Slot : slot2[Probe(p, e)] = i /\ \A j2 \in 0..(e - 1) : slot2[Probe(p, j2)] \in 1..(i - 1)
    BY <2>6 DEF HasSlot
  <2>9. \A x \in Slot : Probe(p, x) \in Slot BY <2>6, ProbeSlots
  <2>10. j \in Nat /\ e \in Nat BY SlotCount
  <2>11. ~(j < e)
    <3> SUFFICES ASSUME j < e PROVE FALSE OBVIOUS
    <3>1. slot2[Probe(p, j)] \in 1..(i - 1) BY <2>8, <2>10
    <3>2. slot[Probe(p, j)] = slot2[Probe(p, j)] BY <2>4, <2>9, <3>1
    <3> QED BY <2>3, <2>7, <3>1, <3>2
  <2>12. ~(e < j)
    <3> SUFFICES ASSUME e < j PROVE FALSE OBVIOUS
    <3>1. slot[Probe(p, e)] \in 1..(i - 1) BY <2>7, <2>10
    <3>2. slot2[Probe(p, e)] = slot[Probe(p, e)] BY <2>4, <2>9, <3>1
    <3> QED BY <2>3, <2>8, <3>1, <3>2
  <2>13. j = e BY <2>10, <2>11, <2>12
  <2>14. \A k \in Slot : (slot[k] = i => k = Probe(p, j)) /\ (slot2[k] = i => k = Probe(p, j))
    BY <2>6, <2>7, <2>8, <2>9, <2>13 DEF HasSlot
  <2>15. \A k \in Slot : slot[k] = i <=> slot2[k] = i BY <2>7, <2>8, <2>13, <2>14
  <2> QED BY <2>3, <2>15
<1> QED BY <1>1, <1>2

\* A table that has the same pages and the same slots for the first n indices
\* serves them as well.
SameSlots(n, pg, slot, pg2, slot2) ==
    \A i \in 1..n : /\ pg[i] \in Nat /\ pg2[i] = pg[i] /\ HasSlot(pg, slot, i)
                    /\ \A k \in Slot : slot2[k] = i <=> slot[k] = i

\* The slots before that of an index are of smaller ones, the same in both.
LEMMA SlotsStable ==
    ASSUME NEW n \in Nat, NEW pg, NEW slot, NEW pg2, NEW slot2, SameSlots(n, pg, slot, pg2, slot2)
    PROVE  \A i \in 1..n : HasSlot(pg2, slot2, i)
<1> USE DEF SameSlots
<1> TAKE i \in 1..n
<1>1. PICK p : p = pg[i] OBVIOUS
<1>2. p \in Nat /\ pg2[i] = p /\ HasSlot(pg, slot, i) BY <1>1
<1>3. PICK j \in Slot : slot[Probe(p, j)] = i /\ \A j2 \in 0..(j - 1) : slot[Probe(p, j2)] \in 1..(i - 1)
  BY <1>1, <1>2 DEF HasSlot
<1>4. \A x \in Slot : Probe(p, x) \in Slot BY <1>2, ProbeSlots
<1>5. slot2[Probe(p, j)] = i BY <1>3, <1>4
<1>6. ASSUME NEW j2 \in 0..(j - 1) PROVE slot2[Probe(p, j2)] \in 1..(i - 1)
  <2>1. j2 \in Slot BY <1>3, SlotCount
  <2>2. slot[Probe(p, j2)] \in 1..(i - 1) /\ Probe(p, j2) \in Slot BY <1>3, <1>4, <2>1
  <2>3. PICK v : v = slot[Probe(p, j2)] OBVIOUS
  <2>4. v \in 1..n /\ v \in 1..(i - 1) BY <2>2, <2>3
  <2>5. slot2[Probe(p, j2)] = v BY <2>2, <2>3, <2>4
  <2> QED BY <2>4, <2>5
<1>7. \A k, k2 \in Slot : slot2[k] = i /\ slot2[k2] = i => k = k2 BY <1>2 DEF HasSlot
<1> QED BY <1>2, <1>3, <1>5, <1>6, <1>7 DEF HasSlot

(***************************************************************************)
(* Frames that a step keeps                                                *)
(***************************************************************************)
\* A step leaves the frames up to n, their page numbers and their slots.
Keeps(n) ==
    \A f \in 1..n :
        /\ log'[f].pg = log[f].pg
        /\ aPgno'[walFramePage(f)][Index(f)] = aPgno[walFramePage(f)][Index(f)]
        /\ \A k \in Slot : aHash'[walFramePage(f)][k] = Index(f) <=> aHash[walFramePage(f)][k] = Index(f)

\* The indices before that of a frame are of frames before it.
LEMMA FrameBefore ==
    ASSUME NEW f \in Nat \ {0}, NEW v \in 1..Index(f), NEW g, g = iZero(walFramePage(f)) + v
    PROVE  g \in 1..f /\ walFramePage(g) = walFramePage(f) /\ Index(g) = v
<1> DEFINE h == walFramePage(f)
<1>1. h \in Nat /\ iZero(h) \in Nat /\ Index(f) \in 1..TableSize(h) /\ f = iZero(h) + Index(f) BY FrameTable
<1>2. TableSize(h) \in Nat BY SlotCount
<1> HIDE DEF h
<1>3. v \in 1..TableSize(h) BY <1>1, <1>2
<1>4. walFramePage(iZero(h) + v) = h /\ Index(iZero(h) + v) = v BY <1>1, <1>3, TableFrame
<1>5. iZero(h) + v \in 1..f BY <1>1, <1>2
<1> QED BY <1>4, <1>5 DEF h

\* Then they are still found.
LEMMA KeepsPlaced ==
    ASSUME LogInv, NEW n \in Nat, n <= Len(log), PlacedUpTo(n), Keeps(n)
    PROVE  PlacedUpTo(n)'
<1> SUFFICES ASSUME NEW f \in 1..n PROVE Placed(f)' BY DEF PlacedUpTo
<1>1. PICK h, i : h = walFramePage(f) /\ i = Index(f) OBVIOUS
<1>2. PICK pg, slot, pg2, slot2 : pg = aPgno[h] /\ slot = aHash[h] /\ pg2 = aPgno'[h] /\ slot2 = aHash'[h] OBVIOUS
<1>3. f \in Nat \ {0} /\ i \in Nat
  <2>1. f \in Nat \ {0} OBVIOUS
  <2>2. Index(f) \in 1..TableSize(walFramePage(f)) /\ TableSize(walFramePage(f)) \in Nat BY <2>1, FrameTable, SlotCount
  <2> QED BY <1>1, <2>1, <2>2
<1>4. ASSUME NEW v \in 1..i
      PROVE  /\ pg[v] \in Nat /\ pg2[v] = pg[v] /\ HasSlot(pg, slot, v)
             /\ \A k \in Slot : slot2[k] = v <=> slot[k] = v
  <2>1. PICK g : g = iZero(h) + v OBVIOUS
  <2>2. g \in 1..f /\ walFramePage(g) = h /\ Index(g) = v BY <1>1, <1>3, <2>1, FrameBefore
  <2>3. g \in 1..n /\ g \in 1..Len(log) /\ Len(log) \in Nat BY <1>3, <2>2 DEF LogInv
  <2>4. Placed(g) BY <2>3 DEF PlacedUpTo
  <2>5. pg[v] = log[g].pg /\ HasSlot(pg, slot, v) BY <1>2, <2>2, <2>4 DEF Placed
  <2>6. log[g] \in Frame BY <2>3 DEF LogInv
  <2>7. log[g].pg \in Nat BY <2>6, WalIndexAssumption DEF Frame, Pgno
  <2> QED BY <1>2, <2>2, <2>3, <2>5, <2>7 DEF Keeps
<1>5. \A v \in 1..i : HasSlot(pg2, slot2, v)
  <2>1. SameSlots(i, pg, slot, pg2, slot2) BY <1>4 DEF SameSlots
  <2> QED BY <1>3, <2>1, SlotsStable
<1>6. i \in 1..i
  <2>1. Index(f) \in 1..TableSize(walFramePage(f)) BY <1>3, FrameTable
  <2> QED BY <1>1, <1>3, <2>1
<1>7. HasSlot(pg2, slot2, i) BY <1>5, <1>6
<1>8. pg2[i] = log'[f].pg
  <2>1. Placed(f) BY DEF PlacedUpTo
  <2>2. pg[i] = log[f].pg BY <1>1, <1>2, <2>1 DEF Placed
  <2>3. pg2[i] = pg[i] /\ log'[f].pg = log[f].pg BY <1>1, <1>2 DEF Keeps
  <2> QED BY <2>2, <2>3
<1>9. Placed(f)' <=> (aPgno'[h][i] = log'[f].pg /\ HasSlot(aPgno'[h], aHash'[h], i)) BY <1>1 DEF Placed, HasSlot
<1> QED BY <1>2, <1>7, <1>8, <1>9

\* Fewer frames.
LEMMA KeepsFewer ==
    ASSUME NEW n \in Nat, NEW m \in Nat, m <= n
    PROVE  /\ PlacedUpTo(n) => PlacedUpTo(m)
           /\ PlacedUpTo(n)' => PlacedUpTo(m)'
           /\ Keeps(n) => Keeps(m)
<1>1. \A f \in 1..m : f \in 1..n OBVIOUS
<1> QED BY <1>1 DEF PlacedUpTo, Keeps

\* A step that leaves the log and the tables alone.
LEMMA KeepsAll ==
    ASSUME UNCHANGED <<log, aPgno, aHash>>
    PROVE  /\ \A n : Keeps(n)
           /\ \A n : PlacedUpTo(n)' <=> PlacedUpTo(n)
BY DEF Keeps, PlacedUpTo, Placed, HasSlot

(***************************************************************************)
(* The tables that a recovery builds                                       *)
(***************************************************************************)
\* Tables without a frame.
EmptyTables == [h \in Tables |-> [pg |-> EmptyPgno(h), slot |-> EmptyHash]]

\* The recursion of Built has a solution,
LEMMA BuiltExists ==
    \E g : g = [n \in 0..MaxFrame |-> IF n = 0 THEN EmptyTables ELSE Entered(g[n - 1], n)]
<1> DEFINE Has(k) == \E g : g = [n \in 0..k |-> IF n = 0 THEN EmptyTables ELSE Entered(g[n - 1], n)]
           S == {k \in 0..MaxFrame : ~Has(k)}
<1>0. MaxFrame \in Nat BY WalIndexAssumption
<1>1. S = {}
  <2> SUFFICES ASSUME S # {} PROVE FALSE OBVIOUS
  <2>1. S \in SUBSET Nat OBVIOUS
  <2>2. PICK k \in S : \A m \in S : k <= m
    <3> HIDE DEF S
    <3> QED BY <2>1, LowestIs
  <2>3. k \in 0..MaxFrame /\ ~Has(k) BY <2>2
  <2>4. k # 0
    <3> SUFFICES ASSUME k = 0 PROVE FALSE OBVIOUS
    <3>1. PICK g : g = [n \in 0..0 |-> EmptyTables] OBVIOUS
    <3>2. g = [n \in 0..0 |-> IF n = 0 THEN EmptyTables ELSE Entered(g[n - 1], n)] BY <3>1
    <3>3. Has(0) BY <3>2
    <3> QED BY <2>3, <3>3
  <2>5. Has(k - 1)
    <3> HIDE DEF Has
    <3>1. k - 1 \in 0..MaxFrame /\ ~(k <= k - 1) BY <1>0, <2>3, <2>4
    <3> QED BY <2>2, <3>1
  <2>6. PICK g : g = [n \in 0..(k - 1) |-> IF n = 0 THEN EmptyTables ELSE Entered(g[n - 1], n)] BY <2>5
  <2>7. PICK f : f = [n \in 0..k |-> IF n = k THEN Entered(g[k - 1], k) ELSE g[n]] OBVIOUS
  <2>8. ASSUME NEW n \in 0..k PROVE f[n] = IF n = 0 THEN EmptyTables ELSE Entered(f[n - 1], n)
    <3>1. CASE n = k
      <4>1. k - 1 \in 0..k /\ k - 1 # k BY <2>3, <2>4
      <4>2. f[k - 1] = g[k - 1] BY <2>7, <4>1
      <4>3. f[k] = Entered(g[k - 1], k) BY <2>3, <2>7
      <4> QED BY <2>4, <3>1, <4>2, <4>3
    <3>2. CASE n # k /\ n # 0
      <4>1. n \in 0..(k - 1) /\ n - 1 \in 0..k /\ n - 1 # k BY <2>3, <3>2
      <4>2. f[n] = g[n] /\ f[n - 1] = g[n - 1] BY <2>7, <3>2, <4>1
      <4>3. g[n] = Entered(g[n - 1], n) BY <2>6, <3>2, <4>1
      <4> QED BY <3>2, <4>2, <4>3
    <3>3. CASE n # k /\ n = 0
      <4>1. n \in 0..(k - 1) BY <2>3, <3>3
      <4>2. f[n] = g[n] BY <2>7, <3>3
      <4>3. g[n] = EmptyTables BY <2>6, <3>3, <4>1
      <4> QED BY <3>3, <4>2, <4>3
    <3> QED BY <3>1, <3>2, <3>3
  <2>9. f = [n \in 0..k |-> f[n]] BY <2>7
  <2>10. f = [n \in 0..k |-> IF n = 0 THEN EmptyTables ELSE Entered(f[n - 1], n)] BY <2>8, <2>9
  <2>11. Has(k) BY <2>10
  <2> QED BY <2>3, <2>11
<1>2. Has(MaxFrame)
  <2> HIDE DEF Has
  <2>1. MaxFrame \in 0..MaxFrame BY <1>0
  <2> QED BY <1>1, <2>1
<1> QED BY <1>2

\* which it is.
LEMMA BuiltIs ==
    /\ Built[0] = EmptyTables
    /\ \A n \in 1..MaxFrame : Built[n] = Entered(Built[n - 1], n)
<1>1. Built = CHOOSE g : g = [n \in 0..MaxFrame |-> IF n = 0 THEN EmptyTables ELSE Entered(g[n - 1], n)]
  BY DEF Built, EmptyTables
<1>2. Built = [n \in 0..MaxFrame |-> IF n = 0 THEN EmptyTables ELSE Entered(Built[n - 1], n)]
  BY <1>1, BuiltExists
<1>3. 0 \in 0..MaxFrame /\ \A n \in 1..MaxFrame : n \in 0..MaxFrame /\ n # 0 BY WalIndexAssumption
<1> QED BY <1>2, <1>3

\* The first n indices of a table are in use, and no others have a slot.
FilledUpTo(n, pg, slot) ==
    /\ slot \in [Slot -> Nat] /\ \A k \in Slot : slot[k] <= n
    /\ \A v \in 1..n : pg[v] \in Nat /\ HasSlot(pg, slot, v)

\* Index i, of page p, is entered in the first free slot.
Puts(i, p, pg, slot, pg2, slot2) ==
    /\ (\A v \in 1..(i - 1) : pg2[v] = pg[v]) /\ pg2[i] = p
    /\ slot2 = [slot EXCEPT ![FreeSlot(slot, p)] = i]

\* A frame is entered in the first free slot of a search for its page: it is
\* found there, and the frames before it where they were.
LEMMA EnterSlot ==
    ASSUME NEW i \in Nat \ {0}, i <= HASHTABLE_NSLOT, NEW pg, NEW slot, FilledUpTo(i - 1, pg, slot),
           NEW p \in Nat, NEW pg2, NEW slot2, Puts(i, p, pg, slot, pg2, slot2)
    PROVE  /\ FilledUpTo(i, pg2, slot2)
           /\ \A v \in 1..(i - 1), k \in Slot : slot2[k] = v <=> slot[k] = v
           /\ \A k \in Slot : slot2[k] = slot[k] \/ slot2[k] = i
<1>a. PICK n : n = i - 1 OBVIOUS
<1>b. n \in Nat /\ i = n + 1 /\ n < HASHTABLE_NSLOT BY <1>a, SlotCount
<1>0. /\ slot \in [Slot -> Nat] /\ \A k \in Slot : slot[k] <= n
      /\ \A v \in 1..n : pg[v] \in Nat /\ HasSlot(pg, slot, v)
  BY <1>a DEF FilledUpTo
<1>c. /\ (\A v \in 1..n : pg2[v] = pg[v]) /\ pg2[i] = p
      /\ slot2 = [slot EXCEPT ![FreeSlot(slot, p)] = i]
  BY <1>a DEF Puts
<1>1. \A k, k2 \in Slot : slot[k] = slot[k2] /\ slot[k] # 0 => k = k2
  <2> SUFFICES ASSUME NEW k \in Slot, NEW k2 \in Slot, slot[k] = slot[k2], slot[k] # 0 PROVE k = k2 OBVIOUS
  <2>1. slot[k] \in Nat /\ slot[k] <= n BY <1>0
  <2>2. PICK v : v = slot[k] OBVIOUS
  <2>3. v \in 1..n BY <2>1, <2>2
  <2>4. HasSlot(pg, slot, v) BY <1>0, <2>3
  <2> QED BY <2>2, <2>4 DEF HasSlot
<1>2. PICK j \in Slot : /\ FreeSlot(slot, p) = Probe(p, j) /\ slot[Probe(p, j)] = 0
                        /\ \A j2 \in 0..(j - 1) : slot[Probe(p, j2)] \in 1..n
  BY <1>b, <1>0, <1>1, FreeSlotIs, Zenon
<1>3. PICK e : e = Probe(p, j) OBVIOUS
<1>4. e \in Slot /\ slot[e] = 0 /\ slot2 = [slot EXCEPT ![e] = i] BY <1>c, <1>2, <1>3, ProbeSlots
<1>5. /\ slot2[e] = i /\ \A k \in Slot : k # e => slot2[k] = slot[k]
      /\ slot2 \in [Slot -> Nat]
  BY <1>0, <1>4
<1>6. \A k \in Slot : slot2[k] = slot[k] \/ slot2[k] = i BY <1>5
<1>7. ASSUME NEW v \in 1..n, NEW k \in Slot PROVE slot2[k] = v <=> slot[k] = v
  <2>1. v # i /\ v # 0 BY <1>b
  <2>2. CASE k = e BY <1>4, <1>5, <2>1, <2>2
  <2>3. CASE k # e BY <1>5, <2>3
  <2> QED BY <2>2, <2>3
<1>8. \A v \in 1..n : HasSlot(pg2, slot2, v)
  <2>1. SameSlots(n, pg, slot, pg2, slot2) BY <1>0, <1>c, <1>7 DEF SameSlots
  <2> QED BY <1>b, <2>1, SlotsStable
<1>9. HasSlot(pg2, slot2, i)
  <2>1. slot2[Probe(pg2[i], j)] = i BY <1>c, <1>3, <1>5
  <2>2. ASSUME NEW j2 \in 0..(j - 1) PROVE slot2[Probe(pg2[i], j2)] \in 1..(i - 1)
    <3>1. j2 \in Slot /\ j2 # j BY <1>2, SlotCount
    <3>2. Probe(p, j2) \in Slot /\ Probe(p, j2) # e BY <1>3, <3>1, ProbeSlots
    <3>3. slot2[Probe(p, j2)] = slot[Probe(p, j2)] BY <1>5, <3>2
    <3>4. slot[Probe(p, j2)] \in 1..n BY <1>2
    <3>5. i - 1 = n /\ pg2[i] = p BY <1>a, <1>c
    <3> QED BY <3>3, <3>4, <3>5
  <2>3. \A k \in Slot : slot2[k] = i => k = e
    <3> TAKE k \in Slot
    <3>1. slot[k] # i BY <1>0, <1>b
    <3> QED BY <1>5, <3>1
  <2> QED BY <2>1, <2>2, <2>3 DEF HasSlot
<1>10. \A v \in 1..i : HasSlot(pg2, slot2, v)
  <2>1. \A v \in 1..i : v \in 1..n \/ v = i BY <1>b
  <2> QED BY <1>8, <1>9, <2>1
<1>11. \A v \in 1..i : pg2[v] \in Nat BY <1>0, <1>b, <1>c
<1>12. \A k \in Slot : slot2[k] <= i
  <2> TAKE k \in Slot
  <2>1. slot[k] <= n /\ slot[k] \in Nat BY <1>0
  <2> QED BY <1>6, <1>b, <2>1
<1>13. FilledUpTo(i, pg2, slot2) BY <1>5, <1>10, <1>11, <1>12 DEF FilledUpTo
<1> QED BY <1>a, <1>6, <1>7, <1>13

\* A table has the first n frames of the log and nothing else.
Holds(n, h, pg, slot) ==
    /\ pg \in [1..TableSize(h) -> {0} \cup Pgno] /\ slot \in [Slot -> 0..TableSize(h)]
    /\ \A i \in 1..TableSize(h) :
          IF iZero(h) + i <= n THEN pg[i] = log[iZero(h) + i].pg /\ HasSlot(pg, slot, i) ELSE pg[i] = 0
    /\ \A k \in Slot : slot[k] # 0 => iZero(h) + slot[k] <= n

\* All tables have the first n frames of the log.
AllHold(n, t) ==
    /\ t = [h \in Tables |-> t[h]]
    /\ \A h \in Tables : t[h] = [pg |-> t[h].pg, slot |-> t[h].slot] /\ Holds(n, h, t[h].pg, t[h].slot)

\* So it is after the memset.
LEMMA EmptyHolds == AllHold(0, EmptyTables)
<1>1. ASSUME NEW h \in Tables PROVE Holds(0, h, EmptyPgno(h), EmptyHash)
  <2>1. TableSize(h) \in Nat \ {0} BY SlotCount
  <2>2. h \in Nat BY FrameInTables, WalIndexAssumption
  <2>3. \A i \in 1..TableSize(h) : iZero(h) + i \in Nat \ {0} BY <2>2, TableFrame
  <2>4. EmptyPgno(h) \in [1..TableSize(h) -> {0} \cup Pgno] /\ \A i \in 1..TableSize(h) : EmptyPgno(h)[i] = 0
    BY DEF EmptyPgno
  <2>5. EmptyHash \in [Slot -> 0..TableSize(h)] /\ \A k \in Slot : EmptyHash[k] = 0 BY <2>1 DEF EmptyHash, Slot
  <2>6. \A i \in 1..TableSize(h) : ~(iZero(h) + i <= 0) BY <2>3
  <2> QED BY <2>4, <2>5, <2>6 DEF Holds
<1> QED BY <1>1 DEF AllHold, EmptyTables

\* The page numbers of table h have been changed at index i alone.
SetsAt(h, i, pg, pg2) ==
    pg2 \in [1..TableSize(h) -> {0} \cup Pgno] /\ \A v \in 1..TableSize(h) : v # i => pg2[v] = pg[v]

\* The table of the frame that is entered.
LEMMA EnteredHere ==
    ASSUME LogInv, NEW n \in 1..Len(log), NEW h, h = walFramePage(n), NEW i, i = Index(n),
           NEW pg, NEW slot, Holds(n - 1, h, pg, slot),
           NEW pg2, NEW slot2, Puts(i, log[n].pg, pg, slot, pg2, slot2),
           SetsAt(h, i, pg, pg2)
    PROVE  Holds(n, h, pg2, slot2)
<1>0. n \in Nat \ {0} /\ Len(log) \in Nat BY DEF LogInv
<1>1. h \in Nat /\ iZero(h) \in Nat /\ i \in 1..TableSize(h) /\ n = iZero(h) + i BY <1>0, FrameTable
<1>2. TableSize(h) \in Nat /\ TableSize(h) < HASHTABLE_NSLOT /\ HASHTABLE_NSLOT \in Nat BY SlotCount
<1>3. PICK p : p = log[n].pg OBVIOUS
<1>4. p \in Pgno /\ p \in Nat
  <2>1. log[n] \in Frame BY <1>0 DEF LogInv
  <2> QED BY <1>3, <2>1, WalIndexAssumption DEF Frame, Pgno
<1>5. /\ pg \in [1..TableSize(h) -> {0} \cup Pgno] /\ slot \in [Slot -> 0..TableSize(h)]
      /\ \A v \in 1..TableSize(h) :
            IF iZero(h) + v <= n - 1 THEN pg[v] = log[iZero(h) + v].pg /\ HasSlot(pg, slot, v) ELSE pg[v] = 0
      /\ \A k \in Slot : slot[k] # 0 => iZero(h) + slot[k] <= n - 1
  BY DEF Holds
<1>6. PICK m : m = i - 1 OBVIOUS
<1>7. m \in Nat /\ i = m + 1 /\ i \in Nat \ {0} /\ i <= HASHTABLE_NSLOT
  <2>1. i \in Nat \ {0} BY <1>1, <1>2
  <2>2. i <= HASHTABLE_NSLOT BY <1>1, <1>2, <2>1
  <2>3. i = m + 1 BY <1>6, <2>1
  <2>4. m \in Nat BY <1>6, <2>1
  <2> QED BY <2>1, <2>2, <2>3, <2>4
<1>8. ASSUME NEW v \in 1..m PROVE v \in 1..TableSize(h) /\ iZero(h) + v <= n - 1
  <2>1. v \in Nat \ {0} /\ v < i BY <1>7
  <2>2. v < TableSize(h) BY <1>1, <1>2, <1>7, <2>1
  <2> QED BY <1>1, <1>2, <1>7, <2>1, <2>2
<1>9. FilledUpTo(m, pg, slot)
  <2>1. slot \in [Slot -> Nat] BY <1>2, <1>5
  <2>2. ASSUME NEW k \in Slot PROVE slot[k] <= m
    <3>1. slot[k] \in Nat /\ (slot[k] # 0 => iZero(h) + slot[k] <= n - 1) BY <1>5, <2>1
    <3>2. CASE slot[k] = 0 BY <1>7, <3>2
    <3>3. CASE slot[k] # 0 BY <1>1, <1>7, <3>1, <3>3
    <3> QED BY <3>2, <3>3
  <2>3. ASSUME NEW v \in 1..m PROVE pg[v] \in Nat /\ HasSlot(pg, slot, v)
    <3>1. v \in 1..TableSize(h) /\ iZero(h) + v <= n - 1 BY <1>8
    <3>2. HasSlot(pg, slot, v) BY <1>5, <3>1
    <3>3. pg[v] \in {0} \cup Pgno BY <1>5, <3>1
    <3> QED BY <3>2, <3>3, WalIndexAssumption DEF Pgno
  <2> QED BY <2>1, <2>2, <2>3 DEF FilledUpTo
<1>10. pg2 \in [1..TableSize(h) -> {0} \cup Pgno] /\ \A v \in 1..TableSize(h) : v # i => pg2[v] = pg[v]
  BY DEF SetsAt
<1>11. Puts(i, p, pg, slot, pg2, slot2) BY <1>3
<1>12. slot2 = [slot EXCEPT ![FreeSlot(slot, p)] = i] /\ pg2[i] = p BY <1>11 DEF Puts
<1>13. /\ FilledUpTo(i, pg2, slot2)
       /\ \A k \in Slot : slot2[k] = slot[k] \/ slot2[k] = i
  BY <1>4, <1>6, <1>7, <1>9, <1>11, EnterSlot
<1>14. slot2 \in [Slot -> 0..TableSize(h)]
  <2>1. i \in 0..TableSize(h) BY <1>1, <1>2
  <2> QED BY <1>5, <1>12, <2>1
<1>15. ASSUME NEW v \in 1..TableSize(h), iZero(h) + v <= n PROVE pg2[v] = log[iZero(h) + v].pg /\ HasSlot(pg2, slot2, v)
  <2>1. v \in 1..i BY <1>1, <1>2, <1>15
  <2>2. HasSlot(pg2, slot2, v) BY <1>13, <2>1 DEF FilledUpTo
  <2>3. CASE v = i BY <1>1, <1>3, <1>12, <2>2, <2>3
  <2>4. CASE v # i
    <3>1. iZero(h) + v <= n - 1 BY <1>1, <1>2, <1>15, <2>4
    <3> QED BY <1>5, <1>10, <2>2, <2>4, <3>1
  <2> QED BY <2>3, <2>4
<1>16. ASSUME NEW v \in 1..TableSize(h), ~(iZero(h) + v <= n) PROVE pg2[v] = 0
  <2>1. v # i /\ ~(iZero(h) + v <= n - 1) BY <1>0, <1>1, <1>2, <1>16
  <2> QED BY <1>5, <1>10, <2>1
<1>17. ASSUME NEW k \in Slot, slot2[k] # 0 PROVE iZero(h) + slot2[k] <= n
  <2>1. CASE slot2[k] = i BY <1>0, <1>1, <1>7, <2>1
  <2>2. CASE slot2[k] = slot[k]
    <3>1. slot[k] \in Nat /\ iZero(h) + slot[k] <= n - 1 BY <1>2, <1>5, <1>17, <2>2
    <3> QED BY <1>0, <1>1, <2>2, <3>1
  <2> QED BY <1>13, <2>1, <2>2
<1> QED BY <1>10, <1>14, <1>15, <1>16, <1>17 DEF Holds

\* The tables of other frames stay as they are.
LEMMA EnteredElsewhere ==
    ASSUME NEW n \in Nat \ {0}, NEW h \in Nat, h # walFramePage(n), NEW pg, NEW slot, Holds(n - 1, h, pg, slot)
    PROVE  Holds(n, h, pg, slot)
<1>1. TableSize(h) \in Nat BY SlotCount
<1>2. ASSUME NEW i \in 1..TableSize(h) PROVE iZero(h) + i <= n - 1 <=> iZero(h) + i <= n
  <2>1. iZero(h) + i \in Nat \ {0} /\ walFramePage(iZero(h) + i) = h BY TableFrame
  <2>2. iZero(h) + i # n BY <2>1
  <2> QED BY <2>1, <2>2
<1>3. /\ pg \in [1..TableSize(h) -> {0} \cup Pgno] /\ slot \in [Slot -> 0..TableSize(h)]
      /\ \A v \in 1..TableSize(h) :
            IF iZero(h) + v <= n - 1 THEN pg[v] = log[iZero(h) + v].pg /\ HasSlot(pg, slot, v) ELSE pg[v] = 0
      /\ \A k \in Slot : slot[k] # 0 => iZero(h) + slot[k] <= n - 1
  BY DEF Holds
<1>4. ASSUME NEW k \in Slot, slot[k] # 0 PROVE iZero(h) + slot[k] <= n
  <2>1. slot[k] \in 1..TableSize(h) BY <1>1, <1>3, <1>4
  <2> QED BY <1>2, <1>3, <1>4, <2>1
<1> QED BY <1>2, <1>3, <1>4 DEF Holds

\* A frame more.
LEMMA EnteredHolds ==
    ASSUME LogInv, NEW n \in 1..Len(log), NEW t, AllHold(n - 1, t)
    PROVE  AllHold(n, Entered(t, n))
<1>0. n \in Nat \ {0} /\ Len(log) \in Nat /\ n \in 1..MaxFrame BY WalIndexAssumption DEF LogInv
<1>1. PICK h, i : h = walFramePage(n) /\ i = Index(n) OBVIOUS
<1>2. h \in Tables /\ Tables \subseteq Nat BY <1>0, <1>1, FrameInTables
<1>3. PICK pg, slot, p : pg = t[h].pg /\ slot = t[h].slot /\ p = log[n].pg OBVIOUS
<1>4. PICK pg2, slot2 : pg2 = [pg EXCEPT ![i] = p] /\ slot2 = [slot EXCEPT ![FreeSlot(slot, p)] = i] OBVIOUS
<1>5. PICK u : u = Entered(t, n) OBVIOUS
<1>6. u = [t EXCEPT ![h] = [pg |-> pg2, slot |-> slot2]] BY <1>1, <1>3, <1>4, <1>5, Zenon DEF Entered, Index
<1>7. t = [g \in Tables |-> t[g]] BY DEF AllHold
<1>8. u = [g \in Tables |-> u[g]] /\ u[h] = [pg |-> pg2, slot |-> slot2] /\ \A g \in Tables : g # h => u[g] = t[g]
  BY <1>2, <1>6, <1>7
<1>9. Holds(n - 1, h, pg, slot) BY <1>2, <1>3 DEF AllHold
<1>10. SetsAt(h, i, pg, pg2)
  <2>1. pg \in [1..TableSize(h) -> {0} \cup Pgno] BY <1>9 DEF Holds
  <2>2. p \in Pgno
    <3>1. log[n] \in Frame BY <1>0 DEF LogInv
    <3> QED BY <1>3, <3>1 DEF Frame
  <2> QED BY <1>4, <2>1, <2>2 DEF SetsAt
<1>11. Puts(i, p, pg, slot, pg2, slot2)
  <2>1. i \in 1..TableSize(h) BY <1>0, <1>1, FrameTable
  <2>2. pg \in [1..TableSize(h) -> {0} \cup Pgno] BY <1>9 DEF Holds
  <2>3. pg2[i] = p /\ \A v : v \in 1..TableSize(h) /\ v # i => pg2[v] = pg[v] BY <1>4, <2>1, <2>2
  <2>4. TableSize(h) \in Nat BY SlotCount
  <2>5. \A v \in 1..(i - 1) : v \in 1..TableSize(h) /\ v # i
    <3>1. i \in Nat /\ i <= TableSize(h) BY <2>1, <2>4
    <3> QED BY <2>4, <3>1
  <2> QED BY <1>4, <2>3, <2>5 DEF Puts
<1>12. Holds(n, h, pg2, slot2) BY <1>1, <1>3, <1>9, <1>10, <1>11, EnteredHere
<1>13. ASSUME NEW g \in Tables PROVE u[g] = [pg |-> u[g].pg, slot |-> u[g].slot] /\ Holds(n, g, u[g].pg, u[g].slot)
  <2>1. CASE g = h BY <1>8, <1>12, <2>1
  <2>2. CASE g # h
    <3>1. u[g] = t[g] BY <1>8, <2>2
    <3>2. t[g] = [pg |-> t[g].pg, slot |-> t[g].slot] /\ Holds(n - 1, g, t[g].pg, t[g].slot) BY DEF AllHold
    <3>3. PICK x, y : x = t[g].pg /\ y = t[g].slot OBVIOUS
    <3>4. Holds(n, g, x, y) BY <1>0, <1>1, <1>2, <2>2, <3>2, <3>3, EnteredElsewhere
    <3> QED BY <3>1, <3>2, <3>3, <3>4
  <2> QED BY <2>1, <2>2
<1>14. AllHold(n, u) BY <1>8, <1>13 DEF AllHold
<1> QED BY <1>5, <1>14

\* The tables that a recovery builds from the first n frames have these.
LEMMA BuiltHolds ==
    ASSUME LogInv
    PROVE  \A n \in 0..Len(log) : AllHold(n, Built[n])
<1> DEFINE S == {n \in 0..Len(log) : ~AllHold(n, Built[n])}
<1>0. Len(log) \in Nat /\ Len(log) <= MaxFrame /\ MaxFrame \in Nat BY WalIndexAssumption DEF LogInv
<1>1. S = {}
  <2> SUFFICES ASSUME S # {} PROVE FALSE OBVIOUS
  <2>1. S \in SUBSET Nat OBVIOUS
  <2>2. PICK n \in S : \A m \in S : n <= m
    <3> HIDE DEF S
    <3> QED BY <2>1, LowestIs
  <2>3. n \in 0..Len(log) /\ ~AllHold(n, Built[n]) BY <2>2
  <2>4. n # 0 BY <2>3, BuiltIs, EmptyHolds
  <2>5. n \in 1..Len(log) /\ n \in 1..MaxFrame /\ n - 1 \in 0..Len(log) /\ ~(n <= n - 1) BY <1>0, <2>3, <2>4
  <2>6. AllHold(n - 1, Built[n - 1])
    <3>1. n - 1 \notin S
      <4> HIDE DEF S
      <4> QED BY <2>2, <2>5
    <3> QED BY <2>5, <3>1
  <2>7. AllHold(n, Entered(Built[n - 1], n)) BY <2>5, <2>6, EnteredHolds
  <2>8. Built[n] = Entered(Built[n - 1], n) BY <2>5, BuiltIs
  <2> QED BY <2>3, <2>7, <2>8
<1> QED BY <1>1

(***************************************************************************)
(* Steps that change a table                                               *)
(***************************************************************************)
\* A step gives table h these page numbers and slots, and leaves the others.
OneTable(h, pg, slot) ==
    /\ h \in Tables /\ pg \in [1..TableSize(h) -> {0} \cup Pgno] /\ slot \in [Slot -> 0..TableSize(h)]
    /\ aPgno' = [g \in Tables |-> IF g = h THEN pg ELSE aPgno[g]]
    /\ aHash' = [g \in Tables |-> IF g = h THEN slot ELSE aHash[g]]

\* What it leaves.
LEMMA OneTableIs ==
    ASSUME TablesType, NEW h, NEW pg, NEW slot, OneTable(h, pg, slot)
    PROVE  /\ TablesType' /\ aPgno'[h] = pg /\ aHash'[h] = slot
           /\ \A g \in Tables : g # h => aPgno'[g] = aPgno[g] /\ aHash'[g] = aHash[g]
<1>1. /\ h \in Tables /\ pg \in [1..TableSize(h) -> {0} \cup Pgno] /\ slot \in [Slot -> 0..TableSize(h)]
      /\ aPgno' = [g \in Tables |-> IF g = h THEN pg ELSE aPgno[g]]
      /\ aHash' = [g \in Tables |-> IF g = h THEN slot ELSE aHash[g]]
  BY DEF OneTable
<1>2. aPgno'[h] = pg /\ aHash'[h] = slot /\ \A g \in Tables : g # h => aPgno'[g] = aPgno[g] /\ aHash'[g] = aHash[g]
  BY <1>1
<1>3. aPgno' = [g \in Tables |-> aPgno'[g]] /\ aHash' = [g \in Tables |-> aHash'[g]] BY <1>1
<1>4. ASSUME NEW g \in Tables
      PROVE  aPgno'[g] \in [1..TableSize(g) -> {0} \cup Pgno] /\ aHash'[g] \in [Slot -> 0..TableSize(g)]
  <2>1. CASE g = h BY <1>1, <1>2, <2>1
  <2>2. CASE g # h BY <1>2, <2>2 DEF TablesType
  <2> QED BY <2>1, <2>2
<1> QED BY <1>2, <1>3, <1>4 DEF TablesType

\* The frame that walIndexAppend is about.
LEMMA AppendingIs ==
    ASSUME HeadersInv, IsAppending
    PROVE  /\ w.iFrame \in 1..Len(log) /\ Len(log) \in Nat /\ Len(log) <= MaxFrame /\ w.iFrame \in Nat \ {0}
           /\ w.hdr.mxFrame \in Nat /\ w.hdr.mxFrame < w.iFrame
           /\ iHashNow \in Tables /\ iHashNow \in Nat /\ iZero(iHashNow) \in Nat
           /\ idx = Index(w.iFrame) /\ idx \in 1..TableSize(iHashNow) /\ idx \in Nat \ {0}
           /\ w.iFrame = iZero(iHashNow) + idx
           /\ Head(w.list) = log[w.iFrame].pg /\ Head(w.list) \in Pgno /\ Head(w.list) \in Nat
<1>1. InTransaction BY DEF IsAppending, InTransaction
<1>2. WriterType /\ AppendInv /\ w.hdr.mxFrame \in Nat /\ Len(log) \in Nat BY <1>1, InTransactionIs
<1>3. w.iFrame \in Nat /\ w.list \in Seq(Pgno) /\ w.list # <<>> BY <1>2, WriterTypeIs DEF AppendInv
<1>4. Len(w.list) \in Nat /\ Len(w.list) >= 1 /\ Head(w.list) = w.list[1] /\ w.list[1] \in Pgno BY <1>3
<1>5. w.iFrame + Len(w.list) = Len(log) + 1 /\ w.hdr.mxFrame < w.iFrame BY <1>2 DEF AppendInv
<1>6. w.iFrame \in 1..Len(log) /\ w.iFrame \in Nat \ {0} BY <1>2, <1>3, <1>4, <1>5
<1>7. Len(log) <= MaxFrame /\ MaxFrame \in Nat BY WalIndexAssumption DEF HeadersInv, LogInv
<1>8. log[w.iFrame].pg = w.list[1]
  <2>1. 1 \in 1..Len(w.list) /\ w.iFrame + 1 - 1 = w.iFrame BY <1>4, <1>6
  <2>2. log[w.iFrame + 1 - 1].pg = w.list[1] BY <1>2, <2>1 DEF AppendInv
  <2> QED BY <2>1, <2>2
<1>9. PICK f : f = w.iFrame OBVIOUS
<1>10. f \in 1..MaxFrame /\ f \in Nat \ {0} BY <1>2, <1>6, <1>7, <1>9
<1>11. walFramePage(f) \in Tables /\ walFramePage(f) \in Nat BY <1>10, FrameInTables, FrameTable
<1>12. /\ iZero(walFramePage(f)) \in Nat /\ Index(f) \in 1..TableSize(walFramePage(f))
       /\ f = iZero(walFramePage(f)) + Index(f)
  BY <1>10, FrameTable
<1>13. Index(f) \in Nat \ {0}
  <2>1. TableSize(walFramePage(f)) \in Nat BY SlotCount
  <2> QED BY <1>12, <2>1
<1>14. iHashNow = walFramePage(f) /\ idx = Index(f) BY <1>9 DEF iHashNow, idx, Index
<1>15. w.list[1] \in Nat BY <1>4, WalIndexAssumption DEF Pgno
<1> QED BY <1>2, <1>4, <1>5, <1>6, <1>7, <1>8, <1>9, <1>11, <1>12, <1>13, <1>14, <1>15

\* The table that a frame is the first of.
LEMMA AppendZeroIs ==
    ASSUME HeadersInv, TablesType, AppendZero
    PROVE  OneTable(iHashNow, EmptyPgno(iHashNow), EmptyHash)
<1>1. PICK h : h = iHashNow OBVIOUS
<1>2. IsAppending BY DEF AppendZero, IsAppending
<1>3. h \in Tables BY <1>1, <1>2, AppendingIs
<1>4. EmptyPgno(h) \in [1..TableSize(h) -> {0} \cup Pgno] BY DEF EmptyPgno
<1>5. EmptyHash \in [Slot -> 0..TableSize(h)]
  <2>1. 0 \in 0..TableSize(h) BY SlotCount
  <2> QED BY <2>1 DEF EmptyHash, Slot
<1>6. aPgno' = [aPgno EXCEPT ![h] = EmptyPgno(h)] /\ aHash' = [aHash EXCEPT ![h] = EmptyHash]
  BY <1>1 DEF AppendZero, SlotsZeroed
<1>7. aPgno = [g \in Tables |-> aPgno[g]] /\ aHash = [g \in Tables |-> aHash[g]] BY DEF TablesType
<1>8. aPgno' = [g \in Tables |-> IF g = h THEN EmptyPgno(h) ELSE aPgno[g]] BY <1>6, <1>7
<1>9. aHash' = [g \in Tables |-> IF g = h THEN EmptyHash ELSE aHash[g]] BY <1>6, <1>7
<1>10. OneTable(h, EmptyPgno(h), EmptyHash) BY <1>3, <1>4, <1>5, <1>8, <1>9 DEF OneTable
<1> QED BY <1>1, <1>10

\* One page number.
LEMMA SetPgnoIs ==
    ASSUME TablesType, NEW h \in Tables, NEW i, NEW p \in {0} \cup Pgno, SetPgno(h, i, p), UNCHANGED aHash,
           NEW pg, pg = [aPgno[h] EXCEPT ![i] = p]
    PROVE  OneTable(h, pg, aHash[h])
<1>1. aPgno = [g \in Tables |-> aPgno[g]] /\ aHash = [g \in Tables |-> aHash[g]] BY DEF TablesType
<1>2. aPgno[h] \in [1..TableSize(h) -> {0} \cup Pgno] /\ aHash[h] \in [Slot -> 0..TableSize(h)] BY DEF TablesType
<1>3. pg \in [1..TableSize(h) -> {0} \cup Pgno] BY <1>2
<1>4. aPgno' = [aPgno EXCEPT ![h] = pg] BY DEF SetPgno
<1>5. aPgno' = [g \in Tables |-> IF g = h THEN pg ELSE aPgno[g]] BY <1>1, <1>4
<1>6. aHash' = [g \in Tables |-> IF g = h THEN aHash[h] ELSE aHash[g]] BY <1>1
<1> QED BY <1>2, <1>3, <1>5, <1>6 DEF OneTable

\* One slot.
LEMMA SetSlotIs ==
    ASSUME TablesType, NEW h \in Tables, NEW k, NEW v \in 0..TableSize(h), SetSlot(h, k, v), UNCHANGED aPgno,
           NEW slot, slot = [aHash[h] EXCEPT ![k] = v]
    PROVE  OneTable(h, aPgno[h], slot)
<1>1. aPgno = [g \in Tables |-> aPgno[g]] /\ aHash = [g \in Tables |-> aHash[g]] BY DEF TablesType
<1>2. aPgno[h] \in [1..TableSize(h) -> {0} \cup Pgno] /\ aHash[h] \in [Slot -> 0..TableSize(h)] BY DEF TablesType
<1>3. slot \in [Slot -> 0..TableSize(h)] BY <1>2
<1>4. aHash' = [aHash EXCEPT ![h] = slot] BY DEF SetSlot
<1>5. aHash' = [g \in Tables |-> IF g = h THEN slot ELSE aHash[g]] BY <1>1, <1>4
<1>6. aPgno' = [g \in Tables |-> IF g = h THEN aPgno[h] ELSE aPgno[g]] BY <1>1
<1> QED BY <1>2, <1>3, <1>5, <1>6 DEF OneTable

\* The page number of a frame.
LEMMA AppendPgnoIs ==
    ASSUME HeadersInv, TablesType, AppendPgno
    PROVE  \E pg : /\ OneTable(iHashNow, pg, aHash[iHashNow]) /\ SetsAt(iHashNow, idx, aPgno[iHashNow], pg)
                   /\ pg[idx] = Head(w.list)
<1>1. PICK h, i, p : h = iHashNow /\ i = idx /\ p = Head(w.list) OBVIOUS
<1>2. IsAppending BY DEF AppendPgno, IsAppending
<1>3. h \in Tables /\ p \in Pgno /\ i \in 1..TableSize(h) BY <1>1, <1>2, AppendingIs
<1>4. SetPgno(h, i, p) /\ UNCHANGED aHash BY <1>1 DEF AppendPgno
<1>5. PICK pg : pg = [aPgno[h] EXCEPT ![i] = p] OBVIOUS
<1>6. OneTable(h, pg, aHash[h]) BY <1>3, <1>4, <1>5, SetPgnoIs
<1>7. aPgno[h] \in [1..TableSize(h) -> {0} \cup Pgno] BY <1>3 DEF TablesType
<1>8. SetsAt(h, i, aPgno[h], pg) /\ pg[i] = p BY <1>3, <1>5, <1>7 DEF SetsAt
<1> QED BY <1>1, <1>6, <1>8

\* Its slot.
LEMMA AppendSlotIs ==
    ASSUME HeadersInv, TablesType, AppendSlot
    PROVE  \E slot : /\ OneTable(iHashNow, aPgno[iHashNow], slot)
                     /\ slot = [aHash[iHashNow] EXCEPT ![FreeSlot(aHash[iHashNow], Head(w.list))] = idx]
<1>1. PICK h, i, k : h = iHashNow /\ i = idx /\ k = FreeSlot(aHash[iHashNow], Head(w.list)) OBVIOUS
<1>2. IsAppending BY DEF AppendSlot, IsAppending
<1>3. h \in Tables /\ i \in 1..TableSize(h) BY <1>1, <1>2, AppendingIs
<1>4. SetSlot(h, k, i) /\ UNCHANGED aPgno BY <1>1 DEF AppendSlot
<1>5. PICK slot : slot = [aHash[h] EXCEPT ![k] = i] OBVIOUS
<1>6. i \in 0..TableSize(h)
  <2>1. TableSize(h) \in Nat BY SlotCount
  <2> QED BY <1>3, <2>1
<1>7. OneTable(h, aPgno[h], slot) BY <1>3, <1>4, <1>5, <1>6, SetSlotIs
<1> QED BY <1>1, <1>5, <1>7

\* walCleanupHash zeroes slots above the limit, or page numbers when there are
\* none of these.
LEMMA CleanupHashIs ==
    ASSUME HeadersInv, TablesType, CleanupHash,
           NEW h, h = walFramePage(w.hdr.mxFrame), NEW lim, lim = Index(w.hdr.mxFrame)
    PROVE  /\ h \in Tables /\ lim \in 1..TableSize(h) /\ lim \in Nat
           /\ \E pg, slot :
                 /\ OneTable(h, pg, slot)
                 /\ \/ /\ pg = aPgno[h] /\ w' = w
                       /\ \E k \in Slot : aHash[h][k] > lim /\ slot = [aHash[h] EXCEPT ![k] = 0]
                    \/ /\ slot = aHash[h] /\ \A k \in Slot : ~(slot[k] > lim)
                       /\ \A i \in 1..TableSize(h) : pg[i] = aPgno[h][i] \/ (i > lim /\ pg[i] = 0)
                       /\ ~KillInMemset => /\ \A i \in 1..TableSize(h) : i > lim => pg[i] = 0
                                           /\ w' = IF w.ret = "idle" THEN NoWriter
                                                   ELSE [w EXCEPT !.pc = w.ret, !.ret = "idle"]
<1>1. w.pc = "cleanup" BY DEF CleanupHash
<1>2. InTransaction BY <1>1 DEF InTransaction
<1>3. w.hdr.mxFrame \in 0..MaxFrame /\ w.hdr.mxFrame # 0 BY <1>1, <1>2, InTransactionIs
<1>4. w.hdr.mxFrame \in 1..MaxFrame /\ w.hdr.mxFrame \in Nat \ {0} BY <1>3, WalIndexAssumption
<1>5. h \in Tables /\ lim \in 1..TableSize(h) BY <1>4, FrameInTables, FrameTable
<1>6. TableSize(h) \in Nat /\ Slot \subseteq Nat BY SlotCount
<1>7. lim \in Nat BY <1>5, <1>6
<1>8. lim = CleanupLimit(h) BY DEF CleanupLimit, Index
<1>9. aPgno[h] \in [1..TableSize(h) -> {0} \cup Pgno] /\ aHash[h] \in [Slot -> 0..TableSize(h)] BY <1>5 DEF TablesType
<1>10. DOMAIN aHash[h] = Slot /\ DOMAIN aPgno[h] = 1..TableSize(h) BY <1>9
<1>11. PICK above : above = {k \in Slot : aHash[h][k] > lim} OBVIOUS
<1>12. PICK tail : tail = {i \in (lim + 1)..TableSize(h) : aPgno[h][i] # 0} OBVIOUS
<1>13. PICK zeroed : zeroed = IF KillInMemset /\ tail # {} THEN {Lowest(tail)} ELSE tail OBVIOUS
<1>14. \/ above # {} /\ SetSlot(h, Lowest(above), 0) /\ UNCHANGED <<aPgno, w>>
       \/ /\ above = {} /\ UNCHANGED aHash
          /\ aPgno' = [aPgno EXCEPT ![h] = [i \in DOMAIN aPgno[h] |-> IF i \in zeroed THEN 0 ELSE aPgno[h][i]]]
          /\ w' = IF zeroed # tail THEN w
                  ELSE IF w.ret = "idle" THEN NoWriter
                  ELSE [w EXCEPT !.pc = w.ret, !.ret = "idle"]
  BY <1>8, <1>10, <1>11, <1>12, <1>13, Zenon DEF CleanupHash
<1>15. CASE above # {} /\ SetSlot(h, Lowest(above), 0) /\ UNCHANGED <<aPgno, w>>
  <2>1. above \in SUBSET Nat BY <1>6, <1>11
  <2>2. PICK k : k = Lowest(above) OBVIOUS
  <2>3. k \in Slot /\ aHash[h][k] > lim
    <3>1. k \in above BY <1>15, <2>1, <2>2, LowestIs
    <3> QED BY <1>11, <3>1
  <2>4. PICK slot : slot = [aHash[h] EXCEPT ![k] = 0] OBVIOUS
  <2>5. 0 \in 0..TableSize(h) BY <1>6
  <2>6. OneTable(h, aPgno[h], slot) BY <1>5, <1>15, <2>2, <2>4, <2>5, SetSlotIs
  <2> QED BY <1>5, <1>7, <1>15, <2>3, <2>4, <2>6
<1>16. CASE /\ above = {} /\ UNCHANGED aHash
            /\ aPgno' = [aPgno EXCEPT ![h] = [i \in DOMAIN aPgno[h] |-> IF i \in zeroed THEN 0 ELSE aPgno[h][i]]]
            /\ w' = IF zeroed # tail THEN w
                    ELSE IF w.ret = "idle" THEN NoWriter
                    ELSE [w EXCEPT !.pc = w.ret, !.ret = "idle"]
  <2>1. PICK pg : pg = [i \in 1..TableSize(h) |-> IF i \in zeroed THEN 0 ELSE aPgno[h][i]] OBVIOUS
  <2>2. aPgno' = [aPgno EXCEPT ![h] = pg] BY <1>10, <1>16, <2>1
  <2>3. aPgno = [g \in Tables |-> aPgno[g]] /\ aHash = [g \in Tables |-> aHash[g]] BY DEF TablesType
  <2>4. aPgno' = [g \in Tables |-> IF g = h THEN pg ELSE aPgno[g]] BY <2>2, <2>3
  <2>5. aHash' = [g \in Tables |-> IF g = h THEN aHash[h] ELSE aHash[g]] BY <1>16, <2>3
  <2>6. pg \in [1..TableSize(h) -> {0} \cup Pgno] BY <1>9, <2>1
  <2>7. OneTable(h, pg, aHash[h]) BY <1>5, <1>9, <2>4, <2>5, <2>6 DEF OneTable
  <2>8. \A i \in zeroed : i > lim
    <3>1. tail \in SUBSET Nat BY <1>6, <1>7, <1>12
    <3>2. tail # {} => Lowest(tail) \in tail BY <3>1, LowestIs
    <3>3. zeroed \subseteq tail BY <1>13, <3>2
    <3> QED BY <1>7, <1>12, <3>3
  <2>9. \A i \in 1..TableSize(h) : pg[i] = aPgno[h][i] \/ (i > lim /\ pg[i] = 0) BY <2>1, <2>8
  <2>10. \A k \in Slot : ~(aHash[h][k] > lim) BY <1>11, <1>16
  <2>11. ASSUME ~KillInMemset
         PROVE  /\ \A i \in 1..TableSize(h) : i > lim => pg[i] = 0
                /\ w' = IF w.ret = "idle" THEN NoWriter ELSE [w EXCEPT !.pc = w.ret, !.ret = "idle"]
    <3>1. zeroed = tail BY <1>13, <2>11
    <3>2. w' = IF w.ret = "idle" THEN NoWriter ELSE [w EXCEPT !.pc = w.ret, !.ret = "idle"] BY <1>16, <3>1
    <3>3. ASSUME NEW i \in 1..TableSize(h), i > lim PROVE pg[i] = 0
      <4>1. i \in (lim + 1)..TableSize(h) BY <1>6, <1>7, <3>3
      <4> QED BY <1>12, <2>1, <3>1, <4>1
    <3> QED BY <3>2, <3>3
  <2> QED BY <1>5, <1>7, <2>7, <2>9, <2>10, <2>11
<1> QED BY <1>14, <1>15, <1>16

\* The tables that a recovery builds.
LEMMA RebuiltHolds ==
    ASSUME LogInv
    PROVE  AllHold(Len(Valid), Rebuilt) /\ Len(Valid) \in Nat /\ Len(Valid) <= Len(log)
<1>1. PICK v : v = Len(Valid) OBVIOUS
<1>2. v \in 0..Len(log)
  <2>1. Len(log) \in Nat BY DEF LogInv
  <2> QED BY <1>1, <2>1, ValidIs
<1>3. AllHold(v, Built[v]) BY <1>2, BuiltHolds
<1>4. Rebuilt = Built[v] BY <1>1 DEF Rebuilt
<1> QED BY <1>1, <1>3, <1>4, ValidIs

\* A recovery copies a page number or a slot, and writes the header once all
\* are copied.
LEMMA RecoverIs ==
    ASSUME HeadersInv, TablesType, Recover
    PROVE  \/ \E h, pg, slot :
                 /\ OneTable(h, pg, slot) /\ w' = w /\ h <= walFramePage(Len(Valid) + 1)
                 /\ \A i \in 1..TableSize(h) : pg[i] \in {aPgno[h][i], Rebuilt[h].pg[i]}
                 /\ \A k \in Slot : slot[k] \in {aHash[h][k], Rebuilt[h].slot[k]}
           \/ /\ UNCHANGED <<aPgno, aHash>> /\ IsStoring'
              /\ w'.hdr.mxFrame \in Nat /\ w'.hdr.mxFrame <= Len(Valid)
              /\ \A h \in Tables : h <= walFramePage(Len(Valid) + 1) =>
                    aPgno[h] = Rebuilt[h].pg /\ aHash[h] = Rebuilt[h].slot
<1>1. LogInv BY DEF HeadersInv
<1>2. PICK re : re = Rebuilt OBVIOUS
<1>3. PICK v : v = Len(Valid) OBVIOUS
<1>4. PICK to : to = {h \in Tables : h <= walFramePage(Len(Valid) + 1)} OBVIOUS
<1>5. PICK diff : diff = {h \in to : aPgno[h] # re[h].pg \/ aHash[h] # re[h].slot} OBVIOUS
<1>6. PICK mx : mx = Highest({0} \cup {i \in 1..Len(Valid) : log[i].nTruncate # 0}) OBVIOUS
<1>7. PICK h : h = Lowest(diff) OBVIOUS
<1>8. \/ /\ diff # {} /\ UNCHANGED w
         /\ \/ \E i \in DOMAIN aPgno[h] : SetPgno(h, i, re[h].pg[i]) /\ UNCHANGED aHash
            \/ \E k \in DOMAIN aHash[h] : SetSlot(h, k, re[h].slot[k]) /\ UNCHANGED aPgno
      \/ /\ diff = {} /\ UNCHANGED <<aPgno, aHash>>
         /\ w' = WriteHdr(Hdr(mx, IF mx = 0 THEN 0 ELSE log[mx].nTruncate, logSalt), "recover")
  BY <1>2, <1>4, <1>5, <1>6, <1>7, Zenon DEF Recover
<1>9. CASE diff # {} /\ UNCHANGED w
  <2>1. diff \in SUBSET Nat /\ diff \subseteq Tables BY <1>4, <1>5, FrameInTables, WalIndexAssumption
  <2>2. h \in diff BY <1>7, <1>9, <2>1, LowestIs
  <2>3. h \in Tables /\ h <= walFramePage(Len(Valid) + 1) BY <1>4, <1>5, <2>2
  <2>4. aPgno[h] \in [1..TableSize(h) -> {0} \cup Pgno] /\ aHash[h] \in [Slot -> 0..TableSize(h)] BY <2>3 DEF TablesType
  <2>5. re[h].pg \in [1..TableSize(h) -> {0} \cup Pgno] /\ re[h].slot \in [Slot -> 0..TableSize(h)]
    <3>1. AllHold(Len(Valid), re) BY <1>1, <1>2, RebuiltHolds
    <3> QED BY <2>3, <3>1 DEF AllHold, Holds
  <2>6. ASSUME NEW i \in DOMAIN aPgno[h], SetPgno(h, i, re[h].pg[i]), UNCHANGED aHash
        PROVE  \E pg, slot : /\ OneTable(h, pg, slot)
                             /\ \A e \in 1..TableSize(h) : pg[e] \in {aPgno[h][e], re[h].pg[e]}
                             /\ \A k \in Slot : slot[k] \in {aHash[h][k], re[h].slot[k]}
    <3>1. PICK p, pg : p = re[h].pg[i] /\ pg = [aPgno[h] EXCEPT ![i] = p] OBVIOUS
    <3>2. i \in 1..TableSize(h) /\ p \in {0} \cup Pgno BY <2>4, <2>5, <2>6, <3>1
    <3>3. OneTable(h, pg, aHash[h]) BY <2>3, <2>6, <3>1, <3>2, SetPgnoIs
    <3>4. \A e \in 1..TableSize(h) : pg[e] \in {aPgno[h][e], re[h].pg[e]} BY <2>4, <3>1, <3>2
    <3> QED BY <3>3, <3>4
  <2>7. ASSUME NEW k \in DOMAIN aHash[h], SetSlot(h, k, re[h].slot[k]), UNCHANGED aPgno
        PROVE  \E pg, slot : /\ OneTable(h, pg, slot)
                             /\ \A e \in 1..TableSize(h) : pg[e] \in {aPgno[h][e], re[h].pg[e]}
                             /\ \A e \in Slot : slot[e] \in {aHash[h][e], re[h].slot[e]}
    <3>1. PICK x, slot : x = re[h].slot[k] /\ slot = [aHash[h] EXCEPT ![k] = x] OBVIOUS
    <3>2. k \in Slot /\ x \in 0..TableSize(h) BY <2>4, <2>5, <2>7, <3>1
    <3>3. OneTable(h, aPgno[h], slot) BY <2>3, <2>7, <3>1, <3>2, SetSlotIs
    <3>4. \A e \in Slot : slot[e] \in {aHash[h][e], re[h].slot[e]} BY <2>4, <3>1, <3>2
    <3> QED BY <3>3, <3>4
  <2> QED BY <1>2, <1>8, <1>9, <2>3, <2>6, <2>7
<1>10. CASE /\ diff = {} /\ UNCHANGED <<aPgno, aHash>>
            /\ w' = WriteHdr(Hdr(mx, IF mx = 0 THEN 0 ELSE log[mx].nTruncate, logSalt), "recover")
  <2>1. \A g \in Tables : g <= walFramePage(Len(Valid) + 1) => aPgno[g] = Rebuilt[g].pg /\ aHash[g] = Rebuilt[g].slot
    BY <1>2, <1>4, <1>5, <1>10
  <2>2. PICK hdr : hdr = Hdr(mx, IF mx = 0 THEN 0 ELSE log[mx].nTruncate, logSalt) OBVIOUS
  <2>3. w' = [pc |-> "hdr1", ret |-> "recover", hdr |-> hdr, iFrame |-> 0, list |-> <<>>,
              nTruncate |-> 0, todo |-> Words, save |-> w.save]
    BY <1>10, <2>2, WriterIs
  <2>4. w'.pc = "hdr1" /\ w'.hdr = hdr BY <2>3
  <2>5. hdr.mxFrame = mx BY <2>2 DEF Hdr
  <2>6. mx \in Nat /\ mx <= Len(Valid) BY <1>1, <1>6, RecoveredIs
  <2> QED BY <1>10, <2>1, <2>4, <2>5, <2>6 DEF IsStoring
<1> QED BY <1>8, <1>9, <1>10

\* The other steps leave the tables alone.
LEMMA OtherSteps ==
    ASSUME MemoryNext, ~AppendZero, ~AppendPgno, ~AppendSlot, ~CleanupHash, ~Recover
    PROVE  UNCHANGED <<aPgno, aHash>>
<1>1. CASE \E r \in Readers : FindBegin(r) \/ FindStep(r) \/ EndRead(r)
  BY <1>1 DEF FindBegin, FindStep, EndRead, readerUnchanged, shmVars
<1>2. CASE BeginCkpt \/ CkptReadHdr \/ CkptSort \/ CkptNext \/ CkptEnd
  BY <1>2 DEF BeginCkpt, CkptReadHdr, CkptSort, CkptNext, CkptEnd, ckptUnchanged
<1>3. CASE BeginWrite \/ RestartLog \/ CrashWriter BY <1>3 DEF BeginWrite, RestartLog, CrashWriter, shmVars
<1>4. CASE StoreHdr BY <1>4 DEF StoreHdr
<1>5. CASE \E S \in SUBSET Pgno, isCommit \in BOOLEAN : Frames(S, isCommit) BY <1>5 DEF Frames, shmVars
<1>6. CASE AppendCleanup \/ Undo \/ Savepoint \/ SavepointUndo BY <1>6 DEF AppendCleanup, Undo, Savepoint, SavepointUndo
<1> QED BY <1>1, <1>2, <1>3, <1>4, <1>5, <1>6 DEF MemoryNext

\* Every entry of a table is in its range at the start,
LEMMA TablesTypeInit == MemoryInit => TablesType
<1> SUFFICES ASSUME MemoryInit PROVE TablesType OBVIOUS
<1>1. aPgno = [h \in Tables |-> EmptyPgno(h)] /\ aHash = [h \in Tables |-> EmptyHash] BY DEF MemoryInit
<1>2. ASSUME NEW h \in Tables
      PROVE  EmptyPgno(h) \in [1..TableSize(h) -> {0} \cup Pgno] /\ EmptyHash \in [Slot -> 0..TableSize(h)]
  <2>1. 0 \in 0..TableSize(h) BY SlotCount
  <2> QED BY <2>1 DEF EmptyPgno, EmptyHash, Slot
<1> QED BY <1>1, <1>2 DEF TablesType

\* and after every step.
LEMMA TablesTypeNext == HeadersInv /\ TablesType /\ MemoryNext => TablesType'
<1> SUFFICES ASSUME HeadersInv, TablesType, MemoryNext PROVE TablesType' OBVIOUS
<1>1. CASE AppendZero BY <1>1, AppendZeroIs, OneTableIs
<1>2. CASE AppendPgno BY <1>2, AppendPgnoIs, OneTableIs
<1>3. CASE AppendSlot BY <1>3, AppendSlotIs, OneTableIs
<1>4. CASE CleanupHash
  <2>1. PICK h, pg, slot : OneTable(h, pg, slot) BY <1>4, CleanupHashIs
  <2> QED BY <2>1, OneTableIs
<1>5. CASE Recover
  <2>1. (\E h, pg, slot : OneTable(h, pg, slot)) \/ UNCHANGED <<aPgno, aHash>> BY <1>5, RecoverIs
  <2> QED BY <2>1, OneTableIs DEF TablesType
<1>6. CASE UNCHANGED <<aPgno, aHash>> BY <1>6 DEF TablesType
<1> QED BY <1>1, <1>2, <1>3, <1>4, <1>5, <1>6, OtherSteps

\* All words of the wal-index are in their ranges.
LEMMA MemoryTyped == HeadersInv /\ TablesType => MemoryTypeOK
<1> SUFFICES ASSUME HeadersInv, TablesType PROVE MemoryTypeOK OBVIOUS
<1>1. log \in Seq([pg : Pgno, nTruncate : 0..MaxPage, ok : BOOLEAN]) /\ Len(log) <= MaxFrame
  BY DEF HeadersInv, LogInv, Frame
<1>2. nBackfill \in 0..MaxFrame /\ nCrash \in 0..MaxCrash BY DEF HeadersInv, LogInv
<1> QED BY <1>1, <1>2 DEF MemoryTypeOK, TablesType, Slot

(***************************************************************************)
(* What the tables always have: steps that leave them alone                *)
(***************************************************************************)
\* The frames of the log and the pages they are of.
LEMMA LogPages ==
    ASSUME LogInv, NEW f \in 1..Len(log)
    PROVE  log[f].pg \in Pgno /\ log[f].pg \in Nat \ {0}
<1>1. log[f] \in Frame BY DEF LogInv
<1> QED BY <1>1, WalIndexAssumption DEF Frame, Pgno

\* The last frames that somebody refers to.
LEMMA LiveFrames ==
    ASSUME HeadersInv
    PROVE  /\ Len(log) \in Nat /\ Len(log) <= MaxFrame
           /\ \A r \in Readers : rd[r].pc # "idle" => rd[r].mxFrame \in Nat /\ rd[r].mxFrame <= Len(log)
           /\ IsGood => aHdr[0].mxFrame \in Nat /\ aHdr[0].mxFrame <= Len(log)
           /\ IsStoring \/ InTransaction => w.hdr.mxFrame \in Nat /\ w.hdr.mxFrame <= Len(log)
           /\ InTransaction => /\ IsGood /\ aHdr[0].mxFrame <= w.hdr.mxFrame
                               /\ \A r \in Readers : rd[r].pc # "idle" => rd[r].mxFrame <= w.hdr.mxFrame
<1>1. LogInv /\ Len(log) \in Nat /\ Len(log) <= MaxFrame BY DEF HeadersInv, LogInv
<1>2. ASSUME NEW r \in Readers, rd[r].pc # "idle"
      PROVE  /\ rd[r].mxFrame \in Nat /\ rd[r].mxFrame <= Len(log)
             /\ IsGood => rd[r].mxFrame <= aHdr[0].mxFrame
  <2>1. IsCommit(rd[r].mxFrame) /\ IsCurrent(rd[r].mxFrame, logSalt) BY <1>2 DEF HeadersInv, ReadersInv, ReaderInv
  <2> QED BY <1>1, <2>1 DEF IsCommit, IsCurrent
<1>3. ASSUME IsGood PROVE aHdr[0].mxFrame \in Nat /\ aHdr[0].mxFrame <= Len(log)
  <2>1. aHdr[0] \in Header /\ Says(aHdr[0].mxFrame, aHdr[0].nPage, aHdr[0].aSalt) BY <1>3, GoodHdr DEF HeadersInv
  <2> QED BY <1>1, <2>1, HeaderIs DEF Says, IsCommit
<1>4. ASSUME IsStoring PROVE w.hdr.mxFrame \in Nat /\ w.hdr.mxFrame <= Len(log)
  <2>1. WriterType /\ Says(w.hdr.mxFrame, w.hdr.nPage, w.hdr.aSalt) BY <1>4 DEF HeadersInv, WriterInv, StoringInv
  <2>2. w.hdr \in Header BY <2>1, WriterTypeIs
  <2> QED BY <1>1, <2>1, <2>2, HeaderIs DEF Says, IsCommit
<1>5. ASSUME InTransaction
      PROVE  /\ w.hdr.mxFrame \in Nat /\ w.hdr.mxFrame <= Len(log) /\ IsGood /\ aHdr[0].mxFrame <= w.hdr.mxFrame
             /\ \A r \in Readers : rd[r].pc # "idle" => rd[r].mxFrame <= w.hdr.mxFrame
  <2>1. TransactionInv /\ IsGood /\ w.hdr.mxFrame \in Nat /\ aHdr[0].mxFrame \in Nat BY <1>5, InTransactionIs
  <2>2. aHdr[0].mxFrame <= w.hdr.mxFrame /\ (w.hdr.mxFrame # 0 => w.hdr.mxFrame <= Len(log)) BY <2>1 DEF TransactionInv
  <2>3. w.hdr.mxFrame <= Len(log) BY <1>1, <2>1, <2>2
  <2>4. ASSUME NEW r \in Readers, rd[r].pc # "idle" PROVE rd[r].mxFrame <= w.hdr.mxFrame
    <3>1. rd[r].mxFrame \in Nat /\ rd[r].mxFrame <= aHdr[0].mxFrame BY <1>2, <2>1, <2>4
    <3> QED BY <2>1, <2>2, <3>1
  <2> QED BY <2>1, <2>2, <2>3, <2>4
<1> QED BY <1>1, <1>2, <1>3, <1>4, <1>5

\* A step that leaves the log and the tables alone.
LEMMA TablesQuiet ==
    ASSUME TablesInv, UNCHANGED <<log, aPgno, aHash>>, IsGood' \/ IsStoring' => IsGood \/ IsStoring,
           \A r \in Readers : rd'[r].pc # "idle" => PlacedUpTo(rd'[r].mxFrame),
           IsGood' => PlacedUpTo(aHdr'[0].mxFrame),
           IsStoring' \/ InTransaction' => PlacedUpTo(w'.hdr.mxFrame),
           IsAppending' => PlacedUpTo(w'.iFrame - 1), RemainsInv'
    PROVE  TablesInv'
<1>1. TablesType' BY DEF TablesInv, TablesType
<1>2. Len(Valid)' = Len(Valid) BY DEF Valid, Lowest
<1>3. OrderInv'
  <2> SUFFICES ASSUME NEW h \in Tables, IsGood' \/ IsStoring' \/ h > walFramePage(Len(Valid)' + 1)
               PROVE  IsOrderly(aPgno[h], aHash[h])'
    BY DEF OrderInv
  <2>1. IsGood \/ IsStoring \/ h > walFramePage(Len(Valid) + 1) BY <1>2
  <2>2. IsOrderly(aPgno[h], aHash[h]) BY <2>1 DEF TablesInv, OrderInv
  <2> QED BY <2>2 DEF IsOrderly
<1>4. \A n : PlacedUpTo(n)' <=> PlacedUpTo(n) BY KeepsAll
<1>5. \A r \in Readers : rd'[r].pc # "idle" => PlacedUpTo(rd[r].mxFrame)'
  <2> TAKE r \in Readers
  <2> HAVE rd'[r].pc # "idle"
  <2>1. PICK m : m = rd'[r].mxFrame OBVIOUS
  <2>2. PlacedUpTo(m)' BY <1>4, <2>1
  <2> QED BY <2>1, <2>2 DEF PlacedUpTo, Placed
<1>6. IsGood' => PlacedUpTo(aHdr[0].mxFrame)'
  <2> HAVE IsGood'
  <2>1. PICK m : m = aHdr'[0].mxFrame OBVIOUS
  <2>2. PlacedUpTo(m)' BY <1>4, <2>1
  <2> QED BY <2>1, <2>2 DEF PlacedUpTo, Placed
<1>7. IsStoring' \/ InTransaction' => PlacedUpTo(w.hdr.mxFrame)'
  <2> HAVE IsStoring' \/ InTransaction'
  <2>1. PICK m : m = w'.hdr.mxFrame OBVIOUS
  <2>2. PlacedUpTo(m)' BY <1>4, <2>1
  <2> QED BY <2>1, <2>2 DEF PlacedUpTo, Placed
<1>8. IsAppending' => PlacedUpTo(w.iFrame - 1)'
  <2> HAVE IsAppending'
  <2>1. PICK m : m = w'.iFrame - 1 OBVIOUS
  <2>2. PlacedUpTo(m)' BY <1>4, <2>1
  <2> QED BY <2>1, <2>2 DEF PlacedUpTo, Placed
<1>9. SnapshotsPlaced' BY <1>5, <1>6, <1>7, <1>8 DEF SnapshotsPlaced
<1> QED BY <1>1, <1>3, <1>9 DEF TablesInv

\* These only depend on the headers and the writer.
LEMMA WriterSame ==
    ASSUME UNCHANGED <<aHdr, w>>
    PROVE  (IsGood' <=> IsGood) /\ (IsStoring' <=> IsStoring) /\ (InTransaction' <=> InTransaction)
           /\ (IsAppending' <=> IsAppending)
BY DEF IsGood, HdrOk, IsStoring, InTransaction, IsAppending

\* Steps of readers and of the checkpointer.
LEMMA TablesReading ==
    ASSUME TablesInv, UNCHANGED <<log, aHdr, aPgno, aHash, w>>,
           \A r \in Readers : rd'[r].pc # "idle" => PlacedUpTo(rd'[r].mxFrame)
    PROVE  TablesInv'
<1>1. (IsGood' <=> IsGood) /\ (IsStoring' <=> IsStoring) /\ (InTransaction' <=> InTransaction) /\ (IsAppending' <=> IsAppending)
  BY WriterSame
<1>2. SnapshotsPlaced /\ RemainsInv BY DEF TablesInv
<1>3. RemainsInv' BY <1>2 DEF RemainsInv, IsClean, iHashNow, idx
<1>4. IsGood' => PlacedUpTo(aHdr'[0].mxFrame) BY <1>1, <1>2 DEF SnapshotsPlaced
<1>5. IsStoring' \/ InTransaction' => PlacedUpTo(w'.hdr.mxFrame) BY <1>1, <1>2 DEF SnapshotsPlaced
<1>6. IsAppending' => PlacedUpTo(w'.iFrame - 1) BY <1>1, <1>2 DEF SnapshotsPlaced
<1> QED BY <1>1, <1>3, <1>4, <1>5, <1>6, TablesQuiet

\* A reader has the snapshot of a good header.
LEMMA FindBeginTables == ASSUME HeadersInv, TablesInv, NEW r \in Readers, FindBegin(r) PROVE TablesInv'
<1>1. UNCHANGED <<log, aHdr, aPgno, aHash, w>> BY DEF FindBegin, readerUnchanged, shmVars
<1>2. IsGood BY DEF FindBegin, IsGood
<1>3. PICK a : SetReader(r, a) /\ a.mxFrame = aHdr[0].mxFrame BY DEF FindBegin
<1>4. rd = [q \in Readers |-> rd[q]] BY DEF HeadersInv, ReadersInv
<1>5. rd'[r] = a /\ \A q \in Readers : q # r => rd'[q] = rd[q] BY <1>3, <1>4 DEF SetReader
<1>6. SnapshotsPlaced BY DEF TablesInv
<1>7. \A q \in Readers : rd'[q].pc # "idle" => PlacedUpTo(rd'[q].mxFrame) BY <1>2, <1>3, <1>5, <1>6 DEF SnapshotsPlaced
<1> QED BY <1>1, <1>7, TablesReading

\* A search and its end.
LEMMA FindStepTables == ASSUME HeadersInv, TablesInv, NEW r \in Readers, FindStep(r) PROVE TablesInv'
<1>1. UNCHANGED <<log, aHdr, aPgno, aHash, w>> BY DEF FindStep, readerUnchanged, shmVars
<1>2. ReaderType(rd[r]) BY DEF HeadersInv, ReadersInv, ReaderInv
<1>3. PICK b : SetReader(r, b) /\ b.mxFrame = rd[r].mxFrame BY <1>2, FindStepIs
<1>4. rd = [q \in Readers |-> rd[q]] BY DEF HeadersInv, ReadersInv
<1>5. rd'[r] = b /\ \A q \in Readers : q # r => rd'[q] = rd[q] BY <1>3, <1>4 DEF SetReader
<1>6. rd[r].pc # "idle" BY DEF FindStep
<1>7. SnapshotsPlaced BY DEF TablesInv
<1>8. \A q \in Readers : rd'[q].pc # "idle" => PlacedUpTo(rd'[q].mxFrame) BY <1>3, <1>5, <1>6, <1>7 DEF SnapshotsPlaced
<1> QED BY <1>1, <1>8, TablesReading

\* A reader ends.
LEMMA EndReadTables == ASSUME HeadersInv, TablesInv, NEW r \in Readers, EndRead(r) PROVE TablesInv'
<1>1. UNCHANGED <<log, aHdr, aPgno, aHash, w>> BY DEF EndRead, readerUnchanged, shmVars
<1>2. SetReader(r, NoReader) BY DEF EndRead
<1>3. rd = [q \in Readers |-> rd[q]] BY DEF HeadersInv, ReadersInv
<1>4. rd'[r] = NoReader /\ \A q \in Readers : q # r => rd'[q] = rd[q] BY <1>2, <1>3 DEF SetReader
<1>5. NoReader.pc = "idle" BY DEF NoReader
<1>6. SnapshotsPlaced BY DEF TablesInv
<1>7. \A q \in Readers : rd'[q].pc # "idle" => PlacedUpTo(rd'[q].mxFrame) BY <1>4, <1>5, <1>6 DEF SnapshotsPlaced
<1> QED BY <1>1, <1>7, TablesReading

\* The checkpointer.
LEMMA CkptTables ==
    ASSUME TablesInv, BeginCkpt \/ CkptReadHdr \/ CkptSort \/ CkptNext \/ CkptEnd
    PROVE  TablesInv'
<1>1. UNCHANGED <<log, aHdr, aPgno, aHash, w>> /\ rd' = rd
  BY DEF BeginCkpt, CkptReadHdr, CkptSort, CkptNext, CkptEnd, ckptUnchanged
<1>2. SnapshotsPlaced BY DEF TablesInv
<1>3. \A r \in Readers : rd'[r].pc # "idle" => PlacedUpTo(rd'[r].mxFrame) BY <1>1, <1>2 DEF SnapshotsPlaced
<1> QED BY <1>1, <1>3, TablesReading

\* A writer goes to a place where it is not about a frame.
LEMMA WriterMoves ==
    ASSUME TablesInv, UNCHANGED <<log, aPgno, aHash, rd>>, IsGood' \/ IsStoring' => IsGood \/ IsStoring,
           IsGood' => PlacedUpTo(aHdr'[0].mxFrame),
           IsStoring' \/ InTransaction' => PlacedUpTo(w'.hdr.mxFrame), ~IsAppending'
    PROVE  TablesInv'
<1>1. SnapshotsPlaced BY DEF TablesInv
<1>2. RemainsInv' BY DEF RemainsInv, IsAppending
<1>3. \A r \in Readers : rd'[r].pc # "idle" => PlacedUpTo(rd'[r].mxFrame) BY <1>1 DEF SnapshotsPlaced
<1> QED BY <1>2, <1>3, TablesQuiet

\* The frames of a snapshot, fewer of them.
LEMMA PlacedFewer ==
    ASSUME NEW n \in Nat, NEW m \in Nat, m <= n, PlacedUpTo(n)
    PROVE  PlacedUpTo(m)
BY KeepsFewer

\* A writer that died or ended.
LEMMA NoWriterTables ==
    ASSUME TablesInv, UNCHANGED <<log, aPgno, aHash, rd, aHdr>>, w' = NoWriter
    PROVE  TablesInv'
<1>1. w'.pc = "idle" BY DEF NoWriter
<1>2. ~IsStoring' /\ ~InTransaction' /\ ~IsAppending' BY <1>1 DEF IsStoring, InTransaction, IsAppending
<1>3. IsGood' <=> IsGood BY DEF IsGood, HdrOk
<1>4. IsGood' => PlacedUpTo(aHdr'[0].mxFrame) BY <1>3 DEF TablesInv, SnapshotsPlaced
<1> QED BY <1>2, <1>3, <1>4, WriterMoves

\* A writer starts.
LEMMA BeginWriteTables == ASSUME HeadersInv, TablesInv, BeginWrite PROVE TablesInv'
<1>1. UNCHANGED <<log, aPgno, aHash, rd, aHdr>> BY DEF BeginWrite, shmVars
<1>2. IsGood' <=> IsGood BY <1>1 DEF IsGood, HdrOk
<1>3. IsGood => PlacedUpTo(aHdr[0].mxFrame) BY DEF TablesInv, SnapshotsPlaced
<1>4. CASE IsGood /\ w' = [NoWriter EXCEPT !.pc = "open", !.hdr = aHdr[0]]
  <2>1. w'.pc = "open" /\ w'.hdr = aHdr[0] BY <1>4 DEF NoWriter
  <2>2. ~IsStoring' /\ ~IsAppending' BY <2>1 DEF IsStoring, IsAppending
  <2>3. PlacedUpTo(w'.hdr.mxFrame) /\ PlacedUpTo(aHdr'[0].mxFrame) BY <1>1, <1>3, <1>4, <2>1
  <2> QED BY <1>1, <1>2, <2>2, <2>3, WriterMoves
<1>5. CASE ~IsGood /\ w' = [NoWriter EXCEPT !.pc = "recover"]
  <2>1. w'.pc = "recover" BY <1>5 DEF NoWriter
  <2>2. ~IsStoring' /\ ~IsAppending' /\ ~InTransaction' BY <2>1 DEF IsStoring, IsAppending, InTransaction
  <2> QED BY <1>1, <1>2, <1>5, <2>2, WriterMoves
<1> QED BY <1>4, <1>5 DEF BeginWrite, IsGood

\* The log is restarted.
LEMMA RestartLogTables == ASSUME HeadersInv, TablesInv, RestartLog PROVE TablesInv'
<1>1. UNCHANGED <<log, aPgno, aHash, rd, aHdr>> BY DEF RestartLog, shmVars
<1>2. InTransaction BY DEF RestartLog, InTransaction
<1>3. IsGood /\ (IsGood' <=> IsGood) BY <1>1, <1>2, InTransactionIs DEF IsGood, HdrOk
<1>4. PlacedUpTo(aHdr'[0].mxFrame) BY <1>1, <1>3 DEF TablesInv, SnapshotsPlaced
<1>5. PICK hdr : hdr = Hdr(0, w.hdr.nPage, w.hdr.aSalt + 1) OBVIOUS
<1>6. w' = WriteHdr(hdr, "restart") BY <1>5 DEF RestartLog
<1>7. w'.pc = "hdr1" /\ w'.hdr = hdr
  <2>1. w' = [pc |-> "hdr1", ret |-> "restart", hdr |-> hdr, iFrame |-> 0, list |-> <<>>,
              nTruncate |-> 0, todo |-> Words, save |-> w.save]
    BY <1>6, WriterIs
  <2> QED BY <2>1
<1>8. hdr.mxFrame = 0 BY <1>5 DEF Hdr
<1>9. PlacedUpTo(w'.hdr.mxFrame) BY <1>7, <1>8 DEF PlacedUpTo
<1>10. ~IsAppending' BY <1>7 DEF IsAppending
<1> QED BY <1>1, <1>3, <1>4, <1>9, <1>10, WriterMoves

\* A word of the header is stored: once both copies are good, they are the
\* header that is stored.
LEMMA StoreHdrTables == ASSUME HeadersInv, TablesInv, StoreHdr PROVE TablesInv'
<1>1. UNCHANGED <<log, aPgno, aHash, rd>> /\ IsStoring BY DEF StoreHdr, IsStoring
<1>2. PlacedUpTo(w.hdr.mxFrame) BY <1>1 DEF TablesInv, SnapshotsPlaced
<1>3. IsGood' => PlacedUpTo(aHdr'[0].mxFrame) BY <1>2, StoreHdrWords
<1>4. WriterType BY DEF HeadersInv, WriterInv
<1>5. w'.pc \notin {"append", "pgno", "slot", "cleanup"} /\ (w'.pc # "idle" => w'.hdr = w.hdr)
  <2>1. PICK t : \/ w' = Between(w, w.hdr) \/ w' = NoWriter \/ w' = [w EXCEPT !.pc = "hdr0", !.todo = Words]
                 \/ w' = [w EXCEPT !.todo = t]
    <3>1. PICK x \in w.todo : w' = IF w.todo = {x} /\ w.pc = "hdr0" THEN IF w.ret = "restart" THEN Between(w, w.hdr) ELSE NoWriter
                                  ELSE IF w.todo = {x} THEN [w EXCEPT !.pc = "hdr0", !.todo = Words]
                                  ELSE [w EXCEPT !.todo = w.todo \ {x}]
      BY Zenon DEF StoreHdr
    <3> QED BY <3>1
  <2>2. CASE w' = Between(w, w.hdr)
    <3>1. w' = [pc |-> "open", ret |-> "idle", hdr |-> w.hdr, iFrame |-> 0, list |-> <<>>,
                nTruncate |-> 0, todo |-> {}, save |-> w.save]
      BY <2>2, WriterIs
    <3>2. w'.pc = "open" /\ w'.hdr = w.hdr BY <3>1
    <3> QED BY <3>2
  <2>3. CASE w' = NoWriter
    <3>1. w'.pc = "idle" BY <2>3 DEF NoWriter
    <3> QED BY <3>1
  <2>4. CASE w' = [w EXCEPT !.pc = "hdr0", !.todo = Words] BY <1>4, <2>4 DEF WriterType
  <2>5. CASE w' = [w EXCEPT !.todo = t]
    <3>1. w'.pc = w.pc /\ w'.hdr = w.hdr BY <1>4, <2>5 DEF WriterType
    <3> QED BY <1>1, <3>1 DEF IsStoring
  <2> QED BY <2>1, <2>2, <2>3, <2>4, <2>5
<1>6. IsStoring' \/ InTransaction' => PlacedUpTo(w'.hdr.mxFrame) BY <1>2, <1>5 DEF IsStoring, InTransaction
<1>7. ~IsAppending' BY <1>5 DEF IsAppending
<1> QED BY <1>1, <1>3, <1>6, <1>7, WriterMoves

\* A transaction goes back to fewer frames.
LEMMA FewerTables ==
    ASSUME HeadersInv, TablesInv, InTransaction, UNCHANGED <<log, aPgno, aHash, rd, aHdr>>,
           w'.hdr.mxFrame \in Nat, w'.hdr.mxFrame <= w.hdr.mxFrame, ~IsStoring', ~IsAppending'
    PROVE  TablesInv'
<1>1. IsGood /\ w.hdr.mxFrame \in Nat BY InTransactionIs
<1>2. IsGood' BY <1>1 DEF IsGood, HdrOk
<1>3. PlacedUpTo(aHdr'[0].mxFrame) /\ PlacedUpTo(w.hdr.mxFrame) BY <1>1 DEF TablesInv, SnapshotsPlaced
<1>4. PlacedUpTo(w'.hdr.mxFrame) BY <1>1, <1>3, PlacedFewer
<1> QED BY <1>1, <1>3, <1>4, WriterMoves

\* Rollbacks.
LEMMA UndoTables == ASSUME HeadersInv, TablesInv, Undo PROVE TablesInv'
<1>1. UNCHANGED <<log, aPgno, aHash, rd, aHdr>> /\ w.pc = "open" BY DEF Undo, indexOnly
<1>2. InTransaction BY <1>1 DEF InTransaction
<1>3. WriterType /\ TransactionInv /\ w.hdr.mxFrame \in Nat /\ aHdr[0].mxFrame \in Nat BY <1>2, InTransactionIs
<1>4. CASE w' = NoWriter BY <1>1, <1>4, NoWriterTables
<1>5. CASE w' # NoWriter
  <2>1. PICK hdr : hdr = aHdr[0] OBVIOUS
  <2>2. PICK a : a = [w EXCEPT !.hdr = hdr] OBVIOUS
  <2>3. hdr.mxFrame # 0 /\ w' = CleanupThen(a, "idle") BY <1>5, <2>1, <2>2, Zenon DEF Undo
  <2>4. a.hdr = hdr BY <1>3, <2>2 DEF WriterType
  <2>5. w' = [a EXCEPT !.pc = "cleanup", !.ret = "idle"] BY <2>3, <2>4, CleanupThenIs
  <2>6. w'.pc = "cleanup" /\ w'.ret = "idle" /\ w'.hdr = hdr BY <1>3, <2>2, <2>5 DEF WriterType
  <2>7. ~IsStoring' /\ ~IsAppending' BY <2>6 DEF IsStoring, IsAppending
  <2>8. w'.hdr.mxFrame \in Nat /\ w'.hdr.mxFrame <= w.hdr.mxFrame BY <1>3, <2>1, <2>6 DEF TransactionInv
  <2> QED BY <1>1, <1>2, <2>7, <2>8, FewerTables
<1> QED BY <1>4, <1>5

\* A savepoint.
LEMMA SavepointTables == ASSUME HeadersInv, TablesInv, Savepoint PROVE TablesInv'
<1>1. UNCHANGED <<log, aPgno, aHash, rd, aHdr>> /\ w.pc = "open" BY DEF Savepoint, indexOnly
<1>2. InTransaction BY <1>1 DEF InTransaction
<1>3. WriterType /\ w.hdr.mxFrame \in Nat BY <1>2, InTransactionIs
<1>4. PICK hdr : hdr = w.hdr OBVIOUS
<1>5. w' = [w EXCEPT !.save = hdr] BY <1>4 DEF Savepoint
<1>6. w'.pc = "open" /\ w'.hdr = w.hdr BY <1>1, <1>3, <1>5 DEF WriterType
<1>7. ~IsStoring' /\ ~IsAppending' BY <1>6 DEF IsStoring, IsAppending
<1> QED BY <1>1, <1>2, <1>3, <1>6, <1>7, FewerTables

\* A rollback to it.
LEMMA SavepointUndoTables == ASSUME HeadersInv, TablesInv, SavepointUndo PROVE TablesInv'
<1>1. UNCHANGED <<log, aPgno, aHash, rd, aHdr>> /\ w.pc = "open" BY DEF SavepointUndo, indexOnly
<1>2. InTransaction BY <1>1 DEF InTransaction
<1>3. WriterType /\ w.hdr.mxFrame \in Nat BY <1>2, InTransactionIs
<1>4. PICK mx : mx = IF w.save.aSalt # w.hdr.aSalt THEN 0 ELSE w.save.mxFrame OBVIOUS
<1>5. PICK hdr : hdr = Hdr(mx, w.hdr.nPage, w.hdr.aSalt) OBVIOUS
<1>6. PICK a : a = [w EXCEPT !.hdr = hdr, !.save = hdr] OBVIOUS
<1>7. mx < w.hdr.mxFrame /\ w' = CleanupThen(a, "open") BY <1>4, <1>5, <1>6, Zenon DEF SavepointUndo
<1>8. mx \in Nat
  <2>1. w.save \in Header BY <1>3, WriterTypeIs
  <2> QED BY <1>4, <2>1, HeaderIs
<1>9. hdr.mxFrame = mx BY <1>5 DEF Hdr
<1>10. w'.hdr = hdr /\ (w'.pc = "open" \/ (w'.pc = "cleanup" /\ w'.ret = "open"))
  <2>1. w' = [a EXCEPT !.pc = "open"] \/ w' = [a EXCEPT !.pc = "cleanup", !.ret = "open"] BY <1>7, CleanupThenIs
  <2> QED BY <1>3, <1>6, <2>1 DEF WriterType
<1>11. ~IsStoring' /\ ~IsAppending' BY <1>10 DEF IsStoring, IsAppending
<1>12. w'.hdr.mxFrame \in Nat /\ w'.hdr.mxFrame <= w.hdr.mxFrame BY <1>3, <1>7, <1>8, <1>9, <1>10
<1> QED BY <1>1, <1>2, <1>11, <1>12, FewerTables

\* The remains of a writer that died are met only at the first frame of a
\* transaction.
LEMMA AppendCleanupTables == ASSUME HeadersInv, TablesInv, AppendCleanup PROVE TablesInv'
<1>1. UNCHANGED <<log, aPgno, aHash, rd, aHdr>> /\ w.pc = "append" /\ idx # 1 /\ aPgno[iHashNow][idx] # 0
  BY DEF AppendCleanup, indexOnly
<1>2. InTransaction /\ IsAppending BY <1>1 DEF InTransaction, IsAppending
<1>3. WriterType /\ w.hdr.mxFrame \in Nat /\ IsGood BY <1>2, InTransactionIs
<1>4. /\ w.iFrame \in Nat \ {0} /\ w.hdr.mxFrame < w.iFrame /\ idx \in 1..TableSize(iHashNow) /\ idx \in Nat \ {0}
      /\ iHashNow \in Tables
  BY <1>2, AppendingIs
<1>5. w.iFrame = w.hdr.mxFrame + 1
  <2> SUFFICES ASSUME w.iFrame > w.hdr.mxFrame + 1 PROVE FALSE BY <1>3, <1>4
  <2>1. IsClean(aPgno[iHashNow], aHash[iHashNow], idx - 1) BY <1>1 DEF TablesInv, RemainsInv
  <2>2. aPgno[iHashNow] \in [1..TableSize(iHashNow) -> {0} \cup Pgno] BY <1>4 DEF TablesInv, TablesType
  <2>3. idx \in DOMAIN aPgno[iHashNow] /\ idx > idx - 1
    <3>1. DOMAIN aPgno[iHashNow] = 1..TableSize(iHashNow) BY <2>2
    <3>2. idx > idx - 1 BY <1>4
    <3> QED BY <1>4, <3>1, <3>2
  <2>4. aPgno[iHashNow][idx] = 0 BY <2>1, <2>3 DEF IsClean
  <2> QED BY <1>1, <2>4
<1>6. w.hdr.mxFrame # 0
  <2> SUFFICES ASSUME w.hdr.mxFrame = 0 PROVE FALSE OBVIOUS
  <2>1. w.iFrame = 1 BY <1>5
  <2>2. 1 \in Nat \ {0} /\ 0 \in Nat /\ 1 \in 1..TableSize(0) BY SlotCount
  <2>3. walFramePage(iZero(0) + 1) = 0 /\ iZero(0) = 0 BY <2>2, TableFrame DEF iZero
  <2>4. walFramePage(1) = 0 BY <2>3
  <2>5. idx = 1 BY <2>1, <2>3, <2>4 DEF idx, iHashNow
  <2> QED BY <1>1, <2>5
<1>7. w' = [w EXCEPT !.pc = "cleanup", !.ret = "pgno"] BY <1>6, CleanupThenIs DEF AppendCleanup
<1>8. w'.pc = "cleanup" /\ w'.ret = "pgno" /\ w'.hdr = w.hdr /\ w'.iFrame = w.iFrame BY <1>3, <1>7 DEF WriterType
<1>9. InTransaction' /\ ~IsStoring' BY <1>8 DEF InTransaction, IsStoring
<1>10. RemainsInv' BY <1>1, <1>5, <1>8 DEF RemainsInv, idx, iHashNow
<1>11. PlacedUpTo(w.hdr.mxFrame) /\ PlacedUpTo(w.iFrame - 1) /\ PlacedUpTo(aHdr[0].mxFrame)
  BY <1>2, <1>3 DEF TablesInv, SnapshotsPlaced
<1>12. \A r \in Readers : rd'[r].pc # "idle" => PlacedUpTo(rd'[r].mxFrame) BY <1>1 DEF TablesInv, SnapshotsPlaced
<1> QED BY <1>1, <1>3, <1>8, <1>9, <1>10, <1>11, <1>12, TablesQuiet

(***************************************************************************)
(* What the tables always have: steps that change the log or a table       *)
(***************************************************************************)
\* PlacedUpTo(n) in the next state.
PlacedNext(n) ==
    \A f \in 1..n : /\ aPgno'[walFramePage(f)][Index(f)] = log'[f].pg
                    /\ HasSlot(aPgno'[walFramePage(f)], aHash'[walFramePage(f)], Index(f))

\* Whoever has a snapshot after the step finds its frames.
LEMMA SnapshotsNext ==
    ASSUME \A r \in Readers : rd'[r].pc # "idle" => PlacedNext(rd'[r].mxFrame),
           IsGood' => PlacedNext(aHdr'[0].mxFrame),
           IsStoring' \/ InTransaction' => PlacedNext(w'.hdr.mxFrame),
           IsAppending' => PlacedNext(w'.iFrame - 1)
    PROVE  SnapshotsPlaced'
<1>1. ASSUME NEW r \in Readers, rd'[r].pc # "idle" PROVE PlacedUpTo(rd[r].mxFrame)'
  <2>1. PlacedNext(rd'[r].mxFrame) BY <1>1
  <2> QED BY <2>1 DEF PlacedNext, PlacedUpTo, Placed, HasSlot
<1>2. ASSUME IsGood' PROVE PlacedUpTo(aHdr[0].mxFrame)'
  <2>1. PlacedNext(aHdr'[0].mxFrame) BY <1>2
  <2> QED BY <2>1 DEF PlacedNext, PlacedUpTo, Placed, HasSlot
<1>3. ASSUME IsStoring' \/ InTransaction' PROVE PlacedUpTo(w.hdr.mxFrame)'
  <2>1. PlacedNext(w'.hdr.mxFrame) BY <1>3
  <2> QED BY <2>1 DEF PlacedNext, PlacedUpTo, Placed, HasSlot
<1>4. ASSUME IsAppending' PROVE PlacedUpTo(w.iFrame - 1)'
  <2>1. PlacedNext(w'.iFrame - 1) BY <1>4
  <2> QED BY <2>1 DEF PlacedNext, PlacedUpTo, Placed, HasSlot
<1> QED BY <1>1, <1>2, <1>3, <1>4 DEF SnapshotsPlaced

\* The frames that a step keeps.
LEMMA KeepsNext ==
    ASSUME LogInv, NEW n \in Nat, n <= Len(log), PlacedUpTo(n), Keeps(n), NEW m \in Nat, m <= n
    PROVE  PlacedNext(m)
<1>1. PlacedUpTo(n)' BY KeepsPlaced
<1>2. PlacedNext(n) BY <1>1 DEF PlacedNext, PlacedUpTo, Placed, HasSlot
<1>3. \A f \in 1..m : f \in 1..n OBVIOUS
<1> QED BY <1>2, <1>3 DEF PlacedNext

\* A transaction writes frames: those up to its last one stay.
LEMMA FramesTables ==
    ASSUME HeadersInv, TablesInv, NEW S \in SUBSET Pgno, NEW isCommit \in BOOLEAN, Frames(S, isCommit)
    PROVE  TablesInv'
<1>1. UNCHANGED <<aPgno, aHash, rd, aHdr>> /\ w.pc = "open" BY DEF Frames, shmVars
<1>2. InTransaction BY <1>1 DEF InTransaction
<1>3. WriterType /\ IsGood BY <1>2, InTransactionIs
<1>4. PICK mx : mx = w.hdr.mxFrame OBVIOUS
<1>5. /\ mx \in Nat /\ mx <= Len(log) /\ aHdr[0].mxFrame \in Nat /\ aHdr[0].mxFrame <= mx
      /\ \A r \in Readers : rd[r].pc # "idle" => rd[r].mxFrame \in Nat /\ rd[r].mxFrame <= mx
  BY <1>2, <1>3, <1>4, LiveFrames
<1>6. PICK append, nT : /\ \A i \in 1..mx : log'[i].pg = log[i].pg
                        /\ w' = IF append = <<>> THEN w
                                ELSE [w EXCEPT !.pc = "append", !.iFrame = mx + 1, !.list = append, !.nTruncate = nT]
  <2>1. PICK append \in Seq(Pgno), top \in Pgno :
           /\ append \in Ascending
           /\ log' \in Seq(Frame) /\ Len(log') = w.hdr.mxFrame + Len(append) /\ Len(log') <= MaxFrame
           /\ \A i \in 1..w.hdr.mxFrame : log'[i].pg = log[i].pg /\ log'[i].nTruncate = log[i].nTruncate
           /\ \A i \in 1..aHdr[0].mxFrame : log[i].ok => log'[i].ok
           /\ \A i \in 1..Len(append) : log'[w.hdr.mxFrame + i].pg = append[i]
           /\ isCommit => /\ \A i \in 1..Len(log') : log'[i].ok
                          /\ append # <<>> => log'[Len(log')].nTruncate = top
           /\ w' = IF append = <<>> THEN w
                   ELSE [w EXCEPT !.pc = "append", !.iFrame = w.hdr.mxFrame + 1, !.list = append,
                                  !.nTruncate = IF isCommit THEN top ELSE 0]
    BY FramesIs, Zenon
  <2>2. PICK nT : nT = IF isCommit THEN top ELSE 0 OBVIOUS
  <2>3. w' = IF append = <<>> THEN w
             ELSE [w EXCEPT !.pc = "append", !.iFrame = mx + 1, !.list = append, !.nTruncate = nT]
    BY <1>4, <2>1, <2>2, Zenon
  <2>4. \A i \in 1..mx : log'[i].pg = log[i].pg BY <1>4, <2>1
  <2> QED BY <2>3, <2>4, Zenon
<1>7. PlacedUpTo(mx) BY <1>2, <1>4 DEF TablesInv, SnapshotsPlaced
<1>8. Keeps(mx) BY <1>1, <1>6 DEF Keeps
<1>9. \A m \in Nat : m <= mx => PlacedNext(m) BY <1>5, <1>7, <1>8, KeepsNext DEF HeadersInv
<1>10. w'.hdr = w.hdr /\ (w'.pc = "open" \/ (w'.pc = "append" /\ w'.iFrame = mx + 1))
  <2>1. CASE append = <<>> BY <1>1, <1>6, <2>1
  <2>2. CASE append # <<>> BY <1>3, <1>6, <2>2 DEF WriterType
  <2> QED BY <2>1, <2>2
<1>11. IsGood' BY <1>1, <1>3 DEF IsGood, HdrOk
<1>12. IsAppending' => w'.iFrame - 1 = mx BY <1>5, <1>10 DEF IsAppending
<1>13. SnapshotsPlaced'
  <2>1. \A r \in Readers : rd'[r].pc # "idle" => PlacedNext(rd'[r].mxFrame) BY <1>1, <1>5, <1>9
  <2>2. PlacedNext(aHdr'[0].mxFrame) BY <1>1, <1>5, <1>9
  <2>3. PlacedNext(w'.hdr.mxFrame) BY <1>4, <1>5, <1>9, <1>10
  <2>4. IsAppending' => PlacedNext(w'.iFrame - 1) BY <1>5, <1>9, <1>12
  <2> QED BY <2>1, <2>2, <2>3, <2>4, SnapshotsNext
<1>14. TablesType' BY <1>1 DEF TablesInv, TablesType
<1>15. OrderInv'
  <2>1. \A h \in Tables : IsOrderly(aPgno[h], aHash[h]) BY <1>3 DEF TablesInv, OrderInv
  <2> QED BY <1>1, <2>1 DEF OrderInv, IsOrderly
<1>16. RemainsInv'
  <2>1. ~(w'.iFrame > w'.hdr.mxFrame + 1) \/ w'.pc = "open" BY <1>4, <1>5, <1>10
  <2> QED BY <1>10, <2>1 DEF RemainsInv
<1> QED BY <1>13, <1>14, <1>15, <1>16 DEF TablesInv

\* A step that changes one table keeps the frames whose index it leaves there.
LEMMA OneTableKeeps ==
    ASSUME TablesType, NEW h, NEW pg, NEW slot, OneTable(h, pg, slot), UNCHANGED log, NEW n \in Nat, n <= MaxFrame,
           \A f \in 1..n : walFramePage(f) = h =>
              pg[Index(f)] = aPgno[h][Index(f)] /\ \A k \in Slot : slot[k] = Index(f) <=> aHash[h][k] = Index(f)
    PROVE  Keeps(n)
<1> SUFFICES ASSUME NEW f \in 1..n
             PROVE  /\ aPgno'[walFramePage(f)][Index(f)] = aPgno[walFramePage(f)][Index(f)]
                    /\ \A k \in Slot : aHash'[walFramePage(f)][k] = Index(f) <=> aHash[walFramePage(f)][k] = Index(f)
  BY DEF Keeps
<1>1. f \in 1..MaxFrame BY WalIndexAssumption
<1>2. walFramePage(f) \in Tables BY <1>1, FrameInTables
<1>3. /\ aPgno'[h] = pg /\ aHash'[h] = slot
      /\ \A g \in Tables : g # h => aPgno'[g] = aPgno[g] /\ aHash'[g] = aHash[g]
  BY OneTableIs
<1>4. CASE walFramePage(f) = h BY <1>3, <1>4
<1>5. CASE walFramePage(f) # h BY <1>2, <1>3, <1>5
<1> QED BY <1>4, <1>5

\* A transaction changes one table, and keeps its frames up to n, the last one
\* that anybody refers to.
LEMMA TransactionTables ==
    ASSUME HeadersInv, TablesInv, InTransaction, UNCHANGED <<log, aHdr, rd>>,
           NEW h, NEW pg, NEW slot, OneTable(h, pg, slot), IsOrderly(pg, slot),
           NEW n \in Nat, w.hdr.mxFrame <= n, n <= Len(log), PlacedUpTo(n), Keeps(n),
           IsStoring' \/ InTransaction' => PlacedNext(w'.hdr.mxFrame),
           IsAppending' => PlacedNext(w'.iFrame - 1), RemainsInv'
    PROVE  TablesInv'
<1>1. TablesType BY DEF TablesInv
<1>2. /\ TablesType' /\ aPgno'[h] = pg /\ aHash'[h] = slot
      /\ \A g \in Tables : g # h => aPgno'[g] = aPgno[g] /\ aHash'[g] = aHash[g]
  BY <1>1, OneTableIs
<1>3. /\ IsGood /\ w.hdr.mxFrame \in Nat /\ aHdr[0].mxFrame \in Nat /\ aHdr[0].mxFrame <= w.hdr.mxFrame
      /\ \A r \in Readers : rd[r].pc # "idle" => rd[r].mxFrame \in Nat /\ rd[r].mxFrame <= w.hdr.mxFrame
  BY LiveFrames
<1>4. OrderInv'
  <2> SUFFICES ASSUME NEW g \in Tables PROVE IsOrderly(aPgno[g], aHash[g])' BY DEF OrderInv
  <2>1. IsOrderly(aPgno'[g], aHash'[g])
    <3>1. IsOrderly(aPgno[g], aHash[g]) BY <1>3 DEF TablesInv, OrderInv
    <3>2. CASE g = h BY <1>2, <3>2
    <3>3. CASE g # h BY <1>2, <3>1, <3>3
    <3> QED BY <3>2, <3>3
  <2> QED BY <2>1 DEF IsOrderly
<1>5. \A m \in Nat : m <= n => PlacedNext(m) BY KeepsNext DEF HeadersInv
<1>6. \A r \in Readers : rd'[r].pc # "idle" => PlacedNext(rd'[r].mxFrame)
  <2> SUFFICES ASSUME NEW r \in Readers, rd[r].pc # "idle" PROVE PlacedNext(rd[r].mxFrame) OBVIOUS
  <2>1. rd[r].mxFrame \in Nat /\ rd[r].mxFrame <= n BY <1>3
  <2> QED BY <1>5, <2>1
<1>7. PlacedNext(aHdr'[0].mxFrame)
  <2>1. aHdr[0].mxFrame <= n BY <1>3
  <2> QED BY <1>3, <1>5, <2>1
<1>8. SnapshotsPlaced' BY <1>6, <1>7, SnapshotsNext
<1> QED BY <1>2, <1>4, <1>8 DEF TablesInv

\* The frames before the one that is entered, in its table.
LEMMA BeforeThis ==
    ASSUME HeadersInv, TablesInv, IsAppending
    PROVE  /\ \A f \in 1..(w.iFrame - 1) : walFramePage(f) = iHashNow =>
                 Index(f) \in 1..TableSize(iHashNow) /\ Index(f) < idx /\ Index(f) \in Nat
           /\ \A v \in 1..(idx - 1) : /\ v \in 1..TableSize(iHashNow)
                                      /\ aPgno[iHashNow][v] \in Nat \ {0} /\ HasSlot(aPgno[iHashNow], aHash[iHashNow], v)
<1>1. PICK h, i, e : h = iHashNow /\ i = idx /\ e = w.iFrame OBVIOUS
<1>2. /\ e \in 1..Len(log) /\ Len(log) \in Nat /\ e \in Nat \ {0} /\ h \in Nat /\ iZero(h) \in Nat
      /\ i = Index(e) /\ i \in 1..TableSize(h) /\ i \in Nat \ {0} /\ e = iZero(h) + i
  BY <1>1, AppendingIs
<1>3. h = walFramePage(e) BY <1>1 DEF iHashNow
<1>4. TableSize(h) \in Nat BY SlotCount
<1>5. ASSUME NEW f \in 1..(e - 1), walFramePage(f) = h PROVE Index(f) \in 1..TableSize(h) /\ Index(f) < i /\ Index(f) \in Nat
  <2>1. f \in Nat \ {0} /\ f < e BY <1>2
  <2>2. Index(f) \in 1..TableSize(h) /\ f = iZero(h) + Index(f) BY <1>5, <2>1, FrameTable
  <2>3. Index(f) \in Nat BY <1>4, <2>2
  <2> QED BY <1>2, <2>1, <2>2, <2>3
<1>6. PlacedUpTo(e - 1) BY <1>1 DEF TablesInv, SnapshotsPlaced
<1>7. ASSUME NEW v \in 1..(i - 1)
      PROVE  v \in 1..TableSize(h) /\ aPgno[h][v] \in Nat \ {0} /\ HasSlot(aPgno[h], aHash[h], v)
  <2>1. v \in Nat \ {0} /\ v < i BY <1>2
  <2>2. i <= TableSize(h) BY <1>2, <1>4
  <2>3. v \in 1..TableSize(h) BY <1>2, <1>4, <2>1, <2>2
  <2>4. PICK g : g = iZero(h) + v OBVIOUS
  <2>5. walFramePage(g) = h /\ Index(g) = v BY <1>2, <2>3, <2>4, TableFrame
  <2>6. g \in 1..(e - 1) /\ g \in 1..Len(log) BY <1>2, <2>1, <2>4
  <2>7. Placed(g) BY <1>6, <2>6 DEF PlacedUpTo
  <2>8. aPgno[h][v] = log[g].pg /\ HasSlot(aPgno[h], aHash[h], v) BY <2>5, <2>7 DEF Placed
  <2>9. log[g].pg \in Nat \ {0} BY <2>6, LogPages DEF HeadersInv
  <2> QED BY <2>3, <2>8, <2>9
<1> QED BY <1>1, <1>5, <1>7

\* A table is zeroed for its first frame.
LEMMA AppendZeroTables == ASSUME HeadersInv, TablesInv, AppendZero PROVE TablesInv'
<1>1. UNCHANGED <<log, aHdr, rd>> /\ w.pc = "append" /\ idx = 1 BY DEF AppendZero, indexOnly
<1>2. InTransaction /\ IsAppending BY <1>1 DEF InTransaction, IsAppending
<1>3. WriterType /\ TablesType BY <1>2, InTransactionIs DEF TablesInv
<1>4. PICK h, e, n : h = iHashNow /\ e = w.iFrame /\ n = e - 1 OBVIOUS
<1>5. /\ e \in 1..Len(log) /\ Len(log) \in Nat /\ Len(log) <= MaxFrame /\ w.hdr.mxFrame \in Nat /\ w.hdr.mxFrame < e
      /\ e \in Nat \ {0}
  BY <1>2, <1>4, AppendingIs
<1>6. n \in Nat /\ w.hdr.mxFrame <= n /\ n <= Len(log) /\ n <= MaxFrame BY <1>4, <1>5, WalIndexAssumption
<1>7. OneTable(h, EmptyPgno(h), EmptyHash) BY <1>3, <1>4, AppendZeroIs
<1>8. PlacedUpTo(n) BY <1>2, <1>4 DEF TablesInv, SnapshotsPlaced
<1>9. Keeps(n)
  <2>1. ASSUME NEW f \in 1..n, walFramePage(f) = h PROVE FALSE
    <3>1. Index(f) \in Nat /\ Index(f) \in 1..TableSize(h) /\ Index(f) < 1 BY <1>1, <1>2, <1>4, <2>1, BeforeThis
    <3> QED BY <3>1
  <2> QED BY <1>1, <1>3, <1>6, <1>7, <2>1, OneTableKeeps
<1>10. \A i \in DOMAIN EmptyPgno(h) : EmptyPgno(h)[i] = 0 BY DEF EmptyPgno
<1>11. \A k \in Slot : EmptyHash[k] = 0 BY DEF EmptyHash, Slot
<1>12. IsOrderly(EmptyPgno(h), EmptyHash) BY <1>10, <1>11 DEF IsOrderly
<1>13. w' = [w EXCEPT !.pc = "pgno"] BY DEF AppendZero
<1>14. w'.pc = "pgno" /\ w'.hdr = w.hdr /\ w'.iFrame = w.iFrame BY <1>3, <1>13 DEF WriterType
<1>15. RemainsInv'
  <2>1. iHashNow' = h /\ idx' = 1 BY <1>1, <1>4, <1>14 DEF iHashNow, idx
  <2>2. aPgno'[h] = EmptyPgno(h) /\ aHash'[h] = EmptyHash BY <1>3, <1>7, OneTableIs
  <2>3. IsClean(EmptyPgno(h), EmptyHash, 0) BY <1>10, <1>11 DEF IsClean
  <2>4. IsClean(aPgno'[h], aHash'[h], 1 - 1) BY <2>2, <2>3
  <2> QED BY <1>14, <2>1, <2>4 DEF RemainsInv, IsClean
<1>16. \A m \in Nat : m <= n => PlacedNext(m) BY <1>6, <1>8, <1>9, KeepsNext DEF HeadersInv
<1>17. PlacedNext(w'.hdr.mxFrame) /\ PlacedNext(w'.iFrame - 1) BY <1>4, <1>5, <1>6, <1>14, <1>16
<1> QED BY <1>1, <1>2, <1>6, <1>7, <1>8, <1>9, <1>12, <1>15, <1>17, TransactionTables

\* There is nothing in the way of a frame's page number.
LEMMA NothingAbove ==
    ASSUME HeadersInv, TablesInv, AppendPgno
    PROVE  IsClean(aPgno[iHashNow], aHash[iHashNow], idx - 1)
<1>1. CASE w.pc = "pgno" BY <1>1 DEF TablesInv, RemainsInv
<1>2. CASE w.pc = "append" /\ idx # 1 /\ aPgno[iHashNow][idx] = 0
  <2>1. InTransaction /\ IsAppending BY <1>2 DEF InTransaction, IsAppending
  <2>2. PICK h, i, pg, slot : h = iHashNow /\ i = idx /\ pg = aPgno[iHashNow] /\ slot = aHash[iHashNow] OBVIOUS
  <2>3. h \in Tables /\ i \in 1..TableSize(h) /\ i \in Nat \ {0} BY <2>1, <2>2, AppendingIs
  <2>4. IsGood BY <2>1, InTransactionIs
  <2>5. IsOrderly(pg, slot) BY <2>2, <2>3, <2>4 DEF TablesInv, OrderInv
  <2>6. pg \in [1..TableSize(h) -> {0} \cup Pgno] /\ slot \in [Slot -> 0..TableSize(h)]
    BY <2>2, <2>3 DEF TablesInv, TablesType
  <2>7. TableSize(h) \in Nat BY SlotCount
  <2>8. pg[i] = 0 BY <1>2, <2>2
  <2>9. ASSUME NEW v \in DOMAIN pg, v > i - 1 PROVE pg[v] = 0
    <3>1. v \in 1..TableSize(h) BY <2>6
    <3>2. v \in Nat BY <2>7, <3>1
    <3>3. i \in 1..v BY <2>3, <2>9, <3>2
    <3> QED BY <2>5, <2>8, <3>3 DEF IsOrderly
  <2>10. ASSUME NEW k \in Slot PROVE slot[k] <= i - 1
    <3>1. slot[k] \in 0..TableSize(h) BY <2>6
    <3>2. slot[k] \in Nat BY <2>7, <3>1
    <3>3. slot[k] # 0 => slot[k] \in DOMAIN pg /\ pg[slot[k]] # 0
      <4>1. slot[k] # 0 => slot[k] \in 1..TableSize(h) BY <2>7, <3>1, <3>2
      <4>2. DOMAIN pg = 1..TableSize(h) BY <2>6
      <4> QED BY <2>5, <4>1, <4>2 DEF IsOrderly
    <3>4. slot[k] = 0 \/ ~(slot[k] > i - 1) BY <2>9, <3>3
    <3> QED BY <2>3, <3>2, <3>4
  <2>11. IsClean(pg, slot, i - 1) BY <2>9, <2>10 DEF IsClean
  <2> QED BY <2>2, <2>11
<1> QED BY <1>1, <1>2 DEF AppendPgno

\* The page number of a frame is set.
LEMMA AppendPgnoTables == ASSUME HeadersInv, TablesInv, AppendPgno PROVE TablesInv'
<1>1. UNCHANGED <<log, aHdr, rd>> /\ w.pc \in {"append", "pgno"} BY DEF AppendPgno, indexOnly
<1>2. InTransaction /\ IsAppending BY <1>1 DEF InTransaction, IsAppending
<1>3. WriterType /\ TablesType BY <1>2, InTransactionIs DEF TablesInv
<1>4. PICK h, i, e, n : h = iHashNow /\ i = idx /\ e = w.iFrame /\ n = e - 1 OBVIOUS
<1>5. /\ e \in 1..Len(log) /\ Len(log) \in Nat /\ Len(log) <= MaxFrame /\ w.hdr.mxFrame \in Nat /\ w.hdr.mxFrame < e
      /\ e \in Nat \ {0} /\ h \in Tables /\ i \in 1..TableSize(h) /\ i \in Nat \ {0}
      /\ Head(w.list) \in Nat \ {0}
  <2>1. Head(w.list) \in Pgno /\ Head(w.list) \in Nat BY <1>2, AppendingIs
  <2>2. Head(w.list) # 0 BY <2>1 DEF Pgno
  <2> QED BY <1>2, <1>4, <2>1, <2>2, AppendingIs
<1>6. n \in Nat /\ w.hdr.mxFrame <= n /\ n <= Len(log) /\ n <= MaxFrame BY <1>4, <1>5, WalIndexAssumption
<1>7. PICK old, slot : old = aPgno[h] /\ slot = aHash[h] OBVIOUS
<1>8. PICK pg : OneTable(h, pg, slot) /\ SetsAt(h, i, old, pg) /\ pg[i] = Head(w.list) BY <1>3, <1>4, <1>7, AppendPgnoIs
<1>9. /\ pg \in [1..TableSize(h) -> {0} \cup Pgno] /\ slot \in [Slot -> 0..TableSize(h)]
      /\ \A v \in 1..TableSize(h) : v # i => pg[v] = old[v]
  BY <1>8 DEF SetsAt, OneTable
<1>10. old \in [1..TableSize(h) -> {0} \cup Pgno] /\ TableSize(h) \in Nat BY <1>3, <1>5, <1>7, SlotCount DEF TablesType
<1>11. PlacedUpTo(n) BY <1>2, <1>4 DEF TablesInv, SnapshotsPlaced
<1>12. IsClean(old, slot, i - 1) BY <1>4, <1>7, NothingAbove
<1>13. Keeps(n)
  <2>1. ASSUME NEW f \in 1..n, walFramePage(f) = h
        PROVE  pg[Index(f)] = aPgno[h][Index(f)] /\ \A k \in Slot : slot[k] = Index(f) <=> aHash[h][k] = Index(f)
    <3>1. Index(f) \in 1..TableSize(h) /\ Index(f) < i /\ Index(f) \in Nat BY <1>2, <1>4, <2>1, BeforeThis
    <3>2. Index(f) # i BY <1>5, <3>1
    <3> QED BY <1>7, <1>9, <3>1, <3>2
  <2> QED BY <1>1, <1>3, <1>6, <1>8, <2>1, OneTableKeeps
<1>14. \A v \in 1..(i - 1) : v \in 1..TableSize(h) /\ old[v] \in Nat \ {0} BY <1>2, <1>4, <1>7, BeforeThis
<1>15. \A v \in 1..i : pg[v] # 0
  <2> TAKE v \in 1..i
  <2>1. CASE v = i BY <1>5, <1>8, <2>1
  <2>2. CASE v # i
    <3>1. v \in 1..(i - 1) BY <1>5, <2>2
    <3> QED BY <1>9, <1>14, <2>2, <3>1
  <2> QED BY <2>1, <2>2
<1>16. ASSUME NEW v \in 1..TableSize(h), v > i PROVE pg[v] = 0
  <2>1. v \in Nat BY <1>10
  <2>2. v # i /\ v > i - 1 BY <1>5, <1>16, <2>1
  <2>3. v \in DOMAIN old BY <1>10
  <2> QED BY <1>9, <1>12, <2>2, <2>3 DEF IsClean
<1>17. \A k \in Slot : slot[k] <= i - 1 BY <1>12 DEF IsClean
<1>18. IsOrderly(pg, slot)
  <2>1. ASSUME NEW v \in DOMAIN pg, pg[v] # 0 PROVE \A u \in 1..v : pg[u] # 0
    <3>1. v \in 1..TableSize(h) BY <1>9
    <3>2. v \in Nat BY <1>10, <3>1
    <3>3. v <= i BY <1>5, <1>16, <2>1, <3>1, <3>2
    <3>4. \A u \in 1..v : u \in 1..i BY <1>5, <3>2, <3>3
    <3> QED BY <1>15, <3>4
  <2>2. ASSUME NEW k \in Slot, slot[k] # 0 PROVE pg[slot[k]] # 0
    <3>1. slot[k] \in 0..TableSize(h) BY <1>9
    <3>2. slot[k] \in Nat BY <1>10, <3>1
    <3>3. slot[k] \in 1..i BY <1>5, <1>17, <2>2, <3>2
    <3> QED BY <1>15, <3>3
  <2> QED BY <2>1, <2>2 DEF IsOrderly
<1>19. w' = [w EXCEPT !.pc = "slot"] BY DEF AppendPgno
<1>20. w'.pc = "slot" /\ w'.hdr = w.hdr /\ w'.iFrame = w.iFrame /\ w'.list = w.list BY <1>3, <1>19 DEF WriterType
<1>21. RemainsInv'
  <2>1. iHashNow' = h /\ idx' = i BY <1>4, <1>20 DEF iHashNow, idx
  <2>2. aPgno'[h] = pg /\ aHash'[h] = slot BY <1>3, <1>8, OneTableIs
  <2>3. \A v \in DOMAIN pg : v > i => pg[v] = 0
    <3>1. DOMAIN pg = 1..TableSize(h) BY <1>9
    <3> QED BY <1>16, <3>1
  <2> QED BY <1>8, <1>17, <1>20, <2>1, <2>2, <2>3 DEF RemainsInv
<1>22. \A m \in Nat : m <= n => PlacedNext(m) BY <1>6, <1>11, <1>13, KeepsNext DEF HeadersInv
<1>23. PlacedNext(w'.hdr.mxFrame) /\ PlacedNext(w'.iFrame - 1) BY <1>4, <1>5, <1>6, <1>20, <1>22
<1> QED BY <1>1, <1>2, <1>6, <1>8, <1>11, <1>13, <1>18, <1>21, <1>23, TransactionTables

\* The places a writer may go to from the slot of a frame.
LEMMA AppendSlotNext ==
    ASSUME HeadersInv, AppendSlot, NEW e, e = w.iFrame
    PROVE  \/ w'.pc = "append" /\ w'.hdr = w.hdr /\ w'.iFrame = e + 1
           \/ w'.pc \in {"hdr1", "open"} /\ w'.hdr.mxFrame = e
<1>1. w.pc = "slot" BY DEF AppendSlot
<1>2. InTransaction BY <1>1 DEF InTransaction
<1>3. WriterType BY <1>2, InTransactionIs
<1>4. PICK n : n = IF w.nTruncate = 0 THEN w.hdr.nPage ELSE w.nTruncate OBVIOUS
<1>5. PICK hdr : hdr = Hdr(w.iFrame, n, w.hdr.aSalt) OBVIOUS
<1>6. PICK t, f : t = Tail(w.list) /\ f = w.iFrame + 1 OBVIOUS
<1>7. PICK a : a = [w EXCEPT !.list = t, !.iFrame = f] OBVIOUS
<1>8. w' = IF Len(w.list) > 1 THEN [a EXCEPT !.pc = "append"]
           ELSE IF w.nTruncate # 0 THEN WriteHdr(hdr, "commit")
           ELSE Between(w, hdr)
  BY <1>4, <1>5, <1>6, <1>7, Zenon DEF AppendSlot
<1>9. hdr.mxFrame = e BY <1>5 DEF Hdr
<1>10. CASE w' = [a EXCEPT !.pc = "append"] BY <1>3, <1>6, <1>7, <1>10 DEF WriterType
<1>11. CASE w' = WriteHdr(hdr, "commit")
  <2>1. w' = [pc |-> "hdr1", ret |-> "commit", hdr |-> hdr, iFrame |-> 0, list |-> <<>>,
              nTruncate |-> 0, todo |-> Words, save |-> w.save]
    BY <1>11, WriterIs
  <2>2. w'.pc = "hdr1" /\ w'.hdr = hdr BY <2>1
  <2> QED BY <1>9, <2>2
<1>12. CASE w' = Between(w, hdr)
  <2>1. w' = [pc |-> "open", ret |-> "idle", hdr |-> hdr, iFrame |-> 0, list |-> <<>>,
              nTruncate |-> 0, todo |-> {}, save |-> w.save]
    BY <1>12, WriterIs
  <2>2. w'.pc = "open" /\ w'.hdr = hdr BY <2>1
  <2> QED BY <1>9, <2>2
<1> QED BY <1>8, <1>10, <1>11, <1>12

\* The slot of a frame is set: the frame is found.
LEMMA AppendSlotTables == ASSUME HeadersInv, TablesInv, AppendSlot PROVE TablesInv'
<1>1. UNCHANGED <<log, aHdr, rd>> /\ w.pc = "slot" BY DEF AppendSlot
<1>2. InTransaction /\ IsAppending BY <1>1 DEF InTransaction, IsAppending
<1>3. IsGood /\ TablesType BY <1>2, InTransactionIs DEF TablesInv
<1>4. PICK h, i, e, n, p : h = iHashNow /\ i = idx /\ e = w.iFrame /\ n = e - 1 /\ p = Head(w.list) OBVIOUS
<1>5. /\ e \in 1..Len(log) /\ Len(log) \in Nat /\ Len(log) <= MaxFrame /\ w.hdr.mxFrame \in Nat /\ w.hdr.mxFrame < e
      /\ e \in Nat \ {0} /\ h \in Tables /\ i \in 1..TableSize(h) /\ i \in Nat \ {0} /\ i = Index(e)
      /\ p = log[e].pg /\ p \in Nat \ {0}
  <2>1. Head(w.list) \in Pgno /\ Head(w.list) \in Nat BY <1>2, AppendingIs
  <2>2. Head(w.list) # 0 BY <2>1 DEF Pgno
  <2> QED BY <1>2, <1>4, <2>1, <2>2, AppendingIs
<1>6. n \in Nat /\ w.hdr.mxFrame <= n /\ n <= Len(log) /\ n <= MaxFrame BY <1>4, <1>5, WalIndexAssumption
<1>7. PICK pg, old : pg = aPgno[h] /\ old = aHash[h] OBVIOUS
<1>8. PICK slot : OneTable(h, pg, slot) /\ slot = [old EXCEPT ![FreeSlot(old, p)] = i] BY <1>3, <1>4, <1>7, AppendSlotIs
<1>9. /\ pg \in [1..TableSize(h) -> {0} \cup Pgno] /\ old \in [Slot -> 0..TableSize(h)]
      /\ TableSize(h) \in Nat /\ TableSize(h) < HASHTABLE_NSLOT /\ HASHTABLE_NSLOT \in Nat
  BY <1>3, <1>5, <1>7, SlotCount DEF TablesType
<1>10. /\ (\A v \in DOMAIN pg : v > i => pg[v] = 0) /\ (\A k \in Slot : old[k] <= i - 1) /\ pg[i] = p
  BY <1>1, <1>4, <1>7 DEF TablesInv, RemainsInv
<1>11. PlacedUpTo(n) BY <1>2, <1>4 DEF TablesInv, SnapshotsPlaced
<1>12. \A v \in 1..(i - 1) : pg[v] \in Nat \ {0} /\ HasSlot(pg, old, v) BY <1>2, <1>4, <1>7, BeforeThis
<1>13. FilledUpTo(i - 1, pg, old)
  <2>1. old \in [Slot -> Nat] BY <1>9
  <2> QED BY <1>10, <1>12, <2>1 DEF FilledUpTo
<1>14. Puts(i, p, pg, old, pg, slot) BY <1>8, <1>10 DEF Puts
<1>15. i <= HASHTABLE_NSLOT
  <2>1. i <= TableSize(h) BY <1>5, <1>9
  <2> QED BY <1>5, <1>9, <2>1
<1>16. /\ FilledUpTo(i, pg, slot)
       /\ \A v \in 1..(i - 1), k \in Slot : slot[k] = v <=> old[k] = v
       /\ \A k \in Slot : slot[k] = old[k] \/ slot[k] = i
  BY <1>5, <1>13, <1>14, <1>15, EnterSlot
<1>17. Keeps(n)
  <2>1. ASSUME NEW f \in 1..n, walFramePage(f) = h
        PROVE  pg[Index(f)] = aPgno[h][Index(f)] /\ \A k \in Slot : slot[k] = Index(f) <=> aHash[h][k] = Index(f)
    <3>1. Index(f) \in 1..TableSize(h) /\ Index(f) < i /\ Index(f) \in Nat BY <1>2, <1>4, <2>1, BeforeThis
    <3>2. Index(f) \in 1..(i - 1)
      <4>1. Index(f) # 0 BY <1>9, <3>1
      <4> QED BY <1>5, <3>1, <4>1
    <3> QED BY <1>7, <1>16, <3>2
  <2>2. OneTable(h, pg, slot) /\ UNCHANGED log BY <1>1, <1>8
  <2> QED BY <1>3, <1>6, <2>1, <2>2, OneTableKeeps
<1>18. aPgno'[h] = pg /\ aHash'[h] = slot BY <1>3, <1>8, OneTableIs
<1>19. PlacedNext(e)
  <2>1. PlacedNext(n) BY <1>6, <1>11, <1>17, KeepsNext DEF HeadersInv
  <2>2. i \in 1..i BY <1>5
  <2>3. HasSlot(pg, slot, i) BY <1>16, <2>2 DEF FilledUpTo
  <2>4. h = walFramePage(e) BY <1>4 DEF iHashNow
  <2>5. \A f \in 1..e : f = e \/ f \in 1..n BY <1>4, <1>5
  <2>6. log' = log BY <1>1
  <2>7. aPgno'[walFramePage(e)][Index(e)] = log'[e].pg BY <1>5, <1>10, <1>18, <2>4, <2>6
  <2>8. HasSlot(aPgno'[walFramePage(e)], aHash'[walFramePage(e)], Index(e)) BY <1>5, <1>18, <2>3, <2>4
  <2> QED BY <2>1, <2>5, <2>7, <2>8 DEF PlacedNext
<1>20. IsOrderly(pg, slot)
  <2>1. IsOrderly(pg, old) BY <1>3, <1>5, <1>7 DEF TablesInv, OrderInv
  <2>2. ASSUME NEW k \in Slot, slot[k] # 0 PROVE pg[slot[k]] # 0
    <3>1. CASE slot[k] = i BY <1>5, <1>10, <3>1
    <3>2. CASE slot[k] = old[k] BY <2>1, <2>2, <3>2 DEF IsOrderly
    <3> QED BY <1>16, <3>1, <3>2
  <2> QED BY <2>1, <2>2 DEF IsOrderly
<1>21. \/ w'.pc = "append" /\ w'.hdr = w.hdr /\ w'.iFrame = e + 1
       \/ w'.pc \in {"hdr1", "open"} /\ w'.hdr.mxFrame = e
  BY <1>4, AppendSlotNext
<1>22. PlacedNext(w'.hdr.mxFrame) /\ (IsAppending' => PlacedNext(w'.iFrame - 1))
  <2>1. \A m \in Nat : m <= n => PlacedNext(m) BY <1>6, <1>11, <1>17, KeepsNext DEF HeadersInv
  <2>2. CASE w'.pc = "append" /\ w'.hdr = w.hdr /\ w'.iFrame = e + 1
    <3>1. w'.iFrame - 1 = e BY <1>5, <2>2
    <3> QED BY <1>5, <1>6, <1>19, <2>1, <2>2, <3>1
  <2>3. CASE w'.pc \in {"hdr1", "open"} /\ w'.hdr.mxFrame = e BY <1>19, <2>3 DEF IsAppending
  <2> QED BY <1>21, <2>2, <2>3
<1>23. RemainsInv'
  <2>1. CASE w'.pc \in {"hdr1", "open"} BY <2>1 DEF RemainsInv
  <2>2. CASE w'.pc = "append" /\ w'.iFrame = e + 1
    <3> SUFFICES ASSUME idx' # 1 PROVE IsClean(aPgno[iHashNow], aHash[iHashNow], idx - 1)' BY <2>2 DEF RemainsInv
    <3>1. iHashNow' = walFramePage(e + 1) /\ idx' = Index(e + 1) BY <2>2 DEF iHashNow, idx, Index
    <3>2. walFramePage(e + 1) = walFramePage(e) /\ Index(e + 1) = i + 1 BY <1>5, <3>1, NextFrame
    <3>3. iHashNow' = h /\ idx' = i + 1 /\ i + 1 - 1 = i BY <1>4, <1>5, <3>1, <3>2 DEF iHashNow
    <3>4. \A k \in Slot : slot[k] <= i BY <1>16 DEF FilledUpTo
    <3>5. IsClean(pg, slot, i) BY <1>10, <3>4 DEF IsClean
    <3>6. IsClean(aPgno'[h], aHash'[h], i) BY <1>18, <3>5
    <3>7. idx' - 1 = i BY <1>5, <3>3
    <3> QED BY <3>3, <3>6, <3>7 DEF IsClean
  <2> QED BY <1>21, <2>1, <2>2
<1> QED BY <1>1, <1>2, <1>6, <1>8, <1>11, <1>17, <1>20, <1>22, <1>23, TransactionTables

\* walCleanupHash leaves the frames up to the limit.
LEMMA CleanupHashTables == ASSUME HeadersInv, TablesInv, CleanupHash, ~KillInMemset PROVE TablesInv'
<1>1. UNCHANGED <<log, aHdr, rd>> /\ w.pc = "cleanup" BY DEF CleanupHash, indexOnly
<1>2. InTransaction BY <1>1 DEF InTransaction
<1>3. /\ WriterType /\ IsGood /\ TablesType /\ w.hdr.mxFrame # 0 /\ w.ret \in {"idle", "open", "pgno"}
  BY <1>1, <1>2, InTransactionIs DEF TablesInv
<1>4. PICK n, h, lim : n = w.hdr.mxFrame /\ h = walFramePage(n) /\ lim = Index(n) OBVIOUS
<1>5. n \in Nat \ {0} /\ n <= Len(log) /\ n <= MaxFrame /\ Len(log) \in Nat
  <2>1. n \in Nat /\ n <= Len(log) /\ Len(log) \in Nat /\ Len(log) <= MaxFrame BY <1>2, <1>4, LiveFrames
  <2> QED BY <1>3, <1>4, <2>1, WalIndexAssumption
<1>6. PICK old, oldSlot : old = aPgno[h] /\ oldSlot = aHash[h] OBVIOUS
<1>7. h \in Tables /\ lim \in 1..TableSize(h) /\ lim \in Nat BY <1>3, <1>4, CleanupHashIs
<1>8. PICK pg, slot :
        /\ OneTable(h, pg, slot)
        /\ \/ pg = old /\ w' = w /\ \E k \in Slot : oldSlot[k] > lim /\ slot = [oldSlot EXCEPT ![k] = 0]
           \/ /\ slot = oldSlot /\ \A k \in Slot : ~(slot[k] > lim)
              /\ \A i \in 1..TableSize(h) : pg[i] = old[i] \/ (i > lim /\ pg[i] = 0)
              /\ \A i \in 1..TableSize(h) : i > lim => pg[i] = 0
              /\ w' = IF w.ret = "idle" THEN NoWriter ELSE [w EXCEPT !.pc = w.ret, !.ret = "idle"]
  BY <1>3, <1>4, <1>6, CleanupHashIs
<1>9. OneTable(h, pg, slot) BY <1>8
<1>10. /\ old \in [1..TableSize(h) -> {0} \cup Pgno] /\ oldSlot \in [Slot -> 0..TableSize(h)]
       /\ pg \in [1..TableSize(h) -> {0} \cup Pgno] /\ slot \in [Slot -> 0..TableSize(h)] /\ TableSize(h) \in Nat
  BY <1>3, <1>6, <1>7, <1>9, SlotCount DEF TablesType, OneTable
<1>11. IsOrderly(old, oldSlot) BY <1>3, <1>6, <1>7 DEF TablesInv, OrderInv
<1>12. \A i \in 1..lim : pg[i] = old[i]
  <2> TAKE i \in 1..lim
  <2>1. i \in 1..TableSize(h) /\ ~(i > lim)
    <3>1. i \in Nat /\ i <= lim /\ lim <= TableSize(h) /\ 1 <= i BY <1>7, <1>10
    <3> QED BY <1>7, <1>10, <3>1
  <2> QED BY <1>8, <2>1
<1>13. \A i \in 1..lim, k \in Slot : slot[k] = i <=> oldSlot[k] = i
  <2> SUFFICES ASSUME NEW i \in 1..lim, NEW k \in Slot PROVE slot[k] = i <=> oldSlot[k] = i OBVIOUS
  <2>1. CASE slot = oldSlot BY <2>1
  <2>2. CASE \E x \in Slot : oldSlot[x] > lim /\ slot = [oldSlot EXCEPT ![x] = 0]
    <3>1. PICK x \in Slot : oldSlot[x] > lim /\ slot = [oldSlot EXCEPT ![x] = 0] BY <2>2
    <3>2. slot[x] = 0 /\ (k # x => slot[k] = oldSlot[k]) BY <1>10, <3>1
    <3>3. i # 0 /\ oldSlot[x] # i
      <4>1. oldSlot[x] \in Nat BY <1>10
      <4> QED BY <1>7, <3>1, <4>1
    <3> QED BY <3>2, <3>3
  <2> QED BY <1>8, <2>1, <2>2
<1>14. Keeps(n)
  <2>1. ASSUME NEW f \in 1..n, walFramePage(f) = h
        PROVE  pg[Index(f)] = aPgno[h][Index(f)] /\ \A k \in Slot : slot[k] = Index(f) <=> aHash[h][k] = Index(f)
    <3>1. f \in Nat \ {0} /\ f <= n BY <1>5
    <3>2. Index(f) <= lim BY <1>4, <1>5, <2>1, <3>1, FrameOrder
    <3>3. Index(f) \in 1..TableSize(h) BY <2>1, <3>1, FrameTable
    <3>4. Index(f) \in Nat /\ 1 <= Index(f) BY <1>10, <3>3
    <3>5. Index(f) \in 1..lim BY <1>7, <3>2, <3>4
    <3> QED BY <1>6, <1>12, <1>13, <3>5
  <2>2. UNCHANGED log BY <1>1
  <2> QED BY <1>3, <1>5, <1>9, <2>1, <2>2, OneTableKeeps
<1>15. IsOrderly(pg, slot)
  <2>1. CASE pg = old /\ \E k \in Slot : oldSlot[k] > lim /\ slot = [oldSlot EXCEPT ![k] = 0]
    <3>1. \A k \in Slot : slot[k] # 0 => slot[k] = oldSlot[k] BY <1>10, <2>1
    <3> QED BY <1>11, <2>1, <3>1 DEF IsOrderly
  <2>2. CASE /\ slot = oldSlot /\ \A k \in Slot : ~(slot[k] > lim)
             /\ \A i \in 1..TableSize(h) : i > lim => pg[i] = 0
    <3>1. ASSUME NEW i \in DOMAIN pg, pg[i] # 0 PROVE \A u \in 1..i : pg[u] # 0
      <4>1. i \in 1..TableSize(h) BY <1>10
      <4>2. i \in Nat /\ 1 <= i BY <1>10, <4>1
      <4>3. i <= lim BY <1>7, <2>2, <3>1, <4>1, <4>2
      <4>4. i \in 1..lim /\ \A u \in 1..i : u \in 1..lim BY <1>7, <4>2, <4>3
      <4>5. old[i] # 0 /\ i \in DOMAIN old BY <1>10, <1>12, <3>1, <4>1, <4>4
      <4>6. \A u \in 1..i : old[u] # 0 BY <1>11, <4>5 DEF IsOrderly
      <4> QED BY <1>12, <4>4, <4>6
    <3>2. ASSUME NEW k \in Slot, slot[k] # 0 PROVE pg[slot[k]] # 0
      <4>1. slot[k] \in 0..TableSize(h) BY <1>10
      <4>2. slot[k] \in Nat BY <1>10, <4>1
      <4>3. slot[k] \in 1..lim BY <1>7, <2>2, <3>2, <4>2
      <4>4. old[slot[k]] # 0 BY <1>11, <2>2, <3>2 DEF IsOrderly
      <4> QED BY <1>12, <4>3, <4>4
    <3> QED BY <3>1, <3>2 DEF IsOrderly
  <2> QED BY <1>8, <2>1, <2>2
<1>16. PlacedUpTo(n) BY <1>2, <1>4 DEF TablesInv, SnapshotsPlaced
<1>17. PlacedNext(n) BY <1>5, <1>14, <1>16, KeepsNext DEF HeadersInv
<1>18. w.ret = "pgno" => w.iFrame = n + 1 /\ idx # 1 BY <1>1, <1>4 DEF TablesInv, RemainsInv
<1>19. CASE w' = w
  <2>1. PlacedNext(w'.hdr.mxFrame) BY <1>4, <1>17, <1>19
  <2>2. IsAppending' => w.ret = "pgno" BY <1>1, <1>19 DEF IsAppending
  <2>3. IsAppending' => PlacedNext(w'.iFrame - 1)
    <3> HAVE IsAppending'
    <3>1. w'.iFrame - 1 = n BY <1>5, <1>18, <1>19, <2>2
    <3> QED BY <1>17, <3>1
  <2>4. RemainsInv' BY <1>1, <1>4, <1>18, <1>19 DEF RemainsInv, idx, iHashNow
  <2>5. w.hdr.mxFrame <= n /\ n \in Nat BY <1>4, <1>5
  <2> QED BY <1>1, <1>2, <1>5, <1>9, <1>14, <1>15, <1>16, <2>1, <2>3, <2>4, <2>5, TransactionTables
<1>20. CASE /\ slot = oldSlot /\ \A k \in Slot : ~(slot[k] > lim)
            /\ \A i \in 1..TableSize(h) : i > lim => pg[i] = 0
            /\ w' = IF w.ret = "idle" THEN NoWriter ELSE [w EXCEPT !.pc = w.ret, !.ret = "idle"]
  <2>1. PICK ret : ret = w.ret OBVIOUS
  <2>2. \/ ret = "idle" /\ w'.pc = "idle"
        \/ ret \in {"open", "pgno"} /\ w'.pc = ret /\ w'.hdr = w.hdr /\ w'.iFrame = w.iFrame
    <3>1. CASE ret = "idle"
      <4>1. w' = NoWriter BY <1>20, <2>1, <3>1
      <4> QED BY <3>1, <4>1 DEF NoWriter
    <3>2. CASE ret \in {"open", "pgno"}
      <4>1. w' = [w EXCEPT !.pc = ret, !.ret = "idle"] BY <1>20, <2>1, <3>2
      <4> QED BY <1>3, <3>2, <4>1 DEF WriterType
    <3> QED BY <1>3, <2>1, <3>1, <3>2
  <2>3. IsStoring' \/ InTransaction' => PlacedNext(w'.hdr.mxFrame) BY <1>4, <1>17, <2>2 DEF IsStoring, InTransaction
  <2>4. IsAppending' => PlacedNext(w'.iFrame - 1)
    <3> HAVE IsAppending'
    <3>1. ret = "pgno" /\ w'.iFrame = w.iFrame BY <2>2 DEF IsAppending
    <3>2. w'.iFrame - 1 = n BY <1>5, <1>18, <2>1, <3>1
    <3> QED BY <1>17, <3>2
  <2>5. RemainsInv'
    <3>1. CASE w'.pc # "pgno" BY <2>2, <3>1 DEF RemainsInv
    <3>2. CASE w'.pc = "pgno"
      <4>1. w.iFrame = n + 1 /\ idx # 1 /\ w'.iFrame = n + 1 BY <1>18, <2>1, <2>2, <3>2
      <4>2. iHashNow' = walFramePage(n + 1) /\ idx' = Index(n + 1) /\ idx = Index(n + 1) BY <4>1 DEF iHashNow, idx, Index
      <4>3. iHashNow' = h /\ idx' = lim + 1 BY <1>4, <1>5, <4>1, <4>2, NextFrame
      <4>4. idx' - 1 = lim BY <1>7, <4>3
      <4>5. aPgno'[h] = pg /\ aHash'[h] = slot BY <1>3, <1>9, OneTableIs
      <4>6. \A i \in DOMAIN pg : i > lim => pg[i] = 0
        <5>1. DOMAIN pg = 1..TableSize(h) BY <1>10
        <5> QED BY <1>20, <5>1
      <4>7. \A k \in Slot : slot[k] <= lim
        <5> TAKE k \in Slot
        <5>1. slot[k] \in Nat BY <1>10
        <5> QED BY <1>7, <1>20, <5>1
      <4>8. IsClean(aPgno'[h], aHash'[h], lim) BY <4>5, <4>6, <4>7 DEF IsClean
      <4>9. IsClean(aPgno[iHashNow], aHash[iHashNow], idx - 1)' BY <4>3, <4>4, <4>8 DEF IsClean
      <4> QED BY <3>2, <4>9 DEF RemainsInv
    <3> QED BY <3>1, <3>2
  <2>6. w.hdr.mxFrame <= n /\ n \in Nat BY <1>4, <1>5
  <2> QED BY <1>1, <1>2, <1>5, <1>9, <1>14, <1>15, <1>16, <2>3, <2>4, <2>5, <2>6, TransactionTables
<1> QED BY <1>8, <1>19, <1>20

\* A recovery has the same slots for the frames of a snapshot.
LEMMA RebuiltSame ==
    ASSUME LogInv, NEW n \in Nat, n <= Len(Valid), PlacedUpTo(n), NEW f \in 1..n, NEW h, h = walFramePage(f)
    PROVE  /\ h \in Tables /\ Rebuilt[h].pg[Index(f)] = aPgno[h][Index(f)]
           /\ \A k \in Slot : aHash[h][k] = Index(f) <=> Rebuilt[h].slot[k] = Index(f)
<1>1. /\ Len(Valid) \in Nat /\ Len(Valid) <= Len(log) /\ Len(log) <= MaxFrame /\ Len(log) \in Nat
      /\ AllHold(Len(Valid), Rebuilt)
  BY RebuiltHolds DEF LogInv
<1>2. f \in Nat \ {0} /\ f \in 1..MaxFrame BY <1>1, WalIndexAssumption
<1>3. h \in Tables /\ Tables \subseteq Nat BY <1>2, FrameInTables
<1>4. PICK pg, slot, pg2, slot2 : pg = aPgno[h] /\ slot = aHash[h] /\ pg2 = Rebuilt[h].pg /\ slot2 = Rebuilt[h].slot OBVIOUS
<1>5. Holds(Len(Valid), h, pg2, slot2) BY <1>1, <1>3, <1>4 DEF AllHold
<1>6. PICK i : i = Index(f) OBVIOUS
<1>7. i \in 1..TableSize(h) /\ TableSize(h) \in Nat BY <1>2, <1>6, FrameTable, SlotCount
<1>8. i \in Nat /\ i \in 1..i BY <1>7
<1>9. ASSUME NEW v \in 1..i
      PROVE  pg[v] \in Nat /\ pg2[v] = pg[v] /\ HasSlot(pg, slot, v) /\ HasSlot(pg2, slot2, v)
  <2>1. PICK g : g = iZero(h) + v OBVIOUS
  <2>2. g \in 1..f /\ walFramePage(g) = h /\ Index(g) = v BY <1>2, <1>6, <2>1, FrameBefore
  <2>3. g \in Nat /\ g \in 1..n /\ g \in 1..Len(log) /\ g <= Len(Valid) BY <1>1, <1>2, <2>2
  <2>4. Placed(g) BY <2>3 DEF PlacedUpTo
  <2>5. pg[v] = log[g].pg /\ HasSlot(pg, slot, v) BY <1>4, <2>2, <2>4 DEF Placed
  <2>6. log[g].pg \in Nat BY <2>3, LogPages
  <2>7. v \in 1..TableSize(h) BY <1>7
  <2>8. pg2[v] = log[g].pg /\ HasSlot(pg2, slot2, v) BY <1>5, <2>1, <2>3, <2>7 DEF Holds
  <2> QED BY <2>5, <2>6, <2>8
<1>10. \A v \in 1..i, k \in Slot : slot[k] = v <=> slot2[k] = v
  <2>1. BothHave(i, pg, slot, pg2, slot2) BY <1>9 DEF BothHave
  <2> QED BY <1>8, <2>1, SlotsUnique
<1> QED BY <1>3, <1>4, <1>6, <1>8, <1>9, <1>10

\* A table of a recovery is in order.
LEMMA HoldsOrderly ==
    ASSUME LogInv, NEW n \in Nat, n <= Len(log), NEW h \in Nat, NEW pg, NEW slot, Holds(n, h, pg, slot)
    PROVE  IsOrderly(pg, slot)
<1>1. /\ pg \in [1..TableSize(h) -> {0} \cup Pgno] /\ slot \in [Slot -> 0..TableSize(h)] /\ TableSize(h) \in Nat
      /\ iZero(h) \in Nat
  <2>1. TableSize(h) \in Nat \ {0} BY SlotCount
  <2>2. 1 \in 1..TableSize(h) BY <2>1
  <2> QED BY <2>1, <2>2, TableFrame DEF Holds
<1>2. ASSUME NEW i \in 1..TableSize(h) PROVE pg[i] # 0 <=> iZero(h) + i <= n
  <2>1. i \in Nat \ {0} BY <1>1
  <2>2. CASE iZero(h) + i <= n
    <3>1. iZero(h) + i \in 1..Len(log) BY <1>1, <2>1, <2>2 DEF LogInv
    <3>2. log[iZero(h) + i].pg # 0 BY <3>1, LogPages
    <3> QED BY <2>2, <3>2 DEF Holds
  <2>3. CASE ~(iZero(h) + i <= n) BY <2>3 DEF Holds
  <2> QED BY <2>2, <2>3
<1>3. ASSUME NEW i \in DOMAIN pg, pg[i] # 0 PROVE \A u \in 1..i : pg[u] # 0
  <2> TAKE u \in 1..i
  <2>1. i \in 1..TableSize(h) BY <1>1
  <2>2. i \in Nat BY <1>1, <2>1
  <2>3. u \in 1..TableSize(h) /\ u \in Nat /\ u <= i BY <1>1, <2>1, <2>2
  <2>4. iZero(h) + i <= n BY <1>2, <1>3, <2>1
  <2>5. iZero(h) + u <= n BY <1>1, <2>2, <2>3, <2>4
  <2> QED BY <1>2, <2>3, <2>5
<1>4. ASSUME NEW k \in Slot, slot[k] # 0 PROVE pg[slot[k]] # 0
  <2>1. slot[k] \in 0..TableSize(h) /\ iZero(h) + slot[k] <= n BY <1>1, <1>4 DEF Holds
  <2>2. slot[k] \in 1..TableSize(h) BY <1>1, <1>4, <2>1
  <2> QED BY <1>2, <2>1, <2>2
<1> QED BY <1>3, <1>4 DEF IsOrderly

\* The tables are copied over, one word after the other, under the readers.
LEMMA RecoverTables == ASSUME HeadersInv, TablesInv, Recover PROVE TablesInv'
<1>1. UNCHANGED <<log, aHdr, rd>> /\ w.pc = "recover" BY DEF Recover
<1>2. LogInv /\ TablesType /\ ~IsGood BY <1>1 DEF HeadersInv, WriterInv, TablesInv
<1>3. ~IsGood' BY <1>1, <1>2 DEF IsGood, HdrOk
<1>4. PICK n : n = Len(Valid) OBVIOUS
<1>5. /\ n \in Nat /\ n <= Len(log) /\ AllHold(n, Rebuilt) /\ Len(log) \in Nat /\ Len(log) <= MaxFrame
      /\ MaxFrame \in Nat
  BY <1>2, <1>4, RebuiltHolds, WalIndexAssumption DEF LogInv
<1>6. Len(Valid)' = n BY <1>1, <1>4 DEF Valid, Lowest
<1>7. ASSUME NEW r \in Readers, rd[r].pc # "idle"
      PROVE  PlacedUpTo(rd[r].mxFrame) /\ rd[r].mxFrame \in Nat /\ rd[r].mxFrame <= n
  <2>1. IsCommit(rd[r].mxFrame) BY <1>7 DEF HeadersInv, ReadersInv, ReaderInv
  <2>2. rd[r].mxFrame \in Nat BY <1>7, LiveFrames
  <2>3. rd[r].mxFrame <= n BY <1>2, <1>4, <2>1, <2>2, CommitIsValid
  <2> QED BY <1>7, <2>2, <2>3 DEF TablesInv, SnapshotsPlaced
<1>8. Tables \subseteq Nat
  <2>1. 1 \in 1..MaxFrame BY WalIndexAssumption
  <2> QED BY <2>1, FrameInTables
<1>9. n + 1 \in Nat \ {0} /\ walFramePage(n + 1) \in Nat
  <2>1. n + 1 \in Nat \ {0} BY <1>5
  <2> QED BY <2>1, FrameTable
<1>10. CASE \E h, pg, slot :
              /\ OneTable(h, pg, slot) /\ w' = w /\ h <= walFramePage(Len(Valid) + 1)
              /\ \A i \in 1..TableSize(h) : pg[i] \in {aPgno[h][i], Rebuilt[h].pg[i]}
              /\ \A k \in Slot : slot[k] \in {aHash[h][k], Rebuilt[h].slot[k]}
  <2>1. PICK h, pg, slot :
              /\ OneTable(h, pg, slot) /\ w' = w /\ h <= walFramePage(n + 1)
              /\ \A i \in 1..TableSize(h) : pg[i] \in {aPgno[h][i], Rebuilt[h].pg[i]}
              /\ \A k \in Slot : slot[k] \in {aHash[h][k], Rebuilt[h].slot[k]}
    BY <1>4, <1>10
  <2>2. OneTable(h, pg, slot) BY <2>1
  <2>3. /\ TablesType' /\ aPgno'[h] = pg /\ aHash'[h] = slot
        /\ \A g \in Tables : g # h => aPgno'[g] = aPgno[g] /\ aHash'[g] = aHash[g]
    BY <1>2, <2>2, OneTableIs
  <2>4. w'.pc = "recover" BY <1>1, <2>1
  <2>5. ~IsStoring' /\ ~InTransaction' /\ ~IsAppending' BY <2>4 DEF IsStoring, InTransaction, IsAppending
  <2>6. ASSUME NEW m \in Nat, m <= n, PlacedUpTo(m) PROVE Keeps(m)
    <3>1. ASSUME NEW f \in 1..m, walFramePage(f) = h
          PROVE  pg[Index(f)] = aPgno[h][Index(f)] /\ \A k \in Slot : slot[k] = Index(f) <=> aHash[h][k] = Index(f)
      <4>1. /\ Rebuilt[h].pg[Index(f)] = aPgno[h][Index(f)]
            /\ \A k \in Slot : aHash[h][k] = Index(f) <=> Rebuilt[h].slot[k] = Index(f)
        BY <1>2, <1>4, <2>6, <3>1, RebuiltSame
      <4>2. f \in Nat \ {0} OBVIOUS
      <4>3. Index(f) \in 1..TableSize(h) BY <3>1, <4>2, FrameTable
      <4> QED BY <2>1, <4>1, <4>3
    <3>2. m <= MaxFrame BY <1>5, <2>6
    <3>3. UNCHANGED log BY <1>1
    <3> QED BY <1>2, <2>2, <3>1, <3>2, <3>3, OneTableKeeps
  <2>7. ASSUME NEW r \in Readers, rd'[r].pc # "idle" PROVE PlacedNext(rd'[r].mxFrame)
    <3>1. PICK m : m = rd[r].mxFrame OBVIOUS
    <3>2. PlacedUpTo(m) /\ m \in Nat /\ m <= n /\ rd'[r].mxFrame = m BY <1>1, <1>7, <2>7, <3>1
    <3>3. Keeps(m) /\ m <= Len(log) /\ m <= m BY <1>5, <2>6, <3>2
    <3> QED BY <1>2, <3>2, <3>3, KeepsNext
  <2>8. SnapshotsPlaced' BY <1>3, <2>5, <2>7, SnapshotsNext
  <2>9. OrderInv'
    <3> SUFFICES ASSUME NEW g \in Tables, g > walFramePage(Len(Valid)' + 1) PROVE IsOrderly(aPgno[g], aHash[g])'
      BY <1>3, <2>5 DEF OrderInv
    <3>1. g > walFramePage(n + 1) BY <1>6
    <3>2. g # h BY <1>8, <1>9, <2>1, <3>1
    <3>3. IsOrderly(aPgno[g], aHash[g]) BY <1>4, <3>1 DEF TablesInv, OrderInv
    <3>4. IsOrderly(aPgno'[g], aHash'[g]) BY <2>3, <3>2, <3>3
    <3> QED BY <3>4 DEF IsOrderly
  <2>10. RemainsInv' BY <2>4 DEF RemainsInv
  <2> QED BY <2>3, <2>8, <2>9, <2>10 DEF TablesInv
<1>11. CASE /\ UNCHANGED <<aPgno, aHash>> /\ IsStoring'
            /\ w'.hdr.mxFrame \in Nat /\ w'.hdr.mxFrame <= Len(Valid)
            /\ \A h \in Tables : h <= walFramePage(Len(Valid) + 1) =>
                  aPgno[h] = Rebuilt[h].pg /\ aHash[h] = Rebuilt[h].slot
  <2>1. PICK m : m = w'.hdr.mxFrame OBVIOUS
  <2>2. m \in Nat /\ m <= n BY <1>4, <1>11, <2>1
  <2>3. ASSUME NEW h \in Tables, h <= walFramePage(n + 1) PROVE Holds(n, h, aPgno[h], aHash[h])
    BY <1>4, <1>5, <1>11, <2>3 DEF AllHold
  <2>4. TablesType' BY <1>2, <1>11 DEF TablesType
  <2>5. PlacedNext(m)
    <3> SUFFICES ASSUME NEW f \in 1..m
                 PROVE  /\ aPgno[walFramePage(f)][Index(f)] = log[f].pg
                        /\ HasSlot(aPgno[walFramePage(f)], aHash[walFramePage(f)], Index(f))
      BY <1>1, <1>11 DEF PlacedNext
    <3>1. PICK h, i : h = walFramePage(f) /\ i = Index(f) OBVIOUS
    <3>2. f \in Nat \ {0} /\ f \in 1..MaxFrame /\ f <= n + 1 /\ f <= n BY <1>5, <2>2
    <3>3. h \in Tables /\ h <= walFramePage(n + 1) BY <1>9, <3>1, <3>2, FrameInTables, FrameOrder
    <3>4. i \in 1..TableSize(h) /\ f = iZero(h) + i BY <3>1, <3>2, FrameTable
    <3>5. aPgno[h][i] = log[f].pg /\ HasSlot(aPgno[h], aHash[h], i) BY <2>3, <3>2, <3>3, <3>4 DEF Holds
    <3> QED BY <3>1, <3>5
  <2>6. ASSUME NEW r \in Readers, rd'[r].pc # "idle" PROVE PlacedNext(rd'[r].mxFrame)
    <3>1. PICK u : u = rd[r].mxFrame OBVIOUS
    <3>2. PlacedUpTo(u) /\ rd'[r].mxFrame = u BY <1>1, <1>7, <2>6, <3>1
    <3> QED BY <1>1, <1>11, <3>2 DEF PlacedNext, PlacedUpTo, Placed
  <2>7. ~InTransaction' /\ ~IsAppending' BY <1>11 DEF IsStoring, InTransaction, IsAppending
  <2>8. SnapshotsPlaced' BY <1>3, <2>1, <2>5, <2>6, <2>7, SnapshotsNext
  <2>9. OrderInv'
    <3> SUFFICES ASSUME NEW g \in Tables PROVE IsOrderly(aPgno[g], aHash[g])' BY DEF OrderInv
    <3>1. CASE g <= walFramePage(n + 1)
      <4>1. Holds(n, g, aPgno[g], aHash[g]) BY <2>3, <3>1
      <4>2. IsOrderly(aPgno[g], aHash[g]) BY <1>2, <1>5, <1>8, <4>1, HoldsOrderly
      <4> QED BY <1>11, <4>2 DEF IsOrderly
    <3>2. CASE ~(g <= walFramePage(n + 1))
      <4>1. g > walFramePage(n + 1) BY <1>8, <1>9, <3>2
      <4>2. IsOrderly(aPgno[g], aHash[g]) BY <1>4, <4>1 DEF TablesInv, OrderInv
      <4> QED BY <1>11, <4>2 DEF IsOrderly
    <3> QED BY <3>1, <3>2
  <2>10. RemainsInv' BY <1>11 DEF RemainsInv, IsStoring
  <2> QED BY <2>4, <2>8, <2>9, <2>10 DEF TablesInv
<1> QED BY <1>2, <1>10, <1>11, RecoverIs, Zenon

\* The wal-index of an empty log.
LEMMA TablesInit == MemoryInit => TablesInv
<1> SUFFICES ASSUME MemoryInit PROVE TablesInv OBVIOUS
<1>1. TablesType BY TablesTypeInit
<1>2. w.pc = "idle" /\ aHdr[0].mxFrame = 0 /\ \A r \in Readers : rd[r].pc = "idle"
  BY DEF MemoryInit, NoWriter, NoReader, Hdr
<1>3. ~IsStoring /\ ~InTransaction /\ ~IsAppending BY <1>2 DEF IsStoring, InTransaction, IsAppending
<1>4. SnapshotsPlaced BY <1>2, <1>3 DEF SnapshotsPlaced, PlacedUpTo
<1>5. RemainsInv BY <1>2 DEF RemainsInv
<1>6. OrderInv
  <2> SUFFICES ASSUME NEW h \in Tables PROVE IsOrderly(aPgno[h], aHash[h]) BY DEF OrderInv
  <2>1. aPgno[h] = EmptyPgno(h) /\ aHash[h] = EmptyHash BY DEF MemoryInit
  <2>2. \A k \in Slot : EmptyHash[k] = 0 BY DEF EmptyHash, Slot
  <2>3. \A i \in DOMAIN EmptyPgno(h) : EmptyPgno(h)[i] = 0 BY DEF EmptyPgno
  <2> QED BY <2>1, <2>2, <2>3 DEF IsOrderly
<1> QED BY <1>1, <1>4, <1>5, <1>6 DEF TablesInv

\* A writer dies.
LEMMA CrashWriterTables == ASSUME TablesInv, CrashWriter PROVE TablesInv'
<1>1. UNCHANGED <<log, aPgno, aHash, rd, aHdr>> /\ w' = NoWriter BY DEF CrashWriter, shmVars
<1> QED BY <1>1, NoWriterTables

\* Every step leaves the frames of all snapshots where searches find them.
LEMMA TablesNext == HeadersInv /\ TablesInv /\ MemoryNext /\ ~KillInMemset => TablesInv'
<1> SUFFICES ASSUME HeadersInv, TablesInv, MemoryNext, ~KillInMemset PROVE TablesInv' OBVIOUS
<1>1. CASE \E r \in Readers : FindBegin(r) BY <1>1, FindBeginTables
<1>2. CASE \E r \in Readers : FindStep(r) BY <1>2, FindStepTables
<1>3. CASE \E r \in Readers : EndRead(r) BY <1>3, EndReadTables
<1>4. CASE BeginCkpt \/ CkptReadHdr \/ CkptSort \/ CkptNext \/ CkptEnd BY <1>4, CkptTables
<1>5. CASE BeginWrite \/ RestartLog \/ StoreHdr BY <1>5, BeginWriteTables, RestartLogTables, StoreHdrTables
<1>6. CASE \E S \in SUBSET Pgno, isCommit \in BOOLEAN : Frames(S, isCommit) BY <1>6, FramesTables
<1>7. CASE AppendZero \/ AppendCleanup \/ AppendPgno \/ AppendSlot
  BY <1>7, AppendZeroTables, AppendCleanupTables, AppendPgnoTables, AppendSlotTables
<1>8. CASE CleanupHash BY <1>8, CleanupHashTables
<1>9. CASE Undo \/ Savepoint \/ SavepointUndo BY <1>9, UndoTables, SavepointTables, SavepointUndoTables
<1>10. CASE CrashWriter \/ Recover BY <1>10, CrashWriterTables, RecoverTables
<1> QED BY <1>1, <1>2, <1>3, <1>4, <1>5, <1>6, <1>7, <1>8, <1>9, <1>10 DEF MemoryNext

(***************************************************************************)
(* What a search finds                                                     *)
(***************************************************************************)
\* Slot k of a table has frame f, which a search for page p takes.
IsHit(h, k, p, min, n, f) == IsFrameOf(h, aHash[h][k], p, min, n) /\ f = aHash[h][k] + iZero(h)

\* A search for page p gets to index i of a table after j slots in use.
IsReached(h, p, j, i) == aHash[h][Probe(p, j)] = i /\ \A j2 \in 0..(j - 1) : aHash[h][Probe(p, j2)] # 0

\* A hit is a frame of the page.
LEMMA HitIsFrame ==
    ASSUME LogInv, TablesType, NEW n \in Nat, n <= Len(log), PlacedUpTo(n), NEW h \in Tables, NEW k \in Slot,
           NEW p, NEW min \in Nat \ {0}, NEW f, IsHit(h, k, p, min, n, f)
    PROVE  f \in min..n /\ f \in Nat \ {0} /\ log[f].pg = p /\ walFramePage(f) = h /\ Index(f) = aHash[h][k]
<1>1. PICK i : i = aHash[h][k] OBVIOUS
<1>2. 1 \in 1..MaxFrame BY WalIndexAssumption
<1>3. h \in Nat BY <1>2, FrameInTables
<1>4. i \in 0..TableSize(h) /\ TableSize(h) \in Nat BY <1>1, SlotCount DEF TablesType
<1>5. i # 0 /\ i + iZero(h) \in min..n /\ aPgno[h][i] = p BY <1>1 DEF IsHit, IsFrameOf
<1>6. i \in 1..TableSize(h) BY <1>4, <1>5
<1>7. iZero(h) \in Nat /\ walFramePage(iZero(h) + i) = h /\ Index(iZero(h) + i) = i BY <1>3, <1>6, TableFrame
<1>8. f = iZero(h) + i BY <1>1, <1>4, <1>7 DEF IsHit
<1>9. f \in min..n BY <1>1, <1>5 DEF IsHit
<1>10. f \in 1..n BY <1>9
<1>11. Placed(f) BY <1>10 DEF PlacedUpTo
<1>12. aPgno[h][i] = log[f].pg BY <1>7, <1>8, <1>11 DEF Placed
<1> QED BY <1>1, <1>5, <1>7, <1>8, <1>9, <1>10, <1>12

\* A frame has a slot, and those that a search for its page looks at before
\* are in use.
LEMMA FrameHasSlot ==
    ASSUME LogInv, NEW n \in Nat, n <= Len(log), PlacedUpTo(n), NEW f \in 1..n, NEW p, p = log[f].pg,
           NEW h, h = walFramePage(f)
    PROVE  /\ h \in Tables /\ p \in Nat /\ p \in Pgno /\ aPgno[h][Index(f)] = p /\ HasSlot(aPgno[h], aHash[h], Index(f))
           /\ Index(f) \in Nat \ {0} /\ f = iZero(h) + Index(f) /\ iZero(h) \in Nat
           /\ \E j \in Slot : IsReached(h, p, j, Index(f))
<1>1. Len(log) \in Nat /\ Len(log) <= MaxFrame BY DEF LogInv
<1>2. f \in Nat \ {0} /\ f \in 1..MaxFrame /\ f \in 1..Len(log) BY <1>1, WalIndexAssumption
<1>3. h \in Tables /\ p \in Nat /\ p \in Pgno BY <1>2, FrameInTables, LogPages
<1>4. Placed(f) BY DEF PlacedUpTo
<1>5. aPgno[h][Index(f)] = p /\ HasSlot(aPgno[h], aHash[h], Index(f)) BY <1>4 DEF Placed
<1>6. /\ Index(f) \in 1..TableSize(h) /\ TableSize(h) \in Nat /\ iZero(h) \in Nat
      /\ f = iZero(h) + Index(f)
  BY <1>2, FrameTable, SlotCount
<1>7. PICK j \in Slot : /\ aHash[h][Probe(p, j)] = Index(f)
                        /\ \A j2 \in 0..(j - 1) : aHash[h][Probe(p, j2)] \in 1..(Index(f) - 1)
  BY <1>5 DEF HasSlot
<1>8. \A j2 \in 0..(j - 1) : aHash[h][Probe(p, j2)] # 0 BY <1>7
<1>9. Index(f) \in Nat \ {0} BY <1>6
<1>10. \E j2 \in Slot : IsReached(h, p, j2, Index(f)) BY <1>7, <1>8 DEF IsReached
<1> QED BY <1>3, <1>5, <1>6, <1>9, <1>10

\* A search finds the frames of its page in a table in their order.
LEMMA HitsInOrder ==
    ASSUME NEW f \in Nat \ {0}, NEW g \in Nat \ {0}, NEW h, walFramePage(f) = h, walFramePage(g) = h,
           NEW p \in Nat, aPgno[h][Index(f)] = p, HasSlot(aPgno[h], aHash[h], Index(f)), Index(f) \in Nat,
           NEW j \in Slot, NEW j2 \in Slot, aHash[h][Probe(p, j)] = Index(f), aHash[h][Probe(p, j2)] = Index(g),
           j2 <= j
    PROVE  g <= f
<1>1. j \in Nat /\ j2 \in Nat BY SlotCount
<1>2. CASE j2 = j
  <2>1. Index(g) = Index(f) BY <1>2
  <2>2. g = f BY <2>1, FrameOrder
  <2> QED BY <2>2
<1>3. CASE j2 # j
  <2>1. j2 \in 0..(j - 1) BY <1>1, <1>3
  <2>2. PICK pg, slot, i : pg = aPgno[h] /\ slot = aHash[h] /\ i = Index(f) OBVIOUS
  <2>3. pg[i] = p /\ HasSlot(pg, slot, i) /\ slot[Probe(pg[i], j)] = i /\ pg[i] \in Nat BY <2>2
  <2>4. \A x \in 0..(j - 1) : slot[Probe(pg[i], x)] \in 1..(i - 1) BY <2>3, SlotBefore
  <2>5. slot[Probe(p, j2)] \in 1..(i - 1) BY <2>1, <2>3, <2>4
  <2>6. Index(g) \in 1..(Index(f) - 1) BY <2>2, <2>5
  <2>7. Index(g) <= Index(f) BY <2>6
  <2> QED BY <2>7, FrameOrder
<1> QED BY <1>2, <1>3

\* Frame f is the last one of a page.
IsLastOf(p, min, n, f) == f \in min..n /\ log[f].pg = p /\ \A g \in min..n : log[g].pg = p => g <= f

\* The last frame of a page, from what it must satisfy.
LEMMA NewestIs ==
    ASSUME NEW p, NEW min \in Nat \ {0}, NEW n \in Nat
    PROVE  /\ \A f : IsLastOf(p, min, n, f) => Newest(p, min, n) = f
           /\ (\A g \in min..n : log[g].pg # p) => Newest(p, min, n) = 0
<1>1. PICK S : S = {0} \cup {f \in min..n : log[f].pg = p} OBVIOUS
<1>2. S \in SUBSET (0..n) /\ S # {} BY <1>1
<1>3. Highest(S) \in S /\ \A x \in S : x <= Highest(S) BY <1>2, HighestIs
<1>4. Newest(p, min, n) = Highest(S) BY <1>1 DEF Newest
<1>5. ASSUME NEW f, IsLastOf(p, min, n, f) PROVE Highest(S) = f
  <2>1. f \in S /\ f \in Nat BY <1>1, <1>5 DEF IsLastOf
  <2>2. \A x \in S : x <= f BY <1>1, <1>5, <2>1 DEF IsLastOf
  <2>3. Highest(S) \in Nat
    <3>1. \A x \in S : x \in Nat BY <1>1
    <3> QED BY <1>3, <3>1
  <2>4. f <= Highest(S) /\ Highest(S) <= f BY <1>3, <2>1, <2>2
  <2> QED BY <2>1, <2>3, <2>4
<1>6. ASSUME \A g \in min..n : log[g].pg # p PROVE Highest(S) = 0
  <2>1. S = {0} BY <1>1, <1>6
  <2> QED BY <1>3, <2>1
<1> QED BY <1>4, <1>5, <1>6

\* A search in one step finds the last frame of the page.
LEMMA FindFrameIs ==
    ASSUME LogInv, TablesType, NEW n \in Nat, n <= Len(log), PlacedUpTo(n), NEW p \in Pgno
    PROVE  FindFrame(p, n) = Newest(p, 1, n)
<1> DEFINE hits(h) == {j \in 0..(InUse(aHash[h], p) - 1) : IsFrameOf(h, aHash[h][Probe(p, j)], p, 1, n)}
           tables == {h \in Tables : n > iZero(h) /\ hits(h) # {}}
           top == Highest(tables)
           frame(h, j) == aHash[h][Probe(p, j)] + iZero(h)
<1>1. FindFrame(p, n) = IF tables = {} THEN 0 ELSE frame(top, Highest(hits(top))) BY Zenon DEF FindFrame
<1>2. p \in Nat /\ Len(log) \in Nat /\ n <= Len(log) BY WalIndexAssumption DEF Pgno, LogInv
<1>3. /\ HASHTABLE_NSLOT \in Nat /\ MaxFrame \in Nat /\ 1 \in 1..MaxFrame /\ 1 \in Nat \ {0}
      /\ \A h : InUse(aHash[h], p) \in 0..HASHTABLE_NSLOT
  BY <1>2, InUseIs, SlotCount, WalIndexAssumption
<1>4. ASSUME NEW h, NEW j \in hits(h)
      PROVE  j \in Slot /\ j \in 0..(InUse(aHash[h], p) - 1) /\ IsFrameOf(h, aHash[h][Probe(p, j)], p, 1, n)
  <2>1. j \in 0..(InUse(aHash[h], p) - 1) /\ InUse(aHash[h], p) \in 0..HASHTABLE_NSLOT BY <1>3, <1>4
  <2>2. j \in 0..(HASHTABLE_NSLOT - 1) BY <1>3, <2>1
  <2> QED BY <1>4, <2>1, <2>2 DEF Slot
<1>5. ASSUME NEW h \in Tables, NEW j \in hits(h)
      PROVE  /\ frame(h, j) \in 1..n /\ frame(h, j) \in Nat \ {0} /\ log[frame(h, j)].pg = p
             /\ walFramePage(frame(h, j)) = h /\ Index(frame(h, j)) = aHash[h][Probe(p, j)]
  <2>1. Probe(p, j) \in Slot BY <1>2, <1>4, <1>5, ProbeSlots
  <2>2. PICK f, k : k = Probe(p, j) /\ f = aHash[h][k] + iZero(h) OBVIOUS
  <2>3. IsFrameOf(h, aHash[h][k], p, 1, n) /\ k \in Slot BY <1>4, <1>5, <2>1, <2>2
  <2>4. f \in 1..n /\ f \in Nat \ {0} /\ log[f].pg = p /\ walFramePage(f) = h /\ Index(f) = aHash[h][k]
    <3>1. 1 \in Nat \ {0} /\ IsHit(h, k, p, 1, n, f) BY <2>2, <2>3 DEF IsHit
    <3> HIDE DEF hits, tables, frame
    <3> QED BY <2>3, <3>1, HitIsFrame
  <2> QED BY <2>2, <2>4
<1>6. ASSUME NEW f \in 1..n, log[f].pg = p
      PROVE  /\ walFramePage(f) \in tables
             /\ \E j \in hits(walFramePage(f)) : aHash[walFramePage(f)][Probe(p, j)] = Index(f)
  <2>1. PICK h, i : h = walFramePage(f) /\ i = Index(f) OBVIOUS
  <2>2. /\ h \in Tables /\ aPgno[h][i] = p /\ i \in Nat \ {0} /\ f = iZero(h) + i /\ iZero(h) \in Nat
        /\ \E j \in Slot : aHash[h][Probe(p, j)] = i /\ \A j2 \in 0..(j - 1) : aHash[h][Probe(p, j2)] # 0
    <3>1. p = log[f].pg /\ h = walFramePage(f) BY <1>6, <2>1
    <3> HIDE DEF hits, tables, frame
    <3>2. /\ h \in Tables /\ aPgno[h][Index(f)] = p /\ Index(f) \in Nat \ {0} /\ f = iZero(h) + Index(f)
          /\ iZero(h) \in Nat /\ \E j \in Slot : IsReached(h, p, j, Index(f))
      BY <3>1, FrameHasSlot
    <3> QED BY <2>1, <3>2 DEF IsReached
  <2>3. PICK j \in Slot : aHash[h][Probe(p, j)] = i /\ \A j2 \in 0..(j - 1) : aHash[h][Probe(p, j2)] # 0 BY <2>2
  <2>4. PICK used : used = InUse(aHash[h], p) OBVIOUS
  <2>5. used \in 0..HASHTABLE_NSLOT /\ (used < HASHTABLE_NSLOT => aHash[h][Probe(p, used)] = 0) BY <1>2, <2>4, InUseIs
  <2>6. j \in Nat /\ j < HASHTABLE_NSLOT BY <1>3 DEF Slot
  <2>7. used # j BY <2>2, <2>3, <2>5, <2>6
  <2>8. ~(used < j)
    <3> SUFFICES ASSUME used < j PROVE FALSE OBVIOUS
    <3>1. used \in 0..(j - 1) /\ used < HASHTABLE_NSLOT BY <1>3, <2>5, <2>6
    <3> QED BY <2>3, <2>5, <3>1
  <2>9. j \in 0..(used - 1) BY <1>3, <2>5, <2>6, <2>7, <2>8
  <2>10. i + iZero(h) \in 1..n BY <2>2
  <2>11. IsFrameOf(h, aHash[h][Probe(p, j)], p, 1, n) BY <2>2, <2>3, <2>10 DEF IsFrameOf
  <2>12. j \in hits(h) BY <2>4, <2>9, <2>11
  <2>13. n > iZero(h) BY <2>2
  <2> QED BY <2>1, <2>2, <2>3, <2>12, <2>13
<1>7. CASE tables = {}
  <2>1. \A f \in 1..n : log[f].pg # p BY <1>6, <1>7
  <2>2. Newest(p, 1, n) = 0 BY <1>3, <2>1, NewestIs
  <2> QED BY <1>1, <1>7, <2>2
<1>8. CASE tables # {}
  <2>1. tables \in SUBSET (0..walFramePage(MaxFrame)) /\ walFramePage(MaxFrame) \in Nat
    <3>1. MaxFrame \in Nat \ {0} BY WalIndexAssumption
    <3> QED BY <3>1, FrameTable DEF Tables
  <2>2. top \in tables /\ \A h \in tables : h <= top
    <3> HIDE DEF tables
    <3> QED BY <1>8, <2>1, HighestIs
  <2>3. PICK h : h = top OBVIOUS
  <2>4. h \in Tables /\ hits(h) # {} /\ \A g \in tables : g <= h BY <2>2, <2>3
  <2>5. hits(h) \in SUBSET (0..HASHTABLE_NSLOT)
    <3>1. \A j \in hits(h) : j \in Slot BY <1>4
    <3>2. \A j \in Slot : j \in 0..HASHTABLE_NSLOT BY <1>3 DEF Slot
    <3> QED BY <3>1, <3>2
  <2>6. PICK j : j = Highest(hits(h)) OBVIOUS
  <2>7. j \in hits(h) /\ \A j2 \in hits(h) : j2 <= j
    <3>1. PICK H : H = hits(h) OBVIOUS
    <3>2. H \in SUBSET (0..HASHTABLE_NSLOT) /\ H # {} BY <2>4, <2>5, <3>1
    <3>3. Highest(H) \in H /\ \A x \in H : x <= Highest(H) BY <1>3, <3>2, HighestIs
    <3> QED BY <2>6, <3>1, <3>3
  <2>8. PICK f : f = frame(h, j) OBVIOUS
  <2>9. /\ f \in 1..n /\ f \in Nat \ {0} /\ log[f].pg = p /\ walFramePage(f) = h
        /\ Index(f) = aHash[h][Probe(p, j)] /\ j \in Slot
    BY <1>4, <1>5, <2>4, <2>7, <2>8
  <2>10. aPgno[h][Index(f)] = p /\ HasSlot(aPgno[h], aHash[h], Index(f)) /\ Index(f) \in Nat
    BY <2>9, FrameHasSlot
  <2>11. ASSUME NEW g \in 1..n, log[g].pg = p PROVE g <= f
    <3>1. PICK hg : hg = walFramePage(g) OBVIOUS
    <3>2. g \in Nat \ {0} OBVIOUS
    <3>3. hg \in tables /\ \E j2 \in hits(hg) : aHash[hg][Probe(p, j2)] = Index(g) BY <1>6, <2>11, <3>1
    <3>4. hg <= h BY <2>4, <3>3
    <3>5. CASE hg = h
      <4>1. PICK j2 \in hits(h) : aHash[h][Probe(p, j2)] = Index(g) BY <3>3, <3>5
      <4>2. j2 \in Slot /\ j2 <= j BY <1>4, <2>7, <4>1
      <4> QED BY <1>2, <2>9, <2>10, <3>1, <3>2, <3>5, <4>1, <4>2, HitsInOrder
    <3>6. CASE hg # h
      <4>1. hg \in Nat /\ h \in Nat BY <2>9, <3>1, <3>2, FrameTable
      <4>2. ~(h <= hg) BY <3>4, <3>6, <4>1
      <4>3. ~(f <= g) BY <2>9, <3>1, <3>2, <4>2, FrameOrder
      <4> QED BY <2>9, <3>2, <4>3
    <3> QED BY <3>5, <3>6
  <2>12. Newest(p, 1, n) = f
    <3>1. IsLastOf(p, 1, n, f) BY <2>9, <2>11 DEF IsLastOf
    <3> QED BY <1>3, <3>1, NewestIs
  <2>13. FindFrame(p, n) = f
    <3>1. FindFrame(p, n) = frame(h, Highest(hits(h))) BY <1>1, <1>8, <2>3, Zenon
    <3> QED BY <2>6, <2>8, <3>1, Zenon
  <2> QED BY <2>12, <2>13
<1> QED BY <1>7, <1>8

\* A writer finds the last frame of every page.
LEMMA WriterFinds ==
    ASSUME HeadersInv, TablesInv, w.pc = "open"
    PROVE  \A p \in Pgno : FindFrame(p, w.hdr.mxFrame) = Newest(p, 1, w.hdr.mxFrame)
<1>1. InTransaction BY DEF InTransaction
<1>2. w.hdr.mxFrame \in Nat /\ w.hdr.mxFrame <= Len(log) BY <1>1, LiveFrames
<1>3. PlacedUpTo(w.hdr.mxFrame) /\ TablesType BY <1>1 DEF TablesInv, SnapshotsPlaced
<1> QED BY <1>2, <1>3, FindFrameIs DEF HeadersInv

(***************************************************************************)
(* What a reader finds                                                     *)
(***************************************************************************)
\* Frames that are found before and after a step have not been moved.
LEMMA PlacedTwice ==
    ASSUME LogInv, NEW n \in Nat, n <= Len(log), PlacedUpTo(n), PlacedNext(n), \A f \in 1..n : log'[f].pg = log[f].pg
    PROVE  Keeps(n)
<1> SUFFICES ASSUME NEW f \in 1..n
             PROVE  /\ aPgno'[walFramePage(f)][Index(f)] = aPgno[walFramePage(f)][Index(f)]
                    /\ \A k \in Slot : aHash'[walFramePage(f)][k] = Index(f) <=> aHash[walFramePage(f)][k] = Index(f)
  BY DEF Keeps
<1>1. PICK h, i : h = walFramePage(f) /\ i = Index(f) OBVIOUS
<1>2. PICK pg, slot, pg2, slot2 : pg = aPgno[h] /\ slot = aHash[h] /\ pg2 = aPgno'[h] /\ slot2 = aHash'[h] OBVIOUS
<1>3. f \in Nat \ {0} /\ i \in Nat /\ i \in 1..i
  <2>1. f \in Nat \ {0} OBVIOUS
  <2>2. Index(f) \in 1..TableSize(walFramePage(f)) /\ TableSize(walFramePage(f)) \in Nat BY <2>1, FrameTable, SlotCount
  <2> QED BY <1>1, <2>1, <2>2
<1>4. ASSUME NEW v \in 1..i
      PROVE  pg[v] \in Nat /\ pg2[v] = pg[v] /\ HasSlot(pg, slot, v) /\ HasSlot(pg2, slot2, v)
  <2>1. PICK g : g = iZero(h) + v OBVIOUS
  <2>2. g \in 1..f /\ walFramePage(g) = h /\ Index(g) = v BY <1>1, <1>3, <2>1, FrameBefore
  <2>3. g \in 1..n /\ g \in 1..Len(log) /\ Len(log) \in Nat BY <1>3, <2>2 DEF LogInv
  <2>4. Placed(g) BY <2>3 DEF PlacedUpTo
  <2>5. pg[v] = log[g].pg /\ HasSlot(pg, slot, v) BY <1>2, <2>2, <2>4 DEF Placed
  <2>6. pg2[v] = log'[g].pg /\ HasSlot(pg2, slot2, v) BY <1>2, <2>2, <2>3 DEF PlacedNext
  <2>7. log[g].pg \in Nat /\ log'[g].pg = log[g].pg BY <2>3, LogPages
  <2> QED BY <2>5, <2>6, <2>7
<1>5. BothHave(i, pg, slot, pg2, slot2) BY <1>4 DEF BothHave
<1>6. \A v \in 1..i, k \in Slot : slot[k] = v <=> slot2[k] = v BY <1>3, <1>5, SlotsUnique
<1> QED BY <1>1, <1>2, <1>3, <1>4, <1>6

\* The pages of the frames that readers have are never changed in the log.
LEMMA PagesStay ==
    ASSUME HeadersInv, MemoryNext, NEW r \in Readers, rd[r].pc # "idle"
    PROVE  \A f \in 1..rd[r].mxFrame : log'[f].pg = log[f].pg
<1>1. CASE \E S \in SUBSET Pgno, isCommit \in BOOLEAN : Frames(S, isCommit)
  <2>1. PICK S \in SUBSET Pgno, isCommit \in BOOLEAN : Frames(S, isCommit) BY <1>1
  <2>2. w.pc = "open" BY <2>1 DEF Frames
  <2>3. InTransaction BY <2>2 DEF InTransaction
  <2>4. PICK m, mx : m = rd[r].mxFrame /\ mx = w.hdr.mxFrame OBVIOUS
  <2>5. m \in Nat /\ mx \in Nat /\ m <= mx BY <2>3, <2>4, LiveFrames
  <2>6. \A i \in 1..mx : log'[i].pg = log[i].pg
    <3>1. PICK append \in Seq(Pgno), top \in Pgno :
             /\ append \in Ascending
             /\ log' \in Seq(Frame) /\ Len(log') = w.hdr.mxFrame + Len(append) /\ Len(log') <= MaxFrame
             /\ \A i \in 1..w.hdr.mxFrame : log'[i].pg = log[i].pg /\ log'[i].nTruncate = log[i].nTruncate
             /\ \A i \in 1..aHdr[0].mxFrame : log[i].ok => log'[i].ok
             /\ \A i \in 1..Len(append) : log'[w.hdr.mxFrame + i].pg = append[i]
             /\ isCommit => /\ \A i \in 1..Len(log') : log'[i].ok
                            /\ append # <<>> => log'[Len(log')].nTruncate = top
             /\ w' = IF append = <<>> THEN w
                     ELSE [w EXCEPT !.pc = "append", !.iFrame = w.hdr.mxFrame + 1, !.list = append,
                                    !.nTruncate = IF isCommit THEN top ELSE 0]
      BY <2>1, FramesIs, Zenon
    <3>2. \A i \in 1..w.hdr.mxFrame : log'[i].pg = log[i].pg BY <3>1
    <3> QED BY <2>4, <3>2
  <2>7. \A f \in 1..m : f \in 1..mx BY <2>5
  <2> QED BY <2>4, <2>6, <2>7
<1>2. CASE ~(\E S \in SUBSET Pgno, isCommit \in BOOLEAN : Frames(S, isCommit))
  <2>1. log' = log
    BY <1>2, Zenon DEF MemoryNext, FindBegin, FindStep, EndRead, readerUnchanged, BeginCkpt, CkptReadHdr, CkptSort, CkptNext,
       CkptEnd, ckptUnchanged, BeginWrite, RestartLog, StoreHdr, AppendZero, AppendCleanup, AppendPgno, AppendSlot,
       CleanupHash, Undo, Savepoint, SavepointUndo, indexOnly, CrashWriter, Recover
  <2> QED BY <2>1
<1> QED BY <1>1, <1>2

\* Every step keeps the frames of the readers where they are.
LEMMA ReadersKeep ==
    ASSUME HeadersInv, TablesInv, TablesInv', MemoryNext, NEW r \in Readers, rd[r].pc # "idle", rd'[r] = rd[r]
    PROVE  Keeps(rd[r].mxFrame)
<1>1. PICK n : n = rd[r].mxFrame OBVIOUS
<1>2. n \in Nat /\ n <= Len(log) BY <1>1, LiveFrames
<1>3. PlacedUpTo(n) BY <1>1 DEF TablesInv, SnapshotsPlaced
<1>4. PlacedUpTo(rd[r].mxFrame)' BY DEF TablesInv, SnapshotsPlaced
<1>5. PlacedNext(n) BY <1>1, <1>4 DEF PlacedNext, PlacedUpTo, Placed, HasSlot
<1>6. \A f \in 1..n : log'[f].pg = log[f].pg BY <1>1, PagesStay
<1>7. Keeps(n) BY <1>2, <1>3, <1>5, <1>6, PlacedTwice DEF HeadersInv
<1> QED BY <1>1, <1>7

\* A search goes on from where it was when another connection has moved.
LEMMA SearchKept ==
    ASSUME NEW a, a.mxFrame \in Nat, a.minFrame \in Nat \ {0}, Keeps(a.mxFrame), SearchOk(a)
    PROVE  SearchOk(a)'
<1>1. PICK n, min, p, h : n = a.mxFrame /\ min = a.minFrame /\ p = a.pgno /\ h = a.iHash OBVIOUS
<1>2. \A f \in min..n : f \in 1..n /\ log'[f].pg = log[f].pg BY <1>1 DEF Keeps
<1>3. Wanted(a)' = Wanted(a) BY <1>1, <1>2 DEF Wanted
<1>4. WantedHere(a)' = WantedHere(a) BY <1>3 DEF WantedHere
<1>5. Newest(a.pgno, a.minFrame, a.mxFrame)' = Newest(a.pgno, a.minFrame, a.mxFrame)
  <2>1. {f \in min..n : log'[f].pg = p} = {f \in min..n : log[f].pg = p} BY <1>2
  <2>2. Highest({0} \cup {f \in min..n : log'[f].pg = p}) = Highest({0} \cup {f \in min..n : log[f].pg = p}) BY <2>1
  <2> QED BY <1>1, <2>2 DEF Newest, Highest
<1>6. \A f \in WantedHere(a), k \in Slot : aHash'[h][k] = Index(f) <=> aHash[h][k] = Index(f)
  <2> SUFFICES ASSUME NEW f \in WantedHere(a), NEW k \in Slot PROVE aHash'[h][k] = Index(f) <=> aHash[h][k] = Index(f)
    OBVIOUS
  <2>1. f \in 1..n /\ walFramePage(f) = h BY <1>1, <1>2 DEF WantedHere, Wanted
  <2> QED BY <1>1, <2>1 DEF Keeps
<1>7. CASE a.pc = "walk"
  <2>1. p \in Pgno /\ p \in Nat BY <1>1, <1>7, WalIndexAssumption DEF SearchOk, Pgno
  <2>2. PICK j \in Slot :
           /\ a.iKey = Probe(p, j)
           /\ \A f \in WantedHere(a) : (\A g \in WantedHere(a) : g <= f) =>
                 \/ a.iRead = f
                 \/ \E j2 \in j..(HASHTABLE_NSLOT - 1) : aHash[h][Probe(p, j2)] = Index(f)
    BY <1>1, <1>7 DEF SearchOk
  <2>3. \A j2 \in j..(HASHTABLE_NSLOT - 1) : j2 \in Slot BY SlotCount
  <2>4. \A j2 \in Slot : Probe(p, j2) \in Slot BY <2>1, ProbeSlots
  <2>5. \A f \in WantedHere(a)' : (\A g \in WantedHere(a)' : g <= f) =>
           \/ a.iRead = f
           \/ \E j2 \in j..(HASHTABLE_NSLOT - 1) : aHash'[h][Probe(p, j2)] = Index(f)
    BY <1>4, <1>6, <2>2, <2>3, <2>4
  <2>6. /\ a.iHash \in Tables /\ a.iRead \in Nat
        /\ \A f \in Wanted(a)' : walFramePage(f) <= a.iHash
        /\ WantedHere(a)' = {} => a.iRead = 0
    BY <1>3, <1>4, <1>7 DEF SearchOk
  <2> HIDE DEF Wanted, WantedHere
  <2> QED BY <1>1, <1>7, <2>1, <2>2, <2>5, <2>6 DEF SearchOk
<1>8. CASE a.pc # "walk" BY <1>5, <1>8 DEF SearchOk
<1> QED BY <1>7, <1>8

\* The frames that a reader looks for.
LEMMA WantedIs ==
    ASSUME LogInv, NEW a, a.mxFrame \in Nat, a.mxFrame <= Len(log), a.minFrame \in Nat \ {0}, PlacedUpTo(a.mxFrame),
           NEW f \in Wanted(a)
    PROVE  /\ f \in 1..a.mxFrame /\ f \in a.minFrame..a.mxFrame /\ f \in Nat \ {0} /\ log[f].pg = a.pgno
           /\ a.pgno \in Nat /\ walFramePage(f) \in Tables /\ walFramePage(f) \in Nat /\ Index(f) \in Nat \ {0}
           /\ f = iZero(walFramePage(f)) + Index(f) /\ iZero(walFramePage(f)) \in Nat
           /\ aPgno[walFramePage(f)][Index(f)] = a.pgno
           /\ HasSlot(aPgno[walFramePage(f)], aHash[walFramePage(f)], Index(f))
           /\ \E j \in Slot : IsReached(walFramePage(f), a.pgno, j, Index(f))
<1>1. PICK n, min, p, h : n = a.mxFrame /\ min = a.minFrame /\ p = a.pgno /\ h = walFramePage(f) OBVIOUS
<1>2. n \in Nat /\ n <= Len(log) /\ PlacedUpTo(n) /\ min \in Nat \ {0} BY <1>1
<1>3. f \in min..n /\ log[f].pg = p BY <1>1 DEF Wanted
<1>4. f \in 1..n /\ f \in Nat \ {0} BY <1>2, <1>3
<1>5. p = log[f].pg /\ h = walFramePage(f) BY <1>1, <1>3
<1>6. /\ h \in Tables /\ p \in Nat /\ aPgno[h][Index(f)] = p /\ HasSlot(aPgno[h], aHash[h], Index(f))
      /\ Index(f) \in Nat \ {0} /\ f = iZero(h) + Index(f) /\ iZero(h) \in Nat
      /\ \E j \in Slot : IsReached(h, p, j, Index(f))
  BY <1>2, <1>4, <1>5, FrameHasSlot
<1>7. h \in Nat BY <1>1, <1>4, FrameTable
<1> QED BY <1>1, <1>3, <1>4, <1>6, <1>7

\* A search begins in a table.
LEMMA SearchBegins ==
    ASSUME LogInv, NEW a, a.mxFrame \in Nat, a.mxFrame <= Len(log), a.minFrame \in Nat \ {0}, PlacedUpTo(a.mxFrame),
           a.pc = "walk", a.pgno \in Pgno, a.iHash \in Tables, a.iKey = walHash(a.pgno), a.iRead = 0,
           \A f \in Wanted(a) : walFramePage(f) <= a.iHash
    PROVE  SearchOk(a)
<1>1. PICK p, h : p = a.pgno /\ h = a.iHash OBVIOUS
<1>2. p \in Nat /\ p \in Pgno BY <1>1, WalIndexAssumption DEF Pgno
<1>3. a.iKey = Probe(p, 0) /\ 0 \in Slot BY <1>1, <1>2, ProbeSlots, SlotCount
<1>4. ASSUME NEW f \in WantedHere(a) PROVE \E j2 \in 0..(HASHTABLE_NSLOT - 1) : aHash[h][Probe(p, j2)] = Index(f)
  <2>1. f \in Wanted(a) /\ walFramePage(f) = h BY <1>1 DEF WantedHere
  <2>2. \E j \in Slot : IsReached(walFramePage(f), a.pgno, j, Index(f)) BY <2>1, WantedIs
  <2>3. PICK j \in Slot : IsReached(h, p, j, Index(f)) BY <1>1, <2>1, <2>2
  <2>4. aHash[h][Probe(p, j)] = Index(f) BY <2>3 DEF IsReached
  <2> QED BY <2>4 DEF Slot
<1> QED BY <1>1, <1>2, <1>3, <1>4 DEF SearchOk

\* The newest frame of the page in the table where a reader is.
IsNewestHere(a, f) == f \in WantedHere(a) /\ \A g \in WantedHere(a) : g <= f

\* There is one.
LEMMA NewestHere ==
    ASSUME NEW a, a.mxFrame \in Nat, a.minFrame \in Nat \ {0}, WantedHere(a) # {}
    PROVE  \E f : IsNewestHere(a, f)
<1>1. PICK S : S = WantedHere(a) OBVIOUS
<1>2. S \in SUBSET (0..a.mxFrame) BY <1>1 DEF WantedHere, Wanted
<1>3. Highest(S) \in S /\ \A n \in S : n <= Highest(S) BY <1>1, <1>2, HighestIs
<1> QED BY <1>1, <1>3 DEF IsNewestHere

\* A reader is at slot j of its search: it has the newest frame of the table, or
\* has not come by its slot.
IsAt(a, j) ==
    /\ j \in Slot /\ a.iKey = Probe(a.pgno, j)
    /\ \A f : IsNewestHere(a, f) => \E x \in Slot : IsReached(a.iHash, a.pgno, x, Index(f)) /\ (a.iRead = f \/ j <= x)

\* So it is in every search,
LEMMA SearchIsAt ==
    ASSUME LogInv, NEW a, a.mxFrame \in Nat, a.mxFrame <= Len(log), a.minFrame \in Nat \ {0}, PlacedUpTo(a.mxFrame),
           a.pc = "walk", SearchOk(a)
    PROVE  \E j : IsAt(a, j)
<1>1. PICK p, h : p = a.pgno /\ h = a.iHash OBVIOUS
<1>2. p \in Nat BY <1>1, WalIndexAssumption DEF SearchOk, Pgno
<1>3. PICK j \in Slot :
         /\ a.iKey = Probe(p, j)
         /\ \A f \in WantedHere(a) : (\A g \in WantedHere(a) : g <= f) =>
               \/ a.iRead = f
               \/ \E j2 \in j..(HASHTABLE_NSLOT - 1) : aHash[h][Probe(p, j2)] = Index(f)
  BY <1>1 DEF SearchOk
<1>4. ASSUME NEW f, IsNewestHere(a, f) PROVE \E x \in Slot : IsReached(h, p, x, Index(f)) /\ (a.iRead = f \/ j <= x)
  <2>1. f \in Wanted(a) /\ walFramePage(f) = h /\ f \in WantedHere(a) BY <1>1, <1>4 DEF IsNewestHere, WantedHere
  <2>2. /\ \E x \in Slot : IsReached(walFramePage(f), a.pgno, x, Index(f))
        /\ HasSlot(aPgno[walFramePage(f)], aHash[walFramePage(f)], Index(f))
    BY <2>1, WantedIs
  <2>3. PICK x \in Slot : IsReached(h, p, x, Index(f)) BY <1>1, <2>1, <2>2
  <2>4. aHash[h][Probe(p, x)] = Index(f) BY <2>3 DEF IsReached
  <2>5. \A k, k2 \in Slot : aHash[h][k] = Index(f) /\ aHash[h][k2] = Index(f) => k = k2 BY <2>1, <2>2 DEF HasSlot
  <2>6. CASE a.iRead = f BY <2>3, <2>6
  <2>7. CASE \E j2 \in j..(HASHTABLE_NSLOT - 1) : aHash[h][Probe(p, j2)] = Index(f)
    <3>1. PICK j2 \in j..(HASHTABLE_NSLOT - 1) : aHash[h][Probe(p, j2)] = Index(f) BY <2>7
    <3>2. j2 \in Slot /\ j <= j2 BY SlotCount
    <3>3. Probe(p, j2) = Probe(p, x)
      <4>1. Probe(p, j2) \in Slot /\ Probe(p, x) \in Slot BY <1>2, <3>2, ProbeSlots
      <4> QED BY <2>4, <2>5, <3>1, <4>1
    <3>4. j2 = x BY <1>2, <3>2, <3>3, ProbeSlots
    <3> QED BY <2>3, <3>2, <3>4
  <2>8. a.iRead = f \/ \E j2 \in j..(HASHTABLE_NSLOT - 1) : aHash[h][Probe(p, j2)] = Index(f)
    BY <1>3, <1>4, <2>1 DEF IsNewestHere
  <2> QED BY <2>6, <2>7, <2>8
<1> QED BY <1>1, <1>3, <1>4 DEF IsAt

\* and what a search needs follows from it.
LEMMA AtIsSearch ==
    ASSUME NEW a, a.pc = "walk", a.pgno \in Pgno, a.iHash \in Tables, a.iRead \in Nat,
           \A f \in Wanted(a) : walFramePage(f) <= a.iHash, WantedHere(a) = {} => a.iRead = 0, NEW j, IsAt(a, j)
    PROVE  SearchOk(a)
<1>1. ASSUME NEW f \in WantedHere(a), \A g \in WantedHere(a) : g <= f
      PROVE  a.iRead = f \/ \E j2 \in j..(HASHTABLE_NSLOT - 1) : aHash[a.iHash][Probe(a.pgno, j2)] = Index(f)
  <2>1. IsNewestHere(a, f) BY <1>1 DEF IsNewestHere
  <2>2. PICK x \in Slot : IsReached(a.iHash, a.pgno, x, Index(f)) /\ (a.iRead = f \/ j <= x) BY <2>1 DEF IsAt
  <2>3. aHash[a.iHash][Probe(a.pgno, x)] = Index(f) BY <2>2 DEF IsReached
  <2>4. j <= x => x \in j..(HASHTABLE_NSLOT - 1)
    <3>1. j \in Slot BY DEF IsAt
    <3> QED BY <3>1, SlotCount
  <2> QED BY <2>2, <2>3, <2>4
<1>2. j \in Slot /\ a.iKey = Probe(a.pgno, j) BY DEF IsAt
<1> QED BY <1>1, <1>2 DEF SearchOk

\* One slot of a table: b is what the reader a becomes.
LEMMA SlotIsRead ==
    ASSUME LogInv, TablesType, NEW a, a.mxFrame \in Nat, a.mxFrame <= Len(log), a.minFrame \in Nat \ {0},
           PlacedUpTo(a.mxFrame), a.pc = "walk", SearchOk(a),
           NEW b, b.mxFrame = a.mxFrame, b.minFrame = a.minFrame, b.pgno = a.pgno, ReadsSlot(a, b)
    PROVE  SearchOk(b)
<1> USE DEF ReadsSlot
<1>1. PICK p, h, n, min, k : p = a.pgno /\ h = a.iHash /\ n = a.mxFrame /\ min = a.minFrame /\ k = a.iKey OBVIOUS
<1>2. p \in Pgno /\ p \in Nat /\ h \in Tables /\ a.iRead \in Nat BY <1>1, WalIndexAssumption DEF SearchOk, Pgno
<1>3. n \in Nat /\ n <= Len(log) /\ PlacedUpTo(n) /\ min \in Nat \ {0} BY <1>1
<1>4. Wanted(b) = Wanted(a) /\ WantedHere(b) = WantedHere(a) BY DEF Wanted, WantedHere
<1>5. PICK j : IsAt(a, j) BY SearchIsAt
<1>6. j \in Slot /\ k = Probe(p, j) /\ k \in Slot
  <2>1. j \in Slot /\ k = Probe(p, j) BY <1>1, <1>5 DEF IsAt
  <2> QED BY <1>2, <2>1, ProbeSlots
<1>7. PICK hit \in BOOLEAN : hit = IsFrameOf(h, aHash[h][k], p, min, n)
  <2>1. IsFrameOf(h, aHash[h][k], p, min, n) \in BOOLEAN BY DEF IsFrameOf
  <2> QED BY <2>1
<1>8. PICK g : g = aHash[h][k] + iZero(h) OBVIOUS
<1>9. (hit => b.iRead = g) /\ (~hit => b.iRead = a.iRead)
  <2>1. b.iRead = IF IsFrameOf(h, aHash[h][k], p, min, n) THEN g ELSE a.iRead BY <1>1, <1>8
  <2> QED BY <1>7, <2>1
<1>10. ASSUME hit
       PROVE  /\ g \in Nat \ {0} /\ g \in WantedHere(a) /\ walFramePage(g) = h /\ Index(g) = aHash[h][k] /\ Index(g) \in Nat
              /\ aPgno[h][Index(g)] = p /\ HasSlot(aPgno[h], aHash[h], Index(g))
  <2>1. IsHit(h, k, p, min, n, g) BY <1>7, <1>8, <1>10 DEF IsHit
  <2>2. g \in min..n /\ g \in Nat \ {0} /\ log[g].pg = p /\ walFramePage(g) = h /\ Index(g) = aHash[h][k]
    BY <1>2, <1>3, <1>6, <2>1, HitIsFrame
  <2>3. g \in Wanted(a) /\ g \in WantedHere(a) BY <1>1, <2>2 DEF Wanted, WantedHere
  <2>4. /\ Index(g) \in Nat \ {0} /\ aPgno[walFramePage(g)][Index(g)] = a.pgno
        /\ HasSlot(aPgno[walFramePage(g)], aHash[walFramePage(g)], Index(g))
    BY <2>3, WantedIs
  <2> QED BY <1>1, <2>2, <2>3, <2>4
<1>11. PICK e : e = IF j + 1 < HASHTABLE_NSLOT THEN j + 1 ELSE 0 OBVIOUS
<1>12. e \in Slot /\ b.iKey = Probe(p, e)
  <2>1. walNextHash(Probe(p, j)) = Probe(p, e) BY <1>2, <1>6, <1>11, ProbeNext
  <2>2. e \in Slot BY <1>6, <1>11, SlotCount
  <2> QED BY <1>1, <1>6, <2>1, <2>2
<1>13. ASSUME NEW f, IsNewestHere(b, f) PROVE \E x \in Slot : IsReached(h, p, x, Index(f)) /\ (b.iRead = f \/ e <= x)
  <2>1. IsNewestHere(a, f) BY <1>4, <1>13 DEF IsNewestHere
  <2>2. PICK x \in Slot : IsReached(h, p, x, Index(f)) /\ (a.iRead = f \/ j <= x) BY <1>1, <1>5, <2>1 DEF IsAt
  <2>3. x \in Nat /\ j \in Nat /\ x < HASHTABLE_NSLOT /\ HASHTABLE_NSLOT \in Nat BY <1>6, SlotCount
  <2>4. f \in Wanted(a) /\ walFramePage(f) = h /\ f \in WantedHere(a) /\ (hit => g <= f)
    BY <1>1, <1>10, <2>1 DEF IsNewestHere, WantedHere
  <2>5. /\ f \in Nat \ {0} /\ f \in a.minFrame..a.mxFrame /\ Index(f) \in Nat \ {0} /\ f = iZero(walFramePage(f)) + Index(f)
        /\ aPgno[walFramePage(f)][Index(f)] = a.pgno /\ iZero(walFramePage(f)) \in Nat
    BY <2>4, WantedIs
  <2>6. aHash[h][Probe(p, x)] = Index(f) BY <2>2 DEF IsReached
  <2>7. CASE x = j
    <3>1. aHash[h][k] = Index(f) BY <1>6, <2>6, <2>7
    <3>2. Index(f) + iZero(h) = f BY <2>4, <2>5
    <3>3. IsFrameOf(h, aHash[h][k], p, min, n) BY <1>1, <2>4, <2>5, <3>1, <3>2 DEF IsFrameOf
    <3>4. g = f BY <1>8, <3>1, <3>2
    <3>5. b.iRead = f BY <1>7, <1>9, <3>3, <3>4
    <3> QED BY <2>2, <3>5
  <2>8. CASE x < j
    <3>1. a.iRead = f BY <2>2, <2>3, <2>8
    <3>2. CASE hit
      <4>1. g \in Nat \ {0} /\ walFramePage(g) = h /\ aHash[h][Probe(p, j)] = Index(g) BY <1>6, <1>10, <3>2
      <4>2. x <= j BY <2>3, <2>8
      <4>3. aPgno[h][Index(g)] = p /\ HasSlot(aPgno[h], aHash[h], Index(g)) /\ Index(g) \in Nat BY <1>10, <3>2
      <4>4. f <= g BY <1>2, <1>6, <2>4, <2>5, <2>6, <4>1, <4>2, <4>3, HitsInOrder
      <4>5. g = f BY <2>4, <2>5, <3>2, <4>1, <4>4
      <4> QED BY <1>9, <2>2, <3>2, <4>5
    <3>3. CASE ~hit BY <1>9, <2>2, <3>1, <3>3
    <3> QED BY <3>2, <3>3
  <2>9. CASE j < x
    <3>1. e = j + 1 /\ e <= x BY <1>11, <2>3, <2>9
    <3> QED BY <2>2, <3>1
  <2>10. x = j \/ x < j \/ j < x BY <2>3
  <2> QED BY <2>7, <2>8, <2>9, <2>10
<1>14. IsAt(b, e) BY <1>1, <1>12, <1>13 DEF IsAt
<1>15. WantedHere(b) = {} => b.iRead = 0
  <2> HAVE WantedHere(b) = {}
  <2>1. ~hit /\ a.iRead = 0 BY <1>4, <1>10 DEF SearchOk
  <2> QED BY <1>9, <2>1
<1>16. b.iRead \in Nat BY <1>2, <1>9, <1>10
<1>17. \A f \in Wanted(b) : walFramePage(f) <= b.iHash BY <1>4 DEF SearchOk
<1> QED BY <1>1, <1>2, <1>14, <1>15, <1>16, <1>17, AtIsSearch

\* An empty slot: the search of the table is over, and has its newest frame.
LEMMA TableIsRead ==
    ASSUME LogInv, NEW a, a.mxFrame \in Nat, a.mxFrame <= Len(log), a.minFrame \in Nat \ {0},
           PlacedUpTo(a.mxFrame), a.pc = "walk", SearchOk(a), aHash[a.iHash][a.iKey] = 0
    PROVE  IF WantedHere(a) = {} THEN a.iRead = 0 ELSE IsNewestHere(a, a.iRead)
<1>1. CASE WantedHere(a) = {} BY <1>1 DEF SearchOk
<1>2. CASE WantedHere(a) # {}
  <2>1. PICK f : IsNewestHere(a, f) BY <1>2, NewestHere
  <2>2. PICK j : IsAt(a, j) BY SearchIsAt
  <2>3. PICK p, h : p = a.pgno /\ h = a.iHash OBVIOUS
  <2>4. j \in Slot /\ aHash[h][Probe(p, j)] = 0 BY <2>2, <2>3 DEF IsAt
  <2>5. PICK x \in Slot : IsReached(h, p, x, Index(f)) /\ (a.iRead = f \/ j <= x) BY <2>1, <2>2, <2>3 DEF IsAt
  <2>6. f \in Wanted(a) BY <2>1 DEF IsNewestHere, WantedHere
  <2>7. Index(f) # 0 BY <2>6, WantedIs
  <2>8. aHash[h][Probe(p, x)] = Index(f) /\ \A j2 \in 0..(x - 1) : aHash[h][Probe(p, j2)] # 0 BY <2>5 DEF IsReached
  <2>9. x # j BY <2>4, <2>7, <2>8
  <2>10. ~(j < x)
    <3> SUFFICES ASSUME j < x PROVE FALSE OBVIOUS
    <3>1. j \in Nat /\ x \in Nat BY <2>4, SlotCount
    <3>2. j \in 0..(x - 1) BY <3>1
    <3> QED BY <2>4, <2>8, <3>2
  <2>11. ~(j <= x)
    <3>1. j \in Nat /\ x \in Nat BY <2>4, SlotCount
    <3> QED BY <2>9, <2>10, <3>1
  <2>12. a.iRead = f BY <2>5, <2>11
  <2> QED BY <1>2, <2>1, <2>12
<1> QED BY <1>1, <1>2

\* The search is over: b is what the reader a becomes.
LEMMA SearchEnds ==
    ASSUME LogInv, NEW a, a.mxFrame \in Nat, a.mxFrame <= Len(log), a.minFrame \in Nat \ {0},
           PlacedUpTo(a.mxFrame), a.pc = "walk", SearchOk(a), aHash[a.iHash][a.iKey] = 0,
           a.iRead # 0 \/ a.iHash <= walFramePage(a.minFrame)
    PROVE  a.iRead = Newest(a.pgno, a.minFrame, a.mxFrame)
<1>1. PICK p, n, min, h : p = a.pgno /\ n = a.mxFrame /\ min = a.minFrame /\ h = a.iHash OBVIOUS
<1>2. n \in Nat /\ min \in Nat \ {0} BY <1>1
<1>3. h \in Tables /\ \A f \in Wanted(a) : walFramePage(f) <= h BY <1>1 DEF SearchOk
<1>4. h \in Nat
  <2>1. 1 \in 1..MaxFrame BY WalIndexAssumption
  <2> QED BY <1>3, <2>1, FrameInTables
<1>5. CASE WantedHere(a) = {}
  <2>1. a.iRead = 0 BY <1>5, TableIsRead
  <2>2. h <= walFramePage(min) BY <1>1, <2>1
  <2>3. ASSUME NEW f \in Wanted(a) PROVE FALSE
    <3>1. f \in min..n /\ f \in Nat \ {0} /\ walFramePage(f) \in Nat BY <1>1, <2>3, WantedIs
    <3>2. min <= f BY <1>2, <3>1
    <3>3. walFramePage(min) <= walFramePage(f) /\ walFramePage(min) \in Nat BY <1>2, <3>1, <3>2, FrameOrder, FrameTable
    <3>4. walFramePage(f) <= h BY <1>3, <2>3
    <3>5. walFramePage(f) = h BY <1>4, <2>2, <3>1, <3>3, <3>4
    <3>6. f \in WantedHere(a) BY <1>1, <2>3, <3>5 DEF WantedHere
    <3> QED BY <1>5, <3>6
  <2>4. \A f \in min..n : log[f].pg # p BY <1>1, <2>3 DEF Wanted
  <2>5. Newest(p, min, n) = 0 BY <1>2, <2>4, NewestIs
  <2> QED BY <1>1, <2>1, <2>5
<1>6. CASE WantedHere(a) # {}
  <2>1. PICK f : f = a.iRead OBVIOUS
  <2>2. IsNewestHere(a, f) BY <1>6, <2>1, TableIsRead
  <2>3. f \in Wanted(a) /\ walFramePage(f) = h BY <1>1, <2>2 DEF IsNewestHere, WantedHere
  <2>4. f \in min..n /\ f \in Nat \ {0} /\ log[f].pg = p BY <1>1, <2>3, WantedIs
  <2>5. ASSUME NEW g \in min..n, log[g].pg = p PROVE g <= f
    <3>1. g \in Wanted(a) BY <1>1, <2>5 DEF Wanted
    <3>2. g \in Nat \ {0} /\ walFramePage(g) \in Nat /\ walFramePage(g) <= h BY <1>3, <3>1, WantedIs
    <3>3. CASE walFramePage(g) = h
      <4>1. g \in WantedHere(a) BY <1>1, <3>1, <3>3 DEF WantedHere
      <4> QED BY <2>2, <4>1 DEF IsNewestHere
    <3>4. CASE walFramePage(g) # h
      <4>1. ~(walFramePage(f) <= walFramePage(g)) BY <1>4, <2>3, <3>2, <3>4
      <4>2. ~(f <= g) BY <2>4, <3>2, <4>1, FrameOrder
      <4> QED BY <2>4, <3>2, <4>2
    <3> QED BY <3>3, <3>4
  <2>6. Newest(p, min, n) = f
    <3>1. IsLastOf(p, min, n, f) BY <2>4, <2>5 DEF IsLastOf
    <3> QED BY <1>2, <3>1, NewestIs
  <2> QED BY <1>1, <2>1, <2>6
<1> QED BY <1>5, <1>6

\* The table before: b is what the reader a becomes.
LEMMA TableBefore ==
    ASSUME LogInv, NEW a, a.mxFrame \in Nat, a.mxFrame <= Len(log), a.minFrame \in Nat \ {0},
           PlacedUpTo(a.mxFrame), a.pc = "walk", SearchOk(a),
           NEW b, b.mxFrame = a.mxFrame, b.minFrame = a.minFrame, b.pgno = a.pgno, ChangesTable(a, b)
    PROVE  SearchOk(b)
<1> USE DEF ChangesTable
<1>1. PICK h : h = a.iHash OBVIOUS
<1>2. h \in Tables /\ a.pgno \in Pgno /\ \A f \in Wanted(a) : walFramePage(f) <= h BY <1>1 DEF SearchOk
<1>3. walFramePage(MaxFrame) \in Nat /\ walFramePage(a.minFrame) \in Nat
  <2>1. MaxFrame \in Nat \ {0} BY WalIndexAssumption
  <2> QED BY <2>1, FrameTable
<1>4. h \in 0..walFramePage(MaxFrame) BY <1>2 DEF Tables
<1>5. h - 1 \in Tables /\ h \in Nat
  <2>1. h \in Nat /\ ~(h <= walFramePage(a.minFrame)) BY <1>1, <1>3, <1>4
  <2>2. h # 0 BY <1>3, <2>1
  <2>3. h - 1 \in 0..walFramePage(MaxFrame) BY <1>3, <1>4, <2>1, <2>2
  <2> QED BY <2>1, <2>3 DEF Tables
<1>6. WantedHere(a) = {}
  <2> SUFFICES ASSUME WantedHere(a) # {} PROVE FALSE OBVIOUS
  <2>1. IsNewestHere(a, a.iRead) BY TableIsRead
  <2>2. a.iRead \in Wanted(a) BY <2>1 DEF IsNewestHere, WantedHere
  <2>3. a.iRead # 0 BY <2>2, WantedIs
  <2> QED BY <2>3
<1>7. Wanted(b) = Wanted(a) BY DEF Wanted
<1>8. ASSUME NEW f \in Wanted(b) PROVE walFramePage(f) <= h - 1
  <2>1. f \in Wanted(a) BY <1>7
  <2>2. walFramePage(f) \in Nat /\ walFramePage(f) <= h BY <1>2, <2>1, WantedIs
  <2>3. walFramePage(f) # h BY <1>1, <1>6, <2>1 DEF WantedHere
  <2> QED BY <1>5, <2>2, <2>3
<1>9. /\ b.mxFrame \in Nat /\ b.mxFrame <= Len(log) /\ b.minFrame \in Nat \ {0} /\ PlacedUpTo(b.mxFrame)
      /\ b.pc = "walk" /\ b.pgno \in Pgno /\ b.iHash \in Tables /\ b.iKey = walHash(b.pgno) /\ b.iRead = 0
      /\ \A f \in Wanted(b) : walFramePage(f) <= b.iHash
  BY <1>1, <1>2, <1>5, <1>8
<1> QED BY <1>9, SearchBegins

\* What is known of a reader at work.
LEMMA ReaderAtWork ==
    ASSUME HeadersInv, TablesInv, NEW r \in Readers, NEW a, a = rd[r], a.pc # "idle"
    PROVE  /\ a.mxFrame \in Nat /\ a.mxFrame <= Len(log) /\ a.minFrame \in Nat \ {0} /\ PlacedUpTo(a.mxFrame)
           /\ ReaderType(a) /\ LogInv /\ TablesType
<1>1. ReaderType(a) /\ a.minFrame # 0 BY DEF HeadersInv, ReadersInv, ReaderInv
<1>2. a.mxFrame \in Nat /\ a.mxFrame <= Len(log) BY LiveFrames
<1>3. a.minFrame \in Nat \ {0} BY <1>1 DEF ReaderType
<1> QED BY <1>1, <1>2, <1>3 DEF TablesInv, SnapshotsPlaced, HeadersInv

\* A step of a search.
LEMMA FindStepSearch ==
    ASSUME HeadersInv, TablesInv, NEW r \in Readers, SearchOk(rd[r]), FindStep(r)
    PROVE  \E b : SetReader(r, b) /\ SearchOk(b)
<1>1. PICK a : a = rd[r] OBVIOUS
<1>2. a.pc = "walk" /\ SearchOk(a) BY <1>1 DEF FindStep
<1>3. /\ a.mxFrame \in Nat /\ a.mxFrame <= Len(log) /\ a.minFrame \in Nat \ {0} /\ PlacedUpTo(a.mxFrame)
      /\ ReaderType(a) /\ LogInv /\ TablesType
  <2>1. a.pc # "idle" BY <1>2
  <2> QED BY <1>1, <2>1, ReaderAtWork
<1>4. PICK b : /\ SetReader(r, b) /\ b.mxFrame = a.mxFrame /\ b.minFrame = a.minFrame /\ b.pgno = a.pgno
               /\ ReadsSlot(a, b) \/ EndsSearch(a, b) \/ ChangesTable(a, b)
  BY <1>1, <1>3, FindStepIs
<1>5. CASE ReadsSlot(a, b)
  <2>1. SearchOk(b) BY <1>2, <1>3, <1>4, <1>5, SlotIsRead
  <2> QED BY <1>4, <2>1
<1>6. CASE EndsSearch(a, b)
  <2>1. /\ aHash[a.iHash][a.iKey] = 0 /\ (a.iRead # 0 \/ a.iHash <= walFramePage(a.minFrame))
        /\ b.pc = "found" /\ b.iRead = a.iRead
    BY <1>6 DEF EndsSearch
  <2>2. a.iRead = Newest(a.pgno, a.minFrame, a.mxFrame) BY <1>2, <1>3, <2>1, SearchEnds
  <2>3. a.pgno \in Pgno BY <1>2 DEF SearchOk
  <2>4. SearchOk(b) BY <1>4, <2>1, <2>2, <2>3 DEF SearchOk
  <2> QED BY <1>4, <2>4
<1>7. CASE ChangesTable(a, b)
  <2>1. SearchOk(b) BY <1>2, <1>3, <1>4, <1>7, TableBefore
  <2> QED BY <1>4, <2>1
<1> QED BY <1>4, <1>5, <1>6, <1>7

\* A search begins in the table of the last frame of the snapshot.
LEMMA FindBeginSearch ==
    ASSUME HeadersInv, TablesInv, NEW r \in Readers, FindBegin(r)
    PROVE  \E b : SetReader(r, b) /\ SearchOk(b)
<1>0. PICK p \in Pgno : SetReader(r, [pc |-> "walk", mxFrame |-> aHdr[0].mxFrame, minFrame |-> nBackfill + 1,
                                      pgno |-> p, iHash |-> walFramePage(aHdr[0].mxFrame),
                                      iKey |-> walHash(p), iRead |-> 0])
  BY DEF FindBegin
<1>1. PICK b : /\ SetReader(r, b)
               /\ b = [pc |-> "walk", mxFrame |-> aHdr[0].mxFrame, minFrame |-> nBackfill + 1,
                       pgno |-> p, iHash |-> walFramePage(aHdr[0].mxFrame), iKey |-> walHash(p), iRead |-> 0]
  BY <1>0
<1>2. PICK n : n = aHdr[0].mxFrame OBVIOUS
<1>3. IsGood /\ n # 0 BY <1>2 DEF FindBegin, IsGood
<1>4. LogInv /\ nBackfill \in Nat /\ Len(log) \in Nat /\ Len(log) <= MaxFrame BY DEF HeadersInv, LogInv
<1>5. n \in Nat \ {0} /\ n <= Len(log) BY <1>2, <1>3, LiveFrames
<1>6. PlacedUpTo(n) BY <1>2, <1>3 DEF TablesInv, SnapshotsPlaced
<1>7. /\ b.pc = "walk" /\ b.mxFrame = n /\ b.minFrame = nBackfill + 1 /\ b.pgno = p /\ b.iHash = walFramePage(n)
      /\ b.iKey = walHash(p) /\ b.iRead = 0
  BY <1>1, <1>2
<1>8. nBackfill + 1 \in Nat \ {0} BY <1>4
<1>9. walFramePage(n) \in Tables
  <2>1. n \in 1..MaxFrame BY <1>4, <1>5, WalIndexAssumption
  <2> QED BY <2>1, FrameInTables
<1>10. ASSUME NEW f \in Wanted(b) PROVE walFramePage(f) <= walFramePage(n)
  <2>1. f \in 1..n BY <1>7, <1>8 DEF Wanted
  <2>2. f \in Nat \ {0} /\ f <= n BY <1>5, <2>1
  <2> QED BY <1>5, <2>2, FrameOrder
<1>11. /\ b.mxFrame \in Nat /\ b.mxFrame <= Len(log) /\ b.minFrame \in Nat \ {0} /\ PlacedUpTo(b.mxFrame)
       /\ b.pc = "walk" /\ b.pgno \in Pgno /\ b.iHash \in Tables /\ b.iKey = walHash(b.pgno) /\ b.iRead = 0
       /\ \A f \in Wanted(b) : walFramePage(f) <= b.iHash
  BY <1>1, <1>5, <1>6, <1>7, <1>8, <1>9, <1>10
<1>12. SearchOk(b) BY <1>4, <1>11, SearchBegins
<1> QED BY <1>1, <1>12

\* A step of one reader leaves the searches of the others.
LEMMA ReaderSearches ==
    ASSUME HeadersInv, SearchInv, UNCHANGED <<log, aPgno, aHash>>, NEW r \in Readers, NEW b, SetReader(r, b), SearchOk(b)
    PROVE  SearchInv'
<1>1. rd = [q \in Readers |-> rd[q]] BY DEF HeadersInv, ReadersInv
<1>2. rd'[r] = b /\ \A q \in Readers : q # r => rd'[q] = rd[q] BY <1>1 DEF SetReader
<1>3. \A a : SearchOk(a)' <=> SearchOk(a) BY DEF SearchOk, Wanted, WantedHere, Newest
<1>4. ASSUME NEW q \in Readers PROVE SearchOk(rd[q])'
  <2>1. PICK a : a = rd'[q] OBVIOUS
  <2>2. SearchOk(a) BY <1>2, <2>1 DEF SearchInv
  <2>3. SearchOk(a)' BY <1>3, <2>2
  <2> QED BY <2>1, <2>3 DEF SearchOk, Wanted, WantedHere, Newest
<1> QED BY <1>4 DEF SearchInv

\* Every step keeps every search right.
LEMMA SearchNext ==
    ASSUME HeadersInv, TablesInv, TablesInv', SearchInv, MemoryNext
    PROVE  SearchInv'
<1>1. CASE \E r \in Readers : FindBegin(r) \/ FindStep(r)
  <2>1. PICK r \in Readers : FindBegin(r) \/ FindStep(r) BY <1>1
  <2>2. UNCHANGED <<log, aPgno, aHash>> BY <2>1 DEF FindBegin, FindStep, readerUnchanged, shmVars
  <2>3. \E b : SetReader(r, b) /\ SearchOk(b)
    <3>1. SearchOk(rd[r]) BY DEF SearchInv
    <3> QED BY <2>1, <3>1, FindBeginSearch, FindStepSearch
  <2> QED BY <2>2, <2>3, ReaderSearches
<1>2. CASE \E r \in Readers : EndRead(r)
  <2>1. PICK r \in Readers : EndRead(r) BY <1>2
  <2>2. UNCHANGED <<log, aPgno, aHash>> /\ SetReader(r, NoReader) BY <2>1 DEF EndRead, readerUnchanged, shmVars
  <2>3. SearchOk(NoReader)
    <3>1. NoReader.pc = "idle" BY DEF NoReader
    <3> QED BY <3>1 DEF SearchOk
  <2> QED BY <2>2, <2>3, ReaderSearches
<1>3. CASE ~(\E r \in Readers : FindBegin(r) \/ FindStep(r) \/ EndRead(r))
  <2>1. rd' = rd
    BY <1>3, Zenon DEF MemoryNext, BeginCkpt, CkptReadHdr, CkptSort, CkptNext, CkptEnd, ckptUnchanged, BeginWrite, RestartLog,
       StoreHdr, Frames, AppendZero, AppendCleanup, AppendPgno, AppendSlot, CleanupHash, Undo, Savepoint, SavepointUndo,
       indexOnly, CrashWriter, Recover
  <2>2. ASSUME NEW r \in Readers PROVE SearchOk(rd[r])'
    <3>1. PICK a : a = rd[r] OBVIOUS
    <3>2. SearchOk(a) /\ rd'[r] = a BY <2>1, <3>1 DEF SearchInv
    <3>3. SearchOk(a)'
      <4>1. CASE a.pc = "idle" BY <4>1 DEF SearchOk
      <4>2. CASE a.pc # "idle"
        <5>1. a.mxFrame \in Nat /\ a.minFrame \in Nat \ {0} BY <3>1, <4>2, ReaderAtWork
        <5>2. Keeps(a.mxFrame) BY <2>1, <3>1, <4>2, ReadersKeep
        <5> QED BY <3>2, <5>1, <5>2, SearchKept
      <4> QED BY <4>1, <4>2
    <3> QED BY <3>2, <3>3 DEF SearchOk, Wanted, WantedHere, Newest
  <2> QED BY <2>2 DEF SearchInv
<1> QED BY <1>1, <1>2, <1>3

\* At first nobody searches.
LEMMA SearchInit == MemoryInit => SearchInv
<1> SUFFICES ASSUME MemoryInit PROVE SearchInv OBVIOUS
<1>1. ASSUME NEW r \in Readers PROVE SearchOk(rd[r])
  <2>1. rd[r].pc = "idle" BY DEF MemoryInit, NoReader
  <2> QED BY <2>1 DEF SearchOk
<1> QED BY <1>1 DEF SearchInv

\* Steps of other parts of the system leave the tables and the searches alone.
LEMMA TablesStutter == ASSUME TablesInv, UNCHANGED memoryVars PROVE TablesInv'
<1>1. UNCHANGED <<log, aHdr, aPgno, aHash, w, rd>> BY DEF memoryVars, shmVars
<1>2. \A r \in Readers : rd'[r].pc # "idle" => PlacedUpTo(rd'[r].mxFrame) BY <1>1 DEF TablesInv, SnapshotsPlaced
<1> QED BY <1>1, <1>2, TablesReading

\* The same of the searches.
LEMMA SearchStutter == ASSUME SearchInv, UNCHANGED memoryVars PROVE SearchInv'
<1>1. UNCHANGED <<log, aPgno, aHash, rd>> BY DEF memoryVars, shmVars
<1>2. ASSUME NEW r \in Readers PROVE SearchOk(rd[r])'
  <2>1. SearchOk(rd[r]) BY DEF SearchInv
  <2> QED BY <1>1, <2>1 DEF SearchOk, Wanted, WantedHere, Newest
<1> QED BY <1>2 DEF SearchInv
=============================================================================
