------------------------------ MODULE WalIndex ------------------------------
(***************************************************************************)
(* The wal-index as memory: the two copies of the header, which are stored *)
(* and loaded word by word, and the hash tables, in which readers search   *)
(* without a lock while a writer appends to them, a rollback or the next   *)
(* writer cleans them up, or a recovery copies them over.  A checkpointer  *)
(* sorts the page numbers of the same tables.                              *)
(*                                                                         *)
(* Module Wal takes headers as one word and searches the log itself; the   *)
(* protocol of locks and read marks is there, and here only what it        *)
(* promises: one writer, one checkpointer, no restart of the log while a   *)
(* reader holds a mark, or between a checkpointer's load of the header and *)
(* of nBackfill (CkptPreempt).  A reader looks at the header a second time *)
(* after it has locked its mark, so that it opens in one step here; the    *)
(* checkpointer, which does not, loads it word by word.                    *)
(***************************************************************************)
EXTENDS Naturals, Sequences, FiniteSets, SequencesExt

CONSTANTS
    HASHTABLE_NPAGE,        \* frames of one hash table
    HASHTABLE_NPAGE_ONE,    \* frames of the first one
    HASHTABLE_HASH_1,
    Readers,
    MaxPage,                \* bound: page numbers
    MaxFrame,               \* bound: frames
    KillInMemset,           \* may a writer be killed inside walCleanupHash's memset?
    MaxReading,             \* bound: readers and checkpointers at once
    MaxRestart,             \* bound: restarts of the log
    MaxCrash                \* bound: writers that die

ASSUME WalIndexAssumption ==
    /\ HASHTABLE_NPAGE \in Nat \ {0} /\ HASHTABLE_NPAGE_ONE \in 1..HASHTABLE_NPAGE
    /\ HASHTABLE_HASH_1 \in Nat /\ MaxPage \in Nat \ {0} /\ MaxFrame \in Nat \ {0}
    /\ KillInMemset \in BOOLEAN /\ MaxReading \in Nat
    /\ MaxRestart \in Nat /\ MaxCrash \in Nat

VARIABLES
    log,            \* frames of the WAL file: page number, size of the database
                    \* in a commit frame, and is the checksum right?
    logSalt,        \* salt in the header of the WAL file
    aHdr,           \* the two copies of the header
    aPgno, aHash,   \* of every hash table
    nBackfill,
    w,              \* the connection that has the WRITER lock
    rd,             \* the readers
    ck,             \* the connection that has the CKPT lock
    nCrash

shmVars == <<aHdr, aPgno, aHash, nBackfill>>
memoryVars == <<log, logSalt, shmVars, w, rd, ck, nCrash>>

Pgno == 1..MaxPage

\* The parts in which the header is loaded and stored.
Words == {{"mxFrame"}, {"nPage", "aSalt", "aCksum"}}
Copy(to, from, x) == [f \in DOMAIN to |-> IF f \in x THEN from[f] ELSE to[f]]

(***************************************************************************)
(* Hash tables                                                             *)
(***************************************************************************)
HASHTABLE_NSLOT == 2 * HASHTABLE_NPAGE

walHash(iPage) == (iPage * HASHTABLE_HASH_1) % HASHTABLE_NSLOT
walNextHash(iPriorHash) == (iPriorHash + 1) % HASHTABLE_NSLOT

\* The table of a frame, and one less than the first frame of a table.
walFramePage(iFrame) ==
    (iFrame + HASHTABLE_NPAGE - HASHTABLE_NPAGE_ONE - 1) \div HASHTABLE_NPAGE
iZero(iHash) ==
    IF iHash = 0 THEN 0 ELSE HASHTABLE_NPAGE_ONE + (iHash - 1) * HASHTABLE_NPAGE
TableSize(iHash) == IF iHash = 0 THEN HASHTABLE_NPAGE_ONE ELSE HASHTABLE_NPAGE

Tables == 0..walFramePage(MaxFrame)

\* Mutant: the first table is taken to be as long as the others.
FullPgno(iHash) == [i \in 1..HASHTABLE_NPAGE |-> 0]

\* A table after the memset.
EmptyPgno(iHash) == [i \in 1..TableSize(iHash) |-> 0]
EmptyHash == [k \in 0..(HASHTABLE_NSLOT - 1) |-> 0]

\* The slots a search for a page goes through, and how many are in use.
Probe(iPage, j) == (walHash(iPage) + j) % HASHTABLE_NSLOT
InUse(slots, iPage) ==
    CHOOSE n \in 0..HASHTABLE_NSLOT :
        /\ \A j \in 0..(n - 1) : slots[Probe(iPage, j)] # 0
        /\ n < HASHTABLE_NSLOT => slots[Probe(iPage, n)] = 0
FreeSlot(slots, iPage) == Probe(iPage, InUse(slots, iPage))

\* Is slot value iH of a table the frame of page p, between min and last?
IsFrameOf(iHash, iH, p, min, last) ==
    /\ iH # 0 /\ iH + iZero(iHash) \in min..last
    /\ aPgno[iHash][iH] = p

\* The largest and the smallest member of a set of numbers.
Highest(S) == CHOOSE m \in S : \A n \in S : n <= m
Lowest(S) == CHOOSE m \in S : \A n \in S : m <= n

\* sqlite3WalFindFrame in one step, by a connection whose tables nobody
\* changes: the last hit of the last table that has one.
FindFrame(p, last) ==
    LET hits(h) == {j \in 0..(InUse(aHash[h], p) - 1) :
                       IsFrameOf(h, aHash[h][Probe(p, j)], p, 1, last)}
        tables == {h \in Tables : last > iZero(h) /\ hits(h) # {}}
        h == Highest(tables)
    IN  IF tables = {} THEN 0 ELSE aHash[h][Probe(p, Highest(hits(h)))] + iZero(h)

\* The frames before the first one with a wrong checksum.
Valid == LET bad == {i \in 1..Len(log) : ~log[i].ok}
         IN  IF bad = {} THEN log
             ELSE SubSeq(log, 1, Lowest(bad) - 1)

\* walIndexRecover enters frame n in the tables t; the tables it builds from
\* the first n frames and from the valid ones.
Entered(t, n) ==
    LET h == walFramePage(n)
        i == n - iZero(h)
    IN  [t EXCEPT ![h] = [pg |-> [t[h].pg EXCEPT ![i] = log[n].pg],
                          slot |-> [t[h].slot EXCEPT ![FreeSlot(t[h].slot, log[n].pg)] = i]]]
Built[n \in 0..MaxFrame] ==
    IF n = 0 THEN [h \in Tables |-> [pg |-> EmptyPgno(h), slot |-> EmptyHash]]
    ELSE Entered(Built[n - 1], n)
Rebuilt == Built[Len(Valid)]

(***************************************************************************)
(* The sort of a table's frames by page number                             *)
(***************************************************************************)
\* Mutant: of two frames of a page the one on the left comes first.
LeftOfTie(aContent, i, j) == aContent[i] <= aContent[j]

\* Is the frame on the left next?
LeftIsNext(aContent, i, j) == aContent[i] < aContent[j]

\* Two sorted lists of indices into aContent; of two frames of a page the
\* one on the right stays.
walMerge(aContent, aLeft, aRight) ==
    LET Rest[l \in 1..(Len(aLeft) + 1), r \in 1..(Len(aRight) + 1)] ==
            IF l > Len(aLeft) /\ r > Len(aRight) THEN <<>>
            ELSE LET left == /\ l <= Len(aLeft)
                             /\ r > Len(aRight) \/ LeftIsNext(aContent, aLeft[l], aRight[r])
                     logpage == IF left THEN aLeft[l] ELSE aRight[r]
                     l1 == IF left THEN l + 1 ELSE l
                     same == l1 <= Len(aLeft) /\ aContent[aLeft[l1]] = aContent[logpage]
                 IN  <<logpage>> \o Rest[IF same THEN l1 + 1 ELSE l1, IF left THEN r ELSE r + 1]
    IN  Rest[1, 1]

\* aSub[s] holds a sorted block of 2^s entries; at the end the blocks that the
\* bits of nList stand for are merged, the last one first.
walMergesort(aContent, nList) ==
    LET levels == 0..HASHTABLE_NPAGE
        Block[s \in levels, i \in 0..nList] ==
            IF s = 0 THEN <<i + 1>>
            ELSE walMerge(aContent, Block[s - 1, i], Block[s - 1, i + 2^(s - 1)])
        start(s) == (nList \div 2^(s + 1)) * 2^(s + 1)
        Merged[s \in levels] ==
            LET lower == IF s = 0 THEN <<>> ELSE Merged[s - 1]
            IN  IF (nList \div 2^s) % 2 = 0 THEN lower
                ELSE IF lower = <<>> THEN Block[s, start(s)]
                ELSE walMerge(aContent, Block[s, start(s)], lower)
    IN  Merged[HASHTABLE_NPAGE]

\* walIteratorInit: the sorted frames of every table from that of frame
\* nBackfill + 1 to that of the last frame.
walIteratorInit(nBack, iLast) ==
    [h \in Tables |->
        IF h \in walFramePage(nBack + 1)..walFramePage(iLast)
        THEN walMergesort(aPgno[h], IF h = walFramePage(iLast) THEN iLast - iZero(h)
                                    ELSE TableSize(h))
        ELSE <<>>]

\* walIteratorNext: the smallest page above iPrior, with the frame that the
\* last table has for it; page 0 if there is none.
walIteratorNext(aIndex, iPrior) ==
    LET more == {c \in UNION {{<<h, aIndex[h][n]>> : n \in 1..Len(aIndex[h])} : h \in Tables} :
                    aPgno[c[1]][c[2]] > iPrior}
        page(c) == aPgno[c[1]][c[2]]
    IN  IF more = {} THEN [pg |-> 0, frame |-> 0]
        ELSE LET c == CHOOSE c \in more : \A d \in more :
                          page(c) < page(d) \/ (page(c) = page(d) /\ c[1] >= d[1])
             IN  [pg |-> page(c), frame |-> iZero(c[1]) + c[2]]

(***************************************************************************)
(* Headers                                                                 *)
(***************************************************************************)
Hdr(mx, n, salt) == [mxFrame |-> mx, nPage |-> n, aSalt |-> salt, aCksum |-> <<mx, n, salt>>]
ZeroHdr == Hdr(0, 0, 0)

\* Mutant: the first copy is believed.
FirstCopyIsInit(h1, h2) == h1.aSalt # 0

\* walIndexTryHdr: the copies agree, are initialized, and the checksum is right.
HdrOk(h1, h2) ==
    /\ h1 = h2
    /\ h1.aSalt # 0
    /\ h1 = Hdr(h1.mxFrame, h1.nPage, h1.aSalt)

NoWriter == [pc |-> "idle", ret |-> "idle", hdr |-> ZeroHdr, iFrame |-> 0, list |-> <<>>,
             nTruncate |-> 0, todo |-> {}, save |-> ZeroHdr]
NoReader == [pc |-> "idle", mxFrame |-> 0, minFrame |-> 0, pgno |-> 0,
             iHash |-> 0, iKey |-> 0, iRead |-> 0]
NoCkpt == [pc |-> "idle", h1 |-> ZeroHdr, h2 |-> ZeroHdr, todo |-> {}, nBackfill |-> 0,
           mxSafeFrame |-> 0, aIndex |-> [h \in Tables |-> <<>>], iPrior |-> 0, out |-> <<>>]

\* A wal-index that a recovery of an empty log has written.
MemoryInit ==
    /\ log = <<>> /\ logSalt = 1
    /\ aHdr = [i \in 0..1 |-> Hdr(0, 0, 1)]
    /\ aPgno = [h \in Tables |-> EmptyPgno(h)]
    /\ aHash = [h \in Tables |-> EmptyHash]
    /\ nBackfill = 0
    /\ w = NoWriter
    /\ rd = [r \in Readers |-> NoReader]
    /\ ck = NoCkpt
    /\ nCrash = 0

\* A load of a word of the header by the reader or checkpointer a: the first
\* copy and, after a barrier, the second one, each in any order.
Loads(a) ==
    {LET b == IF a.pc = "copy0" THEN [a EXCEPT !.h1 = Copy(@, aHdr[0], x), !.todo = @ \ {x}]
                                ELSE [a EXCEPT !.h2 = Copy(@, aHdr[1], x), !.todo = @ \ {x}]
     IN  IF b.todo # {} THEN b
         ELSE IF a.pc = "copy0" THEN [b EXCEPT !.pc = "copy1", !.todo = Words]
         ELSE [b EXCEPT !.pc = "loaded"] : x \in a.todo}

(***************************************************************************)
(* Readers: walTryBeginRead, sqlite3WalFindFrame                           *)
(***************************************************************************)
SetReader(r, a) == rd' = [rd EXCEPT ![r] = a]
readerUnchanged == <<log, logSalt, shmVars, w, ck, nCrash>>

\* Bound: a connection more may look at the wal-index.
MayBegin ==
    Cardinality({r \in Readers : rd[r].pc # "idle"}) + (IF ck.pc = "idle" THEN 0 ELSE 1) < MaxReading

\* A reader whose header is good and that has locked a read mark for it
\* searches for a page.
FindBegin(r) ==
    /\ rd[r].pc = "idle" /\ MayBegin
    /\ HdrOk(aHdr[0], aHdr[1])
    /\ aHdr[0].mxFrame \notin {0, nBackfill}
    /\ \E p \in Pgno :
          SetReader(r, [pc |-> "walk", mxFrame |-> aHdr[0].mxFrame, minFrame |-> nBackfill + 1,
                        pgno |-> p, iHash |-> walFramePage(aHdr[0].mxFrame),
                        iKey |-> walHash(p), iRead |-> 0])
    /\ UNCHANGED readerUnchanged

\* One slot: at an empty one the search goes on in the table before.
FindStep(r) ==
    /\ rd[r].pc = "walk"
    /\ LET a == rd[r]
           iH == aHash[a.iHash][a.iKey]
       IN  SetReader(r,
               IF iH # 0
               THEN [a EXCEPT !.iKey = walNextHash(@),
                              !.iRead = IF IsFrameOf(a.iHash, iH, a.pgno, a.minFrame, a.mxFrame)
                                        THEN iH + iZero(a.iHash) ELSE @]
               ELSE IF a.iRead # 0 \/ a.iHash <= walFramePage(a.minFrame)
               THEN [a EXCEPT !.pc = "found"]
               ELSE [a EXCEPT !.iHash = @ - 1, !.iKey = walHash(a.pgno)])
    /\ UNCHANGED readerUnchanged

EndRead(r) ==
    /\ rd[r].pc = "found"
    /\ SetReader(r, NoReader)
    /\ UNCHANGED readerUnchanged

(***************************************************************************)
(* The checkpointer: sqlite3WalCheckpoint in PASSIVE mode                  *)
(***************************************************************************)
ckptUnchanged == <<log, logSalt, aHdr, aPgno, aHash, w, rd, nCrash>>

BeginCkpt ==
    /\ ck.pc = "idle" /\ MayBegin
    /\ w.pc # "recover" /\ (w.pc \in {"hdr1", "hdr0"} => w.ret = "commit")
    /\ ck' = [NoCkpt EXCEPT !.pc = "copy0", !.todo = Words]
    /\ UNCHANGED <<ckptUnchanged, nBackfill>>

CkptReadHdr ==
    /\ ck.pc \in {"copy0", "copy1"}
    /\ \E a \in Loads(ck) : ck' = a
    /\ UNCHANGED <<ckptUnchanged, nBackfill>>

\* The frames no reader needs the old pages for.
SafeFrame ==
    Lowest({ck.h1.mxFrame} \cup {rd[r].mxFrame : r \in {q \in Readers : rd[q].pc # "idle"}})

\* A bad header is recovered by whoever takes the WRITER lock next (BeginWrite).
CkptSort ==
    /\ ck.pc = "loaded"
    /\ ck' = IF HdrOk(ck.h1, ck.h2) /\ nBackfill < SafeFrame
             THEN [ck EXCEPT !.pc = "iterate", !.nBackfill = nBackfill, !.mxSafeFrame = SafeFrame,
                             !.aIndex = walIteratorInit(nBackfill, ck.h1.mxFrame)]
             ELSE NoCkpt
    /\ UNCHANGED <<ckptUnchanged, nBackfill>>

CkptNext ==
    /\ ck.pc = "iterate"
    /\ LET n == walIteratorNext(ck.aIndex, ck.iPrior)
       IN  ck' = IF n.pg = 0 THEN [ck EXCEPT !.pc = "done"]
                 ELSE [ck EXCEPT !.iPrior = n.pg, !.out = Append(@, n)]
    /\ UNCHANGED <<ckptUnchanged, nBackfill>>

CkptEnd ==
    /\ ck.pc = "done"
    /\ nBackfill' = ck.mxSafeFrame
    /\ ck' = NoCkpt
    /\ UNCHANGED ckptUnchanged

(***************************************************************************)
(* The writer                                                              *)
(***************************************************************************)
SetPgno(h, i, p) == aPgno' = [aPgno EXCEPT ![h][i] = p]
SetSlot(h, k, v) == aHash' = [aHash EXCEPT ![h][k] = v]
indexOnly == <<log, logSalt, aHdr, nBackfill, rd, ck, nCrash>>

\* A writer starts from a good header; a bad one leads to recovery, which
\* needs the CKPT lock too.
BeginWrite ==
    /\ w.pc = "idle"
    /\ \/ /\ HdrOk(aHdr[0], aHdr[1])
          /\ w' = [NoWriter EXCEPT !.pc = "open", !.hdr = aHdr[0]]
       \/ /\ ~HdrOk(aHdr[0], aHdr[1]) /\ ck.pc = "idle"
          /\ w' = [NoWriter EXCEPT !.pc = "recover"]
    /\ UNCHANGED <<log, logSalt, shmVars, rd, ck, nCrash>>

\* A writer between two calls.
Between(a, hdr) == [NoWriter EXCEPT !.pc = "open", !.hdr = hdr, !.save = a.save]

\* walIndexWriteHdr begins; what follows it is named by next.
WriteHdr(hdr, next) == [Between(w, hdr) EXCEPT !.pc = "hdr1", !.ret = next, !.todo = Words]

\* A word of the header: the second copy and, after a barrier, the first.
StoreHdr ==
    /\ w.pc \in {"hdr1", "hdr0"}
    /\ \E x \in w.todo :
          LET last == w.todo = {x}
              done == last /\ w.pc = "hdr0"
          IN  /\ aHdr' = [aHdr EXCEPT ![IF w.pc = "hdr1" THEN 1 ELSE 0] = Copy(@, w.hdr, x)]
              /\ nBackfill' = IF done /\ w.ret # "commit" THEN 0 ELSE nBackfill
              /\ w' = IF done THEN IF w.ret = "restart" THEN Between(w, w.hdr) ELSE NoWriter
                      ELSE IF last THEN [w EXCEPT !.pc = "hdr0", !.todo = Words]
                      ELSE [w EXCEPT !.todo = @ \ {x}]
    /\ UNCHANGED <<log, logSalt, aPgno, aHash, rd, ck, nCrash>>

\* walRestartLog, before the first frames of a transaction.
RestartLog ==
    /\ w.pc = "open" /\ w.hdr = aHdr[0]
    /\ nBackfill = w.hdr.mxFrame /\ nBackfill > 0
    /\ \A r \in Readers : rd[r].pc = "idle"
    /\ ck.pc \notin {"copy0", "copy1", "loaded"}
    /\ w.hdr.aSalt <= MaxRestart
    /\ w' = WriteHdr(Hdr(0, w.hdr.nPage, w.hdr.aSalt + 1), "restart")
    /\ UNCHANGED <<log, logSalt, shmVars, rd, ck, nCrash>>

\* The lists of dirty pages, which are sorted by page number.
Ascending ==
    {s \in UNION {[1..n -> Pgno] : n \in 0..MaxPage} : \A i, j \in DOMAIN s : i < j => s[i] < s[j]}

\* sqlite3WalFrames up to the writes of the file: a page that the transaction
\* has written before is overwritten in its frame, unless it carries the
\* commit mark; the others are appended.  walRewriteChecksums puts the
\* checksums right when the transaction commits.
Frames(S, isCommit) ==
    LET mx == w.hdr.mxFrame
        iFirst == IF w.hdr # aHdr[0] THEN aHdr[0].mxFrame + 1 ELSE 0
        inPlace == {p \in S : /\ iFirst # 0
                              /\ p # Highest(S) \/ ~isCommit
                              /\ FindFrame(p, mx) >= iFirst}
        touched == {FindFrame(p, mx) : p \in inPlace}
    IN  /\ w.pc = "open" /\ S # {}
        /\ \E append \in Ascending :
              /\ Range(append) = S \ inPlace
              /\ mx + Len(append) <= MaxFrame
              /\ log' = [i \in 1..(mx + Len(append)) |->
                           IF i <= mx THEN [log[i] EXCEPT !.ok = isCommit \/ (@ /\ i \notin touched)]
                           ELSE [pg |-> append[i - mx], ok |-> TRUE,
                                 nTruncate |-> IF isCommit /\ i = mx + Len(append) THEN Highest(S) ELSE 0]]
              /\ w' = IF append = <<>> THEN w
                      ELSE [w EXCEPT !.pc = "append", !.iFrame = mx + 1, !.list = append,
                                     !.nTruncate = IF isCommit THEN Highest(S) ELSE 0]
        /\ logSalt' = w.hdr.aSalt
        /\ UNCHANGED <<shmVars, rd, ck, nCrash>>

\* The table and the index of the frame that walIndexAppend is about.
iHashNow == walFramePage(w.iFrame)
idx == w.iFrame - iZero(iHashNow)

\* Mutant: the page numbers are zeroed and the slots are not.
SlotsKept(iHash) == aHash[iHash]

\* The slots of a table once walIndexAppend has zeroed it.
SlotsZeroed(iHash) == EmptyHash

\* The first frame of a table: the table is zeroed.
AppendZero ==
    /\ w.pc = "append" /\ idx = 1
    /\ aPgno' = [aPgno EXCEPT ![iHashNow] = EmptyPgno(iHashNow)]
    /\ aHash' = [aHash EXCEPT ![iHashNow] = SlotsZeroed(iHashNow)]
    /\ w' = [w EXCEPT !.pc = "pgno"]
    /\ UNCHANGED indexOnly

\* walCleanupHash returns at once when there is no frame to keep.
CleanupThen(a, next) == IF a.hdr.mxFrame = 0 THEN [a EXCEPT !.pc = next]
                        ELSE [a EXCEPT !.pc = "cleanup", !.ret = next]

\* The remains of a writer that died are removed first.
AppendCleanup ==
    /\ w.pc = "append" /\ idx # 1 /\ aPgno[iHashNow][idx] # 0
    /\ w' = CleanupThen(w, "pgno")
    /\ UNCHANGED <<indexOnly, aPgno, aHash>>

AppendPgno ==
    /\ \/ w.pc = "pgno"
       \/ w.pc = "append" /\ idx # 1 /\ aPgno[iHashNow][idx] = 0
    /\ SetPgno(iHashNow, idx, Head(w.list))
    /\ w' = [w EXCEPT !.pc = "slot"]
    /\ UNCHANGED <<indexOnly, aHash>>

AppendSlot ==
    /\ w.pc = "slot"
    /\ SetSlot(iHashNow, FreeSlot(aHash[iHashNow], Head(w.list)), idx)
    /\ LET hdr == Hdr(w.iFrame, IF w.nTruncate = 0 THEN w.hdr.nPage ELSE w.nTruncate, w.hdr.aSalt)
           a == [w EXCEPT !.list = Tail(@), !.iFrame = @ + 1]
       IN  w' = IF Len(w.list) > 1 THEN [a EXCEPT !.pc = "append"]
                ELSE IF w.nTruncate # 0 THEN WriteHdr(hdr, "commit")
                ELSE Between(w, hdr)
    /\ UNCHANGED <<log, logSalt, aHdr, aPgno, nBackfill, rd, ck, nCrash>>

\* Mutant: the last frame to be kept goes too.
LimitTooLow(iHash) == w.hdr.mxFrame - iZero(iHash) - 1

\* iLimit of walCleanupHash.
CleanupLimit(iHash) == w.hdr.mxFrame - iZero(iHash)

\* walCleanupHash: the slots of frames above the limit, one by one, and then
\* the page numbers, by a memset that goes upwards.
CleanupHash ==
    LET h == walFramePage(w.hdr.mxFrame)
        iLimit == CleanupLimit(h)
        above == {k \in DOMAIN aHash[h] : aHash[h][k] > iLimit}
        tail == {i \in (iLimit + 1)..TableSize(h) : aPgno[h][i] # 0}
        zeroed == IF KillInMemset /\ tail # {} THEN {Lowest(tail)} ELSE tail
    IN  /\ w.pc = "cleanup"
        /\ \/ /\ above # {}
              /\ SetSlot(h, Lowest(above), 0)
              /\ UNCHANGED <<aPgno, w>>
           \/ /\ above = {}
              /\ aPgno' = [aPgno EXCEPT ![h] = [i \in DOMAIN @ |-> IF i \in zeroed THEN 0 ELSE @[i]]]
              /\ w' = IF zeroed # tail THEN w
                      ELSE IF w.ret = "idle" THEN NoWriter
                      ELSE [w EXCEPT !.pc = w.ret, !.ret = "idle"]
              /\ UNCHANGED aHash
        /\ UNCHANGED indexOnly

\* sqlite3WalUndo and the end of the transaction.
Undo ==
    /\ w.pc = "open"
    /\ w' = IF w.hdr.mxFrame = aHdr[0].mxFrame \/ aHdr[0].mxFrame = 0 THEN NoWriter
            ELSE CleanupThen([w EXCEPT !.hdr = aHdr[0]], "idle")
    /\ UNCHANGED <<indexOnly, aPgno, aHash>>

\* sqlite3WalSavepoint; the salt stands for nCkpt.
Savepoint ==
    /\ w.pc = "open"
    /\ w' = [w EXCEPT !.save = w.hdr]
    /\ UNCHANGED <<indexOnly, aPgno, aHash>>

\* sqlite3WalSavepointUndo: after a restart everything of the log goes.
SavepointUndo ==
    LET mx == IF w.save.aSalt # w.hdr.aSalt THEN 0 ELSE w.save.mxFrame
    IN  /\ w.pc = "open" /\ w.save # ZeroHdr
        /\ mx < w.hdr.mxFrame
        /\ w' = CleanupThen([w EXCEPT !.hdr = Hdr(mx, w.hdr.nPage, w.hdr.aSalt),
                                       !.save = Hdr(mx, w.hdr.nPage, w.hdr.aSalt)],
                            "open")
        /\ UNCHANGED <<indexOnly, aPgno, aHash>>

\* The writer dies.
CrashWriter ==
    /\ w.pc # "idle" /\ nCrash < MaxCrash
    /\ nCrash' = nCrash + 1
    /\ w' = NoWriter
    /\ UNCHANGED <<log, logSalt, shmVars, rd, ck>>

\* walIndexRecover: the tables are built apart and copied by memcpy, up to
\* that of the first frame that is not valid; then the header is written.
Recover ==
    LET to == {h \in Tables : h <= walFramePage(Len(Valid) + 1)}
        diff == {h \in to : aPgno[h] # Rebuilt[h].pg \/ aHash[h] # Rebuilt[h].slot}
        commits == {0} \cup {i \in 1..Len(Valid) : log[i].nTruncate # 0}
        mx == Highest(commits)
        h == Lowest(diff)
    IN  /\ w.pc = "recover"
        /\ \/ /\ diff # {}
              /\ \/ \E i \in DOMAIN aPgno[h] : /\ aPgno[h][i] # Rebuilt[h].pg[i]
                                               /\ SetPgno(h, i, Rebuilt[h].pg[i])
                                               /\ UNCHANGED aHash
                 \/ \E k \in DOMAIN aHash[h] : /\ aHash[h][k] # Rebuilt[h].slot[k]
                                               /\ SetSlot(h, k, Rebuilt[h].slot[k])
                                               /\ UNCHANGED aPgno
              /\ UNCHANGED w
           \/ /\ diff = {}
              /\ w' = WriteHdr(Hdr(mx, IF mx = 0 THEN 0 ELSE log[mx].nTruncate, logSalt), "recover")
              /\ UNCHANGED <<aPgno, aHash>>
        /\ UNCHANGED <<log, logSalt, aHdr, nBackfill, rd, ck, nCrash>>

(***************************************************************************)
(* The steps of all of them                                                *)
(***************************************************************************)
MemoryNext ==
    \/ \E r \in Readers : FindBegin(r)
    \/ \E r \in Readers : FindStep(r)
    \/ \E r \in Readers : EndRead(r)
    \/ BeginCkpt \/ CkptReadHdr \/ CkptSort \/ CkptNext \/ CkptEnd
    \/ BeginWrite \/ RestartLog \/ StoreHdr
    \/ \E S \in SUBSET Pgno, isCommit \in BOOLEAN : Frames(S, isCommit)
    \/ AppendZero \/ AppendCleanup \/ AppendPgno \/ AppendSlot \/ CleanupHash
    \/ Undo \/ Savepoint \/ SavepointUndo \/ CrashWriter \/ Recover

(***************************************************************************)
(* What the properties of SharedState refer to                             *)
(***************************************************************************)
\* The frame a search must find: the last one of the page, or 0.
Newest(p, min, last) ==
    Highest({0} \cup {f \in min..last : log[f].pg = p})

\* Every table entry, slot and frame number is in its range.
MemoryTypeOK ==
    /\ log \in Seq([pg : Pgno, nTruncate : 0..MaxPage, ok : BOOLEAN]) /\ Len(log) <= MaxFrame
    /\ \A h \in Tables : /\ aPgno[h] \in [1..TableSize(h) -> {0} \cup Pgno]
                         /\ aHash[h] \in [0..(HASHTABLE_NSLOT - 1) -> 0..TableSize(h)]
    /\ nBackfill \in 0..MaxFrame /\ nCrash \in 0..MaxCrash
=============================================================================
