------------------------------ MODULE Journal ------------------------------
(***************************************************************************)
(* Transactions with a rollback journal (src/src/src/pager.c, with the     *)
(* locks of os_unix.c): the locks on the database file, the page cache,    *)
(* the journal and its synchronisation, commit, rollback, and the roll-    *)
(* back of a hot journal by whoever comes next, when processes are killed  *)
(* or the power fails at any step.                                         *)
(*                                                                         *)
(* A page's content is [t, c]: the transaction that wrote it and, on page  *)
(* 1, the change counter.  The journal is a sequence of slots (Disk), each *)
(* a header or a page record; a record carries the cksumInit of its        *)
(* header, so records of an earlier use of the file fail the checksum.     *)
(* The database is never empty.                                            *)
(***************************************************************************)
EXTENDS Disk

CONSTANTS
    Conn,       \* the connections, each in a process of its own
    None,
    Starts,     \* triples of a journal mode, a synchronous level and the size
                \* of the database
    MaxFault    \* bound: processes killed and power failures

JournalConstants ==
    /\ None \notin Conn
    /\ Starts \subseteq
          {"DELETE", "TRUNCATE", "PERSIST"} \X {"NORMAL", "FULL", "EXTRA"} \X Page
    /\ MaxPage \in Nat \ {0} /\ MaxTxn \in Nat /\ MaxFault \in Nat

VARIABLES
    config,        \* <<journalMode, synchronous>> of every connection
    db, dbMay,     \* the database file, and what the disk may hold of it
    jrnl, jMay,    \* the same for the journal
    lock,          \* the lock of each connection on the database file
    pc,
    cache,         \* its page cache: page -> content, None if not in it
    dbFileVers,    \* the change counter its page cache belongs to
    w,             \* the Pager of the connection that writes or rolls back
    \* history: not part of the program
    hist,          \* the committed images
    txn, nFault

fileVars == <<db, dbMay, jrnl, jMay>>
pagerVars == <<lock, pc, cache, dbFileVers>>
vars == <<config, fileVars, pagerVars, w, hist, txn, nFault>>

journalMode == config[1]
fullSync == config[2] \in {"FULL", "EXTRA"}
extraSync == config[2] = "EXTRA"

Size(img) == Top({p \in Page : img[p] # NoPage})
Cut(img, n) == [p \in Page |-> IF p <= n THEN img[p] ELSE NoPage]

HdrSlot(magic, n, init, size) ==
    [kind |-> "hdr", magic |-> magic, nRec |-> n, cksumInit |-> init, mxPg |-> size]
RecSlot(p, val, init) == [kind |-> "rec", pgno |-> p, val |-> val, cksumInit |-> init]

HasMagic(s) == s.kind = "hdr" /\ s.magic

\* A record may be torn.  At FULL nothing relies on the checksum, which
\* covers every 200th byte only; at NORMAL it has to detect torn records.
RecVariants(s) ==
    {s} \cup (IF fullSync THEN {[s EXCEPT !.val = TornPage]} ELSE {Hole})

InitsUsed == UNION {{SlotAt(f, i).cksumInit : i \in {k \in 1..Len(f.slots) :
                        f.slots[k].kind # "none"}} : f \in jMay \cup {jrnl}}

(***************************************************************************)
(* readJournalHdr and pager_playback: the slots that are played back.  A   *)
(* live rollback knows where its last header is, which has no magic yet    *)
(* and no count: its records go up to the end of the file.                 *)
(***************************************************************************)
\* A record of a page past the end of the database is skipped before its
\* checksum is looked at; the magic of a header reads as such a page.
IsSkipped(s, size) == HasMagic(s) \/ (s.kind = "rec" /\ s.pgno > size)

\* The records that are played back: walk[i] says what slot i + 1 has to be.
Walk(f, liveHdr) ==
    LET walk[i \in 0..Len(f.slots)] ==
            IF i = 0 THEN [at |-> "hdr", left |-> 0, init |-> 0, played |-> {}]
            ELSE LET b == walk[i - 1]
                     s == f.slots[i]
                     n == IF s.kind = "hdr" /\ s.nRec = 0 /\ i = liveHdr
                          THEN Len(f.slots) - i ELSE s.nRec
                     next == IF b.left = 1 THEN "hdr" ELSE "rec"
                 IN  CASE b.at = "hdr" /\ (HasMagic(s) \/ i = liveHdr) ->
                            [at |-> IF n = 0 THEN "hdr" ELSE "rec", left |-> n,
                             init |-> s.cksumInit, played |-> b.played]
                       [] b.at = "rec" /\ IsSkipped(s, f.slots[1].mxPg) ->
                            [b EXCEPT !.at = next, !.left = @ - 1]
                       [] b.at = "rec" /\ s.kind = "rec" /\ s.pgno <= f.slots[1].mxPg
                          /\ s.cksumInit = b.init ->
                            [b EXCEPT !.at = next, !.left = @ - 1, !.played = @ \cup {i}]
                       [] OTHER -> [b EXCEPT !.at = "done"]
    IN  walk[Len(f.slots)].played

HasFirstHdr(f, liveHdr) == Len(f.slots) > 0 /\ (HasMagic(f.slots[1]) \/ liveHdr = 1)

\* The image left by the rollback of journal f over image d.
PlayedBack(d, f) ==
    LET cut == Cut(d, f.slots[1].mxPg)
        S == Walk(f, 0)
        of(p) == {i \in S : f.slots[i].pgno = p}
    IN  [p \in Page |-> IF of(p) = {} THEN cut[p] ELSE f.slots[Top(of(p))].val]

\* What the next connection makes of the two files if every process dies.
Recovered(d, f) == IF HasFirstHdr(f, 0) THEN PlayedBack(d, f) ELSE d

NoWriter ==
    [st |-> "NONE", origSize |-> 0, size |-> 0, dirty |-> {}, needSync |-> {}, inJournal |-> {},
     nRec |-> 0, journalHdr |-> 0, journalOff |-> 0, cksumInit |-> 0,
     newHdr |-> 0, play |-> {}, commit |-> FALSE]

\* The places of a connection that owns w.
WriterPc == {"truncate", "playback", "writing", "jLock", "jZero", "jFull", "jNrec", "jSync",
             "jNewHdr", "spillWrite", "dbWrite", "finished", "finalize", "unlock"}

EmptyCache == [p \in Page |-> None]

Init ==
    /\ \E s \in Starts :
          /\ config = <<s[1], s[2]>>
          /\ db = [p \in Page |-> IF p <= s[3] THEN [t |-> 1, c |-> IF p = 1 THEN 1 ELSE 0]
                                  ELSE NoPage]
    /\ dbMay = {db}
    /\ jrnl = NoFile /\ jMay = {NoFile}
    /\ lock = [c \in Conn |-> "NO"]
    /\ pc = [c \in Conn |-> "open"]
    /\ cache = [c \in Conn |-> EmptyCache]
    /\ dbFileVers = [c \in Conn |-> 0]
    /\ w = NoWriter
    /\ hist = <<db>>
    /\ txn = 1 /\ nFault = 0

Goto(c, l) == pc' = [pc EXCEPT ![c] = l]
Locked(c, l) == lock' = [lock EXCEPT ![c] = l]

(***************************************************************************)
(* unixLock.  "HOT" is the EXCLUSIVE lock taken straight from SHARED for   *)
(* a hot journal: it does not hold the RESERVED byte.                      *)
(***************************************************************************)
CanShare(c) == \A d \in Conn \ {c} : lock[d] \notin {"PENDING", "EXCLUSIVE", "HOT"}
ReservedHeld(c) == \E d \in Conn \ {c} : lock[d] \in {"RESERVED", "PENDING", "EXCLUSIVE"}
CanExclude(c) == \A d \in Conn \ {c} : lock[d] = "NO"

DbWrite(p, val) ==
    /\ db' = [db EXCEPT ![p] = val]
    /\ dbMay' = MayWritePage(dbMay, p, val)

DbCut(n) ==
    /\ db' = Cut(db, n)
    /\ dbMay' = dbMay \cup {Cut(d, n) : d \in dbMay}

(***************************************************************************)
(* sqlite3PagerSharedLock                                                  *)
(***************************************************************************)
SharedLock(c) ==
    /\ pc[c] = "open" /\ CanShare(c)
    /\ Locked(c, "SHARED")
    /\ Goto(c, "exists")
    /\ UNCHANGED <<config, fileVars, cache, dbFileVers, w, hist, txn, nFault>>

\* hasHotJournal: does the journal exist, is it in use, does it begin with
\* a byte other than zero?
JournalExists(c) ==
    /\ pc[c] = "exists"
    /\ Goto(c, IF jrnl = NoFile THEN "validate" ELSE "reserved")
    /\ UNCHANGED <<config, fileVars, lock, cache, dbFileVers, w, hist, txn, nFault>>

CheckReserved(c) ==
    /\ pc[c] = "reserved"
    /\ Goto(c, IF ReservedHeld(c) THEN "validate" ELSE "firstByte")
    /\ UNCHANGED <<config, fileVars, lock, cache, dbFileVers, w, hist, txn, nFault>>

\* A journal that is gone by now counts as hot (SQLITE_CANTOPEN).
FirstByte(c) ==
    /\ pc[c] = "firstByte"
    /\ Goto(c, IF jrnl = NoFile \/ HasFirstHdr(jrnl, 0) THEN "hotLock" ELSE "validate")
    /\ UNCHANGED <<config, fileVars, lock, cache, dbFileVers, w, hist, txn, nFault>>

HotLock(c) ==
    /\ pc[c] = "hotLock"
    /\ \/ CanExclude(c) /\ Locked(c, "HOT") /\ Goto(c, "hotOpen")
       \/ ~CanExclude(c) /\ Locked(c, "NO") /\ Goto(c, "open")       \* SQLITE_BUSY
    /\ UNCHANGED <<config, fileVars, cache, dbFileVers, w, hist, txn, nFault>>

\* The journal is opened again under the lock and synced before it is used
\* (pagerSyncHotJournal).
HotOpen(c) ==
    /\ pc[c] = "hotOpen"
    /\ \/ /\ jrnl = NoFile
          /\ Locked(c, "SHARED") /\ Goto(c, "validate")
          /\ UNCHANGED <<jMay, w>>
       \/ /\ jrnl # NoFile
          /\ jMay' = MaySync(jMay, jrnl, FALSE)
          /\ w' = [NoWriter EXCEPT !.st = "HOT", !.play = Walk(jrnl, 0),
                      !.origSize = IF HasFirstHdr(jrnl, 0) THEN jrnl.slots[1].mxPg ELSE Size(db),
                      !.journalOff = IF HasFirstHdr(jrnl, 0) THEN 1 ELSE 0,
                      !.journalHdr = Len(jrnl.slots) + 1]
          /\ Goto(c, "truncate")
          /\ UNCHANGED lock
    /\ UNCHANGED <<config, db, dbMay, jrnl, cache, dbFileVers, hist, txn, nFault>>

\* Mutant: the cache is kept.
CacheKept(c) == FALSE

\* Somebody has changed the database since the cache was filled.
CacheIsStale(c) == dbFileVers[c] # db[1].c

\* The page cache is validated, and page 1 read (lockBtree).
Validate(c) ==
    /\ pc[c] = "validate"
    /\ LET old == IF CacheIsStale(c) THEN EmptyCache ELSE cache[c]
       IN  IF old[1] = None
           THEN /\ cache' = [cache EXCEPT ![c] = [old EXCEPT ![1] = db[1]]]
                /\ dbFileVers' = [dbFileVers EXCEPT ![c] = db[1].c]
           ELSE cache' = [cache EXCEPT ![c] = old] /\ UNCHANGED dbFileVers
    /\ Goto(c, "read")
    /\ UNCHANGED <<config, fileVars, lock, w, hist, txn, nFault>>

\* getPageNormal, readDbPage.
Get(c, p) ==
    /\ pc[c] = "read" /\ p <= Size(db) /\ cache[c][p] = None
    /\ cache' = [cache EXCEPT ![c][p] = db[p]]
    /\ UNCHANGED <<config, fileVars, lock, pc, dbFileVers, w, hist, txn, nFault>>

\* pager_unlock: the cache is kept.
EndRead(c) ==
    /\ pc[c] = "read"
    /\ Locked(c, "NO") /\ Goto(c, "open")
    /\ UNCHANGED <<config, fileVars, cache, dbFileVers, w, hist, txn, nFault>>

(***************************************************************************)
(* The write transaction: sqlite3PagerBegin, pager_open_journal and        *)
(* pager_write.                                                            *)
(***************************************************************************)
BeginWrite(c) ==
    /\ pc[c] = "read" /\ ~ReservedHeld(c) /\ txn <= MaxTxn
    /\ Locked(c, "RESERVED") /\ Goto(c, "writing")
    /\ w' = [NoWriter EXCEPT !.st = "LOCKED", !.origSize = Size(db), !.size = Size(db)]
    /\ txn' = txn + 1
    /\ UNCHANGED <<config, fileVars, cache, dbFileVers, hist, nFault>>

\* The header at slot i of file f, whose magic and count are zero until the
\* journal is synced.  cksumInit is random: it differs from the ones in use.
writeJournalHdr(f, M, i) ==
    LET init == Fresh(InitsUsed)
        s == HdrSlot(FALSE, 0, init, w.origSize)
    IN  /\ jrnl' = Put(f, i, s)
        /\ jMay' = MayWrite(M, f, i, {s})
        /\ w' = [w EXCEPT !.st = IF @ = "LOCKED" THEN "CACHEMOD" ELSE @,
                          !.nRec = 0, !.journalHdr = i, !.journalOff = i + 1,
                          !.cksumInit = init]

OpenJournal(c) ==
    /\ pc[c] = "writing" /\ w.st = "LOCKED"
    /\ LET new == [NoFile EXCEPT !.ino = Fresh({f.ino : f \in jMay})]
       IN  IF jrnl = NoFile THEN writeJournalHdr(new, jMay \cup {new}, 1)
           ELSE writeJournalHdr(jrnl, jMay, 1)
    /\ UNCHANGED <<config, db, dbMay, pagerVars, hist, txn, nFault>>

\* pagerAddPageToRollbackJournal.
Journalled(wr, p, val) ==
    LET s == RecSlot(p, val, wr.cksumInit)
    IN  /\ jrnl' = Put(jrnl, wr.journalOff, s)
        /\ jMay' = MayWrite(jMay, jrnl, wr.journalOff, RecVariants(s))
        /\ w' = [wr EXCEPT !.journalOff = @ + 1, !.nRec = @ + 1, !.inJournal = @ \cup {p},
                           !.needSync = @ \cup {p}]

\* pager_write.  wr is the writer with the page marked dirty.
pager_write(wr, p, val) ==
    IF p \in wr.inJournal \/ (p > wr.origSize /\ wr.st = "DBMOD")
    THEN w' = wr /\ UNCHANGED <<jrnl, jMay>>
    ELSE IF p > wr.origSize
    THEN w' = [wr EXCEPT !.needSync = @ \cup {p}] /\ UNCHANGED <<jrnl, jMay>>
    ELSE Journalled(wr, p, val)

PageOf(c, p) == IF cache[c][p] = None THEN db[p] ELSE cache[c][p]

WritePage(c, p) ==
    /\ pc[c] = "writing" /\ w.st # "LOCKED"
    /\ p \notin w.dirty /\ p <= w.size + 1
    /\ pager_write([w EXCEPT !.dirty = @ \cup {p}, !.size = Top({p, @})], p, PageOf(c, p))
    /\ cache' = [cache EXCEPT ![c][p] = [PageOf(c, p) EXCEPT !.t = txn]]
    /\ UNCHANGED <<config, db, dbMay, lock, pc, dbFileVers, hist, txn, nFault>>

\* pagerStress: the page cache is full and a dirty page has to go.  Page 1
\* is referenced for as long as the transaction lasts.
pagerStress(c, p) ==
    /\ pc[c] = "writing" /\ p \in w.dirty \ {1}
    /\ w' = [w EXCEPT !.newHdr = p]
    /\ Goto(c, IF p \in w.needSync \/ w.st = "CACHEMOD" THEN "jLock" ELSE "spillWrite")
    /\ UNCHANGED <<config, fileVars, lock, cache, dbFileVers, hist, txn, nFault>>

\* sqlite3PagerCommitPhaseOne with pager_incr_changecounter: page 1 is part
\* of every transaction that changed something.
CommitPhaseOne(c) ==
    /\ pc[c] = "writing"
    /\ IF w.st = "LOCKED"
       THEN /\ Goto(c, "unlock")
            /\ UNCHANGED <<jrnl, jMay, w, cache>>
       ELSE /\ Goto(c, "jLock")
            /\ pager_write([w EXCEPT !.dirty = @ \cup {1}, !.newHdr = 0, !.commit = TRUE],
                           1, PageOf(c, 1))
            /\ cache' = [cache EXCEPT ![c][1] = [t |-> txn, c |-> dbFileVers[c] + 1]]
    /\ UNCHANGED <<config, db, dbMay, lock, dbFileVers, hist, txn, nFault>>

(***************************************************************************)
(* syncJournal                                                             *)
(***************************************************************************)
\* sqlite3PagerExclusiveLock: on SQLITE_BUSY the PENDING lock is kept, if it
\* was granted: a reader that is about to share the lock has its byte for a
\* moment.
JLock(c) ==
    /\ pc[c] = "jLock"
    /\ \/ CanExclude(c) /\ Locked(c, "EXCLUSIVE") /\ Goto(c, "jZero")
       \/ ~CanExclude(c) /\ Locked(c, "PENDING") /\ Goto(c, "writing")
       \/ /\ lock[c] = "RESERVED" /\ \E d \in Conn \ {c} : pc[d] = "open"
          /\ Goto(c, "writing") /\ UNCHANGED lock
    /\ UNCHANGED <<config, fileVars, cache, dbFileVers, w, hist, txn, nFault>>

\* Mutant: a header left by an earlier use of the file stays.
StaleHdrKept == FALSE

\* A header of an earlier transaction stands where the next header will be
\* looked for.
HasStaleHdr == HasMagic(SlotAt(jrnl, w.journalOff))

JZero(c) ==
    /\ pc[c] = "jZero"
    /\ IF HasStaleHdr
       THEN LET s == [SlotAt(jrnl, w.journalOff) EXCEPT !.magic = FALSE]
            IN  /\ jrnl' = Put(jrnl, w.journalOff, s)
                /\ jMay' = MayWrite(jMay, jrnl, w.journalOff, {s})
       ELSE UNCHANGED <<jrnl, jMay>>
    /\ Goto(c, "jFull")
    /\ UNCHANGED <<config, db, dbMay, lock, cache, dbFileVers, w, hist, txn, nFault>>

\* Mutant: the count is written without a sync before it.
NeverFirst == FALSE

\* In full-sync mode the records are on the disk before they are counted.
SyncsRecordsFirst == fullSync

JFull(c) ==
    /\ pc[c] = "jFull"
    /\ jMay' = IF SyncsRecordsFirst THEN MaySync(jMay, jrnl, TRUE) ELSE jMay
    /\ Goto(c, "jNrec")
    /\ UNCHANGED <<config, db, dbMay, jrnl, lock, cache, dbFileVers, w, hist, txn, nFault>>

JNrec(c) ==
    /\ pc[c] = "jNrec"
    /\ LET s == HdrSlot(TRUE, w.nRec, w.cksumInit, w.origSize)
       IN  /\ jrnl' = Put(jrnl, w.journalHdr, s)
           /\ jMay' = MayWrite(jMay, jrnl, w.journalHdr, {s})
    /\ Goto(c, "jSync")
    /\ UNCHANGED <<config, db, dbMay, lock, cache, dbFileVers, w, hist, txn, nFault>>

\* Mutant: the sync is left out.
NotSynced(M, f) == M

JournalSynced(M, f) == MaySync(M, f, TRUE)

JSync(c) ==
    /\ pc[c] = "jSync"
    /\ jMay' = JournalSynced(jMay, jrnl)
    /\ w' = [w EXCEPT !.st = "DBMOD", !.needSync = {}, !.journalHdr = w.journalOff]
    /\ Goto(c, IF w.newHdr = 0 THEN "dbWrite" ELSE "jNewHdr")
    /\ UNCHANGED <<config, db, dbMay, jrnl, lock, cache, dbFileVers, hist, txn, nFault>>

\* Records journalled after a spill get a header of their own.
JNewHdr(c) ==
    /\ pc[c] = "jNewHdr"
    /\ writeJournalHdr(jrnl, jMay, w.journalOff)
    /\ Goto(c, "spillWrite")
    /\ UNCHANGED <<config, db, dbMay, lock, cache, dbFileVers, hist, txn, nFault>>

(***************************************************************************)
(* pager_write_pagelist, the sync of the database, and                     *)
(* pager_end_transaction.                                                  *)
(***************************************************************************)
SpillWrite(c) ==
    /\ pc[c] = "spillWrite"
    /\ DbWrite(w.newHdr, cache[c][w.newHdr])
    /\ cache' = [cache EXCEPT ![c][w.newHdr] = None]
    /\ w' = [w EXCEPT !.dirty = @ \ {w.newHdr}, !.newHdr = 0]
    /\ Goto(c, "writing")
    /\ UNCHANGED <<config, jrnl, jMay, lock, dbFileVers, hist, txn, nFault>>

DbWritePage(c) ==
    /\ pc[c] = "dbWrite" /\ w.dirty # {}
    /\ LET p == CHOOSE q \in w.dirty : \A r \in w.dirty : q <= r
       IN  /\ DbWrite(p, cache[c][p])
           /\ w' = [w EXCEPT !.dirty = @ \ {p}]
           /\ dbFileVers' = IF p = 1 THEN [dbFileVers EXCEPT ![c] = cache[c][1].c] ELSE dbFileVers
    /\ UNCHANGED <<config, jrnl, jMay, lock, pc, cache, hist, txn, nFault>>

\* Mutant: the database is not synced before the journal is finalized.
DbNotSynced == dbMay

DbSynced == {db}

DbSync(c) ==
    /\ pc[c] = "dbWrite" /\ w.dirty = {}
    /\ dbMay' = DbSynced
    /\ w' = [w EXCEPT !.st = "FINISHED"]
    /\ Goto(c, "finished")
    /\ UNCHANGED <<config, db, jrnl, jMay, lock, cache, dbFileVers, hist, txn, nFault>>

\* sqlite3PagerCommitPhaseTwo.
CommitPhaseTwo(c) ==
    /\ pc[c] = "finished"
    /\ Goto(c, "finalize")
    /\ UNCHANGED <<config, fileVars, lock, cache, dbFileVers, w, hist, txn, nFault>>

\* The journal is deleted, truncated, or its header zeroed.
Finalized ==
    \/ /\ journalMode = "DELETE"
       /\ jrnl' = NoFile
       /\ jMay' = IF extraSync THEN {NoFile} ELSE jMay \cup {NoFile}
    \/ /\ journalMode # "DELETE" /\ w.journalOff = 0
       /\ UNCHANGED <<jrnl, jMay>>
    \/ /\ journalMode = "TRUNCATE" /\ w.journalOff # 0
       /\ jrnl' = Truncated(jMay, jrnl)
       /\ jMay' = IF fullSync THEN MaySync(jMay, jrnl', w.st # "HOT") ELSE jMay \cup {jrnl'}
    \/ /\ journalMode = "PERSIST" /\ w.journalOff # 0
       /\ jrnl' = Put(jrnl, 1, HdrSlot(FALSE, 0, 0, 0))
       /\ jMay' = MaySync(jMay, jrnl', w.st # "HOT")

Finalize(c) ==
    /\ pc[c] = "finalize"
    /\ Finalized
    /\ hist' = IF w.commit THEN Append(hist, db) ELSE hist
    /\ Goto(c, "unlock")
    /\ UNCHANGED <<config, db, dbMay, lock, cache, dbFileVers, w, txn, nFault>>

\* pagerUnlockDb(SHARED_LOCK): the transaction is over.
UnlockToShared(c) ==
    /\ pc[c] = "unlock"
    /\ Locked(c, "SHARED")
    /\ Goto(c, IF w.st = "HOT" THEN "validate" ELSE "read")
    /\ w' = NoWriter
    /\ UNCHANGED <<config, fileVars, cache, dbFileVers, hist, txn, nFault>>

(***************************************************************************)
(* sqlite3PagerRollback and pager_playback, live or of a hot journal.      *)
(***************************************************************************)
\* The header of the last segment is found by its place.  Once the journal
\* is synced for the commit, journalHdr is the end of the last record, which
\* is no place of a header (it is not at the start of a sector).
LiveHdr == IF w.st = "FINISHED" THEN 0 ELSE w.journalHdr

Rollback(c) ==
    /\ pc[c] \in {"writing", "finished"}
    /\ IF w.st = "LOCKED" THEN Goto(c, "unlock") /\ UNCHANGED w
       ELSE /\ Goto(c, "truncate")
            /\ w' = [w EXCEPT !.play = Walk(jrnl, LiveHdr), !.commit = FALSE]
    /\ UNCHANGED <<config, fileVars, lock, cache, dbFileVers, hist, txn, nFault>>

WritesDb == w.st \in {"DBMOD", "FINISHED", "HOT"}

PbTruncate(c) ==
    /\ pc[c] = "truncate"
    /\ IF WritesDb THEN DbCut(w.origSize) ELSE UNCHANGED <<db, dbMay>>
    /\ Goto(c, "playback")
    /\ UNCHANGED <<config, jrnl, jMay, lock, cache, dbFileVers, w, hist, txn, nFault>>

\* pager_playback_one_page.  A hot journal empties the cache first
\* (pager_reset); a live rollback also restores the pages in the cache.
PbRecord(c) ==
    /\ pc[c] = "playback" /\ w.play # {}
    /\ LET i == CHOOSE k \in w.play : \A n \in w.play : k <= n
           p == jrnl.slots[i].pgno
           val == jrnl.slots[i].val
           isSynced == i < w.journalHdr
           inCache == w.st # "HOT" /\ cache[c][p] # None
       IN  /\ IF WritesDb /\ isSynced THEN DbWrite(p, val) ELSE UNCHANGED <<db, dbMay>>
           /\ cache' = [cache EXCEPT ![c] = IF w.st = "HOT" THEN EmptyCache
                                            ELSE IF inCache THEN [@ EXCEPT ![p] = val] ELSE @]
           /\ dbFileVers' = IF inCache /\ p = 1 THEN [dbFileVers EXCEPT ![c] = val.c]
                            ELSE dbFileVers
           /\ w' = [w EXCEPT !.play = @ \ {i}]
    /\ UNCHANGED <<config, jrnl, jMay, lock, pc, hist, txn, nFault>>

\* The database is synced before the journal is finalized; pages past its
\* end leave the cache.
PbSync(c) ==
    /\ pc[c] = "playback" /\ w.play = {}
    /\ dbMay' = IF WritesDb THEN {db} ELSE dbMay
    /\ cache' = [cache EXCEPT ![c] =
                    [p \in Page |-> IF p > w.origSize THEN None ELSE @[p]]]
    /\ Goto(c, "finalize")
    /\ UNCHANGED <<config, db, jrnl, jMay, lock, dbFileVers, w, hist, txn, nFault>>

(***************************************************************************)
(* Faults                                                                  *)
(***************************************************************************)
Gone(D) ==
    /\ lock' = [c \in Conn |-> IF c \in D THEN "NO" ELSE lock[c]]
    /\ pc' = [c \in Conn |-> IF c \in D THEN "open" ELSE pc[c]]
    /\ cache' = [c \in Conn |-> IF c \in D THEN EmptyCache ELSE cache[c]]
    /\ dbFileVers' = [c \in Conn |-> IF c \in D THEN 0 ELSE dbFileVers[c]]
    /\ w' = IF \E c \in D : pc[c] \in WriterPc THEN NoWriter ELSE w

\* A process is killed; so does a connection leave its journal behind that
\* meets an I/O error and enters PAGER_ERROR (pager_unlock).
Kill(c) ==
    /\ nFault < MaxFault /\ pc[c] # "open"
    /\ Gone({c})
    /\ nFault' = nFault + 1
    /\ UNCHANGED <<config, fileVars, hist, txn>>

\* The power fails: of each file the disk has one of the contents it may
\* have, and a commit that was not durable may be gone.
PowerFail ==
    /\ nFault < MaxFault
    /\ \E d \in dbMay, j \in jMay :
          /\ db' = d /\ dbMay' = {d}
          /\ jrnl' = j /\ jMay' = {j}
          /\ hist' = IF Recovered(d, j) # hist[Len(hist)] /\ Len(hist) > 1
                     THEN SubSeq(hist, 1, Len(hist) - 1) ELSE hist
    /\ Gone(Conn)
    /\ nFault' = nFault + 1
    /\ UNCHANGED <<config, txn>>

Next ==
    \/ PowerFail
    \/ \E c \in Conn :
          \/ SharedLock(c) \/ JournalExists(c) \/ CheckReserved(c) \/ FirstByte(c)
          \/ HotLock(c) \/ HotOpen(c) \/ Validate(c) \/ EndRead(c)
          \/ BeginWrite(c) \/ OpenJournal(c) \/ CommitPhaseOne(c)
          \/ JLock(c) \/ JZero(c) \/ JFull(c) \/ JNrec(c) \/ JSync(c) \/ JNewHdr(c)
          \/ SpillWrite(c) \/ DbWritePage(c) \/ DbSync(c)
          \/ CommitPhaseTwo(c) \/ Finalize(c) \/ UnlockToShared(c)
          \/ Rollback(c) \/ PbTruncate(c) \/ PbRecord(c) \/ PbSync(c)
          \/ Kill(c)
          \/ \E p \in Page : Get(c, p) \/ WritePage(c, p) \/ pagerStress(c, p)

Spec == Init /\ [][Next]_vars

(***************************************************************************)
(* Properties                                                              *)
(***************************************************************************)
\* A commit that was reported survives a power failure.
IsDurable ==
    \/ journalMode = "PERSIST"
    \/ journalMode = "TRUNCATE" /\ fullSync
    \/ extraSync

\* Whatever the disk holds when the power fails, the connection that comes
\* next finds the last committed image, or, in the modes that do not sync
\* the end of the journal, the one before it: never a part of a transaction.
AtomicCommit ==
    \A d \in dbMay, j \in jMay :
        Recovered(d, j) \in {hist[Len(hist)]} \cup
            (IF ~IsDurable /\ Len(hist) > 1 THEN {hist[Len(hist) - 1]} ELSE {})

\* If only processes die, the next connection finds the last commit.
KillLosesNothing == Recovered(db, jrnl) = hist[Len(hist)]

\* A reader sees the last committed image, in its cache as in the file.
ReadsCommitted ==
    \A c \in Conn : pc[c] = "read" =>
        \A p \in 1..Size(hist[Len(hist)]) : PageOf(c, p) = hist[Len(hist)][p]
=============================================================================
