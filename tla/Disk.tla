-------------------------------- MODULE Disk --------------------------------
(***************************************************************************)
(* Files under power failures, as os_unix.c uses them.  Next to a file     *)
(* stands the set of contents the disk may hold of it: a write adds the    *)
(* contents it may lead to, a sync leaves the newest one alone.            *)
(*                                                                         *)
(* The database is a function from pages to contents [t, c]: the           *)
(* transaction that wrote the page, and a number (the change counter of    *)
(* page 1, or how often the transaction has written the page).  A journal  *)
(* or a WAL is a sequence of slots: a header, a page record, a hole.       *)
(***************************************************************************)
EXTENDS Naturals, Sequences, FiniteSets

CONSTANTS MaxPage, MaxTxn

Page == 1..MaxPage
NoPage == [t |-> 0, c |-> 0]

\* A page of which the disk holds the old content in some sectors and the
\* new one in others.
TornPage == [t |-> MaxTxn + 2, c |-> 0]

\* The largest member of a set of numbers, 0 for the empty set.
Top(S) == IF S = {} THEN 0 ELSE CHOOSE m \in S : \A n \in S : n <= m

\* The least positive number that is not in a finite set.
Fresh(S) == CHOOSE n \in 1..(Cardinality(S) + 1) :
                n \notin S /\ \A k \in 1..(n - 1) : k \in S

\* What the disk may hold of the database once page p is written: all of
\* it, a part of it, or nothing.
MayWritePage(M, p, val) ==
    M \cup {[d EXCEPT ![p] = val] : d \in M}
      \cup {[d EXCEPT ![p] = TornPage] : d \in {e \in M : e[p] # val}}

(***************************************************************************)
(* A truncation that is not synced may be undone by a power failure, but   *)
(* then nothing written after it survives either: what follows a           *)
(* truncation belongs to a new generation (gen) of the file.  A file that  *)
(* is created after an unlink has another inode (ino).                     *)
(***************************************************************************)
NoFile == [ino |-> 0, gen |-> 0, slots |-> <<>>]
Hole == [kind |-> "none"]

SlotAt(f, i) == IF i \in 1..Len(f.slots) THEN f.slots[i] ELSE Hole

Put(f, i, s) ==
    [f EXCEPT !.slots = [k \in 1..Top({i, Len(f.slots)}) |-> IF k = i THEN s ELSE SlotAt(f, k)]]

\* What the disk may hold once slot i of f is written, if it holds one of vs.
MayWrite(M, f, i, vs) ==
    M \cup {Put(g, i, s) : g \in {h \in M : h.ino = f.ino /\ h.gen = f.gen}, s \in vs}

\* fsync of f, whose directory entry is synced with it or not.
MaySync(M, f, dirSync) == {f} \cup {g \in M : ~dirSync /\ g.ino # f.ino}

\* File f cut to nothing.
Truncated(M, f) ==
    [f EXCEPT !.slots = <<>>, !.gen = Fresh({g.gen : g \in {h \in M : h.ino = f.ino}})]
=============================================================================
