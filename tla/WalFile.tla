------------------------------ MODULE WalFile ------------------------------
(***************************************************************************)
(* WAL files as the upload and the recovery scripts see them: what a       *)
(* writer leaves in one, and what a connection that opens the database     *)
(* reads from one.  A file is a record [exists, salt, frames]; the salt is *)
(* that of its header, 0 if it has no valid one.  The salt stands for the  *)
(* chain of checksums, which is right as long as no frame of a log has     *)
(* stale frames of the same log behind it: S3Snapshot only appends frames, *)
(* and S3Partial overwrites at most the one behind the last commit.        *)
(***************************************************************************)
EXTENDS Integers, Sequences, FiniteSets

NoFile == [exists |-> FALSE, salt |-> 0, frames |-> <<>>]
File(salt, fs) == [exists |-> TRUE, salt |-> salt, frames |-> fs]
EmptyFile == File(0, <<>>)

\* The largest member of a set of numbers, 0 for the empty set.
MaxOf(S) == IF S = {} THEN 0 ELSE CHOOSE m \in S : \A n \in S : n <= m

\* Mutant: frames after the last commit count too.
LastValid(f) ==
    MaxOf({m \in 1..Len(f.frames) :
              f.salt # 0 /\ \A i \in 1..m : f.frames[i].salt = f.salt})

\* walIndexRecover: the last commit frame before the first frame with a salt
\* other than the header's; 0 if the header is not valid.
LastCommit(f) ==
    MaxOf({m \in 1..Len(f.frames) :
              /\ f.salt # 0 /\ f.frames[m].commit
              /\ \A i \in 1..m : f.frames[i].salt = f.salt})

\* The newest frame of page p among the first m frames.
NewestFrame(f, m, p) == MaxOf({i \in 1..m : f.frames[i].pgno = p})

\* The image after the first m frames of a log are copied into image d.
Applied(d, f, m) ==
    [p \in DOMAIN d |-> LET i == NewestFrame(f, m, p)
                        IN  IF i = 0 THEN d[p] ELSE f.frames[i].val]

\* What a connection that opens database d with WAL file f reads.
Opened(d, f) == Applied(d, f, LastCommit(f))

\* The members of a set of pages in ascending order.
Sorted(S) == [i \in 1..Cardinality(S) |->
                 CHOOSE p \in S : Cardinality({q \in S : q <= p}) = i]

\* The frames of a commit of pages S, the last one with the commit mark.
CommitFrames(S, v, salt) ==
    [i \in 1..Cardinality(S) |->
        [pgno |-> Sorted(S)[i], val |-> v, commit |-> i = Cardinality(S), salt |-> salt]]

\* File f after frames fs are written behind frame number first: what lies
\* beyond them stays.
Written(f, salt, first, fs) ==
    LET n == first + Len(fs)
        len == IF n > Len(f.frames) THEN n ELSE Len(f.frames)
    IN  File(salt, [i \in 1..len |->
                       IF first < i /\ i <= n THEN fs[i - first] ELSE f.frames[i]])
=============================================================================
