--------------------------- MODULE WalRefinement ---------------------------
(***************************************************************************)
(* Wal implements WalAbstract.  The current image and the images the       *)
(* transactions read are not taken from the history variables but from the *)
(* files, through the headers, marks and locks, as the code reads them.    *)
(***************************************************************************)
EXTENDS WalInv

\* What a connection that reads the header now would see.  While the two
\* copies differ nobody gets a header, and the last commit stands.
CurrentImage ==
    IF HdrOk
    THEN ImageOf(nBackfill + 1, aHdr[0].mxFrame,
                 IF aHdr[0].nPage = 0 THEN SizeOf(db) ELSE aHdr[0].nPage)
    ELSE hist[Len(hist)].img

\* A writer's transaction is open until its commit is published.
IsWriting(c) == InWrite(c) /\ pc[c] \notin {"writeCheck", "endWrite"}

TheWriter ==
    IF \E c \in Conn : IsWriting(c) THEN CHOOSE c \in Conn : IsWriting(c) ELSE None

\* What c reads; a writer's view is the version it started from.
ViewOf(c) ==
    IF pc[c] \in {"read", "writeCheck"} THEN ReadImage(c)
    ELSE IF snap[c] # 0 THEN hist[snap[c]].img
    ELSE None

\* What the writer has built: what it reads, while it may still read, and
\* the pages beyond the size it knows of.
DraftOf(c) ==
    IF pc[c] \in {"write", "frames"}
    THEN [p \in Page |-> IF p <= DbSize(c) THEN ReadImage(c)[p] ELSE work[p]]
    ELSE IF pc[c] \in {"publish1", "publish0"} THEN pend.img
    ELSE work

Abstract ==
    INSTANCE WalAbstract WITH
        Content <- Txn,
        current <- CurrentImage,
        view <- [c \in Conn |-> ViewOf(c)],
        writer <- TheWriter,
        draft <- IF TheWriter = None THEN None ELSE DraftOf(TheWriter),
        limbo <- IF pend.txn = 0 \/ pend = hist[Len(hist)] THEN None ELSE pend.img

\* The protocol of wal.c, seen through what its connections can read, is the
\* atomic store of WalAbstract: every step of a reader, writer, checkpointer,
\* recovery or crash is a step of that store or changes nothing in it.
ImplementsAbstract == Abstract!Spec

(***************************************************************************)
(* What the mapping comes to, before the first process is killed and       *)
(* unless a checkpointer is overtaken between the header and nBackfill.    *)
(***************************************************************************)
InTxn(c) == pc[c] = "read" \/ InWrite(c)

\* Transactions get greater numbers than the last commit, and only they have
\* a version.
TxnNumbers ==
    /\ hist[Len(hist)].txn <= txn
    /\ \A c \in Conn : /\ IsWriting(c) => hist[Len(hist)].txn < txn
                       /\ pc[c] \in {"publish1", "publish0"} => pend.txn = txn
                       /\ snap[c] # 0 => InTxn(c)

\* What is read from the files is what the history says.
Mapped ==
    /\ CurrentImage = hist[Len(hist)].img
    /\ \A c \in Conn :
          /\ ViewOf(c) = IF snap[c] # 0 THEN hist[snap[c]].img ELSE None
          /\ IsWriting(c) =>
                /\ TheWriter = c
                /\ DraftOf(c) = IF pc[c] \in {"publish1", "publish0"} THEN pend.img ELSE work
============================================================================
