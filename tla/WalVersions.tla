----------------------------- MODULE WalVersions -----------------------------
(***************************************************************************)
(* What the headers stand for, in the behaviours of Wal before the first   *)
(* process is killed: the iChange of a header counts the versions of the   *)
(* database, and a connection's own header, the version it reads and the   *)
(* version its page cache holds go together.  A killed process leads to a  *)
(* recovery, which counts from zero again.                                 *)
(***************************************************************************)
EXTENDS WalInv

\* Both copies of the header are good, except while one of them is stored.
GoodHdrs ==
    /\ aHdr[0].isInit
    /\ (\A c \in Conn : pc[c] \notin {"publish0", "restart0"}) => aHdr[1] = aHdr[0]

\* Nobody has to recover the wal-index, and whoever stores a header has
\* stored its second copy.
NoRecovery(c) ==
    /\ pc[c] \notin RecPCs \cup {"hdrLocked"}
    /\ pc[c] \in {"publish0", "restart0"} => aHdr[1] = hdr[c]

\* PASSIVE ends with the copy.
ModeControl(c) ==
    pc[c] \in RestartPCs \cup {"ckptMode", "truncate", "ckptUnlock"} => eMode[c] # "PASSIVE"

\* The header counts the versions.
HdrCounts == Len(hist) = aHdr[0].iChange + 1

\* In a checkpoint that holds the WRITER lock, with the header it has read.
InFullCkpt(c) ==
    /\ bWriteLock(c)
    /\ pc[c] \in RestartPCs \cup (CkptPCs \ {"ckptWriter", "ckptEnd"})

\* A header that is not published yet counts one version more, that of a
\* connection with the WRITER lock is current, others may be old.
HdrAge(c) ==
    /\ pc[c] \in {"publish1", "publish0"} => hdr[c].iChange = aHdr[0].iChange + 1
    /\ pc[c] \notin {"publish1", "publish0"} => hdr[c].iChange <= aHdr[0].iChange
    /\ InWrite(c) /\ pc[c] \notin {"writeCheck", "publish1", "publish0"} =>
          hdr[c].iChange = aHdr[0].iChange
    /\ InFullCkpt(c) => hdr[c].iChange = aHdr[0].iChange
    /\ pc[c] \in TryPCs \cup WritePCs \cup RestartPCs \cup {"read"}
                  \cup (CkptPCs \ {"ckptWriter", "ckptEnd"}) => hdr[c].isInit

\* A transaction reads the version its header counts, and a write transaction
\* the last one.
SnapAge(c) ==
    /\ pc[c] \in {"read", "writeCheck"} => snap[c] = hdr[c].iChange + 1
    /\ InWrite(c) /\ pc[c] # "writeCheck" => snap[c] = Len(hist)

\* A page cache that is not empty has the version of the header, unless the
\* connection has seen (pChanged) that the header is another one.
CacheAge(c) ==
    /\ cache[c] # 0 /\ ~changed[c] /\ hdr[c].isInit /\ pc[c] \notin {"publish1", "publish0"} =>
          cache[c] = hdr[c].iChange + 1
    /\ pc[c] = "read" \/ InWrite(c) => cache[c] = snap[c]

VersionInv ==
    /\ GoodHdrs /\ HdrCounts
    /\ \A c \in Conn : NoRecovery(c) /\ ModeControl(c) /\ HdrAge(c) /\ SnapAge(c) /\ CacheAge(c)
=============================================================================
