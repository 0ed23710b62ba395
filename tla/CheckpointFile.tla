--------------------------- MODULE CheckpointFile ---------------------------
(***************************************************************************)
(* WriteFileDurable (runtime/storage/durable_io.cc) as the checkpoint path *)
(* uses it: several writers, threads or processes, replace one checkpoint, *)
(* and a resuming process loads it (runtime/storage/checkpoint.cc).  The   *)
(* write of a part, the fsync, the rename and the directory fsync are      *)
(* steps of their own, and each of them may fail.  A writer's process may  *)
(* be killed and started again, and the power may be cut.                  *)
(*                                                                         *)
(* A record has two parts: its headers, which carry the hash of the        *)
(* payload, and the payload.                                               *)
(***************************************************************************)
EXTENDS FileSystem

CONSTANTS
    Writers,  \* threads that write checkpoints
    MaxSaves, \* bound: saves a writer starts
    MaxCuts   \* bound: power cuts

ASSUME WritersAssumption ==
    /\ Names = {"ckpt", "tmp"} \cup Writers
    /\ {"ckpt", "tmp"} \cap Writers = {}
    /\ MaxSaves \in Nat /\ MaxCuts \in Nat

VARIABLES
    pc,     \* where a writer stands
    fd,     \* the inode of the sidecar a writer has open
    saves,  \* saves a writer has started
    order,  \* history: the records installed, in order
    acked,  \* history: how many were installed when a flush of the directory
            \* last succeeded
    reader, \* the resuming process: pc, open inode, the headers read, result
    cuts    \* power cuts so far

vars == <<fs, pc, fd, saves, order, acked, reader, cuts>>

Parts == 2
Record(w, k) == [p \in 1..Parts |-> <<w, k, p>>]
Records == {Record(w, k) : w \in Writers, k \in 1..MaxSaves}

NoReader == [at |-> "idle", inode |-> NoFile, headers |-> <<>>,
             result |-> "none"]

Open == {fd[w] : w \in Writers} \cup {reader.inode}

Init ==
    /\ dir = [n \in Names |-> NoFile] /\ disk_dir = dir
    /\ data = [i \in 1..Inodes |-> <<>>] /\ clean = 1..Inodes
    /\ pc = [w \in Writers |-> "idle"]
    /\ fd = [w \in Writers |-> NoFile]
    /\ saves = [w \in Writers |-> 0]
    /\ order = <<>> /\ acked = 0
    /\ reader = NoReader
    /\ cuts = 0

\* Mutant: all writers share one sidecar.
UniqueTmpPath_Fixed(w) == "tmp"

\* A writer's sidecar is its own; the one of a killed process may be found
\* again under the same name.
UniqueTmpPath(w) == w

OpenTmp(w) ==
    LET n == UniqueTmpPath(w)
        i == InodeToTruncate(n, Open) IN
    /\ pc[w] = "idle" /\ saves[w] < MaxSaves /\ CanTruncate(n, Open)
    /\ Truncate(n, i)
    /\ fd' = [fd EXCEPT ![w] = i]
    /\ saves' = [saves EXCEPT ![w] = @ + 1]
    /\ pc' = [pc EXCEPT ![w] = "headers"]
    /\ UNCHANGED <<order, acked, reader, cuts>>

\* A short write continues where it stopped; a part is written whole or fails.
WriteHeaders(w) ==
    /\ pc[w] = "headers"
    /\ WriteBlock(fd[w], 1, Record(w, saves[w])[1])
    /\ pc' = [pc EXCEPT ![w] = "payload"]
    /\ UNCHANGED <<fd, saves, order, acked, reader, cuts>>

WritePayload(w) ==
    /\ pc[w] = "payload"
    /\ WriteBlock(fd[w], 2, Record(w, saves[w])[2])
    /\ pc' = [pc EXCEPT ![w] = "fsync"]
    /\ UNCHANGED <<fd, saves, order, acked, reader, cuts>>

\* Mutant: write-tmp and rename alone.
FsyncTmp_Skipped(w) ==
    /\ pc[w] = "fsync"
    /\ pc' = [pc EXCEPT ![w] = "rename"]
    /\ fd' = [fd EXCEPT ![w] = NoFile]
    /\ UNCHANGED <<fs, saves, order, acked, reader, cuts>>

FsyncTmp(w) ==
    /\ pc[w] = "fsync"
    /\ Fsync(fd[w])
    /\ pc' = [pc EXCEPT ![w] = "rename"]
    /\ fd' = [fd EXCEPT ![w] = NoFile]
    /\ UNCHANGED <<saves, order, acked, reader, cuts>>

RenameTmp(w) ==
    /\ pc[w] = "rename" /\ Exists(UniqueTmpPath(w))
    /\ Rename(UniqueTmpPath(w), "ckpt")
    /\ order' = Append(order, At(UniqueTmpPath(w)))
    /\ pc' = [pc EXCEPT ![w] = "dirsync"]
    /\ UNCHANGED <<fd, saves, acked, reader, cuts>>

\* Mutant: the rename itself is not persisted.
SyncDir_Skipped(w) ==
    /\ pc[w] = "dirsync"
    /\ acked' = Len(order)
    /\ pc' = [pc EXCEPT ![w] = "idle"]
    /\ UNCHANGED <<fs, fd, saves, order, reader, cuts>>

\* Best effort: a directory that cannot be flushed is not an error.
SyncDir(w) ==
    /\ pc[w] = "dirsync"
    /\ \/ FsyncDir /\ acked' = Len(order)
       \/ UNCHANGED <<fs, acked>>
    /\ pc' = [pc EXCEPT ![w] = "idle"]
    /\ UNCHANGED <<fd, saves, order, reader, cuts>>

\* Any step before the rename may fail; the sidecar stays behind.
Fail(w) ==
    /\ pc[w] \in {"headers", "payload", "fsync", "rename"}
    /\ pc' = [pc EXCEPT ![w] = "idle"]
    /\ fd' = [fd EXCEPT ![w] = NoFile]
    /\ UNCHANGED <<fs, saves, order, acked, reader, cuts>>

\* The process is killed wherever it stands.
Kill(w) ==
    /\ pc[w] # "idle"
    /\ pc' = [pc EXCEPT ![w] = "idle"]
    /\ fd' = [fd EXCEPT ![w] = NoFile]
    /\ UNCHANGED <<fs, saves, order, acked, reader, cuts>>

(***************************************************************************)
(* LoadCheckpointRecord.                                                   *)
(***************************************************************************)
ReadHeaders ==
    /\ reader.at = "idle" /\ Exists("ckpt") /\ At("ckpt") # <<>>
    /\ reader' = [at |-> "payload", inode |-> dir["ckpt"],
                  headers |-> Head(At("ckpt")), result |-> "none"]
    /\ UNCHANGED <<fs, pc, fd, saves, order, acked, cuts>>

\* The payload must have the hash the headers carry.
ReadPayload ==
    LET bytes == data[reader.inode] IN
    /\ reader.at = "payload"
    /\ reader' =
        [NoReader EXCEPT !.result =
            IF bytes \in Records /\ bytes[1] = reader.headers
              THEN "loaded" ELSE "corrupt"]
    /\ UNCHANGED <<fs, pc, fd, saves, order, acked, cuts>>

(***************************************************************************)
(* The machine.                                                            *)
(***************************************************************************)
PowerCut ==
    /\ cuts < MaxCuts
    /\ Cut
    /\ pc' = [w \in Writers |-> "idle"]
    /\ fd' = [w \in Writers |-> NoFile]
    /\ reader' = NoReader
    /\ cuts' = cuts + 1
    /\ UNCHANGED <<saves, order, acked>>

KernelWriteBack == WriteBack /\ UNCHANGED <<pc, fd, saves, order, acked, reader, cuts>>

Save(w) ==
    \/ OpenTmp(w) \/ WriteHeaders(w) \/ WritePayload(w) \/ FsyncTmp(w) \/ RenameTmp(w) \/ SyncDir(w)
    \/ Fail(w) \/ Kill(w)

Next ==
    \/ \E w \in Writers : Save(w)
    \/ ReadHeaders \/ ReadPayload
    \/ PowerCut \/ KernelWriteBack

Spec == Init /\ [][Next]_vars
(***************************************************************************)
(* Properties.                                                             *)
(***************************************************************************)

\* The checkpoint goes from one complete record to the next whatever its
\* writers do, fail at or are killed at, and a power cut brings back a record
\* it held: never half a record, never a rename that outlived its data
\* (durable_io.h:17-22, 32-34).
Checkpoint == INSTANCE AtomicFile WITH
    Initial <- {<<>>},
    Complete <- Records,
    file <- IF Exists("ckpt") THEN At("ckpt") ELSE <<>>,
    disk <- OnDisk("ckpt")

ImplementsAtomicFile == Checkpoint!Spec

\* A load that runs while others save reads one record, headers and payload,
\* and never refuses a checkpoint as corrupt (checkpoint.cc:94-146,
\* durable_io.cc:30-36).
LoadsAreWhole == reader.result # "corrupt"

\* "A checkpoint that can vanish in a power cut is not a checkpoint"
\* (checkpoint.cc:82): once the directory was flushed after a save, no later
\* cut or failed save brings back a record older than that save.
SavedSurvives ==
    acked > 0 => \E k \in acked..Len(order) : OnDisk("ckpt") = order[k]
=============================================================================
