----------------------------- MODULE FileSystem -----------------------------
(***************************************************************************)
(* The file system under runtime/storage/durable_io.cc: one directory,     *)
(* whose entries name inodes.  What a power cut leaves is kept apart from  *)
(* what processes see: a directory entry survives once the directory was   *)
(* flushed, the data of an inode once it was.  An inode that was not may   *)
(* hold anything, and is Torn.  The kernel also flushes on its own, at any *)
(* time and in any order.                                                  *)
(***************************************************************************)
EXTENDS Integers, Sequences, FiniteSetsExt, Functions

CONSTANTS
    Names,  \* file names of the directory
    Inodes, \* bound: inodes 1..Inodes
    NoFile, \* what a name without a file maps to
    Garbage \* a block nobody wrote

ASSUME InodeAssumption == Inodes \in Nat \ {0} /\ NoFile \notin 1..Inodes

VARIABLES
    dir,      \* the directory as processes see it
    disk_dir, \* the directory a power cut would leave
    data,     \* the bytes of an inode, a sequence of blocks
    clean     \* the inodes whose bytes a power cut would leave

fs == <<dir, disk_dir, data, clean>>

Torn == <<Garbage>>

Exists(n) == dir[n] # NoFile
At(n) == data[dir[n]]

\* What a power cut would leave of a file.
OnDisk(n) ==
    IF disk_dir[n] = NoFile THEN <<>>
    ELSE IF disk_dir[n] \in clean THEN data[disk_dir[n]] ELSE Torn

\* Inodes a creation may take, when the ones in open are held by processes.
Unused(open) == (1..Inodes) \ (Range(dir) \cup Range(disk_dir) \cup open)

\* open(n, O_CREAT | O_TRUNC) gives inode i.
CanTruncate(n, open) == Exists(n) \/ Unused(open) # {}

InodeToTruncate(n, open) ==
    IF Exists(n) THEN dir[n] ELSE CHOOSE i \in Unused(open) : TRUE

Truncate(n, i) ==
    /\ dir' = [dir EXCEPT ![n] = i]
    /\ data' = [data EXCEPT ![i] = <<>>]
    /\ clean' = clean \ {i}
    /\ UNCHANGED disk_dir

\* A write of one block at offset b; it may leave a hole before it.
WriteBlock(i, b, block) ==
    /\ data' = [data EXCEPT ![i] =
                  [q \in 1..Max({b, Len(@)}) |->
                      IF q = b THEN block ELSE IF q <= Len(@) THEN @[q] ELSE Garbage]]
    /\ clean' = clean \ {i}
    /\ UNCHANGED <<dir, disk_dir>>

Fsync(i) == clean' = clean \cup {i} /\ UNCHANGED <<dir, disk_dir, data>>

Rename(from, to) ==
    /\ dir' = [dir EXCEPT ![to] = dir[from], ![from] = NoFile]
    /\ UNCHANGED <<disk_dir, data, clean>>

Remove(n) ==
    /\ dir' = [dir EXCEPT ![n] = NoFile]
    /\ UNCHANGED <<disk_dir, data, clean>>

FsyncDir == disk_dir' = dir /\ UNCHANGED <<dir, data, clean>>

\* The kernel's own write-back.
WriteBack ==
    \/ disk_dir # dir /\ FsyncDir
    \/ \E i \in Range(dir) \ (clean \cup {NoFile}) : Fsync(i)

Cut ==
    /\ dir' = disk_dir
    /\ data' = [i \in 1..Inodes |-> IF i \in clean THEN data[i] ELSE Torn]
    /\ clean' = 1..Inodes
    /\ UNCHANGED disk_dir
=============================================================================
