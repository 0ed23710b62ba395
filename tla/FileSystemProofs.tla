-------------------------- MODULE FileSystemProofs --------------------------
(***************************************************************************)
(* Lemmas about FileSystem: what an operation on the directory or on an    *)
(* inode does to one file, as processes see it and as a power cut would    *)
(* leave it.  The proofs of the programs that replace files cite them.     *)
(***************************************************************************)
EXTENDS FileSystem, TLAPS

Inode == 1..Inodes

FilesTyped ==
    /\ dir \in [Names -> Inode \cup {NoFile}]
    /\ disk_dir \in [Names -> Inode \cup {NoFile}]
    /\ DOMAIN data = Inode /\ data = [i \in Inode |-> data[i]]
    /\ clean \subseteq Inode

\* No inode has two names.
OneName(d) == \A m, n \in Names : d[m] = d[n] /\ d[m] # NoFile => m = n

\* What processes read under a name; nothing when there is no file.
Content(n) == IF Exists(n) THEN At(n) ELSE <<>>

\* The file processes see and the file a power cut would leave are on disk.
Flushed(n) == {dir[n], disk_dir[n]} \ {NoFile} \subseteq clean

\* Inode i is not the file n, now or after a power cut.
Aside(i, n) == i \notin {dir[n], disk_dir[n]}

\* The bytes s are n blocks.
Sized(s, n) == DOMAIN s = 1..n /\ s = [q \in 1..n |-> s[q]]

-----------------------------------------------------------------------------
(* Blocks. *)

\* The larger of two numbers, as a write uses it (FileSystem.WriteBlock).
LEMMA MaxOfTwo ==
    ASSUME NEW a \in Nat, NEW b \in Nat
    PROVE  Max({a, b}) = IF a >= b THEN a ELSE b
<1> DEFINE m == IF a >= b THEN a ELSE b
<1>1. m \in {a, b} /\ \A y \in {a, b} : m >= y
  OBVIOUS
<1>2. \A x : (x \in {a, b} /\ \A y \in {a, b} : x >= y) => x = m
  OBVIOUS
<1> HIDE DEF m
<1> QED
  BY <1>1, <1>2 DEF Max

\* A function on 1..n is a sequence of length n.
LEMMA LengthOf ==
    ASSUME NEW s, NEW n \in Nat, Sized(s, n)
    PROVE  Len(s) = n
BY DEF Sized

\* A block written into a file, or just past its end, changes that block and
\* no other.
LEMMA WriteInPlace ==
    ASSUME FilesTyped, NEW i \in Inode, NEW n \in Nat, NEW b \in 1..(n + 1),
           Sized(data[i], n), NEW block, WriteBlock(i, b, block)
    PROVE  data'[i] = [q \in 1..(IF b = n + 1 THEN n + 1 ELSE n) |->
                          IF q = b THEN block ELSE data[i][q]]
<1>1. Len(data[i]) = n
  BY LengthOf
<1>2. Max({b, n}) = IF b = n + 1 THEN n + 1 ELSE n
  BY MaxOfTwo
<1>3. data'[i] = [q \in 1..Max({b, n}) |->
                     IF q = b THEN block
                     ELSE IF q <= n THEN data[i][q] ELSE Garbage]
  BY <1>1 DEF WriteBlock, FilesTyped
<1> DEFINE m == IF b = n + 1 THEN n + 1 ELSE n
<1>4. \A q \in 1..m : q = b \/ q <= n
  OBVIOUS
<1> HIDE DEF m
<1>5. data'[i] = [q \in 1..m |->
                     IF q = b THEN block
                     ELSE IF q <= n THEN data[i][q] ELSE Garbage]
  BY <1>2, <1>3 DEF m
<1>6. data'[i] = [q \in 1..m |-> IF q = b THEN block ELSE data[i][q]]
  BY <1>4, <1>5
<1> QED
  BY <1>6 DEF m

\* The two ways a program uses it: over a block, and past the last one.
LEMMA Overwrite ==
    ASSUME FilesTyped, NEW i \in Inode, NEW n \in Nat, NEW b \in 1..n,
           Sized(data[i], n), NEW block, WriteBlock(i, b, block)
    PROVE  /\ Sized(data'[i], n) /\ data'[i][b] = block
           /\ \A q \in 1..n : q # b => data'[i][q] = data[i][q]
<1>1. b \in 1..(n + 1) /\ b # n + 1
  OBVIOUS
<1>2. data'[i] = [q \in 1..n |-> IF q = b THEN block ELSE data[i][q]]
  BY <1>1, WriteInPlace
<1> QED
  BY <1>2 DEF Sized

\* A write at the end of an open file.
LEMMA Extend ==
    ASSUME FilesTyped, NEW i \in Inode, NEW n \in Nat, NEW b, b = n + 1,
           Sized(data[i], n), NEW block, WriteBlock(i, b, block)
    PROVE  /\ Sized(data'[i], b) /\ data'[i][b] = block
           /\ \A q \in 1..n : data'[i][q] = data[i][q]
<1>1. b \in 1..(n + 1)
  OBVIOUS
<1>2. data'[i] = [q \in 1..b |-> IF q = b THEN block ELSE data[i][q]]
  BY <1>1, WriteInPlace
<1> QED
  BY <1>2 DEF Sized

-----------------------------------------------------------------------------
(* A file through the operations on other files. *)

\* A write to another inode.
LEMMA WriteAside ==
    ASSUME FilesTyped, NEW i \in Inode, NEW b, NEW block,
           WriteBlock(i, b, block)
    PROVE  /\ FilesTyped'
           /\ UNCHANGED <<dir, disk_dir>>
           /\ \A j \in Inode \ {i} : data'[j] = data[j]
           /\ \A j \in Inode \ {i} : j \in clean' <=> j \in clean
           /\ \A n \in Names : Aside(i, n) /\ Flushed(n) =>
                /\ UNCHANGED <<Content(n), OnDisk(n)>>
                /\ Flushed(n)'
<1> USE InodeAssumption DEF WriteBlock, FilesTyped
<1>1. FilesTyped'
  OBVIOUS
<1>2. /\ \A j \in Inode \ {i} : data'[j] = data[j]
      /\ \A j \in Inode \ {i} : j \in clean' <=> j \in clean
  OBVIOUS
<1> QED
  BY <1>1, <1>2 DEF Aside, Flushed, Content, OnDisk, Exists, At, Inode

\* The inode a creation truncates is the file's own, or nobody's.
LEMMA TruncatedInode ==
    ASSUME FilesTyped, NEW n \in Names, NEW open, CanTruncate(n, open)
    PROVE  /\ InodeToTruncate(n, open) \in Inode
           /\ Exists(n) => InodeToTruncate(n, open) = dir[n]
           /\ ~Exists(n) =>
                /\ \A m \in Names : Aside(InodeToTruncate(n, open), m)
                /\ InodeToTruncate(n, open) \notin open
<1>1. CASE Exists(n)
  BY <1>1 DEF InodeToTruncate, Exists, FilesTyped
<1>2. CASE ~Exists(n)
  <2>1. InodeToTruncate(n, open) \in Unused(open)
    BY <1>2 DEF InodeToTruncate, CanTruncate
  <2> QED
    BY <1>2, <2>1 DEF Unused, Range, FilesTyped, Inode, Aside
<1> QED
  BY <1>1, <1>2

\* Creating or truncating a file under another name.
LEMMA TruncateAside ==
    ASSUME FilesTyped, OneName(dir), NEW n \in Names, NEW open,
           CanTruncate(n, open), NEW i, i = InodeToTruncate(n, open),
           Truncate(n, i)
    PROVE  /\ FilesTyped' /\ OneName(dir)'
           /\ dir'[n] = i /\ i \in Inode /\ data'[i] = <<>>
           /\ UNCHANGED disk_dir
           /\ \A m \in Names \ {n} : dir'[m] = dir[m]
           /\ \A j \in Inode \ {i} : data'[j] = data[j]
           /\ \A j \in Inode \ {i} : j \in clean' <=> j \in clean
           /\ \A m \in Names \ {n} : disk_dir[m] # dir[n] \/ ~Exists(n) =>
                 disk_dir[m] # i
           /\ \A m \in Names \ {n} :
                Flushed(m) /\ (Exists(n) => dir[n] # disk_dir[m]) =>
                  /\ UNCHANGED <<Content(m), OnDisk(m)>>
                  /\ Flushed(m)'
<1>1. /\ i \in Inode
      /\ \A m \in Names \ {n} : dir[m] # i
      /\ Exists(n) => i = dir[n]
      /\ ~Exists(n) => \A m \in Names : disk_dir[m] # i
  BY TruncatedInode, InodeAssumption DEF OneName, Exists, Aside, FilesTyped, Inode
<1>2. FilesTyped'
  BY <1>1 DEF Truncate, FilesTyped
<1>3. /\ dir'[n] = i /\ data'[i] = <<>> /\ UNCHANGED disk_dir
      /\ \A m \in Names \ {n} : dir'[m] = dir[m]
      /\ \A j \in Inode \ {i} : data'[j] = data[j]
      /\ \A j \in Inode \ {i} : j \in clean' <=> j \in clean
  BY <1>1 DEF Truncate, FilesTyped
<1>4. OneName(dir)'
  BY <1>1, <1>3 DEF OneName
<1>5. ASSUME NEW m \in Names \ {n}, Flushed(m),
             Exists(n) => dir[n] # disk_dir[m]
      PROVE  UNCHANGED <<Content(m), OnDisk(m)>> /\ Flushed(m)'
  <2>1. dir[m] # i /\ disk_dir[m] # i
    BY <1>1, <1>5
  <2> QED
    BY <1>3, <1>5, <2>1
    DEF Flushed, Content, OnDisk, Exists, At, FilesTyped
<1> QED
  BY <1>1, <1>2, <1>3, <1>4, <1>5 DEF Exists

\* Flushing an inode leaves every file that is on disk as it is.
LEMMA FsyncKeeps ==
    ASSUME FilesTyped, NEW i \in Inode, Fsync(i)
    PROVE  /\ FilesTyped'
           /\ UNCHANGED <<dir, disk_dir, data>>
           /\ i \in clean' /\ clean \subseteq clean'
           /\ \A n \in Names : Flushed(n) =>
                UNCHANGED <<Content(n), OnDisk(n)>> /\ Flushed(n)'
BY DEF Fsync, FilesTyped, Flushed, Content, OnDisk, Exists, At

\* Renaming a file installs its content under the new name at once; what a
\* power cut would leave is as before, and other names keep their files.
LEMMA RenameInstalls ==
    ASSUME FilesTyped, OneName(dir), NEW from \in Names, NEW to \in Names,
           from # to, Exists(from), Rename(from, to)
    PROVE  /\ FilesTyped' /\ OneName(dir)'
           /\ UNCHANGED <<disk_dir, data, clean>>
           /\ dir'[to] = dir[from] /\ dir'[from] = NoFile
           /\ \A n \in Names \ {from, to} : dir'[n] = dir[n]
           /\ Content(to)' = At(from) /\ UNCHANGED OnDisk(to)
           /\ Flushed(to) /\ dir[from] \in clean => Flushed(to)'
<1>1. /\ dir'[to] = dir[from] /\ dir'[from] = NoFile
      /\ \A n \in Names \ {from, to} : dir'[n] = dir[n]
      /\ UNCHANGED <<disk_dir, data, clean>>
  BY DEF Rename, FilesTyped
<1>2. FilesTyped'
  BY DEF Rename, FilesTyped
<1>3. OneName(dir)'
  BY <1>1 DEF OneName
<1> QED
  BY <1>1, <1>2, <1>3 DEF Content, OnDisk, Exists, At, Flushed

\* Removing a name leaves the other files as they are.
LEMMA RemoveAside ==
    ASSUME FilesTyped, OneName(dir), NEW n \in Names, Remove(n)
    PROVE  /\ FilesTyped' /\ OneName(dir)'
           /\ UNCHANGED <<disk_dir, data, clean>>
           /\ dir'[n] = NoFile
           /\ \A m \in Names \ {n} : dir'[m] = dir[m]
           /\ \A m \in Names \ {n} : Flushed(m) =>
                UNCHANGED <<Content(m), OnDisk(m)>> /\ Flushed(m)'
<1>1. /\ dir'[n] = NoFile
      /\ \A m \in Names \ {n} : dir'[m] = dir[m]
      /\ UNCHANGED <<disk_dir, data, clean>>
  BY DEF Remove, FilesTyped
<1>2. FilesTyped'
  BY DEF Remove, FilesTyped
<1>3. OneName(dir)'
  BY <1>1 DEF OneName
<1> QED
  BY <1>1, <1>2, <1>3 DEF Flushed, Content, OnDisk, Exists, At

\* Flushing the directory makes what processes see what a power cut leaves, of
\* every file that is on disk.
LEMMA FsyncDirPersists ==
    ASSUME FilesTyped, FsyncDir
    PROVE  /\ FilesTyped'
           /\ UNCHANGED <<dir, data, clean>> /\ disk_dir' = dir
           /\ \A n \in Names : Flushed(n) =>
                /\ OnDisk(n)' = Content(n) /\ UNCHANGED Content(n)
                /\ Flushed(n)'
<1>1. UNCHANGED <<dir, data, clean>> /\ disk_dir' = dir
  BY DEF FsyncDir
<1> QED
  BY <1>1 DEF FilesTyped, Flushed, Content, OnDisk, Exists, At

\* A power cut leaves what was on disk, and nothing else.
LEMMA CutRestores ==
    ASSUME FilesTyped, Cut
    PROVE  /\ FilesTyped'
           /\ UNCHANGED disk_dir /\ dir' = disk_dir /\ clean' = Inode
           /\ \A i \in clean : data'[i] = data[i]
           /\ \A n \in Names : Flushed(n) =>
                /\ Content(n)' = OnDisk(n) /\ UNCHANGED OnDisk(n)
                /\ Flushed(n)'
<1>1. /\ UNCHANGED disk_dir /\ dir' = disk_dir /\ clean' = Inode
      /\ data' = [i \in Inode |-> IF i \in clean THEN data[i] ELSE Torn]
  BY DEF Cut, Inode
<1>2. FilesTyped'
  BY <1>1 DEF FilesTyped
<1>3. \A i \in clean : data'[i] = data[i]
  BY <1>1 DEF FilesTyped
<1>4. ASSUME NEW n \in Names, Flushed(n)
      PROVE  /\ Content(n)' = OnDisk(n) /\ UNCHANGED OnDisk(n)
             /\ Flushed(n)'
  <2>1. disk_dir[n] # NoFile => disk_dir[n] \in clean /\ disk_dir[n] \in Inode
    BY <1>4 DEF Flushed, FilesTyped
  <2> QED
    BY <1>1, <1>3, <2>1 DEF Flushed, Content, OnDisk, Exists, At
<1> QED
  BY <1>1, <1>2, <1>3, <1>4

\* The kernel's own write-back does one or the other.
LEMMA WriteBackKeeps ==
    ASSUME FilesTyped, WriteBack
    PROVE  FsyncDir \/ \E i \in Inode : Fsync(i)
BY DEF WriteBack, Range, FilesTyped
=============================================================================
