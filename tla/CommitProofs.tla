---------------------------- MODULE CommitProofs ----------------------------
(***************************************************************************)
(* Proofs about Commit: the sidecar belongs to the process that edits, the *)
(* output file changes atomically, and a commit in place is never lost.    *)
(***************************************************************************)
EXTENDS Commit, FileSystemProofs

Pcs == {"idle", "begin", "copy", "verify", "patch", "fsync", "rename",
        "dirsync", "release", "discard"}

ProcsTyped ==
    /\ source \in {"out", "model"}
    /\ lock \in Updates \cup {Free}
    /\ pc \in [Updates -> Pcs]
    /\ in \in [Updates -> Inode \cup {NoFile}]
    /\ fd \in [Updates -> Inode \cup {NoFile}]
    /\ at \in [Updates -> 1..Blocks]
    /\ commits \in Nat /\ kills \in Nat
    /\ result \in [Updates ->
                    {"none", "refused", "failed", "committed", "killed"}]

\* Whoever is past Acquire holds the lock, so at most one process is.
HolderWorks == \A u \in Updates : pc[u] # "idle" <=> lock = u

\* The directory names each inode once, now and after a power cut, and the
\* sidecar is never the file a power cut would bring back as the output.
NamesApart ==
    /\ OneName(dir) /\ OneName(disk_dir)
    /\ Exists("tmp") => dir["tmp"] # disk_dir["out"]

\* A separate source stays under its name, a model, whoever rewrites it.
SourceStays ==
    source = "model" =>
        /\ Exists("model") /\ disk_dir["model"] = dir["model"]
        /\ Flushed("model") /\ Content("model") \in Models

\* What a process has open.
Handles(u) ==
    /\ pc[u] \in {"copy", "verify", "patch", "fsync"} =>
         Exists("tmp") /\ fd[u] = dir["tmp"]
    /\ pc[u] = "rename" => Exists("tmp") /\ dir["tmp"] \in clean
    /\ pc[u] = "copy" => Exists(source) /\ in[u] = dir[source]
    /\ pc[u] \in {"idle", "begin", "rename", "dirsync", "release"} =>
         fd[u] = NoFile
    /\ pc[u] = "verify" => at[u] = 1

\* The sidecar of u when its first k - 1 blocks are patched.
Halfway(u, k) == [b \in 1..Blocks |-> IF b < k THEN {u} ELSE {}]
Partly(u, k) ==
    IF u \in Hashed THEN {Halfway(u, k)}
    ELSE {f \in Models : \A b \in 1..Blocks : b < k => u \in f[b]}

\* The blocks of the sidecar while its editor copies, in place the blocks of a
\* file nobody rewrites, and after the identity check.
Holds(u) ==
    /\ pc[u] = "copy" => At("tmp") \in [1..(at[u] - 1) -> SUBSET (Updates \cup Alien)]
    /\ pc[u] = "copy" /\ source = "out" =>
         \A b \in 1..(at[u] - 1) : At("tmp")[b] = At("out")[b]
    /\ pc[u] = "verify" => At("tmp") \in Models
    /\ pc[u] = "verify" /\ source = "out" => At("tmp") = At("out")
    /\ pc[u] = "patch" => At("tmp") \in Partly(u, at[u])
    /\ pc[u] \in {"fsync", "rename"} => At("tmp") \in Completed(u)

\* Of an update in place, the sidecar holds what the file holds: nobody
\* replaces the file before the update itself is installed.
Covers == \A b \in 1..Blocks : At("out")[b] \subseteq At("tmp")[b]

InPlace(u) ==
    source = "out" =>
        /\ pc[u] \in {"patch", "fsync", "rename"} => Covers
        /\ pc[u] = "dirsync" => At("out") \in Holding(u)

EditsRight == \A u \in Updates : Handles(u) /\ Holds(u) /\ InPlace(u)

\* The output file is whole and on disk, now and after a power cut.
Whole == {Pristine} \cup UNION {Completed(u) : u \in Updates}

OutputIsWhole ==
    /\ Flushed("out")
    /\ Exists("out") => At("out") \in Whole
    /\ disk_dir["out"] # NoFile => OnDisk("out") \in Whole
    /\ source = "out" => Exists("out") /\ disk_dir["out"] # NoFile

\* A sidecar nobody was killed over has an owner, who will rename or remove it.
SidecarIsOwned ==
    kills = 0 /\ Exists("tmp") =>
        \E u \in Updates : pc[u] \in Editing \cup {"discard"}

IInv ==
    /\ FilesTyped /\ ProcsTyped /\ HolderWorks /\ NamesApart /\ SourceStays
    /\ EditsRight /\ OutputIsWhole /\ SidecarIsOwned /\ CommittedIsKept

-----------------------------------------------------------------------------
(* What the steps have in common. *)

\* What an update may install is a model with its delta in every block.
LEMMA CompletedHolds ==
    ASSUME NEW u \in Updates
    PROVE  Completed(u) \subseteq Holding(u) /\ Holding(u) \subseteq Models
BY DEF Completed, Holding, Patched, Models

LEMMA SameModel ==
    ASSUME NEW f \in Models, NEW g \in Models, \A b \in 1..Blocks : f[b] = g[b]
    PROVE  f = g
<1>1. f = [b \in 1..Blocks |-> f[b]] /\ g = [b \in 1..Blocks |-> g[b]]
  BY DEF Models
<1> QED
  BY <1>1, Zenon

LEMMA WholeIsModel == Whole \subseteq Models
<1>1. Pristine \in Models
  BY DEF Pristine, Models
<1> QED
  BY <1>1, CompletedHolds DEF Whole

\* Patching the next block gets u one block further.
LEMMA PatchFurther ==
    ASSUME NEW u \in Updates, NEW k \in 1..Blocks, NEW f \in Partly(u, k),
           NEW g, Sized(g, Blocks), g[k] = f[k] \cup {u},
           \A q \in 1..Blocks : q # k => g[q] = f[q]
    PROVE  g \in Partly(u, k + 1)
<1> USE CommitAssumption
<1>1. CASE u \in Hashed
  <2>1. f = Halfway(u, k)
    BY <1>1 DEF Partly
  <2>2. ASSUME NEW q \in 1..Blocks
        PROVE  g[q] = IF q < k + 1 THEN {u} ELSE {}
    <3>1. f[q] = IF q < k THEN {u} ELSE {}
      BY <2>1 DEF Halfway
    <3>2. CASE q = k
      <4>1. f[q] = {}
        BY <3>1, <3>2
      <4>2. g[q] = {u}
        BY <4>1, <3>2
      <4> QED
        BY <4>2, <3>2
    <3>3. CASE q # k
      <4>1. q < k + 1 <=> q < k
        BY <3>3
      <4> QED
        BY <3>1, <3>3, <4>1
    <3> QED
      BY <3>2, <3>3
  <2>3. g = Halfway(u, k + 1)
    BY <2>2 DEF Halfway, Sized
  <2> QED
    BY <1>1, <2>3 DEF Partly
<1>2. CASE u \notin Hashed
  <2>1. /\ f \in [1..Blocks -> SUBSET (Updates \cup Alien)]
        /\ \A b \in 1..Blocks : b < k => u \in f[b]
    BY <1>2 DEF Partly, Models
  <2>2. ASSUME NEW q \in 1..Blocks
        PROVE  /\ g[q] \in SUBSET (Updates \cup Alien)
               /\ q < k + 1 => u \in g[q]
    <3>1. CASE q = k
      BY <2>1, <3>1
    <3>2. CASE q # k
      BY <2>1, <3>2
    <3> QED
      BY <3>1, <3>2
  <2>3. g \in Models
    BY <2>2 DEF Models, Sized
  <2> QED
    BY <1>2, <2>2, <2>3 DEF Partly
<1> QED
  BY <1>1, <1>2

\* Before the first block, and past the last.
LEMMA PartlyEnds ==
    ASSUME NEW u \in Updates
    PROVE  /\ \A f \in Models : (u \in Hashed => f = Pristine) => f \in Partly(u, 1)
           /\ Partly(u, Blocks + 1) = Completed(u)
           /\ \A k : Partly(u, k) \subseteq Models
<1> USE CommitAssumption
<1>1. Halfway(u, 1) = Pristine /\ Halfway(u, Blocks + 1) = Patched(u)
  BY DEF Halfway, Pristine, Patched
<1>2. \A k : Halfway(u, k) \in Models
  BY DEF Halfway, Models
<1>3. \A b \in 1..Blocks : b < Blocks + 1 /\ ~(b < 1)
  OBVIOUS
<1> QED
  BY <1>1, <1>2, <1>3 DEF Partly, Completed, Holding

\* At most one process is past Acquire, and it has the lock; the others have
\* nothing that a step of it could disturb.
LEMMA Alone ==
    ASSUME IInv, NEW u \in Updates, pc[u] # "idle",
           \A v \in Updates \ {u} : pc'[v] = pc[v] /\ fd'[v] = fd[v]
    PROVE  /\ lock = u /\ lock # Free
           /\ \A v \in Updates \ {u} :
                /\ pc[v] = "idle" /\ lock # v
                /\ Handles(v)' /\ Holds(v)' /\ InPlace(v)'
<1>1. lock = u /\ lock # Free
  BY CommitAssumption DEF IInv, HolderWorks
<1>2. ASSUME NEW v \in Updates \ {u}
      PROVE  pc[v] = "idle" /\ lock # v /\ fd[v] = NoFile
  BY <1>1 DEF IInv, HolderWorks, EditsRight, Handles
<1>3. ASSUME NEW v \in Updates \ {u}
      PROVE  Handles(v)' /\ Holds(v)' /\ InPlace(v)'
  <2>1. pc'[v] = "idle" /\ fd'[v] = NoFile
    BY <1>2
  <2> QED
    BY <2>1 DEF Handles, Holds, InPlace
<1> QED
  BY <1>1, <1>2, <1>3

\* Typing, the lock and the history only look at the processes.
LEMMA FilesUnchanged ==
    ASSUME IInv, UNCHANGED <<fs, source>>
    PROVE  /\ FilesTyped' /\ NamesApart' /\ SourceStays' /\ OutputIsWhole'
           /\ UNCHANGED <<dir, disk_dir, clean>>
           /\ \A n \in Names : Exists(n)' = Exists(n) /\ At(n)' = At(n)
BY DEF fs, IInv, FilesTyped, NamesApart, SourceStays, OutputIsWhole, OneName,
       Flushed, OnDisk, Exists, At, Content

-----------------------------------------------------------------------------
(* The steps that leave the files alone. *)

\* A process takes the lock, or is refused (durable_io.cc:211-247).
LEMMA AcquireStep ==
    ASSUME IInv, NEW u \in Updates, Acquire(u)
    PROVE  IInv'
<1> USE DEF IInv, Acquire, Goto
<1>f. /\ FilesTyped' /\ NamesApart' /\ SourceStays' /\ OutputIsWhole'
      /\ UNCHANGED <<dir, disk_dir, clean>>
      /\ \A n \in Names : Exists(n)' = Exists(n) /\ At(n)' = At(n)
      /\ UNCHANGED <<source, in, fd, at, kills>>
  BY FilesUnchanged
<1>1. CASE lock = Free
  <2>1. /\ lock' = u /\ pc' = [pc EXCEPT ![u] = "begin"] /\ UNCHANGED result
        /\ \A v \in Updates : pc[v] = "idle"
    BY <1>1, CommitAssumption DEF HolderWorks
  <2>2. ProcsTyped'
    BY <1>f, <2>1 DEF ProcsTyped, Pcs
  <2>3. HolderWorks'
    BY <2>1 DEF HolderWorks, ProcsTyped
  <2>4. EditsRight'
    BY <1>f, <2>1 DEF EditsRight, Handles, Holds, InPlace, Covers, ProcsTyped
  <2>5. SidecarIsOwned' /\ CommittedIsKept'
    BY <1>f, <2>1, CommitAssumption DEF SidecarIsOwned, CommittedIsKept, Editing
  <2> QED
    BY <1>f, <2>2, <2>3, <2>4, <2>5
<1>2. CASE lock # Free
  <2>1. /\ UNCHANGED <<lock, pc>>
        /\ result' = [result EXCEPT ![u] = "refused"]
    BY <1>2
  <2>2. ProcsTyped' /\ HolderWorks'
    BY <1>f, <2>1 DEF ProcsTyped, HolderWorks
  <2>3. EditsRight'
    BY <1>f, <2>1, CommitAssumption
    DEF EditsRight, Handles, Holds, InPlace, Covers, ProcsTyped
  <2>4. SidecarIsOwned' /\ CommittedIsKept'
    BY <1>f, <2>1, CommitAssumption
    DEF SidecarIsOwned, CommittedIsKept, Editing, ProcsTyped
  <2> QED
    BY <1>f, <2>2, <2>3, <2>4
<1> QED
  BY <1>1, <1>2

\* The copy is checked to be the plan's model, if the plan has a hash.
LEMMA VerifyStep ==
    ASSUME IInv, NEW u \in Updates, Verify(u)
    PROVE  IInv'
<1> USE DEF IInv, Verify, Goto
<1>f. /\ FilesTyped' /\ NamesApart' /\ SourceStays' /\ OutputIsWhole'
      /\ UNCHANGED <<dir, disk_dir, clean>>
      /\ \A n \in Names : Exists(n)' = Exists(n) /\ At(n)' = At(n)
      /\ UNCHANGED <<source, lock, in, fd, at, result, kills>>
  BY FilesUnchanged
<1>1. pc[u] = "verify"
      /\ pc' = [pc EXCEPT ![u] = IF u \in Hashed => At("tmp") = Pristine
                                   THEN "patch" ELSE "discard"]
  OBVIOUS
<1>2. /\ lock = u
      /\ \A v \in Updates \ {u} : Handles(v)' /\ Holds(v)' /\ InPlace(v)'
  BY <1>1, Alone DEF ProcsTyped
<1>3. ProcsTyped' /\ HolderWorks'
  BY <1>f, <1>1, <1>2 DEF ProcsTyped, HolderWorks, Pcs
<1>4. Handles(u)' /\ Holds(u)' /\ InPlace(u)'
  <2>1. Handles(u) /\ Holds(u)
    BY DEF EditsRight
  <2>2. /\ At("tmp") \in Models /\ at[u] = 1
        /\ source = "out" => At("tmp") = At("out")
    BY <1>1, <2>1 DEF Handles, Holds
  <2>3. CASE u \in Hashed => At("tmp") = Pristine
    <3>1. pc'[u] = "patch"
      BY <1>1, <2>3 DEF ProcsTyped
    <3>2. At("tmp") \in Partly(u, at[u])
      BY <2>2, <2>3, PartlyEnds
    <3>3. Handles(u)'
      BY <1>f, <1>1, <2>1, <3>1, CommitAssumption DEF Handles
    <3>4. Holds(u)'
      BY <1>f, <3>1, <3>2, CommitAssumption DEF Holds
    <3>5. InPlace(u)'
      BY <1>f, <2>2, <3>1, CommitAssumption DEF InPlace, Covers
    <3> QED
      BY <3>3, <3>4, <3>5
  <2>4. CASE ~(u \in Hashed => At("tmp") = Pristine)
    <3>1. pc'[u] = "discard"
      BY <1>1, <2>4 DEF ProcsTyped
    <3> QED
      BY <3>1 DEF Handles, Holds, InPlace
  <2> QED
    BY <2>3, <2>4
<1>5. EditsRight'
  BY <1>2, <1>4 DEF EditsRight
<1>6. SidecarIsOwned' /\ CommittedIsKept'
  BY <1>f, <1>1, CommitAssumption
  DEF SidecarIsOwned, CommittedIsKept, Editing, ProcsTyped
<1> QED
  BY <1>f, <1>3, <1>5, <1>6

\* A step fails: the sidecar is to be removed.
LEMMA FailStep ==
    ASSUME IInv, NEW u \in Updates, Fail(u)
    PROVE  IInv'
<1> USE DEF IInv, Fail, Goto
<1>f. /\ FilesTyped' /\ NamesApart' /\ SourceStays' /\ OutputIsWhole'
      /\ UNCHANGED <<dir, disk_dir, clean>>
      /\ \A n \in Names : Exists(n)' = Exists(n) /\ At(n)' = At(n)
      /\ UNCHANGED <<source, lock, in, fd, at, result, kills>>
  BY FilesUnchanged
<1>1. pc[u] # "idle" /\ pc' = [pc EXCEPT ![u] = "discard"]
  OBVIOUS
<1>2. /\ lock = u
      /\ \A v \in Updates \ {u} : Handles(v)' /\ Holds(v)' /\ InPlace(v)'
  BY <1>1, Alone DEF ProcsTyped
<1>3. ProcsTyped' /\ HolderWorks'
  BY <1>f, <1>1, <1>2 DEF ProcsTyped, HolderWorks, Pcs
<1>4. Handles(u)' /\ Holds(u)' /\ InPlace(u)'
  BY <1>1 DEF Handles, Holds, InPlace, ProcsTyped
<1>5. EditsRight'
  BY <1>2, <1>4 DEF EditsRight
<1>6. SidecarIsOwned' /\ CommittedIsKept'
  BY <1>f, <1>1, CommitAssumption
  DEF SidecarIsOwned, CommittedIsKept, Editing, ProcsTyped
<1> QED
  BY <1>f, <1>3, <1>5, <1>6

\* The lock is dropped and the result returned.
LEMMA ReleaseStep ==
    ASSUME IInv, NEW u \in Updates, Release(u)
    PROVE  IInv'
<1> USE DEF IInv, Release, Goto
<1>f. /\ FilesTyped' /\ NamesApart' /\ SourceStays' /\ OutputIsWhole'
      /\ UNCHANGED <<dir, disk_dir, clean>>
      /\ \A n \in Names : Exists(n)' = Exists(n) /\ At(n)' = At(n)
      /\ UNCHANGED <<source, in, fd, at, result, kills>>
  BY FilesUnchanged
<1>1. pc[u] = "release" /\ lock' = Free /\ pc' = [pc EXCEPT ![u] = "idle"]
  OBVIOUS
<1>2. /\ lock = u
      /\ \A v \in Updates \ {u} :
           pc[v] = "idle" /\ Handles(v)' /\ Holds(v)' /\ InPlace(v)'
  BY <1>1, Alone DEF ProcsTyped
<1>3. ProcsTyped' /\ HolderWorks'
  BY <1>f, <1>1, <1>2, CommitAssumption DEF ProcsTyped, HolderWorks, Pcs
<1>4. Handles(u)' /\ Holds(u)' /\ InPlace(u)'
  BY <1>f, <1>1 DEF EditsRight, Handles, Holds, InPlace, ProcsTyped
<1>5. EditsRight'
  BY <1>2, <1>4 DEF EditsRight
<1>6. SidecarIsOwned' /\ CommittedIsKept'
  BY <1>f, <1>1, <1>2, CommitAssumption
  DEF SidecarIsOwned, CommittedIsKept, Editing, ProcsTyped
<1> QED
  BY <1>f, <1>3, <1>5, <1>6

\* A process is killed; its lock goes with it.
LEMMA KillStep ==
    ASSUME IInv, NEW u \in Updates, Kill(u)
    PROVE  IInv'
<1> USE DEF IInv, Kill, Goto, Close
<1>f. /\ FilesTyped' /\ NamesApart' /\ SourceStays' /\ OutputIsWhole'
      /\ UNCHANGED <<dir, disk_dir, clean>>
      /\ \A n \in Names : Exists(n)' = Exists(n) /\ At(n)' = At(n)
      /\ UNCHANGED source
  BY FilesUnchanged
<1>1. /\ pc[u] # "idle" /\ pc' = [pc EXCEPT ![u] = "idle"]
      /\ in' = [in EXCEPT ![u] = NoFile] /\ fd' = [fd EXCEPT ![u] = NoFile]
      /\ at' = [at EXCEPT ![u] = 1] /\ kills' = kills + 1
      /\ result' = [result EXCEPT ![u] = "killed"]
  OBVIOUS
<1>2. /\ lock = u
      /\ \A v \in Updates \ {u} :
           pc[v] = "idle" /\ Handles(v)' /\ Holds(v)' /\ InPlace(v)'
  BY <1>1, Alone DEF ProcsTyped
<1>3. ProcsTyped' /\ HolderWorks'
  BY <1>f, <1>1, <1>2, CommitAssumption DEF ProcsTyped, HolderWorks, Pcs
<1>4. Handles(u)' /\ Holds(u)' /\ InPlace(u)'
  BY <1>1 DEF Handles, Holds, InPlace, ProcsTyped
<1>5. EditsRight'
  BY <1>2, <1>4 DEF EditsRight
<1>6. SidecarIsOwned' /\ CommittedIsKept'
  BY <1>f, <1>1, CommitAssumption DEF SidecarIsOwned, CommittedIsKept, ProcsTyped
<1> QED
  BY <1>f, <1>3, <1>5, <1>6

-----------------------------------------------------------------------------
(* The steps that write the sidecar. *)

\* The sidecar is another file than the output and the source.
LEMMA SidecarAside ==
    ASSUME IInv, Exists("tmp")
    PROVE  /\ dir["tmp"] \in Inode
           /\ Aside(dir["tmp"], "out") /\ dir["tmp"] # dir[source]
BY CommitAssumption
DEF IInv, FilesTyped, ProcsTyped, NamesApart, OneName, Exists, Aside

\* The holder of the lock opens source and sidecar.
LEMMA BeginStep ==
    ASSUME IInv, NEW u \in Updates, Begin(u)
    PROVE  IInv' /\ UNCHANGED <<Content("out"), OnDisk("out")>>
<1> DEFINE i == InodeToTruncate("tmp", Open)
<1> HIDE DEF i
<1> USE DEF IInv
<1>1. /\ pc[u] = "begin" /\ Exists(source) /\ CanTruncate("tmp", Open)
      /\ Truncate("tmp", i)
      /\ in' = [in EXCEPT ![u] = dir[source]] /\ fd' = [fd EXCEPT ![u] = i]
      /\ at' = [at EXCEPT ![u] = 1] /\ pc' = [pc EXCEPT ![u] = "copy"]
      /\ UNCHANGED <<source, lock, commits, result, kills>>
  BY DEF Begin, Goto, i
<1>2. /\ FilesTyped' /\ OneName(dir)'
      /\ dir'["tmp"] = i /\ i \in Inode /\ data'[i] = <<>>
      /\ UNCHANGED disk_dir
      /\ \A m \in Names \ {"tmp"} : dir'[m] = dir[m]
      /\ \A j \in Inode \ {i} : data'[j] = data[j]
      /\ disk_dir["out"] # i
      /\ UNCHANGED <<Content("out"), OnDisk("out")>> /\ Flushed("out")'
      /\ source = "model" => UNCHANGED Content("model") /\ Flushed("model")'
  <2>1. source = "model" /\ Exists("tmp") => dir["tmp"] # disk_dir["model"]
    BY CommitAssumption DEF NamesApart, OneName, SourceStays, Exists
  <2> QED
    BY <1>1, <2>1, TruncateAside, CommitAssumption
    DEF NamesApart, OutputIsWhole, SourceStays, i
<1>3. /\ lock = u
      /\ \A v \in Updates \ {u} :
           pc[v] = "idle" /\ Handles(v)' /\ Holds(v)' /\ InPlace(v)'
  BY <1>1, Alone DEF ProcsTyped
<1>4. ProcsTyped' /\ HolderWorks'
  <2>1. dir[source] \in Inode
    BY <1>1, CommitAssumption DEF ProcsTyped, FilesTyped, Exists
  <2> QED
    BY <1>1, <1>2, <1>3, <2>1, CommitAssumption DEF ProcsTyped, HolderWorks, Pcs
<1>5. NamesApart' /\ SourceStays'
  BY <1>1, <1>2, CommitAssumption DEF NamesApart, SourceStays, Exists
<1>6. OutputIsWhole'
  BY <1>1, <1>2, CommitAssumption DEF OutputIsWhole, Content, Exists
<1>7. Handles(u)' /\ Holds(u)' /\ InPlace(u)'
  <2>1. pc'[u] = "copy" /\ fd'[u] = i /\ in'[u] = dir[source] /\ at'[u] = 1
    BY <1>1 DEF ProcsTyped
  <2>2. source # "tmp" /\ source \in Names /\ i # NoFile
    BY <1>2, CommitAssumption, InodeAssumption DEF ProcsTyped, Inode
  <2>3. Handles(u)'
    BY <1>1, <1>2, <2>1, <2>2 DEF Handles, Exists
  <2>4. at'[u] - 1 = 0 /\ At("tmp")' = <<>>
    BY <1>2, <2>1 DEF At
  <2>5. /\ <<>> \in [1..0 -> SUBSET (Updates \cup Alien)]
        /\ \A b \in 1..0 : FALSE
    OBVIOUS
  <2> QED
    BY <2>1, <2>3, <2>4, <2>5 DEF Holds, InPlace
<1>8. EditsRight'
  BY <1>3, <1>7 DEF EditsRight
<1>9. SidecarIsOwned' /\ CommittedIsKept'
  <2>1. SidecarIsOwned'
    BY <1>1 DEF SidecarIsOwned, Editing, ProcsTyped
  <2>2. CommittedIsKept'
    BY <1>1, <1>2, CommitAssumption
    DEF CommittedIsKept, OutputIsWhole, Content, Exists
  <2> QED
    BY <2>1, <2>2
<1> QED
  BY <1>2, <1>4, <1>5, <1>6, <1>8, <1>9

\* A block written to the sidecar disturbs nothing but the sidecar.
LEMMA SidecarWrite ==
    ASSUME IInv, NEW u \in Updates, pc[u] \in {"copy", "patch"},
           NEW b, NEW block, WriteBlock(fd[u], b, block),
           UNCHANGED <<source, lock, fd, commits, result, kills>>,
           NEW k \in 1..Blocks, at' = [at EXCEPT ![u] = k],
           NEW next \in {pc[u], "verify", "fsync"},
           pc' = [pc EXCEPT ![u] = next],
           in' = in \/ in' = [in EXCEPT ![u] = NoFile]
    PROVE  /\ FilesTyped' /\ ProcsTyped' /\ HolderWorks' /\ NamesApart'
           /\ SourceStays' /\ OutputIsWhole' /\ SidecarIsOwned'
           /\ CommittedIsKept'
           /\ fd[u] = dir["tmp"] /\ fd[u] \in Inode
           /\ UNCHANGED <<dir, disk_dir>>
           /\ UNCHANGED <<Content("out"), OnDisk("out")>>
           /\ source = "out" => Exists("out") /\ UNCHANGED At("out")
           /\ \A v \in Updates \ {u} : Handles(v)' /\ Holds(v)' /\ InPlace(v)'
<1> USE DEF IInv
<1>1. fd[u] = dir["tmp"] /\ Exists("tmp")
  BY DEF EditsRight, Handles
<1>2. fd[u] \in Inode /\ Aside(fd[u], "out")
  BY <1>1, SidecarAside
<1>3. /\ FilesTyped' /\ UNCHANGED <<dir, disk_dir>>
      /\ UNCHANGED <<Content("out"), OnDisk("out")>> /\ Flushed("out")'
  BY <1>2, WriteAside, CommitAssumption DEF OutputIsWhole
<1>4. /\ lock = u
      /\ \A v \in Updates \ {u} :
           pc[v] = "idle" /\ Handles(v)' /\ Holds(v)' /\ InPlace(v)'
  BY Alone DEF ProcsTyped
<1>5. ProcsTyped' /\ HolderWorks'
  BY <1>4, CommitAssumption DEF ProcsTyped, HolderWorks, Pcs
<1>6. NamesApart' /\ SourceStays'
  <2>1. source = "model" => Aside(fd[u], "model")
    BY <1>1, <1>2, SidecarAside DEF SourceStays, Aside
  <2>2. source = "model" => UNCHANGED Content("model") /\ Flushed("model")'
    BY <1>2, <2>1, WriteAside, CommitAssumption DEF SourceStays
  <2> QED
    BY <1>3, <2>2 DEF NamesApart, SourceStays, Exists
<1>7. OutputIsWhole'
  BY <1>3 DEF OutputIsWhole, Content, Exists
<1>8. SidecarIsOwned'
  BY DEF SidecarIsOwned, Editing, ProcsTyped
<1>9. source = "out" => Exists("out") /\ UNCHANGED At("out")
  BY <1>3 DEF OutputIsWhole, Content, Exists
<1>10. CommittedIsKept'
  BY <1>9 DEF CommittedIsKept
<1> QED
  BY <1>1, <1>2, <1>3, <1>4, <1>5, <1>6, <1>7, <1>8, <1>9, <1>10

\* The copy is a prefix of some model, in place of the file itself.
LEMMA CopyStep ==
    ASSUME IInv, NEW u \in Updates, Copy(u)
    PROVE  IInv' /\ UNCHANGED <<Content("out"), OnDisk("out")>>
<1> USE DEF IInv, Copy, Goto
<1> DEFINE last == at[u] = Blocks
<1>1. /\ pc[u] = "copy" /\ at[u] \in 1..Blocks
      /\ WriteBlock(fd[u], at[u], data[in[u]][at[u]])
      /\ UNCHANGED <<source, lock, fd, commits, result, kills>>
  BY DEF ProcsTyped
<1>2. /\ pc' = [pc EXCEPT ![u] = IF last THEN "verify" ELSE "copy"]
      /\ at' = [at EXCEPT ![u] = IF last THEN 1 ELSE at[u] + 1]
      /\ in' = in \/ in' = [in EXCEPT ![u] = NoFile]
  <2>1. CASE last
    BY <2>1
  <2>2. CASE ~last
    BY <1>1, <2>2 DEF ProcsTyped
  <2> QED
    BY <2>1, <2>2
<1>3. (IF last THEN 1 ELSE at[u] + 1) \in 1..Blocks
  BY <1>1, CommitAssumption
<1>4. /\ FilesTyped' /\ ProcsTyped' /\ HolderWorks' /\ NamesApart'
      /\ SourceStays' /\ OutputIsWhole' /\ SidecarIsOwned' /\ CommittedIsKept'
      /\ fd[u] = dir["tmp"] /\ fd[u] \in Inode
      /\ UNCHANGED <<dir, disk_dir>>
      /\ UNCHANGED <<Content("out"), OnDisk("out")>>
      /\ source = "out" => Exists("out") /\ UNCHANGED At("out")
      /\ \A v \in Updates \ {u} : Handles(v)' /\ Holds(v)' /\ InPlace(v)'
  <2>1. CASE last
    BY <2>1, <1>1, <1>2, <1>3, SidecarWrite
  <2>2. CASE ~last
    BY <2>2, <1>1, <1>2, <1>3, SidecarWrite
  <2> QED
    BY <2>1, <2>2
<1>5. Handles(u)'
  BY <1>1, <1>2, <1>4 DEF EditsRight, Handles, ProcsTyped, Exists
<1> DEFINE Block == SUBSET (Updates \cup Alien)
<1>6. /\ At("tmp")' \in [1..at[u] -> Block]
      /\ source = "out" =>
           \A b \in 1..at[u] : At("tmp")'[b] = At("out")'[b]
  <2> DEFINE n == at[u] - 1
             block == data[in[u]][at[u]]
  <2>1. n \in Nat /\ at[u] = n + 1 /\ at[u] \in 1..Blocks
    BY <1>1, CommitAssumption
  <2>2. data[in[u]] \in Models /\ (source = "out" => data[in[u]] = At("out"))
    <3>1. Exists(source) /\ data[in[u]] = At(source)
      BY <1>1 DEF EditsRight, Handles, At
    <3>2. CASE source = "model"
      BY <3>1, <3>2 DEF SourceStays, Content
    <3>3. CASE source = "out"
      BY <3>1, <3>3, WholeIsModel DEF OutputIsWhole
    <3> QED
      BY <3>1, <3>2, <3>3 DEF ProcsTyped
  <2>3. /\ data[fd[u]] \in [1..n -> Block]
        /\ source = "out" => \A b \in 1..n : data[fd[u]][b] = At("out")[b]
    BY <1>1, <1>4 DEF EditsRight, Holds, At
  <2>4. FilesTyped /\ WriteBlock(fd[u], at[u], block) /\ block \in Block
    BY <1>1, <2>1, <2>2 DEF Models
  <2>5. fd[u] \in Inode /\ At("tmp")' = data'[fd[u]]
    BY <1>4 DEF At
  <2>6. source = "out" => At("out")' = At("out") /\ block = At("out")[at[u]]
    BY <1>4, <2>2
  <2> HIDE DEF n, block, Block, Copy, IInv
  <2>7. Sized(data[fd[u]], n)
    BY <2>3 DEF Sized
  <2>8. /\ Sized(data'[fd[u]], at[u]) /\ data'[fd[u]][at[u]] = block
        /\ \A q \in 1..n : data'[fd[u]][q] = data[fd[u]][q]
    BY <2>1, <2>4, <2>5, <2>7, Extend
  <2>9. \A q \in 1..at[u] : q = at[u] \/ q \in 1..n
    BY <2>1
  <2>10. \A q \in 1..at[u] : data'[fd[u]][q] \in Block
    BY <2>3, <2>4, <2>8, <2>9
  <2>11. data'[fd[u]] \in [1..at[u] -> Block]
    BY <2>8, <2>10 DEF Sized
  <2>12. source = "out" =>
           \A q \in 1..at[u] : data'[fd[u]][q] = At("out")[q]
    BY <2>3, <2>6, <2>8, <2>9
  <2> QED
    BY <2>5, <2>6, <2>11, <2>12
<1>7. Holds(u)'
  <2>1. CASE last
    <3>1. At("tmp")' \in Models
      BY <1>6, <2>1 DEF Models
    <3>2. source = "out" => At("out")' \in Models
      BY <1>4, WholeIsModel DEF OutputIsWhole
    <3>3. source = "out" => At("tmp")' = At("out")'
      BY <1>6, <2>1, <3>1, <3>2, SameModel
    <3>4. pc'[u] = "verify"
      BY <1>2, <2>1 DEF ProcsTyped
    <3> QED
      BY <1>1, <3>1, <3>3, <3>4 DEF Holds
  <2>2. CASE ~last
    <3>1. pc'[u] = "copy" /\ at'[u] - 1 = at[u]
      BY <1>1, <1>2, <2>2 DEF ProcsTyped
    <3> QED
      BY <1>1, <1>6, <3>1 DEF Holds
  <2> QED
    BY <2>1, <2>2
<1>8. InPlace(u)'
  BY <1>1, <1>2 DEF InPlace, ProcsTyped
<1> QED
  BY <1>4, <1>5, <1>7, <1>8 DEF EditsRight

\* The delta goes into the copy block by block, and takes no update out of it.
LEMMA PatchStep ==
    ASSUME IInv, NEW u \in Updates, Patch(u)
    PROVE  IInv' /\ UNCHANGED <<Content("out"), OnDisk("out")>>
<1> USE DEF IInv, Patch, Goto
<1> DEFINE last == at[u] = Blocks
<1>1. /\ pc[u] = "patch" /\ at[u] \in 1..Blocks
      /\ WriteBlock(fd[u], at[u], data[fd[u]][at[u]] \cup {u})
      /\ UNCHANGED <<source, lock, in, fd, commits, result, kills>>
  BY DEF ProcsTyped
<1>2. /\ pc' = [pc EXCEPT ![u] = IF last THEN "fsync" ELSE "patch"]
      /\ at' = [at EXCEPT ![u] = IF last THEN 1 ELSE at[u] + 1]
  BY <1>1 DEF ProcsTyped
<1>3. (IF last THEN 1 ELSE at[u] + 1) \in 1..Blocks
  BY <1>1, CommitAssumption
<1>4. /\ FilesTyped' /\ ProcsTyped' /\ HolderWorks' /\ NamesApart'
      /\ SourceStays' /\ OutputIsWhole' /\ SidecarIsOwned' /\ CommittedIsKept'
      /\ fd[u] = dir["tmp"] /\ fd[u] \in Inode
      /\ UNCHANGED <<dir, disk_dir>>
      /\ UNCHANGED <<Content("out"), OnDisk("out")>>
      /\ source = "out" => Exists("out") /\ UNCHANGED At("out")
      /\ \A v \in Updates \ {u} : Handles(v)' /\ Holds(v)' /\ InPlace(v)'
  <2>1. CASE last
    BY <2>1, <1>1, <1>2, <1>3, SidecarWrite
  <2>2. CASE ~last
    BY <2>2, <1>1, <1>2, <1>3, SidecarWrite
  <2> QED
    BY <2>1, <2>2
<1>5. Handles(u)'
  BY <1>1, <1>2, <1>4 DEF EditsRight, Handles, ProcsTyped, Exists
<1>6. /\ At("tmp")' \in Partly(u, at[u] + 1)
      /\ \A q \in 1..Blocks : At("tmp")[q] \subseteq At("tmp")'[q]
  <2> DEFINE f == data[fd[u]]
             g == data'[fd[u]]
             block == f[at[u]] \cup {u}
  <2>1. f \in Partly(u, at[u]) /\ f = At("tmp") /\ g = At("tmp")'
    BY <1>1, <1>4 DEF EditsRight, Holds, At
  <2>2. Blocks \in Nat /\ at[u] \in 1..Blocks /\ fd[u] \in Inode
    BY <1>1, <1>4, CommitAssumption
  <2>3. Sized(f, Blocks)
    <3>1. f \in Models
      BY <2>1, PartlyEnds
    <3> QED
      BY <3>1 DEF Models, Sized
  <2>4. FilesTyped /\ WriteBlock(fd[u], at[u], block)
    BY <1>1
  <2>5. Sized(g, Blocks) /\ g[at[u]] = block
        /\ \A q \in 1..Blocks : q # at[u] => g[q] = f[q]
    <3> HIDE DEF block, Patch, IInv
    <3> QED
      BY <2>2, <2>3, <2>4, Overwrite
  <2> HIDE DEF f, g, Patch, IInv
  <2>6. g \in Partly(u, at[u] + 1)
    BY <2>1, <2>2, <2>5, PatchFurther
  <2>7. \A q \in 1..Blocks : f[q] \subseteq g[q]
    BY <2>5
  <2> QED
    BY <2>1, <2>6, <2>7
<1>7. Holds(u)'
  <2>1. CASE last
    <3>1. At("tmp")' \in Completed(u) /\ pc'[u] = "fsync"
      BY <1>2, <1>6, <2>1, PartlyEnds DEF ProcsTyped
    <3> QED
      BY <3>1 DEF Holds
  <2>2. CASE ~last
    <3>1. pc'[u] = "patch" /\ at'[u] = at[u] + 1
      BY <1>1, <1>2, <2>2 DEF ProcsTyped
    <3> QED
      BY <1>6, <3>1 DEF Holds
  <2> QED
    BY <2>1, <2>2
<1>8. InPlace(u)'
  <2>1. source = "out" => Covers
    BY <1>1 DEF EditsRight, InPlace
  <2>2. source = "out" => Covers'
    BY <1>4, <1>6, <2>1 DEF Covers
  <2>3. pc'[u] \in {"fsync", "patch"}
    BY <1>2 DEF ProcsTyped
  <2> QED
    BY <1>1, <2>2, <2>3 DEF InPlace
<1> QED
  BY <1>4, <1>5, <1>7, <1>8 DEF EditsRight

-----------------------------------------------------------------------------
(* The steps that install or drop the sidecar. *)

\* The patched sidecar is flushed.
LEMMA FsyncEditStep ==
    ASSUME IInv, NEW u \in Updates, FsyncEdit(u)
    PROVE  IInv' /\ UNCHANGED <<Content("out"), OnDisk("out")>>
<1> USE DEF IInv, FsyncEdit, Goto
<1>1. /\ pc[u] = "fsync" /\ Fsync(fd[u])
      /\ fd' = [fd EXCEPT ![u] = NoFile] /\ pc' = [pc EXCEPT ![u] = "rename"]
      /\ UNCHANGED <<source, lock, in, at, commits, result, kills>>
  OBVIOUS
<1>2. fd[u] = dir["tmp"] /\ Exists("tmp") /\ At("tmp") \in Completed(u)
  BY <1>1 DEF EditsRight, Handles, Holds
<1>3. fd[u] \in Inode
  BY <1>2, SidecarAside
<1>4. /\ FilesTyped' /\ UNCHANGED <<dir, disk_dir, data>>
      /\ fd[u] \in clean' /\ clean \subseteq clean'
      /\ UNCHANGED <<Content("out"), OnDisk("out")>> /\ Flushed("out")'
  BY <1>1, <1>3, FsyncKeeps, CommitAssumption DEF OutputIsWhole
<1>5. /\ lock = u
      /\ \A v \in Updates \ {u} :
           pc[v] = "idle" /\ Handles(v)' /\ Holds(v)' /\ InPlace(v)'
  BY <1>1, Alone DEF ProcsTyped
<1>6. ProcsTyped' /\ HolderWorks'
  BY <1>1, <1>5 DEF ProcsTyped, HolderWorks, Pcs
<1>7. NamesApart' /\ SourceStays' /\ OutputIsWhole'
  BY <1>1, <1>4
  DEF NamesApart, SourceStays, OutputIsWhole, Content, Exists, At, Flushed
<1>8. Handles(u)' /\ Holds(u)' /\ InPlace(u)'
  BY <1>1, <1>2, <1>4
  DEF EditsRight, Handles, Holds, InPlace, Covers, Completed, Holding,
      ProcsTyped, Exists, At
<1>9. EditsRight'
  BY <1>5, <1>8 DEF EditsRight
<1>10. SidecarIsOwned' /\ CommittedIsKept'
  BY <1>1, <1>4
  DEF SidecarIsOwned, CommittedIsKept, Editing, ProcsTyped, Exists, At
<1> QED
  BY <1>4, <1>6, <1>7, <1>9, <1>10

\* The rename is the step that installs the patched model, whole and flushed.
LEMMA RenameEditStep ==
    ASSUME IInv, NEW u \in Updates, RenameEdit(u)
    PROVE  /\ IInv' /\ Content("out")' \in Completed(u)
           /\ UNCHANGED OnDisk("out")
<1> USE DEF IInv, RenameEdit, Goto
<1>1. /\ pc[u] = "rename" /\ Exists("tmp") /\ Rename("tmp", "out")
      /\ pc' = [pc EXCEPT ![u] = "dirsync"]
      /\ UNCHANGED <<source, lock, in, fd, at, commits, result, kills>>
  OBVIOUS
<1>2. /\ dir["tmp"] \in clean /\ At("tmp") \in Completed(u) /\ fd[u] = NoFile
      /\ source = "out" => Covers
  BY <1>1 DEF EditsRight, Handles, Holds, InPlace
<1>3. /\ FilesTyped' /\ OneName(dir)' /\ UNCHANGED <<disk_dir, data, clean>>
      /\ dir'["out"] = dir["tmp"] /\ dir'["tmp"] = NoFile
      /\ dir'["model"] = dir["model"]
      /\ Content("out")' = At("tmp") /\ UNCHANGED OnDisk("out")
      /\ Flushed("out")'
  BY <1>1, <1>2, RenameInstalls, CommitAssumption DEF NamesApart, OutputIsWhole
<1>4. /\ lock = u
      /\ \A v \in Updates \ {u} :
           pc[v] = "idle" /\ Handles(v)' /\ Holds(v)' /\ InPlace(v)'
  BY <1>1, Alone DEF ProcsTyped
<1>5. ProcsTyped' /\ HolderWorks'
  BY <1>1, <1>4 DEF ProcsTyped, HolderWorks, Pcs
<1>6. NamesApart' /\ SourceStays'
  BY <1>1, <1>3 DEF NamesApart, SourceStays, Exists, Content, At, Flushed
<1>7. Exists("out")' /\ At("out")' = At("tmp") /\ At("tmp") \in Holding(u)
  BY <1>1, <1>2, <1>3, CompletedHolds DEF Exists, At
<1>8. OutputIsWhole'
  <2>1. At("tmp") \in Whole
    BY <1>2 DEF Whole
  <2> QED
    BY <1>1, <1>3, <1>7, <2>1 DEF OutputIsWhole
<1>9. Handles(u)' /\ Holds(u)' /\ InPlace(u)'
  <2>1. Holding(u)' = Holding(u)
    BY DEF Holding
  <2> QED
    BY <1>1, <1>2, <1>7, <2>1 DEF Handles, Holds, InPlace, ProcsTyped
<1>10. EditsRight'
  BY <1>4, <1>9 DEF EditsRight
<1>11. SidecarIsOwned'
  BY <1>3 DEF SidecarIsOwned, Exists
<1>12. CommittedIsKept'
  <2> SUFFICES ASSUME source = "out", NEW v \in Updates, result[v] = "committed"
               PROVE  At("out")' \in Holding(v)
    BY <1>1 DEF CommittedIsKept, Holding
  <2>1. At("out") \in Holding(v) /\ Covers
    BY <1>2 DEF CommittedIsKept
  <2>2. \A b \in 1..Blocks : v \in At("tmp")[b]
    BY <2>1 DEF Covers, Holding
  <2>3. At("tmp") \in Holding(v)
    BY <1>7, <2>2 DEF Holding
  <2> QED
    BY <1>7, <2>3
<1> QED
  BY <1>2, <1>3, <1>5, <1>6, <1>8, <1>10, <1>11, <1>12

\* What the two steps that flush the directory do to the files.
LEMMA DirFlushed ==
    ASSUME IInv, FsyncDir, UNCHANGED source
    PROVE  /\ FilesTyped' /\ NamesApart' /\ SourceStays' /\ OutputIsWhole'
           /\ UNCHANGED <<dir, data, clean>>
           /\ OnDisk("out")' = Content("out") /\ UNCHANGED Content("out")
<1> USE DEF IInv
<1>1. /\ FilesTyped' /\ UNCHANGED <<dir, data, clean>> /\ disk_dir' = dir
      /\ OnDisk("out")' = Content("out") /\ UNCHANGED Content("out")
      /\ Flushed("out")'
  BY FsyncDirPersists, CommitAssumption DEF OutputIsWhole
<1>2. NamesApart' /\ SourceStays'
  BY <1>1, CommitAssumption
  DEF NamesApart, SourceStays, OneName, Exists, Content, At, Flushed
<1>3. OutputIsWhole'
  BY <1>1 DEF OutputIsWhole, Content, Exists, At
<1> QED
  BY <1>1, <1>2, <1>3

\* The directory is flushed.
LEMMA SyncDirStep ==
    ASSUME IInv, NEW u \in Updates, SyncDir(u)
    PROVE  /\ IInv' /\ UNCHANGED Content("out")
           /\ OnDisk("out")' = Content("out") \/ UNCHANGED OnDisk("out")
<1> USE DEF IInv, SyncDir, Goto
<1>1. /\ pc[u] = "dirsync" /\ pc' = [pc EXCEPT ![u] = "release"]
      /\ result' = [result EXCEPT ![u] = "committed"]
      /\ UNCHANGED <<source, lock, in, fd, at, commits, kills>>
  OBVIOUS
<1>2. /\ FilesTyped' /\ NamesApart' /\ SourceStays' /\ OutputIsWhole'
      /\ UNCHANGED <<dir, data, clean>> /\ UNCHANGED Content("out")
      /\ OnDisk("out")' = Content("out") \/ UNCHANGED OnDisk("out")
  <2>1. CASE FsyncDir
    BY <1>1, <2>1, DirFlushed
  <2>2. CASE UNCHANGED fs
    BY <1>1, <2>2, FilesUnchanged DEF fs, Content, OnDisk, Exists, At
  <2> QED
    BY <2>1, <2>2
<1>3. /\ lock = u
      /\ \A v \in Updates \ {u} :
           pc[v] = "idle" /\ Handles(v)' /\ Holds(v)' /\ InPlace(v)'
  BY <1>1, Alone DEF ProcsTyped
<1>4. ProcsTyped' /\ HolderWorks'
  BY <1>1, <1>3 DEF ProcsTyped, HolderWorks, Pcs
<1>5. Handles(u)' /\ Holds(u)' /\ InPlace(u)'
  BY <1>1 DEF EditsRight, Handles, Holds, InPlace, ProcsTyped
<1>6. EditsRight'
  BY <1>3, <1>5 DEF EditsRight
<1>7. SidecarIsOwned'
  BY <1>1, <1>2, <1>3 DEF SidecarIsOwned, Editing, ProcsTyped, Exists
<1>8. CommittedIsKept'
  BY <1>1, <1>2
  DEF EditsRight, InPlace, CommittedIsKept, Holding, At, ProcsTyped
<1> QED
  BY <1>2, <1>4, <1>6, <1>7, <1>8

\* The sidecar of a failed commit is removed.
LEMMA DiscardStep ==
    ASSUME IInv, NEW u \in Updates, Discard(u)
    PROVE  IInv' /\ UNCHANGED <<Content("out"), OnDisk("out")>>
<1> USE DEF IInv, Discard, Goto, Close
<1>1. /\ pc[u] = "discard" /\ Remove("tmp")
      /\ pc' = [pc EXCEPT ![u] = "release"]
      /\ in' = [in EXCEPT ![u] = NoFile] /\ fd' = [fd EXCEPT ![u] = NoFile]
      /\ at' = [at EXCEPT ![u] = 1]
      /\ result' = [result EXCEPT ![u] = "failed"]
      /\ UNCHANGED <<source, lock, commits, kills>>
  OBVIOUS
<1>2. /\ FilesTyped' /\ OneName(dir)' /\ UNCHANGED <<disk_dir, data, clean>>
      /\ dir'["tmp"] = NoFile
      /\ dir'["out"] = dir["out"] /\ dir'["model"] = dir["model"]
      /\ UNCHANGED <<Content("out"), OnDisk("out")>> /\ Flushed("out")'
  BY <1>1, RemoveAside, CommitAssumption DEF NamesApart, OutputIsWhole
<1>3. /\ lock = u
      /\ \A v \in Updates \ {u} :
           pc[v] = "idle" /\ Handles(v)' /\ Holds(v)' /\ InPlace(v)'
  BY <1>1, Alone DEF ProcsTyped
<1>4. ProcsTyped' /\ HolderWorks'
  BY <1>1, <1>3, CommitAssumption DEF ProcsTyped, HolderWorks, Pcs
<1>5. NamesApart' /\ SourceStays' /\ OutputIsWhole'
  BY <1>1, <1>2
  DEF NamesApart, SourceStays, OutputIsWhole, Content, Exists, At, Flushed
<1>6. Handles(u)' /\ Holds(u)' /\ InPlace(u)'
  BY <1>1 DEF Handles, Holds, InPlace, ProcsTyped
<1>7. EditsRight'
  BY <1>3, <1>6 DEF EditsRight
<1>8. SidecarIsOwned' /\ CommittedIsKept'
  BY <1>1, <1>2 DEF SidecarIsOwned, CommittedIsKept, ProcsTyped, Exists, At
<1> QED
  BY <1>2, <1>4, <1>5, <1>7, <1>8

-----------------------------------------------------------------------------
(* The machine, and the owner of a separate source. *)

\* A power cut kills everyone and leaves what was flushed.
LEMMA PowerCutStep ==
    ASSUME IInv, PowerCut
    PROVE  IInv' /\ Content("out")' = OnDisk("out") /\ UNCHANGED OnDisk("out")
<1> USE DEF IInv, PowerCut
<1>1. /\ Cut /\ lock' = Free
      /\ pc' = [u \in Updates |-> "idle"]
      /\ in' = [u \in Updates |-> NoFile] /\ fd' = [u \in Updates |-> NoFile]
      /\ at' = [u \in Updates |-> 1]
      /\ result' = [u \in Updates |-> "none"]
      /\ kills' = kills + 1 /\ UNCHANGED <<source, commits>>
  OBVIOUS
<1>2. /\ FilesTyped' /\ UNCHANGED disk_dir /\ dir' = disk_dir
      /\ Content("out")' = OnDisk("out") /\ UNCHANGED OnDisk("out")
      /\ Flushed("out")'
  BY <1>1, CutRestores, CommitAssumption DEF OutputIsWhole
<1>3. ProcsTyped' /\ HolderWorks'
  BY <1>1, CommitAssumption DEF ProcsTyped, HolderWorks, Pcs
<1>4. NamesApart' /\ SourceStays'
  <2>1. NamesApart'
    BY <1>1, <1>2, CommitAssumption DEF NamesApart, OneName, Exists
  <2>2. source = "model" =>
          Content("model")' = OnDisk("model") /\ Flushed("model")'
    BY <1>1, CutRestores, CommitAssumption DEF SourceStays
  <2>3. source = "model" => OnDisk("model") = Content("model")
    BY DEF SourceStays, OnDisk, Content, At, Exists, Flushed
  <2> QED
    BY <1>1, <1>2, <2>1, <2>2, <2>3 DEF SourceStays, Exists
<1>5. OutputIsWhole'
  BY <1>1, <1>2 DEF OutputIsWhole, Content, Exists
<1>6. EditsRight'
  BY <1>1 DEF EditsRight, Handles, Holds, InPlace
<1>7. SidecarIsOwned' /\ CommittedIsKept'
  BY <1>1 DEF SidecarIsOwned, CommittedIsKept, ProcsTyped
<1> QED
  BY <1>2, <1>3, <1>4, <1>5, <1>6, <1>7

\* The kernel flushes something of its own accord.
LEMMA KernelWriteBackStep ==
    ASSUME IInv, KernelWriteBack
    PROVE  /\ IInv' /\ UNCHANGED Content("out")
           /\ OnDisk("out")' = Content("out") \/ UNCHANGED OnDisk("out")
<1> USE DEF IInv, KernelWriteBack, procs
<1>1. UNCHANGED <<source, lock, pc, in, fd, at, commits, result, kills>>
  OBVIOUS
<1>2. /\ FilesTyped' /\ NamesApart' /\ SourceStays' /\ OutputIsWhole'
      /\ UNCHANGED <<dir, data>> /\ clean \subseteq clean'
      /\ UNCHANGED Content("out")
      /\ OnDisk("out")' = Content("out") \/ UNCHANGED OnDisk("out")
  <2>1. CASE FsyncDir
    BY <1>1, <2>1, DirFlushed
  <2>2. ASSUME NEW i \in Inode, Fsync(i)
        PROVE  /\ FilesTyped' /\ NamesApart' /\ SourceStays' /\ OutputIsWhole'
               /\ UNCHANGED <<dir, data>> /\ clean \subseteq clean'
               /\ UNCHANGED <<Content("out"), OnDisk("out")>>
    <3>1. /\ FilesTyped' /\ UNCHANGED <<dir, disk_dir, data>>
          /\ clean \subseteq clean'
          /\ UNCHANGED <<Content("out"), OnDisk("out")>> /\ Flushed("out")'
      BY <2>2, FsyncKeeps, CommitAssumption DEF OutputIsWhole
    <3> QED
      BY <1>1, <3>1
      DEF NamesApart, SourceStays, OutputIsWhole, Exists, Content, At, Flushed
  <2> QED
    BY <2>1, <2>2, WriteBackKeeps
<1>3. ProcsTyped' /\ HolderWorks'
  BY <1>1 DEF ProcsTyped, HolderWorks
<1>4. EditsRight'
  <2> SUFFICES ASSUME NEW u \in Updates
               PROVE  Handles(u)' /\ Holds(u)' /\ InPlace(u)'
    BY DEF EditsRight
  <2>1. Handles(u) /\ Holds(u) /\ InPlace(u)
    BY DEF EditsRight
  <2> QED
    BY <1>1, <1>2, <2>1
    DEF Handles, Holds, InPlace, Covers, Completed, Holding, Exists, At
<1>5. SidecarIsOwned' /\ CommittedIsKept'
  BY <1>1, <1>2 DEF SidecarIsOwned, CommittedIsKept, Exists, At
<1> QED
  BY <1>2, <1>3, <1>4, <1>5

\* Whoever rewrites a separate source touches neither the sidecar nor the
\* output.
LEMMA RewriteSourceStep ==
    ASSUME IInv, RewriteSource
    PROVE  IInv' /\ UNCHANGED <<Content("out"), OnDisk("out")>>
<1> USE DEF IInv, RewriteSource, procs
<1>1. /\ source = "model"
      /\ UNCHANGED <<dir, disk_dir, clean, source, lock, pc, in, fd, at,
                     commits, result, kills>>
  OBVIOUS
<1>2. FilesTyped' /\ \A i \in Inode \ {dir["model"]} : data'[i] = data[i]
  <2>1. PICK bytes : data' = [data EXCEPT ![dir["model"]] = bytes]
    BY <1>1
  <2>2. DOMAIN data' = Inode /\ data' = [i \in Inode |-> data'[i]]
    BY <2>1 DEF FilesTyped
  <2> QED
    BY <1>1, <2>1, <2>2 DEF FilesTyped
<1>3. /\ dir["out"] # dir["model"] /\ disk_dir["out"] # dir["model"]
      /\ Exists("tmp") => dir["tmp"] # dir["model"] /\ dir["tmp"] \in Inode
  BY <1>1, CommitAssumption
  DEF NamesApart, SourceStays, OneName, Exists, FilesTyped
<1>4. UNCHANGED <<Content("out"), OnDisk("out")>>
  <2>1. {dir["out"], disk_dir["out"]} \subseteq Inode \cup {NoFile}
    BY CommitAssumption DEF FilesTyped
  <2>2. UNCHANGED Content("out")
    BY <1>1, <1>2, <1>3, <2>1 DEF Content, Exists, At
  <2>3. UNCHANGED OnDisk("out")
    BY <1>1, <1>2, <1>3, <2>1 DEF OnDisk
  <2> QED
    BY <2>2, <2>3
<1>5. ProcsTyped' /\ HolderWorks' /\ NamesApart'
  BY <1>1 DEF ProcsTyped, HolderWorks, NamesApart, Exists
<1>m. SourceStays'
  <2>1. PICK b \in 1..Blocks, block \in {{}, Alien} :
          data' = [data EXCEPT ![dir["model"]][b] = block]
    BY <1>1
  <2>2. /\ data[dir["model"]] \in Models /\ dir["model"] \in DOMAIN data
        /\ block \in SUBSET (Updates \cup Alien)
    BY <1>1, CommitAssumption DEF SourceStays, Content, Exists, At, FilesTyped
  <2>3. data'[dir["model"]] = [data[dir["model"]] EXCEPT ![b] = block]
    BY <2>1, <2>2
  <2>4. data'[dir["model"]] \in Models
    BY <2>2, <2>3 DEF Models
  <2> QED
    BY <1>1, <2>4 DEF SourceStays, Content, Exists, At, Flushed
<1>6. OutputIsWhole'
  BY <1>1, <1>4 DEF OutputIsWhole, Flushed, Content, Exists
<1>7. EditsRight'
  <2> SUFFICES ASSUME NEW u \in Updates
               PROVE  Handles(u)' /\ Holds(u)' /\ InPlace(u)'
    BY DEF EditsRight
  <2>1. Handles(u) /\ Holds(u)
    BY DEF EditsRight
  <2>2. Exists("tmp") => UNCHANGED At("tmp")
    BY <1>1, <1>2, <1>3 DEF At
  <2>3. pc[u] \in {"copy", "verify", "patch", "fsync", "rename"} => Exists("tmp")
    BY <2>1 DEF Handles
  <2>4. source # "out"
    BY <1>1
  <2>5. UNCHANGED <<dir, clean, source, pc, in, fd, at>>
    BY <1>1
  <2>6. Completed(u)' = Completed(u) /\ \A k : Partly(u, k)' = Partly(u, k)
    BY DEF Completed, Partly
  <2> HIDE DEF IInv, RewriteSource
  <2>7. Handles(u)'
    BY <2>1, <2>5 DEF Handles, Exists
  <2>8. Holds(u)'
    BY <2>1, <2>2, <2>3, <2>4, <2>5, <2>6 DEF Holds
  <2>9. InPlace(u)'
    BY <2>4, <2>5 DEF InPlace
  <2> QED
    BY <2>7, <2>8, <2>9
<1>8. SidecarIsOwned' /\ CommittedIsKept'
  BY <1>1 DEF SidecarIsOwned, CommittedIsKept, Exists
<1> QED
  BY <1>2, <1>4, <1>5, <1>m, <1>6, <1>7, <1>8

-----------------------------------------------------------------------------
(* The theorems. *)

\* The files there are before any update ran.
LEMMA IInvInit == Init => IInv
<1> SUFFICES ASSUME Init PROVE IInv
  OBVIOUS
<1> USE CommitAssumption, InodeAssumption DEF Init
<1>1. 1 \in Inode /\ 1 # NoFile
  BY DEF Inode
<1>2. FilesTyped
  BY <1>1 DEF FilesTyped, Inode
<1>3. ProcsTyped /\ HolderWorks
  BY <1>1 DEF ProcsTyped, HolderWorks, Pcs
<1>4. NamesApart /\ SourceStays
  <2>1. Pristine \in Models
    BY WholeIsModel DEF Whole
  <2> QED
    BY <1>1, <2>1
    DEF NamesApart, SourceStays, OneName, Exists, Content, At, Flushed, Inode
<1>5. EditsRight
  BY DEF EditsRight, Handles, Holds, InPlace
<1>6. OutputIsWhole
  BY <1>1 DEF OutputIsWhole, Flushed, OnDisk, Whole, Exists, At, Inode
<1>7. SidecarIsOwned /\ CommittedIsKept
  BY DEF SidecarIsOwned, CommittedIsKept, Exists
<1> QED
  BY <1>2, <1>3, <1>4, <1>5, <1>6, <1>7 DEF IInv

\* What a step of the updates, of the machine or of the owner of the source
\* does to the output file, as AtomicFile sees it.
LEMMA IInvStep ==
    ASSUME IInv, [Next]_vars
    PROVE  /\ IInv'
           /\ \/ \E u \in Updates : Content("out")' \in Completed(u)
                                    /\ UNCHANGED OnDisk("out")
              \/ OnDisk("out")' = Content("out") /\ UNCHANGED Content("out")
              \/ Content("out")' = OnDisk("out") /\ UNCHANGED OnDisk("out")
              \/ UNCHANGED <<Content("out"), OnDisk("out")>>
<1>q. ASSUME UNCHANGED fs PROVE UNCHANGED <<Content("out"), OnDisk("out")>>
  BY <1>q DEF fs, Content, OnDisk, Exists, At
<1>1. ASSUME NEW u \in Updates, Acquire(u)
      PROVE  IInv' /\ UNCHANGED <<Content("out"), OnDisk("out")>>
  BY <1>1, <1>q, AcquireStep DEF Acquire
<1>2. ASSUME NEW u \in Updates, Begin(u)
      PROVE  IInv' /\ UNCHANGED <<Content("out"), OnDisk("out")>>
  BY <1>2, BeginStep
<1>3. ASSUME NEW u \in Updates, Copy(u)
      PROVE  IInv' /\ UNCHANGED <<Content("out"), OnDisk("out")>>
  BY <1>3, CopyStep
<1>4. ASSUME NEW u \in Updates, Verify(u)
      PROVE  IInv' /\ UNCHANGED <<Content("out"), OnDisk("out")>>
  BY <1>4, <1>q, VerifyStep DEF Verify
<1>5. ASSUME NEW u \in Updates, Patch(u)
      PROVE  IInv' /\ UNCHANGED <<Content("out"), OnDisk("out")>>
  BY <1>5, PatchStep
<1>6. ASSUME NEW u \in Updates, FsyncEdit(u)
      PROVE  IInv' /\ UNCHANGED <<Content("out"), OnDisk("out")>>
  BY <1>6, FsyncEditStep
<1>7. ASSUME NEW u \in Updates, RenameEdit(u)
      PROVE  /\ IInv' /\ Content("out")' \in Completed(u)
             /\ UNCHANGED OnDisk("out")
  BY <1>7, RenameEditStep
<1>8. ASSUME NEW u \in Updates, SyncDir(u)
      PROVE  /\ IInv' /\ UNCHANGED Content("out")
             /\ OnDisk("out")' = Content("out") \/ UNCHANGED OnDisk("out")
  BY <1>8, SyncDirStep
<1>9. ASSUME NEW u \in Updates, Fail(u)
      PROVE  IInv' /\ UNCHANGED <<Content("out"), OnDisk("out")>>
  BY <1>9, <1>q, FailStep DEF Fail
<1>10. ASSUME NEW u \in Updates, Discard(u)
       PROVE  IInv' /\ UNCHANGED <<Content("out"), OnDisk("out")>>
  BY <1>10, DiscardStep
<1>11. ASSUME NEW u \in Updates, Release(u)
       PROVE  IInv' /\ UNCHANGED <<Content("out"), OnDisk("out")>>
  BY <1>11, <1>q, ReleaseStep DEF Release
<1>12. ASSUME NEW u \in Updates, Kill(u)
       PROVE  IInv' /\ UNCHANGED <<Content("out"), OnDisk("out")>>
  BY <1>12, <1>q, KillStep DEF Kill
<1>13. CASE PowerCut
  BY <1>13, PowerCutStep
<1>14. CASE KernelWriteBack
  BY <1>14, KernelWriteBackStep
<1>15. CASE RewriteSource
  BY <1>15, RewriteSourceStep
<1>16. CASE UNCHANGED vars
  <2>1. /\ UNCHANGED fs
        /\ UNCHANGED <<source, lock, pc, in, fd, at, commits, result, kills>>
    BY <1>16 DEF vars, procs
  <2>2. /\ FilesTyped' /\ NamesApart' /\ SourceStays' /\ OutputIsWhole'
        /\ UNCHANGED <<dir, disk_dir, clean>>
        /\ \A n \in Names : Exists(n)' = Exists(n) /\ At(n)' = At(n)
    BY <2>1, FilesUnchanged
  <2>3. ProcsTyped' /\ HolderWorks'
    BY <2>1 DEF IInv, ProcsTyped, HolderWorks
  <2>4. EditsRight'
    BY <2>1, <2>2, CommitAssumption
    DEF IInv, EditsRight, Handles, Holds, InPlace, Covers, ProcsTyped
  <2>5. SidecarIsOwned' /\ CommittedIsKept'
    BY <2>1, <2>2, CommitAssumption DEF IInv, SidecarIsOwned, CommittedIsKept
  <2> QED
    BY <1>q, <2>1, <2>2, <2>3, <2>4, <2>5 DEF IInv
<1> QED
  BY <1>1, <1>2, <1>3, <1>4, <1>5, <1>6, <1>7, <1>8, <1>9, <1>10, <1>11,
     <1>12, <1>13, <1>14, <1>15, <1>16
  DEF Next, CommitToModel

\* The conjunction of the invariants above holds however commits, kills, power
\* cuts and rewrites of the source interleave.
THEOREM InductiveInvariant == Spec => []IInv
<1>1. Init => IInv
  BY IInvInit
<1>2. IInv /\ [Next]_vars => IInv'
  BY IInvStep
<1> QED
  BY <1>1, <1>2, PTL DEF Spec

\* A process that edits has the fixed-name sidecar to itself, however many
\* processes commit and wherever they fail or are killed
\* (durable_io.cc:266-346).
THEOREM SidecarHasOneEditor == Spec => []SidecarIsItsEditors
<1>1. IInv => SidecarIsItsEditors
  BY DEF IInv, HolderWorks, EditsRight, Handles, SidecarIsItsEditors, Editing
<1> QED
  BY <1>1, InductiveInvariant, PTL

\* A commit that returned left no sidecar (durable_io.h:84-85).
THEOREM NothingIsLeftBehind == Spec => []NoSidecarLeft
<1>1. IInv => NoSidecarLeft
  BY CommitAssumption
  DEF IInv, HolderWorks, SidecarIsOwned, NoSidecarLeft, Editing
<1> QED
  BY <1>1, InductiveInvariant, PTL

\* Of updates that commit in place, every one told that it committed is in every
\* block of the file (update_engine.cc:1179-1182).
THEOREM NoUpdateIsLost == Spec => []CommittedIsKept
BY InductiveInvariant, PTL DEF IInv

\* The output file, for its readers and for a power cut, goes from one complete
\* model to the next in a single step: Commit implements AtomicFile.
THEOREM CommitIsAtomic == Spec => ImplementsAtomicFile
<1>1. Init => Output!Init
  BY CommitAssumption, InodeAssumption
  DEF Init, Output!Init, OnDisk, Exists, At
<1>2. IInv /\ [Next]_vars => [Output!Next]_(Output!vars)
  BY IInvStep
  DEF Output!Next, Output!Install, Output!Persist, Output!PowerCut,
      Output!vars, Content
<1> QED
  BY <1>1, <1>2, InductiveInvariant, PTL
  DEF Spec, ImplementsAtomicFile, Output!Spec
=============================================================================
