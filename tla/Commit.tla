------------------------------- MODULE Commit -------------------------------
(***************************************************************************)
(* UpdateEngine::CommitToModel (runtime/dispatcher/update_engine.cc) over  *)
(* CommitLock and DurableFileEdit (runtime/storage/durable_io.cc): several *)
(* update processes commit to one output file, from a separate source      *)
(* model or in place.  Copying the source, checking the copy, patching it  *)
(* and installing it are steps others interleave with, a block at a time;  *)
(* each may fail.  A process may be killed anywhere, the power may be cut, *)
(* and somebody else may rewrite a separate source at any time.            *)
(*                                                                         *)
(* A block of a model holds the set of updates added to it; Alien is a     *)
(* block of another model.  A plan compiled from a model in memory carries *)
(* no hash of its source, and its update patches whatever it is given.     *)
(* Every engine has run its merge.                                         *)
(***************************************************************************)
EXTENDS FileSystem

CONSTANTS
    Updates,    \* update processes; each commits a delta of its own
    Hashed,     \* the updates whose plan carries a hash of its source
    Blocks,     \* blocks of the model; each has a delta
    MaxCommits, \* bound: commits started in all
    MaxKills,   \* bound: kills and power cuts
    Free        \* the lock nobody holds

ASSUME CommitAssumption ==
    /\ Names = {"out", "tmp", "model"} /\ Hashed \subseteq Updates
    /\ Blocks \in Nat \ {0} /\ MaxCommits \in Nat /\ MaxKills \in Nat
    /\ Free \notin Updates

VARIABLES
    source,  \* the file the updates patch: "model", or "out" itself
    lock,    \* the process whose handle holds the flock of out.lock
    pc,      \* where a process stands
    in, fd,  \* the inodes it reads and edits
    at,      \* the next block to copy or patch
    commits, \* commits started so far
    result,  \* history: what its last commit returned
    kills    \* kills and power cuts so far

procs == <<lock, pc, in, fd, at, commits, result>>
vars == <<fs, source, procs, kills>>

Pristine == [b \in 1..Blocks |-> {}]
Alien == {"alien"}
Models == [1..Blocks -> SUBSET (Updates \cup Alien)]

\* The models with the delta of u in every block, and which of them u may
\* install: the plan's own, or any when its plan has no hash.
Holding(u) == {f \in Models : \A b \in 1..Blocks : u \in f[b]}
Patched(u) == [b \in 1..Blocks |-> {u}]
Completed(u) == IF u \in Hashed THEN {Patched(u)} ELSE Holding(u)

\* The files there are before any update ran.
Init ==
    /\ source \in {"out", "model"}
    /\ dir = [n \in Names |-> IF n = source THEN 1 ELSE NoFile]
    /\ disk_dir = dir
    /\ data = [i \in 1..Inodes |-> IF i = 1 THEN Pristine ELSE <<>>]
    /\ clean = 1..Inodes
    /\ lock = Free
    /\ pc = [u \in Updates |-> "idle"]
    /\ in = [u \in Updates |-> NoFile] /\ fd = in
    /\ at = [u \in Updates |-> 1]
    /\ commits = 0
    /\ result = [u \in Updates |-> "none"]
    /\ kills = 0

Open == {in[u] : u \in Updates} \cup {fd[u] : u \in Updates}

Goto(u, next) == pc' = [pc EXCEPT ![u] = next]

Close(u) ==
    /\ in' = [in EXCEPT ![u] = NoFile]
    /\ fd' = [fd EXCEPT ![u] = NoFile]
    /\ at' = [at EXCEPT ![u] = 1]

(***************************************************************************)
(* CommitLock::Acquire.  A lock that is held is refused, never waited for. *)
(***************************************************************************)

\* Mutant: the commit goes on without the lock.
Acquire_Unlocked(u) ==
    /\ pc[u] = "idle" /\ commits < MaxCommits
    /\ commits' = commits + 1
    /\ Goto(u, "begin")
    /\ UNCHANGED <<fs, source, lock, in, fd, at, result, kills>>

Acquire(u) ==
    /\ pc[u] = "idle" /\ commits < MaxCommits
    /\ commits' = commits + 1
    /\ IF lock = Free
         THEN lock' = u /\ Goto(u, "begin") /\ UNCHANGED result
         ELSE /\ result' = [result EXCEPT ![u] = "refused"]
              /\ UNCHANGED <<lock, pc>>
    /\ UNCHANGED <<fs, source, in, fd, at, kills>>

(***************************************************************************)
(* DurableFileEdit::Begin.                                                 *)
(***************************************************************************)

Begin(u) ==
    LET i == InodeToTruncate("tmp", Open) IN
    /\ pc[u] = "begin" /\ Exists(source) /\ CanTruncate("tmp", Open)
    /\ Truncate("tmp", i)
    /\ in' = [in EXCEPT ![u] = dir[source]]
    /\ fd' = [fd EXCEPT ![u] = i]
    /\ at' = [at EXCEPT ![u] = 1]
    /\ Goto(u, "copy")
    /\ UNCHANGED <<source, lock, commits, result, kills>>

Copy(u) ==
    /\ pc[u] = "copy"
    /\ WriteBlock(fd[u], at[u], data[in[u]][at[u]])
    /\ IF at[u] = Blocks
         THEN /\ Goto(u, "verify")
              /\ at' = [at EXCEPT ![u] = 1]
              /\ in' = [in EXCEPT ![u] = NoFile]
         ELSE at' = [at EXCEPT ![u] = @ + 1] /\ UNCHANGED <<pc, in>>
    /\ UNCHANGED <<source, lock, fd, commits, result, kills>>

(***************************************************************************)
(* The identity check, on the sidecar, if the plan carries a hash.         *)
(***************************************************************************)

\* Mutant: the source is hashed, not the copy of it.
Verify_Source(u) ==
    /\ pc[u] = "verify"
    /\ Goto(u, IF u \in Hashed => Exists(source) /\ At(source) = Pristine
                 THEN "patch" ELSE "discard")
    /\ UNCHANGED <<fs, source, lock, in, fd, at, commits, result, kills>>

Verify(u) ==
    /\ pc[u] = "verify" /\ Exists("tmp")
    /\ Goto(u, IF u \in Hashed => At("tmp") = Pristine
                 THEN "patch" ELSE "discard")
    /\ UNCHANGED <<fs, source, lock, in, fd, at, commits, result, kills>>

\* ReadAt, add the delta, WriteAt.  A short read fails.
Patch(u) ==
    /\ pc[u] = "patch" /\ at[u] <= Len(data[fd[u]])
    /\ WriteBlock(fd[u], at[u], data[fd[u]][at[u]] \cup {u})
    /\ IF at[u] = Blocks
         THEN Goto(u, "fsync") /\ at' = [at EXCEPT ![u] = 1]
         ELSE at' = [at EXCEPT ![u] = @ + 1] /\ UNCHANGED pc
    /\ UNCHANGED <<source, lock, in, fd, commits, result, kills>>

(***************************************************************************)
(* DurableFileEdit::Commit.                                                *)
(***************************************************************************)

FsyncEdit(u) ==
    /\ pc[u] = "fsync"
    /\ Fsync(fd[u])
    /\ fd' = [fd EXCEPT ![u] = NoFile]
    /\ Goto(u, "rename")
    /\ UNCHANGED <<source, lock, in, at, commits, result, kills>>

RenameEdit(u) ==
    /\ pc[u] = "rename" /\ Exists("tmp")
    /\ Rename("tmp", "out")
    /\ Goto(u, "dirsync")
    /\ UNCHANGED <<source, lock, in, fd, at, commits, result, kills>>

SyncDir(u) ==
    /\ pc[u] = "dirsync"
    /\ FsyncDir \/ UNCHANGED fs
    /\ Goto(u, "release")
    /\ result' = [result EXCEPT ![u] = "committed"]
    /\ UNCHANGED <<source, lock, in, fd, at, commits, kills>>

(***************************************************************************)
(* The ways out: the edit is destroyed first, the lock after it.           *)
(***************************************************************************)

Fail(u) ==
    /\ pc[u] \in {"begin", "copy", "verify", "patch", "fsync", "rename"}
    /\ Goto(u, "discard")
    /\ UNCHANGED <<fs, source, lock, in, fd, at, commits, result, kills>>

\* Mutant: the lock is destroyed before the edit.
Discard_Unlocked(u) ==
    /\ pc[u] = "discard"
    /\ \/ lock = u /\ lock' = Free
          /\ UNCHANGED <<fs, pc, in, fd, at, result>>
       \/ /\ lock # u
          /\ Remove("tmp")
          /\ Close(u)
          /\ result' = [result EXCEPT ![u] = "failed"]
          /\ Goto(u, "idle")
          /\ UNCHANGED lock
    /\ UNCHANGED <<source, commits, kills>>

\* Mutant: an edit that failed keeps its sidecar.
Discard_Keep(u) ==
    /\ pc[u] = "discard"
    /\ Close(u)
    /\ result' = [result EXCEPT ![u] = "failed"]
    /\ Goto(u, "release")
    /\ UNCHANGED <<fs, source, lock, commits, kills>>

Discard(u) ==
    /\ pc[u] = "discard"
    /\ Remove("tmp")
    /\ Close(u)
    /\ result' = [result EXCEPT ![u] = "failed"]
    /\ Goto(u, "release")
    /\ UNCHANGED <<source, lock, commits, kills>>

Release(u) ==
    /\ pc[u] = "release"
    /\ lock' = Free
    /\ Goto(u, "idle")
    /\ UNCHANGED <<fs, source, in, fd, at, commits, result, kills>>

CommitToModel(u) ==
    \/ Acquire(u) \/ Begin(u) \/ Copy(u) \/ Verify(u) \/ Patch(u)
    \/ FsyncEdit(u) \/ RenameEdit(u) \/ SyncDir(u)
    \/ Fail(u) \/ Discard(u) \/ Release(u)

(***************************************************************************)
(* The machine, and whoever owns a separate source model.                  *)
(***************************************************************************)

\* The handle of a dead process is closed, and its flock with it.
Kill(u) ==
    /\ pc[u] # "idle" /\ kills < MaxKills
    /\ lock' = IF lock = u THEN Free ELSE lock
    /\ Close(u)
    /\ result' = [result EXCEPT ![u] = "killed"]
    /\ kills' = kills + 1
    /\ Goto(u, "idle")
    /\ UNCHANGED <<fs, source, commits>>

PowerCut ==
    /\ kills < MaxKills
    /\ Cut
    /\ lock' = Free
    /\ pc' = [u \in Updates |-> "idle"]
    /\ in' = [u \in Updates |-> NoFile] /\ fd' = in'
    /\ at' = [u \in Updates |-> 1]
    /\ result' = [u \in Updates |-> "none"]
    /\ kills' = kills + 1
    /\ UNCHANGED <<source, commits>>

KernelWriteBack == WriteBack /\ UNCHANGED <<source, procs, kills>>

\* Its owner's durability is not the updates' concern.
RewriteSource ==
    /\ source = "model"
    /\ \E b \in 1..Blocks, block \in {{}, Alien} :
        data' = [data EXCEPT ![dir[source]][b] = block]
    /\ UNCHANGED <<dir, disk_dir, clean, source, procs, kills>>

Next ==
    \/ \E u \in Updates : CommitToModel(u) \/ Kill(u)
    \/ PowerCut \/ KernelWriteBack \/ RewriteSource

Spec == Init /\ [][Next]_vars

(***************************************************************************)
(* Properties.                                                             *)
(***************************************************************************)

Editing == {"copy", "verify", "patch", "fsync", "rename"}

\* A process that edits has the sidecar to itself: out.tmp, whose name is
\* fixed, is the file it opened until it installs or removes it, whoever else
\* starts, fails, is refused or is killed (durable_io.cc:266-346,
\* update_engine.cc:1179-1191).
SidecarIsItsEditors ==
    \A u \in Updates :
        pc[u] \in Editing =>
            /\ Exists("tmp")
            /\ fd[u] # NoFile => dir["tmp"] = fd[u]
            /\ \A v \in Updates \ {u} : pc[v] \notin Editing

\* "The destination is either its old self or the fully patched file, never a
\* mixture" (durable_io.h:84-87), for those who read it now and after a power
\* cut.  What a plan with a hash patches is the model it was compiled from even
\* when the source changes during the copy.
Output == INSTANCE AtomicFile WITH
    Initial <- {<<>>, Pristine},
    Complete <- UNION {Completed(u) : u \in Updates},
    file <- IF Exists("out") THEN At("out") ELSE <<>>,
    disk <- OnDisk("out")

ImplementsAtomicFile == Output!Spec

\* No work silently disappears: of updates that commit in place, every one that
\* was told it committed is in every block of the file, whoever commits after
\* it, on top of it when the plan has no hash (durable_io.h:55-57,
\* update_engine.cc:1179-1182).
CommittedIsKept ==
    source = "out" =>
        \A u \in Updates : result[u] = "committed" => At("out") \in Holding(u)

\* A commit that returns, committed, refused or failed, leaves no sidecar
\* behind; only a kill or a power cut does (durable_io.h:84-85).
NoSidecarLeft == kills = 0 /\ lock = Free => ~Exists("tmp")
=============================================================================
