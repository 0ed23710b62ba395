------------------------ MODULE CheckpointFileProofs ------------------------
(***************************************************************************)
(* Proofs about CheckpointFile: the checkpoint is replaced atomically by   *)
(* any number of writers, a load never meets half a record, and a save     *)
(* whose directory was flushed survives every later power cut.             *)
(***************************************************************************)
EXTENDS CheckpointFile, FileSystemProofs

Writing == {"headers", "payload", "fsync"}

StateTyped ==
    /\ pc \in [Writers -> Writing \cup {"idle", "rename", "dirsync"}]
    /\ fd \in [Writers -> Inode \cup {NoFile}]
    /\ saves \in [Writers -> 0..MaxSaves]
    /\ order \in Seq(Records)
    /\ acked \in 0..Len(order)
    /\ cuts \in Nat

\* The directory names each inode once, now and after a power cut, and no
\* sidecar is the file a power cut would bring back as the checkpoint.
NamesApart ==
    /\ OneName(dir) /\ OneName(disk_dir)
    /\ \A w \in Writers : Exists(w) => dir[w] # disk_dir["ckpt"]

\* What a writer has open, and what its sidecar holds by then.
Handles(w) ==
    /\ pc[w] \in Writing => Exists(w) /\ fd[w] = dir[w]
    /\ pc[w] = "rename" => Exists(w) /\ dir[w] \in clean
    /\ pc[w] \notin Writing => fd[w] = NoFile

Holds(w) ==
    /\ pc[w] # "idle" => saves[w] \in 1..MaxSaves
    /\ pc[w] = "headers" => At(w) = <<>>
    /\ pc[w] = "payload" => At(w) = <<Record(w, saves[w])[1]>>
    /\ pc[w] \in {"fsync", "rename"} => At(w) = Record(w, saves[w])

WritersWrite == \A w \in Writers : Handles(w) /\ Holds(w)

\* The checkpoint is a whole record and on disk, now and after a power cut.
CheckpointIsWhole ==
    /\ Flushed("ckpt")
    /\ Exists("ckpt") => At("ckpt") \in Records
    /\ disk_dir["ckpt"] # NoFile => OnDisk("ckpt") \in Records

\* The file a load has open is a whole record nobody writes to, whatever name
\* it has by now, and the headers that were read are its own.
LoadIsWhole ==
    /\ reader.result # "corrupt"
    /\ reader.at = "payload" =>
         /\ reader.inode \in Inode
         /\ data[reader.inode] \in Records
         /\ reader.headers = data[reader.inode][1]
         /\ \A w \in Writers : dir[w] # reader.inode

\* What processes see is as recent as what was acknowledged, and is the last
\* record installed while a writer is about to flush the directory.
SeenSurvives ==
    /\ acked > 0 => \E k \in acked..Len(order) : Content("ckpt") = order[k]
    /\ \A w \in Writers :
         pc[w] = "dirsync" =>
           Len(order) > 0 /\ Content("ckpt") = order[Len(order)]

IInv ==
    /\ FilesTyped /\ StateTyped /\ NamesApart /\ WritersWrite
    /\ CheckpointIsWhole /\ LoadIsWhole /\ SeenSurvives /\ SavedSurvives

-----------------------------------------------------------------------------
(* What the steps have in common. *)

\* The checkpoint and the sidecars are names, and no sidecar is the checkpoint.
LEMMA NamesOf ==
    /\ "ckpt" \in Names /\ Writers \subseteq Names
    /\ \A w \in Writers : w # "ckpt"
BY WritersAssumption

\* A step of one writer that leaves the sidecars of the others alone leaves the
\* others alone.
LEMMA OthersKept ==
    ASSUME WritersWrite, NEW w \in Writers,
           \A v \in Writers \ {w} :
             /\ pc'[v] = pc[v] /\ fd'[v] = fd[v] /\ saves'[v] = saves[v]
             /\ dir'[v] = dir[v]
             /\ Exists(v) => /\ data'[dir[v]] = data[dir[v]]
                             /\ dir[v] \in clean => dir[v] \in clean'
    PROVE  \A v \in Writers \ {w} : Handles(v)' /\ Holds(v)'
<1> SUFFICES ASSUME NEW v \in Writers \ {w}
             PROVE  Handles(v)' /\ Holds(v)'
  OBVIOUS
<1>1. Handles(v) /\ Holds(v)
  BY DEF WritersWrite
<1> QED
  BY <1>1 DEF Handles, Holds, Writing, Exists, At

\* A load is left alone by whoever leaves the file it has open alone.
LEMMA LoadKept ==
    ASSUME LoadIsWhole, UNCHANGED reader,
           reader.at = "payload" =>
             /\ data'[reader.inode] = data[reader.inode]
             /\ \A w \in Writers : dir'[w] # reader.inode
    PROVE  LoadIsWhole'
BY DEF LoadIsWhole

\* The checkpoint and its history are left alone by who leaves its content and
\* the history alone and installs nothing.
LEMMA CheckpointKept ==
    ASSUME CheckpointIsWhole, SeenSurvives, SavedSurvives,
           dir'["ckpt"] = dir["ckpt"], UNCHANGED disk_dir, Flushed("ckpt")',
           UNCHANGED <<Content("ckpt"), OnDisk("ckpt"), order, acked>>,
           \A w \in Writers : pc'[w] = "dirsync" => pc[w] = "dirsync"
    PROVE  CheckpointIsWhole' /\ SeenSurvives' /\ SavedSurvives'
<1>1. CheckpointIsWhole'
  BY DEF CheckpointIsWhole, Content, Exists
<1>2. SeenSurvives' /\ SavedSurvives'
  BY DEF SeenSurvives, SavedSurvives
<1> QED
  BY <1>1, <1>2

-----------------------------------------------------------------------------
(* The steps of a writer. *)

\* A writer opens its sidecar (durable_io.cc:55-61).
LEMMA OpenTmpStep ==
    ASSUME IInv, NEW w \in Writers, OpenTmp(w)
    PROVE  IInv' /\ UNCHANGED <<Content("ckpt"), OnDisk("ckpt")>>
<1> DEFINE i == InodeToTruncate(w, Open)
<1> HIDE DEF i
<1> USE DEF IInv
<1>1. /\ pc[w] = "idle" /\ saves[w] < MaxSaves /\ CanTruncate(w, Open)
      /\ Truncate(w, i)
      /\ fd' = [fd EXCEPT ![w] = i] /\ saves' = [saves EXCEPT ![w] = @ + 1]
      /\ pc' = [pc EXCEPT ![w] = "headers"]
      /\ UNCHANGED <<order, acked, reader, cuts>>
  BY DEF OpenTmp, UniqueTmpPath, i
<1>2. /\ FilesTyped' /\ OneName(dir)'
      /\ dir'[w] = i /\ i \in Inode /\ data'[i] = <<>>
      /\ UNCHANGED disk_dir
      /\ \A m \in Names \ {w} : dir'[m] = dir[m]
      /\ \A j \in Inode \ {i} : data'[j] = data[j]
      /\ \A j \in Inode \ {i} : j \in clean' <=> j \in clean
      /\ disk_dir["ckpt"] # i
      /\ UNCHANGED <<Content("ckpt"), OnDisk("ckpt")>> /\ Flushed("ckpt")'
  BY <1>1, NamesOf, TruncateAside DEF NamesApart, CheckpointIsWhole, i
<1>3. i # NoFile
  BY <1>2, InodeAssumption DEF Inode
<1>4. \A v \in Names \ {w} : dir[v] # i
  BY <1>2, <1>3, NamesOf DEF OneName
<1>5. reader.at = "payload" => reader.inode # i
  <2>1. CASE Exists(w)
    BY <1>1, <2>1, NamesOf, TruncatedInode DEF LoadIsWhole, i
  <2>2. CASE ~Exists(w)
    BY <1>1, <2>2, NamesOf, TruncatedInode DEF Open, i
  <2> QED
    BY <2>1, <2>2
<1>6. StateTyped'
  BY <1>1, <1>2, WritersAssumption DEF StateTyped, Writing
<1>7. NamesApart'
  BY <1>2, NamesOf DEF NamesApart, Exists
<1>8. Handles(w)' /\ Holds(w)'
  BY <1>1, <1>2, <1>3, WritersAssumption
  DEF Handles, Holds, StateTyped, Writing, Exists, At
<1>9. WritersWrite'
  <2>1. \A v \in Writers \ {w} :
          /\ pc'[v] = pc[v] /\ fd'[v] = fd[v] /\ saves'[v] = saves[v]
          /\ dir'[v] = dir[v]
          /\ Exists(v) => /\ data'[dir[v]] = data[dir[v]]
                          /\ dir[v] \in clean => dir[v] \in clean'
    BY <1>1, <1>2, <1>4, NamesOf DEF StateTyped, FilesTyped, Exists
  <2> QED
    BY <1>8, <2>1, OthersKept DEF WritersWrite
<1>10. LoadIsWhole'
  BY <1>1, <1>2, <1>5, NamesOf, LoadKept DEF LoadIsWhole
<1>11. CheckpointIsWhole' /\ SeenSurvives' /\ SavedSurvives'
  BY <1>1, <1>2, NamesOf, CheckpointKept DEF StateTyped
<1> QED
  BY <1>2, <1>6, <1>7, <1>9, <1>10, <1>11

\* A block written to a sidecar disturbs neither the other sidecars nor the
\* checkpoint nor the file a load has open.
LEMMA SidecarWrite ==
    ASSUME IInv, NEW w \in Writers, pc[w] \in {"headers", "payload"},
           NEW b, NEW block, WriteBlock(fd[w], b, block),
           NEW next \in Writing, pc' = [pc EXCEPT ![w] = next],
           UNCHANGED <<fd, saves, order, acked, reader, cuts>>
    PROVE  /\ FilesTyped' /\ StateTyped' /\ NamesApart' /\ LoadIsWhole'
           /\ CheckpointIsWhole' /\ SeenSurvives' /\ SavedSurvives'
           /\ fd[w] = dir[w] /\ fd[w] \in Inode /\ Exists(w)
           /\ UNCHANGED <<dir, disk_dir>>
           /\ UNCHANGED <<Content("ckpt"), OnDisk("ckpt")>>
           /\ \A v \in Writers \ {w} : Handles(v)' /\ Holds(v)'
<1> USE DEF IInv
<1>1. fd[w] = dir[w] /\ Exists(w)
  BY DEF WritersWrite, Handles, Writing
<1>2. fd[w] \in Inode /\ Aside(fd[w], "ckpt")
  BY <1>1, NamesOf DEF FilesTyped, NamesApart, OneName, Exists, Aside
<1>3. /\ FilesTyped' /\ UNCHANGED <<dir, disk_dir>>
      /\ \A j \in Inode \ {fd[w]} : data'[j] = data[j]
      /\ \A j \in Inode \ {fd[w]} : j \in clean' <=> j \in clean
      /\ UNCHANGED <<Content("ckpt"), OnDisk("ckpt")>> /\ Flushed("ckpt")'
  BY <1>2, WriteAside, NamesOf DEF CheckpointIsWhole
<1>4. StateTyped'
  BY DEF StateTyped
<1>5. NamesApart'
  BY <1>3 DEF NamesApart, Exists
<1>6. LoadIsWhole'
  BY <1>1, <1>3, LoadKept DEF LoadIsWhole
<1>7. CheckpointIsWhole' /\ SeenSurvives' /\ SavedSurvives'
  BY <1>3, CheckpointKept DEF StateTyped, Writing
<1>8. \A v \in Writers \ {w} : Handles(v)' /\ Holds(v)'
  <2>1. \A v \in Writers \ {w} : Exists(v) => dir[v] \in Inode \ {fd[w]}
    BY <1>1, NamesOf DEF NamesApart, OneName, FilesTyped, Exists
  <2>2. \A v \in Writers \ {w} :
          /\ pc'[v] = pc[v] /\ fd'[v] = fd[v] /\ saves'[v] = saves[v]
          /\ dir'[v] = dir[v]
          /\ Exists(v) => /\ data'[dir[v]] = data[dir[v]]
                          /\ dir[v] \in clean => dir[v] \in clean'
    BY <1>3, <2>1 DEF StateTyped
  <2> QED
    BY <2>2, OthersKept
<1> QED
  BY <1>1, <1>2, <1>3, <1>4, <1>5, <1>6, <1>7, <1>8

\* It writes the headers.
LEMMA WriteHeadersStep ==
    ASSUME IInv, NEW w \in Writers, WriteHeaders(w)
    PROVE  IInv' /\ UNCHANGED <<Content("ckpt"), OnDisk("ckpt")>>
<1> DEFINE block == Record(w, saves[w])[1]
<1>1. /\ pc[w] = "headers" /\ WriteBlock(fd[w], 1, block)
      /\ pc' = [pc EXCEPT ![w] = "payload"]
      /\ UNCHANGED <<fd, saves, order, acked, reader, cuts>>
  BY DEF WriteHeaders
<1> HIDE DEF block
<1>2. /\ FilesTyped' /\ StateTyped' /\ NamesApart' /\ LoadIsWhole'
      /\ CheckpointIsWhole' /\ SeenSurvives' /\ SavedSurvives'
      /\ fd[w] = dir[w] /\ fd[w] \in Inode /\ Exists(w)
      /\ UNCHANGED <<dir, disk_dir>>
      /\ UNCHANGED <<Content("ckpt"), OnDisk("ckpt")>>
      /\ \A v \in Writers \ {w} : Handles(v)' /\ Holds(v)'
  BY <1>1, SidecarWrite DEF Writing
<1>3. Handles(w)'
  BY <1>1, <1>2 DEF IInv, StateTyped, Handles, Writing, Exists
<1>4. At(w)' = <<block>>
  <2>1. FilesTyped /\ data[fd[w]] = <<>>
    BY <1>1, <1>2 DEF IInv, WritersWrite, Holds, At
  <2>2. /\ FilesTyped /\ fd[w] \in Inode /\ WriteBlock(fd[w], 1, block)
        /\ 0 \in Nat /\ 1 = 0 + 1 /\ Sized(data[fd[w]], 0)
    BY <1>1, <1>2, <2>1 DEF Sized
  <2>3. Sized(data'[fd[w]], 1) /\ data'[fd[w]][1] = block
    BY <2>2, Extend
  <2> QED
    BY <1>2, <2>3 DEF At, Sized
<1>5. Holds(w)'
  BY <1>1, <1>2, <1>4 DEF IInv, StateTyped, WritersWrite, Holds, block
<1> QED
  BY <1>2, <1>3, <1>5 DEF IInv, WritersWrite

\* It writes the payload.
LEMMA WritePayloadStep ==
    ASSUME IInv, NEW w \in Writers, WritePayload(w)
    PROVE  IInv' /\ UNCHANGED <<Content("ckpt"), OnDisk("ckpt")>>
<1> DEFINE headers == Record(w, saves[w])[1]
           block == Record(w, saves[w])[2]
<1>1. /\ pc[w] = "payload" /\ WriteBlock(fd[w], 2, block)
      /\ pc' = [pc EXCEPT ![w] = "fsync"]
      /\ UNCHANGED <<fd, saves, order, acked, reader, cuts>>
  BY DEF WritePayload
<1> HIDE DEF block, headers
<1>2. /\ FilesTyped' /\ StateTyped' /\ NamesApart' /\ LoadIsWhole'
      /\ CheckpointIsWhole' /\ SeenSurvives' /\ SavedSurvives'
      /\ fd[w] = dir[w] /\ fd[w] \in Inode /\ Exists(w)
      /\ UNCHANGED <<dir, disk_dir>>
      /\ UNCHANGED <<Content("ckpt"), OnDisk("ckpt")>>
      /\ \A v \in Writers \ {w} : Handles(v)' /\ Holds(v)'
  BY <1>1, SidecarWrite DEF Writing
<1>3. Handles(w)'
  BY <1>1, <1>2 DEF IInv, StateTyped, Handles, Writing, Exists
<1>4. At(w)' = Record(w, saves[w])
  <2>1. FilesTyped /\ data[fd[w]] = <<headers>>
    BY <1>1, <1>2 DEF IInv, WritersWrite, Holds, At, headers
  <2>2. /\ FilesTyped /\ fd[w] \in Inode /\ WriteBlock(fd[w], 2, block)
        /\ 1 \in Nat /\ 2 = 1 + 1 /\ Sized(data[fd[w]], 1)
    BY <1>1, <1>2, <2>1 DEF Sized
  <2>3. /\ Sized(data'[fd[w]], 2) /\ data'[fd[w]][2] = block
        /\ data'[fd[w]][1] = headers
    BY <2>1, <2>2, Extend
  <2>4. Sized(Record(w, saves[w]), 2)
    BY DEF Record, Parts, Sized
  <2> QED
    BY <1>2, <2>3, <2>4 DEF At, Sized, headers, block
<1>5. Holds(w)'
  BY <1>1, <1>2, <1>4 DEF IInv, StateTyped, WritersWrite, Holds
<1> QED
  BY <1>2, <1>3, <1>5 DEF IInv, WritersWrite

\* It flushes the sidecar; from then on a power cut leaves the record.
LEMMA FsyncTmpStep ==
    ASSUME IInv, NEW w \in Writers, FsyncTmp(w)
    PROVE  IInv' /\ UNCHANGED <<Content("ckpt"), OnDisk("ckpt")>>
<1> USE DEF IInv
<1>1. /\ pc[w] = "fsync" /\ Fsync(fd[w])
      /\ pc' = [pc EXCEPT ![w] = "rename"] /\ fd' = [fd EXCEPT ![w] = NoFile]
      /\ UNCHANGED <<saves, order, acked, reader, cuts>>
  BY DEF FsyncTmp
<1>2. /\ Handles(w) /\ Holds(w) /\ fd[w] = dir[w] /\ Exists(w)
      /\ fd[w] \in Inode
  BY <1>1, NamesOf DEF WritersWrite, Handles, Writing, FilesTyped, Exists
<1>3. /\ FilesTyped' /\ UNCHANGED <<dir, disk_dir, data>>
      /\ fd[w] \in clean' /\ clean \subseteq clean'
      /\ UNCHANGED <<Content("ckpt"), OnDisk("ckpt")>> /\ Flushed("ckpt")'
  BY <1>1, <1>2, FsyncKeeps, NamesOf DEF CheckpointIsWhole
<1>4. StateTyped' /\ NamesApart'
  BY <1>1, <1>3 DEF StateTyped, NamesApart, Exists
<1>5. LoadIsWhole'
  BY <1>1, <1>3, LoadKept DEF LoadIsWhole
<1>6. CheckpointIsWhole' /\ SeenSurvives' /\ SavedSurvives'
  BY <1>1, <1>3, CheckpointKept DEF StateTyped
<1>7. Handles(w)' /\ Holds(w)'
  BY <1>1, <1>2, <1>3 DEF StateTyped, Handles, Holds, Writing, Exists, At
<1>8. \A v \in Writers \ {w} : Handles(v)' /\ Holds(v)'
  BY <1>1, <1>3, OthersKept DEF StateTyped
<1> QED
  BY <1>3, <1>4, <1>5, <1>6, <1>7, <1>8 DEF WritersWrite

\* The rename is the step that installs the record, whole and flushed.
LEMMA RenameTmpStep ==
    ASSUME IInv, NEW w \in Writers, RenameTmp(w)
    PROVE  IInv' /\ Content("ckpt")' \in Records /\ UNCHANGED OnDisk("ckpt")
<1> USE DEF IInv
<1>1. /\ pc[w] = "rename" /\ Exists(w) /\ Rename(w, "ckpt")
      /\ order' = Append(order, At(w))
      /\ pc' = [pc EXCEPT ![w] = "dirsync"]
      /\ UNCHANGED <<fd, saves, acked, reader, cuts>>
  BY DEF RenameTmp, UniqueTmpPath
<1>2. /\ dir[w] \in clean /\ fd[w] = NoFile
      /\ saves[w] \in 1..MaxSaves /\ At(w) = Record(w, saves[w])
  BY <1>1 DEF WritersWrite, Handles, Holds, Writing
<1>3. At(w) \in Records
  BY <1>2 DEF Records
<1>4. /\ FilesTyped' /\ OneName(dir)' /\ UNCHANGED <<disk_dir, data, clean>>
      /\ dir'["ckpt"] = dir[w] /\ dir'[w] = NoFile
      /\ \A v \in Writers \ {w} : dir'[v] = dir[v]
      /\ Content("ckpt")' = At(w) /\ UNCHANGED OnDisk("ckpt")
      /\ Flushed("ckpt")'
  BY <1>1, <1>2, RenameInstalls, NamesOf DEF NamesApart, CheckpointIsWhole
<1>5. /\ order' \in Seq(Records) /\ Len(order') = Len(order) + 1
      /\ order'[Len(order) + 1] = At(w)
      /\ \A k \in 1..Len(order) : order'[k] = order[k]
      /\ Len(order) \in Nat /\ acked \in 0..Len(order)
  BY <1>1, <1>3 DEF StateTyped
<1>6. StateTyped'
  BY <1>1, <1>5 DEF StateTyped
<1>7. NamesApart'
  BY <1>4, NamesOf DEF NamesApart, Exists
<1>8. Handles(w)' /\ Holds(w)'
  BY <1>1, <1>2, <1>4 DEF StateTyped, Handles, Holds, Writing
<1>9. \A v \in Writers \ {w} : Handles(v)' /\ Holds(v)'
  BY <1>1, <1>4, OthersKept DEF StateTyped
<1>10. LoadIsWhole'
  <2>1. reader.at = "payload" => reader.inode # NoFile
    BY InodeAssumption DEF LoadIsWhole, Inode
  <2> QED
    BY <1>1, <1>4, <2>1, LoadKept DEF LoadIsWhole
<1>11. CheckpointIsWhole'
  <2>1. Exists("ckpt")' /\ At("ckpt")' = At(w)
    BY <1>1, <1>4 DEF Exists, At
  <2> QED
    BY <1>3, <1>4, <2>1 DEF CheckpointIsWhole
<1>12. SeenSurvives'
  <2>1. Len(order') \in acked..Len(order') /\ Len(order') > 0
    BY <1>5
  <2>2. Content("ckpt")' = order'[Len(order')]
    BY <1>4, <1>5
  <2> QED
    BY <1>1, <2>1, <2>2 DEF SeenSurvives
<1>13. SavedSurvives'
  <2> SUFFICES ASSUME acked > 0
               PROVE  \E k \in acked..Len(order') : OnDisk("ckpt") = order'[k]
    BY <1>1, <1>4 DEF SavedSurvives
  <2>1. PICK k \in acked..Len(order) : OnDisk("ckpt") = order[k]
    BY DEF SavedSurvives
  <2>2. k \in acked..Len(order') /\ k \in 1..Len(order)
    BY <1>5, <2>1
  <2> QED
    BY <1>5, <2>1, <2>2
<1> QED
  BY <1>3, <1>4, <1>6, <1>7, <1>8, <1>9, <1>10, <1>11, <1>12, <1>13
  DEF WritersWrite

\* What the two steps that flush the directory do to the checkpoint.
LEMMA DirFlushed ==
    ASSUME IInv, FsyncDir
    PROVE  /\ FilesTyped' /\ NamesApart' /\ CheckpointIsWhole'
           /\ UNCHANGED <<dir, data, clean>>
           /\ OnDisk("ckpt")' = Content("ckpt") /\ UNCHANGED Content("ckpt")
<1> USE DEF IInv
<1>1. /\ FilesTyped' /\ UNCHANGED <<dir, data, clean>> /\ disk_dir' = dir
      /\ OnDisk("ckpt")' = Content("ckpt") /\ UNCHANGED Content("ckpt")
      /\ Flushed("ckpt")'
  BY FsyncDirPersists, NamesOf DEF CheckpointIsWhole
<1>2. NamesApart'
  BY <1>1, NamesOf DEF NamesApart, OneName, Exists
<1>3. CheckpointIsWhole'
  BY <1>1 DEF CheckpointIsWhole, Content, Exists, At
<1> QED
  BY <1>1, <1>2, <1>3

\* It flushes the directory, and what the disk holds is what is seen.
LEMMA SyncDirStep ==
    ASSUME IInv, NEW w \in Writers, SyncDir(w)
    PROVE  /\ IInv' /\ UNCHANGED Content("ckpt")
           /\ OnDisk("ckpt")' = Content("ckpt") \/ UNCHANGED OnDisk("ckpt")
<1> USE DEF IInv
<1>1. /\ pc[w] = "dirsync" /\ pc' = [pc EXCEPT ![w] = "idle"]
      /\ UNCHANGED <<fd, saves, order, reader, cuts>>
      /\ \/ FsyncDir /\ acked' = Len(order)
         \/ UNCHANGED <<fs, acked>>
  BY DEF SyncDir
<1>2. /\ FilesTyped' /\ NamesApart' /\ CheckpointIsWhole'
      /\ UNCHANGED <<dir, data, clean>> /\ UNCHANGED Content("ckpt")
      /\ \/ OnDisk("ckpt")' = Content("ckpt") /\ acked' = Len(order)
         \/ UNCHANGED <<OnDisk("ckpt"), acked>>
  <2>1. CASE FsyncDir /\ acked' = Len(order)
    BY <2>1, DirFlushed
  <2>2. CASE UNCHANGED <<fs, acked>>
    <3>1. UNCHANGED <<dir, disk_dir, data, clean, acked>>
      BY <2>2 DEF fs
    <3> QED
      BY <3>1 DEF FilesTyped, NamesApart, OneName, CheckpointIsWhole, Flushed,
                  Content, OnDisk, Exists, At
  <2> QED
    BY <1>1, <2>1, <2>2
<1>3. Len(order) \in Nat /\ acked \in 0..Len(order)
  BY DEF StateTyped
<1>4. StateTyped'
  BY <1>1, <1>2, <1>3 DEF StateTyped
<1>5. WritersWrite'
  <2>1. Handles(w)' /\ Holds(w)'
    BY <1>1 DEF StateTyped, WritersWrite, Handles, Holds, Writing
  <2>2. \A v \in Writers \ {w} : Handles(v)' /\ Holds(v)'
    BY <1>1, <1>2, OthersKept DEF StateTyped
  <2> QED
    BY <2>1, <2>2 DEF WritersWrite
<1>6. LoadIsWhole'
  BY <1>1, <1>2, LoadKept DEF LoadIsWhole
<1>7. Len(order) > 0 /\ Content("ckpt") = order[Len(order)]
  BY <1>1 DEF SeenSurvives
<1>8. SeenSurvives' /\ SavedSurvives'
  <2>1. acked' > 0 => Len(order) \in acked'..Len(order)
    BY <1>2, <1>3
  <2> QED
    BY <1>1, <1>2, <1>7, <2>1 DEF SeenSurvives, SavedSurvives, StateTyped
<1> QED
  BY <1>2, <1>4, <1>5, <1>6, <1>8

\* A writer that gives up or dies leaves its sidecar behind and nothing else.
LEMMA StopStep ==
    ASSUME IInv, NEW w \in Writers, Fail(w) \/ Kill(w)
    PROVE  IInv' /\ UNCHANGED <<Content("ckpt"), OnDisk("ckpt")>>
<1> USE DEF IInv
<1>1. /\ pc' = [pc EXCEPT ![w] = "idle"] /\ fd' = [fd EXCEPT ![w] = NoFile]
      /\ UNCHANGED <<dir, disk_dir, data, clean>>
      /\ UNCHANGED <<saves, order, acked, reader, cuts>>
  BY DEF Fail, Kill, fs
<1>2. UNCHANGED <<Content("ckpt"), OnDisk("ckpt")>>
  BY <1>1 DEF Content, OnDisk, Exists, At
<1>3. FilesTyped' /\ StateTyped' /\ NamesApart'
  BY <1>1 DEF FilesTyped, StateTyped, NamesApart, OneName, Exists
<1>4. Handles(w)' /\ Holds(w)'
  BY <1>1 DEF StateTyped, Handles, Holds, Writing
<1>5. \A v \in Writers \ {w} : Handles(v)' /\ Holds(v)'
  BY <1>1, OthersKept DEF StateTyped
<1>6. LoadIsWhole'
  BY <1>1, LoadKept DEF LoadIsWhole
<1>7. CheckpointIsWhole' /\ SeenSurvives' /\ SavedSurvives'
  <2>1. Flushed("ckpt")'
    BY <1>1 DEF CheckpointIsWhole, Flushed
  <2> QED
    BY <1>1, <1>2, <2>1, CheckpointKept DEF StateTyped
<1> QED
  BY <1>2, <1>3, <1>4, <1>5, <1>6, <1>7 DEF WritersWrite

-----------------------------------------------------------------------------
(* The load, and the machine. *)

\* A step that changes nothing but the reader.
LEMMA OnlyTheReader ==
    ASSUME IInv, UNCHANGED <<fs, pc, fd, saves, order, acked, cuts>>
    PROVE  /\ FilesTyped' /\ StateTyped' /\ NamesApart' /\ WritersWrite'
           /\ CheckpointIsWhole' /\ SeenSurvives' /\ SavedSurvives'
           /\ UNCHANGED <<dir, data>>
           /\ UNCHANGED <<Content("ckpt"), OnDisk("ckpt")>>
<1> USE DEF IInv
<1>1. UNCHANGED <<dir, disk_dir, data, clean, pc, fd, saves, order, acked, cuts>>
  BY DEF fs
<1>2. UNCHANGED <<Content("ckpt"), OnDisk("ckpt")>>
  BY <1>1 DEF Content, OnDisk, Exists, At
<1>3. FilesTyped' /\ StateTyped' /\ NamesApart'
  BY <1>1 DEF FilesTyped, StateTyped, NamesApart, OneName, Exists
<1>4. WritersWrite'
  BY <1>1 DEF WritersWrite, Handles, Holds, Exists, At
<1>5. CheckpointIsWhole' /\ SeenSurvives' /\ SavedSurvives'
  <2>1. Flushed("ckpt")'
    BY <1>1 DEF CheckpointIsWhole, Flushed
  <2> QED
    BY <1>1, <1>2, <2>1, CheckpointKept
<1> QED
  BY <1>1, <1>2, <1>3, <1>4, <1>5

\* A load reads the headers of the file it has open.
LEMMA ReadHeadersStep ==
    ASSUME IInv, ReadHeaders
    PROVE  IInv' /\ UNCHANGED <<Content("ckpt"), OnDisk("ckpt")>>
<1> USE DEF IInv
<1>1. /\ Exists("ckpt")
      /\ reader' = [at |-> "payload", inode |-> dir["ckpt"],
                    headers |-> Head(At("ckpt")), result |-> "none"]
      /\ UNCHANGED <<fs, pc, fd, saves, order, acked, cuts>>
  BY DEF ReadHeaders
<1>2. /\ FilesTyped' /\ StateTyped' /\ NamesApart' /\ WritersWrite'
      /\ CheckpointIsWhole' /\ SeenSurvives' /\ SavedSurvives'
      /\ UNCHANGED <<dir, data>>
      /\ UNCHANGED <<Content("ckpt"), OnDisk("ckpt")>>
  BY <1>1, OnlyTheReader
<1>3. LoadIsWhole'
  <2>1. dir["ckpt"] \in Inode /\ At("ckpt") \in Records
    BY <1>1, NamesOf DEF FilesTyped, Exists, CheckpointIsWhole
  <2>2. \A w \in Writers : dir[w] # dir["ckpt"]
    BY <1>1, NamesOf DEF NamesApart, OneName, Exists
  <2>3. Head(At("ckpt")) = At("ckpt")[1]
    BY <2>1 DEF Records, Record, Parts
  <2> QED
    BY <1>1, <1>2, <2>1, <2>2, <2>3 DEF LoadIsWhole, At
<1> QED
  BY <1>2, <1>3

\* The payload read is the one the headers belong to.
LEMMA ReadPayloadStep ==
    ASSUME IInv, ReadPayload
    PROVE  IInv' /\ UNCHANGED <<Content("ckpt"), OnDisk("ckpt")>>
<1> USE DEF IInv
<1>1. /\ reader.at = "payload"
      /\ reader' = [NoReader EXCEPT !.result =
                      IF /\ data[reader.inode] \in Records
                         /\ data[reader.inode][1] = reader.headers
                        THEN "loaded" ELSE "corrupt"]
      /\ UNCHANGED <<fs, pc, fd, saves, order, acked, cuts>>
  BY DEF ReadPayload
<1>2. /\ FilesTyped' /\ StateTyped' /\ NamesApart' /\ WritersWrite'
      /\ CheckpointIsWhole' /\ SeenSurvives' /\ SavedSurvives'
      /\ UNCHANGED <<Content("ckpt"), OnDisk("ckpt")>>
  BY <1>1, OnlyTheReader
<1>3. /\ data[reader.inode] \in Records
      /\ reader.headers = data[reader.inode][1]
  BY <1>1 DEF LoadIsWhole
<1>4. reader' = [NoReader EXCEPT !.result = "loaded"]
  BY <1>1, <1>3
<1>5. LoadIsWhole'
  BY <1>4 DEF LoadIsWhole, NoReader
<1> QED
  BY <1>2, <1>5

\* A power cut leaves what was flushed.
LEMMA PowerCutStep ==
    ASSUME IInv, PowerCut
    PROVE  IInv' /\ Content("ckpt")' = OnDisk("ckpt") /\ UNCHANGED OnDisk("ckpt")
<1> USE DEF IInv
<1>1. /\ Cut
      /\ pc' = [w \in Writers |-> "idle"] /\ fd' = [w \in Writers |-> NoFile]
      /\ reader' = NoReader /\ cuts' = cuts + 1
      /\ UNCHANGED <<saves, order, acked>>
  BY DEF PowerCut
<1>2. /\ FilesTyped' /\ UNCHANGED disk_dir /\ dir' = disk_dir
      /\ Content("ckpt")' = OnDisk("ckpt") /\ UNCHANGED OnDisk("ckpt")
      /\ Flushed("ckpt")'
  BY <1>1, CutRestores, NamesOf DEF CheckpointIsWhole
<1>3. StateTyped'
  BY <1>1 DEF StateTyped
<1>4. NamesApart'
  BY <1>2, NamesOf DEF NamesApart, OneName, Exists
<1>5. WritersWrite'
  BY <1>1 DEF WritersWrite, Handles, Holds, Writing
<1>6. LoadIsWhole'
  BY <1>1 DEF LoadIsWhole, NoReader
<1>7. CheckpointIsWhole'
  BY <1>2 DEF CheckpointIsWhole, Content, Exists
<1>8. SeenSurvives' /\ SavedSurvives'
  BY <1>1, <1>2 DEF SeenSurvives, SavedSurvives
<1> QED
  BY <1>2, <1>3, <1>4, <1>5, <1>6, <1>7, <1>8

\* The kernel flushes something of its own accord.
LEMMA KernelWriteBackStep ==
    ASSUME IInv, KernelWriteBack
    PROVE  /\ IInv' /\ UNCHANGED Content("ckpt")
           /\ OnDisk("ckpt")' = Content("ckpt") \/ UNCHANGED OnDisk("ckpt")
<1> USE DEF IInv
<1>1. WriteBack /\ UNCHANGED <<pc, fd, saves, order, acked, reader, cuts>>
  BY DEF KernelWriteBack
<1>2. /\ FilesTyped' /\ NamesApart' /\ CheckpointIsWhole'
      /\ UNCHANGED <<dir, data>> /\ clean \subseteq clean'
      /\ UNCHANGED Content("ckpt")
      /\ OnDisk("ckpt")' = Content("ckpt") \/ UNCHANGED OnDisk("ckpt")
  <2>1. CASE FsyncDir
    BY <2>1, DirFlushed
  <2>2. ASSUME NEW i \in Inode, Fsync(i)
        PROVE  /\ FilesTyped' /\ NamesApart' /\ CheckpointIsWhole'
               /\ UNCHANGED <<dir, data>> /\ clean \subseteq clean'
               /\ UNCHANGED <<Content("ckpt"), OnDisk("ckpt")>>
    <3>1. /\ FilesTyped' /\ UNCHANGED <<dir, disk_dir, data>>
          /\ clean \subseteq clean'
          /\ UNCHANGED <<Content("ckpt"), OnDisk("ckpt")>> /\ Flushed("ckpt")'
      BY <2>2, FsyncKeeps, NamesOf DEF CheckpointIsWhole
    <3> QED
      BY <3>1 DEF NamesApart, CheckpointIsWhole, Exists, At
  <2> QED
    BY <1>1, <2>1, <2>2, WriteBackKeeps
<1>3. StateTyped'
  BY <1>1 DEF StateTyped
<1>4. WritersWrite'
  BY <1>1, <1>2 DEF WritersWrite, Handles, Holds, Exists, At
<1>5. LoadIsWhole'
  BY <1>1, <1>2, LoadKept DEF LoadIsWhole
<1>6. SeenSurvives' /\ SavedSurvives'
  BY <1>1, <1>2 DEF SeenSurvives, SavedSurvives
<1> QED
  BY <1>2, <1>3, <1>4, <1>5, <1>6

-----------------------------------------------------------------------------
(* The theorems. *)

\* A new directory satisfies the invariant.
LEMMA IInvInit == Init => IInv
<1> SUFFICES ASSUME Init PROVE IInv
  OBVIOUS
<1> USE DEF Init
<1>1. FilesTyped
  BY DEF FilesTyped, Inode
<1>2. StateTyped
  BY WritersAssumption DEF StateTyped
<1>3. NamesApart /\ CheckpointIsWhole
  BY NamesOf DEF NamesApart, OneName, CheckpointIsWhole, Flushed, Exists
<1>4. WritersWrite
  BY DEF WritersWrite, Handles, Holds, Writing
<1>5. LoadIsWhole /\ SeenSurvives /\ SavedSurvives
  BY DEF LoadIsWhole, NoReader, SeenSurvives, SavedSurvives
<1> QED
  BY <1>1, <1>2, <1>3, <1>4, <1>5 DEF IInv

\* What a step of the writers, of a load or of the machine does to the
\* checkpoint, as AtomicFile sees it.
LEMMA IInvStep ==
    ASSUME IInv, [Next]_vars
    PROVE  /\ IInv'
           /\ \/ Content("ckpt")' \in Records /\ UNCHANGED OnDisk("ckpt")
              \/ OnDisk("ckpt")' = Content("ckpt") /\ UNCHANGED Content("ckpt")
              \/ Content("ckpt")' = OnDisk("ckpt") /\ UNCHANGED OnDisk("ckpt")
              \/ UNCHANGED <<Content("ckpt"), OnDisk("ckpt")>>
<1>1. ASSUME NEW w \in Writers, OpenTmp(w)
      PROVE  IInv' /\ UNCHANGED <<Content("ckpt"), OnDisk("ckpt")>>
  BY <1>1, OpenTmpStep
<1>2. ASSUME NEW w \in Writers, WriteHeaders(w)
      PROVE  IInv' /\ UNCHANGED <<Content("ckpt"), OnDisk("ckpt")>>
  BY <1>2, WriteHeadersStep
<1>3. ASSUME NEW w \in Writers, WritePayload(w)
      PROVE  IInv' /\ UNCHANGED <<Content("ckpt"), OnDisk("ckpt")>>
  BY <1>3, WritePayloadStep
<1>4. ASSUME NEW w \in Writers, FsyncTmp(w)
      PROVE  IInv' /\ UNCHANGED <<Content("ckpt"), OnDisk("ckpt")>>
  BY <1>4, FsyncTmpStep
<1>5. ASSUME NEW w \in Writers, RenameTmp(w)
      PROVE  IInv' /\ Content("ckpt")' \in Records /\ UNCHANGED OnDisk("ckpt")
  BY <1>5, RenameTmpStep
<1>6. ASSUME NEW w \in Writers, SyncDir(w)
      PROVE  /\ IInv' /\ UNCHANGED Content("ckpt")
             /\ OnDisk("ckpt")' = Content("ckpt") \/ UNCHANGED OnDisk("ckpt")
  BY <1>6, SyncDirStep
<1>7. ASSUME NEW w \in Writers, Fail(w) \/ Kill(w)
      PROVE  IInv' /\ UNCHANGED <<Content("ckpt"), OnDisk("ckpt")>>
  BY <1>7, StopStep
<1>8. CASE ReadHeaders
  BY <1>8, ReadHeadersStep
<1>9. CASE ReadPayload
  BY <1>9, ReadPayloadStep
<1>10. CASE PowerCut
  BY <1>10, PowerCutStep
<1>11. CASE KernelWriteBack
  BY <1>11, KernelWriteBackStep
<1>12. CASE UNCHANGED vars
  <2>1. UNCHANGED <<fs, pc, fd, saves, order, acked, cuts>> /\ UNCHANGED reader
    BY <1>12 DEF vars
  <2>2. LoadIsWhole'
    BY <2>1, OnlyTheReader, LoadKept DEF IInv, LoadIsWhole
  <2> QED
    BY <2>1, <2>2, OnlyTheReader DEF IInv
<1> QED
  BY <1>1, <1>2, <1>3, <1>4, <1>5, <1>6, <1>7, <1>8, <1>9, <1>10, <1>11, <1>12
  DEF Next, Save

\* The conjunction of the invariants above holds however saves, loads, kills and
\* power cuts interleave.
THEOREM InductiveInvariant == Spec => []IInv
<1>1. Init => IInv
  BY IInvInit
<1>2. IInv /\ [Next]_vars => IInv'
  BY IInvStep
<1> QED
  BY <1>1, <1>2, PTL DEF Spec

\* A load that runs while others save never finds the checkpoint corrupt
\* (checkpoint.cc:94-146).
THEOREM LoadsReadOneRecord == Spec => []LoadsAreWhole
<1>1. IInv => LoadsAreWhole
  BY DEF IInv, LoadIsWhole, LoadsAreWhole
<1> QED
  BY <1>1, InductiveInvariant, PTL

\* Once the directory was flushed after a save, no power cut and no failed save
\* brings back an older record (checkpoint.cc:82).
THEOREM FlushedSavesSurvive == Spec => []SavedSurvives
BY InductiveInvariant, PTL DEF IInv

\* The checkpoint, for its readers and for a power cut, goes from one complete
\* record to the next in a single step: CheckpointFile implements AtomicFile.
THEOREM SaveIsAtomic == Spec => ImplementsAtomicFile
<1>1. Init => Checkpoint!Init
  BY NamesOf DEF Init, Checkpoint!Init, OnDisk, Exists, At
<1>2. IInv /\ [Next]_vars => [Checkpoint!Next]_(Checkpoint!vars)
  BY IInvStep
  DEF Checkpoint!Next, Checkpoint!Install, Checkpoint!Persist,
      Checkpoint!PowerCut, Checkpoint!vars, Content
<1> QED
  BY <1>1, <1>2, InductiveInvariant, PTL
  DEF Spec, ImplementsAtomicFile, Checkpoint!Spec
=============================================================================
