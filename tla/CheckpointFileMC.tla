-------------------------- MODULE CheckpointFileMC --------------------------
(* Values for CheckpointFile: two writers. *)
EXTENDS CheckpointFile

SomeWriters == {"w1", "w2"}
FileNames == {"ckpt", "tmp"} \cup SomeWriters
=============================================================================
