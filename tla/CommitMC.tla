------------------------------ MODULE CommitMC ------------------------------
(* Values for Commit. *)
EXTENDS Commit

FileNames == {"out", "tmp", "model"}
=============================================================================
