----------------------------- MODULE AtomicFile -----------------------------
(***************************************************************************)
(* What durable_io.h promises of a file it replaces: the file changes from *)
(* one complete content to the next in a single step, and a power cut      *)
(* brings back a complete content it had before, never a mixture.          *)
(***************************************************************************)
CONSTANTS
    Initial,  \* contents the file may start with
    Complete  \* contents a writer may install

VARIABLES
    file, \* the content processes see
    disk  \* the content a power cut would leave

vars == <<file, disk>>

Init == file \in Initial /\ disk = file

Install == file' \in Complete /\ UNCHANGED disk
Persist == disk' = file /\ UNCHANGED file
PowerCut == file' = disk /\ UNCHANGED disk

Next == Install \/ Persist \/ PowerCut

Spec == Init /\ [][Next]_vars
=============================================================================
