----------------------------- MODULE DeviceUpdate -----------------------------
(***************************************************************************)
(* The update program a package ships: main() of the driver the compiler   *)
(* emits (compiler/backend/packaging/native_emitter.cc).  Train, composed  *)
(* with the gate that accepts or rejects what it returns, the merge and    *)
(* the commit.  CommitToModel is one step here: Commit shows that it is    *)
(* atomic.  What a process leaves to the next is the checkpoint and the    *)
(* output file.                                                            *)
(*                                                                         *)
(* main() passes no should_stop: a process that Stop ended belongs to an   *)
(* embedding of the engine, and exits with its checkpoint.                 *)
(***************************************************************************)
EXTENDS Train

CONSTANT
    MinImprovement   \* --min-improvement, in percent

ASSUME DeviceAssumption == MinImprovement \in 0..99

VARIABLES
    deltas,   \* what RunMerge materialized: the states it merged, at most one
    out,      \* the output file: the states it was patched with, at most one
    forced,   \* history: the process overrode its gate
    required  \* history: it was asked not to drop in accuracy

device == <<deltas, out, forced, required>>

DeviceInit ==
    /\ Init
    /\ deltas = {} /\ out = {}
    /\ forced = FALSE /\ required = FALSE

\* TrainReport::improved and ImprovedBy.  The averages of two windows of equally
\* many steps, 0 over no steps, compare as their sums.
ImprovedBy(r) ==
    LET before == IF validation THEN r.val_initial ELSE r.initial_sum
        after == IF validation THEN r.val_final
                 ELSE IF r.final_n = 0 THEN r.initial_sum ELSE r.final_sum
    IN  /\ after < before
        /\ MinImprovement > 0 => after * 100 <= before * (100 - MinImprovement)

AccuracyHeld(r) == r.val_final_accuracy >= r.val_initial_accuracy

\* The regression gate.  A process it rejects exits 3 and touches nothing.
Gate(force, require) ==
    /\ pc = "returned" /\ ~report.stopped_early
    /\ require => validation
    /\ LET accepted == ImprovedBy(report) /\ (require => AccuracyHeld(report)) IN
        /\ pc' = IF accepted \/ force THEN "merge" ELSE "rejected"
        /\ forced' = (~accepted /\ force)
    /\ required' = require
    /\ UNCHANGED <<options, engine, arena, fed, end, out_of_patience, report, seen,
                   disk, score, first, uniform, starts, deltas, out>>

RunMerge ==
    /\ pc = "merge"
    /\ deltas' = {arena}
    /\ pc' = "commit"
    /\ UNCHANGED <<options, engine, arena, fed, end, out_of_patience, report, seen,
                   disk, score, first, uniform, starts, out, forced, required>>

CommitToModel ==
    /\ pc = "commit" /\ deltas # {}
    /\ out' = deltas
    /\ pc' = "committed"
    /\ UNCHANGED <<options, engine, arena, fed, end, out_of_patience, report, seen,
                   disk, score, first, uniform, starts, deltas, forced, required>>

\* The process ends: with its verdict, or with an error, or killed.
End ==
    /\ Exit
    /\ deltas' = {} /\ forced' = FALSE /\ required' = FALSE
    /\ UNCHANGED out

Training ==
    \/ \E o \in Options : Start(o)
    \/ Baseline \/ TrainStep \/ Stop \/ LoopEnds \/ Evaluate \/ Checkpoint \/ Final

DeviceNext ==
    \/ Training /\ UNCHANGED device
    \/ \E force, require \in BOOLEAN : Gate(force, require)
    \/ RunMerge \/ CommitToModel \/ End

DeviceSpec == DeviceInit /\ [][DeviceNext]_<<vars, device>>

(***************************************************************************)
(* Properties.                                                             *)
(***************************************************************************)

\* "A failed update must leave the device untouched" (native_emitter.cc:456): what
\* a process commits without force scores better than the source model by the
\* margin asked for, and as accurate where that was required, whatever chain of
\* kills and resumes trained it.
OnlyImprovementsShip ==
    pc = "committed" /\ validation /\ ~forced =>
        \A state \in out :
            LET shipped == Len(state) IN
            /\ score[shipped] < score[0]
            /\ score[shipped] * 100 <= score[0] * (100 - MinImprovement)
            /\ required => Accuracy[shipped] >= Accuracy[0]

\* The verdict of the same run in one process.
FirstWindow == 1..Min({Window(TotalSteps), TotalSteps})
LastWindow == (TotalSteps - Cardinality(FirstWindow) + 1)..TotalSteps
SumOver(window) == MapThenSumSet(LAMBDA s : score[s], window)
UninterruptedAccepts ==
    LET before == IF validation THEN score[0] ELSE SumOver(FirstWindow)
        after == IF validation THEN score[FinalStep] ELSE SumOver(LastWindow)
    IN  /\ after < before
        /\ after * 100 <= before * (100 - MinImprovement)
        /\ required => Accuracy[FinalStep] >= Accuracy[0]

\* A resume "commits the bits the uninterrupted run would have"
\* (docs/runtime.md:62): a chain of processes that only finished what the first
\* began is accepted exactly when that run in one process would be, and ships its
\* state.
Decided ==
    uniform /\ end = engine.horizon /\ ~forced /\ pc \in {"committed", "rejected"}
CommitsTheBits ==
    Decided =>
        /\ (pc = "committed") = UninterruptedAccepts
        /\ pc = "committed" => out = {UninterruptedArena(FinalStep)}

\* So it is behind a gate on validation loss, whose first score the checkpoint
\* carries.
ValidatedCommitsTheBits == validation => CommitsTheBits
=============================================================================
