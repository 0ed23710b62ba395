------------------------------- MODULE Train -------------------------------
(***************************************************************************)
(* One update trained by a chain of processes: UpdateEngine::TrainImpl     *)
(* (runtime/dispatcher/update_engine.cc) with periodic evaluation, the     *)
(* best state, patience and checkpoints.  A process may die at any step or *)
(* be stopped; the next one resumes from the checkpoint, with the options  *)
(* it is given.  A checkpoint is written whole or not at all               *)
(* (CheckpointFile).                                                       *)
(*                                                                         *)
(* The persistent segment of the arena is the sequence of optimizer steps  *)
(* that made it: the micro-batch each began at, the horizon its learning   *)
(* rate annealed over and the split its rows came from.  Losses are drawn  *)
(* once: the validation loss of the state after each number of steps or,   *)
(* in a run without a validation set, which is split 0, the training loss  *)
(* of each step.                                                           *)
(***************************************************************************)
EXTENDS Integers, Sequences, FiniteSetsExt

CONSTANTS
    DefaultSteps,    \* header_.default_steps
    GradAccum,       \* grad_accum_
    StepCounts,      \* explicit step counts callers ask for; 0: none
    Horizons,        \* explicit horizons callers ask for; 0: none
    EvalEverys,      \* options.eval_every
    kEvalEveryAuto,  \* the cadence left to the engine
    AutoParts,       \* evaluations of a run on that cadence; 10 in the program
    Patience,        \* options.patience
    Splits,          \* shuffle seeds and train/validation splits
    CheckpointEvery, \* options.checkpoint_every
    Losses,          \* validation and training losses
    Accuracy,        \* the accuracy of the state after each number of steps
    MaxStep,         \* bound: optimizer steps
    MaxStarts        \* bound: processes

ASSUME TrainAssumption ==
    /\ MaxStep \in Nat /\ DefaultSteps \in 1..MaxStep /\ GradAccum \in Nat \ {0}
    /\ StepCounts \subseteq Nat /\ Horizons \subseteq Nat /\ EvalEverys \subseteq Nat
    /\ kEvalEveryAuto \in Nat \ {0}
    /\ CheckpointEvery \in Nat \ {0} /\ AutoParts \in Nat \ {0}
    /\ Accuracy \in [0..MaxStep -> Nat]
    /\ Losses \subseteq Int /\ MaxStarts \in Nat

VARIABLES
    pc,       \* where TrainImpl stands; "down" between processes
    options,  \* what this process was asked for
    engine,   \* the engine's members
    arena,    \* the persistent segment
    fed,      \* micro-batches the dataset has served
    end,      \* start + steps
    out_of_patience,
    report,   \* the TrainReport
    disk,     \* the checkpoint file
    score,    \* the loss of each step
    seen,     \* history: the losses this process evaluated
    first,    \* history: the options of the process that began afresh
    uniform,  \* history: every later process just asked for the rest
    starts    \* processes started

call == <<pc, options, engine, arena, fed, end, out_of_patience, report, seen>>
vars == <<call, disk, score, first, uniform, starts>>

Options ==
    [steps : StepCounts, horizon : Horizons, eval_every : EvalEverys,
     split : Splits]

NewEngine ==
    [step |-> 0, horizon |-> 0, split |-> 0,
     has_val_initial |-> FALSE, val_initial |-> 0, val_initial_accuracy |-> 0,
     has_best |-> FALSE, best_step |-> 0, best_loss |-> 0, best_accuracy |-> 0,
     best_state |-> <<>>, stale_evals |-> 0]

NoCheckpoint == [members |-> NewEngine, payload |-> <<>>, best_payload |-> {}]

NoReport ==
    [val_initial |-> 0, val_initial_accuracy |-> 0,
     val_final |-> 0, val_final_accuracy |-> 0, best_step |-> 0,
     steps |-> 0, initial_sum |-> 0, final_sum |-> 0, final_n |-> 0,
     stopped_early |-> FALSE]

Init ==
    /\ pc = "down"
    /\ options \in {o \in Options : o.horizon = 0} /\ first = options
    /\ engine = NewEngine
    /\ arena = <<>> /\ fed = 0 /\ end = 0
    /\ out_of_patience = FALSE
    /\ report = NoReport
    /\ disk = NoCheckpoint
    /\ score \in [0..MaxStep -> Losses]
    /\ seen = {}
    /\ uniform = TRUE /\ starts = 0

validation == options.split # 0

\* "auto" resolves against the run's horizon, never a call's count.
EvalEveryOf(o, horizon) ==
    IF o.eval_every = kEvalEveryAuto THEN Max({1, horizon \div AutoParts})
    ELSE o.eval_every
\* Mutant: it resolves against the steps this process was asked for.
eval_every_OfCall == EvalEveryOf(options, report.steps + end - engine.step)
eval_every == EvalEveryOf(options, engine.horizon)
track_best == validation /\ eval_every > 0

\* EvaluateMetrics of the state in the arena.
Loss == score[Len(arena)]
AccuracyNow == Accuracy[Len(arena)]

SnapshotBest(e, loss, accuracy) ==
    [e EXCEPT !.has_best = TRUE, !.best_step = e.step, !.best_loss = loss,
              !.best_accuracy = accuracy, !.best_state = arena, !.stale_evals = 0]

(***************************************************************************)
(* The checkpoint.                                                         *)
(***************************************************************************)

\* The best payload is written only while it differs from the main one.
CheckpointRecord ==
    [members |-> [engine EXCEPT !.best_state = <<>>],
     payload |-> arena,
     best_payload |-> IF engine.has_best /\ engine.best_step # engine.step
                        THEN {engine.best_state} ELSE {}]

\* Mutant: the main payload stands for the best one.
LoadCheckpoint_NoBestPayload ==
    [disk.members EXCEPT
        !.best_state = IF disk.members.has_best THEN disk.payload ELSE <<>>]

LoadCheckpoint ==
    [disk.members EXCEPT
        !.best_state =
            IF ~disk.members.has_best THEN <<>>
            ELSE IF disk.best_payload = {} THEN disk.payload
            ELSE CHOOSE best \in disk.best_payload : TRUE]

(***************************************************************************)
(* The start of a run: resume, horizon, binding.                           *)
(***************************************************************************)
Resumes == disk.members.step > 0
Restored == IF Resumes THEN LoadCheckpoint ELSE NewEngine

\* Without an explicit count a resumed run trains the remainder.
StepsOf(o, e) ==
    IF o.steps # 0 THEN o.steps
    ELSE IF e.step > 0 /\ e.horizon > 0 THEN Max({e.horizon - e.step, 0})
    ELSE DefaultSteps

HorizonOf(o, e) ==
    IF o.horizon # 0 THEN o.horizon
    ELSE IF o.steps # 0 \/ e.horizon = 0 THEN e.step + StepsOf(o, e)
    ELSE e.horizon

\* Mutant: any seed or split resumes.
Refused_Never(o, e) == o.horizon # 0 /\ o.horizon < e.step + StepsOf(o, e)

\* A checkpoint of another seed or split, or a horizon too near.
Refused(o, e) ==
    \/ e.step > 0 /\ e.split # o.split
    \/ o.horizon # 0 /\ o.horizon < e.step + StepsOf(o, e)

SkipServed(e) == e.step * GradAccum

\* A refused process changes nothing.
Start(o) ==
    LET e == Restored IN
    /\ pc = "down" /\ starts < MaxStarts
    /\ ~Refused(o, e)
    /\ e.step + StepsOf(o, e) <= MaxStep
    /\ starts' = starts + 1
    /\ options' = o
    /\ first' = IF Resumes THEN first ELSE o
    /\ uniform' =
        (Resumes => uniform /\ o = [first EXCEPT !.steps = 0, !.horizon = 0])
    /\ arena' = disk.payload
    /\ fed' = SkipServed(e)
    /\ end' = e.step + StepsOf(o, e)
    /\ engine' = [e EXCEPT !.horizon = HorizonOf(o, e), !.split = o.split]
    /\ pc' = "baseline"
    /\ UNCHANGED <<out_of_patience, report, seen, disk, score>>

\* Mutant: the resumed state is scored as the source model.
Baseline_Remeasured ==
    /\ pc = "baseline"
    /\ LET measured == [engine EXCEPT !.has_val_initial = TRUE,
                                      !.val_initial = Loss,
                                      !.val_initial_accuracy = AccuracyNow] IN
        /\ engine' = IF ~validation THEN engine
                     ELSE IF track_best /\ ~engine.has_best
                            THEN SnapshotBest(measured, Loss, AccuracyNow)
                            ELSE measured
        /\ report' = [report EXCEPT
                !.val_initial = engine'.val_initial,
                !.val_initial_accuracy = engine'.val_initial_accuracy]
    /\ seen' = IF validation THEN {Loss} ELSE seen
    /\ pc' = "loop"
    /\ UNCHANGED <<options, arena, fed, end, out_of_patience, disk, score,
                   first, uniform, starts>>

\* The score of the source model is measured once in the chain; the bar to
\* beat is the score of the state this run starts from.
Baseline ==
    /\ pc = "baseline"
    /\ LET measured ==
            IF engine.step > 0 /\ engine.has_val_initial THEN engine
            ELSE [engine EXCEPT !.has_val_initial = TRUE, !.val_initial = Loss,
                                !.val_initial_accuracy = AccuracyNow]
           start_loss == IF engine.step > 0 THEN Loss ELSE measured.val_initial
           start_accuracy == IF engine.step > 0 THEN AccuracyNow
                             ELSE measured.val_initial_accuracy
       IN
        /\ engine' = IF ~validation THEN engine
                     ELSE IF track_best /\ ~engine.has_best
                            THEN SnapshotBest(measured, start_loss, start_accuracy)
                            ELSE measured
        /\ report' = [report EXCEPT
                !.val_initial = engine'.val_initial,
                !.val_initial_accuracy = engine'.val_initial_accuracy]
    /\ seen' = IF track_best /\ ~engine.has_best THEN {Loss} ELSE seen
    /\ pc' = "loop"
    /\ UNCHANGED <<options, arena, fed, end, out_of_patience, disk, score,
                   first, uniform, starts>>

(***************************************************************************)
(* The training loop: a step, its evaluation, its checkpoint.              *)
(***************************************************************************)

\* The windows of steps whose training losses the report averages: those of this
\* process, the first and the last of the count it was asked for.
Window(steps) == Max({1, Min({20, steps \div 5})})
AddToWindows(r, steps, loss) ==
    [r EXCEPT
        !.steps = @ + 1,
        !.initial_sum = IF r.steps < Window(steps) THEN @ + loss ELSE @,
        !.final_sum = IF r.steps >= steps - Window(steps) THEN @ + loss ELSE @,
        !.final_n = IF r.steps >= steps - Window(steps) THEN @ + 1 ELSE @]

TrainStep ==
    /\ pc = "loop" /\ engine.step < end
    /\ report' = AddToWindows(report, report.steps + end - engine.step,
                              score[engine.step + 1])
    /\ engine' = [engine EXCEPT !.step = @ + 1]
    /\ arena' = Append(arena, [at |-> fed, horizon |-> engine.horizon,
                               split |-> options.split])
    /\ fed' = fed + GradAccum
    /\ pc' = "evaluate"
    /\ UNCHANGED <<options, end, out_of_patience, seen, disk, score,
                   first, uniform, starts>>

\* should_stop.
Stop ==
    /\ pc = "loop" /\ engine.step < end
    /\ report' = [report EXCEPT !.stopped_early = TRUE]
    /\ pc' = "final"
    /\ UNCHANGED <<options, engine, arena, fed, end, out_of_patience, seen,
                   disk, score, first, uniform, starts>>

LoopEnds ==
    /\ pc = "loop" /\ engine.step = end
    /\ pc' = "final"
    /\ UNCHANGED <<options, engine, arena, fed, end, out_of_patience, report,
                   seen, disk, score, first, uniform, starts>>

\* Keyed on the global step; the last step is left to the final evaluation.
EvaluationDue ==
    track_best /\ engine.step % eval_every = 0 /\ engine.step < end

Evaluate ==
    /\ pc = "evaluate"
    /\ IF EvaluationDue
         THEN /\ engine' = IF Loss < engine.best_loss
                             THEN SnapshotBest(engine, Loss, AccuracyNow)
                             ELSE [engine EXCEPT !.stale_evals = @ + 1]
              /\ out_of_patience' =
                    (/\ Loss >= engine.best_loss
                     /\ Patience > 0 /\ engine.stale_evals + 1 >= Patience)
              /\ seen' = seen \cup {Loss}
         ELSE UNCHANGED <<engine, out_of_patience, seen>>
    /\ pc' = "checkpoint"
    /\ UNCHANGED <<options, arena, fed, end, report, disk, score, first,
                   uniform, starts>>

Checkpoint ==
    /\ pc = "checkpoint"
    /\ disk' = IF engine.step % CheckpointEvery = 0 THEN CheckpointRecord
               ELSE disk
    /\ pc' = IF out_of_patience THEN "final" ELSE "loop"
    /\ UNCHANGED <<options, engine, arena, fed, end, out_of_patience, report,
                   seen, score, first, uniform, starts>>

\* The final evaluation; the best state is put back in the arena.
Final ==
    /\ pc = "final"
    /\ IF validation
         THEN LET e == IF track_best /\ Loss < engine.best_loss
                         THEN SnapshotBest(engine, Loss, AccuracyNow) ELSE engine IN
              /\ engine' = e
              /\ arena' = IF track_best /\ e.best_step # e.step
                            THEN e.best_state ELSE arena
              /\ report' = [report EXCEPT
                    !.val_final = IF track_best THEN e.best_loss ELSE Loss,
                    !.val_final_accuracy =
                        IF track_best THEN e.best_accuracy ELSE AccuracyNow,
                    !.best_step = IF track_best THEN e.best_step ELSE 0]
              /\ seen' = seen \cup {Loss}
         ELSE UNCHANGED <<engine, arena, report, seen>>
    /\ pc' = "returned"
    /\ UNCHANGED <<options, fed, end, out_of_patience, disk, score, first,
                   uniform, starts>>

\* The process ends: it returned, it was killed, or a step, an evaluation or a
\* checkpoint failed.  The arena goes with it.
Exit ==
    /\ pc # "down"
    /\ pc' = "down"
    /\ engine' = NewEngine /\ arena' = <<>> /\ fed' = 0 /\ end' = 0
    /\ out_of_patience' = FALSE /\ report' = NoReport /\ seen' = {}
    /\ UNCHANGED <<options, disk, score, first, uniform, starts>>

Next ==
    \/ \E o \in Options : Start(o)
    \/ Baseline
    \/ TrainStep \/ Stop \/ LoopEnds \/ Evaluate \/ Checkpoint
    \/ Final \/ Exit

Spec == Init /\ [][Next]_vars

(***************************************************************************)
(* Reference: the same run in one process, judged by its losses.           *)
(***************************************************************************)
TotalSteps == HorizonOf(first, NewEngine)

UninterruptedArena(n) ==
    [k \in 1..n |-> [at |-> (k - 1) * GradAccum,
                     horizon |-> TotalSteps,
                     split |-> first.split]]

\* What periodic evaluation makes of a verdict v at step s; the last step is left
\* to the final evaluation.
Judge(v, s) ==
    IF v.ended THEN v
    ELSE IF s % EvalEveryOf(first, TotalSteps) # 0 \/ s = TotalSteps
      THEN [v EXCEPT !.last = s]
    ELSE IF score[s] < score[v.best]
      THEN [v EXCEPT !.last = s, !.best = s, !.stale = 0]
    ELSE [v EXCEPT !.last = s, !.stale = @ + 1,
            !.ended = Patience > 0 /\ v.stale + 1 >= Patience]

\* What it has decided after step s.
Verdict[s \in 0..TotalSteps] ==
    IF s = 0 THEN [best |-> 0, stale |-> 0, ended |-> FALSE, last |-> 0]
    ELSE Judge(Verdict[s - 1], s)

\* The step whose state an uninterrupted run leaves.
FinalStep ==
    IF first.split = 0 \/ first.eval_every = 0 THEN TotalSteps
    ELSE LET v == Verdict[TotalSteps] IN
         IF score[v.last] < score[v.best] THEN v.last ELSE v.best

(***************************************************************************)
(* Properties.                                                             *)
(***************************************************************************)
Completed ==
    pc = "returned" /\ ~report.stopped_early /\ end = engine.horizon

\* "An interrupted-and-resumed update is bit-identical to an uninterrupted
\* one" (update_engine.h:60-63): however often the chain was killed, stopped
\* and resumed, the run that completes leaves the state, from the same rows
\* under the same schedule, and reports the losses, of a run in one process.
ResumedIsUninterrupted ==
    Completed /\ uniform =>
        /\ arena = UninterruptedArena(FinalStep)
        /\ validation => /\ report.val_initial = score[0]
                         /\ report.val_final = score[FinalStep]
                         /\ report.val_final_accuracy = Accuracy[FinalStep]

\* Every row of an update comes from the training half of one split: no resume
\* trains on rows an earlier process validated on (update_engine.cc:783-799).
OneSplit ==
    \A j, k \in DOMAIN arena : arena[j].split = arena[k].split

\* The gate compares the source model with what ships: whatever the options of
\* the processes were, the report's first loss is the source's, its last one
\* is the loss of the state in the arena, and with best tracking no state this
\* process evaluated was better (update_engine.cc:869-911, 1043-1068).
ReportScoresWhatShips ==
    pc = "returned" /\ validation =>
        /\ report.val_initial = score[0]
        /\ report.val_final = Loss
        /\ report.val_initial_accuracy = Accuracy[0]
        /\ report.val_final_accuracy = AccuracyNow
        /\ track_best => \A l \in seen : Loss <= l
=============================================================================
