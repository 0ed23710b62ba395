-------------------------- MODULE DeviceUpdateProofs --------------------------
(***************************************************************************)
(* Proofs about DeviceUpdate, which is Train with the gate, the merge and  *)
(* the commit: for every horizon, cadence, patience, split, loss curve and *)
(* accuracy, and every chain of kills, stops and resumes.                  *)
(*                                                                         *)
(* The argument is that every score travels with the state it is the score *)
(* of.  The engine's members and the checkpoint's name the number of steps *)
(* behind each state they keep (StateIsTrained, BestIsScored,              *)
(* DiskIsTrained), so a loss is never compared with one of another state,  *)
(* and the split of a state with the split it was trained on, so a resume  *)
(* that would mix two is refused.                                          *)
(*                                                                         *)
(* Chain adds that the rows of a state are consecutive and of one horizon, *)
(* and Judged that the best step a chain keeps is, after every step, the   *)
(* one the run in one process keeps.  What that run keeps is computed by   *)
(* recursion over its steps: Induction, an induction principle for sets of *)
(* numbers, unfolds it.                                                    *)
(***************************************************************************)
EXTENDS DeviceUpdate, WellFoundedInduction, TLAPS

\* One optimizer step of a state.
Row == [at : Nat, horizon : Nat, split : Splits]

EngineType ==
    [step : Nat, horizon : Nat, split : Splits \cup {0},
     has_val_initial : BOOLEAN, val_initial : Int, val_initial_accuracy : Nat,
     has_best : BOOLEAN, best_step : Nat, best_loss : Int, best_accuracy : Nat,
     best_state : Seq(Row), stale_evals : Nat]

ReportType ==
    [val_initial : Int, val_initial_accuracy : Nat,
     val_final : Int, val_final_accuracy : Nat, best_step : Nat,
     steps : Nat, initial_sum : Int, final_sum : Int, final_n : Nat,
     stopped_early : BOOLEAN]

TrainPc ==
    {"down", "baseline", "loop", "evaluate", "checkpoint", "final", "returned",
     "merge", "commit", "committed", "rejected"}

\* While the arena holds the state of the engine's step.
Stepping == {"baseline", "loop", "evaluate", "checkpoint", "final"}

\* Once the baseline has been measured, and once the report is complete.
Measuring == {"loop", "evaluate", "checkpoint", "final"}
Reported == {"returned", "merge", "commit", "committed", "rejected"}

\* A state of n optimizer steps on the rows of one split.
Trained(state, n, split) ==
    /\ state \in Seq(Row)
    /\ Len(state) = n /\ n <= MaxStep
    /\ \A k \in DOMAIN state : state[k].split = split

\* The members that score a state tell the truth about it.
Scored(e) ==
    /\ e.step > 0 /\ e.split # 0 => e.has_val_initial
    /\ e.has_val_initial => /\ e.val_initial = score[0]
                            /\ e.val_initial_accuracy = Accuracy[0]
    /\ e.has_best => /\ e.best_step <= MaxStep
                     /\ e.best_loss = score[e.best_step]
                     /\ e.best_accuracy = Accuracy[e.best_step]

(***************************************************************************)
(* The inductive invariant.                                                *)
(***************************************************************************)

StateTyped ==
    /\ pc \in TrainPc
    /\ options \in Options
    /\ engine \in EngineType /\ disk.members \in EngineType
    /\ fed \in Nat /\ end \in Nat /\ end <= MaxStep
    /\ report \in ReportType
    /\ score \in [0..MaxStep -> Losses]
    /\ seen \subseteq Int

\* What a process holds is of the options it was given.
StateIsTrained ==
    /\ pc = "down" => seen = {} /\ arena = <<>>
    /\ pc = "baseline" => seen = {}
    /\ pc # "down" =>
        /\ engine.split = options.split
        /\ Trained(arena, Len(arena), options.split)
    /\ pc \in Stepping => Len(arena) = engine.step

BestIsScored ==
    /\ Scored(engine)
    /\ engine.has_best =>
        Trained(engine.best_state, engine.best_step, engine.split)
    /\ pc \in Measuring /\ validation => engine.has_val_initial
    /\ pc \in Measuring /\ track_best =>
        /\ engine.has_best
        /\ \A l \in seen : engine.best_loss <= l
    /\ pc \in Measuring /\ validation =>
        /\ report.val_initial = score[0]
        /\ report.val_initial_accuracy = Accuracy[0]

\* A checkpoint restores what the engine kept.
DiskIsTrained ==
    /\ Scored(disk.members)
    /\ Trained(disk.payload, disk.members.step, disk.members.split)
    /\ disk.members.has_best =>
        /\ disk.best_payload = {} => disk.members.best_step = disk.members.step
        /\ \A best \in disk.best_payload :
            Trained(best, disk.members.best_step, disk.members.split)

ReportIsScored ==
    pc \in Reported /\ validation =>
        /\ report.val_initial = score[0]
        /\ report.val_final = Loss
        /\ report.val_initial_accuracy = Accuracy[0]
        /\ report.val_final_accuracy = AccuracyNow
        /\ track_best => \A l \in seen : Loss <= l

\* What is merged and committed passed the gate.
GateIsPassed ==
    /\ pc \in {"merge", "commit", "committed"} /\ ~forced =>
        ImprovedBy(report) /\ (required => AccuracyHeld(report))
    /\ pc \in {"commit", "committed"} => deltas = {arena}
    /\ pc = "committed" => out = {arena}

IInv ==
    /\ StateTyped
    /\ StateIsTrained
    /\ BestIsScored
    /\ DiskIsTrained
    /\ ReportIsScored
    /\ GateIsPassed

-----------------------------------------------------------------------------
(* Lemmas about the operators. *)

\* The larger of a number and 0.
LEMMA MaxWithZero ==
    ASSUME NEW a \in Int
    PROVE  Max({a, 0}) \in Nat
<1> DEFINE m == IF a >= 0 THEN a ELSE 0
<1>1. m \in {a, 0} /\ \A y \in {a, 0} : m >= y
  OBVIOUS
<1>2. \A x : (x \in {a, 0} /\ \A y \in {a, 0} : x >= y) => x = m
  OBVIOUS
<1>3. m \in Nat
  OBVIOUS
<1> HIDE DEF m
<1>4. Max({a, 0}) = m
  BY <1>1, <1>2 DEF Max
<1> QED
  BY <1>3, <1>4

\* The count and the horizon a run resolves are numbers
\* (update_engine.cc:701-735).
LEMMA CountsResolve ==
    ASSUME NEW o \in Options, NEW e \in EngineType
    PROVE  StepsOf(o, e) \in Nat /\ HorizonOf(o, e) \in Nat
<1>1. o.steps \in Nat /\ o.horizon \in Nat /\ DefaultSteps \in Nat
  <2>1. o.steps \in StepCounts /\ o.horizon \in Horizons
    BY DEF Options
  <2>2. MaxStep \in Nat /\ DefaultSteps \in 1..MaxStep
    BY TrainAssumption
  <2>3. DefaultSteps \in Nat
    BY <2>2
  <2> QED
    BY <2>1, <2>3, TrainAssumption
<1>2. e.step \in Nat /\ e.horizon \in Nat
  BY DEF EngineType
<1>3. Max({e.horizon - e.step, 0}) \in Nat
  BY <1>2, MaxWithZero
<1>4. StepsOf(o, e) \in Nat
  BY <1>1, <1>3 DEF StepsOf
<1> QED
  BY <1>1, <1>2, <1>4 DEF HorizonOf

\* Every state of at most MaxStep steps has a loss and an accuracy.
LEMMA StatesHaveScores ==
    ASSUME StateTyped, NEW n \in Nat, n <= MaxStep
    PROVE  score[n] \in Int /\ Accuracy[n] \in Nat
<1>1. n \in 0..MaxStep
  BY TrainAssumption
<1> QED
  BY <1>1, TrainAssumption DEF StateTyped

\* One more step on the rows of the same split.
LEMMA TrainOnce ==
    ASSUME NEW state, NEW split, NEW n \in Nat, Trained(state, n, split),
           n < MaxStep, NEW row \in Row, row.split = split
    PROVE  Trained(Append(state, row), n + 1, split)
<1>1. state \in Seq(Row) /\ Len(state) = n
  BY DEF Trained
<1>2. /\ Append(state, row) \in Seq(Row)
      /\ Len(Append(state, row)) = n + 1
      /\ \A k \in 1..n : Append(state, row)[k] = state[k]
      /\ Append(state, row)[n + 1] = row
  BY <1>1
<1>3. \A k \in 1..n : state[k].split = split
  BY <1>1 DEF Trained
<1>4. \A k \in 1..(n + 1) : Append(state, row)[k].split = split
  BY <1>2, <1>3
<1>5. n + 1 <= MaxStep
  BY TrainAssumption
<1> QED
  BY <1>2, <1>4, <1>5 DEF Trained

\* A state of no steps is of every split.
LEMMA Untrained ==
    ASSUME NEW state, NEW split, NEW other, Trained(state, 0, other)
    PROVE  Trained(state, 0, split)
BY DEF Trained

\* The empty arena is the source model's.
LEMMA SourceIsUntrained ==
    ASSUME NEW split
    PROVE  Trained(<<>>, 0, split)
BY TrainAssumption DEF Trained

\* A snapshot of the state in the arena, with its score, is the best so far
\* (update_engine.cc:855-867).
LEMMA SnapshotIsScored ==
    ASSUME StateTyped, NEW e \in EngineType, Scored(e),
           Trained(arena, e.step, e.split)
    PROVE  LET b == SnapshotBest(e, score[e.step], Accuracy[e.step]) IN
           /\ b \in EngineType /\ Scored(b)
           /\ b.has_best /\ b.best_loss = score[e.step] /\ b.best_step = e.step
           /\ b.best_accuracy = Accuracy[e.step]
           /\ Trained(b.best_state, b.best_step, b.split)
           /\ b.step = e.step /\ b.split = e.split /\ b.horizon = e.horizon
           /\ b.has_val_initial = e.has_val_initial
           /\ b.val_initial = e.val_initial
           /\ b.val_initial_accuracy = e.val_initial_accuracy
           /\ b.best_state = arena
<1> DEFINE b == SnapshotBest(e, score[e.step], Accuracy[e.step])
<1>1. e.step \in Nat /\ e.step <= MaxStep /\ arena \in Seq(Row)
  BY DEF EngineType, Trained
<1>2. score[e.step] \in Int /\ Accuracy[e.step] \in Nat
  BY <1>1, StatesHaveScores
<1>3. b \in EngineType
  BY <1>1, <1>2 DEF SnapshotBest, EngineType
<1>4. /\ b.has_best /\ b.best_loss = score[e.step] /\ b.best_step = e.step
      /\ b.best_accuracy = Accuracy[e.step]
      /\ b.step = e.step /\ b.split = e.split /\ b.horizon = e.horizon
      /\ b.has_val_initial = e.has_val_initial
      /\ b.val_initial = e.val_initial
      /\ b.val_initial_accuracy = e.val_initial_accuracy
      /\ b.best_state = arena
  BY DEF SnapshotBest, EngineType
<1> HIDE DEF b
<1>5. Scored(b)
  BY <1>1, <1>4 DEF Scored
<1> QED
  BY <1>3, <1>4, <1>5 DEF b

\* A training loss enters the averages of the report and leaves its scores
\* (update_engine.cc:946-958).
LEMMA WindowsAdd ==
    ASSUME NEW r \in ReportType, NEW steps, NEW loss \in Int
    PROVE  /\ AddToWindows(r, steps, loss) \in ReportType
           /\ AddToWindows(r, steps, loss).val_initial = r.val_initial
           /\ AddToWindows(r, steps, loss).val_initial_accuracy =
                r.val_initial_accuracy
<1> DEFINE head == r.steps < Window(steps)
           tail == r.steps >= steps - Window(steps)
           initial_sum == IF head THEN r.initial_sum + loss ELSE r.initial_sum
           final_sum == IF tail THEN r.final_sum + loss ELSE r.final_sum
           final_n == IF tail THEN r.final_n + 1 ELSE r.final_n
<1>1. /\ initial_sum \in Int /\ final_sum \in Int
      /\ final_n \in Nat /\ r.steps + 1 \in Nat
  BY DEF ReportType
<1>2. AddToWindows(r, steps, loss) =
        [r EXCEPT !.steps = r.steps + 1, !.initial_sum = initial_sum,
                  !.final_sum = final_sum, !.final_n = final_n]
  BY DEF AddToWindows, ReportType
<1> HIDE DEF head, tail, initial_sum, final_sum, final_n
<1> QED
  BY <1>1, <1>2 DEF ReportType

-----------------------------------------------------------------------------
(* The parts a step leaves alone. *)

\* The checkpoint keeps what it was.
LEMMA DiskKept ==
    ASSUME DiskIsTrained, UNCHANGED <<disk, score>>
    PROVE  DiskIsTrained'
BY DEF DiskIsTrained, Scored, Trained

\* Before it returns a process has nothing to report, merge or commit.
LEMMA NothingReported ==
    ASSUME pc' \notin Reported
    PROVE  ReportIsScored' /\ GateIsPassed'
BY DEF ReportIsScored, GateIsPassed, Reported

-----------------------------------------------------------------------------
(* The steps of a process. *)

\* The chain begins without a checkpoint.
LEMMA IInvInit == DeviceInit => IInv
<1> SUFFICES ASSUME DeviceInit PROVE IInv
  OBVIOUS
<1> USE DEF DeviceInit, Init
<1>1. NewEngine \in EngineType
  BY DEF NewEngine, EngineType
<1>2. StateTyped
  BY <1>1, TrainAssumption
  DEF StateTyped, TrainPc, NoCheckpoint, NoReport, ReportType
<1>3. Scored(NewEngine)
  BY DEF Scored, NewEngine
<1>4. StateIsTrained
  BY DEF StateIsTrained, Stepping
<1>5. BestIsScored
  BY <1>3 DEF BestIsScored, NewEngine, Measuring
<1>6. DiskIsTrained
  BY <1>3, SourceIsUntrained DEF DiskIsTrained, NoCheckpoint, NewEngine
<1>7. ReportIsScored /\ GateIsPassed
  BY DEF ReportIsScored, GateIsPassed, Reported
<1> QED
  BY <1>2, <1>4, <1>5, <1>6, <1>7 DEF IInv

\* What a process restores is trained and scored: its best state comes from the
\* payload of its own, or from the main one when they are the same
\* (update_engine.cc:561-668).
LEMMA RestoredIsTrained ==
    ASSUME IInv
    PROVE  /\ Restored \in EngineType /\ Scored(Restored)
           /\ Trained(disk.payload, Restored.step, Restored.split)
           /\ Restored.has_best =>
                /\ Restored.step > 0
                /\ Trained(Restored.best_state, Restored.best_step,
                           Restored.split)
<1> DEFINE m == disk.members
           best == IF ~m.has_best THEN <<>>
                   ELSE IF disk.best_payload = {} THEN disk.payload
                   ELSE CHOOSE b \in disk.best_payload : TRUE
<1>1. m \in EngineType /\ Scored(m) /\ Trained(disk.payload, m.step, m.split)
  BY DEF IInv, StateTyped, DiskIsTrained
<1>2. m.has_best => Trained(best, m.best_step, m.split)
  <2>1. CASE disk.best_payload = {}
    BY <2>1, <1>1 DEF IInv, DiskIsTrained
  <2>2. CASE disk.best_payload # {}
    BY <2>2 DEF IInv, DiskIsTrained
  <2> QED
    BY <2>1, <2>2
<1>3. best \in Seq(Row)
  <2>1. CASE m.has_best
    BY <2>1, <1>2 DEF Trained
  <2>2. CASE ~m.has_best
    BY <2>2
  <2> QED
    BY <2>1, <2>2
<1>4. CASE Resumes
  <2>1. Restored = [m EXCEPT !.best_state = best]
    BY <1>4 DEF Restored, LoadCheckpoint
  <2> HIDE DEF best, m
  <2>2. /\ Restored \in EngineType /\ Restored.best_state = best
        /\ Restored.step = m.step /\ Restored.split = m.split
        /\ Restored.has_val_initial = m.has_val_initial
        /\ Restored.val_initial = m.val_initial
        /\ Restored.val_initial_accuracy = m.val_initial_accuracy
        /\ Restored.has_best = m.has_best /\ Restored.best_step = m.best_step
        /\ Restored.best_loss = m.best_loss
        /\ Restored.best_accuracy = m.best_accuracy
    BY <2>1, <1>1, <1>3 DEF EngineType
  <2>3. Scored(Restored)
    BY <2>2, <1>1 DEF Scored
  <2> QED
    BY <2>2, <2>3, <1>1, <1>2, <1>4 DEF Resumes, m
<1>5. CASE ~Resumes
  <2>1. Restored = NewEngine
    BY <1>5 DEF Restored
  <2>2. m.step = 0
    BY <1>1, <1>5 DEF Resumes, EngineType
  <2>3. Trained(disk.payload, 0, 0)
    BY <1>1, <2>2, Untrained
  <2>4. NewEngine \in EngineType /\ Scored(NewEngine)
    BY DEF NewEngine, EngineType, Scored
  <2> QED
    BY <2>1, <2>3, <2>4 DEF NewEngine
<1> QED
  BY <1>4, <1>5

\* A process starts from what the checkpoint holds, with the split of its options:
\* a checkpoint of another split is refused (update_engine.cc:783-799).
LEMMA StartStep ==
    ASSUME IInv, NEW o \in Options, Start(o)
    PROVE  IInv'
<1> DEFINE e == Restored
           n == StepsOf(o, e)
           h == HorizonOf(o, e)
<1>0. IInv /\ StateTyped /\ StateIsTrained /\ DiskIsTrained
  BY DEF IInv
<1>1. /\ e \in EngineType /\ Scored(e)
      /\ Trained(disk.payload, e.step, e.split)
      /\ e.has_best => e.step > 0 /\ Trained(e.best_state, e.best_step, e.split)
  BY <1>0, RestoredIsTrained
<1>2. n \in Nat /\ h \in Nat
  BY <1>1, CountsResolve
<1>3. /\ pc = "down" /\ pc' = "baseline" /\ options' = o
      /\ e.step + n <= MaxStep /\ end' = e.step + n
      /\ arena' = disk.payload /\ fed' = e.step * GradAccum
      /\ engine' = [e EXCEPT !.horizon = h, !.split = o.split]
      /\ UNCHANGED <<out_of_patience, report, seen, disk, score>>
  BY DEF Start, SkipServed
<1>4. e.step > 0 => e.split = o.split
  BY DEF Start, Refused
<1> HIDE DEF e, n, h
<1>5. o.split \in Splits
  BY DEF Options
<1>6. /\ engine' \in EngineType
      /\ engine'.step = e.step /\ engine'.split = o.split
      /\ engine'.has_val_initial = e.has_val_initial
      /\ engine'.val_initial = e.val_initial
      /\ engine'.val_initial_accuracy = e.val_initial_accuracy
      /\ engine'.has_best = e.has_best /\ engine'.best_step = e.best_step
      /\ engine'.best_loss = e.best_loss
      /\ engine'.best_accuracy = e.best_accuracy
      /\ engine'.best_state = e.best_state
  BY <1>1, <1>2, <1>3, <1>5 DEF EngineType
<1>7. e.step \in Nat
  BY <1>1 DEF EngineType
<1>8. StateTyped'
  <2>1. fed' \in Nat /\ end' \in Nat /\ end' <= MaxStep
    BY <1>2, <1>3, <1>7, TrainAssumption
  <2> QED
    BY <2>1, <1>0, <1>3, <1>6 DEF StateTyped, TrainPc
<1>9. Trained(arena', e.step, o.split)
  BY <1>1, <1>3, <1>4, <1>7, Untrained
<1>10. StateIsTrained'
  BY <1>9, <1>0, <1>3, <1>6 DEF StateIsTrained, Trained
<1>11. ASSUME e.has_best PROVE Trained(e.best_state, e.best_step, o.split)
  BY <1>1, <1>4, <1>11
<1>12. Scored(e)
  BY <1>1
<1>13. BestIsScored'
  <2>1. Scored(engine)'
    BY <1>12, <1>3, <1>4, <1>6, <1>7 DEF Scored
  <2>2. engine'.has_best =>
            Trained(engine.best_state, engine.best_step, engine.split)'
    BY <1>11, <1>6 DEF Trained
  <2>3. pc' \notin Measuring
    BY <1>3 DEF Measuring
  <2> QED
    BY <2>1, <2>2, <2>3 DEF BestIsScored
<1>14. DiskIsTrained'
  BY <1>0, <1>3, DiskKept
<1>15. ReportIsScored' /\ GateIsPassed'
  BY <1>3, NothingReported DEF Reported
<1> QED
  BY <1>8, <1>10, <1>13, <1>14, <1>15 DEF IInv

\* The baseline is the source model's score, measured before the first step or
\* carried by the checkpoint, and the bar is the score of the state the process
\* starts from (update_engine.cc:869-911).
LEMMA BaselineStep ==
    ASSUME IInv, Baseline
    PROVE  IInv'
<1> DEFINE kept == engine.step > 0 /\ engine.has_val_initial
           measured ==
            IF kept THEN engine
            ELSE [engine EXCEPT !.has_val_initial = TRUE, !.val_initial = Loss,
                                !.val_initial_accuracy = AccuracyNow]
           start_loss == IF engine.step > 0 THEN Loss ELSE measured.val_initial
           start_accuracy == IF engine.step > 0 THEN AccuracyNow
                             ELSE measured.val_initial_accuracy
           loss == score[engine.step]
           accuracy == Accuracy[engine.step]
           best == SnapshotBest(measured, loss, accuracy)
<1>0. StateTyped /\ StateIsTrained /\ BestIsScored /\ DiskIsTrained
  BY DEF IInv
<1>1. /\ pc = "baseline" /\ pc' = "loop"
      /\ engine' = IF ~validation THEN engine
                   ELSE IF track_best /\ ~engine.has_best
                     THEN SnapshotBest(measured, start_loss, start_accuracy)
                     ELSE measured
      /\ report' = [report EXCEPT
            !.val_initial = engine'.val_initial,
            !.val_initial_accuracy = engine'.val_initial_accuracy]
      /\ seen' = IF track_best /\ ~engine.has_best THEN {Loss} ELSE seen
      /\ UNCHANGED <<options, arena, fed, end, out_of_patience, disk, score>>
  BY DEF Baseline
<1>1a. /\ report'.val_initial = engine'.val_initial
       /\ report'.val_initial_accuracy = engine'.val_initial_accuracy
  BY <1>0, <1>1 DEF StateTyped, ReportType
<1>2. /\ engine \in EngineType /\ engine.step = Len(arena)
      /\ engine.split = options.split /\ seen = {}
      /\ Trained(arena, engine.step, engine.split)
  BY <1>0, <1>1 DEF StateIsTrained, StateTyped, Stepping
<1>3. engine.step \in Nat /\ engine.step <= MaxStep /\ 0 <= MaxStep
  BY <1>2, TrainAssumption DEF EngineType, Trained
<1>4. Loss = loss /\ AccuracyNow = accuracy
  BY <1>2 DEF Loss, AccuracyNow
<1>5. loss \in Int /\ accuracy \in Nat
  BY <1>0, <1>3, StatesHaveScores
<1>6. /\ measured \in EngineType
      /\ measured.step = engine.step /\ measured.split = engine.split
      /\ measured.horizon = engine.horizon
      /\ measured.has_best = engine.has_best
      /\ measured.best_step = engine.best_step
      /\ measured.best_loss = engine.best_loss
      /\ measured.best_accuracy = engine.best_accuracy
      /\ measured.best_state = engine.best_state
      /\ measured.has_val_initial
      /\ ~kept => measured.val_initial = loss /\ measured.val_initial_accuracy = accuracy
      /\ kept => measured = engine
  <2>1. CASE kept
    BY <2>1, <1>2
  <2>2. CASE ~kept
    BY <2>2, <1>2, <1>4, <1>5 DEF EngineType
  <2> QED
    BY <2>1, <2>2
<1> HIDE DEF loss, accuracy
<1>7. start_loss = loss /\ start_accuracy = accuracy
  BY <1>4, <1>6
<1>8. Scored(engine)
  BY <1>0 DEF BestIsScored
<1> HIDE DEF measured, start_loss, start_accuracy
\* At step 0 the loss is the source model's; later the checkpoint carries it.
<1>9. ASSUME validation
      PROVE  measured.val_initial = score[0] /\ measured.val_initial_accuracy = Accuracy[0]
  <2>1. CASE kept
    BY <2>1, <1>6, <1>8 DEF Scored
  <2>2. CASE ~kept
    <3>1. engine.step = 0
      BY <2>2, <1>2, <1>3, <1>8, <1>9 DEF Scored, validation
    <3> QED
      BY <3>1, <2>2, <1>6 DEF loss, accuracy
  <2> QED
    BY <2>1, <2>2
<1> HIDE DEF kept
<1>10. ASSUME validation PROVE Scored(measured)
  BY <1>6, <1>8, <1>9, <1>10 DEF Scored
<1>11. ASSUME validation
       PROVE  /\ best \in EngineType /\ Scored(best)
              /\ best.has_best /\ best.best_loss = loss
              /\ Trained(best.best_state, best.best_step, best.split)
              /\ best.step = engine.step /\ best.split = engine.split
              /\ best.horizon = engine.horizon
              /\ best.has_val_initial
              /\ best.val_initial = measured.val_initial
              /\ best.val_initial_accuracy = measured.val_initial_accuracy
  BY <1>0, <1>2, <1>6, <1>10, <1>11, SnapshotIsScored DEF loss, accuracy
<1>12. engine' = IF ~validation THEN engine
                 ELSE IF track_best /\ ~engine.has_best THEN best ELSE measured
  BY <1>1, <1>7
<1> HIDE DEF best
<1>13. /\ engine' \in EngineType
       /\ engine'.step = engine.step /\ engine'.split = engine.split
       /\ engine'.horizon = engine.horizon
       /\ Scored(engine')
       /\ engine'.has_best =>
            Trained(engine'.best_state, engine'.best_step, engine'.split)
       /\ validation => /\ engine'.has_val_initial
                        /\ engine'.val_initial = score[0]
                        /\ engine'.val_initial_accuracy = Accuracy[0]
  <2>1. CASE ~validation
    BY <2>1, <1>0, <1>2, <1>8, <1>12 DEF BestIsScored
  <2>2. CASE validation /\ track_best /\ ~engine.has_best
    BY <2>2, <1>9, <1>11, <1>12
  <2>3. CASE validation /\ ~(track_best /\ ~engine.has_best)
    BY <2>3, <1>0, <1>6, <1>9, <1>10, <1>12 DEF BestIsScored
  <2> QED
    BY <2>1, <2>2, <2>3
<1>14. track_best' = track_best /\ validation' = validation
  BY <1>1, <1>13 DEF track_best, validation, eval_every
<1>15. track_best => /\ engine'.has_best
                     /\ \A l \in seen' : engine'.best_loss <= l
  <2>1. CASE track_best /\ ~engine.has_best
    BY <2>1, <1>1, <1>4, <1>5, <1>11, <1>12 DEF track_best
  <2>2. CASE track_best /\ engine.has_best
    BY <2>2, <1>1, <1>2, <1>6, <1>12 DEF track_best
  <2> QED
    BY <2>1, <2>2
<1>16. StateTyped'
  <2>1. report' \in ReportType
    <3>1. engine'.val_initial \in Int /\ engine'.val_initial_accuracy \in Nat
      BY <1>13 DEF EngineType
    <3> QED
      BY <3>1, <1>0 DEF Baseline, StateTyped, ReportType
  <2>2. seen' \subseteq Int
    BY <1>1, <1>2, <1>4, <1>5
  <2> QED
    BY <2>1, <2>2, <1>0, <1>1, <1>13 DEF StateTyped, TrainPc
<1>17. StateIsTrained'
  BY <1>1, <1>2, <1>13 DEF StateIsTrained, Trained, Stepping
<1>18. BestIsScored'
  <2>1. Scored(engine)' /\ (engine'.has_best =>
            Trained(engine.best_state, engine.best_step, engine.split)')
    BY <1>1, <1>13 DEF Scored, Trained
  <2>2. validation' => /\ report'.val_initial = score'[0]
                       /\ report'.val_initial_accuracy = Accuracy[0]
                       /\ engine'.has_val_initial
    BY <1>1, <1>13, <1>14, <1>1a
  <2> QED
    BY <2>1, <2>2, <1>14, <1>15 DEF BestIsScored
<1>19. DiskIsTrained'
  BY <1>0, <1>1, DiskKept
<1>20. ReportIsScored' /\ GateIsPassed'
  BY <1>1, NothingReported DEF Reported
<1> QED
  BY <1>16, <1>17, <1>18, <1>19, <1>20 DEF IInv

\* One optimizer step adds a row of the options' split to the arena
\* (update_engine.cc:922-958).
LEMMA TrainStepStep ==
    ASSUME IInv, TrainStep
    PROVE  IInv'
<1> DEFINE row == [at |-> fed, horizon |-> engine.horizon, split |-> options.split]
           loss == score[engine.step + 1]
           n == report.steps + end - engine.step
<1>0. StateTyped /\ StateIsTrained /\ BestIsScored /\ DiskIsTrained
  BY DEF IInv
<1>1. /\ pc = "loop" /\ engine.step < end /\ pc' = "evaluate"
      /\ report' = AddToWindows(report, n, loss)
      /\ engine' = [engine EXCEPT !.step = @ + 1]
      /\ arena' = Append(arena, row)
      /\ fed' = fed + GradAccum
      /\ UNCHANGED <<options, end, out_of_patience, seen, disk, score>>
  BY DEF TrainStep
<1>2. /\ engine \in EngineType /\ engine.step = Len(arena)
      /\ engine.split = options.split
      /\ Trained(arena, engine.step, engine.split)
  BY <1>0, <1>1 DEF StateIsTrained, StateTyped, Stepping
<1>3. /\ engine.step \in Nat /\ engine.step < MaxStep
      /\ engine.step + 1 \in Nat /\ engine.step + 1 <= MaxStep
  <2>1. engine.step \in Nat
    BY <1>2 DEF EngineType
  <2>2. end \in Nat /\ end <= MaxStep /\ MaxStep \in Nat
    BY <1>0, TrainAssumption DEF StateTyped
  <2> QED
    BY <2>1, <2>2, <1>1
<1>4. loss \in Int
  BY <1>0, <1>3, StatesHaveScores
<1> HIDE DEF loss, n
<1>5. /\ engine' \in EngineType
      /\ engine'.step = engine.step + 1
      /\ engine'.split = engine.split /\ engine'.horizon = engine.horizon
      /\ engine'.has_val_initial = engine.has_val_initial
      /\ engine'.val_initial = engine.val_initial
      /\ engine'.val_initial_accuracy = engine.val_initial_accuracy
      /\ engine'.has_best = engine.has_best
      /\ engine'.best_step = engine.best_step
      /\ engine'.best_loss = engine.best_loss
      /\ engine'.best_accuracy = engine.best_accuracy
      /\ engine'.best_state = engine.best_state
  BY <1>1, <1>2, <1>3 DEF EngineType
<1>6. row \in Row
  BY <1>0, <1>2 DEF StateTyped, EngineType, Row, Options
<1> HIDE DEF row
<1>7. Trained(arena', engine.step + 1, engine.split)
  <2>1. row.split = engine.split
    BY <1>2 DEF row
  <2> QED
    BY <2>1, <1>1, <1>2, <1>3, <1>6, TrainOnce
<1>8. /\ report' \in ReportType
      /\ report'.val_initial = report.val_initial
      /\ report'.val_initial_accuracy = report.val_initial_accuracy
  BY <1>0, <1>1, <1>4, WindowsAdd DEF StateTyped
<1>9. track_best' = track_best /\ validation' = validation
  BY <1>1, <1>5 DEF track_best, validation, eval_every
<1>10. StateTyped'
  <2>1. fed' \in Nat
    BY <1>0, <1>1, TrainAssumption DEF StateTyped
  <2> QED
    BY <2>1, <1>0, <1>1, <1>5, <1>8 DEF StateTyped, TrainPc
<1>11. StateIsTrained'
  BY <1>1, <1>2, <1>5, <1>7 DEF StateIsTrained, Trained, Stepping
<1>12. BestIsScored'
  <2>1. Scored(engine)'
    BY <1>0, <1>1, <1>2, <1>5
    DEF BestIsScored, Scored, Measuring, validation
  <2>2. engine'.has_best =>
            Trained(engine.best_state, engine.best_step, engine.split)'
    BY <1>0, <1>5 DEF BestIsScored, Trained
  <2> QED
    BY <2>1, <2>2, <1>0, <1>1, <1>5, <1>8, <1>9 DEF BestIsScored, Measuring
<1>13. DiskIsTrained'
  BY <1>0, <1>1, DiskKept
<1>14. ReportIsScored' /\ GateIsPassed'
  BY <1>1, NothingReported DEF Reported
<1> QED
  BY <1>10, <1>11, <1>12, <1>13, <1>14 DEF IInv

\* A stop, or the last step, leads to the final evaluation.
LEMMA LoopExitStep ==
    ASSUME IInv, Stop \/ LoopEnds
    PROVE  IInv'
<1>0. StateTyped /\ StateIsTrained /\ BestIsScored /\ DiskIsTrained
  BY DEF IInv
<1>1. /\ pc = "loop" /\ pc' = "final"
      /\ UNCHANGED <<options, engine, arena, fed, end, seen, disk, score>>
  BY DEF Stop, LoopEnds
<1>2. /\ report' \in ReportType
      /\ report'.val_initial = report.val_initial
      /\ report'.val_initial_accuracy = report.val_initial_accuracy
  BY <1>0 DEF Stop, LoopEnds, StateTyped, ReportType
<1>3. StateTyped'
  BY <1>0, <1>1, <1>2 DEF StateTyped, TrainPc
<1>4. StateIsTrained'
  BY <1>0, <1>1 DEF StateIsTrained, Trained, Stepping
<1>5. BestIsScored'
  BY <1>0, <1>1, <1>2
  DEF BestIsScored, Scored, Trained, Measuring, track_best, validation, eval_every
<1>6. DiskIsTrained'
  BY <1>0, <1>1, DiskKept
<1>7. ReportIsScored' /\ GateIsPassed'
  BY <1>1, NothingReported DEF Reported
<1> QED
  BY <1>3, <1>4, <1>5, <1>6, <1>7 DEF IInv

\* A periodic evaluation keeps the state that scored best
\* (update_engine.cc:962-1013).
LEMMA EvaluateStep ==
    ASSUME IInv, Evaluate
    PROVE  IInv'
<1> DEFINE loss == score[engine.step]
           accuracy == Accuracy[engine.step]
           best == SnapshotBest(engine, loss, accuracy)
           stale == [engine EXCEPT !.stale_evals = @ + 1]
<1>0. StateTyped /\ StateIsTrained /\ BestIsScored /\ DiskIsTrained
  BY DEF IInv
<1>1. /\ pc = "evaluate" /\ pc' = "checkpoint"
      /\ UNCHANGED <<options, arena, fed, end, report, disk, score>>
  BY DEF Evaluate
<1>2. /\ engine \in EngineType /\ engine.step = Len(arena)
      /\ engine.split = options.split
      /\ Trained(arena, engine.step, engine.split)
      /\ Scored(engine)
  BY <1>0, <1>1 DEF StateIsTrained, StateTyped, Stepping, BestIsScored
<1>3. engine.step \in Nat /\ engine.step <= MaxStep
  BY <1>2 DEF EngineType, Trained
<1>4. Loss = loss /\ AccuracyNow = accuracy
  BY <1>2 DEF Loss, AccuracyNow
<1>5. loss \in Int /\ accuracy \in Nat
  BY <1>0, <1>3, StatesHaveScores
<1>6. /\ best \in EngineType /\ Scored(best)
      /\ best.has_best /\ best.best_loss = loss
      /\ Trained(best.best_state, best.best_step, best.split)
      /\ best.step = engine.step /\ best.split = engine.split
      /\ best.horizon = engine.horizon
      /\ best.has_val_initial = engine.has_val_initial
  BY <1>0, <1>2, SnapshotIsScored
<1>7. /\ stale \in EngineType
      /\ stale.step = engine.step /\ stale.split = engine.split
      /\ stale.horizon = engine.horizon
      /\ stale.has_val_initial = engine.has_val_initial
      /\ stale.val_initial = engine.val_initial
      /\ stale.val_initial_accuracy = engine.val_initial_accuracy
      /\ stale.has_best = engine.has_best /\ stale.best_step = engine.best_step
      /\ stale.best_loss = engine.best_loss
      /\ stale.best_accuracy = engine.best_accuracy
      /\ stale.best_state = engine.best_state
  <2>1. engine.stale_evals + 1 \in Nat
    BY <1>2 DEF EngineType
  <2> QED
    BY <2>1, <1>2 DEF EngineType
<1>8. EvaluationDue => track_best
  BY DEF EvaluationDue
<1>9. \/ ~EvaluationDue /\ UNCHANGED <<engine, seen>>
      \/ /\ EvaluationDue /\ loss < engine.best_loss
         /\ engine' = best /\ seen' = seen \cup {loss}
      \/ /\ EvaluationDue /\ ~(loss < engine.best_loss)
         /\ engine' = stale /\ seen' = seen \cup {loss}
  BY <1>4 DEF Evaluate
<1> HIDE DEF loss, accuracy, best, stale
<1>10. Scored(stale)
  BY <1>2, <1>7 DEF Scored
<1>11. engine.has_best =>
            Trained(engine.best_state, engine.best_step, engine.split)
  BY <1>0 DEF BestIsScored
<1>12. /\ engine' \in EngineType /\ Scored(engine')
       /\ engine'.step = engine.step /\ engine'.split = engine.split
       /\ engine'.horizon = engine.horizon
       /\ engine'.has_val_initial = engine.has_val_initial
       /\ engine'.has_best =>
            Trained(engine'.best_state, engine'.best_step, engine'.split)
       /\ seen' \subseteq Int
  BY <1>0, <1>2, <1>5, <1>6, <1>7, <1>9, <1>10, <1>11 DEF StateTyped
<1>13. track_best' = track_best /\ validation' = validation
  BY <1>1, <1>12 DEF track_best, validation, eval_every
<1>14. track_best => /\ engine'.has_best
                     /\ \A l \in seen' : engine'.best_loss <= l
  <2> SUFFICES ASSUME track_best
               PROVE  engine'.has_best /\ \A l \in seen' : engine'.best_loss <= l
    OBVIOUS
  <2>1. engine.has_best /\ \A l \in seen : engine.best_loss <= l
    BY <1>0, <1>1 DEF BestIsScored, Measuring
  <2>2. engine.best_loss \in Int /\ seen \subseteq Int
    BY <1>0, <1>2 DEF EngineType, StateTyped
  <2>3. CASE ~EvaluationDue
    BY <2>1, <2>3, <1>9
  <2>4. CASE EvaluationDue /\ loss < engine.best_loss
    <3>1. engine' = best /\ seen' = seen \cup {loss}
      BY <2>4, <1>9
    <3>2. \A l \in seen : loss <= l
      BY <2>1, <2>2, <2>4, <1>5
    <3>3. loss <= loss
      BY <1>5
    <3> QED
      BY <3>1, <3>2, <3>3, <1>6
  <2>5. CASE EvaluationDue /\ ~(loss < engine.best_loss)
    <3>1. engine' = stale /\ seen' = seen \cup {loss}
      BY <2>5, <1>9
    <3>2. engine.best_loss <= loss
      BY <2>2, <2>5, <1>5
    <3> QED
      BY <3>1, <3>2, <2>1, <1>7
  <2> QED
    BY <2>3, <2>4, <2>5
<1>15. StateTyped'
  BY <1>0, <1>1, <1>12 DEF StateTyped, TrainPc
<1>16. StateIsTrained'
  BY <1>1, <1>2, <1>12 DEF StateIsTrained, Trained, Stepping
<1>17. BestIsScored'
  <2>1. Scored(engine)' /\ (engine'.has_best =>
            Trained(engine.best_state, engine.best_step, engine.split)')
    BY <1>1, <1>12 DEF Scored, Trained
  <2> QED
    BY <2>1, <1>0, <1>1, <1>12, <1>13, <1>14 DEF BestIsScored, Measuring
<1>18. DiskIsTrained'
  BY <1>0, <1>1, DiskKept
<1>19. ReportIsScored' /\ GateIsPassed'
  BY <1>1, NothingReported DEF Reported
<1> QED
  BY <1>15, <1>16, <1>17, <1>18, <1>19 DEF IInv

\* A checkpoint holds the arena and, while it is another one, the best state
\* (update_engine.cc:506-556, 1015-1023).
LEMMA CheckpointStep ==
    ASSUME IInv, Checkpoint
    PROVE  IInv'
<1>0. StateTyped /\ StateIsTrained /\ BestIsScored /\ DiskIsTrained
  BY DEF IInv
<1>1. /\ pc = "checkpoint" /\ pc' \in {"final", "loop"}
      /\ disk' \in {CheckpointRecord, disk}
      /\ UNCHANGED <<options, engine, arena, fed, end, report, seen, score>>
  BY DEF Checkpoint
<1>2. /\ engine \in EngineType /\ Scored(engine)
      /\ Trained(arena, engine.step, engine.split)
      /\ engine.has_best =>
            Trained(engine.best_state, engine.best_step, engine.split)
  BY <1>0, <1>1 DEF StateIsTrained, StateTyped, Stepping, BestIsScored
<1> DEFINE m == [engine EXCEPT !.best_state = <<>>]
<1>3. /\ m \in EngineType
      /\ m.step = engine.step /\ m.split = engine.split
      /\ m.has_val_initial = engine.has_val_initial
      /\ m.val_initial = engine.val_initial
      /\ m.val_initial_accuracy = engine.val_initial_accuracy
      /\ m.has_best = engine.has_best /\ m.best_step = engine.best_step
      /\ m.best_loss = engine.best_loss
      /\ m.best_accuracy = engine.best_accuracy
  <2> DEFINE none == <<>>
  <2>1. none \in Seq(Row)
    OBVIOUS
  <2>2. m = [engine EXCEPT !.best_state = none]
    OBVIOUS
  <2> HIDE DEF none, m
  <2> QED
    BY <2>1, <2>2, <1>2 DEF EngineType
<1>4. /\ CheckpointRecord.members = m /\ CheckpointRecord.payload = arena
      /\ CheckpointRecord.best_payload =
            IF engine.has_best /\ engine.best_step # engine.step
              THEN {engine.best_state} ELSE {}
  BY DEF CheckpointRecord
<1> HIDE DEF m
<1>5. Scored(m)
  BY <1>2, <1>3 DEF Scored
<1>6. DiskIsTrained'
  <2>1. CASE disk' = disk
    BY <2>1, <1>0, <1>1, DiskKept
  <2>2. CASE disk' = CheckpointRecord
    <3>1. Scored(disk.members)' /\ Trained(disk.payload, disk.members.step, disk.members.split)'
      BY <2>2, <1>1, <1>2, <1>3, <1>4, <1>5 DEF Scored, Trained
    <3>2. ASSUME engine.has_best
          PROVE  /\ disk'.best_payload = {} =>
                        disk'.members.best_step = disk'.members.step
                 /\ \A best \in disk'.best_payload :
                        Trained(best, disk'.members.best_step, disk'.members.split)
      BY <3>2, <2>2, <1>2, <1>3, <1>4
    <3> QED
      BY <3>1, <3>2, <2>2, <1>3, <1>4 DEF DiskIsTrained, Trained
  <2> QED
    BY <2>1, <2>2, <1>1
<1>7. StateTyped'
  BY <1>0, <1>1, <1>3, <1>4 DEF StateTyped, TrainPc
<1>8. StateIsTrained'
  BY <1>0, <1>1 DEF StateIsTrained, Trained, Stepping
<1>9. BestIsScored'
  BY <1>0, <1>1
  DEF BestIsScored, Scored, Trained, Measuring, track_best, validation, eval_every
<1>10. ReportIsScored' /\ GateIsPassed'
  BY <1>1, NothingReported DEF Reported
<1> QED
  BY <1>6, <1>7, <1>8, <1>9, <1>10 DEF IInv

\* The final evaluation reports the score of the state it leaves in the arena:
\* the best one, put back, or the last (update_engine.cc:1036-1075).
LEMMA FinalStateStep ==
    ASSUME IInv, Final, UNCHANGED device
    PROVE  IInv'
<1> DEFINE loss == score[engine.step]
           accuracy == Accuracy[engine.step]
           better == track_best /\ loss < engine.best_loss
           e == IF better THEN SnapshotBest(engine, loss, accuracy) ELSE engine
           ships == IF track_best /\ e.best_step # e.step
                      THEN e.best_state ELSE arena
<1>0. StateTyped /\ StateIsTrained /\ BestIsScored /\ DiskIsTrained
  BY DEF IInv
<1>1. /\ pc = "final" /\ pc' = "returned"
      /\ UNCHANGED <<options, fed, end, disk, score>>
  BY DEF Final
<1>2. /\ engine \in EngineType /\ engine.step = Len(arena)
      /\ engine.split = options.split
      /\ Trained(arena, engine.step, engine.split)
      /\ Scored(engine)
      /\ engine.has_best =>
            Trained(engine.best_state, engine.best_step, engine.split)
      /\ report \in ReportType /\ seen \subseteq Int
  BY <1>0, <1>1 DEF StateIsTrained, StateTyped, Stepping, BestIsScored
<1>3. engine.step \in Nat /\ engine.step <= MaxStep
  BY <1>2 DEF EngineType, Trained
<1>4. Loss = loss /\ AccuracyNow = accuracy
  BY <1>2 DEF Loss, AccuracyNow
<1>5. loss \in Int /\ accuracy \in Nat
  BY <1>0, <1>3, StatesHaveScores
<1>6. track_best => /\ engine.has_best
                    /\ \A l \in seen : engine.best_loss <= l
  BY <1>0, <1>1 DEF BestIsScored, Measuring
<1>7. /\ e \in EngineType /\ Scored(e)
      /\ e.step = engine.step /\ e.split = engine.split
      /\ e.horizon = engine.horizon
      /\ e.has_val_initial = engine.has_val_initial
      /\ e.has_best => Trained(e.best_state, e.best_step, e.split)
      /\ track_best => e.has_best
  <2>1. CASE better
    BY <2>1, <1>0, <1>2, SnapshotIsScored
  <2>2. CASE ~better
    BY <2>2, <1>2, <1>6
  <2> QED
    BY <2>1, <2>2
<1>8. track_best => \A l \in seen \cup {loss} : e.best_loss <= l
  <2>1. CASE better
    <3>1. e.best_loss = loss
      BY <2>1, <1>0, <1>2, SnapshotIsScored
    <3> QED
      BY <3>1, <2>1, <1>2, <1>5, <1>6 DEF EngineType
  <2>2. CASE ~better /\ track_best
    <3>1. e = engine /\ engine.best_loss <= loss
      BY <2>2, <1>2, <1>5 DEF EngineType
    <3> QED
      BY <3>1, <2>2, <1>6
  <2> QED
    BY <2>1, <2>2
<1>9. CASE ~validation
  <2>1. UNCHANGED <<engine, arena, report, seen>>
    BY <1>9 DEF Final
  <2>2. ~validation' /\ ~track_best'
    BY <1>1, <1>9 DEF validation, track_best
  <2>3. StateTyped' /\ StateIsTrained'
    BY <2>1, <1>0, <1>1
    DEF StateTyped, StateIsTrained, Trained, TrainPc, Stepping
  <2>4. BestIsScored'
    BY <2>1, <2>2, <1>0, <1>1 DEF BestIsScored, Scored, Trained, Measuring
  <2>5. ReportIsScored' /\ GateIsPassed'
    BY <2>2, <1>1 DEF ReportIsScored, GateIsPassed
  <2> QED
    BY <2>3, <2>4, <2>5, <1>0, <1>1, DiskKept DEF IInv
<1>10. CASE validation
  <2>1. /\ engine' = e /\ arena' = ships /\ seen' = seen \cup {loss}
        /\ report' = [report EXCEPT
              !.val_final = IF track_best THEN e.best_loss ELSE loss,
              !.val_final_accuracy =
                  IF track_best THEN e.best_accuracy ELSE accuracy,
              !.best_step = IF track_best THEN e.best_step ELSE 0]
    BY <1>4, <1>10 DEF Final
  <2> DEFINE n == IF track_best THEN e.best_step ELSE engine.step
  <2>2. Trained(ships, n, engine.split)
    <3>1. CASE track_best /\ e.best_step # e.step
      BY <3>1, <1>7
    <3>2. CASE ~(track_best /\ e.best_step # e.step)
      BY <3>2, <1>2, <1>7
    <3> QED
      BY <3>1, <3>2
  <2> HIDE DEF ships, e, better
  <2>3. e.best_step \in Nat /\ e.best_loss \in Int /\ e.best_accuracy \in Nat
    BY <1>7 DEF EngineType
  <2>4. /\ report' \in ReportType
        /\ report'.val_initial = report.val_initial
        /\ report'.val_initial_accuracy = report.val_initial_accuracy
        /\ report'.val_final = IF track_best THEN e.best_loss ELSE loss
        /\ report'.val_final_accuracy =
              IF track_best THEN e.best_accuracy ELSE accuracy
    BY <2>1, <2>3, <1>2, <1>5 DEF ReportType
  <2>5. track_best' = track_best /\ validation' = validation
    BY <2>1, <1>1, <1>7 DEF track_best, validation, eval_every
  <2>6. /\ report'.val_final = score[n]
        /\ report'.val_final_accuracy = Accuracy[n]
    BY <2>4, <1>7 DEF Scored
  <2>7. Len(arena') = n
    BY <2>1, <2>2 DEF Trained
  <2>8. Loss' = score[n] /\ AccuracyNow' = Accuracy[n]
    BY <2>7, <1>1 DEF Loss, AccuracyNow
  <2>9. StateTyped'
    BY <2>1, <2>4, <1>0, <1>1, <1>5, <1>7 DEF StateTyped, TrainPc
  <2>10. StateIsTrained'
    BY <2>1, <2>2, <1>1, <1>2, <1>7 DEF StateIsTrained, Trained, Stepping
  <2>11. BestIsScored'
    BY <2>1, <1>1, <1>7 DEF BestIsScored, Scored, Trained, Measuring
  <2>12. report.val_initial = score[0] /\ report.val_initial_accuracy = Accuracy[0]
    BY <1>0, <1>1, <1>10 DEF BestIsScored, Measuring
  <2>13. track_best => report'.val_final = e.best_loss
    BY <2>4
  <2>14. ReportIsScored'
    BY <2>1, <2>4, <2>5, <2>6, <2>8, <2>12, <2>13, <1>1, <1>8
    DEF ReportIsScored
  <2>15. GateIsPassed'
    BY <1>1 DEF GateIsPassed
  <2> QED
    BY <2>9, <2>10, <2>11, <2>14, <2>15, <1>0, <1>1, DiskKept DEF IInv
<1> QED
  BY <1>9, <1>10

\* The process is gone: the checkpoint and the output file are what is left.
LEMMA EndStep ==
    ASSUME IInv, End
    PROVE  IInv'
<1>0. StateTyped /\ DiskIsTrained
  BY DEF IInv
<1>1. /\ pc' = "down" /\ engine' = NewEngine /\ arena' = <<>> /\ seen' = {}
      /\ fed' = 0 /\ end' = 0 /\ report' = NoReport
      /\ UNCHANGED <<options, disk, score>>
  BY DEF End, Exit
<1>2. NewEngine \in EngineType /\ Scored(NewEngine) /\ ~NewEngine.has_best
  BY DEF NewEngine, EngineType, Scored
<1>3. NoReport \in ReportType
  BY DEF NoReport, ReportType
<1>4. StateTyped'
  BY <1>0, <1>1, <1>2, <1>3, TrainAssumption DEF StateTyped, TrainPc
<1>5. StateIsTrained'
  BY <1>1 DEF StateIsTrained, Stepping
<1>6. BestIsScored'
  BY <1>1, <1>2 DEF BestIsScored, Scored, Measuring
<1>7. DiskIsTrained'
  BY <1>0, <1>1, DiskKept
<1>8. ReportIsScored' /\ GateIsPassed'
  BY <1>1, NothingReported DEF Reported
<1> QED
  BY <1>4, <1>5, <1>6, <1>7, <1>8 DEF IInv

\* The gate, the merge and the commit leave what was trained and reported.
LEMMA TrainedKept ==
    ASSUME IInv, pc \in Reported, pc' \in Reported,
           UNCHANGED <<options, engine, arena, fed, end, report, seen, disk, score>>
    PROVE  /\ StateTyped' /\ StateIsTrained' /\ BestIsScored' /\ DiskIsTrained'
           /\ ReportIsScored'
<1>1. StateTyped'
  BY DEF IInv, StateTyped, Reported, TrainPc
<1>2. StateIsTrained'
  BY DEF IInv, StateIsTrained, Trained, Reported, Stepping
<1>3. BestIsScored'
  BY DEF IInv, BestIsScored, Scored, Trained, Reported, Measuring
<1>4. DiskIsTrained'
  BY DiskKept DEF IInv
<1>5. ReportIsScored'
  BY DEF IInv, ReportIsScored, Loss, AccuracyNow, validation, track_best, eval_every
<1> QED
  BY <1>1, <1>2, <1>3, <1>4, <1>5

\* Only an improvement, or a forced process, reaches the merge; the commit writes
\* what was merged (native_emitter.cc:456-541).
LEMMA GateStep ==
    ASSUME IInv,
           \/ \E force, require \in BOOLEAN : Gate(force, require)
           \/ RunMerge \/ CommitToModel
    PROVE  IInv'
<1>1. CASE \E force, require \in BOOLEAN : Gate(force, require)
  <2> PICK force \in BOOLEAN, require \in BOOLEAN : Gate(force, require)
    BY <1>1
  <2> DEFINE accepted == ImprovedBy(report) /\ (require => AccuracyHeld(report))
  <2>1. /\ pc = "returned"
        /\ pc' = IF accepted \/ force THEN "merge" ELSE "rejected"
        /\ forced' = (~accepted /\ force) /\ required' = require
        /\ UNCHANGED <<options, engine, arena, fed, end, report, seen, disk, score>>
    BY DEF Gate
  <2>2. pc \in Reported /\ pc' \in Reported
    BY <2>1 DEF Reported
  <2>3. ImprovedBy(report)' = ImprovedBy(report)
    BY <2>1 DEF ImprovedBy, validation
  <2>4. AccuracyHeld(report)' = AccuracyHeld(report)
    BY <2>1 DEF AccuracyHeld
  <2>5. GateIsPassed'
    BY <2>1, <2>3, <2>4 DEF GateIsPassed
  <2> QED
    BY <2>1, <2>2, <2>5, TrainedKept DEF IInv
<1>2. CASE RunMerge \/ CommitToModel
  <2>1. /\ \/ pc = "merge" /\ pc' = "commit" /\ deltas' = {arena}
           \/ /\ pc = "commit" /\ pc' = "committed"
              /\ out' = deltas /\ deltas' = deltas
        /\ UNCHANGED <<forced, required>>
        /\ UNCHANGED <<options, engine, arena, fed, end, report, seen, disk, score>>
    BY <1>2 DEF RunMerge, CommitToModel
  <2>2. pc \in Reported /\ pc' \in Reported
    BY <2>1 DEF Reported
  <2>3. ImprovedBy(report)' = ImprovedBy(report)
    BY <2>1 DEF ImprovedBy, validation
  <2>4. AccuracyHeld(report)' = AccuracyHeld(report)
    BY <2>1 DEF AccuracyHeld
  <2>5. GateIsPassed'
    BY <2>1, <2>3, <2>4 DEF IInv, GateIsPassed
  <2> QED
    BY <2>1, <2>2, <2>5, TrainedKept DEF IInv
<1> QED
  BY <1>1, <1>2

\* Every step keeps the invariant.
LEMMA IInvStep == IInv /\ [DeviceNext]_<<vars, device>> => IInv'
<1> SUFFICES ASSUME IInv, [DeviceNext]_<<vars, device>> PROVE IInv'
  OBVIOUS
<1>1. ASSUME NEW o \in Options, Start(o) PROVE IInv'
  BY <1>1, StartStep
<1>2. CASE Baseline
  BY <1>2, BaselineStep
<1>3. CASE TrainStep
  BY <1>3, TrainStepStep
<1>4. CASE Stop \/ LoopEnds
  BY <1>4, LoopExitStep
<1>5. CASE Evaluate
  BY <1>5, EvaluateStep
<1>6. CASE Checkpoint
  BY <1>6, CheckpointStep
<1>7. CASE Final /\ UNCHANGED device
  BY <1>7, FinalStateStep
<1>8. CASE \/ \E force, require \in BOOLEAN : Gate(force, require)
           \/ RunMerge \/ CommitToModel
  BY <1>8, GateStep
<1>9. CASE End
  BY <1>9, EndStep
<1>10. CASE UNCHANGED <<vars, device>>
  <2>1. UNCHANGED <<options, engine, arena, fed, end, report, seen, disk, score>>
        /\ pc' = pc /\ UNCHANGED <<deltas, out, forced, required>>
    BY <1>10 DEF vars, call, device
  <2>2. StateTyped' /\ StateIsTrained' /\ BestIsScored'
    BY <2>1
    DEF IInv, StateTyped, StateIsTrained, BestIsScored, Scored, Trained,
        validation, track_best, eval_every
  <2>3. ReportIsScored' /\ GateIsPassed'
    BY <2>1
    DEF IInv, ReportIsScored, GateIsPassed, Loss, AccuracyNow, validation,
        track_best, eval_every, ImprovedBy, AccuracyHeld
  <2> QED
    BY <2>1, <2>2, <2>3, DiskKept DEF IInv
<1> QED
  BY <1>1, <1>2, <1>3, <1>4, <1>5, <1>6, <1>7, <1>8, <1>9, <1>10
  DEF DeviceNext, Training

\* The conjunction of the invariants above holds however processes are killed,
\* stopped, resumed and asked for other options.
THEOREM InductiveInvariant == DeviceSpec => []IInv
<1>1. DeviceInit => IInv
  BY IInvInit
<1>2. IInv /\ [DeviceNext]_<<vars, device>> => IInv'
  BY IInvStep
<1> QED
  BY <1>1, <1>2, PTL DEF DeviceSpec

-----------------------------------------------------------------------------
(* What the invariant gives. *)

\* Every row an update trained on comes from the training half of one split
\* (update_engine.cc:783-799).
THEOREM RowsAreOfOneSplit == DeviceSpec => []OneSplit
<1>1. IInv => OneSplit
  <2> SUFFICES ASSUME IInv, NEW j \in DOMAIN arena, NEW k \in DOMAIN arena
               PROVE  arena[j].split = arena[k].split
    BY DEF OneSplit
  <2>1. CASE pc = "down"
    BY <2>1 DEF IInv, StateIsTrained
  <2>2. CASE pc # "down"
    BY <2>2 DEF IInv, StateIsTrained, Trained
  <2> QED
    BY <2>1, <2>2
<1> QED
  BY <1>1, InductiveInvariant, PTL

\* The report scores the source model and the state it ships, and no state this
\* process evaluated was better (update_engine.cc:869-911, 1043-1068).
THEOREM ReportsAreTrue == DeviceSpec => []ReportScoresWhatShips
<1>1. IInv => ReportScoresWhatShips
  BY DEF IInv, ReportIsScored, ReportScoresWhatShips, Reported
<1> QED
  BY <1>1, InductiveInvariant, PTL

\* An output file written without force holds a state that scores better than the
\* source model by the margin asked for (native_emitter.cc:456-541).
THEOREM ShippedIsBetter == DeviceSpec => []OnlyImprovementsShip
<1>1. IInv => OnlyImprovementsShip
  <2> SUFFICES ASSUME IInv, pc = "committed", validation, ~forced
               PROVE  \A state \in out :
                        LET shipped == Len(state) IN
                        /\ score[shipped] < score[0]
                        /\ score[shipped] * 100 <= score[0] * (100 - MinImprovement)
                        /\ required => Accuracy[shipped] >= Accuracy[0]
    BY DEF OnlyImprovementsShip
  <2> DEFINE n == Len(arena)
  <2>1. /\ out = {arena}
        /\ ImprovedBy(report) /\ (required => AccuracyHeld(report))
    BY DEF IInv, GateIsPassed
  <2>2. /\ report.val_initial = score[0] /\ report.val_final = score[n]
        /\ report.val_initial_accuracy = Accuracy[0]
        /\ report.val_final_accuracy = Accuracy[n]
    BY DEF IInv, ReportIsScored, Reported, Loss, AccuracyNow
  <2>3. report.val_initial \in Int /\ report.val_final \in Int
    BY DEF IInv, StateTyped, ReportType
  <2> HIDE DEF n
  <2>4. /\ score[n] < score[0]
        /\ MinImprovement > 0 =>
             score[n] * 100 <= score[0] * (100 - MinImprovement)
    BY <2>1, <2>2 DEF ImprovedBy
  <2>5. MinImprovement = 0 =>
          score[n] * 100 <= score[0] * (100 - MinImprovement)
    BY <2>2, <2>3, <2>4
  <2>6. MinImprovement = 0 \/ MinImprovement > 0
    BY DeviceAssumption
  <2>7. required => Accuracy[n] >= Accuracy[0]
    BY <2>1, <2>2 DEF AccuracyHeld
  <2> QED
    BY <2>1, <2>4, <2>5, <2>6, <2>7 DEF n
<1> QED
  BY <1>1, InductiveInvariant, PTL

-----------------------------------------------------------------------------
(* A chain of processes trains the states of a run in one. *)

\* The steps of a state consumed the micro-batches in order, each once, and of a
\* chain that only finished what the first process began, under its schedule.
Consecutive(state) ==
    \A k \in DOMAIN state :
        /\ state[k].at = (k - 1) * GradAccum
        /\ uniform => state[k].horizon = TotalSteps

RowsAreConsecutive ==
    /\ Consecutive(arena)
    /\ engine.has_best => Consecutive(engine.best_state)
    /\ Consecutive(disk.payload)
    /\ \A best \in disk.best_payload : Consecutive(best)
    /\ pc \in Stepping => fed = engine.step * GradAccum

ScheduleIsFirst ==
    /\ first \in Options
    /\ uniform =>
        /\ pc # "down" =>
            engine.horizon = TotalSteps /\ options.split = first.split
        /\ disk.members.step > 0 => disk.members.horizon = TotalSteps

\* A checkpoint is of at least one step, and only patience ends a run early.
RunsToTheEnd ==
    /\ disk.members.step = 0 => disk = NoCheckpoint
    /\ pc \in {"evaluate", "checkpoint"} => engine.step > 0
    /\ pc = "down" => ~out_of_patience
    /\ pc # "down" /\ ~validation => ~out_of_patience
    /\ pc = "final" /\ ~report.stopped_early /\ ~validation => engine.step = end
    /\ pc = "returned" /\ ~report.stopped_early /\ ~validation =>
        Len(arena) = end

Chain == RowsAreConsecutive /\ ScheduleIsFirst /\ RunsToTheEnd

\* A run has at least one step (update_engine.cc:701-735).
LEMMA TotalIsPositive ==
    ASSUME NEW o \in Options
    PROVE  HorizonOf(o, NewEngine) \in Nat \ {0}
<1>1. o.steps \in Nat /\ o.horizon \in Nat
  <2>1. o.steps \in StepCounts /\ o.horizon \in Horizons
    BY DEF Options
  <2> QED
    BY <2>1, TrainAssumption
<1>2. DefaultSteps \in Nat \ {0}
  <2>1. MaxStep \in Nat /\ DefaultSteps \in 1..MaxStep
    BY TrainAssumption
  <2> QED
    BY <2>1
<1>3. NewEngine.step = 0 /\ NewEngine.horizon = 0
  BY DEF NewEngine
<1>4. StepsOf(o, NewEngine) \in Nat \ {0}
  BY <1>1, <1>2, <1>3 DEF StepsOf
<1> QED
  BY <1>1, <1>3, <1>4 DEF HorizonOf

\* A device without a checkpoint has no chain yet.
LEMMA ChainInit == DeviceInit => Chain
<1> SUFFICES ASSUME DeviceInit PROVE Chain
  OBVIOUS
<1> USE DEF DeviceInit, Init
<1>1. RowsAreConsecutive
  BY DEF RowsAreConsecutive, Consecutive, NewEngine, NoCheckpoint, Stepping
<1>2. ScheduleIsFirst
  BY DEF ScheduleIsFirst, NoCheckpoint, NewEngine
<1>3. RunsToTheEnd
  BY DEF RunsToTheEnd
<1> QED
  BY <1>1, <1>2, <1>3 DEF Chain

\* A process goes on from the micro-batch after those of the checkpoint, and,
\* asked only for the rest, under the horizon of the first (update_engine.cc:561,
\* 701-735).
LEMMA StartChain ==
    ASSUME IInv, Chain, NEW o \in Options, Start(o)
    PROVE  Chain'
<1>0. RowsAreConsecutive /\ ScheduleIsFirst /\ RunsToTheEnd
  BY DEF Chain
<1> DEFINE e == Restored
           n == StepsOf(o, e)
           h == HorizonOf(o, e)
<1>1. e \in EngineType
  BY RestoredIsTrained
<1>2. /\ pc = "down" /\ pc' = "baseline" /\ options' = o
      /\ arena' = disk.payload /\ fed' = e.step * GradAccum
      /\ engine' = [e EXCEPT !.horizon = h, !.split = o.split]
      /\ first' = IF Resumes THEN first ELSE o
      /\ uniform' = (Resumes =>
            uniform /\ o = [first EXCEPT !.steps = 0, !.horizon = 0])
      /\ UNCHANGED <<out_of_patience, report, disk>>
  BY DEF Start, SkipServed
<1>3. engine'.step = e.step /\ engine'.horizon = h
      /\ engine'.has_best = e.has_best /\ engine'.best_state = e.best_state
  BY <1>1, <1>2 DEF EngineType
<1>4. first' \in Options
  BY <1>0, <1>2 DEF ScheduleIsFirst
<1>5. CASE Resumes
  <2>1. disk.members \in EngineType
    BY DEF IInv, StateTyped
  <2>2. /\ e.step = disk.members.step /\ e.horizon = disk.members.horizon
        /\ e.has_best = disk.members.has_best
        /\ e.has_best => e.best_state = (IF disk.best_payload = {} THEN disk.payload
                          ELSE CHOOSE best \in disk.best_payload : TRUE)
    BY <1>5, <2>1 DEF Restored, LoadCheckpoint, EngineType
  <2>3. e.step > 0 /\ first' = first /\ (uniform' => uniform)
    BY <2>2, <1>2, <1>5 DEF Resumes
  <2>4. ASSUME NEW state, Consecutive(state)
        PROVE  /\ \A k \in DOMAIN state : state[k].at = (k - 1) * GradAccum
               /\ uniform' => \A k \in DOMAIN state : state[k].horizon = TotalSteps'
    BY <2>3, <2>4 DEF Consecutive, TotalSteps
  <2>5. e.has_best => Consecutive(e.best_state)
    BY <2>2, <1>0 DEF RowsAreConsecutive
  <2>6. Consecutive(arena)' /\ Consecutive(disk.payload)'
    BY <2>4, <1>0, <1>2 DEF RowsAreConsecutive, Consecutive
  <2>7. engine'.has_best => Consecutive(engine.best_state)'
    BY <2>4, <2>5, <1>3 DEF Consecutive
  <2>8. ASSUME NEW best \in disk.best_payload
        PROVE  /\ \A k \in DOMAIN best : best[k].at = (k - 1) * GradAccum
               /\ uniform' => \A k \in DOMAIN best : best[k].horizon = TotalSteps'
    BY <2>4, <2>8, <1>0 DEF RowsAreConsecutive
  <2>9. RowsAreConsecutive'
    BY <2>6, <2>7, <2>8, <1>2, <1>3 DEF RowsAreConsecutive, Consecutive
  <2>10. ScheduleIsFirst'
    <3> SUFFICES ASSUME uniform'
                 PROVE  /\ h = TotalSteps' /\ o.split = first'.split
                        /\ disk.members.horizon = TotalSteps'
      BY <1>2, <1>3, <1>4 DEF ScheduleIsFirst
    <3>1. uniform /\ o = [first EXCEPT !.steps = 0, !.horizon = 0]
      BY <1>2, <1>5
    <3>2. o.steps = 0 /\ o.horizon = 0 /\ o.split = first.split
      BY <3>1, <1>0 DEF ScheduleIsFirst, Options
    <3>3. TotalSteps' = TotalSteps
      BY <2>3 DEF TotalSteps
    <3>4. e.horizon = TotalSteps /\ e.horizon # 0
      BY <3>1, <2>2, <2>3, <1>0, TotalIsPositive DEF ScheduleIsFirst, TotalSteps
    <3>5. h = e.horizon
      BY <3>2, <3>4 DEF HorizonOf
    <3> QED
      BY <3>2, <3>3, <3>4, <3>5, <2>2, <2>3
  <2>11. RunsToTheEnd'
    BY <1>0, <1>2 DEF RunsToTheEnd
  <2> QED
    BY <2>9, <2>10, <2>11 DEF Chain
<1>6. CASE ~Resumes
  <2>1. e = NewEngine /\ first' = o /\ disk.members.step = 0
    <3>1. disk.members.step = 0
      <4>1. disk.members \in EngineType
        BY DEF IInv, StateTyped
      <4>2. disk.members.step \in Nat
        BY <4>1 DEF EngineType
      <4> QED
        BY <4>2, <1>6 DEF Resumes
    <3> QED
      BY <3>1, <1>2, <1>6 DEF Restored
  <2>2. disk = NoCheckpoint
    BY <2>1, <1>0 DEF RunsToTheEnd
  <2>3. RowsAreConsecutive'
    <3>1. fed' = e.step * GradAccum /\ engine'.step = e.step /\ ~engine'.has_best
      BY <2>1, <1>2, <1>3 DEF NewEngine
    <3> QED
      BY <2>2, <3>1, <1>2
      DEF RowsAreConsecutive, Consecutive, NoCheckpoint
  <2>4. h = TotalSteps'
    BY <2>1 DEF TotalSteps
  <2>5. ScheduleIsFirst'
    BY <2>1, <2>2, <2>4, <1>2, <1>3, <1>4
    DEF ScheduleIsFirst, NoCheckpoint, NewEngine
  <2>6. RunsToTheEnd'
    BY <1>0, <1>2 DEF RunsToTheEnd
  <2> QED
    BY <2>3, <2>5, <2>6 DEF Chain
<1> QED
  BY <1>5, <1>6

\* The rows of a step follow those of the step before it (update_engine.cc:922-958).
LEMMA TrainStepChain ==
    ASSUME IInv, Chain, TrainStep
    PROVE  Chain'
<1> DEFINE row == [at |-> fed, horizon |-> engine.horizon, split |-> options.split]
           n == engine.step
<1>0. RowsAreConsecutive /\ ScheduleIsFirst /\ RunsToTheEnd
  BY DEF Chain
<1>1. /\ pc = "loop" /\ pc' = "evaluate"
      /\ engine' = [engine EXCEPT !.step = @ + 1]
      /\ arena' = Append(arena, row) /\ fed' = fed + GradAccum
      /\ UNCHANGED <<options, out_of_patience, disk, first, uniform>>
  BY DEF TrainStep
<1>2. /\ engine \in EngineType /\ arena \in Seq(Row) /\ Len(arena) = n
  BY <1>1 DEF IInv, StateIsTrained, StateTyped, Trained, Stepping
<1>3. /\ engine'.step = n + 1 /\ engine'.horizon = engine.horizon
      /\ engine'.has_best = engine.has_best
      /\ engine'.best_state = engine.best_state
  BY <1>1, <1>2 DEF EngineType
<1>4. n \in Nat /\ GradAccum \in Nat /\ fed = n * GradAccum
  BY <1>0, <1>1, <1>2, TrainAssumption
  DEF EngineType, RowsAreConsecutive, Stepping
<1>5. fed' = (n + 1) * GradAccum
  BY <1>1, <1>4
<1>6. TotalSteps' = TotalSteps
  BY <1>1 DEF TotalSteps
<1>7. uniform => engine.horizon = TotalSteps
  BY <1>0, <1>1 DEF ScheduleIsFirst
<1>8. Consecutive(arena)'
  <2>1. row.at = n * GradAccum /\ (uniform => row.horizon = TotalSteps)
    BY <1>4, <1>7
  <2>2. \A k \in 1..n : /\ arena[k].at = (k - 1) * GradAccum
                        /\ uniform => arena[k].horizon = TotalSteps
    BY <1>0, <1>2 DEF RowsAreConsecutive, Consecutive
  <2> HIDE DEF row, n
  <2>3. /\ DOMAIN arena' = 1..(n + 1)
        /\ \A k \in 1..n : arena'[k] = arena[k]
        /\ arena'[n + 1] = row
    BY <1>1, <1>2, <1>4
  <2>4. \A k \in 1..(n + 1) : k \in 1..n \/ k = n + 1
    BY <1>4
  <2>5. (n + 1) - 1 = n
    BY <1>4
  <2> QED
    BY <2>1, <2>2, <2>3, <2>4, <2>5, <1>1, <1>6 DEF Consecutive
<1>9. RowsAreConsecutive'
  <2>1. engine'.has_best => Consecutive(engine.best_state)'
    BY <1>0, <1>1, <1>3, <1>6 DEF RowsAreConsecutive, Consecutive
  <2>2. Consecutive(disk.payload)' /\ \A best \in disk'.best_payload : Consecutive(best)'
    BY <1>0, <1>1, <1>6 DEF RowsAreConsecutive, Consecutive
  <2> QED
    BY <2>1, <2>2, <1>1, <1>3, <1>5, <1>8 DEF RowsAreConsecutive
<1>10. ScheduleIsFirst'
  BY <1>0, <1>1, <1>3, <1>6 DEF ScheduleIsFirst
<1>11. RunsToTheEnd'
  <2>1. engine'.step > 0
    BY <1>3, <1>4
  <2> QED
    BY <2>1, <1>0, <1>1 DEF RunsToTheEnd, validation
<1> QED
  BY <1>9, <1>10, <1>11 DEF Chain

\* The baseline, the evaluations and the final one keep or put back a state of the
\* arena, and change neither the step nor the horizon.
LEMMA MeasureChain ==
    ASSUME IInv, Chain, Baseline \/ Evaluate \/ Final
    PROVE  Chain'
<1>0. RowsAreConsecutive /\ ScheduleIsFirst /\ RunsToTheEnd
  BY DEF Chain
<1>1. engine \in EngineType
  BY DEF IInv, StateTyped
<1>2. UNCHANGED <<options, fed, end, disk, first, uniform>>
  BY DEF Baseline, Evaluate, Final
<1>3. /\ engine'.step = engine.step /\ engine'.horizon = engine.horizon
      /\ \/ /\ engine'.has_best = engine.has_best
            /\ engine'.best_state = engine.best_state
         \/ engine'.best_state = arena
  <2>1. ASSUME NEW e \in EngineType, e.step = engine.step, NEW loss, NEW accuracy
        PROVE  LET b == SnapshotBest(e, loss, accuracy) IN
               /\ b.step = e.step /\ b.horizon = e.horizon /\ b.best_state = arena
    BY DEF SnapshotBest, EngineType
  <2>2. CASE Baseline
    <3> DEFINE measured ==
            IF engine.step > 0 /\ engine.has_val_initial THEN engine
            ELSE [engine EXCEPT !.has_val_initial = TRUE, !.val_initial = Loss,
                                !.val_initial_accuracy = AccuracyNow]
    <3>1. /\ measured.step = engine.step /\ measured.horizon = engine.horizon
          /\ measured.has_best = engine.has_best
          /\ measured.best_state = engine.best_state
      BY <1>1 DEF EngineType
    <3>2. PICK loss, accuracy :
              engine' = IF ~validation THEN engine
                        ELSE IF track_best /\ ~engine.has_best
                          THEN SnapshotBest(measured, loss, accuracy)
                          ELSE measured
      BY <2>2 DEF Baseline
    <3>3. /\ SnapshotBest(measured, loss, accuracy).step = engine.step
          /\ SnapshotBest(measured, loss, accuracy).horizon = engine.horizon
          /\ SnapshotBest(measured, loss, accuracy).best_state = arena
      BY <1>1 DEF SnapshotBest, EngineType
    <3> HIDE DEF measured
    <3> QED
      BY <3>1, <3>2, <3>3
  <2>3. CASE Evaluate
    <3>1. \/ engine' = engine
          \/ engine' = SnapshotBest(engine, Loss, AccuracyNow)
          \/ engine' = [engine EXCEPT !.stale_evals = @ + 1]
      BY <2>3 DEF Evaluate
    <3> QED
      BY <3>1, <2>1, <1>1 DEF EngineType
  <2>4. CASE Final
    <3>1. \/ engine' = engine
          \/ engine' = SnapshotBest(engine, Loss, AccuracyNow)
      BY <2>4 DEF Final
    <3> QED
      BY <3>1, <2>1, <1>1
  <2> QED
    BY <2>2, <2>3, <2>4
<1>4. TotalSteps' = TotalSteps
  BY <1>2 DEF TotalSteps
<1>5. \/ arena' = arena
      \/ Final /\ track_best /\ arena' = engine'.best_state
  BY DEF Baseline, Evaluate, Final
<1>6. /\ pc \in Stepping /\ pc' \in Stepping \cup {"returned"}
      /\ pc' = "checkpoint" => pc = "evaluate"
      /\ pc' = "returned" => pc = "final"
      /\ pc' \notin {"down", "final", "evaluate"}
  BY DEF Baseline, Evaluate, Final, Stepping
<1>7. Final /\ track_best => engine.has_best
  BY DEF Final, IInv, BestIsScored, Measuring
<1>8. engine'.has_best => Consecutive(engine'.best_state)
  BY <1>0, <1>3 DEF RowsAreConsecutive
<1>9. Consecutive(arena')
  BY <1>0, <1>3, <1>5, <1>7 DEF RowsAreConsecutive
<1>10. RowsAreConsecutive'
  <2>1. Consecutive(arena)' /\ (engine'.has_best => Consecutive(engine.best_state)')
    BY <1>2, <1>4, <1>8, <1>9 DEF Consecutive
  <2>2. Consecutive(disk.payload)' /\ \A best \in disk'.best_payload : Consecutive(best)'
    BY <1>0, <1>2, <1>4 DEF RowsAreConsecutive, Consecutive
  <2>3. fed' = engine'.step * GradAccum
    BY <1>0, <1>2, <1>3, <1>6 DEF RowsAreConsecutive
  <2> QED
    BY <2>1, <2>2, <2>3 DEF RowsAreConsecutive
<1>11. ScheduleIsFirst'
  <2>1. pc # "down"
    BY <1>6 DEF Stepping
  <2> QED
    BY <2>1, <1>0, <1>2, <1>3, <1>4 DEF ScheduleIsFirst
<1>12. RunsToTheEnd'
  <2>1. validation' = validation
    BY <1>2 DEF validation
  <2>2. pc' # "down" /\ ~validation' => ~out_of_patience'
    <3>1. ASSUME ~validation PROVE out_of_patience' = out_of_patience
      BY <3>1 DEF Baseline, Evaluate, Final, EvaluationDue, track_best
    <3> QED
      BY <3>1, <2>1, <1>0, <1>6 DEF RunsToTheEnd, Stepping
  <2>3. pc' = "checkpoint" => engine'.step > 0
    BY <1>0, <1>3, <1>6 DEF RunsToTheEnd
  <2>4. pc' = "returned" /\ ~report'.stopped_early /\ ~validation' => Len(arena') = end'
    <3> SUFFICES ASSUME pc' = "returned", ~report'.stopped_early, ~validation
                 PROVE  Len(arena') = end'
      BY <2>1
    <3>1. Final
      BY DEF Baseline, Evaluate
    <3>2. UNCHANGED <<arena, report>> /\ pc = "final"
      BY <3>1 DEF Final
    <3>3. engine.step = end /\ Len(arena) = engine.step
      BY <3>2, <1>0 DEF RunsToTheEnd, IInv, StateIsTrained, Stepping
    <3> QED
      BY <3>2, <3>3, <1>2
  <2> QED
    BY <2>2, <2>3, <2>4, <1>0, <1>2, <1>6 DEF RunsToTheEnd
<1> QED
  BY <1>10, <1>11, <1>12 DEF Chain

\* A checkpoint keeps the rows and the horizon (update_engine.cc:506-556).
LEMMA CheckpointChain ==
    ASSUME IInv, Chain, Checkpoint
    PROVE  Chain'
<1>0. RowsAreConsecutive /\ ScheduleIsFirst /\ RunsToTheEnd
  BY DEF Chain
<1>1. /\ pc = "checkpoint"
      /\ pc' = IF out_of_patience THEN "final" ELSE "loop"
      /\ disk' \in {CheckpointRecord, disk}
      /\ UNCHANGED <<options, engine, arena, fed, end, out_of_patience, report,
                     first, uniform>>
  BY DEF Checkpoint
<1>2. engine \in EngineType
  BY DEF IInv, StateTyped
<1>3. /\ CheckpointRecord.members.step = engine.step
      /\ CheckpointRecord.members.horizon = engine.horizon
      /\ CheckpointRecord.payload = arena
      /\ CheckpointRecord.best_payload \subseteq
            IF engine.has_best THEN {engine.best_state} ELSE {}
  BY <1>2 DEF CheckpointRecord, EngineType
<1>4. TotalSteps' = TotalSteps /\ validation' = validation
  BY <1>1 DEF TotalSteps, validation
<1>5. engine.step > 0
  BY <1>0, <1>1 DEF RunsToTheEnd
<1>6. Consecutive(disk'.payload) /\ \A best \in disk'.best_payload : Consecutive(best)
  BY <1>0, <1>1, <1>3 DEF RowsAreConsecutive
<1>7. RowsAreConsecutive'
  <2>1. Consecutive(arena)' /\ (engine'.has_best => Consecutive(engine.best_state)')
    BY <1>0, <1>1, <1>4 DEF RowsAreConsecutive, Consecutive
  <2>2. Consecutive(disk.payload)' /\ \A best \in disk'.best_payload : Consecutive(best)'
    BY <1>1, <1>4, <1>6 DEF Consecutive
  <2>3. fed' = engine'.step * GradAccum
    BY <1>0, <1>1 DEF RowsAreConsecutive, Stepping
  <2> QED
    BY <2>1, <2>2, <2>3 DEF RowsAreConsecutive
<1>8. ScheduleIsFirst'
  BY <1>0, <1>1, <1>3, <1>4 DEF ScheduleIsFirst
<1>9. RunsToTheEnd'
  <2>1. disk' = disk \/ disk'.members.step = engine.step
    BY <1>1, <1>3
  <2>2. engine.step # 0
    BY <1>5
  <2>3. disk'.members.step = 0 => disk' = NoCheckpoint
    BY <2>1, <2>2, <1>0 DEF RunsToTheEnd
  <2>4. pc' = "final" => out_of_patience
    BY <1>1
  <2> QED
    BY <2>3, <2>4, <1>0, <1>1, <1>4 DEF RunsToTheEnd
<1> QED
  BY <1>7, <1>8, <1>9 DEF Chain

\* Every other step leaves the arena and the checkpoint, or drops the process.
LEMMA OtherChain ==
    ASSUME IInv, Chain,
           \/ Stop \/ LoopEnds \/ End
           \/ \E force, require \in BOOLEAN : Gate(force, require)
           \/ RunMerge \/ CommitToModel
           \/ UNCHANGED <<vars, device>>
    PROVE  Chain'
<1>0. RowsAreConsecutive /\ ScheduleIsFirst /\ RunsToTheEnd
  BY DEF Chain
<1>1. CASE End
  <2>1. /\ pc' = "down" /\ engine' = NewEngine /\ arena' = <<>>
        /\ ~out_of_patience' /\ UNCHANGED <<options, disk, first, uniform>>
    BY <1>1 DEF End, Exit
  <2>2. ~NewEngine.has_best
    BY DEF NewEngine
  <2>3. RowsAreConsecutive' /\ ScheduleIsFirst' /\ RunsToTheEnd'
    BY <2>1, <2>2, <1>0
    DEF RowsAreConsecutive, ScheduleIsFirst, RunsToTheEnd, Consecutive,
        Stepping, TotalSteps
  <2> QED
    BY <2>3 DEF Chain
<1>2. CASE ~End
  <2>1. /\ UNCHANGED <<options, engine, arena, fed, end, out_of_patience, disk,
                       first, uniform>>
        /\ pc' \in Stepping => pc \in Stepping
        /\ pc' # "down" => pc # "down"
        /\ pc' = "down" => pc = "down"
        /\ pc' \in {"evaluate", "checkpoint", "returned"} => pc' = pc
        /\ pc' = "returned" => report' = report
        /\ pc' = "final" =>
              \/ pc = "final" /\ report' = report
              \/ report'.stopped_early \/ engine.step = end
    <3>1. CASE Stop
      <4>1. report \in ReportType
        BY DEF IInv, StateTyped
      <4>2. report'.stopped_early
        BY <3>1, <4>1 DEF Stop, ReportType
      <4> QED
        BY <3>1, <4>2 DEF Stop, Stepping
    <3>2. CASE LoopEnds
      BY <3>2 DEF LoopEnds, Stepping
    <3>3. CASE RunMerge \/ CommitToModel
      BY <3>3 DEF RunMerge, CommitToModel, Stepping
    <3>4. CASE \E force, require \in BOOLEAN : Gate(force, require)
      BY <3>4 DEF Gate, Stepping
    <3>5. CASE UNCHANGED <<vars, device>>
      BY <3>5 DEF vars, call
    <3> QED
      BY <3>1, <3>2, <3>3, <3>4, <3>5, <1>2
  <2>2. TotalSteps' = TotalSteps /\ validation' = validation
    BY <2>1 DEF TotalSteps, validation
  <2>3. RowsAreConsecutive'
    BY <2>1, <2>2, <1>0 DEF RowsAreConsecutive, Consecutive
  <2>4. ScheduleIsFirst'
    BY <2>1, <2>2, <1>0 DEF ScheduleIsFirst
  <2>5. RunsToTheEnd'
    BY <2>1, <2>2, <1>0 DEF RunsToTheEnd
  <2> QED
    BY <2>3, <2>4, <2>5 DEF Chain
<1> QED
  BY <1>1, <1>2

\* However often it is killed, stopped and resumed, a chain consumes the
\* micro-batches in order and, asked only for the rest, anneals over the horizon
\* of the first process.
THEOREM ChainInvariant == DeviceSpec => []Chain
<1>1. DeviceInit => Chain
  BY ChainInit
<1>2. IInv /\ Chain /\ [DeviceNext]_<<vars, device>> => Chain'
  BY StartChain, TrainStepChain, MeasureChain, CheckpointChain, OtherChain
  DEF DeviceNext, Training
<1> QED
  BY <1>1, <1>2, InductiveInvariant, PTL DEF DeviceSpec

\* The state of such a chain is the one a single process has after as many steps,
\* and without a validation set the run that completes leaves the state of the
\* single process (update_engine.h:60-63).
THEOREM ChainsTrainAsOne ==
    DeviceSpec => [](uniform /\ pc # "down" =>
                        /\ arena = UninterruptedArena(Len(arena))
                        /\ ~validation => ResumedIsUninterrupted)
<1> DEFINE Claim == uniform /\ pc # "down" =>
                        /\ arena = UninterruptedArena(Len(arena))
                        /\ ~validation => ResumedIsUninterrupted
<1>1. IInv /\ Chain => Claim
  <2> SUFFICES ASSUME IInv, Chain, uniform, pc # "down"
               PROVE  /\ arena = UninterruptedArena(Len(arena))
                      /\ ~validation => ResumedIsUninterrupted
    OBVIOUS
  <2>1. /\ arena \in Seq(Row)
        /\ \A k \in DOMAIN arena : arena[k].split = first.split
    BY DEF IInv, StateIsTrained, Trained, Chain, ScheduleIsFirst
  <2>2. \A k \in DOMAIN arena : /\ arena[k].at = (k - 1) * GradAccum
                                /\ arena[k].horizon = TotalSteps
    BY DEF Chain, RowsAreConsecutive, Consecutive
  <2>3. ASSUME NEW k \in 1..Len(arena)
        PROVE  arena[k] = [at |-> (k - 1) * GradAccum, horizon |-> TotalSteps,
                           split |-> first.split]
    <3>1. k \in DOMAIN arena /\ arena[k] \in Row
      BY <2>1
    <3>2. arena[k] = [at |-> arena[k].at, horizon |-> arena[k].horizon,
                      split |-> arena[k].split]
      BY <3>1 DEF Row
    <3> QED
      BY <3>1, <3>2, <2>1, <2>2
  <2>4. arena = [k \in 1..Len(arena) |-> arena[k]]
    BY <2>1
  <2>5. arena = UninterruptedArena(Len(arena))
    BY <2>3, <2>4 DEF UninterruptedArena
  <2>6. ASSUME ~validation, Completed PROVE Len(arena) = TotalSteps
    BY <2>6 DEF Completed, Chain, RunsToTheEnd, ScheduleIsFirst
  <2>7. ~validation => FinalStep = TotalSteps
    BY DEF FinalStep, validation, Chain, ScheduleIsFirst
  <2> QED
    BY <2>5, <2>6, <2>7 DEF ResumedIsUninterrupted
<1> QED
  BY <1>1, InductiveInvariant, ChainInvariant, PTL
-----------------------------------------------------------------------------
(* Induction on the natural numbers, as a fact about sets. *)

\* A set of numbers has a least one.
LEMMA LeastNumber ==
    ASSUME NEW S, S \subseteq Nat, S # {}
    PROVE  \E m \in S : \A k \in S : m <= k
<1> DEFINE R == OpToRel(<, Nat)
<1>1. IsWellFoundedOn(R, Nat)
  BY NatLessThanWellFounded
<1>2. \A x, y \in Nat : x < y => <<x, y>> \in R
  BY DEF OpToRel
<1> HIDE DEF R
<1>3. PICK m \in S : \A y \in S : ~ (<<y, m>> \in R)
  BY <1>1, WFMin
<1>4. \A y \in S : ~ (y < m)
  BY <1>2, <1>3
<1> QED
  BY <1>4

\* A set with 0 and the successor of each of its numbers has every number.
LEMMA Induction ==
    ASSUME NEW S, 0 \in S, \A n \in Nat : n \in S => n + 1 \in S
    PROVE  Nat \subseteq S
<1> DEFINE D == Nat \ S
<1> SUFFICES ASSUME D # {} PROVE FALSE
  OBVIOUS
<1>1. PICK m \in D : \A k \in D : m <= k
  <2>1. D \subseteq Nat
    OBVIOUS
  <2> HIDE DEF D
  <2> QED
    BY <2>1, LeastNumber
<1>2. m \in Nat /\ m # 0 /\ m - 1 \in Nat
  BY <1>1
<1>3. m - 1 \in S
  BY <1>1, <1>2
<1> QED
  BY <1>1, <1>2, <1>3

-----------------------------------------------------------------------------
(* The verdicts of periodic evaluation, step by step. *)

\* Judge and Verdict, of any options and losses.
JudgeOf(o, sc, v, s) ==
    IF v.ended THEN v
    ELSE IF \/ s % EvalEveryOf(o, HorizonOf(o, NewEngine)) # 0
            \/ s = HorizonOf(o, NewEngine)
      THEN [v EXCEPT !.last = s]
    ELSE IF sc[s] < sc[v.best]
      THEN [v EXCEPT !.last = s, !.best = s, !.stale = 0]
    ELSE [v EXCEPT !.last = s, !.stale = @ + 1,
            !.ended = Patience > 0 /\ v.stale + 1 >= Patience]

Unjudged == [best |-> 0, stale |-> 0, ended |-> FALSE, last |-> 0]

Judges(o, sc, f, n) ==
    f = [s \in 0..n |-> IF s = 0 THEN Unjudged ELSE JudgeOf(o, sc, f[s - 1], s)]

VerdictsOf(o, sc) == CHOOSE f : Judges(o, sc, f, HorizonOf(o, NewEngine))

\* The best state after step s of the run that began.
BestAt(s) == VerdictsOf(first, score)[s].best

\* Verdicts defined step by step from given losses exist: the recursion is one.
LEMMA JudgesExist ==
    ASSUME NEW o, NEW sc, NEW n \in Nat
    PROVE  \E f : Judges(o, sc, f, n)
<1> DEFINE S == {k \in Nat : \E f : Judges(o, sc, f, k)}
<1>1. 0 \in S
  <2> DEFINE f == [s \in 0..0 |-> Unjudged]
  <2>1. Judges(o, sc, f, 0)
    BY DEF Judges
  <2> QED
    BY <2>1
<1>2. ASSUME NEW k \in Nat, k \in S PROVE k + 1 \in S
  <2>1. PICK f : Judges(o, sc, f, k)
    BY <1>2
  <2> DEFINE g == [s \in 0..(k + 1) |->
                    IF s = k + 1 THEN JudgeOf(o, sc, f[k], k + 1) ELSE f[s]]
  <2>2. \A s \in 0..k :
            f[s] = IF s = 0 THEN Unjudged ELSE JudgeOf(o, sc, f[s - 1], s)
    BY <2>1 DEF Judges
  <2>3. ASSUME NEW s \in 0..(k + 1)
        PROVE  g[s] = IF s = 0 THEN Unjudged ELSE JudgeOf(o, sc, g[s - 1], s)
    <3>1. CASE s = k + 1
      <4>1. g[s] = JudgeOf(o, sc, f[k], s) /\ g[s - 1] = f[k] /\ s # 0
        BY <3>1
      <4> QED
        BY <4>1
    <3>2. CASE s # k + 1 /\ s # 0
      <4>1. s \in 0..k /\ g[s] = f[s] /\ g[s - 1] = f[s - 1]
        BY <3>2
      <4> QED
        BY <4>1, <2>2, <3>2
    <3>3. CASE s = 0
      <4>1. s \in 0..k /\ g[s] = f[s]
        BY <3>3
      <4> QED
        BY <4>1, <2>2, <3>3
    <3> QED
      BY <3>1, <3>2, <3>3
  <2>4. g = [s \in 0..(k + 1) |-> g[s]]
    OBVIOUS
  <2> HIDE DEF g
  <2>5. Judges(o, sc, g, k + 1)
    BY <2>3, <2>4 DEF Judges
  <2> QED
    BY <2>5
<1> HIDE DEF S
<1>3. Nat \subseteq S
  BY <1>1, <1>2, Induction
<1> QED
  BY <1>3 DEF S

\* The verdict of a step is judged from the one before it.
LEMMA VerdictsAreJudged ==
    ASSUME NEW o \in Options, NEW sc
    PROVE  LET T == HorizonOf(o, NewEngine) IN
           /\ VerdictsOf(o, sc)[0] = Unjudged
           /\ \A s \in 1..T :
                VerdictsOf(o, sc)[s] = JudgeOf(o, sc, VerdictsOf(o, sc)[s - 1], s)
<1> DEFINE T == HorizonOf(o, NewEngine)
           V == VerdictsOf(o, sc)
<1>1. T \in Nat
  BY TotalIsPositive
<1> HIDE DEF T
<1>2. V = CHOOSE f : Judges(o, sc, f, T)
  BY DEF VerdictsOf, T
<1> HIDE DEF V
<1>3. Judges(o, sc, V, T)
  BY <1>1, <1>2, JudgesExist
<1>4. \A s \in 0..T : V[s] = IF s = 0 THEN Unjudged ELSE JudgeOf(o, sc, V[s - 1], s)
  BY <1>3 DEF Judges
<1>5. V[0] = Unjudged /\ \A s \in 1..T : V[s] = JudgeOf(o, sc, V[s - 1], s)
  BY <1>1, <1>4
<1> QED
  BY <1>5 DEF V, T

\* Verdict is that recursion, over the first process's losses.
LEMMA VerdictsAreOfFirst == Verdict = VerdictsOf(first, score)
BY DEF Verdict, VerdictsOf, Judges, Judge, JudgeOf, Unjudged, TotalSteps

\* The verdict of a run that has not ended at step s.
GoesOn(v, s) ==
    /\ v = [best |-> v.best, stale |-> v.stale, ended |-> FALSE, last |-> s]
    /\ v.best \in 0..s /\ v.stale \in Nat

\* Without patience a run is judged to its end, and its best step so far is one it
\* has taken.
LEMMA VerdictsGoOn ==
    ASSUME Patience = 0, NEW o \in Options, NEW sc,
           NEW n \in 0..HorizonOf(o, NewEngine)
    PROVE  GoesOn(VerdictsOf(o, sc)[n], n)
<1> DEFINE T == HorizonOf(o, NewEngine)
           V == VerdictsOf(o, sc)
           S == {s \in Nat : s <= T => GoesOn(V[s], s)}
<1>1. T \in Nat
  BY TotalIsPositive
<1>2. V[0] = Unjudged /\ \A s \in 1..T : V[s] = JudgeOf(o, sc, V[s - 1], s)
  BY VerdictsAreJudged
<1> HIDE DEF T, V
<1>3. GoesOn(V[0], 0)
  BY <1>2 DEF GoesOn, Unjudged
<1>4. ASSUME NEW s \in Nat, GoesOn(V[s], s), s + 1 <= T
      PROVE  GoesOn(V[s + 1], s + 1)
  <2>1. s + 1 \in 1..T /\ (s + 1) - 1 = s
    BY <1>1, <1>4
  <2>2. V[s + 1] = JudgeOf(o, sc, V[s], s + 1)
    BY <1>2, <2>1
  <2> DEFINE v == V[s]
  <2>3. /\ v = [best |-> v.best, stale |-> v.stale, ended |-> FALSE, last |-> s]
        /\ v.best \in 0..s /\ v.stale \in Nat
    BY <1>4 DEF GoesOn
  <2>4. v.ended = FALSE
    BY <2>3
  <2> HIDE DEF v
  <2>5. \/ V[s + 1] = [v EXCEPT !.last = s + 1]
        \/ V[s + 1] = [v EXCEPT !.last = s + 1, !.best = s + 1, !.stale = 0]
        \/ V[s + 1] = [v EXCEPT !.last = s + 1, !.stale = @ + 1,
                         !.ended = Patience > 0 /\ v.stale + 1 >= Patience]
    <3>1. V[s + 1] = JudgeOf(o, sc, v, s + 1)
      BY <2>2 DEF v
    <3> QED
      BY <3>1, <2>4, Zenon DEF JudgeOf
  <2>6. (Patience > 0 /\ v.stale + 1 >= Patience) = FALSE
    OBVIOUS
  <2> DEFINE w == V[s + 1]
  <2> HIDE DEF w
  <2>7. \E b \in {v.best, s + 1}, k \in {v.stale, v.stale + 1, 0} :
            w = [best |-> b, stale |-> k, ended |-> FALSE, last |-> s + 1]
    <3>1. \/ w = [best |-> v.best, stale |-> v.stale, ended |-> FALSE, last |-> s + 1]
          \/ w = [best |-> s + 1, stale |-> 0, ended |-> FALSE, last |-> s + 1]
          \/ w = [best |-> v.best, stale |-> v.stale + 1, ended |-> FALSE, last |-> s + 1]
      <4>1. PICK b, k : b = v.best /\ k = v.stale
        OBVIOUS
      <4>2. v = [best |-> b, stale |-> k, ended |-> FALSE, last |-> s]
        BY <2>3, <4>1
      <4>3. v.stale = k
        BY <4>1
      <4>4. CASE w = [v EXCEPT !.last = s + 1]
        <5>1. w = [best |-> b, stale |-> k, ended |-> FALSE, last |-> s + 1]
          BY <4>2, <4>4
        <5> QED
          BY <5>1, <4>1, Zenon
      <4>5. CASE w = [v EXCEPT !.last = s + 1, !.best = s + 1, !.stale = 0]
        <5>1. w = [best |-> s + 1, stale |-> 0, ended |-> FALSE, last |-> s + 1]
          BY <4>2, <4>5
        <5> QED
          BY <5>1, Zenon
      <4>6. CASE w = [v EXCEPT !.last = s + 1, !.stale = @ + 1,
                         !.ended = Patience > 0 /\ v.stale + 1 >= Patience]
        <5>1. w = [v EXCEPT !.last = s + 1, !.stale = k + 1, !.ended = FALSE]
          BY <4>6, <2>6, <4>3
        <5> QED
          BY <5>1, <4>1, <4>2
      <4> QED
        BY <4>4, <4>5, <4>6, <2>5 DEF w
    <3> QED
      BY <3>1, Zenon
  <2>8. PICK b \in {v.best, s + 1}, k \in {v.stale, v.stale + 1, 0} :
            w = [best |-> b, stale |-> k, ended |-> FALSE, last |-> s + 1]
    BY <2>7
  <2>9. w.best = b /\ w.stale = k
    BY <2>8
  <2>10. b \in 0..(s + 1) /\ k \in Nat
    BY <2>3
  <2> QED
    BY <2>8, <2>9, <2>10 DEF GoesOn, w
<1>5. 0 \in S
  BY <1>3
<1>6. ASSUME NEW s \in Nat, s \in S PROVE s + 1 \in S
  <2>1. s + 1 <= T => s <= T
    BY <1>1
  <2> QED
    BY <2>1, <1>4, <1>6
<1> HIDE DEF S
<1>7. Nat \subseteq S
  BY <1>5, <1>6, Induction
<1>8. n \in Nat /\ n <= T
  BY <1>1 DEF T
<1> QED
  BY <1>7, <1>8 DEF S, V

\* The best state of a step is the new one where an evaluation is due and finds it
\* better than the best before it.
LEMMA BestIsJudgedFrom ==
    ASSUME Patience = 0, first \in Options, NEW s \in 1..TotalSteps
    PROVE  /\ BestAt(s) =
                IF /\ s % EvalEveryOf(first, TotalSteps) = 0 /\ s # TotalSteps
                   /\ score[s] < score[BestAt(s - 1)]
                  THEN s ELSE BestAt(s - 1)
           /\ BestAt(s) \in 0..s
<1> DEFINE w == VerdictsOf(first, score)[s]
           v == VerdictsOf(first, score)[s - 1]
<1>1. TotalSteps \in Nat /\ TotalSteps = HorizonOf(first, NewEngine)
  BY TotalIsPositive DEF TotalSteps
<1>2. s \in 0..HorizonOf(first, NewEngine) /\ s - 1 \in 0..HorizonOf(first, NewEngine)
  BY <1>1
<1>3. GoesOn(w, s) /\ GoesOn(v, s - 1)
  BY <1>2, VerdictsGoOn
<1>4. w = JudgeOf(first, score, v, s)
  BY <1>1, VerdictsAreJudged
<1>5. BestAt(s) = w.best /\ BestAt(s - 1) = v.best
  BY DEF BestAt
<1> HIDE DEF v, w
<1>6. v.ended = FALSE
  BY <1>3 DEF GoesOn
<1>7. v = [best |-> v.best, stale |-> v.stale, ended |-> FALSE, last |-> s - 1]
  BY <1>3 DEF GoesOn
<1>8. CASE /\ s % EvalEveryOf(first, TotalSteps) = 0 /\ s # TotalSteps
           /\ score[s] < score[v.best]
  <2>1. w = [v EXCEPT !.last = s, !.best = s, !.stale = 0]
    BY <1>1, <1>4, <1>6, <1>8, Zenon DEF JudgeOf
  <2>2. w.best = s
    BY <2>1, <1>7
  <2> QED
    BY <2>2, <1>5, <1>8
<1>9. CASE ~ (/\ s % EvalEveryOf(first, TotalSteps) = 0 /\ s # TotalSteps
              /\ score[s] < score[v.best])
  <2>1. \/ w = [v EXCEPT !.last = s]
        \/ w = [v EXCEPT !.last = s, !.stale = @ + 1,
                         !.ended = Patience > 0 /\ v.stale + 1 >= Patience]
    BY <1>1, <1>4, <1>6, <1>9, Zenon DEF JudgeOf
  <2>2. w.best = v.best
    BY <2>1, <1>7
  <2> QED
    BY <2>2, <1>3, <1>5, <1>9 DEF GoesOn
<1> QED
  BY <1>8, <1>9

\* Before the first step the source model is the best state.
LEMMA SourceIsBest ==
    ASSUME first \in Options
    PROVE  BestAt(0) = 0
<1>1. VerdictsOf(first, score)[0] = Unjudged
  BY VerdictsAreJudged
<1> QED
  BY <1>1 DEF BestAt, Unjudged

\* The last step, or the best one before it.
JudgedStep ==
    IF first.split = 0 \/ first.eval_every = 0 THEN TotalSteps
    ELSE IF score[TotalSteps] < score[BestAt(TotalSteps)]
      THEN TotalSteps ELSE BestAt(TotalSteps)

\* Without patience a single process runs to the last step and leaves JudgedStep.
LEMMA FinalIsJudged ==
    ASSUME Patience = 0, first \in Options
    PROVE  FinalStep = JudgedStep
<1>1. TotalSteps \in 0..HorizonOf(first, NewEngine)
  BY TotalIsPositive DEF TotalSteps
<1>2. GoesOn(VerdictsOf(first, score)[TotalSteps], TotalSteps)
  BY <1>1, VerdictsGoOn
<1>3. Verdict[TotalSteps].last = TotalSteps /\ Verdict[TotalSteps].best = BestAt(TotalSteps)
  BY <1>2, VerdictsAreOfFirst DEF BestAt, GoesOn
<1> QED
  BY <1>3 DEF FinalStep, JudgedStep

-----------------------------------------------------------------------------
(* A chain whose first process is asked for the whole run, and that has no     *)
(* patience, is judged as a run in one process.                                *)

\* The processes of the chain only finish what the first one was asked for.
WholeRun == uniform /\ StepsOf(first, NewEngine) = TotalSteps

\* The first process keeps the best state.
Tracked == first.split # 0 /\ EvalEveryOf(first, TotalSteps) > 0

RunGoesOn ==
    /\ ~out_of_patience
    /\ WholeRun =>
        /\ disk.members.step <= TotalSteps
        /\ pc # "down" => options.eval_every = first.eval_every /\ end = TotalSteps
        /\ pc \in Stepping => engine.step <= TotalSteps
        /\ pc = "final" /\ ~report.stopped_early => engine.step = TotalSteps

BestIsJudged ==
    WholeRun /\ Tracked =>
        /\ disk.members.step > 0 =>
            /\ disk.members.has_best
            /\ disk.members.best_step = BestAt(disk.members.step)
        /\ pc = "baseline" /\ engine.step > 0 =>
            engine.has_best /\ engine.best_step = BestAt(engine.step)
        /\ pc = "baseline" /\ engine.step = 0 => ~engine.has_best
        /\ pc \in {"loop", "checkpoint", "final"} =>
            engine.best_step = BestAt(engine.step)
        /\ pc = "evaluate" => engine.best_step = BestAt(engine.step - 1)

RunIsJudged ==
    /\ WholeRun /\ pc \in Reported /\ ~report.stopped_early =>
        Len(arena) = JudgedStep
    /\ pc \in Reported \ {"returned"} => ~report.stopped_early
    /\ pc = "rejected" =>
        ~ (ImprovedBy(report) /\ (required => AccuracyHeld(report)))

Judged == RunGoesOn /\ BestIsJudged /\ RunIsJudged

\* A resolved cadence is 0 only where the caller asked for none
\* (update_engine.cc:738-748).
LEMMA CadenceResolves ==
    ASSUME first \in Options
    PROVE  /\ EvalEveryOf(first, TotalSteps) \in Nat
           /\ EvalEveryOf(first, TotalSteps) = 0 <=> first.eval_every = 0
<1>1. first.eval_every \in Nat
  BY TrainAssumption DEF Options
<1>2. TotalSteps \in Nat
  BY TotalIsPositive DEF TotalSteps
<1> DEFINE a == TotalSteps \div AutoParts
           m == IF a >= 1 THEN a ELSE 1
<1>3. a \in Nat
  BY <1>2, TrainAssumption
<1> HIDE DEF a
<1>4. m \in {1, a} /\ (\A y \in {1, a} : m >= y) /\ m \in Nat /\ m # 0
  BY <1>3
<1>5. \A x : (x \in {1, a} /\ \A y \in {1, a} : x >= y) => x = m
  BY <1>3
<1> HIDE DEF m
<1>6. Max({1, a}) = m
  BY <1>4, <1>5 DEF Max
<1>7. kEvalEveryAuto # 0
  BY TrainAssumption
<1> QED
  BY <1>1, <1>4, <1>6, <1>7 DEF EvalEveryOf, a

\* Every process of the chain evaluates as the first.
LEMMA OptionsAreFirst ==
    ASSUME Chain, RunGoesOn, WholeRun, pc # "down"
    PROVE  /\ eval_every = EvalEveryOf(first, TotalSteps)
           /\ options.split = first.split
           /\ validation <=> first.split # 0
           /\ track_best <=> Tracked
           /\ end = TotalSteps
<1>1. options.split = first.split /\ engine.horizon = TotalSteps
  BY DEF Chain, ScheduleIsFirst, WholeRun
<1>2. options.eval_every = first.eval_every /\ end = TotalSteps
  BY DEF RunGoesOn
<1>3. eval_every = EvalEveryOf(first, TotalSteps)
  BY <1>1, <1>2 DEF eval_every, EvalEveryOf
<1> QED
  BY <1>1, <1>2, <1>3 DEF validation, track_best, Tracked

\* The run in one process is the same as long as the chain goes on.
LEMMA ReferenceKept ==
    ASSUME UNCHANGED <<first, score>>
    PROVE  /\ TotalSteps' = TotalSteps /\ Tracked' = Tracked
           /\ \A s : BestAt(s)' = BestAt(s)
           /\ JudgedStep' = JudgedStep
<1>1. TotalSteps' = TotalSteps
  BY DEF TotalSteps
<1>2. \A s : BestAt(s)' = BestAt(s)
  BY DEF BestAt
<1>3. JudgedStep' = JudgedStep
  BY <1>1, <1>2 DEF JudgedStep
<1> QED
  BY <1>1, <1>2, <1>3 DEF Tracked

\* Nothing is judged on a device without a checkpoint.
LEMMA JudgedInit == DeviceInit => Judged
<1> SUFFICES ASSUME DeviceInit PROVE Judged
  OBVIOUS
<1> USE DEF DeviceInit, Init
<1>1. disk.members.step = 0 /\ pc = "down"
  BY DEF NoCheckpoint, NewEngine
<1>2. TotalSteps \in Nat
  BY TotalIsPositive DEF TotalSteps
<1>3. 0 <= TotalSteps
  BY <1>2
<1>4. RunGoesOn
  BY <1>1, <1>3 DEF RunGoesOn, Stepping
<1>5. BestIsJudged
  BY <1>1 DEF BestIsJudged
<1>6. RunIsJudged
  BY <1>1 DEF RunIsJudged, Reported
<1> QED
  BY <1>4, <1>5, <1>6 DEF Judged

\* Before it returns a process has no run to be judged.
LEMMA NothingJudged ==
    ASSUME pc' \notin Reported
    PROVE  RunIsJudged'
BY DEF RunIsJudged, Reported

\* A resumed process has the rest of the run before it and the best state of the
\* checkpoint (update_engine.cc:561-668, 701-735).
LEMMA StartJudged ==
    ASSUME IInv, Chain, Judged, NEW o \in Options, Start(o)
    PROVE  Judged'
<1> DEFINE e == Restored
           n == StepsOf(o, e)
           h == HorizonOf(o, e)
<1>0. RunsToTheEnd /\ ScheduleIsFirst /\ RunGoesOn /\ BestIsJudged
  BY DEF Chain, Judged
<1>1. e \in EngineType /\ disk.members \in EngineType
  BY RestoredIsTrained DEF IInv, StateTyped
<1>2. /\ pc = "down" /\ pc' = "baseline" /\ options' = o
      /\ end' = e.step + n
      /\ engine' = [e EXCEPT !.horizon = h, !.split = o.split]
      /\ first' = IF Resumes THEN first ELSE o
      /\ uniform' = (Resumes =>
            uniform /\ o = [first EXCEPT !.steps = 0, !.horizon = 0])
      /\ UNCHANGED <<out_of_patience, report, disk, score>>
  BY DEF Start
<1>3. engine'.step = e.step /\ engine'.has_best = e.has_best
      /\ engine'.best_step = e.best_step
  BY <1>1, <1>2 DEF EngineType
<1>4. RunIsJudged'
  BY <1>2, NothingJudged DEF Reported
<1>5. CASE Resumes
  <2>1. /\ e.step = disk.members.step /\ e.horizon = disk.members.horizon
        /\ e.has_best = disk.members.has_best
        /\ e.best_step = disk.members.best_step
    BY <1>1, <1>5 DEF Restored, LoadCheckpoint, EngineType
  <2>2. e.step > 0 /\ e.step \in Nat /\ first' = first
    BY <2>1, <1>1, <1>2, <1>5 DEF Resumes, EngineType
  <2>3. /\ TotalSteps' = TotalSteps /\ Tracked' = Tracked
        /\ \A s : BestAt(s)' = BestAt(s)
    BY <2>2, <1>2, ReferenceKept
  <2>4. WholeRun' => WholeRun /\ o = [first EXCEPT !.steps = 0, !.horizon = 0]
    BY <2>2, <2>3, <1>2, <1>5 DEF WholeRun
  <2>5. RunGoesOn'
    <3> SUFFICES ASSUME WholeRun'
                 PROVE  /\ disk.members.step <= TotalSteps
                        /\ o.eval_every = first.eval_every /\ end' = TotalSteps
                        /\ e.step <= TotalSteps
      BY <2>2, <2>3, <1>0, <1>2, <1>3 DEF RunGoesOn
    <3>1. WholeRun /\ first \in Options
      BY <2>4, <1>0 DEF ScheduleIsFirst
    <3>2. o.steps = 0 /\ o.horizon = 0 /\ o.eval_every = first.eval_every
      BY <3>1, <2>4 DEF Options
    <3>3. disk.members.step <= TotalSteps
      BY <3>1, <1>0 DEF RunGoesOn
    <3>4. e.horizon = TotalSteps
      BY <3>1, <2>1, <2>2, <1>0 DEF ScheduleIsFirst, WholeRun
    <3>5. TotalSteps \in Nat \ {0}
      BY <3>1, TotalIsPositive DEF TotalSteps
    <3>6. n = Max({TotalSteps - e.step, 0})
      BY <3>2, <3>4, <3>5, <2>2 DEF StepsOf
    <3> HIDE DEF n, e
    <3>7. n = TotalSteps - e.step
      <4> DEFINE a == TotalSteps - e.step
      <4>1. a \in Nat
        BY <3>3, <3>5, <2>1, <2>2
      <4> HIDE DEF a
      <4>2. a \in {a, 0} /\ \A y \in {a, 0} : a >= y
        BY <4>1
      <4>3. \A x : (x \in {a, 0} /\ \A y \in {a, 0} : x >= y) => x = a
        BY <4>1
      <4>4. Max({a, 0}) = a
        BY <4>2, <4>3 DEF Max
      <4> QED
        BY <4>4, <3>6 DEF a
    <3> QED
      BY <3>2, <3>3, <3>5, <3>7, <2>1, <2>2, <1>2
  <2>6. BestIsJudged'
    <3> SUFFICES ASSUME WholeRun, Tracked
                 PROVE  /\ disk.members.has_best
                        /\ disk.members.best_step = BestAt(disk.members.step)
      BY <2>1, <2>2, <2>3, <2>4, <1>2, <1>3 DEF BestIsJudged
    <3> QED
      BY <2>1, <2>2, <1>0 DEF BestIsJudged
  <2> QED
    BY <2>5, <2>6, <1>4 DEF Judged
<1>6. CASE ~Resumes
  <2>1. disk.members.step = 0
    <3>1. disk.members.step \in Nat
      BY <1>1 DEF EngineType
    <3> QED
      BY <3>1, <1>6 DEF Resumes
  <2>2. e = NewEngine /\ first' = o
    BY <1>2, <1>6 DEF Restored
  <2>3. e.step = 0 /\ ~e.has_best
    BY <2>2 DEF NewEngine
  <2>4. TotalSteps' \in Nat /\ (WholeRun' => n = TotalSteps')
    BY <2>2, TotalIsPositive DEF TotalSteps, WholeRun
  <2>5. RunGoesOn'
    BY <2>1, <2>2, <2>3, <2>4, <1>0, <1>2, <1>3 DEF RunGoesOn
  <2>6. BestIsJudged'
    BY <2>1, <2>3, <1>2, <1>3 DEF BestIsJudged
  <2> QED
    BY <2>5, <2>6, <1>4 DEF Judged
<1> QED
  BY <1>5, <1>6

\* The bar of a run is the best state so far: the source model's at step 0, the
\* checkpoint's on a resume (update_engine.cc:869-911).
LEMMA BaselineJudged ==
    ASSUME IInv, Chain, Judged, Baseline
    PROVE  Judged'
<1> DEFINE measured ==
            IF engine.step > 0 /\ engine.has_val_initial THEN engine
            ELSE [engine EXCEPT !.has_val_initial = TRUE, !.val_initial = Loss,
                                !.val_initial_accuracy = AccuracyNow]
<1>0. ScheduleIsFirst /\ RunGoesOn /\ BestIsJudged /\ engine \in EngineType
  BY DEF Chain, Judged, IInv, StateTyped
<1>1. PICK loss, accuracy :
        engine' = IF ~validation THEN engine
                  ELSE IF track_best /\ ~engine.has_best
                    THEN SnapshotBest(measured, loss, accuracy) ELSE measured
  BY DEF Baseline
<1>2. /\ pc = "baseline" /\ pc' = "loop"
      /\ UNCHANGED <<options, end, out_of_patience, disk, first, uniform, score>>
  BY DEF Baseline
<1>3. /\ measured.step = engine.step /\ measured.has_best = engine.has_best
      /\ measured.best_step = engine.best_step
      /\ SnapshotBest(measured, loss, accuracy).step = engine.step
      /\ SnapshotBest(measured, loss, accuracy).best_step = engine.step
  BY <1>0 DEF SnapshotBest, EngineType
<1> HIDE DEF measured
<1>4. engine'.step = engine.step
  BY <1>1, <1>3
<1>5. /\ TotalSteps' = TotalSteps /\ Tracked' = Tracked /\ WholeRun' = WholeRun
      /\ \A s : BestAt(s)' = BestAt(s)
  BY <1>2, ReferenceKept DEF WholeRun
<1>6. RunGoesOn'
  BY <1>0, <1>2, <1>4, <1>5 DEF RunGoesOn, Stepping
<1>7. BestIsJudged'
  <2> SUFFICES ASSUME WholeRun, Tracked
               PROVE  engine'.best_step = BestAt(engine.step)
    BY <1>0, <1>2, <1>4, <1>5 DEF BestIsJudged
  <2>1. track_best /\ validation
    BY <1>0, <1>2, OptionsAreFirst DEF track_best
  <2>2. CASE engine.step > 0
    <3>1. engine.has_best /\ engine.best_step = BestAt(engine.step)
      BY <2>2, <1>0, <1>2 DEF BestIsJudged
    <3> QED
      BY <3>1, <2>1, <1>1, <1>3
  <2>3. CASE engine.step = 0
    <3>1. ~engine.has_best
      BY <2>3, <1>0, <1>2 DEF BestIsJudged
    <3>2. BestAt(0) = 0
      BY <1>0, SourceIsBest DEF ScheduleIsFirst
    <3> QED
      BY <3>1, <3>2, <2>1, <2>3, <1>1, <1>3
  <2>4. engine.step \in Nat
    BY <1>0 DEF EngineType
  <2> QED
    BY <2>2, <2>3, <2>4
<1>8. RunIsJudged'
  BY <1>2, NothingJudged DEF Reported
<1> QED
  BY <1>6, <1>7, <1>8 DEF Judged

\* A step takes the run no further than its total (update_engine.cc:922-958).
LEMMA TrainStepJudged ==
    ASSUME IInv, Chain, Judged, TrainStep
    PROVE  Judged'
<1>0. RunGoesOn /\ BestIsJudged /\ engine \in EngineType
  BY DEF Judged, IInv, StateTyped
<1>1. /\ pc = "loop" /\ engine.step < end /\ pc' = "evaluate"
      /\ engine' = [engine EXCEPT !.step = @ + 1]
      /\ UNCHANGED <<options, end, out_of_patience, disk, first, uniform, score>>
  BY DEF TrainStep
<1>2. /\ engine'.step = engine.step + 1 /\ engine.step \in Nat
      /\ engine'.best_step = engine.best_step
  BY <1>0, <1>1 DEF EngineType
<1>3. /\ TotalSteps' = TotalSteps /\ Tracked' = Tracked /\ WholeRun' = WholeRun
      /\ \A s : BestAt(s)' = BestAt(s)
  BY <1>1, ReferenceKept DEF WholeRun
<1>4. RunGoesOn'
  <2> SUFFICES ASSUME WholeRun PROVE engine.step + 1 <= TotalSteps
    BY <1>0, <1>1, <1>2, <1>3 DEF RunGoesOn
  <2>1. end = TotalSteps
    BY <1>0, <1>1 DEF RunGoesOn
  <2>2. end \in Nat
    BY DEF IInv, StateTyped
  <2> QED
    BY <2>1, <2>2, <1>1, <1>2
<1>5. BestIsJudged'
  <2>1. engine'.step - 1 = engine.step
    BY <1>2
  <2> QED
    BY <2>1, <1>0, <1>1, <1>2, <1>3 DEF BestIsJudged
<1>6. RunIsJudged'
  BY <1>1, NothingJudged DEF Reported
<1> QED
  BY <1>4, <1>5, <1>6 DEF Judged

\* The loop of a run that is not stopped ends at its last step.
LEMMA LoopExitJudged ==
    ASSUME IInv, Chain, Judged, Stop \/ LoopEnds
    PROVE  Judged'
<1>0. RunGoesOn /\ BestIsJudged /\ report \in ReportType
  BY DEF Judged, IInv, StateTyped
<1>1. /\ pc = "loop" /\ pc' = "final"
      /\ UNCHANGED <<options, engine, end, out_of_patience, disk, first, uniform, score>>
  BY DEF Stop, LoopEnds
<1>2. report'.stopped_early \/ engine.step = end
  BY <1>0 DEF Stop, LoopEnds, ReportType
<1>3. /\ TotalSteps' = TotalSteps /\ Tracked' = Tracked /\ WholeRun' = WholeRun
      /\ \A s : BestAt(s)' = BestAt(s)
  BY <1>1, ReferenceKept DEF WholeRun
<1>4. RunGoesOn'
  BY <1>0, <1>1, <1>2, <1>3 DEF RunGoesOn, Stepping
<1>5. BestIsJudged'
  BY <1>0, <1>1, <1>3 DEF BestIsJudged
<1>6. RunIsJudged'
  BY <1>1, NothingJudged DEF Reported
<1> QED
  BY <1>4, <1>5, <1>6 DEF Judged

\* An evaluation judges the step as the run in one process does, whichever
\* process takes it (update_engine.cc:973-1010).
LEMMA EvaluateJudged ==
    ASSUME Patience = 0, IInv, Chain, Judged, Evaluate
    PROVE  Judged'
<1> DEFINE n == engine.step
           better == EvaluationDue /\ Loss < engine.best_loss
<1>0. /\ RunGoesOn /\ BestIsJudged /\ engine \in EngineType
      /\ ScheduleIsFirst /\ StateTyped /\ BestIsScored
  BY DEF Chain, Judged, IInv, StateTyped
<1>1. /\ pc = "evaluate" /\ pc' = "checkpoint"
      /\ UNCHANGED <<options, end, disk, first, uniform, score>>
  BY DEF Evaluate
<1>2. ~out_of_patience'
  <2>1. ~ (Patience > 0)
    OBVIOUS
  <2> QED
    BY <2>1, <1>0 DEF Evaluate, RunGoesOn
<1>3. n \in Nat \ {0} /\ n = Len(arena)
  BY <1>0, <1>1 DEF Chain, RunsToTheEnd, EngineType, IInv, StateIsTrained, Stepping
<1>4. /\ engine'.step = n
      /\ better => engine'.best_step = n
      /\ ~better => engine'.best_step = engine.best_step
  <2>1. engine' = IF ~EvaluationDue THEN engine
                  ELSE IF Loss < engine.best_loss
                    THEN SnapshotBest(engine, Loss, AccuracyNow)
                    ELSE [engine EXCEPT !.stale_evals = @ + 1]
    BY DEF Evaluate
  <2> QED
    BY <2>1, <1>0 DEF SnapshotBest, EngineType
<1>5. /\ TotalSteps' = TotalSteps /\ Tracked' = Tracked /\ WholeRun' = WholeRun
      /\ \A s : BestAt(s)' = BestAt(s)
  BY <1>1, ReferenceKept DEF WholeRun
<1>6. RunGoesOn'
  BY <1>0, <1>1, <1>2, <1>4, <1>5 DEF RunGoesOn, Stepping
<1>7. BestIsJudged'
  <2> SUFFICES ASSUME WholeRun, Tracked
               PROVE  engine'.best_step = BestAt(n)
    BY <1>0, <1>1, <1>4, <1>5 DEF BestIsJudged
  <2>1. /\ eval_every = EvalEveryOf(first, TotalSteps)
        /\ track_best /\ end = TotalSteps
    BY <1>0, <1>1, OptionsAreFirst
  <2>2. n <= TotalSteps /\ TotalSteps \in Nat
    BY <1>0, <1>1, TotalIsPositive
    DEF RunGoesOn, Stepping, ScheduleIsFirst, TotalSteps
  <2>3. engine.best_step = BestAt(n - 1)
    BY <1>0, <1>1 DEF BestIsJudged
  <2>4. engine.best_loss = score[BestAt(n - 1)] /\ Loss = score[n]
    BY <2>1, <2>3, <1>0, <1>1, <1>3 DEF BestIsScored, Scored, Measuring, Loss
  <2>5. BestAt(n) =
            IF /\ n % EvalEveryOf(first, TotalSteps) = 0 /\ n # TotalSteps
               /\ score[n] < score[BestAt(n - 1)]
              THEN n ELSE BestAt(n - 1)
    <3>1. n \in 1..TotalSteps /\ first \in Options
      BY <2>2, <1>0, <1>3 DEF ScheduleIsFirst
    <3> QED
      BY <3>1, BestIsJudgedFrom
  <2>6. EvaluationDue <=> n % EvalEveryOf(first, TotalSteps) = 0 /\ n # TotalSteps
    <3>1. n < TotalSteps <=> n # TotalSteps
      BY <2>2, <1>3
    <3> QED
      BY <3>1, <2>1 DEF EvaluationDue
  <2> HIDE DEF n
  <2> QED
    BY <2>3, <2>4, <2>5, <2>6, <1>4 DEF n
<1>8. RunIsJudged'
  BY <1>1, NothingJudged DEF Reported
<1> QED
  BY <1>6, <1>7, <1>8 DEF Judged

\* A checkpoint carries the best step with the step it is the best of
\* (update_engine.cc:506-556).
LEMMA CheckpointJudged ==
    ASSUME IInv, Chain, Judged, Checkpoint
    PROVE  Judged'
<1>0. /\ RunGoesOn /\ BestIsJudged /\ engine \in EngineType /\ BestIsScored
  BY DEF Judged, IInv, StateTyped
<1>1. /\ pc = "checkpoint" /\ pc' = "loop"
      /\ disk' \in {CheckpointRecord, disk}
      /\ UNCHANGED <<options, engine, end, out_of_patience, first, uniform, score>>
  BY <1>0 DEF Checkpoint, RunGoesOn
<1>2. /\ CheckpointRecord.members.step = engine.step
      /\ CheckpointRecord.members.has_best = engine.has_best
      /\ CheckpointRecord.members.best_step = engine.best_step
  BY <1>0 DEF CheckpointRecord, EngineType
<1>3. /\ TotalSteps' = TotalSteps /\ Tracked' = Tracked /\ WholeRun' = WholeRun
      /\ \A s : BestAt(s)' = BestAt(s)
  BY <1>1, ReferenceKept DEF WholeRun
<1>4. RunGoesOn'
  BY <1>0, <1>1, <1>2, <1>3 DEF RunGoesOn, Stepping
<1>5. BestIsJudged'
  <2> SUFFICES ASSUME WholeRun, Tracked, disk'.members.step > 0
               PROVE  /\ disk'.members.has_best
                      /\ disk'.members.best_step = BestAt(disk'.members.step)
                      /\ engine.best_step = BestAt(engine.step)
    BY <1>0, <1>1, <1>3 DEF BestIsJudged
  <2>1. engine.best_step = BestAt(engine.step)
    BY <1>0, <1>1 DEF BestIsJudged
  <2>2. engine.has_best
    <3>1. track_best
      BY <1>0, <1>1, OptionsAreFirst
    <3> QED
      BY <3>1, <1>0, <1>1 DEF BestIsScored, Measuring
  <2>3. CASE disk' = CheckpointRecord
    BY <2>1, <2>2, <2>3, <1>2
  <2>4. CASE disk' = disk
    BY <2>1, <2>4, <1>0 DEF BestIsJudged
  <2> QED
    BY <2>3, <2>4, <1>1
<1>6. RunIsJudged'
  BY <1>1, NothingJudged DEF Reported
<1> QED
  BY <1>4, <1>5, <1>6 DEF Judged

\* The final evaluation leaves the last state, or the best before it, as the run in
\* one process does (update_engine.cc:1043-1068).
LEMMA FinalJudged ==
    ASSUME Patience = 0, IInv, Chain, Judged, Final
    PROVE  Judged'
<1> DEFINE n == engine.step
           e == IF track_best /\ Loss < engine.best_loss
                  THEN SnapshotBest(engine, Loss, AccuracyNow) ELSE engine
<1>0. /\ RunGoesOn /\ BestIsJudged /\ engine \in EngineType
      /\ ScheduleIsFirst /\ StateTyped /\ BestIsScored
  BY DEF Chain, Judged, IInv, StateTyped
<1>1. /\ pc = "final" /\ pc' = "returned"
      /\ UNCHANGED <<options, end, out_of_patience, disk, first, uniform, score>>
      /\ arena' = IF validation /\ track_best /\ e.best_step # e.step
                    THEN e.best_state ELSE arena
  BY DEF Final
<1>2. report'.stopped_early = report.stopped_early
  <2>1. CASE validation
    <3>1. report \in ReportType
      BY <1>0 DEF StateTyped
    <3>2. PICK loss, accuracy, best :
            report' = [report EXCEPT !.val_final = loss, !.val_final_accuracy = accuracy,
                                     !.best_step = best]
      BY <2>1 DEF Final
    <3> QED
      BY <3>1, <3>2 DEF ReportType
  <2>2. CASE ~validation
    BY <2>2 DEF Final
  <2> QED
    BY <2>1, <2>2
<1>3. n = Len(arena) /\ n \in Nat
  BY <1>0, <1>1 DEF IInv, StateIsTrained, Stepping, EngineType
<1>4. /\ e.step = n
      /\ track_best /\ Loss < engine.best_loss => e.best_step = n
      /\ ~ (track_best /\ Loss < engine.best_loss) => e = engine
  BY <1>0 DEF SnapshotBest, EngineType
<1> HIDE DEF e
<1>5. /\ TotalSteps' = TotalSteps /\ Tracked' = Tracked /\ WholeRun' = WholeRun
      /\ JudgedStep' = JudgedStep /\ \A s : BestAt(s)' = BestAt(s)
  BY <1>1, ReferenceKept DEF WholeRun
<1>6. RunGoesOn'
  BY <1>0, <1>1, <1>5 DEF RunGoesOn, Stepping
<1>7. BestIsJudged'
  BY <1>0, <1>1, <1>5 DEF BestIsJudged
<1>8. RunIsJudged'
  <2> SUFFICES ASSUME WholeRun, ~report.stopped_early
               PROVE  Len(arena') = JudgedStep
    BY <1>1, <1>2, <1>5 DEF RunIsJudged
  <2>1. n = TotalSteps
    BY <1>0, <1>1 DEF RunGoesOn
  <2>2. /\ validation <=> first.split # 0
        /\ track_best <=> Tracked
    BY <1>0, <1>1, OptionsAreFirst
  <2>3. CASE ~Tracked
    <3>1. first.split = 0 \/ first.eval_every = 0
      BY <2>3, <1>0, CadenceResolves DEF Tracked, ScheduleIsFirst
    <3> QED
      BY <3>1, <2>1, <2>2, <2>3, <1>1, <1>3 DEF JudgedStep
  <2>4. CASE Tracked
    <3>1. first.split # 0 /\ first.eval_every # 0
      BY <2>4, <1>0, CadenceResolves DEF Tracked, ScheduleIsFirst
    <3>2. track_best /\ validation /\ engine.has_best
      BY <2>2, <2>4, <1>0, <1>1 DEF BestIsScored, Measuring, Tracked
    <3>3. engine.best_step = BestAt(n)
      BY <2>4, <1>0, <1>1 DEF BestIsJudged
    <3>4. engine.best_loss = score[BestAt(n)] /\ Loss = score[n]
      BY <3>2, <3>3, <1>0, <1>3 DEF BestIsScored, Scored, Loss
    <3>5. JudgedStep = IF score[n] < score[BestAt(n)] THEN n ELSE BestAt(n)
      BY <3>1, <2>1 DEF JudgedStep
    <3>6. Len(engine.best_state) = engine.best_step
      BY <3>2, <1>0 DEF BestIsScored, Trained
    <3> QED
      BY <3>2, <3>3, <3>4, <3>5, <3>6, <1>1, <1>3, <1>4
  <2> QED
    BY <2>3, <2>4
<1> QED
  BY <1>6, <1>7, <1>8 DEF Judged

\* The gate and what follows it keep the run and its report, and reject only a
\* report that did not improve (native_emitter.cc:456-541).
LEMMA DecisionJudged ==
    ASSUME IInv, Chain, Judged,
           \/ \E force, require \in BOOLEAN : Gate(force, require)
           \/ RunMerge \/ CommitToModel
    PROVE  Judged'
<1>0. RunGoesOn /\ BestIsJudged /\ RunIsJudged
  BY DEF Judged
<1>1. /\ pc \in Reported \ {"rejected"} /\ pc' \in Reported \ {"returned"}
      /\ UNCHANGED <<options, engine, arena, end, out_of_patience, report, disk,
                     first, uniform, score>>
  BY DEF Gate, RunMerge, CommitToModel, Reported
<1>2. /\ TotalSteps' = TotalSteps /\ Tracked' = Tracked /\ WholeRun' = WholeRun
      /\ JudgedStep' = JudgedStep /\ \A s : BestAt(s)' = BestAt(s)
  BY <1>1, ReferenceKept DEF WholeRun
<1>3. RunGoesOn'
  BY <1>0, <1>1, <1>2 DEF RunGoesOn, Stepping, Reported
<1>4. BestIsJudged'
  BY <1>0, <1>1, <1>2 DEF BestIsJudged, Reported
<1>5. ~report.stopped_early
  BY <1>0 DEF Gate, RunMerge, CommitToModel, RunIsJudged, Reported
<1>6. pc' = "rejected" => ~ (ImprovedBy(report) /\ (required' => AccuracyHeld(report)))
  BY DEF Gate, RunMerge, CommitToModel
<1>7. (ImprovedBy(report))' = ImprovedBy(report) /\ (AccuracyHeld(report))' = AccuracyHeld(report)
  BY <1>1 DEF ImprovedBy, AccuracyHeld, validation
<1>8. RunIsJudged'
  BY <1>0, <1>1, <1>2, <1>5, <1>6, <1>7 DEF RunIsJudged
<1> QED
  BY <1>3, <1>4, <1>8 DEF Judged

\* The end of a process, by exit or by death.
LEMMA EndJudged ==
    ASSUME IInv, Chain, Judged, End
    PROVE  Judged'
<1>0. RunGoesOn /\ BestIsJudged
  BY DEF Judged
<1>1. /\ pc' = "down" /\ ~out_of_patience'
      /\ UNCHANGED <<disk, first, uniform, score>>
  BY DEF End, Exit
<1>2. /\ TotalSteps' = TotalSteps /\ Tracked' = Tracked /\ WholeRun' = WholeRun
      /\ \A s : BestAt(s)' = BestAt(s)
  BY <1>1, ReferenceKept DEF WholeRun
<1>3. RunGoesOn'
  BY <1>0, <1>1, <1>2 DEF RunGoesOn, Stepping
<1>4. BestIsJudged'
  BY <1>0, <1>1, <1>2 DEF BestIsJudged
<1>5. RunIsJudged'
  BY <1>1, NothingJudged DEF Reported
<1> QED
  BY <1>3, <1>4, <1>5 DEF Judged

\* A step that changes nothing.
LEMMA QuietJudged ==
    ASSUME Judged, UNCHANGED <<vars, device>>
    PROVE  Judged'
<1>0. /\ UNCHANGED <<pc, options, engine, arena, end, out_of_patience, report, disk,
                     first, uniform, score, required>>
  BY DEF vars, call, device
<1>1. /\ TotalSteps' = TotalSteps /\ Tracked' = Tracked /\ WholeRun' = WholeRun
      /\ JudgedStep' = JudgedStep /\ \A s : BestAt(s)' = BestAt(s)
  BY <1>0, ReferenceKept DEF WholeRun
<1>2. (ImprovedBy(report))' = ImprovedBy(report) /\ (AccuracyHeld(report))' = AccuracyHeld(report)
  BY <1>0 DEF ImprovedBy, AccuracyHeld, validation
<1>3. RunGoesOn'
  BY <1>0, <1>1 DEF Judged, RunGoesOn
<1>4. BestIsJudged'
  BY <1>0, <1>1 DEF Judged, BestIsJudged
<1>5. RunIsJudged'
  BY <1>0, <1>1, <1>2 DEF Judged, RunIsJudged
<1> QED
  BY <1>3, <1>4, <1>5 DEF Judged

\* Whatever processes a chain is made of, its evaluations decide step by step what
\* those of the run in one process decide.
THEOREM JudgedInvariant ==
    ASSUME Patience = 0
    PROVE  DeviceSpec => []Judged
<1>1. DeviceInit => Judged
  BY JudgedInit
<1>2. IInv /\ Chain /\ Judged /\ [DeviceNext]_<<vars, device>> => Judged'
  BY StartJudged, BaselineJudged, TrainStepJudged, LoopExitJudged, EvaluateJudged,
     CheckpointJudged, FinalJudged, DecisionJudged, EndJudged, QuietJudged
  DEF DeviceNext, Training
<1> QED
  BY <1>1, <1>2, InductiveInvariant, ChainInvariant, PTL DEF DeviceSpec

\* Where no caller asks for a horizon beyond its steps, the first process is asked
\* for the whole run.
LEMMA FirstIsWhole ==
    ASSUME Horizons \subseteq {0}, first \in Options
    PROVE  StepsOf(first, NewEngine) = TotalSteps
<1>1. first.horizon = 0
  BY DEF Options
<1>2. NewEngine.step = 0 /\ NewEngine.horizon = 0
  BY DEF NewEngine
<1>3. HorizonOf(first, NewEngine) = 0 + StepsOf(first, NewEngine)
  BY <1>1, <1>2 DEF HorizonOf
<1>4. StepsOf(first, NewEngine) \in Nat
  <2>1. NewEngine \in EngineType
    BY DEF NewEngine, EngineType
  <2> QED
    BY <2>1, CountsResolve
<1> QED
  BY <1>3, <1>4 DEF TotalSteps

\* What a chain leaves that only finished the run its first process was asked for.
LEMMA LeavesTheRun ==
    ASSUME Patience = 0, IInv, Chain, Judged, WholeRun, pc \in Reported,
           ~report.stopped_early
    PROVE  arena = UninterruptedArena(FinalStep) /\ Len(arena) = FinalStep
<1>1. /\ arena \in Seq(Row) /\ options.split = first.split /\ pc # "down"
      /\ \A k \in DOMAIN arena : arena[k].split = first.split
  BY DEF IInv, StateIsTrained, Trained, Chain, ScheduleIsFirst, WholeRun, Reported
<1>2. \A k \in DOMAIN arena : /\ arena[k].at = (k - 1) * GradAccum
                              /\ arena[k].horizon = TotalSteps
  BY DEF Chain, RowsAreConsecutive, Consecutive, WholeRun
<1>3. ASSUME NEW k \in 1..Len(arena)
      PROVE  arena[k] = [at |-> (k - 1) * GradAccum, horizon |-> TotalSteps,
                         split |-> first.split]
  <2>1. k \in DOMAIN arena /\ arena[k] \in Row
    BY <1>1
  <2>2. arena[k] = [at |-> arena[k].at, horizon |-> arena[k].horizon,
                    split |-> arena[k].split]
    BY <2>1 DEF Row
  <2> QED
    BY <2>1, <2>2, <1>1, <1>2
<1>4. arena = [k \in 1..Len(arena) |-> arena[k]]
  BY <1>1
<1>5. arena = UninterruptedArena(Len(arena))
  BY <1>3, <1>4 DEF UninterruptedArena
<1>6. Len(arena) = JudgedStep
  BY DEF Judged, RunIsJudged
<1>7. FinalStep = JudgedStep
  BY FinalIsJudged DEF Chain, ScheduleIsFirst
<1> QED
  BY <1>5, <1>6, <1>7

\* An interrupted and resumed update is the uninterrupted one: the run that
\* completes leaves the state, and reports the losses, of a run in one process,
\* behind a validation set or not (update_engine.h:60-63).
THEOREM ResumedAsUninterrupted ==
    ASSUME Patience = 0, Horizons \subseteq {0}
    PROVE  DeviceSpec => []ResumedIsUninterrupted
<1>1. IInv /\ Chain /\ Judged => ResumedIsUninterrupted
  <2> SUFFICES ASSUME IInv, Chain, Judged, Completed, uniform
               PROVE  /\ arena = UninterruptedArena(FinalStep)
                      /\ validation =>
                            /\ report.val_initial = score[0]
                            /\ report.val_final = score[FinalStep]
                            /\ report.val_final_accuracy = Accuracy[FinalStep]
    BY DEF ResumedIsUninterrupted
  <2>1. WholeRun /\ pc \in Reported /\ ~report.stopped_early
    BY FirstIsWhole DEF Completed, WholeRun, Reported, Chain, ScheduleIsFirst
  <2>2. arena = UninterruptedArena(FinalStep) /\ Len(arena) = FinalStep
    BY <2>1, LeavesTheRun
  <2> QED
    BY <2>1, <2>2 DEF IInv, ReportIsScored, Loss, AccuracyNow
<1> QED
  BY <1>1, InductiveInvariant, ChainInvariant, JudgedInvariant, PTL

\* Behind a gate on validation loss a resumed update is accepted exactly when the
\* uninterrupted one is, and commits its bits (docs/runtime.md:62).
THEOREM ResumedCommitsTheBits ==
    ASSUME Patience = 0, Horizons \subseteq {0}
    PROVE  DeviceSpec => []ValidatedCommitsTheBits
<1>1. IInv /\ Chain /\ Judged => ValidatedCommitsTheBits
  <2> SUFFICES ASSUME IInv, Chain, Judged, validation, Decided
               PROVE  /\ (pc = "committed") = UninterruptedAccepts
                      /\ pc = "committed" => out = {UninterruptedArena(FinalStep)}
    BY DEF ValidatedCommitsTheBits, CommitsTheBits
  <2> DEFINE n == FinalStep
             better == ImprovedBy(report) /\ (required => AccuracyHeld(report))
  <2>1. /\ uniform /\ ~forced /\ pc \in {"committed", "rejected"}
        /\ ~report.stopped_early
    BY DEF Decided, Judged, RunIsJudged, Reported
  <2>2. WholeRun /\ pc \in Reported
    BY <2>1, FirstIsWhole DEF WholeRun, Reported, Chain, ScheduleIsFirst
  <2>3. arena = UninterruptedArena(n) /\ Len(arena) = n
    BY <2>1, <2>2, LeavesTheRun
  <2>4. /\ report.val_initial = score[0] /\ report.val_final = score[n]
        /\ report.val_initial_accuracy = Accuracy[0]
        /\ report.val_final_accuracy = Accuracy[n]
    BY <2>2, <2>3 DEF IInv, ReportIsScored, Loss, AccuracyNow
  <2>5. report.val_initial \in Int /\ report.val_final \in Int
    BY DEF IInv, StateTyped, ReportType
  <2> HIDE DEF n
  <2>6. ImprovedBy(report) <=>
            /\ score[n] < score[0]
            /\ score[n] * 100 <= score[0] * (100 - MinImprovement)
    <3>1. ImprovedBy(report) <=>
            /\ score[n] < score[0]
            /\ MinImprovement > 0 =>
                 score[n] * 100 <= score[0] * (100 - MinImprovement)
      BY <2>4 DEF ImprovedBy
    <3>2. score[n] < score[0] /\ MinImprovement = 0 =>
             score[n] * 100 <= score[0] * (100 - MinImprovement)
      BY <2>4, <2>5
    <3>3. MinImprovement = 0 \/ MinImprovement > 0
      BY DeviceAssumption
    <3> QED
      BY <3>1, <3>2, <3>3
  <2>7. UninterruptedAccepts <=> better
    BY <2>4, <2>6 DEF UninterruptedAccepts, AccuracyHeld, n
  <2>8. pc = "committed" <=> better
    BY <2>1 DEF IInv, GateIsPassed, Judged, RunIsJudged
  <2>9. pc = "committed" => out = {arena}
    BY DEF IInv, GateIsPassed
  <2>10. (pc = "committed") = UninterruptedAccepts
    BY <2>7, <2>8 DEF UninterruptedAccepts
  <2> QED
    BY <2>3, <2>9, <2>10 DEF n
<1> QED
  BY <1>1, InductiveInvariant, ChainInvariant, JudgedInvariant, PTL
=============================================================================
