---------------------------- MODULE EvaluatePass ----------------------------
(***************************************************************************)
(* UpdateEngine::EvaluateMetrics (runtime/dispatcher/update_engine.cc)     *)
(* over a pipeline: it saves the dataset's position, rewinds, runs the     *)
(* eval program on every batch and puts the position back.  The program    *)
(* itself is abstract: it succeeds or, on a backend that can fail, fails.  *)
(* A failed evaluation ends the process, so no pass follows it.            *)
(***************************************************************************)
EXTENDS BatchPipeline, FiniteSetsExt

CONSTANTS
    MaxPasses,  \* bound: evaluations
    MaxStart    \* bound: records served before the first one

VARIABLES
    engine,     \* pc of EvaluateMetrics
    entry_pos,  \* entry_pos
    b,          \* the batch counter
    passes,     \* history: passes begun
    entry,      \* history: the dataset when the pass began
    judged      \* history: the records whose rows were scored

evars == <<engine, entry_pos, b, passes, entry, judged>>
allvars == <<vars, evars>>

EvalInit ==
    /\ \E shuffled \in BOOLEAN, k \in 0..MaxStart :
        /\ InitWith(SerialPosition(NumSamples, shuffled, k))
        /\ entry = SerialPosition(NumSamples, shuffled, k)
    /\ engine = "idle" /\ passes = 0
    /\ entry_pos = [cursor |-> 0, epoch |-> 0]
    /\ b = 0 /\ judged = <<>>

batches == Max({1, (NumSamples + Batch - 1) \div Batch})

\* Mutant: the pass starts wherever the dataset stands.
Begin_NoRewind ==
    /\ engine = "idle" /\ passes < MaxPasses
    /\ entry_pos' = SaveServingPos(data)
    /\ engine' = "construct"
    /\ b' = 0 /\ judged' = <<>>
    /\ passes' = passes + 1 /\ entry' = data
    /\ UNCHANGED <<data, flags, stage_start, staged, slot, consumer, feeder,
                   consumed>>

Begin ==
    /\ engine = "idle" /\ passes < MaxPasses
    /\ entry_pos' = SaveServingPos(data)
    /\ data' = Rewind(data)
    /\ engine' = "construct"
    /\ b' = 0 /\ judged' = <<>>
    /\ passes' = passes + 1 /\ entry' = data
    /\ UNCHANGED <<flags, stage_start, staged, slot, consumer, feeder, consumed>>

MakePipeline ==
    /\ engine = "construct"
    /\ Construct
    /\ engine' = "next"
    /\ UNCHANGED <<entry_pos, b, passes, entry, judged>>

AskBatch ==
    /\ engine = "next"
    /\ BeginDirect \/ NextBatch
    /\ engine' = "batch"
    /\ UNCHANGED <<entry_pos, b, passes, entry, judged>>

\* The wrapped duplicates at the end of the last batch are not scored.
RealSamples == Min({Batch, NumSamples - b * Batch})

Execute ==
    /\ engine = "batch" /\ consumer = "ready"
    /\ judged' = judged \o SubSeq(slot.inputs, 1, RealSamples)
    /\ b' = b + 1
    /\ engine' = IF b + 1 = batches THEN "leave" ELSE "next"
    /\ UNCHANGED <<vars, entry_pos, passes, entry>>

\* The error return: the position is put back while the pipeline is alive.
ExecuteFails ==
    /\ engine = "batch" /\ consumer = "ready"
    /\ data' = RestoreServingPos(data, entry_pos)
    /\ engine' = "fail"
    /\ UNCHANGED <<flags, stage_start, staged, slot, consumer, feeder, consumed>>
    /\ UNCHANGED <<entry_pos, b, passes, entry, judged>>

Leave ==
    /\ engine \in {"leave", "fail"}
    /\ Destroy
    /\ engine' = IF engine = "leave" THEN "left" ELSE "failed"
    /\ UNCHANGED <<entry_pos, b, passes, entry, judged>>

\* Mutant: the pass ends with a rewind only.
Finish_RewindOnly ==
    /\ engine = "left" /\ consumer = "closed"
    /\ data' = [data EXCEPT !.cursor = entry_pos.cursor]
    /\ engine' = "idle"
    /\ UNCHANGED <<flags, stage_start, staged, slot, consumer, feeder, consumed>>
    /\ UNCHANGED <<entry_pos, b, passes, entry, judged>>

Finish ==
    /\ engine = "left" /\ consumer = "closed"
    /\ data' = RestoreServingPos(data, entry_pos)
    /\ engine' = "idle"
    /\ UNCHANGED <<flags, stage_start, staged, slot, consumer, feeder, consumed>>
    /\ UNCHANGED <<entry_pos, b, passes, entry, judged>>

Pipeline == (Take \/ NotifyStop \/ Join \/ FeederLoop) /\ UNCHANGED evars

EvalNext ==
    \/ Begin \/ MakePipeline \/ AskBatch \/ Execute \/ ExecuteFails
    \/ Leave \/ Finish
    \/ Pipeline

EvalSpec == EvalInit /\ [][EvalNext]_allvars

Scored == engine = "idle" /\ passes > 0

\* A pass scores every sample of the set once, from the top of the order the
\* set was in, whatever the position it was entered at and however the last
\* batch wraps (update_engine.cc:629-639, 699-712).
EverySampleIsScoredOnce ==
    Scored => judged = [i \in 1..NumSamples |-> <<entry.order, i - 1>>]

\* A pass leaves no trace on the dataset: the next pass, the gate's second
\* evaluation or the training that follows sees it as it was
\* (update_engine.cc:634-639).
EvaluationLeavesNoTrace == Scored => data = entry

\* The Dataset is touched only by the feeder thread between construction and
\* destruction of the pipeline (batch_pipeline.h:23-24).
OnlyTheFeederTouchesTheDataset ==
    [][data' # data /\ threaded /\ consumer # "closed" =>
        (feeder = "fill" /\ staged' # staged) \/ consumer' = "closed"]_allvars
=============================================================================
