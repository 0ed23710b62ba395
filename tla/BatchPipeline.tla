--------------------------- MODULE BatchPipeline ---------------------------
(***************************************************************************)
(* The feeder thread that stages the next batch while the engine executes  *)
(* the current one (runtime/pipeline/batch_pipeline.cc), with the engine's *)
(* thread as the consumer: it builds a pipeline, takes batches and leaves  *)
(* at any time.  One pipeline exists at a time, over one dataset.          *)
(*                                                                         *)
(* full_ and stop_ are read and written under mutex_ only, so a critical   *)
(* section, or the test and the sleep of a wait, is one action.  The fill  *)
(* of the staging buffers and the two copies out of them run unlocked and  *)
(* are split: one action per turn of FillBatch's loop, one per memcpy.     *)
(***************************************************************************)
EXTENDS Dataset

CONSTANTS
    NumSamples, \* num_samples_ of the dataset
    Batch,      \* records of a batch
    MaxBatches  \* bound: batches taken in all

ASSUME BatchAssumption ==
    NumSamples \in Nat \ {0} /\ Batch \in Nat \ {0} /\ MaxBatches \in Nat

VARIABLES
    data,           \* the dataset
    threaded,       \* threaded_
    full, stop,     \* full_, stop_
    stage_start,    \* stage_start_
    staged,         \* the staging buffers; a record fills both of them
    slot,           \* the plan's input and label slots
    consumer,       \* pc of the engine's thread
    feeder,         \* pc of the feeder thread
    consumed        \* history: batches taken

flags == <<threaded, full, stop>>
vars == <<data, flags, stage_start, staged, slot, consumer, feeder, consumed>>

Position == [cursor : 0..(NumSamples - 1), epoch : Nat]

InitWith(d) ==
    /\ data = d
    /\ threaded = FALSE /\ full = FALSE /\ stop = FALSE
    /\ stage_start = [cursor |-> 0, epoch |-> 0]
    /\ staged = <<>>
    /\ slot = [inputs |-> <<>>, labels |-> <<>>]
    /\ consumer = "closed" /\ feeder = "none"
    /\ consumed = 0

Init ==
    \E d \in {Loaded(NumSamples), EnableShuffle(Loaded(NumSamples))} : InitWith(d)

\* Who wakes up when a thread does cv_.notify_all().
WokenConsumer == IF consumer = "parked" THEN "wait" ELSE consumer
WokenFeeder == IF feeder = "parked" THEN "wait" ELSE feeder

(***************************************************************************)
(* The constructor.  With one thread no feeder exists.                     *)
(***************************************************************************)
Construct ==
    /\ consumer = "closed"
    /\ threaded' \in BOOLEAN
    /\ full' = FALSE /\ stop' = FALSE
    /\ staged' = <<>>
    /\ consumer' = "ready"
    /\ feeder' = IF threaded' THEN "wait" ELSE "none"
    /\ UNCHANGED <<data, stage_start, slot, consumed>>

(***************************************************************************)
(* FeederLoop.                                                             *)
(***************************************************************************)
FeederWait ==
    /\ feeder = "wait"
    /\ feeder' = CASE stop -> "exited"
                   [] ~stop /\ ~full -> "stage"
                   [] OTHER -> "parked"
    /\ UNCHANGED <<data, flags, stage_start, staged, slot, consumer, consumed>>

Stage ==
    /\ feeder = "stage"
    /\ stage_start' = SaveServingPos(data)
    /\ staged' = <<>>
    /\ feeder' = "fill"
    /\ UNCHANGED <<data, flags, slot, consumer, consumed>>

\* FillBatch into the staging buffers, one turn at a time.
Fill ==
    LET left == Batch - Len(staged) IN
    /\ feeder = "fill" /\ left > 0
    /\ staged' = staged \o Run(data, left)
    /\ data' = AfterRun(data, left)
    /\ UNCHANGED <<flags, stage_start, slot, consumer, feeder, consumed>>

Publish ==
    /\ feeder = "fill" /\ Len(staged) = Batch
    /\ full' = TRUE
    /\ feeder' = "notify"
    /\ UNCHANGED <<data, threaded, stop, stage_start, staged, slot, consumer,
                   consumed>>

FeederNotify ==
    /\ feeder = "notify"
    /\ consumer' = WokenConsumer
    /\ feeder' = "wait"
    /\ UNCHANGED <<data, flags, stage_start, staged, slot, consumed>>

FeederLoop == FeederWait \/ Stage \/ Fill \/ Publish \/ FeederNotify

(***************************************************************************)
(* NextBatch.                                                              *)
(***************************************************************************)

\* Without a feeder the slots are filled directly.
BeginDirect ==
    /\ consumer = "ready" /\ ~threaded /\ consumed < MaxBatches
    /\ slot' = [inputs |-> <<>>, labels |-> <<>>]
    /\ consumer' = "direct"
    /\ UNCHANGED <<data, flags, stage_start, staged, feeder, consumed>>

FillDirect ==
    LET left == Batch - Len(slot.inputs)
        run == Run(data, left) IN
    /\ consumer = "direct" /\ left > 0
    /\ slot' = [inputs |-> slot.inputs \o run, labels |-> slot.labels \o run]
    /\ data' = AfterRun(data, left)
    /\ IF Len(slot'.inputs) = Batch
         THEN consumer' = "ready" /\ consumed' = consumed + 1
         ELSE UNCHANGED <<consumer, consumed>>
    /\ UNCHANGED <<flags, stage_start, staged, feeder>>

NextBatch ==
    /\ consumer = "ready" /\ threaded /\ consumed < MaxBatches
    /\ consumer' = "wait"
    /\ UNCHANGED <<data, flags, stage_start, staged, slot, feeder, consumed>>

ConsumerWait ==
    /\ consumer = "wait"
    /\ consumer' = IF full THEN "copy" ELSE "parked"
    /\ UNCHANGED <<data, flags, stage_start, staged, slot, feeder, consumed>>

\* Mutant: the buffers are handed back before they are copied.
CopyInputs_Released ==
    /\ consumer = "copy"
    /\ slot' = [slot EXCEPT !.inputs = staged]
    /\ full' = FALSE
    /\ consumer' = "labels"
    /\ UNCHANGED <<data, threaded, stop, stage_start, staged, feeder, consumed>>

CopyInputs ==
    /\ consumer = "copy"
    /\ slot' = [slot EXCEPT !.inputs = staged]
    /\ consumer' = "labels"
    /\ UNCHANGED <<data, flags, stage_start, staged, feeder, consumed>>

CopyLabels ==
    /\ consumer = "labels"
    /\ slot' = [slot EXCEPT !.labels = staged]
    /\ consumer' = "release"
    /\ UNCHANGED <<data, flags, stage_start, staged, feeder, consumed>>

Release ==
    /\ consumer = "release"
    /\ full' = FALSE
    /\ consumer' = "notify"
    /\ consumed' = consumed + 1
    /\ UNCHANGED <<data, threaded, stop, stage_start, staged, slot, feeder>>

\* Mutant: the feeder is not told that the buffers are free.
ConsumerNotify_Silent ==
    /\ consumer = "notify"
    /\ consumer' = "ready"
    /\ UNCHANGED <<data, flags, stage_start, staged, slot, feeder, consumed>>

ConsumerNotify ==
    /\ consumer = "notify"
    /\ feeder' = WokenFeeder
    /\ consumer' = "ready"
    /\ UNCHANGED <<data, flags, stage_start, staged, slot, consumed>>

Take ==
    \/ FillDirect
    \/ ConsumerWait \/ CopyInputs \/ CopyLabels \/ Release \/ ConsumerNotify

(***************************************************************************)
(* The destructor.                                                         *)
(***************************************************************************)
Destroy ==
    /\ consumer = "ready"
    /\ IF threaded THEN stop' = TRUE /\ consumer' = "stop"
                   ELSE UNCHANGED stop /\ consumer' = "closed"
    /\ UNCHANGED <<data, threaded, full, stage_start, staged, slot, feeder,
                   consumed>>

NotifyStop ==
    /\ consumer = "stop"
    /\ feeder' = WokenFeeder
    /\ consumer' = "join"
    /\ UNCHANGED <<data, flags, stage_start, staged, slot, consumed>>

\* Mutant: a staged batch nobody took stays consumed.
Join_NoRestore ==
    /\ consumer = "join" /\ feeder = "exited"
    /\ feeder' = "none"
    /\ consumer' = "closed"
    /\ UNCHANGED <<data, flags, stage_start, staged, slot, consumed>>

\* A staged batch the engine never took is un-consumed.
Join ==
    /\ consumer = "join" /\ feeder = "exited"
    /\ data' = IF full THEN RestoreServingPos(data, stage_start) ELSE data
    /\ feeder' = "none"
    /\ consumer' = "closed"
    /\ UNCHANGED <<flags, stage_start, staged, slot, consumed>>

Next ==
    \/ Construct \/ BeginDirect \/ NextBatch \/ Destroy
    \/ Take \/ NotifyStop \/ Join
    \/ FeederLoop

Fairness == WF_vars(FeederLoop) /\ WF_vars(Take \/ NotifyStop \/ Join)

Spec == Init /\ [][Next]_vars
FairSpec == Spec /\ Fairness

(***************************************************************************)
(* Properties.                                                             *)
(***************************************************************************)

\* Every variable holds a value of its type.
TypeOK ==
    /\ data \in Datasets(NumSamples) /\ stage_start \in Position
    /\ threaded \in BOOLEAN /\ full \in BOOLEAN /\ stop \in BOOLEAN
    /\ Len(staged) <= Batch
    /\ consumer \in {"closed", "ready", "direct", "wait", "parked", "copy",
                     "labels", "release", "notify", "stop", "join"}
    /\ feeder \in {"none", "wait", "parked", "stage", "fill", "notify", "exited"}
    /\ consumed \in 0..MaxBatches

\* The staging buffers are handed back and forth: the engine copies out of
\* them only while the feeder is not staging (batch_pipeline.h:23-26).
StagingIsHandedOver ==
    consumer \in {"copy", "labels", "release"} => feeder \notin {"stage", "fill"}

Shuffled == data.order # 0

\* The pipeline implements the serial feed: its batches are the serial ones,
\* whole, in order, and a teardown at any moment leaves the dataset where the
\* last consumed batch left it (batch_pipeline.h:15-34).
Feed == INSTANCE SerialFeed WITH
    Samples <- NumSamples, BatchSize <- Batch,
    open <- consumer # "closed",
    slot <- IF consumer \in {"direct", "copy", "labels", "release"}
              THEN IF consumed = 0 THEN [inputs |-> <<>>, labels |-> <<>>]
                   ELSE [inputs |-> SerialBatch(NumSamples, Shuffled, Batch, consumed - 1),
                         labels |-> SerialBatch(NumSamples, Shuffled, Batch, consumed - 1)]
              ELSE slot,
    dataset <- IF consumer = "closed" THEN data
               ELSE SerialPosition(NumSamples, Shuffled, consumed * Batch)

ImplementsSerialFeed == Feed!Spec

\* Asking for a batch and tearing the pipeline down both end: no wake-up is
\* lost between the two threads that share cv_ (batch_pipeline.cc:27, 57, 78).
CallsReturn ==
    /\ consumer \in {"direct", "wait", "parked"} ~> consumer = "ready"
    /\ consumer \in {"stop", "join"} ~> consumer = "closed"
=============================================================================
