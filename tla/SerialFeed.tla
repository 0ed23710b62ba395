----------------------------- MODULE SerialFeed -----------------------------
(***************************************************************************)
(* What BatchPipeline promises the engine (runtime/pipeline/               *)
(* batch_pipeline.h): at any thread count a pipeline serves exactly the    *)
(* serial batch sequence, and a dataset that no pipeline uses stands where *)
(* the last consumed batch left it.                                        *)
(***************************************************************************)
EXTENDS Dataset

CONSTANTS Samples, BatchSize

VARIABLES
    open,     \* a pipeline exists
    consumed, \* batches handed out since the dataset was loaded
    slot,     \* the arena's input and label slots
    dataset   \* the dataset as seen while no pipeline exists

svars == <<open, consumed, slot, dataset>>

Init ==
    /\ open = FALSE
    /\ consumed = 0
    /\ slot = [inputs |-> <<>>, labels |-> <<>>]
    /\ dataset \in {Loaded(Samples), EnableShuffle(Loaded(Samples))}

Shuffled == dataset.order # 0

Open == ~open /\ open' = TRUE /\ UNCHANGED <<consumed, slot, dataset>>

Take ==
    LET batch == SerialBatch(Samples, Shuffled, BatchSize, consumed) IN
    /\ open
    /\ slot' = [inputs |-> batch, labels |-> batch]
    /\ consumed' = consumed + 1
    /\ dataset' = SerialPosition(Samples, Shuffled, consumed' * BatchSize)
    /\ UNCHANGED open

Close == open /\ open' = FALSE /\ UNCHANGED <<consumed, slot, dataset>>

Next == Open \/ Take \/ Close

Spec == Init /\ [][Next]_svars
=============================================================================
