--------------------------- MODULE DatasetServing ---------------------------
(***************************************************************************)
(* One thread uses a dataset (runtime/pipeline/dataset.cc): it has the     *)
(* labels validated, splits a validation set off, shuffles, serves         *)
(* batches, saves and restores positions, and skips to where an            *)
(* interrupted run stood.  After a split the model follows either half.    *)
(* One label stands for a sample, or for the ids of a token record.        *)
(***************************************************************************)
EXTENDS Dataset, FiniteSetsExt

CONSTANTS
    MaxSamples, \* bound: samples of the loaded file
    Labels,     \* label values a file may hold
    Classes,    \* class counts plans ask for; 0: no classes
    Fractions,  \* validation fractions, <<numerator, denominator>>
    Batches,    \* batch sizes in records
    MaxServed   \* bound: records served since the origin

ASSUME ServingAssumption ==
    /\ MaxSamples \in Nat \ {0} /\ MaxServed \in Nat
    /\ Labels \subseteq Int /\ Classes \subseteq Nat /\ Batches \subseteq Nat
    /\ \A f \in Fractions : f[1] \in Nat /\ f[2] \in Nat /\ 0 < f[1] /\ f[1] < f[2]

VARIABLES
    dataset,     \* its serving state
    labels,      \* its labels
    extent,      \* proven_min_label_ and proven_max_label_; {} before a scan
    verdict,     \* history: the last class count asked for, and the answer
    saved,       \* a ServingPos taken on this permutation sequence
    served,      \* history: records served since loading or shuffling
    saved_at     \* history: served when saved was taken

position == <<dataset, saved, served, saved_at>>
serving_vars == <<position, labels, extent, verdict>>

NoPosition == [cursor |-> -1, epoch |-> -1]
NoVerdict == [classes |-> 0, ok |-> TRUE]

ServingInit ==
    /\ \E n \in 1..MaxSamples :
        dataset = Loaded(n) /\ labels \in [1..n -> Labels]
    /\ extent = {} /\ verdict = NoVerdict
    /\ saved = NoPosition
    /\ served = 0 /\ saved_at = 0

(***************************************************************************)
(* Labels.                                                                 *)
(***************************************************************************)

\* One scan ever.
Scan ==
    IF extent # {} THEN extent
    ELSE LET ids == {labels[i] : i \in DOMAIN labels} IN
         {[lo |-> Min(ids), hi |-> Max(ids)]}

\* A plan without classes asks nothing.
ValidateClassLabels(classes) ==
    /\ classes > 0
    /\ extent' = Scan
    /\ verdict' = [classes |-> classes,
                   ok |-> \A e \in extent' : e.lo >= 0 /\ e.hi < classes]
    /\ UNCHANGED <<position, labels>>

\* Truncation of num_samples * fraction, with at least one sample each side.
ValidationSamples(n, f) ==
    Min({n - 1, Max({1, (n * f[1]) \div f[2]})})

\* Mutant: the extent outlives the samples it was taken of.
ExtentAfterSplit_Kept == extent

ExtentAfterSplit == {}

\* Too few samples, or a dataset that shuffles, is refused.
SplitValidation(f) ==
    LET n == dataset.num_samples
        train_n == n - ValidationSamples(n, f) IN
    /\ n >= 2 /\ dataset.order = 0
    /\ \/ /\ dataset' = [dataset EXCEPT !.num_samples = train_n, !.cursor = 0]
          /\ labels' = SubSeq(labels, 1, train_n)
          /\ extent' = ExtentAfterSplit
       \/ /\ dataset' = Loaded(n - train_n)
          /\ labels' = SubSeq(labels, train_n + 1, n)
          /\ extent' = {}
    /\ verdict' = NoVerdict
    /\ served' = 0
    /\ saved' = NoPosition /\ saved_at' = 0

(***************************************************************************)
(* Positions.                                                              *)
(***************************************************************************)

\* The dataset and the records to go after one more turn of the loop.
Turn(state) ==
    IF state.left = 0 THEN state
    ELSE [set |-> AfterRun(state.set, state.left),
          left |-> state.left - RunLength(state.set, state.left)]

\* No turn serves less than a record, so n turns serve n of them.
FillBatch(d, n) ==
    LET turns[t \in 0..n] ==
            IF t = 0 THEN [set |-> d, left |-> n] ELSE Turn(turns[t - 1])
    IN turns[n].set

Serve(n) ==
    /\ served + n <= MaxServed
    /\ dataset' = FillBatch(dataset, n)
    /\ served' = served + n
    /\ UNCHANGED <<saved, saved_at>>

Shuffle ==
    /\ dataset' = EnableShuffle(dataset)
    /\ served' = 0
    /\ saved' = NoPosition /\ saved_at' = 0

Save ==
    /\ saved' = SaveServingPos(dataset)
    /\ saved_at' = served
    /\ UNCHANGED <<dataset, served>>

Restore ==
    /\ saved # NoPosition
    /\ dataset' = RestoreServingPos(dataset, saved)
    /\ served' = saved_at
    /\ UNCHANGED <<saved, saved_at>>

\* Back to the first record of the order the dataset serves.
RewindCursor ==
    /\ dataset' = Rewind(dataset)
    /\ served' = served - (served % dataset.num_samples)
    /\ UNCHANGED <<saved, saved_at>>

\* Resume of a run that stood at rows; a remainder is refused.
Skip(rows) ==
    /\ CanSkip(rows)
    /\ dataset' = SkipServed(dataset, rows)
    /\ served' = rows \div RowsPerSample
    /\ UNCHANGED <<saved, saved_at>>

Move ==
    /\ \/ \E n \in Batches : Serve(n)
       \/ Shuffle \/ Save \/ Restore \/ RewindCursor
       \/ \E rows \in 0..(MaxServed * RowsPerSample) : Skip(rows)
    /\ UNCHANGED <<labels, extent, verdict>>

ServingNext ==
    \/ \E classes \in Classes : ValidateClassLabels(classes)
    \/ \E f \in Fractions : SplitValidation(f)
    \/ Move

ServingSpec == ServingInit /\ [][ServingNext]_serving_vars

(***************************************************************************)
(* Properties.                                                             *)
(***************************************************************************)

\* However a position was reached - served, restored from a snapshot of this
\* or an earlier epoch, rewound, skipped to, or left by a split - the dataset
\* is in the state a serial run reaches after that many records, permutation
\* and generator included (dataset.cc:396 "the replay reproduces the exact
\* order", dataset.cc:391-422).
PositionIsSerial ==
    dataset = SerialPosition(Len(labels), dataset.order # 0, served)

\* The verdict is about the samples the dataset holds now, on the first ask
\* and from the cached extent, before a split and after it: a label outside
\* the classes is never admitted, and a set within them never refused
\* (dataset.cc:214-230, 464, 476).
VerdictIsCurrent ==
    verdict.classes > 0 =>
        (verdict.ok <=> \A i \in DOMAIN labels : labels[i] \in 0..(verdict.classes - 1))
=============================================================================
