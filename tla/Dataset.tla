------------------------------ MODULE Dataset ------------------------------
(***************************************************************************)
(* The serving machinery of Dataset (runtime/pipeline/dataset.cc): which   *)
(* record FillBatch serves next, and how a position is saved, restored and *)
(* replayed.                                                               *)
(*                                                                         *)
(* A dataset is a record.  The state of the shuffle generator is the       *)
(* number of permutations drawn from it, and a permutation is named by the *)
(* generator state it was drawn from: two draws are equal exactly when     *)
(* their names are.  Order 0 is the file order of an unshuffled dataset    *)
(* (order_.empty()).  A served record is <<order, index>>, the record that *)
(* order puts at index.                                                    *)
(***************************************************************************)
EXTENDS Integers, Sequences

CONSTANT RowsPerSample \* rows a record serves: input_dim_ of a token corpus, or 1

ASSUME RowsAssumption == RowsPerSample \in Nat \ {0}

shuffle_origin == 1

\* The datasets of n records.
Datasets(n) ==
    [num_samples : {n}, cursor : 0..(n - 1), epoch : Nat, order : Nat,
     shuffle_state : Nat]

\* A dataset of n records as loaded.
Loaded(n) ==
    [num_samples |-> n, cursor |-> 0, epoch |-> 0, order |-> 0,
     shuffle_state |-> 0]

Reshuffle(d) ==
    [d EXCEPT !.order = d.shuffle_state, !.shuffle_state = @ + 1]

EnableShuffle(d) ==
    [Reshuffle([d EXCEPT !.shuffle_state = shuffle_origin, !.epoch = 0])
        EXCEPT !.cursor = 0]

\* The cursor has passed the last record.
Wrap(d) ==
    IF d.order = 0
      THEN [d EXCEPT !.cursor = 0]
      ELSE [Reshuffle(d) EXCEPT !.cursor = 0, !.epoch = @ + 1]

\* Mutant: a run of records goes past the end of the file.
RunLength_PastEnd(d, left) == IF d.order = 0 /\ RowsPerSample = 1 THEN left ELSE 1

\* One turn of FillBatch's loop with left records to go: a run of contiguous
\* records up to the end of the file when unshuffled (run), one record of the
\* permutation otherwise.  A token corpus advances by one record either way.
RunLength(d, left) ==
    IF d.order = 0 /\ RowsPerSample = 1 /\ left > d.num_samples - d.cursor
      THEN d.num_samples - d.cursor
      ELSE IF d.order = 0 /\ RowsPerSample = 1 THEN left ELSE 1

Run(d, left) == [i \in 1..RunLength(d, left) |-> <<d.order, d.cursor + i - 1>>]

AfterRun(d, left) ==
    LET c == d.cursor + RunLength(d, left)
    IN IF c = d.num_samples THEN Wrap(d) ELSE [d EXCEPT !.cursor = c]

SaveServingPos(d) == [cursor |-> d.cursor, epoch |-> d.epoch]

Rewind(d) == [d EXCEPT !.cursor = 0]

\* The generator is run again from its origin when the epoch has moved.
RestoreServingPos(d, pos) ==
    LET moved == [d EXCEPT !.cursor = pos.cursor]
        first == Reshuffle([moved EXCEPT !.shuffle_state = shuffle_origin,
                                         !.epoch = 0])
        replay[n \in 0..pos.epoch] ==
            IF n = 0 THEN first
            ELSE [Reshuffle(replay[n - 1]) EXCEPT !.epoch = @ + 1]
    IN IF d.order = 0 \/ d.epoch = pos.epoch THEN moved ELSE replay[pos.epoch]

\* Rows must be whole records.
CanSkip(rows) == rows % RowsPerSample = 0

\* Mutant: a token corpus is skipped by rows.
SkipServed_Rows(d, rows) ==
    RestoreServingPos(d, [cursor |-> rows % d.num_samples,
                          epoch |-> rows \div d.num_samples])

SkipServed(d, rows) ==
    LET records == rows \div RowsPerSample
    IN RestoreServingPos(d, [cursor |-> records % d.num_samples,
                             epoch |-> records \div d.num_samples])

(***************************************************************************)
(* Reference: the k-th record a dataset of n records serves, and the       *)
(* position after k records, by arithmetic.                                *)
(***************************************************************************)

SerialRecord(n, shuffled, k) ==
    <<IF shuffled THEN shuffle_origin + k \div n ELSE 0, k % n>>

SerialBatch(n, shuffled, size, b) ==
    [i \in 1..size |-> SerialRecord(n, shuffled, b * size + i - 1)]

SerialPosition(n, shuffled, k) ==
    [num_samples |-> n,
     cursor |-> k % n,
     epoch |-> IF shuffled THEN k \div n ELSE 0,
     order |-> IF shuffled THEN shuffle_origin + k \div n ELSE 0,
     shuffle_state |-> IF shuffled THEN shuffle_origin + k \div n + 1 ELSE 0]
============================================================================
