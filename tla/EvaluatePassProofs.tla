------------------------- MODULE EvaluatePassProofs -------------------------
(***************************************************************************)
(* Proofs about the feed: the serving machinery of a dataset, one thread   *)
(* that uses it, the batch pipeline over it and the evaluation pass over   *)
(* the pipeline.                                                           *)
(*                                                                         *)
(* The first part is about the operators of Dataset.  Its lemmas say what  *)
(* each makes of the position a serial run reaches after k records:        *)
(* FillBatch goes on to the position after more of them, Rewind goes back  *)
(* to a multiple of the set, and RestoreServingPos comes back to the       *)
(* position that was saved.  They need facts about division, and           *)
(* induction: over the turns of FillBatch's loop, over the permutations    *)
(* the restore draws again, and over the labels of a file.  Induction is   *)
(* used as a fact about sets of numbers.  With them PositionIsSerial and   *)
(* VerdictIsCurrent need little to be inductive: that a snapshot is of a   *)
(* serial position too, and that the cached extent is the one of the       *)
(* samples the dataset holds.                                              *)
(*                                                                         *)
(* The second part is about the pipeline and the pass.  At any moment a    *)
(* pipeline stands at a record k of the serial sequence its dataset        *)
(* serves: the next batch it hands out begins there, whoever of the two    *)
(* threads is at work.  PipeAt says for each place of the two where the    *)
(* dataset, the staging buffers and the slots then are; k goes on by one   *)
(* batch when one is handed out, and by nothing otherwise.  It gives the   *)
(* type invariant, the hand-over of the staging buffers and the refinement *)
(* of SerialFeed, at any thread count.                                     *)
(*                                                                         *)
(* A pass entered at record k is a pipeline that stands b batches after    *)
(* the top of k's epoch; its rows so far are the first of that epoch.  So  *)
(* every sample is scored once, and the position saved on entry is the one *)
(* restored.  A failed evaluation ends the process, and nothing is claimed *)
(* of it.  Nothing in this part uses what the first assumes of its driver. *)
(***************************************************************************)
EXTENDS EvaluatePass, DatasetServing, WellFoundedInduction, TLAPS

(* Induction on the natural numbers, as a fact about sets. *)

\* A set of numbers has a least one.
LEMMA LeastNumber ==
    ASSUME NEW S, S \subseteq Nat, S # {}
    PROVE  \E m \in S : \A k \in S : m <= k
<1> DEFINE R == OpToRel(<, Nat)
<1>1. IsWellFoundedOn(R, Nat)
  BY NatLessThanWellFounded
<1>2. \A x, y \in Nat : x < y => <<x, y>> \in R
  BY DEF OpToRel
<1> HIDE DEF R
<1>3. PICK m \in S : \A y \in S : ~ (<<y, m>> \in R)
  BY <1>1, WFMin
<1>4. \A y \in S : ~ (y < m)
  BY <1>2, <1>3
<1> QED
  BY <1>4

\* A set with 0 and the successor of each of its numbers has every number.
LEMMA Induction ==
    ASSUME NEW S, 0 \in S, \A n \in Nat : n \in S => n + 1 \in S
    PROVE  Nat \subseteq S
<1> DEFINE D == Nat \ S
<1> SUFFICES ASSUME D # {} PROVE FALSE
  OBVIOUS
<1>1. PICK m \in D : \A k \in D : m <= k
  <2>1. D \subseteq Nat
    OBVIOUS
  <2> HIDE DEF D
  <2> QED
    BY <2>1, LeastNumber
<1>2. m \in Nat /\ m # 0 /\ m - 1 \in Nat
  BY <1>1
<1>3. m - 1 \in S
  BY <1>1, <1>2
<1> QED
  BY <1>1, <1>2, <1>3

-----------------------------------------------------------------------------
(* Division. *)

\* A number is its quotient times the divisor, and a remainder below it.
LEMMA Division ==
    ASSUME NEW k \in Nat, NEW n \in Nat \ {0}
    PROVE  /\ k \div n \in Nat /\ k % n \in 0..(n - 1)
           /\ k = n * (k \div n) + (k % n)
<1>1. k = n * (k \div n) + (k % n)
  BY SMT
<1>2. k % n \in 0..(n - 1)
  OBVIOUS
<1>3. k \div n \in Int /\ k \div n >= 0
  BY SMT
<1> QED
  BY <1>1, <1>2, <1>3

\* The products of a divisor are no nearer to each other than the divisor.
LEMMA ProductsApart ==
    ASSUME NEW n \in Nat \ {0}, NEW p \in Int, NEW q \in Int, p < q
    PROVE  n * p + n <= n * q
<1>1. p + 1 <= q
  OBVIOUS
<1>2. n * (p + 1) <= n * q
  BY <1>1
<1> QED
  BY <1>2

\* There is only one such quotient and remainder.
LEMMA DivisionIs ==
    ASSUME NEW n \in Nat \ {0}, NEW q \in Nat, NEW r \in 0..(n - 1)
    PROVE  (n * q + r) \div n = q /\ (n * q + r) % n = r
<1>1. n * q + r \in Nat
  OBVIOUS
<1>2. PICK k \in Nat : k = n * q + r
  BY <1>1
<1>3. PICK p \in Nat, s \in 0..(n - 1) : p = k \div n /\ s = k % n /\ k = n * p + s
  BY <1>2, Division
<1>4. n * p \in Int /\ n * q \in Int
  OBVIOUS
<1>5. ~ (p < q)
  BY <1>2, <1>3, <1>4, ProductsApart
<1>6. ~ (q < p)
  BY <1>2, <1>3, <1>4, ProductsApart
<1> QED
  BY <1>2, <1>3, <1>5, <1>6

\* A few more stay below the divisor, or come to a multiple of it.
LEMMA DivisionOnward ==
    ASSUME NEW k \in Nat, NEW n \in Nat \ {0}, NEW m \in Nat, m <= n - (k % n)
    PROVE  /\ m < n - (k % n) =>
                (k + m) % n = (k % n) + m /\ (k + m) \div n = k \div n
           /\ m = n - (k % n) =>
                (k + m) % n = 0 /\ (k + m) \div n = (k \div n) + 1
<1>1. PICK q \in Nat, r \in 0..(n - 1) : q = k \div n /\ r = k % n /\ k = n * q + r
  BY Division
<1>2. ASSUME m < n - r PROVE (k + m) % n = r + m /\ (k + m) \div n = q
  <2>1. r + m \in 0..(n - 1)
    BY <1>2
  <2>2. k + m = n * q + (r + m)
    BY <1>1
  <2> QED
    BY <2>1, <2>2, DivisionIs
<1>3. ASSUME m = n - r PROVE (k + m) % n = 0 /\ (k + m) \div n = q + 1
  <2>1. k + m = n * (q + 1) + 0
    BY <1>1, <1>3
  <2>2. 0 \in 0..(n - 1) /\ q + 1 \in Nat
    OBVIOUS
  <2> QED
    BY <2>1, <2>2, DivisionIs
<1> QED
  BY <1>1, <1>2, <1>3

\* A number less its remainder is a multiple.
LEMMA DivisionBack ==
    ASSUME NEW k \in Nat, NEW n \in Nat \ {0}
    PROVE  /\ k - (k % n) \in Nat /\ k - (k % n) = n * (k \div n)
           /\ (k - (k % n)) % n = 0 /\ (k - (k % n)) \div n = k \div n
<1>1. PICK q \in Nat, r \in 0..(n - 1) : q = k \div n /\ r = k % n /\ k = n * q + r
  BY Division
<1>2. k - r = n * q + 0 /\ n * q \in Nat
  BY <1>1
<1>3. (n * q + 0) \div n = q /\ (n * q + 0) % n = 0
  <2>1. 0 \in 0..(n - 1)
    OBVIOUS
  <2> QED
    BY <2>1, DivisionIs
<1> QED
  BY <1>1, <1>2, <1>3

-----------------------------------------------------------------------------
(* The serial positions of a dataset. *)

\* The permutations drawn before record k, and the order it is served in.
EpochAt(n, shuffled, k) == IF shuffled THEN k \div n ELSE 0
OrderAt(n, shuffled, k) == IF shuffled THEN shuffle_origin + k \div n ELSE 0

PositionAt(n, c, e, o, g) ==
    [num_samples |-> n, cursor |-> c, epoch |-> e, order |-> o, shuffle_state |-> g]

GeneratorAt(n, shuffled, k) ==
    IF shuffled THEN shuffle_origin + k \div n + 1 ELSE 0

\* Its parts are numbers.
LEMMA PositionTypes ==
    ASSUME NEW n \in Nat \ {0}, NEW shuffled \in BOOLEAN, NEW k \in Nat
    PROVE  /\ EpochAt(n, shuffled, k) \in Nat /\ GeneratorAt(n, shuffled, k) \in Nat
           /\ OrderAt(n, shuffled, k) \in Nat /\ (OrderAt(n, shuffled, k) # 0 <=> shuffled)
<1>1. k \div n \in Nat
  BY Division
<1> QED
  BY <1>1 DEF EpochAt, GeneratorAt, OrderAt, shuffle_origin

\* A serial position, field by field.
LEMMA SerialPositionIs ==
    ASSUME NEW n, NEW shuffled, NEW k
    PROVE  SerialPosition(n, shuffled, k) =
                PositionAt(n, k % n, EpochAt(n, shuffled, k), OrderAt(n, shuffled, k),
                           GeneratorAt(n, shuffled, k))
BY Zenon DEF SerialPosition, EpochAt, OrderAt, GeneratorAt, PositionAt

\* What the steps of the serving machinery make of a position.
MovedTo(d, c) == [d EXCEPT !.cursor = c]
FromOrigin(d) == [d EXCEPT !.shuffle_state = shuffle_origin, !.epoch = 0]
EpochOn(d) == [d EXCEPT !.epoch = @ + 1]
WrappedTo(d, c) == [d EXCEPT !.cursor = c, !.epoch = @ + 1]

\* What each step of the serving machinery makes of a position.
LEMMA PositionSteps ==
    ASSUME NEW n, NEW c, NEW e \in Int, NEW o, NEW g \in Int
    PROVE  /\ Reshuffle(PositionAt(n, c, e, o, g)) = PositionAt(n, c, e, g, g + 1)
           /\ \A x : MovedTo(PositionAt(n, c, e, o, g), x) = PositionAt(n, x, e, o, g)
           /\ FromOrigin(PositionAt(n, c, e, o, g)) = PositionAt(n, c, 0, o, shuffle_origin)
           /\ EpochOn(PositionAt(n, c, e, o, g)) = PositionAt(n, c, e + 1, o, g)
           /\ \A x : WrappedTo(PositionAt(n, c, e, o, g), x) = PositionAt(n, x, e + 1, o, g)
<1> DEFINE d == PositionAt(n, c, e, o, g)
<1>1. Reshuffle(d) = PositionAt(n, c, e, g, g + 1)
  <2>1. Reshuffle(d) = [[d EXCEPT !.order = d.shuffle_state]
                            EXCEPT !.shuffle_state = d.shuffle_state + 1]
    BY DEF Reshuffle
  <2>2. d.shuffle_state = g /\ [d EXCEPT !.order = g] = PositionAt(n, c, e, g, g)
    BY DEF PositionAt
  <2>3. [PositionAt(n, c, e, g, g) EXCEPT !.shuffle_state = g + 1] =
            PositionAt(n, c, e, g, g + 1)
    BY DEF PositionAt
  <2> QED
    BY <2>1, <2>2, <2>3
<1>2. ASSUME NEW x PROVE MovedTo(d, x) = PositionAt(n, x, e, o, g)
  BY DEF MovedTo, PositionAt
<1>3. FromOrigin(d) = PositionAt(n, c, 0, o, shuffle_origin)
  <2>1. FromOrigin(d) = [[d EXCEPT !.shuffle_state = shuffle_origin] EXCEPT !.epoch = 0]
    BY DEF FromOrigin
  <2>2. [d EXCEPT !.shuffle_state = shuffle_origin] = PositionAt(n, c, e, o, shuffle_origin)
    BY DEF PositionAt, shuffle_origin
  <2>3. [PositionAt(n, c, e, o, shuffle_origin) EXCEPT !.epoch = 0] =
            PositionAt(n, c, 0, o, shuffle_origin)
    BY DEF PositionAt, shuffle_origin
  <2> QED
    BY <2>1, <2>2, <2>3
<1>4. EpochOn(d) = PositionAt(n, c, e + 1, o, g)
  BY DEF EpochOn, PositionAt
<1>5. ASSUME NEW x PROVE WrappedTo(d, x) = PositionAt(n, x, e + 1, o, g)
  <2>1. WrappedTo(d, x) = [[d EXCEPT !.cursor = x] EXCEPT !.epoch = d.epoch + 1]
    BY DEF WrappedTo
  <2>2. d.epoch = e /\ [d EXCEPT !.cursor = x] = PositionAt(n, x, e, o, g)
    BY DEF PositionAt
  <2>3. [PositionAt(n, x, e, o, g) EXCEPT !.epoch = e + 1] = PositionAt(n, x, e + 1, o, g)
    BY DEF PositionAt
  <2> QED
    BY <2>1, <2>2, <2>3
<1> QED
  BY <1>1, <1>2, <1>3, <1>4, <1>5

\* A dataset as loaded, and one that shuffles from here on, are at record 0.
LEMMA FirstPositions ==
    ASSUME NEW n \in Nat \ {0}
    PROVE  /\ Loaded(n) = SerialPosition(n, FALSE, 0)
           /\ \A shuffled \in BOOLEAN, k \in Nat :
                EnableShuffle(SerialPosition(n, shuffled, k)) = SerialPosition(n, TRUE, 0)
<1>1. 0 % n = 0 /\ 0 \div n = 0
  <2>1. 0 \in 0..(n - 1) /\ n * 0 + 0 = 0
    OBVIOUS
  <2> QED
    BY <2>1, DivisionIs
<1>2. SerialPosition(n, FALSE, 0) = PositionAt(n, 0, 0, 0, 0)
  BY <1>1, SerialPositionIs DEF EpochAt, OrderAt, GeneratorAt
<1>3. SerialPosition(n, TRUE, 0) = PositionAt(n, 0, 0, 1, 1 + 1)
  <2>1. EpochAt(n, TRUE, 0) = 0 /\ OrderAt(n, TRUE, 0) = 1 /\ GeneratorAt(n, TRUE, 0) = 1 + 1
    BY <1>1 DEF EpochAt, OrderAt, GeneratorAt, shuffle_origin
  <2> QED
    BY <2>1, <1>1, SerialPositionIs
<1>4. Loaded(n) = PositionAt(n, 0, 0, 0, 0)
  BY DEF Loaded, PositionAt
<1>5. ASSUME NEW shuffled \in BOOLEAN, NEW k \in Nat
      PROVE  EnableShuffle(SerialPosition(n, shuffled, k)) = PositionAt(n, 0, 0, 1, 1 + 1)
  <2>1. PICK c \in Int, e \in Int, o \in Int, g \in Int :
            SerialPosition(n, shuffled, k) = PositionAt(n, c, e, o, g)
    <3>1. /\ k % n \in Int /\ EpochAt(n, shuffled, k) \in Int
          /\ OrderAt(n, shuffled, k) \in Int /\ GeneratorAt(n, shuffled, k) \in Int
      BY PositionTypes, Division
    <3> QED
      BY <3>1, SerialPositionIs
  <2>2. FromOrigin(PositionAt(n, c, e, o, g)) = PositionAt(n, c, 0, o, 1)
    BY PositionSteps DEF shuffle_origin
  <2>3. Reshuffle(PositionAt(n, c, 0, o, 1)) = PositionAt(n, c, 0, 1, 1 + 1)
    BY PositionSteps
  <2>4. MovedTo(PositionAt(n, c, 0, 1, 1 + 1), 0) = PositionAt(n, 0, 0, 1, 1 + 1)
    BY PositionSteps
  <2>5. EnableShuffle(SerialPosition(n, shuffled, k)) =
            MovedTo(Reshuffle(FromOrigin(SerialPosition(n, shuffled, k))), 0)
    BY Zenon DEF EnableShuffle, MovedTo, FromOrigin
  <2> QED
    BY <2>1, <2>2, <2>3, <2>4, <2>5
<1> QED
  BY <1>2, <1>3, <1>4, <1>5

\* What a position shows.
LEMMA PositionFields ==
    ASSUME NEW n \in Nat \ {0}, NEW shuffled \in BOOLEAN, NEW k \in Nat
    PROVE  LET d == SerialPosition(n, shuffled, k) IN
           /\ d \in Datasets(n)
           /\ d.num_samples = n /\ d.cursor = k % n
           /\ d.epoch = EpochAt(n, shuffled, k) /\ d.epoch \in Nat
           /\ d.order = OrderAt(n, shuffled, k) /\ d.order \in Nat
           /\ d.order # 0 <=> shuffled
<1> DEFINE g == GeneratorAt(n, shuffled, k)
<1>1. k % n \in 0..(n - 1)
  BY Division
<1>2. /\ EpochAt(n, shuffled, k) \in Nat /\ g \in Nat
      /\ OrderAt(n, shuffled, k) \in Nat /\ (OrderAt(n, shuffled, k) # 0 <=> shuffled)
  BY PositionTypes
<1>4. SerialPosition(n, shuffled, k) =
        PositionAt(n, k % n, EpochAt(n, shuffled, k), OrderAt(n, shuffled, k), g)
  BY SerialPositionIs
<1> HIDE DEF g
<1> QED
  BY <1>1, <1>2, <1>4 DEF PositionAt, Datasets

\* A turn of FillBatch's loop serves the next records of the serial sequence and
\* leaves the dataset where that sequence goes on: at the next record, or, past the
\* last one of an epoch, at the first of the next (dataset.cc:302-363).
LEMMA RunAdvances ==
    ASSUME NEW n \in Nat \ {0}, NEW shuffled \in BOOLEAN, NEW k \in Nat,
           NEW left \in Nat \ {0}
    PROVE  LET d == SerialPosition(n, shuffled, k)
               m == RunLength(d, left)
           IN  /\ m \in 1..left
               /\ AfterRun(d, left) = SerialPosition(n, shuffled, k + m)
<1> DEFINE d == SerialPosition(n, shuffled, k)
           m == RunLength(d, left)
           c == k % n
           q == k \div n
           g == GeneratorAt(n, shuffled, k)
<1>1. d = PositionAt(n, c, EpochAt(n, shuffled, k), OrderAt(n, shuffled, k), g)
  BY SerialPositionIs
<1>2. /\ d.num_samples = n /\ d.cursor = c
      /\ d.order = OrderAt(n, shuffled, k) /\ (d.order # 0 <=> shuffled)
  BY PositionFields
<1>3. /\ c \in 0..(n - 1) /\ q \in Nat
      /\ EpochAt(n, shuffled, k) \in Nat /\ g \in Nat
  BY Division, PositionTypes
<1> HIDE DEF d, c, q
<1>4. m \in 1..left /\ m <= n - c
  BY <1>2, <1>3, RowsAssumption DEF RunLength
<1> HIDE DEF m
<1>5. /\ m < n - c => (k + m) % n = c + m /\ (k + m) \div n = q
      /\ m = n - c => (k + m) % n = 0 /\ (k + m) \div n = q + 1
  <2>1. m \in Nat /\ m <= n - (k % n)
    BY <1>4 DEF c
  <2> QED
    BY <2>1, DivisionOnward DEF c, q
<1>6. SerialPosition(n, shuffled, k + m) =
        PositionAt(n, (k + m) % n, EpochAt(n, shuffled, k + m), OrderAt(n, shuffled, k + m),
                   GeneratorAt(n, shuffled, k + m))
  BY SerialPositionIs
<1>7. AfterRun(d, left) = SerialPosition(n, shuffled, k + m)
  <2>1. AfterRun(d, left) = IF c + m = n THEN Wrap(d) ELSE MovedTo(d, c + m)
    BY <1>2, Zenon DEF AfterRun, MovedTo, m
  <2>2. CASE m < n - c
    <3>1. c + m # n
      BY <2>2, <1>3, <1>4
    <3>2. AfterRun(d, left) =
            PositionAt(n, c + m, EpochAt(n, shuffled, k), OrderAt(n, shuffled, k), g)
      BY <2>1, <3>1, <1>1, <1>3, PositionSteps
    <3> QED
      BY <3>2, <2>2, <1>5, <1>6 DEF EpochAt, OrderAt, GeneratorAt, q, g
  <2>3. CASE m = n - c
    <3>1. c + m = n
      BY <2>3, <1>3
    <3>2. AfterRun(d, left) = Wrap(d)
      BY <2>1, <3>1
    <3>3. CASE ~shuffled
      <4>1. Wrap(d) = MovedTo(d, 0)
        BY <3>3, <1>2, Zenon DEF Wrap, MovedTo
      <4>2. Wrap(d) = PositionAt(n, 0, 0, 0, 0)
        BY <4>1, <3>3, <1>1, <1>3, PositionSteps DEF EpochAt, OrderAt, GeneratorAt, g
      <4> QED
        BY <4>2, <3>2, <3>3, <2>3, <1>5, <1>6 DEF EpochAt, OrderAt, GeneratorAt
    <3>4. CASE shuffled
      <4>1. Wrap(d) = WrappedTo(Reshuffle(d), 0)
        BY <3>4, <1>2, Zenon DEF Wrap, WrappedTo
      <4>2. d = PositionAt(n, c, q, shuffle_origin + q, shuffle_origin + q + 1)
        BY <3>4, <1>1 DEF EpochAt, OrderAt, GeneratorAt, q, g
      <4> DEFINE o == shuffle_origin + q
      <4>6. o \in Nat /\ o + 1 \in Nat
        BY <1>3 DEF shuffle_origin
      <4> HIDE DEF o
      <4>3. Reshuffle(d) =
                PositionAt(n, c, q, o + 1, (o + 1) + 1)
        BY <4>2, <4>6, <1>3, PositionSteps DEF o
      <4>4. Wrap(d) =
                PositionAt(n, 0, q + 1, o + 1, o + 1 + 1)
        BY <4>1, <4>3, <4>6, <1>3, PositionSteps
      <4>5. o + 1 = shuffle_origin + (q + 1)
        BY <1>3 DEF shuffle_origin, o
      <4> QED
        BY <4>4, <4>5, <3>2, <3>4, <2>3, <1>5, <1>6 DEF EpochAt, OrderAt, GeneratorAt
    <3> QED
      BY <3>3, <3>4
  <2> QED
    BY <2>2, <2>3, <1>3, <1>4
<1> QED
  BY <1>4, <1>7 DEF d, m

\* The records it serves.
LEMMA RunServes ==
    ASSUME NEW n \in Nat \ {0}, NEW shuffled \in BOOLEAN, NEW k \in Nat,
           NEW left \in Nat \ {0}
    PROVE  LET d == SerialPosition(n, shuffled, k) IN
           Run(d, left) = [i \in 1..RunLength(d, left) |-> SerialRecord(n, shuffled, k + i - 1)]
<1> DEFINE d == SerialPosition(n, shuffled, k)
           m == RunLength(d, left)
           c == k % n
           q == k \div n
<1>2. /\ d.num_samples = n /\ d.cursor = c
      /\ d.order = OrderAt(n, shuffled, k) /\ (d.order # 0 <=> shuffled)
  BY PositionFields
<1>3. c \in 0..(n - 1) /\ q \in Nat
  BY Division
<1> HIDE DEF d, c, q
<1>4. m \in 1..left /\ m <= n - c
  BY <1>2, <1>3, RowsAssumption DEF RunLength
<1> HIDE DEF m
<1>8. ASSUME NEW i \in 1..m
      PROVE  <<d.order, d.cursor + i - 1>> = SerialRecord(n, shuffled, k + i - 1)
  <2>1. i - 1 \in Nat /\ i - 1 < n - c
    BY <1>3, <1>4
  <2>2. (k + (i - 1)) % n = c + (i - 1) /\ (k + (i - 1)) \div n = q
    <3>1. i - 1 <= n - (k % n) /\ i - 1 < n - (k % n)
      BY <2>1, <1>3 DEF c
    <3> QED
      BY <3>1, <2>1, DivisionOnward DEF c, q
  <2>3. k + (i - 1) = k + i - 1 /\ c + (i - 1) = c + i - 1
    BY <1>3
  <2> QED
    BY <2>2, <2>3, <1>2 DEF SerialRecord, OrderAt, q
<1>9. Run(d, left) = [i \in 1..m |-> SerialRecord(n, shuffled, k + i - 1)]
  BY <1>8 DEF Run, m
<1> QED
  BY <1>9 DEF d, m

\* Rewinding goes back to the first record of the epoch.
LEMMA Rewinds ==
    ASSUME NEW n \in Nat \ {0}, NEW shuffled \in BOOLEAN, NEW k \in Nat
    PROVE  Rewind(SerialPosition(n, shuffled, k)) =
                SerialPosition(n, shuffled, k - (k % n))
<1> DEFINE j == k - (k % n)
<1>1. j \in Nat /\ j % n = 0 /\ j \div n = k \div n
  BY DivisionBack
<1> HIDE DEF j
<1>2. SerialPosition(n, shuffled, k) =
        PositionAt(n, k % n, EpochAt(n, shuffled, k), OrderAt(n, shuffled, k),
                   GeneratorAt(n, shuffled, k))
  BY SerialPositionIs
<1>3. SerialPosition(n, shuffled, j) =
        PositionAt(n, 0, EpochAt(n, shuffled, k), OrderAt(n, shuffled, k),
                   GeneratorAt(n, shuffled, k))
  BY <1>1, SerialPositionIs DEF EpochAt, OrderAt, GeneratorAt
<1>4. Rewind(SerialPosition(n, shuffled, k)) = MovedTo(SerialPosition(n, shuffled, k), 0)
  BY Zenon DEF Rewind, MovedTo
<1>5. Rewind(SerialPosition(n, shuffled, k)) = SerialPosition(n, shuffled, j)
  BY <1>2, <1>3, <1>4, PositionTypes, PositionSteps
<1> QED
  BY <1>5 DEF j

\* The generator run again from its origin.
Replays(first, e) ==
    CHOOSE f : f = [i \in 0..e |-> IF i = 0 THEN first ELSE EpochOn(Reshuffle(f[i - 1]))]

\* The replay stands at the order of its epoch.
LEMMA ReplayIs ==
    ASSUME NEW n, NEW c, NEW e \in Nat
    PROVE  Replays(PositionAt(n, c, 0, 1, 1 + 1), e)[e] =
                PositionAt(n, c, e, e + 1, (e + 1) + 1)
<1> DEFINE first == PositionAt(n, c, 0, 1, 1 + 1)
           P(i) == PositionAt(n, c, i, i + 1, (i + 1) + 1)
           g == [i \in 0..e |-> P(i)]
           R == Replays(first, e)
<1>1. P(0) = first
  OBVIOUS
<1>2. ASSUME NEW i \in Nat PROVE EpochOn(Reshuffle(P(i))) = P(i + 1)
  <2>1. Reshuffle(P(i)) = PositionAt(n, c, i, (i + 1) + 1, ((i + 1) + 1) + 1)
    BY PositionSteps
  <2> DEFINE o == (i + 1) + 1
  <2>2. o \in Int /\ o + 1 \in Int
    OBVIOUS
  <2> HIDE DEF o
  <2>3. EpochOn(PositionAt(n, c, i, o, o + 1)) = PositionAt(n, c, i + 1, o, o + 1)
    BY <2>2, PositionSteps
  <2> QED
    BY <2>1, <2>3 DEF o
<1>3. ASSUME NEW i \in 0..e
      PROVE  g[i] = IF i = 0 THEN first ELSE EpochOn(Reshuffle(g[i - 1]))
  <2>1. CASE i = 0
    BY <2>1, <1>1
  <2>2. CASE i # 0
    <3>1. i - 1 \in Nat /\ i - 1 \in 0..e /\ (i - 1) + 1 = i
      BY <2>2
    <3>2. EpochOn(Reshuffle(P(i - 1))) = P((i - 1) + 1)
      BY <3>1, <1>2
    <3>3. g[i] = P(i) /\ g[i - 1] = P(i - 1)
      BY <3>1
    <3> HIDE DEF g, P
    <3> QED
      BY <3>1, <3>2, <3>3, <2>2
  <2> QED
    BY <2>1, <2>2
<1>4. g = [i \in 0..e |-> g[i]]
  OBVIOUS
<1> HIDE DEF g
<1>5. g = [i \in 0..e |-> IF i = 0 THEN first ELSE EpochOn(Reshuffle(g[i - 1]))]
  BY <1>3, <1>4
<1>6. R = [i \in 0..e |-> IF i = 0 THEN first ELSE EpochOn(Reshuffle(R[i - 1]))]
  BY <1>5 DEF Replays
<1> HIDE DEF R
<1>7. /\ R[0] = first
      /\ \A i \in 1..e : R[i] = EpochOn(Reshuffle(R[i - 1]))
  BY <1>6
<1> DEFINE S == {i \in Nat : i <= e => R[i] = P(i)}
<1>8. 0 \in S
  BY <1>1, <1>7
<1>9. ASSUME NEW i \in Nat, i \in S PROVE i + 1 \in S
  <2> SUFFICES ASSUME i + 1 <= e PROVE R[i + 1] = P(i + 1)
    OBVIOUS
  <2>1. R[i] = P(i)
    BY <1>9
  <2>2. R[i + 1] = EpochOn(Reshuffle(R[i]))
    <3>1. i + 1 \in 1..e /\ (i + 1) - 1 = i
      OBVIOUS
    <3> QED
      BY <3>1, <1>7
  <2> HIDE DEF P
  <2> QED
    BY <2>1, <2>2, <1>2
<1> HIDE DEF P
<1>10. Nat \subseteq S
  <2> HIDE DEF S
  <2> QED
    BY <1>8, <1>9, Induction
<1>11. R[e] = P(e)
  BY <1>10
<1> QED
  BY <1>11 DEF P, R

\* A saved position restores it: at the same epoch by its cursor alone, from another
\* epoch by drawing the permutations again (dataset.cc:391-422).  An unshuffled
\* dataset does not look at the epoch.
LEMMA Restores ==
    ASSUME NEW n \in Nat \ {0}, NEW shuffled \in BOOLEAN, NEW k \in Nat, NEW j \in Nat,
           NEW e \in Nat, shuffled => e = j \div n
    PROVE  RestoreServingPos(SerialPosition(n, shuffled, k),
                             [cursor |-> j % n, epoch |-> e]) =
                SerialPosition(n, shuffled, j)
<1> DEFINE d == SerialPosition(n, shuffled, k)
           pos == [cursor |-> j % n, epoch |-> e]
           c == j % n
           moved == MovedTo(d, c)
           first == Reshuffle(FromOrigin(moved))
<1>1. /\ d.order = OrderAt(n, shuffled, k) /\ d.epoch = EpochAt(n, shuffled, k)
      /\ (d.order # 0 <=> shuffled)
  BY PositionFields
<1>2. d = PositionAt(n, k % n, EpochAt(n, shuffled, k), OrderAt(n, shuffled, k),
                     GeneratorAt(n, shuffled, k))
  BY SerialPositionIs
<1>3. moved = PositionAt(n, c, EpochAt(n, shuffled, k), OrderAt(n, shuffled, k),
                         GeneratorAt(n, shuffled, k))
  BY <1>2, PositionTypes, PositionSteps
<1>4. SerialPosition(n, shuffled, j) =
        PositionAt(n, c, EpochAt(n, shuffled, j), OrderAt(n, shuffled, j),
                   GeneratorAt(n, shuffled, j))
  BY SerialPositionIs
<1> DEFINE R == Replays(first, e)
<1>5. RestoreServingPos(d, pos) = IF d.order = 0 \/ d.epoch = e THEN moved ELSE R[e]
  <2>1. ASSUME NEW p
        PROVE  RestoreServingPos(d, p) =
                 IF d.order = 0 \/ d.epoch = p.epoch THEN MovedTo(d, p.cursor)
                 ELSE Replays(Reshuffle(FromOrigin(MovedTo(d, p.cursor))), p.epoch)[p.epoch]
    <3> HIDE DEF d
    <3> QED
      BY Zenon DEF RestoreServingPos, MovedTo, FromOrigin, EpochOn, Replays
  <2>2. pos.cursor = c /\ pos.epoch = e
    OBVIOUS
  <2> HIDE DEF pos, d, c
  <2> QED
    BY <2>1, <2>2
<1> HIDE DEF d, pos, moved
<1>9. RestoreServingPos(d, pos) = SerialPosition(n, shuffled, j)
  <2>6. CASE ~shuffled
    BY <1>1, <1>3, <1>4, <1>5, <2>6 DEF EpochAt, OrderAt, GeneratorAt
  <2>7. CASE shuffled /\ d.epoch = e
    <3>1. EpochAt(n, shuffled, k) = EpochAt(n, shuffled, j) /\ k \div n = j \div n
      BY <1>1, <2>7 DEF EpochAt
    <3> QED
      BY <3>1, <1>1, <1>3, <1>4, <1>5, <2>7 DEF OrderAt, GeneratorAt
  <2>8. CASE shuffled /\ d.epoch # e
    <3>1. RestoreServingPos(d, pos) = R[e]
      BY <1>1, <1>5, <2>8
    <3>2. PICK o \in Int : FromOrigin(moved) = PositionAt(n, c, 0, o, 1)
      BY <1>3, PositionTypes, PositionSteps DEF shuffle_origin
    <3>3. first = PositionAt(n, c, 0, 1, 1 + 1)
      BY <3>2, PositionSteps
    <3> HIDE DEF first
    <3>4. R[e] = PositionAt(n, c, e, e + 1, (e + 1) + 1)
      BY <3>3, ReplayIs
    <3>5. SerialPosition(n, shuffled, j) = PositionAt(n, c, e, e + 1, (e + 1) + 1)
      <4>1. /\ EpochAt(n, shuffled, j) = e /\ OrderAt(n, shuffled, j) = e + 1
            /\ GeneratorAt(n, shuffled, j) = (e + 1) + 1
        BY <2>8 DEF EpochAt, OrderAt, GeneratorAt, shuffle_origin
      <4> QED
        BY <4>1, <1>4
    <3> QED
      BY <3>1, <3>4, <3>5
  <2> QED
    BY <2>6, <2>7, <2>8
<1> QED
  BY <1>9 DEF d, pos

-----------------------------------------------------------------------------
(* Batches. *)

\* The turns of FillBatch's loop from state s.
Turns(f, s, n) == f = [t \in 0..n |-> IF t = 0 THEN s ELSE Turn(f[t - 1])]

\* There are such turns.
LEMMA TurnsExist ==
    ASSUME NEW s, NEW n \in Nat
    PROVE  \E f : Turns(f, s, n)
<1> DEFINE S == {k \in Nat : \E f : Turns(f, s, k)}
<1>1. 0 \in S
  <2> DEFINE f == [t \in 0..0 |-> s]
  <2>1. Turns(f, s, 0)
    BY DEF Turns
  <2> QED
    BY <2>1
<1>2. ASSUME NEW k \in Nat, k \in S PROVE k + 1 \in S
  <2>1. PICK f : Turns(f, s, k)
    BY <1>2
  <2> DEFINE g == [t \in 0..(k + 1) |-> IF t = k + 1 THEN Turn(f[k]) ELSE f[t]]
  <2>2. \A t \in 0..k : f[t] = IF t = 0 THEN s ELSE Turn(f[t - 1])
    BY <2>1 DEF Turns
  <2>3. ASSUME NEW t \in 0..(k + 1)
        PROVE  g[t] = IF t = 0 THEN s ELSE Turn(g[t - 1])
    <3>1. CASE t = k + 1
      <4>1. g[t] = Turn(f[k]) /\ g[t - 1] = f[k] /\ t # 0
        BY <3>1
      <4> QED
        BY <4>1
    <3>2. CASE t # k + 1 /\ t # 0
      <4>1. t \in 0..k /\ g[t] = f[t] /\ g[t - 1] = f[t - 1]
        BY <3>2
      <4> QED
        BY <4>1, <2>2, <3>2
    <3>3. CASE t = 0
      <4>1. t \in 0..k /\ g[t] = f[t]
        BY <3>3
      <4> QED
        BY <4>1, <2>2, <3>3
    <3> QED
      BY <3>1, <3>2, <3>3
  <2>4. g = [t \in 0..(k + 1) |-> g[t]]
    OBVIOUS
  <2> HIDE DEF g
  <2>5. Turns(g, s, k + 1)
    BY <2>3, <2>4 DEF Turns
  <2> QED
    BY <2>5
<1> HIDE DEF S
<1>3. Nat \subseteq S
  BY <1>1, <1>2, Induction
<1> QED
  BY <1>3 DEF S

\* A batch of m records leaves the dataset m records further along the serial
\* sequence (dataset.cc:302-363).
LEMMA BatchAdvances ==
    ASSUME NEW n \in Nat \ {0}, NEW shuffled \in BOOLEAN, NEW k \in Nat, NEW m \in Nat
    PROVE  FillBatch(SerialPosition(n, shuffled, k), m) =
                SerialPosition(n, shuffled, k + m)
<1> DEFINE d == SerialPosition(n, shuffled, k)
           s == [set |-> d, left |-> m]
           T == CHOOSE f : Turns(f, s, m)
           Behind(state, l) ==
              /\ state = [set |-> state.set, left |-> l]
              /\ state.set = SerialPosition(n, shuffled, k + (m - l))
           S == {t \in Nat : t <= m => \E l \in 0..(m - t) : Behind(T[t], l)}
<1>1. Turns(T, s, m)
  BY TurnsExist
<1>2. FillBatch(d, m) = T[m].set
  BY DEF FillBatch, Turns
<1> HIDE DEF T
<1>3. T[0] = s /\ \A t \in 1..m : T[t] = Turn(T[t - 1])
  BY <1>1 DEF Turns
<1>4. 0 \in S
  <2>1. k + (m - m) = k /\ m \in 0..(m - 0)
    OBVIOUS
  <2>2. Behind(s, m)
    BY <2>1
  <2> HIDE DEF Behind, s
  <2> QED
    BY <2>1, <2>2, <1>3
<1>5. ASSUME NEW t \in Nat, t \in S PROVE t + 1 \in S
  <2> SUFFICES ASSUME t + 1 <= m PROVE \E l \in 0..(m - (t + 1)) : Behind(T[t + 1], l)
    OBVIOUS
  <2>1. PICK l \in 0..(m - t) : Behind(T[t], l)
    BY <1>5
  <2>2. T[t + 1] = Turn(T[t])
    <3>1. t + 1 \in 1..m /\ (t + 1) - 1 = t
      OBVIOUS
    <3> QED
      BY <3>1, <1>3
  <2> DEFINE x == T[t]
  <2>3. x.left = l
    BY <2>1
  <2>4. CASE l = 0
    <3>1. Turn(x) = x
      BY <2>3, <2>4 DEF Turn
    <3>2. l \in 0..(m - (t + 1))
      BY <2>4
    <3> HIDE DEF Behind
    <3> QED
      BY <3>1, <3>2, <2>1, <2>2
  <2>5. CASE l # 0
    <3> DEFINE z == k + (m - l)
               p == SerialPosition(n, shuffled, z)
               r == RunLength(p, l)
    <3>1. x.set = p /\ z \in Nat /\ l \in Nat \ {0}
      BY <2>1, <2>5
    <3> HIDE DEF x, z
    <3>7. z \in Nat /\ l \in Nat \ {0}
      BY <3>1
    <3>2. r \in 1..l /\ AfterRun(p, l) = SerialPosition(n, shuffled, z + r)
      <4> HIDE DEF d, s, Behind, S
      <4>1. RunLength(p, l) \in 1..l
        BY <3>7, RunAdvances
      <4>2. AfterRun(p, l) = SerialPosition(n, shuffled, z + RunLength(p, l))
        BY <3>7, RunAdvances
      <4> QED
        BY <4>1, <4>2
    <3>3. Turn(x) = [set |-> AfterRun(p, l), left |-> l - r]
      BY <2>3, <2>5, <3>1 DEF Turn
    <3>4. z + r = k + (m - (l - r)) /\ l - r \in 0..(m - (t + 1))
      BY <3>2, <2>1, <2>5 DEF z
    <3> HIDE DEF p, r
    <3>5. Turn(x) = [set |-> SerialPosition(n, shuffled, k + (m - (l - r))), left |-> l - r]
      BY <3>2, <3>3, <3>4
    <3>6. Behind(Turn(x), l - r)
      BY <3>5
    <3> HIDE DEF Behind
    <3> QED
      BY <3>4, <3>6, <2>2 DEF x
  <2> QED
    BY <2>4, <2>5
<1>6. Nat \subseteq S
  <2> HIDE DEF S
  <2> QED
    BY <1>4, <1>5, Induction
<1>7. PICK l \in 0..(m - m) : Behind(T[m], l)
  BY <1>6
<1>8. l = 0 /\ k + (m - l) = k + m
  BY <1>7
<1> QED
  BY <1>2, <1>7, <1>8

-----------------------------------------------------------------------------
(* The labels. *)

Ids(s) == {s[i] : i \in DOMAIN s}

HasLeast(s, n) == \E i \in 1..n : \A j \in 1..n : s[i] <= s[j]

\* One label more still leaves a least one.
LEMMA LeastOnward ==
    ASSUME NEW s, NEW k \in Nat \ {0}, NEW l, l = k + 1,
           \A i \in 1..l : s[i] \in Int, HasLeast(s, k)
    PROVE  HasLeast(s, l)
<1>1. PICK i \in 1..k : \A j \in 1..k : s[i] <= s[j]
  BY DEF HasLeast
<1>2. l \in Nat /\ l \in 1..l /\ i \in 1..l /\ \A j \in 1..l : j = l \/ j \in 1..k
  OBVIOUS
<1>3. s[i] \in Int /\ s[l] \in Int /\ \A j \in 1..l : s[j] \in Int
  BY <1>2
<1>4. CASE s[i] <= s[l]
  <2>1. \A j \in 1..l : s[i] <= s[j]
    BY <1>1, <1>2, <1>4
  <2> QED
    BY <2>1, <1>2 DEF HasLeast
<1>5. CASE s[l] < s[i]
  <2>1. ASSUME NEW j \in 1..l PROVE s[l] <= s[j]
    <3>1. s[j] \in Int /\ (j = l \/ s[i] <= s[j])
      BY <1>1, <1>2, <1>3
    <3> QED
      BY <3>1, <1>3, <1>5
  <2> QED
    BY <2>1, <1>2 DEF HasLeast
<1> QED
  BY <1>3, <1>4, <1>5

\* The labels of a file have a least and a greatest one.
LEMMA LeastLabel ==
    ASSUME NEW s \in Seq(Int), Len(s) \in Nat \ {0}
    PROVE  /\ Min(Ids(s)) \in Ids(s)
           /\ \A x \in Ids(s) : Min(Ids(s)) <= x
<1> DEFINE n == Len(s)
           S == {k \in Nat : k + 1 <= n => HasLeast(s, k + 1)}
<1>1. DOMAIN s = 1..n /\ n \in Nat \ {0} /\ \A i \in 1..n : s[i] \in Int
  OBVIOUS
<1> HIDE DEF n
<1>2. 0 \in S
  <2>1. s[1] \in Int /\ 1..(0 + 1) = {1}
    BY <1>1
  <2>2. HasLeast(s, 0 + 1)
    BY <2>1 DEF HasLeast
  <2> QED
    BY <2>2
<1>3. ASSUME NEW k \in Nat, k \in S PROVE k + 1 \in S
  <2> SUFFICES ASSUME (k + 1) + 1 <= n PROVE HasLeast(s, (k + 1) + 1)
    OBVIOUS
  <2>1. HasLeast(s, k + 1)
    BY <1>1, <1>3
  <2>2. k + 1 \in Nat \ {0} /\ \A i \in 1..((k + 1) + 1) : s[i] \in Int
    BY <1>1
  <2> QED
    BY <2>1, <2>2, LeastOnward
<1>4. Nat \subseteq S
  <2> HIDE DEF S
  <2> QED
    BY <1>2, <1>3, Induction
<1>5. HasLeast(s, n)
  <2>1. n - 1 \in Nat /\ (n - 1) + 1 = n /\ n <= n
    BY <1>1
  <2>2. n - 1 \in S
    BY <1>4, <2>1
  <2> QED
    BY <2>1, <2>2
<1>6. PICK i \in 1..n : \A j \in 1..n : s[i] <= s[j]
  BY <1>5 DEF HasLeast
<1>7. \E x \in Ids(s) : \A y \in Ids(s) : x <= y
  BY <1>1, <1>6 DEF Ids
<1> QED
  BY <1>7 DEF Min

\* The greatest is the least of the negated ones.
LEMMA GreatestLabel ==
    ASSUME NEW s \in Seq(Int), Len(s) \in Nat \ {0}
    PROVE  /\ Max(Ids(s)) \in Ids(s)
           /\ \A x \in Ids(s) : x <= Max(Ids(s))
<1> DEFINE n == Len(s)
           t == [i \in 1..n |-> -s[i]]
<1>1. DOMAIN s = 1..n /\ n \in Nat \ {0} /\ \A i \in 1..n : s[i] \in Int
  OBVIOUS
<1>2. t \in Seq(Int) /\ Len(t) = n /\ DOMAIN t = 1..n
  BY <1>1
<1>3. \A i \in 1..n : t[i] = -s[i]
  OBVIOUS
<1>4. PICK i \in 1..n : \A j \in 1..n : t[i] <= t[j]
  <2>1. Min(Ids(t)) \in Ids(t) /\ \A x \in Ids(t) : Min(Ids(t)) <= x
    BY <1>1, <1>2, LeastLabel
  <2> QED
    BY <2>1, <1>2 DEF Ids
<1> HIDE DEF t, n
<1>5. \A j \in 1..n : s[j] <= s[i]
  BY <1>1, <1>3, <1>4
<1>6. \E x \in Ids(s) : \A y \in Ids(s) : x >= y
  BY <1>1, <1>5 DEF Ids
<1>7. /\ Max(Ids(s)) \in Ids(s)
      /\ \A x \in Ids(s) : Max(Ids(s)) >= x
  BY <1>6 DEF Max
<1>8. \A x \in Ids(s) : x \in Int
  BY <1>1 DEF Ids
<1> QED
  BY <1>7, <1>8

\* A validation set leaves a sample on each side.
LEMMA ValidationSplits ==
    ASSUME NEW n \in Nat, n >= 2, NEW f \in Fractions
    PROVE  ValidationSamples(n, f) \in 1..(n - 1)
<1> DEFINE q == (n * f[1]) \div f[2]
           a == Max({1, q})
<1>1. f[1] \in Nat /\ f[2] \in Nat /\ 0 < f[1] /\ f[1] < f[2]
  BY ServingAssumption
<1>2. q \in Nat
  <2>1. n * f[1] \in Nat /\ f[2] \in Nat \ {0}
    BY <1>1
  <2> QED
    BY <2>1, Division
<1> HIDE DEF q
<1>3. a \in {1, q} /\ a >= 1 /\ a \in Nat
  <2>1. \E x \in {1, q} : \A y \in {1, q} : x >= y
    BY <1>2
  <2>2. a \in {1, q} /\ \A y \in {1, q} : a >= y
    BY <2>1 DEF Max
  <2> QED
    BY <2>2, <1>2
<1>4. ValidationSamples(n, f) = Min({n - 1, a})
  BY DEF ValidationSamples, a, q
<1> HIDE DEF a
<1>5. \E x \in {n - 1, a} : \A y \in {n - 1, a} : x <= y
  BY <1>3
<1>6. Min({n - 1, a}) \in {n - 1, a} /\ \A y \in {n - 1, a} : Min({n - 1, a}) <= y
  BY <1>5 DEF Min
<1> QED
  BY <1>3, <1>4, <1>6

-----------------------------------------------------------------------------
(* The invariant. *)

Shuffles == dataset.order # 0
Samples == Len(labels)

Typed ==
    /\ labels \in Seq(Int) /\ Samples \in Nat \ {0}
    /\ served \in Nat /\ saved_at \in Nat

\* A snapshot is of the permutation sequence the dataset is in.
SavedIsSerial ==
    saved # NoPosition =>
        saved = SaveServingPos(SerialPosition(Samples, Shuffles, saved_at))

\* The cached extent is of the samples the dataset holds.
ExtentIsCurrent ==
    extent # {} => extent = {[lo |-> Min(Ids(labels)), hi |-> Max(Ids(labels))]}

IInv ==
    /\ Typed
    /\ PositionIsSerial
    /\ SavedIsSerial
    /\ ExtentIsCurrent
    /\ VerdictIsCurrent

\* A position that is serial says itself whether it is shuffled.
LEMMA SerialOfItself ==
    ASSUME NEW x, NEW n \in Nat \ {0}, NEW shuffled \in BOOLEAN, NEW k \in Nat,
           x = SerialPosition(n, shuffled, k)
    PROVE  (x.order # 0) = shuffled /\ x = SerialPosition(n, x.order # 0, k)
<1>1. x.order # 0 <=> shuffled
  BY PositionFields
<1>2. (x.order # 0) = shuffled
  BY <1>1
<1> QED
  BY <1>2

\* What the invariant says of a state, with its parts named.
LEMMA StateIsSerial ==
    ASSUME IInv
    PROVE  \E n \in Nat \ {0}, shuffled \in BOOLEAN, k \in Nat :
              /\ n = Samples /\ shuffled = Shuffles /\ k = served
              /\ dataset = SerialPosition(n, shuffled, k)
              /\ dataset.num_samples = n /\ (dataset.order # 0 <=> shuffled)
<1>1. Samples \in Nat \ {0} /\ Shuffles \in BOOLEAN /\ served \in Nat
  BY DEF IInv, Typed, Shuffles
<1>2. dataset = SerialPosition(Samples, Shuffles, served)
  BY DEF IInv, PositionIsSerial, Samples, Shuffles
<1>3. dataset.num_samples = Samples /\ (dataset.order # 0 <=> Shuffles)
  BY <1>1, <1>2, PositionFields
<1> QED
  BY <1>1, <1>2, <1>3

\* A snapshot, field by field.
LEMMA SavedFields ==
    ASSUME NEW n \in Nat \ {0}, NEW shuffled \in BOOLEAN, NEW k \in Nat
    PROVE  SaveServingPos(SerialPosition(n, shuffled, k)) =
                [cursor |-> k % n, epoch |-> EpochAt(n, shuffled, k)]
BY PositionFields DEF SaveServingPos

\* The state after a move of the position.
LEMMA Moved ==
    ASSUME IInv, UNCHANGED <<labels, extent, verdict>>,
           NEW shuffled \in BOOLEAN, NEW k \in Nat,
           served' = k, dataset' = SerialPosition(Samples, shuffled, k),
           saved_at' \in Nat,
           saved' # NoPosition =>
             saved' = SaveServingPos(SerialPosition(Samples, shuffled, saved_at'))
    PROVE  IInv'
<1>1. Samples' = Samples /\ Ids(labels)' = Ids(labels) /\ Samples \in Nat \ {0}
  BY DEF Samples, Ids, IInv, Typed
<1>2. Shuffles' = shuffled /\ dataset' = SerialPosition(Samples, Shuffles', k)
  BY <1>1, SerialOfItself DEF Shuffles
<1>3. Typed'
  BY <1>1 DEF IInv, Typed
<1>4. PositionIsSerial'
  BY <1>1, <1>2 DEF PositionIsSerial, Samples, Shuffles
<1>5. SavedIsSerial'
  BY <1>1, <1>2 DEF SavedIsSerial
<1>6. ExtentIsCurrent'
  BY <1>1 DEF IInv, ExtentIsCurrent
<1>7. VerdictIsCurrent'
  BY DEF IInv, VerdictIsCurrent
<1> QED
  BY <1>3, <1>4, <1>5, <1>6, <1>7 DEF IInv

\* A dataset as loaded.
LEMMA InitHolds == ASSUME ServingInit PROVE IInv
<1>1. PICK n \in 1..MaxSamples : dataset = Loaded(n) /\ labels \in [1..n -> Labels]
  BY DEF ServingInit
<1>2. n \in Nat \ {0}
  BY ServingAssumption
<1>3. labels \in Seq(Int) /\ Samples = n
  <2>1. labels \in [1..n -> Int]
    BY <1>1, ServingAssumption
  <2> QED
    BY <2>1, <1>2 DEF Samples
<1>4. dataset = SerialPosition(n, FALSE, 0)
  BY <1>1, <1>2, FirstPositions
<1>5. dataset = SerialPosition(n, dataset.order # 0, 0)
  BY <1>2, <1>4, SerialOfItself
<1>6. Typed
  BY <1>2, <1>3 DEF ServingInit, Typed
<1>7. PositionIsSerial
  BY <1>3, <1>5 DEF ServingInit, PositionIsSerial, Samples
<1>8. SavedIsSerial /\ ExtentIsCurrent /\ VerdictIsCurrent
  BY DEF ServingInit, SavedIsSerial, ExtentIsCurrent, VerdictIsCurrent, NoVerdict
<1> QED
  BY <1>6, <1>7, <1>8 DEF IInv

\* The extent admits exactly the labels it is the extent of.
LEMMA ExtentJudges ==
    ASSUME NEW s \in Seq(Int), Len(s) \in Nat \ {0}, NEW classes \in Nat
    PROVE  Min(Ids(s)) >= 0 /\ Max(Ids(s)) < classes <=>
                \A i \in DOMAIN s : s[i] \in 0..(classes - 1)
<1> DEFINE lo == Min(Ids(s))
           hi == Max(Ids(s))
<1>1. \A x \in Ids(s) : x \in Int
  BY DEF Ids
<1>2. lo \in Ids(s) /\ \A x \in Ids(s) : lo <= x
  BY LeastLabel
<1>3. hi \in Ids(s) /\ \A x \in Ids(s) : x <= hi
  BY GreatestLabel
<1> HIDE DEF lo, hi
<1>4. lo >= 0 /\ hi < classes <=> \A x \in Ids(s) : x \in 0..(classes - 1)
  BY <1>1, <1>2, <1>3
<1>5. (\A x \in Ids(s) : x \in 0..(classes - 1)) <=>
            \A i \in DOMAIN s : s[i] \in 0..(classes - 1)
  BY DEF Ids
<1> QED
  BY <1>4, <1>5 DEF lo, hi

\* Asking about the labels takes the extent of the samples held now.
LEMMA ValidateStep ==
    ASSUME IInv, NEW classes \in Classes, ValidateClassLabels(classes)
    PROVE  IInv'
<1> DEFINE x == [lo |-> Min(Ids(labels)), hi |-> Max(Ids(labels))]
<1>1. extent' = {x} /\ UNCHANGED <<position, labels>>
  BY DEF ValidateClassLabels, Scan, IInv, ExtentIsCurrent, Ids
<1>2. verdict' = [classes |-> classes, ok |-> x.lo >= 0 /\ x.hi < classes]
  <2> HIDE DEF x
  <2> QED
    BY <1>1 DEF ValidateClassLabels
<1>3. classes \in Nat
  BY ServingAssumption
<1>4. x.lo >= 0 /\ x.hi < classes <=> \A i \in DOMAIN labels : labels[i] \in 0..(classes - 1)
  BY <1>3, ExtentJudges DEF IInv, Typed, Samples
<1>5. VerdictIsCurrent'
  <2> DEFINE good == x.lo >= 0 /\ x.hi < classes
  <2>1. verdict' = [classes |-> classes, ok |-> good] /\ labels' = labels
    BY <1>1, <1>2
  <2>2. good <=> \A i \in DOMAIN labels : labels[i] \in 0..(classes - 1)
    BY <1>4
  <2> HIDE DEF good
  <2>3. verdict'.ok = good /\ verdict'.classes = classes
    BY <2>1
  <2> QED
    BY <2>1, <2>2, <2>3 DEF VerdictIsCurrent
<1>6. ExtentIsCurrent'
  BY <1>1 DEF ExtentIsCurrent
<1>7. Typed' /\ PositionIsSerial' /\ SavedIsSerial'
  BY <1>1 DEF IInv, Typed, PositionIsSerial, SavedIsSerial, position, Samples, Shuffles
<1> QED
  BY <1>5, <1>6, <1>7 DEF IInv

\* Either half of a split starts at its first record, in file order.
LEMMA SplitStep ==
    ASSUME IInv, NEW f \in Fractions, SplitValidation(f)
    PROVE  IInv'
<1>1. PICK n \in Nat \ {0}, shuffled \in BOOLEAN, k \in Nat :
        /\ n = Samples /\ dataset = SerialPosition(n, shuffled, k)
        /\ dataset.num_samples = n /\ (dataset.order # 0 <=> shuffled)
  BY StateIsSerial
<1>2. ~shuffled /\ n >= 2
  BY <1>1 DEF SplitValidation
<1> DEFINE t == n - ValidationSamples(n, f)
<1>3. t \in 1..(n - 1)
  BY <1>2, ValidationSplits
<1>4. /\ \/ /\ dataset' = [dataset EXCEPT !.num_samples = t, !.cursor = 0]
            /\ labels' = SubSeq(labels, 1, t)
         \/ /\ dataset' = Loaded(n - t)
            /\ labels' = SubSeq(labels, t + 1, n)
      /\ extent' = {} /\ verdict' = NoVerdict
      /\ served' = 0 /\ saved' = NoPosition /\ saved_at' = 0
  BY <1>1 DEF SplitValidation, ExtentAfterSplit
<1> HIDE DEF t
<1>5. \E m \in Nat \ {0} : /\ labels' \in Seq(Int) /\ Len(labels') = m
                           /\ dataset' = SerialPosition(m, FALSE, 0)
  <2>1. labels \in Seq(Int) /\ Len(labels) = n
    BY <1>1 DEF IInv, Typed, Samples
  <2>2. CASE /\ dataset' = [dataset EXCEPT !.num_samples = t, !.cursor = 0]
             /\ labels' = SubSeq(labels, 1, t)
    <3>1. labels' \in Seq(Int) /\ Len(labels') = t
      BY <1>3, <2>1, <2>2
    <3> DEFINE c == k % n
    <3>2. dataset = PositionAt(n, c, 0, 0, 0)
      BY <1>1, <1>2, SerialPositionIs DEF EpochAt, OrderAt, GeneratorAt
    <3> HIDE DEF c
    <3>3. [PositionAt(n, c, 0, 0, 0) EXCEPT !.num_samples = t] = PositionAt(t, c, 0, 0, 0)
      BY DEF PositionAt
    <3>4. [PositionAt(t, c, 0, 0, 0) EXCEPT !.cursor = 0] = PositionAt(t, 0, 0, 0, 0)
      BY DEF PositionAt
    <3>5. dataset' = [[dataset EXCEPT !.num_samples = t] EXCEPT !.cursor = 0]
      BY <2>2
    <3>6. dataset' = PositionAt(t, 0, 0, 0, 0)
      BY <3>2, <3>3, <3>4, <3>5
    <3>7. Loaded(t) = PositionAt(t, 0, 0, 0, 0)
      BY DEF Loaded, PositionAt
    <3>8. t \in Nat \ {0}
      BY <1>3
    <3>9. Loaded(t) = SerialPosition(t, FALSE, 0)
      BY <3>8, FirstPositions
    <3> QED
      BY <3>1, <3>6, <3>7, <3>8, <3>9
  <2>3. CASE /\ dataset' = Loaded(n - t)
             /\ labels' = SubSeq(labels, t + 1, n)
    <3>1. labels' \in Seq(Int) /\ Len(labels') = n - t /\ n - t \in Nat \ {0}
      BY <1>3, <2>1, <2>3
    <3> QED
      BY <3>1, <2>3, FirstPositions
  <2> QED
    BY <1>4, <2>2, <2>3
<1>6. PICK m \in Nat \ {0} : /\ labels' \in Seq(Int) /\ Len(labels') = m
                             /\ dataset' = SerialPosition(m, FALSE, 0)
  BY <1>5
<1>7. dataset' = SerialPosition(m, dataset'.order # 0, 0)
  BY <1>6, SerialOfItself
<1>8. Typed'
  BY <1>4, <1>6 DEF Typed, Samples
<1>9. PositionIsSerial'
  BY <1>4, <1>6, <1>7 DEF PositionIsSerial
<1>10. SavedIsSerial' /\ ExtentIsCurrent' /\ VerdictIsCurrent'
  BY <1>4 DEF SavedIsSerial, ExtentIsCurrent, VerdictIsCurrent, NoVerdict
<1> QED
  BY <1>8, <1>9, <1>10 DEF IInv

\* Every move of the position goes to a serial one.
LEMMA MoveStep == ASSUME IInv, Move PROVE IInv'
<1> DEFINE stay == UNCHANGED <<saved, saved_at>>
<1>0. UNCHANGED <<labels, extent, verdict>>
  BY DEF Move
<1>1. PICK n \in Nat \ {0}, shuffled \in BOOLEAN, k \in Nat :
        /\ n = Samples /\ shuffled = Shuffles /\ k = served
        /\ dataset = SerialPosition(n, shuffled, k)
        /\ dataset.num_samples = n
  BY StateIsSerial
<1>2. /\ saved_at \in Nat
      /\ saved # NoPosition =>
            saved = SaveServingPos(SerialPosition(n, shuffled, saved_at))
  BY <1>1 DEF IInv, Typed, SavedIsSerial
<1>3. ASSUME NEW j \in Nat, served' = j, dataset' = SerialPosition(n, shuffled, j), stay
      PROVE  IInv'
  BY <1>0, <1>1, <1>2, <1>3, Moved
<1>4. ASSUME NEW m \in Batches, Serve(m) PROVE IInv'
  <2>1. m \in Nat /\ k + m \in Nat
    BY ServingAssumption
  <2>2. served' = k + m /\ dataset' = FillBatch(dataset, m) /\ stay
    BY <1>1, <1>4 DEF Serve
  <2>3. dataset' = SerialPosition(n, shuffled, k + m)
    BY <1>1, <2>1, <2>2, BatchAdvances
  <2> QED
    BY <1>3, <2>1, <2>2, <2>3
<1>5. CASE Shuffle
  <2>1. /\ served' = 0 /\ saved' = NoPosition /\ saved_at' = 0
        /\ dataset' = SerialPosition(n, TRUE, 0)
    BY <1>1, <1>5, FirstPositions DEF Shuffle
  <2> QED
    BY <1>0, <1>1, <2>1, Moved
<1>6. CASE Save
  <2>1. /\ saved' = SaveServingPos(dataset) /\ saved_at' = k
        /\ served' = k /\ dataset' = SerialPosition(n, shuffled, k)
    BY <1>1, <1>6 DEF Save
  <2> QED
    BY <1>0, <1>1, <2>1, Moved
<1>7. CASE Restore
  <2>1. PICK j \in Nat : j = saved_at
    BY <1>2
  <2>2. /\ saved # NoPosition /\ served' = j /\ stay
        /\ dataset' = RestoreServingPos(dataset, saved)
    BY <2>1, <1>7 DEF Restore
  <2> DEFINE e == EpochAt(n, shuffled, j)
  <2>3. saved = [cursor |-> j % n, epoch |-> e]
    BY <1>2, <2>1, <2>2, SavedFields
  <2>4. e \in Nat /\ (shuffled => e = j \div n)
    BY PositionTypes DEF EpochAt
  <2> HIDE DEF e
  <2>5. dataset' = SerialPosition(n, shuffled, j)
    BY <1>1, <2>2, <2>3, <2>4, Restores
  <2> QED
    BY <1>3, <2>2, <2>5
<1>8. CASE RewindCursor
  <2> DEFINE j == k - (k % n)
  <2>1. served' = j /\ dataset' = Rewind(dataset) /\ stay
    BY <1>1, <1>8 DEF RewindCursor
  <2>2. j \in Nat
    BY DivisionBack
  <2>3. dataset' = SerialPosition(n, shuffled, j)
    BY <1>1, <2>1, Rewinds
  <2> HIDE DEF j
  <2> QED
    BY <1>3, <2>1, <2>2, <2>3
<1>9. ASSUME NEW rows \in 0..(MaxServed * RowsPerSample), Skip(rows) PROVE IInv'
  <2> DEFINE j == rows \div RowsPerSample
  <2>1. j \in Nat
    <3>1. rows \in Nat
      OBVIOUS
    <3> QED
      BY <3>1, RowsAssumption, Division
  <2>2. served' = j /\ dataset' = SkipServed(dataset, rows) /\ stay
    BY <1>9 DEF Skip
  <2>3. SkipServed(dataset, rows) =
            RestoreServingPos(dataset, [cursor |-> j % n, epoch |-> j \div n])
    BY <1>1 DEF SkipServed
  <2> HIDE DEF j
  <2>4. j \div n \in Nat
    BY <2>1, Division
  <2>5. dataset' = SerialPosition(n, shuffled, j)
    BY <1>1, <2>1, <2>2, <2>3, <2>4, Restores
  <2> QED
    BY <1>3, <2>1, <2>2, <2>5
<1> QED
  BY <1>4, <1>5, <1>6, <1>7, <1>8, <1>9 DEF Move

\* The invariant holds of every use of a dataset.
THEOREM ServingInvariant == ServingSpec => []IInv
<1>1. ServingInit => IInv
  BY InitHolds
<1>2. IInv /\ [ServingNext]_serving_vars => IInv'
  <2> SUFFICES ASSUME IInv, [ServingNext]_serving_vars PROVE IInv'
    OBVIOUS
  <2>1. CASE ServingNext
    BY <2>1, ValidateStep, SplitStep, MoveStep DEF ServingNext
  <2>2. CASE UNCHANGED serving_vars
    BY <2>2 DEF serving_vars, position, IInv, Typed, PositionIsSerial, SavedIsSerial,
                ExtentIsCurrent, VerdictIsCurrent, Samples, Shuffles, Ids
  <2> QED
    BY <2>1, <2>2
<1> QED
  BY <1>1, <1>2, PTL DEF ServingSpec

\* However the position of a dataset was reached, it is the one a serial run reaches
\* after that many records.
THEOREM PositionsAreSerial == ServingSpec => []PositionIsSerial
<1>1. IInv => PositionIsSerial
  BY DEF IInv
<1> QED
  BY <1>1, ServingInvariant, PTL

\* The verdict about the labels is about the samples the dataset holds.
THEOREM VerdictsAreCurrent == ServingSpec => []VerdictIsCurrent
<1>1. IInv => VerdictIsCurrent
  BY DEF IInv
<1> QED
  BY <1>1, ServingInvariant, PTL

(***************************************************************************)
(* The pipeline and the evaluation pass.                                   *)
(***************************************************************************)

\* Records first to first + size - 1 of the serial sequence, and its positions.
Records(shuffled, first, size) ==
    [i \in 1..size |-> SerialRecord(NumSamples, shuffled, first + i - 1)]

At(shuffled, k) == SerialPosition(NumSamples, shuffled, k)

Slots(records) == [inputs |-> records, labels |-> records]
AreSlots(s) == s = [inputs |-> s.inputs, labels |-> s.labels]

Consumers == {"closed", "ready", "direct", "wait", "parked", "copy",
              "labels", "release", "notify", "stop", "join"}
Feeders == {"none", "wait", "parked", "stage", "fill", "notify", "exited"}

PipeTyped ==
    /\ threaded \in BOOLEAN /\ full \in BOOLEAN /\ stop \in BOOLEAN
    /\ stage_start \in Position
    /\ AreSlots(slot)
    /\ consumer \in Consumers /\ feeder \in Feeders
    /\ consumed \in 0..MaxBatches
    /\ consumer \in {"direct", "wait", "parked", "copy", "labels", "release"} =>
            consumed < MaxBatches

\* Who works on what: without a thread there is no feeder, and the staging buffers
\* are the engine's while they are full, the feeder's while they are not.
HandedOver ==
    /\ feeder = "none" <=> ~threaded \/ consumer = "closed"
    /\ consumer = "direct" => ~threaded
    /\ consumer \in Consumers \ {"closed", "ready", "direct"} => threaded
    /\ consumer \in {"copy", "labels", "release"} => full
    /\ full /\ consumer # "closed" => threaded /\ feeder \notin {"stage", "fill"}

\* A pipeline whose next record is k and whose last batch was last.
DirectAt(shuffled, k) ==
    ~threaded \/ consumer = "closed" =>
        /\ consumer # "direct" => data = At(shuffled, k)
        /\ consumer = "direct" =>
            \E m \in 0..(Batch - 1) :
                /\ slot = Slots(Records(shuffled, k, m))
                /\ data = At(shuffled, k + m)

FedAt(shuffled, k) ==
    threaded /\ consumer # "closed" =>
        /\ full =>
            /\ staged = Records(shuffled, k, Batch) /\ data = At(shuffled, k + Batch)
            /\ stage_start = SaveServingPos(At(shuffled, k))
        /\ feeder = "fill" =>
            \E m \in 0..Batch :
                /\ staged = Records(shuffled, k, m) /\ data = At(shuffled, k + m)
                /\ stage_start = SaveServingPos(At(shuffled, k))
        /\ ~full /\ feeder # "fill" => data = At(shuffled, k)

\* The consumer has begun to fill the slots for its next batch.
Filling == {"direct", "copy", "labels", "release"}

SlotAt(shuffled, k) ==
    /\ consumer \in {"labels", "release"} => slot.inputs = Records(shuffled, k, Batch)
    /\ consumer = "release" => slot.labels = Records(shuffled, k, Batch)

\* Len(staged) is Batch at most even when nothing reads the buffers.
StagedFits == Len(staged) \in 0..Batch

PipeAt(shuffled, k) ==
    /\ PipeTyped /\ HandedOver /\ StagedFits
    /\ DirectAt(shuffled, k) /\ FedAt(shuffled, k) /\ SlotAt(shuffled, k)

\* The last batch taken, of c.
LastBatch(shuffled, c) ==
    IF c = 0 THEN <<>> ELSE Records(shuffled, (c - 1) * Batch, Batch)

PipelineInv ==
    \E shuffled \in BOOLEAN :
        /\ PipeAt(shuffled, consumed * Batch)
        /\ consumer \notin Filling => slot = Slots(LastBatch(shuffled, consumed))

\* A pass entered at record k: its batches start at the first record of the epoch.
Top(k) == NumSamples * (k \div NumSamples)

\* The rows that count of the first c batches.
Judged(shuffled, k, c) ==
    [i \in 1..Min({c * Batch, NumSamples}) |->
        <<OrderAt(NumSamples, shuffled, k), i - 1>>]

\* A batch has been taken and not yet been executed.
Taken == engine = "batch" /\ consumer \in {"notify", "ready"}

PassTyped ==
    /\ engine \in {"idle", "construct", "next", "batch", "leave", "left"}
    /\ b \in Nat
    /\ engine = "construct" => b = 0
    /\ engine \in {"next", "batch"} => b < batches
    /\ engine \in {"leave", "left"} => b = batches
    /\ engine \in {"idle", "construct"} => consumer = "closed"
    /\ engine \in {"next", "leave"} => consumer = "ready"
    /\ engine = "batch" => consumer \notin {"closed", "stop", "join"}
    /\ engine = "left" => consumer \in {"closed", "stop", "join"}

\* Between passes: the dataset is back where the last pass found it.
RestsAt(shuffled, k) ==
    engine = "idle" =>
        /\ PipeAt(shuffled, k)
        /\ passes \in Nat
        /\ passes > 0 => entry = At(shuffled, k) /\ judged = Judged(shuffled, k, batches)

\* In a pass entered at record k, the b-th batch of the epoch is next.
GoesAt(shuffled, k) ==
    engine # "idle" =>
        /\ PipeAt(shuffled, Top(k) + (IF Taken THEN b + 1 ELSE b) * Batch)
        /\ Taken => slot.inputs = Records(shuffled, Top(k) + b * Batch, Batch)
        /\ passes \in Nat
        /\ entry_pos = SaveServingPos(At(shuffled, k))
        /\ entry = At(shuffled, k) /\ judged = Judged(shuffled, k, b)

PassAt(shuffled, k) == PassTyped /\ RestsAt(shuffled, k) /\ GoesAt(shuffled, k)

\* A failed evaluation ends the process.
PassInv ==
    engine \notin {"fail", "failed"} =>
        \E shuffled \in BOOLEAN, k \in Nat : PassAt(shuffled, k)

-----------------------------------------------------------------------------
(* What the operators make of the serial sequence. *)

\* The constants are positive numbers.
LEMMA Constants == NumSamples \in Nat \ {0} /\ Batch \in Nat \ {0} /\ MaxBatches \in Nat
BY BatchAssumption

\* Every serial position is a dataset and says whether it is shuffled.
LEMMA AtIs ==
    ASSUME NEW shuffled \in BOOLEAN, NEW k \in Nat
    PROVE  /\ At(shuffled, k) \in Datasets(NumSamples)
           /\ (At(shuffled, k).order # 0) = shuffled
           /\ SaveServingPos(At(shuffled, k)) \in Position
<1>1. /\ At(shuffled, k) \in Datasets(NumSamples)
      /\ (At(shuffled, k).order # 0 <=> shuffled)
  BY Constants, PositionFields DEF At
<1>2. (At(shuffled, k).order # 0) = shuffled
  BY <1>1
<1>3. At(shuffled, k).cursor \in 0..(NumSamples - 1) /\ At(shuffled, k).epoch \in Nat
  BY <1>1 DEF Datasets
<1> QED
  BY <1>1, <1>2, <1>3 DEF SaveServingPos, Position

\* A restore comes back to the position that was saved.
LEMMA RestoresTo ==
    ASSUME NEW shuffled \in BOOLEAN, NEW j \in Nat, NEW k \in Nat
    PROVE  RestoreServingPos(At(shuffled, j), SaveServingPos(At(shuffled, k))) =
                At(shuffled, k)
<1> DEFINE e == EpochAt(NumSamples, shuffled, k)
<1>1. SaveServingPos(At(shuffled, k)) = [cursor |-> k % NumSamples, epoch |-> e]
  BY Constants, SavedFields DEF At
<1>2. e \in Nat /\ (shuffled => e = k \div NumSamples)
  BY Constants, PositionTypes DEF EpochAt
<1> HIDE DEF e
<1> QED
  BY <1>1, <1>2, Constants, Restores DEF At

\* Two sequences joined, element by element.
LEMMA Joined ==
    ASSUME NEW S, NEW s \in Seq(S), NEW t \in Seq(S), NEW m, m = Len(s), NEW r, r = Len(t)
    PROVE  s \o t = [i \in 1..(m + r) |-> (s \o t)[i]]
<1>1. s \o t \in Seq(S) /\ Len(s \o t) = m + r
  OBVIOUS
<1>2. ASSUME NEW u \in Seq(S) PROVE u = [i \in 1..Len(u) |-> u[i]]
  OBVIOUS
<1> QED
  BY <1>1, <1>2

\* A run of records is a sequence of pairs, as long as asked for.
LEMMA RecordsAre ==
    ASSUME NEW shuffled \in BOOLEAN, NEW first \in Nat, NEW size \in Nat
    PROVE  /\ Records(shuffled, first, size) \in Seq(Nat \X Nat)
           /\ Len(Records(shuffled, first, size)) = size
<1>1. ASSUME NEW i \in 1..size
      PROVE  SerialRecord(NumSamples, shuffled, first + i - 1) \in Nat \X Nat
  <2>1. first + i - 1 \in Nat
    OBVIOUS
  <2>2. /\ (first + i - 1) \div NumSamples \in Nat
        /\ (first + i - 1) % NumSamples \in Nat
    BY <2>1, Constants, Division
  <2> QED
    BY <2>2 DEF SerialRecord, shuffle_origin
<1> QED
  BY <1>1 DEF Records

\* A run of no records is empty.
LEMMA NoRecords ==
    ASSUME NEW shuffled, NEW first \in Nat
    PROVE  Records(shuffled, first, 0) = <<>>
BY DEF Records

\* A turn of FillBatch's loop appends the next records of the sequence.
LEMMA FillOnward ==
    ASSUME NEW shuffled \in BOOLEAN, NEW k \in Nat, NEW m \in 0..(Batch - 1)
    PROVE  \E l \in (m + 1)..Batch :
              /\ Records(shuffled, k, m) \o Run(At(shuffled, k + m), Batch - m) =
                    Records(shuffled, k, l)
              /\ AfterRun(At(shuffled, k + m), Batch - m) = At(shuffled, k + l)
<1> DEFINE left == Batch - m
           p == k + m
           d == At(shuffled, p)
           r == RunLength(d, left)
<1>1. left \in Nat \ {0} /\ p \in Nat /\ m \in Nat
  BY Constants
<1> HIDE DEF left, p
<1>2. r \in 1..left /\ AfterRun(d, left) = At(shuffled, p + r)
  <2>1. RunLength(SerialPosition(NumSamples, shuffled, p), left) \in 1..left
    BY <1>1, Constants, RunAdvances
  <2>2. AfterRun(SerialPosition(NumSamples, shuffled, p), left) =
            SerialPosition(NumSamples, shuffled,
                p + RunLength(SerialPosition(NumSamples, shuffled, p), left))
    BY <1>1, Constants, RunAdvances
  <2> QED
    BY <2>1, <2>2 DEF At
<1>3. Run(d, left) = Records(shuffled, p, r)
  BY <1>1, Constants, RunServes DEF At, Records
<1> HIDE DEF d, r
<1> DEFINE l == m + r
<1>4. l \in (m + 1)..Batch /\ p + r = k + l /\ l \in Nat /\ r \in Nat
  BY <1>1, <1>2, Constants DEF left, p
<1> DEFINE first == Records(shuffled, k, m)
           rest == Records(shuffled, p, r)
           all == Records(shuffled, k, l)
<1>5. first \o rest = all
  <2>1. first \in Seq(Nat \X Nat) /\ Len(first) = m
    BY <1>1, RecordsAre
  <2>2. rest \in Seq(Nat \X Nat) /\ Len(rest) = r
    <3>1. p \in Nat /\ r \in Nat
      BY <1>1, <1>4
    <3> HIDE DEF l, first, all
    <3> QED
      BY <3>1, RecordsAre
  <2>5. /\ \A i \in 1..m : first[i] = SerialRecord(NumSamples, shuffled, k + i - 1)
        /\ \A i \in 1..r : rest[i] = SerialRecord(NumSamples, shuffled, p + i - 1)
    BY DEF Records
  <2> DEFINE joined == first \o rest
  <2> HIDE DEF first, rest
  <2>3. /\ joined = [i \in 1..l |-> joined[i]]
        /\ \A i \in 1..m : joined[i] = first[i]
        /\ \A i \in 1..r : joined[m + i] = rest[i]
    <3>1. joined = [i \in 1..l |-> joined[i]]
      BY <2>1, <2>2, Joined
    <3>2. \A i \in 1..m : joined[i] = first[i]
      BY <2>1, <2>2
    <3>3. \A i \in 1..r : joined[m + i] = rest[i]
      BY <2>1, <2>2
    <3> QED
      BY <3>1, <3>2, <3>3
  <2> HIDE DEF joined
  <2>4. ASSUME NEW i \in 1..l
        PROVE  joined[i] = SerialRecord(NumSamples, shuffled, k + i - 1)
    <3>1. CASE i <= m
      <4>1. i \in 1..m
        BY <3>1, <1>1
      <4> QED
        BY <4>1, <2>5, <2>3
    <3>2. CASE i > m
      <4>1. i - m \in 1..r /\ m + (i - m) = i /\ p + (i - m) - 1 = k + i - 1
        BY <3>2, <1>1, <1>4 DEF p
      <4>2. joined[m + (i - m)] = SerialRecord(NumSamples, shuffled, p + (i - m) - 1)
        BY <4>1, <2>5, <2>3
      <4> QED
        BY <4>1, <4>2
    <3> QED
      BY <3>1, <3>2, <1>1
  <2> QED
    BY <2>3, <2>4 DEF Records, joined
<1> HIDE DEF l, first, rest, all
<1> QED
  BY <1>2, <1>3, <1>4, <1>5 DEF left, p, d, first, rest, all

\* The slots, filled alike.
LEMMA SlotsAre ==
    ASSUME NEW records
    PROVE  /\ AreSlots(Slots(records))
           /\ Slots(records).inputs = records /\ Slots(records).labels = records
BY DEF AreSlots, Slots

-----------------------------------------------------------------------------
(* The steps of the pipeline.                                              *)
(* Each keeps its place in the sequence, but the two that take a batch.    *)

\* The consumer is inside a call to NextBatch.
Asking == {"direct", "wait", "parked", "copy", "labels", "release"}

\* A step that takes no batch leaves the consumer in its call, and whoever is
\* outside one finds the slots as the last batch left them.
Steady ==
    /\ consumed' = consumed
    /\ consumer \in {"closed", "ready"} => consumer' = consumer
    /\ consumer = "notify" => consumer' \in {"notify", "ready"}
    /\ consumer \in {"stop", "join"} => consumer' \in {"stop", "join", "closed"}
    /\ consumer \in Asking => consumer' \in Asking
    /\ consumer' \notin Filling => consumer \notin Filling /\ slot' = slot

\* A step that takes the batch at record k.
Taking(shuffled, k) ==
    /\ consumed' = consumed + 1
    /\ consumer \in {"direct", "release"} /\ consumer' \in {"ready", "notify"}
    /\ slot' = Slots(Records(shuffled, k, Batch))

\* The feeder looks at the flags.
LEMMA FeederWaitStep ==
    ASSUME NEW shuffled \in BOOLEAN, NEW k \in Nat, PipeAt(shuffled, k),
           FeederWait
    PROVE  PipeAt(shuffled, k)' /\ Steady
<1>1. PipeTyped'
  BY DEF PipeAt, PipeTyped, HandedOver, FeederWait, Consumers, Feeders, flags
<1>2. HandedOver'
  BY DEF PipeAt, PipeTyped, HandedOver, FeederWait, Consumers, Feeders, flags
<1>3. StagedFits'
  BY DEF PipeAt, StagedFits, FeederWait, Consumers, Feeders, flags
<1>4. DirectAt(shuffled, k)'
  BY DEF PipeAt, PipeTyped, HandedOver, DirectAt, FedAt, FeederWait, Consumers, Feeders,
     flags
<1>5. FedAt(shuffled, k)'
  BY DEF PipeAt, PipeTyped, HandedOver, DirectAt, FedAt, FeederWait, Consumers, Feeders,
     flags
<1>6. SlotAt(shuffled, k)'
  BY DEF PipeAt, PipeTyped, HandedOver, FedAt, SlotAt, FeederWait, Consumers, Feeders, flags
<1>7. Steady
  BY DEF PipeAt, PipeTyped, HandedOver, FeederWait, Consumers, Feeders, flags, Steady,
     Asking, Filling
<1> QED
  BY <1>1, <1>2, <1>3, <1>4, <1>5, <1>6, <1>7 DEF PipeAt

\* The feeder wakes the engine.
LEMMA FeederNotifyStep ==
    ASSUME NEW shuffled \in BOOLEAN, NEW k \in Nat, PipeAt(shuffled, k),
           FeederNotify
    PROVE  PipeAt(shuffled, k)' /\ Steady
<1>1. PipeTyped'
  BY DEF PipeAt, PipeTyped, HandedOver, FeederNotify, WokenConsumer, Consumers, Feeders,
     flags
<1>2. HandedOver'
  BY DEF PipeAt, PipeTyped, HandedOver, FeederNotify, WokenConsumer, Consumers, Feeders,
     flags
<1>3. StagedFits'
  BY DEF PipeAt, StagedFits, FeederNotify, WokenConsumer, Consumers, Feeders, flags
<1>4. DirectAt(shuffled, k)'
  BY DEF PipeAt, PipeTyped, HandedOver, DirectAt, FedAt, FeederNotify, WokenConsumer,
     Consumers, Feeders, flags
<1>5. FedAt(shuffled, k)'
  BY DEF PipeAt, PipeTyped, HandedOver, DirectAt, FedAt, FeederNotify, WokenConsumer,
     Consumers, Feeders, flags
<1>6. SlotAt(shuffled, k)'
  BY DEF PipeAt, PipeTyped, HandedOver, FedAt, SlotAt, FeederNotify, WokenConsumer,
     Consumers, Feeders, flags
<1>7. Steady
  BY DEF PipeAt, PipeTyped, HandedOver, FeederNotify, WokenConsumer, Consumers, Feeders,
     flags, Steady, Asking, Filling
<1> QED
  BY <1>1, <1>2, <1>3, <1>4, <1>5, <1>6, <1>7 DEF PipeAt

\* A whole batch is published.
LEMMA PublishStep ==
    ASSUME NEW shuffled \in BOOLEAN, NEW k \in Nat, PipeAt(shuffled, k),
           Publish
    PROVE  PipeAt(shuffled, k)' /\ Steady
<1>1. PipeTyped'
  BY DEF PipeAt, PipeTyped, HandedOver, Publish, Consumers, Feeders, flags
<1>2. HandedOver'
  BY DEF PipeAt, PipeTyped, HandedOver, Publish, Consumers, Feeders, flags
<1>3. StagedFits'
  BY DEF PipeAt, StagedFits, Publish, Consumers, Feeders, flags
<1>4. DirectAt(shuffled, k)'
  BY DEF PipeAt, PipeTyped, HandedOver, DirectAt, FedAt, Publish, Consumers, Feeders, flags
<1>5. FedAt(shuffled, k)'
  <2>1. feeder = "fill" /\ threaded /\ consumer # "closed" /\ Len(staged) = Batch
    BY DEF PipeAt, HandedOver, Publish
  <2>2. PICK m \in 0..Batch : /\ staged = Records(shuffled, k, m)
                             /\ data = At(shuffled, k + m)
                             /\ stage_start = SaveServingPos(At(shuffled, k))
    BY <2>1 DEF PipeAt, FedAt
  <2>3. m = Batch
    BY <2>1, <2>2, RecordsAre
  <2> QED
    BY <2>1, <2>2, <2>3 DEF FedAt, Publish
<1>6. SlotAt(shuffled, k)'
  BY DEF PipeAt, PipeTyped, HandedOver, FedAt, SlotAt, Publish, Consumers, Feeders, flags
<1>7. Steady
  BY DEF PipeAt, PipeTyped, HandedOver, Publish, Consumers, Feeders, flags, Steady,
     Asking, Filling
<1> QED
  BY <1>1, <1>2, <1>3, <1>4, <1>5, <1>6, <1>7 DEF PipeAt

\* The engine looks at the flags.
LEMMA ConsumerWaitStep ==
    ASSUME NEW shuffled \in BOOLEAN, NEW k \in Nat, PipeAt(shuffled, k),
           ConsumerWait
    PROVE  PipeAt(shuffled, k)' /\ Steady
<1>1. PipeTyped'
  BY DEF PipeAt, PipeTyped, HandedOver, ConsumerWait, Consumers, Feeders, flags
<1>2. HandedOver'
  BY DEF PipeAt, PipeTyped, HandedOver, ConsumerWait, Consumers, Feeders, flags
<1>3. StagedFits'
  BY DEF PipeAt, StagedFits, ConsumerWait, Consumers, Feeders, flags
<1>4. DirectAt(shuffled, k)'
  BY DEF PipeAt, PipeTyped, HandedOver, DirectAt, FedAt, ConsumerWait, Consumers, Feeders,
     flags
<1>5. FedAt(shuffled, k)'
  BY DEF PipeAt, PipeTyped, HandedOver, DirectAt, FedAt, ConsumerWait, Consumers, Feeders,
     flags
<1>6. SlotAt(shuffled, k)'
  BY DEF PipeAt, PipeTyped, HandedOver, FedAt, SlotAt, ConsumerWait, Consumers, Feeders,
     flags
<1>7. Steady
  BY DEF PipeAt, PipeTyped, HandedOver, ConsumerWait, Consumers, Feeders, flags, Steady,
     Asking, Filling
<1> QED
  BY <1>1, <1>2, <1>3, <1>4, <1>5, <1>6, <1>7 DEF PipeAt

\* The first copy out of the staging buffers.
LEMMA CopyInputsStep ==
    ASSUME NEW shuffled \in BOOLEAN, NEW k \in Nat, PipeAt(shuffled, k),
           CopyInputs
    PROVE  PipeAt(shuffled, k)' /\ Steady
<1>1. PipeTyped'
  BY DEF PipeAt, PipeTyped, HandedOver, CopyInputs, AreSlots, Consumers, Feeders, flags
<1>2. HandedOver'
  BY DEF PipeAt, PipeTyped, HandedOver, CopyInputs, AreSlots, Consumers, Feeders, flags
<1>3. StagedFits'
  BY DEF PipeAt, StagedFits, CopyInputs, AreSlots, Consumers, Feeders, flags
<1>4. DirectAt(shuffled, k)'
  BY DEF PipeAt, PipeTyped, HandedOver, DirectAt, FedAt, CopyInputs, AreSlots, Consumers,
     Feeders, flags
<1>5. FedAt(shuffled, k)'
  BY DEF PipeAt, PipeTyped, HandedOver, DirectAt, FedAt, CopyInputs, AreSlots, Consumers,
     Feeders, flags
<1>6. SlotAt(shuffled, k)'
  BY DEF PipeAt, PipeTyped, HandedOver, FedAt, SlotAt, CopyInputs, AreSlots, Consumers,
     Feeders, flags
<1>7. Steady
  BY DEF PipeAt, PipeTyped, HandedOver, CopyInputs, AreSlots, Consumers, Feeders, flags,
     Steady, Asking, Filling
<1> QED
  BY <1>1, <1>2, <1>3, <1>4, <1>5, <1>6, <1>7 DEF PipeAt

\* The second copy.
LEMMA CopyLabelsStep ==
    ASSUME NEW shuffled \in BOOLEAN, NEW k \in Nat, PipeAt(shuffled, k),
           CopyLabels
    PROVE  PipeAt(shuffled, k)' /\ Steady
<1>1. PipeTyped'
  BY DEF PipeAt, PipeTyped, HandedOver, CopyLabels, AreSlots, Consumers, Feeders, flags
<1>2. HandedOver'
  BY DEF PipeAt, PipeTyped, HandedOver, CopyLabels, AreSlots, Consumers, Feeders, flags
<1>3. StagedFits'
  BY DEF PipeAt, StagedFits, CopyLabels, AreSlots, Consumers, Feeders, flags
<1>4. DirectAt(shuffled, k)'
  BY DEF PipeAt, PipeTyped, HandedOver, DirectAt, FedAt, CopyLabels, AreSlots, Consumers,
     Feeders, flags
<1>5. FedAt(shuffled, k)'
  BY DEF PipeAt, PipeTyped, HandedOver, DirectAt, FedAt, CopyLabels, AreSlots, Consumers,
     Feeders, flags
<1>6. SlotAt(shuffled, k)'
  BY DEF PipeAt, PipeTyped, HandedOver, FedAt, SlotAt, CopyLabels, AreSlots, Consumers,
     Feeders, flags
<1>7. Steady
  BY DEF PipeAt, PipeTyped, HandedOver, CopyLabels, AreSlots, Consumers, Feeders, flags,
     Steady, Asking, Filling
<1> QED
  BY <1>1, <1>2, <1>3, <1>4, <1>5, <1>6, <1>7 DEF PipeAt

\* The engine wakes the feeder.
LEMMA ConsumerNotifyStep ==
    ASSUME NEW shuffled \in BOOLEAN, NEW k \in Nat, PipeAt(shuffled, k),
           ConsumerNotify
    PROVE  PipeAt(shuffled, k)' /\ Steady
<1>1. PipeTyped'
  BY DEF PipeAt, PipeTyped, HandedOver, ConsumerNotify, WokenFeeder, Consumers, Feeders,
     flags
<1>2. HandedOver'
  BY DEF PipeAt, PipeTyped, HandedOver, ConsumerNotify, WokenFeeder, Consumers, Feeders,
     flags
<1>3. StagedFits'
  BY DEF PipeAt, StagedFits, ConsumerNotify, WokenFeeder, Consumers, Feeders, flags
<1>4. DirectAt(shuffled, k)'
  BY DEF PipeAt, PipeTyped, HandedOver, DirectAt, FedAt, ConsumerNotify, WokenFeeder,
     Consumers, Feeders, flags
<1>5. FedAt(shuffled, k)'
  BY DEF PipeAt, PipeTyped, HandedOver, DirectAt, FedAt, ConsumerNotify, WokenFeeder,
     Consumers, Feeders, flags
<1>6. SlotAt(shuffled, k)'
  BY DEF PipeAt, PipeTyped, HandedOver, FedAt, SlotAt, ConsumerNotify, WokenFeeder,
     Consumers, Feeders, flags
<1>7. Steady
  BY DEF PipeAt, PipeTyped, HandedOver, ConsumerNotify, WokenFeeder, Consumers, Feeders,
     flags, Steady, Asking, Filling
<1> QED
  BY <1>1, <1>2, <1>3, <1>4, <1>5, <1>6, <1>7 DEF PipeAt

\* The engine wakes the feeder to stop it.
LEMMA NotifyStopStep ==
    ASSUME NEW shuffled \in BOOLEAN, NEW k \in Nat, PipeAt(shuffled, k),
           NotifyStop
    PROVE  PipeAt(shuffled, k)' /\ Steady
<1>1. PipeTyped'
  BY DEF PipeAt, PipeTyped, HandedOver, NotifyStop, WokenFeeder, Consumers, Feeders, flags
<1>2. HandedOver'
  BY DEF PipeAt, PipeTyped, HandedOver, NotifyStop, WokenFeeder, Consumers, Feeders, flags
<1>3. StagedFits'
  BY DEF PipeAt, StagedFits, NotifyStop, WokenFeeder, Consumers, Feeders, flags
<1>4. DirectAt(shuffled, k)'
  BY DEF PipeAt, PipeTyped, HandedOver, DirectAt, FedAt, NotifyStop, WokenFeeder,
     Consumers, Feeders, flags
<1>5. FedAt(shuffled, k)'
  BY DEF PipeAt, PipeTyped, HandedOver, DirectAt, FedAt, NotifyStop, WokenFeeder,
     Consumers, Feeders, flags
<1>6. SlotAt(shuffled, k)'
  BY DEF PipeAt, PipeTyped, HandedOver, FedAt, SlotAt, NotifyStop, WokenFeeder, Consumers,
     Feeders, flags
<1>7. Steady
  BY DEF PipeAt, PipeTyped, HandedOver, NotifyStop, WokenFeeder, Consumers, Feeders,
     flags, Steady, Asking, Filling
<1> QED
  BY <1>1, <1>2, <1>3, <1>4, <1>5, <1>6, <1>7 DEF PipeAt

\* The engine asks a pipeline with a feeder.
LEMMA NextBatchStep ==
    ASSUME NEW shuffled \in BOOLEAN, NEW k \in Nat, PipeAt(shuffled, k),
           NextBatch
    PROVE  PipeAt(shuffled, k)' /\ consumed' = consumed /\ consumer' = "wait"
<1>1. PipeTyped'
  BY DEF PipeAt, PipeTyped, HandedOver, NextBatch, Consumers, Feeders, flags
<1>2. HandedOver'
  BY DEF PipeAt, PipeTyped, HandedOver, NextBatch, Consumers, Feeders, flags
<1>3. StagedFits'
  BY DEF PipeAt, StagedFits, NextBatch, Consumers, Feeders, flags
<1>4. DirectAt(shuffled, k)'
  BY DEF PipeAt, PipeTyped, HandedOver, DirectAt, FedAt, NextBatch, Consumers, Feeders,
     flags
<1>5. FedAt(shuffled, k)'
  BY DEF PipeAt, PipeTyped, HandedOver, DirectAt, FedAt, NextBatch, Consumers, Feeders,
     flags
<1>6. SlotAt(shuffled, k)'
  BY DEF PipeAt, PipeTyped, HandedOver, FedAt, SlotAt, NextBatch, Consumers, Feeders, flags
<1> QED
  BY <1>1, <1>2, <1>3, <1>4, <1>5, <1>6 DEF PipeAt, NextBatch

\* The feeder takes note of where it starts.
LEMMA StageStep ==
    ASSUME NEW shuffled \in BOOLEAN, NEW k \in Nat, PipeAt(shuffled, k), Stage
    PROVE  PipeAt(shuffled, k)' /\ Steady
<1>0. /\ threaded /\ consumer # "closed" /\ feeder = "stage" /\ ~full
      /\ data = At(shuffled, k)
  BY DEF PipeAt, HandedOver, FedAt, Stage
<1>1. PipeTyped'
  BY <1>0, AtIs DEF PipeAt, PipeTyped, Stage, Feeders, flags
<1>2. HandedOver'
  BY DEF PipeAt, HandedOver, Stage, flags
<1>3. StagedFits'
  BY Constants DEF StagedFits, Stage
<1>4. DirectAt(shuffled, k)'
  BY <1>0 DEF DirectAt, Stage, flags
<1>5. FedAt(shuffled, k)'
  <2>1. staged' = Records(shuffled, k, 0) /\ data' = At(shuffled, k + 0) /\ 0 \in 0..Batch
    BY <1>0, NoRecords, Constants DEF Stage
  <2>2. stage_start' = SaveServingPos(At(shuffled, k)) /\ feeder' = "fill" /\ ~full'
    BY <1>0 DEF Stage, flags
  <2> QED
    BY <2>1, <2>2 DEF FedAt
<1>6. SlotAt(shuffled, k)'
  BY <1>0 DEF PipeAt, HandedOver, SlotAt, Stage
<1>7. Steady
  BY DEF Stage, Steady, Asking, Filling, PipeAt
<1> QED
  BY <1>1, <1>2, <1>3, <1>4, <1>5, <1>6, <1>7 DEF PipeAt

\* The feeder appends the next records to the staging buffers.
LEMMA FillStep ==
    ASSUME NEW shuffled \in BOOLEAN, NEW k \in Nat, PipeAt(shuffled, k), Fill
    PROVE  PipeAt(shuffled, k)' /\ Steady
<1>0. threaded /\ consumer # "closed" /\ feeder = "fill" /\ ~full
  BY DEF PipeAt, HandedOver, Fill
<1>8. PICK m \in 0..Batch : /\ staged = Records(shuffled, k, m)
                           /\ data = At(shuffled, k + m)
                           /\ stage_start = SaveServingPos(At(shuffled, k))
  BY <1>0 DEF PipeAt, FedAt
<1>9. Len(staged) = m /\ m \in 0..(Batch - 1)
  <2>1. Len(staged) = m
    BY <1>8, RecordsAre
  <2>2. Batch - Len(staged) > 0
    BY DEF Fill
  <2> QED
    BY <2>1, <2>2, Constants
<1>10. PICK l \in (m + 1)..Batch :
          /\ Records(shuffled, k, m) \o Run(At(shuffled, k + m), Batch - m) =
                Records(shuffled, k, l)
          /\ AfterRun(At(shuffled, k + m), Batch - m) = At(shuffled, k + l)
  BY <1>9, FillOnward
<1>11. /\ staged' = Records(shuffled, k, l) /\ data' = At(shuffled, k + l)
       /\ UNCHANGED <<flags, stage_start, slot, consumer, feeder, consumed>>
  BY <1>8, <1>9, <1>10 DEF Fill
<1>12. l \in 0..Batch /\ Len(staged') = l
  BY <1>9, <1>11, RecordsAre
<1>1. PipeTyped'
  BY <1>11 DEF PipeAt, PipeTyped, flags
<1>2. HandedOver'
  BY <1>11 DEF PipeAt, HandedOver, flags
<1>3. StagedFits'
  BY <1>12 DEF StagedFits
<1>4. DirectAt(shuffled, k)'
  BY <1>0, <1>11 DEF DirectAt, flags
<1>5. FedAt(shuffled, k)'
  BY <1>0, <1>8, <1>11, <1>12 DEF FedAt, flags
<1>6. SlotAt(shuffled, k)'
  BY <1>11 DEF PipeAt, SlotAt
<1>7. Steady
  BY <1>11 DEF Steady, Asking, Filling
<1> QED
  BY <1>1, <1>2, <1>3, <1>4, <1>5, <1>6, <1>7 DEF PipeAt

\* The engine fills the slots itself, and has a batch when they are full.
LEMMA FillDirectStep ==
    ASSUME NEW shuffled \in BOOLEAN, NEW k \in Nat, PipeAt(shuffled, k), FillDirect
    PROVE  \/ PipeAt(shuffled, k)' /\ Steady
           \/ PipeAt(shuffled, k + Batch)' /\ Taking(shuffled, k)
<1>0. ~threaded /\ consumer = "direct" /\ feeder = "none" /\ ~full
  BY DEF PipeAt, PipeTyped, HandedOver, FillDirect
<1>8. PICK m \in 0..(Batch - 1) : /\ slot = Slots(Records(shuffled, k, m))
                                 /\ data = At(shuffled, k + m)
  BY <1>0 DEF PipeAt, DirectAt
<1> DEFINE filled == Records(shuffled, k, m)
<1>9. slot.inputs = filled /\ slot.labels = filled /\ Len(slot.inputs) = m
  BY <1>8, RecordsAre DEF Slots
<1>10. PICK l \in (m + 1)..Batch :
          /\ Records(shuffled, k, m) \o Run(At(shuffled, k + m), Batch - m) =
                Records(shuffled, k, l)
          /\ AfterRun(At(shuffled, k + m), Batch - m) = At(shuffled, k + l)
  BY FillOnward
<1>11. /\ slot' = Slots(Records(shuffled, k, l)) /\ data' = At(shuffled, k + l)
       /\ IF Len(slot'.inputs) = Batch
             THEN consumer' = "ready" /\ consumed' = consumed + 1
             ELSE UNCHANGED <<consumer, consumed>>
       /\ UNCHANGED <<flags, stage_start, staged, feeder>>
  <2>1. /\ slot' = [inputs |-> filled \o Run(At(shuffled, k + m), Batch - m),
                    labels |-> filled \o Run(At(shuffled, k + m), Batch - m)]
        /\ data' = AfterRun(At(shuffled, k + m), Batch - m)
    BY <1>8, <1>9 DEF FillDirect
  <2> QED
    BY <2>1, <1>10 DEF FillDirect, Slots
<1>12. Len(slot'.inputs) = l /\ l \in Nat
  BY <1>11, RecordsAre, Constants DEF Slots
<1>13. StagedFits'
  BY <1>11 DEF PipeAt, StagedFits
<1>14. CASE l = Batch
  <2>0. consumer' = "ready" /\ consumed' = consumed + 1
    BY <1>11, <1>12, <1>14
  <2>1. PipeTyped'
    BY <2>0, <1>0, <1>11, SlotsAre, Constants DEF PipeAt, PipeTyped, flags, Consumers
  <2>2. HandedOver'
    BY <2>0, <1>0, <1>11 DEF PipeAt, HandedOver, flags, Consumers
  <2>3. DirectAt(shuffled, k + Batch)'
    BY <2>0, <1>11, <1>14 DEF DirectAt
  <2>4. FedAt(shuffled, k + Batch)' /\ SlotAt(shuffled, k + Batch)'
    BY <2>0, <1>0, <1>11 DEF FedAt, SlotAt, flags
  <2>5. Taking(shuffled, k)
    BY <2>0, <1>0, <1>11, <1>14 DEF Taking
  <2> QED
    BY <2>1, <2>2, <2>3, <2>4, <2>5, <1>13 DEF PipeAt
<1>15. CASE l # Batch
  <2>0. UNCHANGED <<consumer, consumed>> /\ l \in 0..(Batch - 1)
    <3>1. Len(slot'.inputs) # Batch
      BY <1>12, <1>15
    <3>2. l \in 0..(Batch - 1)
      BY <1>12, <1>15, Constants
    <3> QED
      BY <1>11, <3>1, <3>2
  <2>1. PipeTyped'
    BY <2>0, <1>11, SlotsAre DEF PipeAt, PipeTyped, flags
  <2>2. HandedOver'
    BY <2>0, <1>11 DEF PipeAt, HandedOver, flags
  <2>3. DirectAt(shuffled, k)'
    BY <2>0, <1>0, <1>11 DEF DirectAt
  <2>4. FedAt(shuffled, k)' /\ SlotAt(shuffled, k)'
    BY <2>0, <1>0, <1>11 DEF FedAt, SlotAt, flags
  <2>5. Steady
    BY <2>0, <1>0 DEF Steady, Asking, Filling
  <2> QED
    BY <2>1, <2>2, <2>3, <2>4, <2>5, <1>13 DEF PipeAt
<1> QED
  BY <1>14, <1>15

\* The engine has both halves of a batch and hands the buffers back.
LEMMA ReleaseStep ==
    ASSUME NEW shuffled \in BOOLEAN, NEW k \in Nat, PipeAt(shuffled, k), Release
    PROVE  PipeAt(shuffled, k + Batch)' /\ Taking(shuffled, k)
<1>0. /\ threaded /\ full /\ consumer = "release" /\ feeder \notin {"none", "stage", "fill"}
      /\ data = At(shuffled, k + Batch)
      /\ consumer' = "notify" /\ full' = FALSE /\ consumed' = consumed + 1
      /\ UNCHANGED <<data, threaded, stop, stage_start, staged, slot, feeder>>
  BY DEF PipeAt, PipeTyped, HandedOver, FedAt, Release, Consumers
<1>1. PipeTyped'
  <2>1. consumed' \in 0..MaxBatches
    BY <1>0, Constants DEF PipeAt, PipeTyped
  <2> QED
    BY <1>0, <2>1 DEF PipeAt, PipeTyped, Consumers
<1>2. HandedOver'
  BY <1>0 DEF PipeAt, HandedOver, Consumers
<1>3. StagedFits'
  BY <1>0 DEF PipeAt, StagedFits
<1>4. DirectAt(shuffled, k + Batch)' /\ FedAt(shuffled, k + Batch)'
  BY <1>0 DEF DirectAt, FedAt
<1>5. SlotAt(shuffled, k + Batch)'
  BY <1>0 DEF SlotAt
<1>6. Taking(shuffled, k)
  <2>1. /\ slot' = slot /\ slot.inputs = Records(shuffled, k, Batch)
        /\ slot.labels = Records(shuffled, k, Batch)
    BY <1>0 DEF PipeAt, SlotAt
  <2>2. slot = [inputs |-> slot.inputs, labels |-> slot.labels]
    BY DEF PipeAt, PipeTyped, AreSlots
  <2> QED
    BY <2>1, <2>2, <1>0 DEF Taking, Slots
<1> QED
  BY <1>1, <1>2, <1>3, <1>4, <1>5, <1>6 DEF PipeAt

\* The engine has joined the feeder, and a batch it never took is put back.
LEMMA JoinStep ==
    ASSUME NEW shuffled \in BOOLEAN, NEW k \in Nat, PipeAt(shuffled, k), Join
    PROVE  PipeAt(shuffled, k)' /\ Steady
<1>0. /\ threaded /\ consumer = "join" /\ feeder = "exited"
      /\ consumer' = "closed" /\ feeder' = "none"
      /\ UNCHANGED <<flags, stage_start, staged, slot, consumed>>
  BY DEF PipeAt, HandedOver, Join, Consumers
<1>1. data' = At(shuffled, k)
  <2>1. CASE full
    <3>1. data = At(shuffled, k + Batch) /\ stage_start = SaveServingPos(At(shuffled, k))
      BY <1>0, <2>1 DEF PipeAt, FedAt
    <3>2. data' = RestoreServingPos(data, stage_start)
      BY <2>1 DEF Join
    <3>3. k + Batch \in Nat
      BY Constants
    <3> QED
      BY <3>1, <3>2, <3>3, RestoresTo
  <2>2. CASE ~full
    BY <1>0, <2>2 DEF PipeAt, FedAt, Join
  <2> QED
    BY <2>1, <2>2
<1>2. PipeTyped'
  BY <1>0 DEF PipeAt, PipeTyped, flags, Consumers, Feeders
<1>3. HandedOver' /\ StagedFits'
  BY <1>0 DEF PipeAt, HandedOver, StagedFits, flags
<1>4. DirectAt(shuffled, k)' /\ FedAt(shuffled, k)' /\ SlotAt(shuffled, k)'
  BY <1>0, <1>1 DEF DirectAt, FedAt, SlotAt
<1>5. Steady
  BY <1>0 DEF Steady, Asking, Filling
<1> QED
  BY <1>2, <1>3, <1>4, <1>5 DEF PipeAt

\* Whatever the two threads do between two calls of the engine.
PipelineSteps == Take \/ NotifyStop \/ Join \/ FeederLoop

\* Every step a pipeline takes on its own leaves it where it stands, at record k.
LEMMA PipelineStep ==
    ASSUME NEW shuffled \in BOOLEAN, NEW k \in Nat, PipeAt(shuffled, k), PipelineSteps
    PROVE  \/ PipeAt(shuffled, k)' /\ Steady
           \/ PipeAt(shuffled, k + Batch)' /\ Taking(shuffled, k)
BY FeederWaitStep, StageStep, FillStep, PublishStep, FeederNotifyStep, FillDirectStep,
   ConsumerWaitStep, CopyInputsStep, CopyLabelsStep, ReleaseStep, ConsumerNotifyStep,
   NotifyStopStep, JoinStep
   DEF PipelineSteps, Take, FeederLoop

\* A pipeline is built, over a dataset no other one uses.
LEMMA ConstructStep ==
    ASSUME NEW shuffled \in BOOLEAN, NEW k \in Nat, PipeAt(shuffled, k), Construct
    PROVE  PipeAt(shuffled, k)'
<1>0. /\ consumer = "closed" /\ data = At(shuffled, k) /\ threaded' \in BOOLEAN
      /\ full' = FALSE /\ stop' = FALSE /\ staged' = <<>> /\ consumer' = "ready"
      /\ feeder' = IF threaded' THEN "wait" ELSE "none"
      /\ UNCHANGED <<data, stage_start, slot, consumed>>
  BY DEF PipeAt, DirectAt, Construct
<1>1. PipeTyped'
  BY <1>0 DEF PipeAt, PipeTyped, Consumers, Feeders
<1>2. HandedOver'
  BY <1>0 DEF HandedOver
<1>3. StagedFits'
  BY <1>0, Constants DEF StagedFits
<1>4. DirectAt(shuffled, k)' /\ FedAt(shuffled, k)' /\ SlotAt(shuffled, k)'
  BY <1>0 DEF DirectAt, FedAt, SlotAt
<1> QED
  BY <1>1, <1>2, <1>3, <1>4 DEF PipeAt

\* The engine asks a pipeline without a feeder.
LEMMA BeginDirectStep ==
    ASSUME NEW shuffled \in BOOLEAN, NEW k \in Nat, PipeAt(shuffled, k), BeginDirect
    PROVE  PipeAt(shuffled, k)' /\ consumed' = consumed /\ consumer' = "direct"
<1>0. /\ consumer = "ready" /\ ~threaded /\ consumed < MaxBatches
      /\ data = At(shuffled, k)
      /\ slot' = Slots(<<>>) /\ consumer' = "direct"
      /\ UNCHANGED <<data, flags, stage_start, staged, feeder, consumed>>
  BY DEF PipeAt, DirectAt, BeginDirect, Slots
<1>1. PipeTyped'
  BY <1>0, SlotsAre DEF PipeAt, PipeTyped, flags, Consumers
<1>2. HandedOver' /\ StagedFits'
  BY <1>0 DEF PipeAt, HandedOver, StagedFits, flags
<1>3. DirectAt(shuffled, k)'
  <2>1. /\ slot' = Slots(Records(shuffled, k, 0)) /\ data' = At(shuffled, k + 0)
        /\ 0 \in 0..(Batch - 1)
    BY <1>0, NoRecords, Constants
  <2> QED
    BY <2>1, <1>0 DEF DirectAt
<1>4. FedAt(shuffled, k)' /\ SlotAt(shuffled, k)'
  BY <1>0 DEF FedAt, SlotAt, flags
<1> QED
  BY <1>0, <1>1, <1>2, <1>3, <1>4 DEF PipeAt

\* The engine leaves, between two batches.
LEMMA DestroyStep ==
    ASSUME NEW shuffled \in BOOLEAN, NEW k \in Nat, PipeAt(shuffled, k), Destroy
    PROVE  /\ PipeAt(shuffled, k)' /\ consumed' = consumed /\ slot' = slot
           /\ consumer' \in {"stop", "closed"}
<1>0. /\ consumer = "ready" /\ UNCHANGED <<data, threaded, full, stage_start, staged, slot,
                                          feeder, consumed>>
      /\ stop' \in BOOLEAN
      /\ IF threaded THEN consumer' = "stop" ELSE consumer' = "closed"
  BY DEF PipeAt, PipeTyped, Destroy
<1>1. PipeTyped'
  BY <1>0 DEF PipeAt, PipeTyped, Consumers
<1>2. HandedOver' /\ StagedFits'
  BY <1>0 DEF PipeAt, PipeTyped, HandedOver, StagedFits, Consumers
<1>3. DirectAt(shuffled, k)' /\ FedAt(shuffled, k)' /\ SlotAt(shuffled, k)'
  BY <1>0 DEF PipeAt, PipeTyped, DirectAt, FedAt, SlotAt
<1> QED
  BY <1>0, <1>1, <1>2, <1>3 DEF PipeAt

-----------------------------------------------------------------------------
(* A pipeline by itself. *)

\* A dataset no pipeline has touched.
LEMMA StartsAt ==
    ASSUME NEW shuffled \in BOOLEAN, NEW k \in Nat, InitWith(At(shuffled, k))
    PROVE  PipeAt(shuffled, k) /\ consumed = 0 /\ slot = Slots(<<>>) /\ consumer = "closed"
<1>1. PipeTyped
  <2>1. stage_start \in Position
    BY Constants DEF InitWith, Position
  <2>2. slot = Slots(<<>>)
    BY DEF InitWith, Slots
  <2>3. AreSlots(slot)
    BY <2>2, SlotsAre
  <2>4. /\ threaded = FALSE /\ full = FALSE /\ stop = FALSE
        /\ consumer = "closed" /\ feeder = "none" /\ consumed = 0
    BY DEF InitWith
  <2>5. threaded \in BOOLEAN /\ full \in BOOLEAN /\ stop \in BOOLEAN
    BY <2>4
  <2>6. consumer \in Consumers /\ feeder \in Feeders
    BY <2>4 DEF Consumers, Feeders
  <2>7. consumed \in 0..MaxBatches
    BY <2>4, Constants
  <2>8. consumer \in {"direct", "wait", "parked", "copy", "labels", "release"} =>
            consumed < MaxBatches
    BY <2>4
  <2> QED
    BY <2>1, <2>3, <2>5, <2>6, <2>7, <2>8 DEF PipeTyped
<1>2. HandedOver /\ StagedFits
  BY Constants DEF InitWith, HandedOver, StagedFits
<1>3. DirectAt(shuffled, k) /\ FedAt(shuffled, k) /\ SlotAt(shuffled, k)
  BY DEF InitWith, DirectAt, FedAt, SlotAt
<1> QED
  BY <1>1, <1>2, <1>3 DEF PipeAt, InitWith, Slots

\* The two datasets a run may start with.
LEMMA LoadedAt ==
    /\ Loaded(NumSamples) = At(FALSE, 0)
    /\ EnableShuffle(Loaded(NumSamples)) = At(TRUE, 0)
<1>1. Loaded(NumSamples) = SerialPosition(NumSamples, FALSE, 0)
  BY Constants, FirstPositions
<1>2. EnableShuffle(SerialPosition(NumSamples, FALSE, 0)) = SerialPosition(NumSamples, TRUE, 0)
  <2>1. FALSE \in BOOLEAN /\ 0 \in Nat
    OBVIOUS
  <2> QED
    BY <2>1, Constants, FirstPositions
<1> QED
  BY <1>1, <1>2 DEF At

\* What the invariant says of a pipeline that has handed out its batches so far.
HandsOut(shuffled, c) ==
    /\ consumed = c
    /\ PipeAt(shuffled, c * Batch)
    /\ consumer \notin Filling => slot = Slots(LastBatch(shuffled, c))

\* A pipeline over a dataset just loaded stands at its first record.
LEMMA PipelineStarts == ASSUME Init PROVE PipelineInv
<1>1. PICK shuffled \in BOOLEAN : InitWith(At(shuffled, 0))
  BY LoadedAt DEF Init
<1>2. 0 * Batch = 0
  BY Constants
<1>3. PipeAt(shuffled, 0) /\ consumed = 0 /\ slot = Slots(<<>>)
  BY <1>1, StartsAt
<1> QED
  BY <1>2, <1>3 DEF PipelineInv, LastBatch

\* PipelineInv, with names for the sequence and for the batches taken.
LEMMA PipelineIs ==
    ASSUME PipelineInv
    PROVE  \E shuffled \in BOOLEAN, c \in Nat : HandsOut(shuffled, c)
<1>1. PICK shuffled \in BOOLEAN :
        /\ PipeAt(shuffled, consumed * Batch)
        /\ consumer \notin Filling => slot = Slots(LastBatch(shuffled, consumed))
  BY DEF PipelineInv
<1>2. consumed \in Nat
  BY <1>1 DEF PipeAt, PipeTyped
<1> QED
  BY <1>1, <1>2 DEF HandsOut

\* The names dropped again.
LEMMA HandsOutIs ==
    ASSUME NEW shuffled \in BOOLEAN, NEW c \in Nat, HandsOut(shuffled, c)
    PROVE  PipelineInv
BY DEF HandsOut, PipelineInv

\* Records one batch on.
LEMMA BatchOnward ==
    ASSUME NEW c \in Nat, NEW shuffled
    PROVE  /\ c * Batch \in Nat /\ c * Batch + Batch = (c + 1) * Batch
           /\ LastBatch(shuffled, c + 1) = Records(shuffled, c * Batch, Batch)
           /\ Records(shuffled, c * Batch, Batch) = SerialBatch(NumSamples, shuffled, Batch, c)
<1>1. c * Batch \in Nat /\ c * Batch + Batch = (c + 1) * Batch
  BY Constants
<1>2. c + 1 # 0 /\ (c + 1) - 1 = c
  OBVIOUS
<1> QED
  BY <1>1, <1>2 DEF LastBatch, Records, SerialBatch

\* Every step goes on with the same sequence, and a batch is handed out or not.
LEMMA HandsOutStep ==
    ASSUME NEW shuffled \in BOOLEAN, NEW c \in Nat, HandsOut(shuffled, c), Next
    PROVE  \/ HandsOut(shuffled, c)'
           \/ /\ HandsOut(shuffled, c + 1)' /\ Taking(shuffled, c * Batch)
              /\ consumer # "closed" /\ consumer' # "closed"
<1> DEFINE k == c * Batch
<1>1. /\ k \in Nat /\ PipeAt(shuffled, k) /\ consumed = c
      /\ consumer \notin Filling => slot = Slots(LastBatch(shuffled, c))
  BY BatchOnward DEF HandsOut
<1>2. k + Batch = (c + 1) * Batch /\ LastBatch(shuffled, c + 1) = Records(shuffled, k, Batch)
  BY BatchOnward
<1> HIDE DEF k
<1>3. ASSUME PipeAt(shuffled, k)', consumed' = consumed,
             consumer' \notin Filling => consumer \notin Filling /\ slot' = slot
      PROVE  HandsOut(shuffled, c)'
  BY <1>1, <1>3 DEF HandsOut, k
<1>4. CASE PipelineSteps
  <2>1. CASE PipeAt(shuffled, k)' /\ Steady
    BY <2>1, <1>3 DEF Steady
  <2>2. CASE PipeAt(shuffled, k + Batch)' /\ Taking(shuffled, k)
    <3>1. HandsOut(shuffled, c + 1)'
      BY <2>2, <1>1, <1>2 DEF HandsOut, Taking
    <3> QED
      BY <3>1, <2>2 DEF Taking, k
  <2> QED
    BY <1>1, <1>4, <2>1, <2>2, PipelineStep
<1>5. CASE Construct
  BY <1>1, <1>3, <1>5, ConstructStep DEF Construct, Filling
<1>6. CASE BeginDirect
  BY <1>1, <1>3, <1>6, BeginDirectStep DEF Filling
<1>7. CASE NextBatch
  BY <1>1, <1>3, <1>7, NextBatchStep DEF Filling, NextBatch
<1>8. CASE Destroy
  BY <1>1, <1>3, <1>8, DestroyStep DEF Filling, Destroy
<1> QED
  BY <1>4, <1>5, <1>6, <1>7, <1>8 DEF Next, PipelineSteps

\* A step that changes nothing moves no pipeline.
LEMMA Unmoved ==
    ASSUME NEW shuffled \in BOOLEAN, NEW k \in Nat, PipeAt(shuffled, k), UNCHANGED vars
    PROVE  PipeAt(shuffled, k)'
BY DEF vars, flags, PipeAt, PipeTyped, AreSlots, HandedOver, StagedFits, DirectAt, FedAt,
   SlotAt

\* At every moment the pipeline stands where the batches handed out end, in the
\* sequence its dataset serves (batch_pipeline.cc:9-79).
THEOREM PipelineInvariant == Spec => []PipelineInv
<1>1. Init => PipelineInv
  BY PipelineStarts
<1>2. PipelineInv /\ [Next]_vars => PipelineInv'
  <2> SUFFICES ASSUME PipelineInv, [Next]_vars PROVE PipelineInv'
    OBVIOUS
  <2>1. PICK shuffled \in BOOLEAN, c \in Nat : HandsOut(shuffled, c)
    BY PipelineIs
  <2>2. \E d \in Nat : HandsOut(shuffled, d)'
    <3>1. CASE Next
      <4>1. c + 1 \in Nat
        OBVIOUS
      <4> QED
        BY <3>1, <2>1, <4>1, HandsOutStep
    <3>2. CASE UNCHANGED vars
      <4>1. c * Batch \in Nat
        BY BatchOnward
      <4>2. PipeAt(shuffled, c * Batch)'
        BY <4>1, <3>2, <2>1, Unmoved DEF HandsOut
      <4>3. HandsOut(shuffled, c)'
        BY <4>2, <3>2, <2>1 DEF HandsOut, vars
      <4> QED
        BY <4>3
    <3> QED
      BY <3>1, <3>2
  <2>3. PICK d \in Nat : HandsOut(shuffled, d)'
    BY <2>2
  <2> QED
    BY <2>3 DEF HandsOut, PipelineInv
<1> QED
  BY <1>1, <1>2, PTL DEF Spec

\* Wherever a pipeline stands, its dataset is at a serial position.
LEMMA DataIs ==
    ASSUME NEW shuffled \in BOOLEAN, NEW k \in Nat, PipeAt(shuffled, k)
    PROVE  data \in Datasets(NumSamples) /\ (data.order # 0) = shuffled
<1>1. PICK m \in Nat : data = At(shuffled, k + m)
  <2>1. CASE (~threaded \/ consumer = "closed") /\ consumer # "direct"
    <3>1. data = At(shuffled, k + 0)
      BY <2>1 DEF PipeAt, DirectAt
    <3> QED
      BY <3>1
  <2>2. CASE (~threaded \/ consumer = "closed") /\ consumer = "direct"
    BY <2>2 DEF PipeAt, DirectAt
  <2>3. CASE threaded /\ consumer # "closed" /\ full
    BY <2>3, Constants DEF PipeAt, FedAt
  <2>4. CASE threaded /\ consumer # "closed" /\ ~full /\ feeder = "fill"
    BY <2>4, Constants DEF PipeAt, FedAt
  <2>5. CASE threaded /\ consumer # "closed" /\ ~full /\ feeder # "fill"
    <3>1. data = At(shuffled, k + 0)
      BY <2>5 DEF PipeAt, FedAt
    <3> QED
      BY <3>1
  <2> QED
    BY <2>1, <2>2, <2>3, <2>4, <2>5
<1>2. k + m \in Nat
  OBVIOUS
<1> QED
  BY <1>1, <1>2, AtIs

\* Every variable of a pipeline holds a value of its type.
THEOREM PipelineIsTyped == Spec => []TypeOK
<1>1. PipelineInv => TypeOK
  <2> SUFFICES ASSUME PipelineInv PROVE TypeOK
    OBVIOUS
  <2>1. PICK shuffled \in BOOLEAN, c \in Nat : HandsOut(shuffled, c)
    BY PipelineIs
  <2>2. c * Batch \in Nat
    BY BatchOnward
  <2>3. data \in Datasets(NumSamples)
    BY <2>1, <2>2, DataIs DEF HandsOut
  <2>4. PipeTyped /\ StagedFits
    BY <2>1 DEF HandsOut, PipeAt
  <2> QED
    BY <2>3, <2>4, Constants DEF TypeOK, PipeTyped, StagedFits, Consumers, Feeders
<1> QED
  BY <1>1, PipelineInvariant, PTL

\* The staging buffers are handed back and forth: the engine copies out of them only
\* while the feeder is not staging.
THEOREM BuffersAreHandedOver == Spec => []StagingIsHandedOver
<1>1. PipelineInv => StagingIsHandedOver
  BY DEF PipelineInv, PipeAt, HandedOver, StagingIsHandedOver
<1> QED
  BY <1>1, PipelineInvariant, PTL

\* What a serial feed shows of a pipeline: slots half filled are not seen, nor a dataset
\* that a pipeline uses.
SlotSeen ==
    IF consumer \in {"direct", "copy", "labels", "release"}
      THEN IF consumed = 0 THEN [inputs |-> <<>>, labels |-> <<>>]
           ELSE [inputs |-> SerialBatch(NumSamples, Shuffled, Batch, consumed - 1),
                 labels |-> SerialBatch(NumSamples, Shuffled, Batch, consumed - 1)]
      ELSE slot
DatasetSeen ==
    IF consumer = "closed" THEN data
    ELSE SerialPosition(NumSamples, Shuffled, consumed * Batch)

Seen(shuffled, c) ==
    /\ Shuffled = shuffled /\ consumed = c
    /\ SlotSeen = Slots(LastBatch(shuffled, c)) /\ DatasetSeen = At(shuffled, c * Batch)

\* A pipeline that has handed out c batches shows the serial feed after c batches.
LEMMA WhatIsSeen ==
    \A shuffled \in BOOLEAN, c \in Nat : HandsOut(shuffled, c) => Seen(shuffled, c)
<1> SUFFICES ASSUME NEW shuffled \in BOOLEAN, NEW c \in Nat, HandsOut(shuffled, c)
             PROVE  Seen(shuffled, c)
  OBVIOUS
<1>5. HandsOut(shuffled, c)
  OBVIOUS
<1>1. c * Batch \in Nat /\ PipeAt(shuffled, c * Batch) /\ consumed = c
  BY <1>5, BatchOnward DEF HandsOut
<1>2. Shuffled = shuffled
  BY <1>1, DataIs DEF Shuffled
<1>3. DatasetSeen = At(shuffled, c * Batch)
  BY <1>1, <1>2 DEF PipeAt, DirectAt, At, DatasetSeen
<1>4. SlotSeen = Slots(LastBatch(shuffled, c))
  <2>1. CASE consumer \in Filling
    <3>1. CASE c = 0
      BY <2>1, <3>1, <1>1 DEF Filling, LastBatch, Slots, SlotSeen
    <3>2. CASE c # 0
      <4>1. c - 1 \in Nat /\ (c - 1) + 1 = c
        BY <3>2
      <4>2. LastBatch(shuffled, c) = SerialBatch(NumSamples, shuffled, Batch, c - 1)
        BY <4>1, BatchOnward
      <4> QED
        BY <2>1, <3>2, <4>2, <1>1, <1>2 DEF Filling, Slots, SlotSeen
    <3> QED
      BY <3>1, <3>2
  <2>2. CASE consumer \notin Filling
    BY <2>2, <1>5 DEF Filling, HandsOut, SlotSeen
  <2> QED
    BY <2>1, <2>2
<1> QED
  BY <1>1, <1>2, <1>3, <1>4 DEF Seen

\* The serial feed serves the sequence of this dataset.
LEMMA FeedIsOfDataset ==
    /\ Feed!Loaded(NumSamples) = Loaded(NumSamples)
    /\ Feed!EnableShuffle(Feed!Loaded(NumSamples)) = EnableShuffle(Loaded(NumSamples))
    /\ \A shuffled, c : Feed!SerialBatch(NumSamples, shuffled, Batch, c) =
                            SerialBatch(NumSamples, shuffled, Batch, c)
    /\ \A shuffled, k : Feed!SerialPosition(NumSamples, shuffled, k) =
                            SerialPosition(NumSamples, shuffled, k)
<1>1. Feed!Loaded(NumSamples) = Loaded(NumSamples)
  BY Zenon DEF Feed!Loaded, Loaded
<1>2. Feed!EnableShuffle(Feed!Loaded(NumSamples)) = EnableShuffle(Loaded(NumSamples))
  BY <1>1, Zenon DEF Feed!EnableShuffle, EnableShuffle, Feed!Reshuffle, Reshuffle,
                     Feed!shuffle_origin, shuffle_origin
<1>3. ASSUME NEW shuffled, NEW c
      PROVE  Feed!SerialBatch(NumSamples, shuffled, Batch, c) =
                SerialBatch(NumSamples, shuffled, Batch, c)
  BY Zenon DEF Feed!SerialBatch, SerialBatch, Feed!SerialRecord, SerialRecord,
               Feed!shuffle_origin, shuffle_origin
<1>4. ASSUME NEW shuffled, NEW k
      PROVE  Feed!SerialPosition(NumSamples, shuffled, k) =
                SerialPosition(NumSamples, shuffled, k)
  BY Zenon DEF Feed!SerialPosition, SerialPosition, Feed!shuffle_origin, shuffle_origin
<1> QED
  BY <1>1, <1>2, <1>3, <1>4

\* A pipeline serves the serial batch sequence at any thread count, and a dataset no
\* pipeline uses stands where the last batch taken left it.
THEOREM PipelineIsSerial == Spec => ImplementsSerialFeed
<1>1. Init => Feed!Init
  BY FeedIsOfDataset DEF Init, InitWith, Feed!Init
<1>2. (\A shuffled \in BOOLEAN, c \in Nat : HandsOut(shuffled, c) => Seen(shuffled, c))'
  BY WhatIsSeen, PTL
<1>3. PipelineInv /\ [Next]_vars => [Feed!Next]_(Feed!svars)
  <2> SUFFICES ASSUME PipelineInv, [Next]_vars PROVE [Feed!Next]_(Feed!svars)
    OBVIOUS
  <2>1. CASE UNCHANGED vars
    BY <2>1 DEF vars, Feed!svars, Shuffled
  <2>2. CASE Next
    <3>1. PICK shuffled \in BOOLEAN, c \in Nat : HandsOut(shuffled, c)
      BY PipelineIs
    <3>2. Seen(shuffled, c)
      BY <3>1, WhatIsSeen
    <3>3. CASE HandsOut(shuffled, c)'
      <4>1. Seen(shuffled, c)'
        BY <3>3, <1>2
      <4>2. UNCHANGED <<consumed, SlotSeen, DatasetSeen>>
        BY <3>2, <4>1 DEF Seen
      <4>3. \/ consumer # "closed" /\ consumer' # "closed"
            \/ consumer = "closed" /\ consumer' # "closed"
            \/ consumer # "closed" /\ consumer' = "closed"
            \/ consumer = "closed" /\ consumer' = "closed"
        OBVIOUS
      <4> QED
        BY <4>2, <4>3 DEF SlotSeen, DatasetSeen, Feed!svars, Feed!Next, Feed!Open,
           Feed!Close
    <3>4. CASE /\ HandsOut(shuffled, c + 1)' /\ Taking(shuffled, c * Batch)
               /\ consumer # "closed" /\ consumer' # "closed"
      <4>1. c + 1 \in Nat
        OBVIOUS
      <4>2. Seen(shuffled, c + 1)'
        BY <3>4, <4>1, <1>2
      <4> DEFINE records == SerialBatch(NumSamples, shuffled, Batch, c)
      <4>3. SlotSeen' = Slots(records)
        BY <4>2, BatchOnward DEF Seen
      <4>4. DatasetSeen' = SerialPosition(NumSamples, shuffled, (c + 1) * Batch)
        BY <4>2 DEF Seen, At
      <4>5. consumed = c /\ consumed' = c + 1
        BY <3>2, <4>2 DEF Seen
      <4>6. Feed!Shuffled = shuffled
        <5>1. DatasetSeen = At(shuffled, c * Batch) /\ c * Batch \in Nat
          BY <3>2, BatchOnward DEF Seen
        <5>2. (DatasetSeen.order # 0) = shuffled
          BY <5>1, AtIs
        <5> QED
          BY <5>2 DEF Feed!Shuffled, DatasetSeen
      <4>7. Feed!Take
        <5>1. /\ Feed!SerialBatch(NumSamples, shuffled, Batch, c) = records
              /\ Feed!SerialPosition(NumSamples, shuffled, (c + 1) * Batch) =
                    SerialPosition(NumSamples, shuffled, (c + 1) * Batch)
          BY FeedIsOfDataset
        <5>2. Slots(records) = [inputs |-> records, labels |-> records]
          BY DEF Slots
        <5> HIDE DEF records
        <5> QED
          BY <3>4, <4>3, <4>4, <4>5, <4>6, <5>1, <5>2
             DEF Feed!Take, SlotSeen, DatasetSeen
      <4> QED
        BY <4>7 DEF Feed!Next
    <3> QED
      BY <2>2, <3>1, <3>3, <3>4, HandsOutStep
  <2> QED
    BY <2>1, <2>2
<1> QED
  BY <1>1, <1>3, PipelineInvariant, PTL DEF Spec, ImplementsSerialFeed, Feed!Spec

-----------------------------------------------------------------------------
(* A pass. *)

\* The batches of a pass reach the end of the set, and none begins past it.
LEMMA BatchesAre ==
    /\ batches \in Nat \ {0} /\ NumSamples <= batches * Batch
    /\ \A c \in Nat : c < batches => c * Batch < NumSamples
<1> DEFINE s == NumSamples + Batch - 1
           q == s \div Batch
           r == s % Batch
<1>1. s \in Nat
  BY Constants
<1>2. q \in Nat /\ r \in 0..(Batch - 1) /\ s = Batch * q + r
  BY <1>1, Constants, Division
<1>3. batches = Max({1, q})
  BY DEF batches
<1> HIDE DEF q, r
<1>4. q >= 1
  <2> SUFFICES ASSUME q = 0 PROVE FALSE
    BY <1>2
  <2>1. Batch * q = 0
    BY Constants
  <2> QED
    BY <2>1, <1>2, Constants
<1>5. batches = q
  <2>1. \E x \in {1, q} : \A y \in {1, q} : x >= y
    BY <1>2, <1>4
  <2>2. Max({1, q}) \in {1, q} /\ \A y \in {1, q} : Max({1, q}) >= y
    BY <2>1 DEF Max
  <2> QED
    BY <2>2, <1>2, <1>3, <1>4
<1>6. NumSamples <= q * Batch
  <2>1. q * Batch = Batch * q /\ Batch * q \in Nat
    BY <1>2, Constants
  <2> QED
    BY <2>1, <1>2, Constants
<1>7. ASSUME NEW c \in Nat, c < q PROVE c * Batch < NumSamples
  <2>1. Batch * c + Batch <= Batch * q
    BY <1>2, <1>7, Constants, ProductsApart
  <2>2. c * Batch = Batch * c /\ Batch * c \in Nat /\ Batch * q \in Nat
    BY <1>2, Constants
  <2> QED
    BY <2>1, <2>2, <1>2, Constants
<1> QED
  BY <1>2, <1>4, <1>5, <1>6, <1>7

\* The lesser of two numbers.
LEMMA LesserOf ==
    ASSUME NEW x \in Int, NEW y \in Int
    PROVE  Min({x, y}) = IF x <= y THEN x ELSE y
<1>1. \E z \in {x, y} : \A w \in {x, y} : z <= w
  OBVIOUS
<1>2. Min({x, y}) \in {x, y} /\ \A w \in {x, y} : Min({x, y}) <= w
  BY <1>1 DEF Min
<1> QED
  BY <1>2

\* The records of an epoch, counted from its top.
LEMMA OfTheEpoch ==
    ASSUME NEW shuffled \in BOOLEAN, NEW k \in Nat, NEW i \in 0..(NumSamples - 1)
    PROVE  /\ Top(k) \in Nat
           /\ SerialRecord(NumSamples, shuffled, Top(k) + i) =
                <<OrderAt(NumSamples, shuffled, k), i>>
<1> DEFINE q == k \div NumSamples
<1>1. q \in Nat
  BY Constants, Division
<1>2. Top(k) = NumSamples * q
  BY DEF Top
<1> HIDE DEF q
<1>3. (NumSamples * q + i) \div NumSamples = q /\ (NumSamples * q + i) % NumSamples = i
  BY <1>1, Constants, DivisionIs
<1>4. NumSamples * q \in Nat
  BY <1>1, Constants
<1> QED
  BY <1>2, <1>3, <1>4 DEF SerialRecord, OrderAt, q

\* A batch executed adds the rows of its real samples to those that count: the
\* duplicates at the end of the last one do not (update_engine.cc:699-712).
LEMMA JudgedOnward ==
    ASSUME NEW shuffled \in BOOLEAN, NEW k \in Nat, NEW c \in Nat, c < batches,
           NEW records, records = Records(shuffled, Top(k) + c * Batch, Batch)
    PROVE  Judged(shuffled, k, c) \o
                SubSeq(records, 1, Min({Batch, NumSamples - c * Batch})) =
           Judged(shuffled, k, c + 1)
<1> DEFINE m == c * Batch
           o == OrderAt(NumSamples, shuffled, k)
           r == Min({Batch, NumSamples - m})
           l == Min({(c + 1) * Batch, NumSamples})
           old == Judged(shuffled, k, c)
           part == SubSeq(records, 1, r)
<1>1. m \in Nat /\ m < NumSamples /\ (c + 1) * Batch = m + Batch
  BY BatchesAre, Constants
<1>2. Min({m, NumSamples}) = m
  BY <1>1, LesserOf, Constants
<1>3. r = IF Batch <= NumSamples - m THEN Batch ELSE NumSamples - m
  BY <1>1, LesserOf, Constants
<1>4. l = IF m + Batch <= NumSamples THEN m + Batch ELSE NumSamples
  BY <1>1, LesserOf, Constants
<1>5. /\ old = [i \in 1..m |-> <<o, i - 1>>]
      /\ Judged(shuffled, k, c + 1) = [i \in 1..l |-> <<o, i - 1>>]
  BY <1>2 DEF Judged
<1>6. o \in Nat /\ Top(k) \in Nat
  <2>1. 0 \in 0..(NumSamples - 1)
    BY Constants
  <2> QED
    BY <2>1, Constants, PositionTypes, OfTheEpoch
<1> HIDE DEF m, o, r, l, old
<1>7. r \in 1..Batch /\ r <= NumSamples - m /\ l = m + r
  BY <1>1, <1>3, <1>4, Constants
<1>8. records \in Seq(Nat \X Nat) /\ Len(records) = Batch
  <2>1. Top(k) + m \in Nat /\ Batch \in Nat
    BY <1>1, <1>6, Constants
  <2> QED
    BY <2>1, RecordsAre DEF m
<1>9. ASSUME NEW i \in 1..r PROVE records[i] = <<o, m + i - 1>>
  <2>1. records[i] = SerialRecord(NumSamples, shuffled, (Top(k) + m) + i - 1)
    BY <1>7, Constants DEF Records, m
  <2>2. m + i - 1 \in 0..(NumSamples - 1) /\ (Top(k) + m) + i - 1 = Top(k) + (m + i - 1)
    BY <1>1, <1>6, <1>7, Constants
  <2> DEFINE j == m + i - 1
  <2> HIDE DEF j
  <2>3. SerialRecord(NumSamples, shuffled, Top(k) + j) = <<o, j>>
    BY <2>2, OfTheEpoch DEF j, o
  <2> QED
    BY <2>1, <2>2, <2>3 DEF j
<1>10. part \in Seq(Nat \X Nat) /\ Len(part) = r
  <2>1. r \in 1..Len(records) /\ r \in Nat
    BY <1>7, <1>8, Constants
  <2>2. SubSeq(records, 1, r) \in Seq(Nat \X Nat)
    <3>1. \A i \in 1..r : records[i] \in Nat \X Nat
      BY <1>8, <2>1
    <3> QED
      BY <1>8, <2>1, <3>1
  <2>3. Len(SubSeq(records, 1, r)) = r
    BY <1>8, <2>1
  <2> QED
    BY <2>2, <2>3
<1>11. ASSUME NEW i \in 1..r PROVE part[i] = <<o, m + i - 1>>
  <2>1. part[i] = records[i]
    BY <1>7, <1>8, Constants
  <2> QED
    BY <2>1, <1>9
<1>12. old \in Seq(Nat \X Nat) /\ Len(old) = m /\ \A i \in 1..m : old[i] = <<o, i - 1>>
  BY <1>1, <1>5, <1>6
<1> HIDE DEF part
<1> DEFINE joined == old \o part
<1>13. joined = [i \in 1..(m + r) |-> joined[i]]
  BY <1>10, <1>12, Joined
<1>14. \A i \in 1..m : joined[i] = old[i]
  BY <1>10, <1>12
<1>15. \A i \in 1..r : joined[m + i] = part[i]
  BY <1>10, <1>12
<1> HIDE DEF joined
<1>16. ASSUME NEW i \in 1..(m + r) PROVE joined[i] = <<o, i - 1>>
  <2>1. CASE i <= m
    <3>1. i \in 1..m
      BY <2>1, <1>1
    <3> QED
      BY <3>1, <1>12, <1>14
  <2>2. CASE i > m
    <3>1. i - m \in 1..r /\ m + (i - m) = i /\ m + (i - m) - 1 = i - 1
      BY <2>2, <1>1, <1>7
    <3>2. joined[m + (i - m)] = <<o, m + (i - m) - 1>>
      BY <3>1, <1>11, <1>15
    <3> QED
      BY <3>1, <3>2
  <2> QED
    BY <2>1, <2>2, <1>1
<1>17. joined = [i \in 1..l |-> <<o, i - 1>>]
  BY <1>7, <1>13, <1>16
<1> QED
  BY <1>5, <1>17 DEF joined, old, part, r, m

\* No batch, no row; all batches, every row.
LEMMA JudgedEnds ==
    ASSUME NEW shuffled, NEW k
    PROVE  /\ Judged(shuffled, k, 0) = <<>>
           /\ Judged(shuffled, k, batches) =
                [i \in 1..NumSamples |-> <<OrderAt(NumSamples, shuffled, k), i - 1>>]
<1>1. Min({0 * Batch, NumSamples}) = 0
  BY Constants, LesserOf
<1>2. Min({batches * Batch, NumSamples}) = NumSamples
  <2>1. batches * Batch \in Int /\ NumSamples <= batches * Batch
    BY Constants, BatchesAre
  <2> QED
    BY <2>1, Constants, LesserOf
<1>3. Judged(shuffled, k, 0) = <<>>
  <2>1. Judged(shuffled, k, 0) = [i \in 1..0 |-> <<OrderAt(NumSamples, shuffled, k), i - 1>>]
    BY <1>1 DEF Judged
  <2> QED
    BY <2>1
<1>4. Judged(shuffled, k, batches) =
        [i \in 1..NumSamples |-> <<OrderAt(NumSamples, shuffled, k), i - 1>>]
  BY <1>2, Zenon DEF Judged
<1> QED
  BY <1>3, <1>4

\* Who uses no pipeline may move the dataset.
LEMMA ClosedMoves ==
    ASSUME NEW shuffled \in BOOLEAN, NEW k \in Nat, NEW j \in Nat, PipeAt(shuffled, k),
           consumer = "closed", data' = At(shuffled, j),
           UNCHANGED <<flags, stage_start, staged, slot, consumer, feeder, consumed>>
    PROVE  PipeAt(shuffled, j)'
<1>1. PipeTyped' /\ HandedOver' /\ StagedFits'
  BY DEF PipeAt, PipeTyped, HandedOver, StagedFits, flags, AreSlots
<1>2. DirectAt(shuffled, j)' /\ FedAt(shuffled, j)' /\ SlotAt(shuffled, j)'
  BY DEF DirectAt, FedAt, SlotAt
<1> QED
  BY <1>1, <1>2 DEF PipeAt

\* Rewind goes to the first record of the epoch (dataset.h:100).
LEMMA TopIs ==
    ASSUME NEW shuffled \in BOOLEAN, NEW k \in Nat
    PROVE  Top(k) \in Nat /\ Rewind(At(shuffled, k)) = At(shuffled, Top(k))
<1>1. Rewind(At(shuffled, k)) = At(shuffled, k - (k % NumSamples))
  BY Constants, Rewinds DEF At
<1>2. k - (k % NumSamples) = Top(k) /\ k - (k % NumSamples) \in Nat
  BY Constants, DivisionBack DEF Top
<1> QED
  BY <1>1, <1>2

\* Where the c-th batch of a pass begins.
LEMMA PlaceIs ==
    ASSUME NEW k \in Nat, NEW c \in Nat
    PROVE  /\ Top(k) + c * Batch \in Nat /\ Top(k) + (c + 1) * Batch \in Nat
           /\ (Top(k) + c * Batch) + Batch = Top(k) + (c + 1) * Batch
           /\ Top(k) + 0 * Batch = Top(k)
<1>1. Top(k) \in Nat
  <2>1. TRUE \in BOOLEAN
    OBVIOUS
  <2> QED
    BY <2>1, TopIs
<1>2. c * Batch \in Nat /\ (c + 1) * Batch = c * Batch + Batch /\ 0 * Batch = 0
  BY Constants
<1> QED
  BY <1>1, <1>2, Constants

\* A process starts between passes, at any record.
LEMMA PassStarts == ASSUME EvalInit PROVE PassInv
<1>1. PICK shuffled \in BOOLEAN, k \in 0..MaxStart : InitWith(At(shuffled, k))
  BY DEF EvalInit, At
<1>2. k \in Nat
  OBVIOUS
<1>3. PipeAt(shuffled, k) /\ consumer = "closed"
  BY <1>1, <1>2, StartsAt
<1>4. engine = "idle" /\ passes = 0 /\ b = 0
  BY DEF EvalInit
<1>5. PassAt(shuffled, k)
  BY <1>3, <1>4 DEF PassAt, PassTyped, RestsAt, GoesAt
<1> QED
  BY <1>2, <1>5 DEF PassInv

\* The set is entered at record k, rewound, and asked for its first batch.
LEMMA BeginStep ==
    ASSUME NEW shuffled \in BOOLEAN, NEW k \in Nat, PassAt(shuffled, k), Begin
    PROVE  PassAt(shuffled, k)'
<1>1. /\ engine = "idle" /\ consumer = "closed" /\ PipeAt(shuffled, k) /\ passes \in Nat
      /\ data = At(shuffled, k)
  BY DEF PassAt, PassTyped, RestsAt, Begin, PipeAt, DirectAt
<1>2. /\ data' = At(shuffled, Top(k)) /\ Top(k) \in Nat
      /\ entry_pos' = SaveServingPos(At(shuffled, k)) /\ entry' = At(shuffled, k)
      /\ engine' = "construct" /\ b' = 0 /\ judged' = <<>> /\ passes' = passes + 1
      /\ UNCHANGED <<flags, stage_start, staged, slot, consumer, feeder, consumed>>
  BY <1>1, TopIs DEF Begin
<1>3. PipeAt(shuffled, Top(k))'
  BY <1>1, <1>2, ClosedMoves
<1>4. PassTyped'
  BY <1>1, <1>2 DEF PassTyped
<1>5. GoesAt(shuffled, k)'
  <2>1. Top(k) + 0 * Batch = Top(k) /\ Judged(shuffled, k, 0) = <<>>
    <3>1. 0 \in Nat
      OBVIOUS
    <3> QED
      BY <3>1, PlaceIs, JudgedEnds
  <2>2. ~Taken' /\ b' = 0 /\ passes' \in Nat
    BY <1>1, <1>2 DEF Taken
  <2> QED
    BY <1>2, <1>3, <2>1, <2>2 DEF GoesAt
<1> QED
  BY <1>2, <1>4, <1>5 DEF PassAt, RestsAt

\* The pipeline is made over the rewound dataset.
LEMMA MakePipelineStep ==
    ASSUME NEW shuffled \in BOOLEAN, NEW k \in Nat, PassAt(shuffled, k), MakePipeline
    PROVE  PassAt(shuffled, k)'
<1>1. /\ engine = "construct" /\ b = 0 /\ engine' = "next" /\ consumer' = "ready"
      /\ UNCHANGED <<entry_pos, b, passes, entry, judged>> /\ Construct
  BY DEF PassAt, PassTyped, MakePipeline, Construct
<1>2. PipeAt(shuffled, Top(k) + b * Batch) /\ Top(k) + b * Batch \in Nat
  BY <1>1, PlaceIs DEF PassAt, GoesAt, Taken
<1>3. PipeAt(shuffled, Top(k) + b * Batch)'
  <2>1. PICK p \in Nat : p = Top(k) + b * Batch
    BY <1>2
  <2>2. PipeAt(shuffled, p)'
    BY <1>1, <1>2, <2>1, ConstructStep
  <2> QED
    BY <1>1, <2>1, <2>2
<1>4. PassTyped'
  BY <1>1, BatchesAre DEF PassTyped
<1>5. GoesAt(shuffled, k)'
  BY <1>1, <1>3 DEF PassAt, GoesAt, Taken
<1> QED
  BY <1>1, <1>4, <1>5 DEF PassAt, RestsAt

\* The next batch is asked for.
LEMMA AskBatchStep ==
    ASSUME NEW shuffled \in BOOLEAN, NEW k \in Nat, PassAt(shuffled, k), AskBatch
    PROVE  PassAt(shuffled, k)'
<1>1. /\ engine = "next" /\ b < batches /\ b \in Nat /\ engine' = "batch"
      /\ UNCHANGED <<entry_pos, b, passes, entry, judged>> /\ (BeginDirect \/ NextBatch)
  BY DEF PassAt, PassTyped, AskBatch
<1>2. PICK p \in Nat : p = Top(k) + b * Batch /\ PipeAt(shuffled, p)
  BY <1>1, PlaceIs DEF PassAt, GoesAt, Taken
<1>3. PipeAt(shuffled, p)' /\ consumer' \in {"direct", "wait"}
  BY <1>1, <1>2, BeginDirectStep, NextBatchStep
<1>4. PassTyped'
  BY <1>1, <1>3 DEF PassTyped
<1>5. GoesAt(shuffled, k)'
  <2>1. ~Taken' /\ b' = b
    BY <1>1, <1>3 DEF Taken
  <2> QED
    BY <1>1, <1>2, <1>3, <2>1 DEF PassAt, GoesAt
<1> QED
  BY <1>1, <1>4, <1>5 DEF PassAt, RestsAt

\* A batch is executed and its real rows scored.
LEMMA ExecuteStep ==
    ASSUME NEW shuffled \in BOOLEAN, NEW k \in Nat, PassAt(shuffled, k), Execute
    PROVE  PassAt(shuffled, k)'
<1>1. /\ engine = "batch" /\ consumer = "ready" /\ Taken /\ b \in Nat /\ b < batches
      /\ UNCHANGED vars /\ UNCHANGED <<entry_pos, passes, entry>>
      /\ b' = b + 1 /\ engine' = IF b + 1 = batches THEN "leave" ELSE "next"
  BY DEF PassAt, PassTyped, Execute, Taken
<1>2. PICK c \in Nat : c = b
  BY <1>1
<1>3. /\ PipeAt(shuffled, Top(k) + (c + 1) * Batch)
      /\ slot.inputs = Records(shuffled, Top(k) + c * Batch, Batch)
      /\ judged = Judged(shuffled, k, c)
  BY <1>1, <1>2 DEF PassAt, GoesAt
<1>4. judged' = Judged(shuffled, k, c + 1)
  <2>1. judged' = judged \o SubSeq(slot.inputs, 1, Min({Batch, NumSamples - c * Batch}))
    BY <1>2 DEF Execute, RealSamples
  <2> QED
    BY <1>1, <1>2, <1>3, <2>1, JudgedOnward
<1>5. PICK p \in Nat : p = Top(k) + (c + 1) * Batch
  BY PlaceIs
<1>6. PipeAt(shuffled, p)'
  BY <1>1, <1>3, <1>5, Unmoved
<1>7. PassTyped'
  BY <1>1, BatchesAre DEF PassTyped, vars
<1>8. GoesAt(shuffled, k)'
  <2>1. ~Taken' /\ b' = c + 1 /\ engine' # "idle"
    BY <1>1, <1>2 DEF Taken
  <2> QED
    BY <1>1, <1>4, <1>5, <1>6, <2>1 DEF PassAt, GoesAt
<1> QED
  BY <1>1, <1>7, <1>8 DEF PassAt, RestsAt

\* The pipeline is destroyed after the last batch.
LEMMA LeaveStep ==
    ASSUME NEW shuffled \in BOOLEAN, NEW k \in Nat, PassAt(shuffled, k), Leave
    PROVE  PassAt(shuffled, k)'
<1>1. /\ engine = "leave" /\ b = batches /\ b \in Nat /\ engine' = "left"
      /\ UNCHANGED <<entry_pos, b, passes, entry, judged>> /\ Destroy
  BY DEF PassAt, PassTyped, Leave
<1>2. PICK p \in Nat : p = Top(k) + b * Batch /\ PipeAt(shuffled, p)
  BY <1>1, PlaceIs DEF PassAt, GoesAt, Taken
<1>3. PipeAt(shuffled, p)' /\ consumer' \in {"stop", "closed"}
  BY <1>1, <1>2, DestroyStep
<1>4. PassTyped'
  BY <1>1, <1>3 DEF PassTyped
<1>5. GoesAt(shuffled, k)'
  BY <1>1, <1>2, <1>3 DEF PassAt, GoesAt, Taken
<1> QED
  BY <1>1, <1>4, <1>5 DEF PassAt, RestsAt

\* The position the pass was entered at is put back.
LEMMA FinishStep ==
    ASSUME NEW shuffled \in BOOLEAN, NEW k \in Nat, PassAt(shuffled, k), Finish
    PROVE  PassAt(shuffled, k)'
<1>1. /\ engine = "left" /\ b = batches /\ b \in Nat /\ consumer = "closed"
      /\ engine' = "idle" /\ data' = RestoreServingPos(data, entry_pos)
      /\ UNCHANGED <<flags, stage_start, staged, slot, consumer, feeder, consumed>>
      /\ UNCHANGED <<entry_pos, b, passes, entry, judged>>
  BY DEF PassAt, PassTyped, Finish
<1>2. PICK p \in Nat : p = Top(k) + b * Batch /\ PipeAt(shuffled, p)
  BY <1>1, PlaceIs DEF PassAt, GoesAt, Taken
<1>3. /\ entry_pos = SaveServingPos(At(shuffled, k)) /\ entry = At(shuffled, k)
      /\ judged = Judged(shuffled, k, batches) /\ passes \in Nat
  BY <1>1 DEF PassAt, GoesAt
<1>4. data' = At(shuffled, k)
  <2>1. data = At(shuffled, p)
    BY <1>1, <1>2 DEF PipeAt, DirectAt
  <2> QED
    BY <1>1, <1>3, <2>1, RestoresTo
<1>5. PipeAt(shuffled, k)'
  BY <1>1, <1>2, <1>4, ClosedMoves
<1>6. PassTyped'
  BY <1>1 DEF PassTyped
<1>7. RestsAt(shuffled, k)'
  BY <1>1, <1>3, <1>5 DEF RestsAt
<1> QED
  BY <1>1, <1>6, <1>7 DEF PassAt, GoesAt

\* What the two threads do of a pass.
LEMMA ThreadsStep ==
    ASSUME NEW shuffled \in BOOLEAN, NEW k \in Nat, PassAt(shuffled, k), PipelineSteps,
           UNCHANGED evars
    PROVE  PassAt(shuffled, k)'
<1>0. UNCHANGED <<engine, entry_pos, b, passes, entry, judged>> /\ PassTyped
  BY DEF evars, PassAt
<1>1. CASE engine = "idle"
  <2>1. PipeAt(shuffled, k) /\ consumer = "closed"
    BY <1>1 DEF PassAt, PassTyped, RestsAt
  <2>2. PipeAt(shuffled, k)' /\ Steady
    BY <2>1, PipelineStep DEF Taking
  <2>3. consumer' = "closed"
    BY <2>1, <2>2 DEF Steady
  <2>4. PassTyped'
    BY <1>0, <1>1, <2>3 DEF PassTyped
  <2> QED
    BY <1>0, <1>1, <2>2, <2>4 DEF PassAt, RestsAt, GoesAt
<1>2. CASE engine # "idle"
  <2>1. PICK c \in Nat : c = b
    BY <1>0 DEF PassTyped
  <2>2. PICK d \in Nat : d = IF Taken THEN c + 1 ELSE c
    OBVIOUS
  <2>3. PICK p \in Nat : p = Top(k) + d * Batch
    BY PlaceIs
  <2>4. PipeAt(shuffled, p)
    BY <1>2, <2>1, <2>2, <2>3 DEF PassAt, GoesAt
  <2>5. CASE PipeAt(shuffled, p)' /\ Steady
    <3>1. /\ consumer = "closed" => consumer' = "closed"
          /\ consumer = "ready" => consumer' = "ready"
          /\ consumer = "notify" => consumer' \in {"notify", "ready"}
          /\ consumer \in {"stop", "join"} => consumer' \in {"stop", "join", "closed"}
          /\ consumer \in Asking => consumer' \in Asking
          /\ consumer \in Consumers
      BY <2>4, <2>5 DEF Steady, PipeAt, PipeTyped
    <3>2. PassTyped'
      BY <1>0, <3>1 DEF PassTyped, Asking, Consumers
    <3>3. Taken' <=> Taken
      BY <1>0, <3>1 DEF PassTyped, Taken, Asking, Consumers
    <3>4. Taken' => slot' = slot
      BY <2>5 DEF Taken, Steady, Filling
    <3>5. GoesAt(shuffled, k)'
      <4>1. p = Top(k) + (IF Taken' THEN b' + 1 ELSE b') * Batch
        BY <1>0, <2>1, <2>2, <2>3, <3>3
      <4>2. Taken' => slot'.inputs = Records(shuffled, Top(k) + b' * Batch, Batch)
        BY <1>0, <1>2, <3>3, <3>4 DEF PassAt, GoesAt
      <4> QED
        BY <1>0, <1>2, <2>5, <4>1, <4>2 DEF PassAt, GoesAt
    <3> QED
      BY <1>0, <1>2, <3>2, <3>5 DEF PassAt, RestsAt
  <2>6. CASE PipeAt(shuffled, p + Batch)' /\ Taking(shuffled, p)
    <3>1. /\ consumer \in {"direct", "release"} /\ consumer' \in {"ready", "notify"}
          /\ slot' = Slots(Records(shuffled, p, Batch))
      BY <2>6 DEF Taking
    <3>2. engine = "batch" /\ ~Taken /\ Taken'
      BY <1>0, <1>2, <3>1 DEF PassTyped, Taken
    <3>3. p = Top(k) + b * Batch /\ p + Batch = Top(k) + (b + 1) * Batch
      BY <2>1, <2>2, <2>3, <3>2, PlaceIs
    <3>4. PassTyped'
      BY <1>0, <3>1, <3>2 DEF PassTyped
    <3>5. GoesAt(shuffled, k)'
      <4>1. p + Batch = Top(k) + (IF Taken' THEN b' + 1 ELSE b') * Batch
        BY <1>0, <3>2, <3>3
      <4>2. slot'.inputs = Records(shuffled, Top(k) + b' * Batch, Batch)
        BY <1>0, <3>1, <3>3, SlotsAre
      <4> QED
        BY <1>0, <1>2, <2>6, <4>1, <4>2 DEF PassAt, GoesAt
    <3> QED
      BY <1>0, <1>2, <3>4, <3>5 DEF PassAt, RestsAt
  <2> QED
    BY <2>4, <2>5, <2>6, PipelineStep
<1> QED
  BY <1>1, <1>2

\* At every moment of a pass its pipeline stands at the b-th batch of the epoch it
\* was entered in (update_engine.cc:617-752).
THEOREM PassInvariant == EvalSpec => []PassInv
<1>1. EvalInit => PassInv
  BY PassStarts
<1>2. PassInv /\ [EvalNext]_allvars => PassInv'
  <2> SUFFICES ASSUME PassInv, [EvalNext]_allvars, engine' \notin {"fail", "failed"}
               PROVE  \E shuffled \in BOOLEAN, k \in Nat : PassAt(shuffled, k)'
    BY DEF PassInv
  <2>1. engine \notin {"fail", "failed"}
    BY DEF EvalNext, Begin, MakePipeline, AskBatch, Execute, ExecuteFails, Leave, Finish,
           Pipeline, allvars, evars
  <2>2. PICK shuffled \in BOOLEAN, k \in Nat : PassAt(shuffled, k)
    BY <2>1 DEF PassInv
  <2>3. CASE UNCHANGED allvars
    <3>1. UNCHANGED vars /\ UNCHANGED evars
      BY <2>3 DEF allvars
    <3>2. UNCHANGED <<engine, entry_pos, b, passes, entry, judged, slot, consumer>>
      BY <3>1 DEF vars, evars
    <3>3. PICK p \in Nat : p = Top(k) + (IF Taken THEN b + 1 ELSE b) * Batch
      BY <2>2, PlaceIs DEF PassAt, PassTyped
    <3>4. /\ PipeAt(shuffled, k) => PipeAt(shuffled, k)'
          /\ PipeAt(shuffled, p) => PipeAt(shuffled, p)'
      BY <3>1, Unmoved
    <3>5. PassTyped'
      BY <2>2, <3>2 DEF PassAt, PassTyped
    <3>6. RestsAt(shuffled, k)'
      BY <2>2, <3>2, <3>4 DEF PassAt, RestsAt
    <3>7. GoesAt(shuffled, k)'
      BY <2>2, <3>2, <3>3, <3>4 DEF PassAt, GoesAt, Taken
    <3> QED
      BY <3>5, <3>6, <3>7 DEF PassAt
  <2>4. CASE EvalNext
    <3>1. CASE Pipeline
      BY <2>2, <3>1, ThreadsStep DEF Pipeline, PipelineSteps
    <3>2. CASE ExecuteFails
      BY <3>2 DEF ExecuteFails
    <3> QED
      BY <2>2, <2>4, <3>1, <3>2, BeginStep, MakePipelineStep, AskBatchStep, ExecuteStep,
         LeaveStep, FinishStep DEF EvalNext
  <2> QED
    BY <2>3, <2>4
<1> QED
  BY <1>1, <1>2, PTL DEF EvalSpec

\* A pass scores every sample of the set once, from the top of the order it was in.
THEOREM EverySampleIsScored == EvalSpec => []EverySampleIsScoredOnce
<1>1. PassInv => EverySampleIsScoredOnce
  <2> SUFFICES ASSUME PassInv, Scored
               PROVE  judged = [i \in 1..NumSamples |-> <<entry.order, i - 1>>]
    BY DEF EverySampleIsScoredOnce
  <2>1. PICK shuffled \in BOOLEAN, k \in Nat : PassAt(shuffled, k)
    BY DEF PassInv, Scored
  <2>2. entry = At(shuffled, k) /\ judged = Judged(shuffled, k, batches)
    BY <2>1 DEF PassAt, RestsAt, Scored
  <2>3. entry.order = OrderAt(NumSamples, shuffled, k)
    BY <2>2, Constants, PositionFields DEF At
  <2> QED
    BY <2>2, <2>3, JudgedEnds
<1> QED
  BY <1>1, PassInvariant, PTL

\* A pass leaves no trace on the dataset.
THEOREM PassesLeaveNoTrace == EvalSpec => []EvaluationLeavesNoTrace
<1>1. PassInv => EvaluationLeavesNoTrace
  <2> SUFFICES ASSUME PassInv, Scored PROVE data = entry
    BY DEF EvaluationLeavesNoTrace
  <2>1. PICK shuffled \in BOOLEAN, k \in Nat : PassAt(shuffled, k)
    BY DEF PassInv, Scored
  <2>2. entry = At(shuffled, k) /\ PipeAt(shuffled, k) /\ consumer = "closed"
    BY <2>1 DEF PassAt, PassTyped, RestsAt, Scored
  <2>3. data = At(shuffled, k)
    BY <2>2 DEF PipeAt, DirectAt
  <2> QED
    BY <2>2, <2>3
<1> QED
  BY <1>1, PassInvariant, PTL
=============================================================================
