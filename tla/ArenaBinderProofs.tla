------------------------- MODULE ArenaBinderProofs -------------------------
(***************************************************************************)
(* The arena binder, for every block, alignment and storage: values that   *)
(* are alive together never share a byte, the deltas the merge program     *)
(* leaves lie behind them all, and everything is within the arena.         *)
(*                                                                         *)
(* The scan's own argument comes first (the active blocks stay sorted, the *)
(* first fit is free of every one of them, what is not among them is       *)
(* over), then the segments, then why a value that is over is dead: the    *)
(* verifier's unique names make its definition unique, so that the         *)
(* binder's interval covers its life.  Each recursive function is a table, *)
(* whose existence and contents are shown by induction on its length.      *)
(***************************************************************************)
EXTENDS UpdateRun, FiniteSetTheorems, WellFoundedInduction, TLAPS

(* Induction on the natural numbers, as a fact about sets. *)

\* A set of numbers has a least one.
LEMMA LeastNumber ==
    ASSUME NEW S, S \subseteq Nat, S # {}
    PROVE  \E m \in S : \A k \in S : m <= k
<1> DEFINE R == OpToRel(<, Nat)
<1>1. IsWellFoundedOn(R, Nat)
  BY NatLessThanWellFounded
<1>2. \A x, y \in Nat : x < y => <<x, y>> \in R
  BY DEF OpToRel
<1> HIDE DEF R
<1>3. PICK m \in S : \A y \in S : ~ (<<y, m>> \in R)
  BY <1>1, WFMin
<1>4. \A y \in S : ~ (y < m)
  BY <1>2, <1>3
<1> QED
  BY <1>4

\* A set with 0 and the successor of each of its numbers has every number.
LEMMA Induction ==
    ASSUME NEW S, 0 \in S, \A n \in Nat : n \in S => n + 1 \in S
    PROVE  Nat \subseteq S
<1> DEFINE D == Nat \ S
<1> SUFFICES ASSUME D # {} PROVE FALSE
  OBVIOUS
<1>1. PICK m \in D : \A k \in D : m <= k
  <2>1. D \subseteq Nat
    OBVIOUS
  <2> HIDE DEF D
  <2> QED
    BY <2>1, LeastNumber
<1>2. m \in Nat /\ m # 0 /\ m - 1 \in Nat
  BY <1>1
<1>3. m - 1 \in S
  BY <1>1, <1>2
<1> QED
  BY <1>1, <1>2, <1>3

-----------------------------------------------------------------------------
(* Parts of sequences. *)

\* A concatenation has the elements of the first sequence, then those of the second.
LEMMA ConcatIs ==
    ASSUME NEW D, NEW s \in Seq(D), NEW t \in Seq(D)
    PROVE  /\ s \o t \in Seq(D) /\ Len(s \o t) = Len(s) + Len(t)
           /\ Len(s) \in Nat /\ Len(t) \in Nat
           /\ \A i \in 1..(Len(s) + Len(t)) :
                (s \o t)[i] = IF i <= Len(s) THEN s[i] ELSE t[i - Len(s)]
OBVIOUS

\* The table behind Subsequence, over the first n elements.
Selected(f, s, I, n) ==
    f = [i \in 0..n |-> IF i = 0 THEN << >>
                        ELSE IF i \in I THEN Append(f[i - 1], s[i]) ELSE f[i - 1]]

\* It exists for every sequence.
LEMMA SelectedExists ==
    ASSUME NEW s, NEW I, NEW n \in Nat
    PROVE  \E f : Selected(f, s, I, n)
<1> DEFINE S == {k \in Nat : \E f : Selected(f, s, I, k)}
<1>1. 0 \in S
  <2>1. Selected([i \in 0..0 |-> << >>], s, I, 0)
    BY DEF Selected
  <2> QED
    BY <2>1
<1>2. ASSUME NEW k \in Nat, k \in S PROVE k + 1 \in S
  <2>1. PICK f : Selected(f, s, I, k)
    BY <1>2
  <2>2. \A i \in 0..k : f[i] = IF i = 0 THEN << >>
                               ELSE IF i \in I THEN Append(f[i - 1], s[i]) ELSE f[i - 1]
    BY <2>1 DEF Selected
  <2> DEFINE on == IF k + 1 \in I THEN Append(f[k], s[k + 1]) ELSE f[k]
             g == [i \in 0..(k + 1) |-> IF i = k + 1 THEN on ELSE f[i]]
  <2>3. \A i \in 0..(k + 1) : g[i] = IF i = 0 THEN << >>
                                     ELSE IF i \in I THEN Append(g[i - 1], s[i]) ELSE g[i - 1]
    BY <2>2
  <2>4. g = [i \in 0..(k + 1) |-> g[i]]
    OBVIOUS
  <2> HIDE DEF g
  <2>5. Selected(g, s, I, k + 1)
    BY <2>3, <2>4 DEF Selected
  <2> QED
    BY <2>5
<1> HIDE DEF S
<1>3. Nat \subseteq S
  BY <1>1, <1>2, Induction
<1> QED
  BY <1>3 DEF S

\* t is the elements of s, up to the n-th, whose indices are in I: ix[k] is the index
\* of its k-th.
Picks(t, ix, s, I, n) ==
    /\ ix \in [1..Len(t) -> 1..n]
    /\ \A k \in 1..Len(t) : ix[k] \in I /\ t[k] = s[ix[k]]
    /\ \A j, k \in 1..Len(t) : j < k => ix[j] < ix[k]
    /\ \A i \in 1..n : i \in I => \E k \in 1..Len(t) : ix[k] = i

\* One more element.
LEMMA PicksOnward ==
    ASSUME NEW D, NEW t \in Seq(D), NEW ix, NEW s, NEW I, NEW n \in Nat,
           Picks(t, ix, s, I, n), s[n + 1] \in D
    PROVE  /\ n + 1 \notin I => Picks(t, ix, s, I, n + 1)
           /\ n + 1 \in I => \E jx : Picks(Append(t, s[n + 1]), jx, s, I, n + 1)
<1>1. CASE n + 1 \notin I
  BY <1>1 DEF Picks
<1>2. CASE n + 1 \in I
  <2> DEFINE u == Append(t, s[n + 1])
             jx == [k \in 1..(Len(t) + 1) |-> IF k = Len(t) + 1 THEN n + 1 ELSE ix[k]]
  <2>1. /\ Len(u) = Len(t) + 1 /\ u[Len(t) + 1] = s[n + 1] /\ Len(t) \in Nat
        /\ \A k \in 1..Len(t) : u[k] = t[k]
    OBVIOUS
  <2>2. /\ jx[Len(t) + 1] = n + 1 /\ jx \in [1..(Len(t) + 1) -> 1..(n + 1)]
        /\ \A k \in 1..Len(t) : jx[k] = ix[k]
    BY <2>1 DEF Picks
  <2> HIDE DEF u, jx
  <2>3. \A k \in 1..Len(u) : jx[k] \in I /\ u[k] = s[jx[k]]
    BY <1>2, <2>1, <2>2 DEF Picks
  <2>4. ASSUME NEW j \in 1..Len(u), NEW k \in 1..Len(u), j < k PROVE jx[j] < jx[k]
    <3>1. j \in 1..Len(t) /\ (k \in 1..Len(t) \/ k = Len(t) + 1)
      BY <2>1, <2>4
    <3>2. jx[j] = ix[j] /\ ix[j] \in 1..n
      BY <3>1, <2>2 DEF Picks
    <3>3. CASE k = Len(t) + 1
      BY <3>2, <3>3, <2>2
    <3>4. CASE k \in 1..Len(t)
      <4>1. ix[j] < ix[k]
        BY <3>1, <3>4, <2>4 DEF Picks
      <4> QED
        BY <4>1, <3>2, <3>4, <2>2
    <3> QED
      BY <3>1, <3>3, <3>4
  <2>5. \A i \in 1..(n + 1) : i \in I => \E k \in 1..Len(u) : jx[k] = i
    <3> SUFFICES ASSUME NEW i \in 1..(n + 1), i \in I PROVE \E k \in 1..Len(u) : jx[k] = i
      OBVIOUS
    <3>1. CASE i = n + 1
      BY <3>1, <2>1, <2>2
    <3>2. CASE i \in 1..n
      <4>1. PICK k \in 1..Len(t) : ix[k] = i
        BY <3>2 DEF Picks
      <4> QED
        BY <4>1, <2>1, <2>2
    <3> QED
      BY <3>1, <3>2
  <2>6. Picks(u, jx, s, I, n + 1)
    BY <2>1, <2>2, <2>3, <2>4, <2>5 DEF Picks
  <2> QED
    BY <1>2, <2>6 DEF u
<1> QED
  BY <1>1, <1>2

\* Subsequence is the elements at the given indices, in their order.
LEMMA SubsequenceIs ==
    ASSUME NEW D, NEW s, Len(s) \in Nat, \A i \in 1..Len(s) : s[i] \in D, NEW I
    PROVE  /\ Subsequence(s, I) \in Seq(D)
           /\ \E ix : Picks(Subsequence(s, I), ix, s, I, Len(s))
<1> DEFINE T == CHOOSE f : Selected(f, s, I, Len(s))
<1>1. Selected(T, s, I, Len(s))
  BY SelectedExists
<1>2. Subsequence(s, I) = T[Len(s)]
  BY DEF Subsequence, Selected
<1> HIDE DEF T
<1>3. /\ T[0] = << >>
      /\ \A i \in 1..Len(s) : T[i] = IF i \in I THEN Append(T[i - 1], s[i]) ELSE T[i - 1]
  <2>1. \A i \in 0..Len(s) : T[i] = IF i = 0 THEN << >>
                                    ELSE IF i \in I THEN Append(T[i - 1], s[i]) ELSE T[i - 1]
    BY <1>1 DEF Selected
  <2>2. 0 \in 0..Len(s) /\ \A i \in 1..Len(s) : i \in 0..Len(s) /\ i # 0
    OBVIOUS
  <2> QED
    BY <2>1, <2>2
<1> DEFINE S == {n \in Nat : n <= Len(s) => /\ T[n] \in Seq(D)
                                           /\ \E ix : Picks(T[n], ix, s, I, n)}
<1>4. 0 \in S
  <2>1. Picks(<< >>, << >>, s, I, 0)
    BY DEF Picks
  <2>2. << >> \in Seq(D)
    OBVIOUS
  <2> QED
    BY <1>3, <2>1, <2>2
<1>5. ASSUME NEW n \in Nat, n \in S PROVE n + 1 \in S
  <2> SUFFICES ASSUME n + 1 <= Len(s)
               PROVE  T[n + 1] \in Seq(D) /\ \E ix : Picks(T[n + 1], ix, s, I, n + 1)
    OBVIOUS
  <2>1. T[n] \in Seq(D) /\ \E ix : Picks(T[n], ix, s, I, n)
    BY <1>5
  <2>2. n + 1 \in 1..Len(s) /\ s[n + 1] \in D /\ (n + 1) - 1 = n
    OBVIOUS
  <2>3. T[n + 1] = IF n + 1 \in I THEN Append(T[n], s[n + 1]) ELSE T[n]
    BY <1>3, <2>2
  <2>4. PICK ix : Picks(T[n], ix, s, I, n)
    BY <2>1
  <2>5. /\ n + 1 \notin I => Picks(T[n], ix, s, I, n + 1)
        /\ n + 1 \in I => \E jx : Picks(Append(T[n], s[n + 1]), jx, s, I, n + 1)
    BY <2>1, <2>2, <2>4, PicksOnward
  <2>6. Append(T[n], s[n + 1]) \in Seq(D)
    BY <2>1, <2>2
  <2> QED
    BY <2>1, <2>3, <2>5, <2>6
<1> HIDE DEF S
<1>6. Nat \subseteq S
  BY <1>4, <1>5, Induction
<1>7. Len(s) \in S
  BY <1>6
<1> QED
  BY <1>2, <1>7 DEF S
-----------------------------------------------------------------------------
(* The active blocks. *)

Block == [start : Nat, end : Nat, free_after : Int]
Sorted(a) == \A i, j \in 1..Len(a) : i < j => a[i].start <= a[j].start

\* What a sequence of blocks holds.
LEMMA BlocksAre ==
    ASSUME NEW active \in Seq(Block)
    PROVE  /\ Len(active) \in Nat
           /\ \A i \in 1..Len(active) :
                /\ active[i] \in Block
                /\ active[i].start \in Nat /\ active[i].end \in Nat
                /\ active[i].free_after \in Int
<1>1. Len(active) \in Nat /\ \A i \in 1..Len(active) : active[i] \in Block
  OBVIOUS
<1>2. \A x \in Block : x.start \in Nat /\ x.end \in Nat /\ x.free_after \in Int
  BY DEF Block
<1> QED
  BY <1>1, <1>2

\* An element inserted is where it was put, the ones behind it one further.
LEMMA InsertedIs ==
    ASSUME NEW D, NEW s \in Seq(D), NEW x \in D, NEW k \in 1..(Len(s) + 1)
    PROVE  /\ InsertedAt(s, k, x) \in Seq(D)
           /\ Len(InsertedAt(s, k, x)) = Len(s) + 1
           /\ \A i \in 1..(Len(s) + 1) :
                InsertedAt(s, k, x)[i] = IF i < k THEN s[i] ELSE IF i = k THEN x ELSE s[i - 1]
<1> DEFINE p == SubSeq(s, 1, k - 1)
           q == SubSeq(s, k, Len(s))
<1>1. Len(s) \in Nat
  OBVIOUS
<1>2. /\ p \in Seq(D) /\ Len(p) = k - 1
      /\ \A i \in 1..(k - 1) : p[i] = s[i]
  BY <1>1
<1>3. /\ q \in Seq(D) /\ Len(q) = Len(s) - k + 1
      /\ \A i \in 1..(Len(s) - k + 1) : q[i] = s[k + i - 1]
  BY <1>1
<1>4. InsertedAt(s, k, x) = p \o << x >> \o q
  BY DEF InsertedAt
<1> HIDE DEF p, q
<1> DEFINE r == p \o << x >>
<1>5. /\ r \in Seq(D) /\ Len(r) = k /\ r[k] = x
      /\ \A i \in 1..(k - 1) : r[i] = s[i]
  <2>1. /\ << x >> \in Seq(D) /\ Len(<< x >>) = 1 /\ << x >>[1] = x
    OBVIOUS
  <2>2. /\ r \in Seq(D) /\ Len(r) = Len(p) + Len(<< x >>)
        /\ \A i \in 1..(Len(p) + Len(<< x >>)) :
             r[i] = IF i <= Len(p) THEN p[i] ELSE << x >>[i - Len(p)]
    BY <1>2, <2>1, ConcatIs, Zenon
  <2> HIDE DEF r
  <2>3. Len(r) = k /\ \A i \in 1..k : r[i] = IF i <= k - 1 THEN p[i] ELSE << x >>[i - (k - 1)]
    BY <1>2, <2>1, <2>2
  <2>4. r[k] = x
    BY <2>1, <2>3
  <2>5. \A i \in 1..(k - 1) : r[i] = p[i]
    BY <2>3
  <2> QED
    BY <1>2, <2>2, <2>3, <2>4, <2>5
<1> DEFINE u == r \o q
<1>6. InsertedAt(s, k, x) = u
  BY <1>4 DEF r
<1> HIDE DEF r
<1>7. /\ u \in Seq(D) /\ Len(u) = Len(s) + 1
      /\ \A i \in 1..(Len(s) + 1) : u[i] = IF i <= k THEN r[i] ELSE q[i - k]
  <2>1. /\ u \in Seq(D) /\ Len(u) = Len(r) + Len(q)
        /\ \A i \in 1..(Len(r) + Len(q)) :
             u[i] = IF i <= Len(r) THEN r[i] ELSE q[i - Len(r)]
    BY <1>3, <1>5, ConcatIs, Zenon
  <2>2. Len(r) + Len(q) = Len(s) + 1
    BY <1>1, <1>3, <1>5
  <2> HIDE DEF u
  <2> QED
    BY <2>1, <2>2, <1>5
<1> HIDE DEF u
<1>8. ASSUME NEW i \in 1..(Len(s) + 1)
      PROVE  u[i] = IF i < k THEN s[i] ELSE IF i = k THEN x ELSE s[i - 1]
  <2>1. CASE i < k
    BY <2>1, <1>7, <1>5, <1>1
  <2>2. CASE i = k
    BY <2>2, <1>7, <1>5, <1>1
  <2>3. CASE i > k
    <3>1. u[i] = q[i - k] /\ i - k \in 1..(Len(s) - k + 1)
      BY <2>3, <1>7, <1>1
    <3>2. q[i - k] = s[i - 1]
      BY <3>1, <1>3, <1>1
    <3> QED
      BY <2>3, <3>1, <3>2
  <2>4. i < k \/ i = k \/ i > k
    BY <1>1
  <2> QED
    BY <2>1, <2>2, <2>3, <2>4
<1> QED
  BY <1>6, <1>7, <1>8

\* std::upper_bound: the place behind every block that starts no later.
LEMMA UpperBoundIs ==
    ASSUME NEW active \in Seq(Block), Sorted(active), NEW start \in Nat
    PROVE  /\ UpperBound(active, start) \in 1..(Len(active) + 1)
           /\ \A i \in 1..Len(active) :
                /\ i < UpperBound(active, start) => active[i].start <= start
                /\ i >= UpperBound(active, start) => start < active[i].start
<1> DEFINE S == {k \in 1..(Len(active) + 1) : k <= Len(active) => active[k].start > start}
           Fits(k) == /\ \A i \in 1..(k - 1) : active[i].start <= start
                      /\ k <= Len(active) => active[k].start > start
<1>1. Len(active) \in Nat /\ \A i \in 1..Len(active) : active[i].start \in Nat
  BY BlocksAre
<1>2. Len(active) + 1 \in S
  BY <1>1
<1>3. S \subseteq Nat
  BY <1>1
<1>4. PICK m \in S : \A k \in S : m <= k
  <2> HIDE DEF S
  <2> QED
    BY <1>2, <1>3, LeastNumber
<1>5. ASSUME NEW i \in 1..(m - 1) PROVE active[i].start <= start
  <2>1. i \in 1..Len(active) /\ i < m /\ i \notin S
    BY <1>1, <1>4
  <2> QED
    BY <2>1, <1>1
<1>6. m \in 1..(Len(active) + 1) /\ Fits(m)
  BY <1>4, <1>5
<1> DEFINE u == UpperBound(active, start)
<1>7. u \in 1..(Len(active) + 1) /\ Fits(u)
  BY <1>6 DEF UpperBound
<1> HIDE DEF u
<1>8. ASSUME NEW i \in 1..Len(active), i >= u PROVE start < active[i].start
  <2>1. u \in 1..Len(active) /\ active[u].start > start
    BY <1>1, <1>7, <1>8
  <2>2. active[u].start <= active[i].start
    BY <1>1, <1>8, <2>1 DEF Sorted
  <2> QED
    BY <1>1, <2>1, <2>2
<1>9. ASSUME NEW i \in 1..Len(active), i < u PROVE active[i].start <= start
  BY <1>1, <1>7, <1>9
<1> QED
  BY <1>7, <1>8, <1>9 DEF u

\* The table behind FirstFit, over the first n blocks.
Fitted(f, active, base, bytes, n) ==
    f = [i \in 0..n |-> IF i = 0 THEN [found |-> FALSE, offset |-> base]
                        ELSE Fit(f[i - 1], active[i], bytes)]

\* It exists.
LEMMA FittedExists ==
    ASSUME NEW active, NEW base, NEW bytes, NEW n \in Nat
    PROVE  \E f : Fitted(f, active, base, bytes, n)
<1> DEFINE S == {k \in Nat : \E f : Fitted(f, active, base, bytes, k)}
           none == [found |-> FALSE, offset |-> base]
<1> HIDE DEF none
<1>1. 0 \in S
  <2>1. Fitted([i \in 0..0 |-> none], active, base, bytes, 0)
    BY DEF Fitted, none
  <2> QED
    BY <2>1
<1>2. ASSUME NEW k \in Nat, k \in S PROVE k + 1 \in S
  <2>1. PICK f : Fitted(f, active, base, bytes, k)
    BY <1>2
  <2>2. \A i \in 0..k : f[i] = IF i = 0 THEN none ELSE Fit(f[i - 1], active[i], bytes)
    BY <2>1 DEF Fitted, none
  <2> DEFINE g == [i \in 0..(k + 1) |->
                     IF i = k + 1 THEN Fit(f[k], active[i], bytes) ELSE f[i]]
  <2>3. \A i \in 0..(k + 1) : g[i] = IF i = 0 THEN none ELSE Fit(g[i - 1], active[i], bytes)
    BY <2>2
  <2>4. g = [i \in 0..(k + 1) |-> g[i]]
    OBVIOUS
  <2> HIDE DEF g
  <2>5. Fitted(g, active, base, bytes, k + 1)
    BY <2>3, <2>4 DEF Fitted, none
  <2> QED
    BY <2>5
<1> HIDE DEF S
<1>3. Nat \subseteq S
  BY <1>1, <1>2, Induction
<1> QED
  BY <1>3 DEF S

\* Where the search stands behind n blocks: apart from them all, behind them all
\* while it goes on, and below one of them once it has found room.
Reached(st, active, base, bytes, n) ==
    /\ st = [found |-> st.found, offset |-> st.offset]
    /\ st.found \in BOOLEAN /\ st.offset \in Nat /\ base <= st.offset
    /\ \A i \in 1..n : \/ active[i].end <= st.offset
                       \/ st.offset + bytes <= active[i].start
    /\ ~st.found => \A i \in 1..n : active[i].end <= st.offset
    /\ st.found => \E i \in 1..n : st.offset + bytes <= active[i].start

\* One more block.
LEMMA FitOnward ==
    ASSUME NEW active \in Seq(Block), Sorted(active), NEW base \in Nat, NEW bytes \in Nat,
           NEW n \in Nat, n + 1 <= Len(active), NEW st, Reached(st, active, base, bytes, n)
    PROVE  Reached(Fit(st, active[n + 1], bytes), active, base, bytes, n + 1)
<1> DEFINE block == active[n + 1]
<1>1. /\ \A i \in 1..(n + 1) : i \in 1..Len(active)
      /\ \A i \in 1..(n + 1) : active[i].start \in Nat /\ active[i].end \in Nat
  <2>1. Len(active) \in Nat
    BY BlocksAre
  <2>2. \A i \in 1..(n + 1) : i \in 1..Len(active)
    BY <2>1
  <2> QED
    BY <2>2, BlocksAre
<1>2. ASSUME NEW i \in 1..(n + 1) PROVE active[i].start <= block.start
  <2>1. CASE i = n + 1
    BY <2>1, <1>1
  <2>2. CASE i < n + 1
    <3>1. i \in 1..Len(active) /\ n + 1 \in 1..Len(active)
      BY <1>1
    <3> QED
      BY <2>2, <3>1 DEF Sorted
  <2> QED
    BY <2>1, <2>2
<1>3. /\ block.start \in Nat /\ block.end \in Nat
      /\ st.found \in BOOLEAN /\ st.offset \in Nat /\ base <= st.offset
  <2>1. n + 1 \in 1..(n + 1)
    OBVIOUS
  <2>2. block.start \in Nat /\ block.end \in Nat
    BY <1>1, <2>1
  <2>3. st.found \in BOOLEAN /\ st.offset \in Nat /\ base <= st.offset
    BY DEF Reached
  <2> QED
    BY <2>2, <2>3
<1> DEFINE to == [found |-> TRUE, offset |-> st.offset]
<1>7. to.found = TRUE /\ to.offset = st.offset /\ to = [found |-> to.found, offset |-> to.offset]
  OBVIOUS
<1>8. n + 1 \in 1..(n + 1) /\ \A i \in 1..n : i \in 1..(n + 1)
  OBVIOUS
<1>9. \A i \in 1..(n + 1) : i \in 1..n \/ i = n + 1
  OBVIOUS
<1> HIDE DEF to
<1>4. CASE st.found
  <2>1. Fit(st, block, bytes) = to
    BY <1>4 DEF Fit, to
  <2>2. PICK j \in 1..n : st.offset + bytes <= active[j].start
    BY <1>4 DEF Reached
  <2>3. active[j].start <= block.start /\ active[j].start \in Nat
    BY <1>1, <1>2, <1>8
  <2>4. st.offset + bytes <= block.start
    <3> DEFINE offset == st.offset
               above == active[j].start
               top == block.start
    <3>1. offset + bytes <= above /\ above <= top
      BY <2>2, <2>3
    <3>2. offset \in Nat /\ above \in Nat /\ top \in Nat
      BY <1>3, <2>3
    <3> HIDE DEF offset, above, top
    <3>3. offset + bytes <= top
      BY <3>1, <3>2
    <3> QED
      BY <3>3 DEF offset, top
  <2>5. ASSUME NEW i \in 1..(n + 1)
        PROVE  active[i].end <= st.offset \/ st.offset + bytes <= active[i].start
    <3>1. CASE i \in 1..n
      BY <3>1 DEF Reached
    <3>2. CASE i = n + 1
      BY <3>2, <2>4
    <3> QED
      BY <1>9, <3>1, <3>2
  <2>6. \E i \in 1..(n + 1) : st.offset + bytes <= active[i].start
    BY <1>8, <2>2
  <2>7. Reached(to, active, base, bytes, n + 1)
    BY <1>3, <1>7, <2>5, <2>6 DEF Reached
  <2> QED
    BY <2>1, <2>7
<1>5. CASE ~st.found /\ st.offset + bytes <= block.start
  <2>1. Fit(st, block, bytes) = to
    BY <1>5 DEF Fit, to
  <2>2. ASSUME NEW i \in 1..(n + 1)
        PROVE  active[i].end <= st.offset \/ st.offset + bytes <= active[i].start
    <3>1. CASE i \in 1..n
      BY <3>1 DEF Reached
    <3>2. CASE i = n + 1
      BY <3>2, <1>5
    <3> QED
      BY <1>9, <3>1, <3>2
  <2>3. \E i \in 1..(n + 1) : st.offset + bytes <= active[i].start
    BY <1>5, <1>8
  <2>4. Reached(to, active, base, bytes, n + 1)
    BY <1>3, <1>7, <2>2, <2>3 DEF Reached
  <2> QED
    BY <2>1, <2>4
<1>6. CASE ~st.found /\ ~(st.offset + bytes <= block.start)
  <2> DEFINE on == IF block.end > st.offset THEN block.end ELSE st.offset
  <2>1. Fit(st, block, bytes) = [found |-> FALSE, offset |-> on]
    BY <1>6 DEF Fit
  <2>2. on \in Nat /\ st.offset <= on /\ block.end <= on
    BY <1>3
  <2>3. ASSUME NEW i \in 1..(n + 1) PROVE active[i].end <= on
    <3>1. CASE i \in 1..n
      <4>1. active[i].end <= st.offset
        BY <3>1, <1>6 DEF Reached
      <4> HIDE DEF on
      <4> QED
        BY <4>1, <2>2, <1>1, <1>3
    <3>2. CASE i = n + 1
      BY <3>2, <2>2
    <3> QED
      BY <1>9, <3>1, <3>2
  <2>4. base <= on
    BY <2>2, <1>3
  <2> HIDE DEF on, block
  <2> DEFINE next == [found |-> FALSE, offset |-> on]
  <2>5. /\ next.found = FALSE /\ next.offset = on
        /\ next = [found |-> next.found, offset |-> next.offset]
    OBVIOUS
  <2> HIDE DEF next
  <2>6. Reached(next, active, base, bytes, n + 1)
    BY <2>2, <2>3, <2>4, <2>5 DEF Reached
  <2> QED
    BY <2>1, <2>6 DEF block, next
<1> QED
  BY <1>4, <1>5, <1>6

\* The offset found is apart from every active block.
LEMMA FirstFitIs ==
    ASSUME NEW active \in Seq(Block), Sorted(active), NEW base \in Nat, NEW bytes \in Nat
    PROVE  /\ FirstFit(active, base, bytes) \in Nat
           /\ base <= FirstFit(active, base, bytes)
           /\ \A i \in 1..Len(active) :
                \/ active[i].end <= FirstFit(active, base, bytes)
                \/ FirstFit(active, base, bytes) + bytes <= active[i].start
<1> DEFINE T == CHOOSE f : Fitted(f, active, base, bytes, Len(active))
<1>1. Len(active) \in Nat
  OBVIOUS
<1>2. Fitted(T, active, base, bytes, Len(active))
  BY <1>1, FittedExists
<1>3. FirstFit(active, base, bytes) = T[Len(active)].offset
  BY DEF FirstFit, Fitted
<1> HIDE DEF T
<1>4. /\ T[0] = [found |-> FALSE, offset |-> base]
      /\ \A i \in 1..Len(active) : T[i] = Fit(T[i - 1], active[i], bytes)
  <2>1. \A i \in 0..Len(active) : T[i] = IF i = 0 THEN [found |-> FALSE, offset |-> base]
                                         ELSE Fit(T[i - 1], active[i], bytes)
    BY <1>2 DEF Fitted
  <2>2. 0 \in 0..Len(active) /\ \A i \in 1..Len(active) : i \in 0..Len(active) /\ i # 0
    BY <1>1
  <2> QED
    BY <2>1, <2>2
<1> DEFINE S == {n \in Nat : n <= Len(active) => Reached(T[n], active, base, bytes, n)}
<1>5. 0 \in S
  <2>1. T[0].found = FALSE /\ T[0].offset = base /\ T[0] = [found |-> FALSE, offset |-> base]
    BY <1>4
  <2>2. Reached(T[0], active, base, bytes, 0)
    BY <2>1 DEF Reached
  <2> QED
    BY <2>2
<1>6. ASSUME NEW n \in Nat, n \in S PROVE n + 1 \in S
  <2> SUFFICES ASSUME n + 1 <= Len(active)
               PROVE  Reached(T[n + 1], active, base, bytes, n + 1)
    OBVIOUS
  <2>1. Reached(T[n], active, base, bytes, n)
    BY <1>1, <1>6
  <2>2. n + 1 \in 1..Len(active) /\ (n + 1) - 1 = n
    BY <1>1
  <2>3. T[n + 1] = Fit(T[n], active[n + 1], bytes)
    BY <1>4, <2>2
  <2> QED
    BY <2>1, <2>3, FitOnward
<1> HIDE DEF S
<1>7. Nat \subseteq S
  BY <1>5, <1>6, Induction
<1>8. Reached(T[Len(active)], active, base, bytes, Len(active))
  BY <1>1, <1>7 DEF S
<1> QED
  BY <1>3, <1>8 DEF Reached
-----------------------------------------------------------------------------
(* The scan. *)

Survivors(st, iv) ==
    Subsequence(st.active, {i \in DOMAIN st.active : ~Expired(st.active[i], iv.start)})
OffsetAt(st, iv, base) == FirstFit(Survivors(st, iv), base, iv.bytes)
BlockOf(iv, off) == [start |-> off, end |-> off + iv.bytes, free_after |-> iv.end]
\* The interval is over before the tick.
IsOver(iv, tick) == iv.end # Forever /\ iv.end < tick

\* Expiry keeps the order, and every block that is not expired.
LEMMA SurvivorsAre ==
    ASSUME NEW st, st.active \in Seq(Block), Sorted(st.active), NEW iv
    PROVE  /\ Survivors(st, iv) \in Seq(Block)
           /\ Sorted(Survivors(st, iv))
           /\ \A i \in 1..Len(st.active) : ~Expired(st.active[i], iv.start) =>
                \E k \in 1..Len(Survivors(st, iv)) : Survivors(st, iv)[k] = st.active[i]
<1> DEFINE a == st.active
           I == {i \in DOMAIN a : ~Expired(a[i], iv.start)}
           t == Subsequence(a, I)
<1>1. Len(a) \in Nat /\ DOMAIN a = 1..Len(a) /\ \A i \in 1..Len(a) : a[i] \in Block
  OBVIOUS
<1>2. \A i \in 1..Len(a) : ~Expired(a[i], iv.start) <=> i \in I
  BY <1>1
<1>3. t = Survivors(st, iv)
  BY DEF Survivors
<1>4. Sorted(a)
  OBVIOUS
<1> HIDE DEF a, I
<1>5. t \in Seq(Block) /\ \E ix : Picks(t, ix, a, I, Len(a))
  BY <1>1, SubsequenceIs
<1> HIDE DEF t
<1>6. PICK ix : Picks(t, ix, a, I, Len(a))
  BY <1>5
<1>7. Len(t) \in Nat
  BY <1>5
<1>8. \A j, k \in 1..Len(t) : j < k => t[j].start <= t[k].start
  <2> SUFFICES ASSUME NEW j \in 1..Len(t), NEW k \in 1..Len(t), j < k
               PROVE  t[j].start <= t[k].start
    OBVIOUS
  <2>1. ix[j] \in 1..Len(a) /\ ix[k] \in 1..Len(a) /\ ix[j] < ix[k]
    BY <1>6 DEF Picks
  <2>2. t[j] = a[ix[j]] /\ t[k] = a[ix[k]]
    BY <1>6 DEF Picks
  <2> QED
    BY <1>4, <2>1, <2>2 DEF Sorted
<1>9. ASSUME NEW i \in 1..Len(a), i \in I PROVE \E k \in 1..Len(t) : t[k] = a[i]
  <2>1. PICK k \in 1..Len(t) : ix[k] = i
    BY <1>6, <1>9 DEF Picks
  <2>2. t[k] = a[ix[k]]
    BY <1>6 DEF Picks
  <2> QED
    BY <2>1, <2>2
<1> QED
  BY <1>2, <1>3, <1>5, <1>8, <1>9 DEF Sorted, a

\* A block inserted at its upper bound keeps the order, and every block.
LEMMA InsertedSorted ==
    ASSUME NEW a \in Seq(Block), Sorted(a), NEW x \in Block
    PROVE  LET c == InsertedAt(a, UpperBound(a, x.start), x) IN
           /\ c \in Seq(Block) /\ Sorted(c)
           /\ \E k \in 1..Len(c) : c[k] = x
           /\ \A i \in 1..Len(a) : \E k \in 1..Len(c) : c[k] = a[i]
<1> DEFINE u == UpperBound(a, x.start)
           c == InsertedAt(a, u, x)
<1>1. /\ Len(a) \in Nat /\ \A i \in 1..Len(a) : a[i].start \in Nat
  BY BlocksAre
<1>2. x.start \in Nat
  BY DEF Block
<1>3. /\ u \in 1..(Len(a) + 1)
      /\ \A i \in 1..Len(a) : /\ i < u => a[i].start <= x.start
                              /\ i >= u => x.start < a[i].start
  BY <1>2, UpperBoundIs
<1> HIDE DEF u
<1>4. /\ c \in Seq(Block) /\ Len(c) = Len(a) + 1
      /\ \A i \in 1..(Len(a) + 1) :
           c[i] = IF i < u THEN a[i] ELSE IF i = u THEN x ELSE a[i - 1]
  BY <1>3, InsertedIs
<1> HIDE DEF c
<1>5. /\ \A i \in 1..Len(a) : i < u => c[i] = a[i]
      /\ c[u] = x
      /\ \A i \in 1..Len(a) : i >= u => c[i + 1] = a[i]
  <2>1. \A i \in 1..Len(a) : i < u => c[i] = a[i]
    BY <1>1, <1>3, <1>4
  <2>2. c[u] = x
    BY <1>1, <1>3, <1>4
  <2>3. ASSUME NEW i \in 1..Len(a), i >= u PROVE c[i + 1] = a[i]
    <3>1. i + 1 \in 1..(Len(a) + 1) /\ ~(i + 1 < u) /\ i + 1 # u /\ (i + 1) - 1 = i
      BY <2>3, <1>1, <1>3
    <3> QED
      BY <3>1, <1>4
  <2> QED
    BY <2>1, <2>2, <2>3
<1>6. ASSUME NEW i \in 1..Len(c), NEW k \in 1..Len(c), i < k
      PROVE  c[i].start <= c[k].start
  <2>1. i \in 1..Len(a) /\ (i < u \/ i = u \/ i > u) /\ (k < u \/ k = u \/ k > u)
    BY <1>1, <1>3, <1>4, <1>6
  <2>2. CASE k < u
    <3>1. k \in 1..Len(a) /\ i < u
      BY <2>2, <1>1, <1>3, <1>6
    <3> QED
      BY <3>1, <2>1, <2>2, <1>5, <1>6 DEF Sorted
  <2>3. CASE i < u /\ k = u
    BY <2>3, <2>1, <1>3, <1>5
  <2>4. CASE i < u /\ k > u
    <3>1. k - 1 \in 1..Len(a) /\ k - 1 >= u /\ (k - 1) + 1 = k /\ i < k - 1 /\ i \in 1..Len(a)
      BY <2>4, <2>1, <1>1, <1>3, <1>4
    <3>2. c[k] = a[k - 1] /\ c[i] = a[i]
      BY <3>1, <2>4, <1>5
    <3> QED
      BY <3>1, <3>2 DEF Sorted
  <2>5. CASE i = u
    <3>1. k - 1 \in 1..Len(a) /\ k - 1 >= u /\ (k - 1) + 1 = k
      BY <2>5, <2>1, <1>1, <1>3, <1>4, <1>6
    <3>2. c[k] = a[k - 1] /\ c[i] = x /\ x.start < a[k - 1].start
      BY <3>1, <2>5, <1>3, <1>5
    <3> QED
      BY <3>1, <3>2, <1>1, <1>2
  <2>6. CASE i > u
    <3>1. /\ k - 1 \in 1..Len(a) /\ k - 1 >= u /\ (k - 1) + 1 = k
          /\ i - 1 \in 1..Len(a) /\ i - 1 >= u /\ (i - 1) + 1 = i /\ i - 1 < k - 1
      BY <2>6, <2>1, <1>1, <1>3, <1>4, <1>6
    <3>2. c[k] = a[k - 1] /\ c[i] = a[i - 1]
      BY <3>1, <1>5
    <3> QED
      BY <3>1, <3>2 DEF Sorted
  <2>7. ~(i = u) /\ ~(i > u) => i < u
    BY <2>1
  <2> QED
    BY <2>1, <2>2, <2>3, <2>4, <2>5, <2>6
<1>7. \E k \in 1..Len(c) : c[k] = x
  BY <1>3, <1>4, <1>5
<1>8. ASSUME NEW i \in 1..Len(a) PROVE \E k \in 1..Len(c) : c[k] = a[i]
  <2>1. i \in 1..Len(c) /\ i + 1 \in 1..Len(c) /\ (i < u \/ i >= u)
    BY <1>1, <1>3, <1>4
  <2> QED
    BY <2>1, <1>5
<1> QED
  BY <1>4, <1>6, <1>7, <1>8 DEF c, u, Sorted

\* Intervals the scan may be given: in the order of their births.
InOrder(ivs) ==
    /\ Len(ivs) \in Nat
    /\ \A j \in 1..Len(ivs) :
         ivs[j].start \in Nat /\ ivs[j].bytes \in Nat /\ ivs[j].end \in Int
    /\ \A j, l \in 1..Len(ivs) : j < l => ivs[j].start <= ivs[l].start

\* Two intervals one of which is over before the other begins, or that are apart.
Clear(ivs, off, j, l) ==
    \/ IsOver(ivs[j], ivs[l].start)
    \/ off[j] + ivs[j].bytes <= off[l]
    \/ off[l] + ivs[l].bytes <= off[j]

\* Where the scan stands behind n intervals, off[j] being where it put the j-th: what
\* is not over is among the active blocks.
Listed(st, off, ivs, n) ==
    \A j \in 1..n : \/ IsOver(ivs[j], ivs[n].start)
                    \/ \E i \in 1..Len(st.active) : st.active[i] = BlockOf(ivs[j], off[j])
Housed(st, off, ivs, base, n) ==
    \A j \in 1..n : off[j] \in Nat /\ base <= off[j] /\ off[j] + ivs[j].bytes <= st.high
Named(st, off, ivs, refs, n) ==
    \A v \in DOMAIN st.refs :
      \/ v \in DOMAIN refs /\ st.refs[v] = refs[v]
      \/ \E j \in 1..n : ivs[j].value = v /\ st.refs[v] = ArenaRef(off[j])
Scanned(st, off, ivs, base, refs, n) ==
    /\ st.active \in Seq(Block) /\ Sorted(st.active)
    /\ st.high \in Nat /\ base <= st.high
    /\ Listed(st, off, ivs, n)
    /\ Housed(st, off, ivs, base, n)
    /\ Named(st, off, ivs, refs, n)
    /\ \A j, l \in 1..n : j < l => Clear(ivs, off, j, l)

\* One more interval.
LEMMA PlaceOnward ==
    ASSUME NEW ivs, InOrder(ivs), NEW base \in Nat, NEW refs, NEW off,
           NEW n \in Nat, n + 1 <= Len(ivs), NEW st, Scanned(st, off, ivs, base, refs, n),
           off[n + 1] = OffsetAt(st, ivs[n + 1], base)
    PROVE  Scanned(Place(st, ivs[n + 1], base), off, ivs, base, refs, n + 1)
<1> DEFINE iv == ivs[n + 1]
           s == Survivors(st, iv)
           o == OffsetAt(st, iv, base)
           x == BlockOf(iv, o)
           to == Place(st, iv, base)
           c == InsertedAt(s, UpperBound(s, x.start), x)
<1>1. n + 1 \in 1..Len(ivs) /\ Len(ivs) \in Nat /\ \A j \in 1..n : j \in 1..Len(ivs)
  BY DEF InOrder
<1>2. iv.start \in Nat /\ iv.bytes \in Nat /\ iv.end \in Int
  BY <1>1 DEF InOrder
<1>3. \A j \in 1..n : ivs[j].start <= iv.start /\ ivs[j].start \in Nat
                      /\ ivs[j].bytes \in Nat /\ ivs[j].end \in Int
  BY <1>1 DEF InOrder
<1>4. /\ s \in Seq(Block) /\ Sorted(s)
      /\ \A i \in 1..Len(st.active) : ~Expired(st.active[i], iv.start) =>
           \E k \in 1..Len(s) : s[k] = st.active[i]
  <2>1. st.active \in Seq(Block) /\ Sorted(st.active)
    BY DEF Scanned
  <2> HIDE DEF iv
  <2> QED
    BY <2>1, SurvivorsAre, Zenon
<1>5. /\ o \in Nat /\ base <= o
      /\ \A i \in 1..Len(s) : s[i].end <= o \/ o + iv.bytes <= s[i].start
  BY <1>2, <1>4, FirstFitIs DEF OffsetAt
<1>6. off[n + 1] = o
  OBVIOUS
<1>7. x \in Block /\ x.start = o /\ x.end = o + iv.bytes
  BY <1>2, <1>5 DEF BlockOf, Block
<1>8. /\ to.active = c
      /\ to.refs = Assigned(st.refs, iv.value, ArenaRef(o))
      /\ to.high = IF o + iv.bytes > st.high THEN o + iv.bytes ELSE st.high
  BY DEF Place, Survivors, OffsetAt, BlockOf
<1>9. st.high \in Nat /\ base <= st.high
  BY DEF Scanned
<1> HIDE DEF iv, s, o, to, x
<1>10. /\ c \in Seq(Block) /\ Sorted(c)
       /\ \E k \in 1..Len(c) : c[k] = x
       /\ \A i \in 1..Len(s) : \E k \in 1..Len(c) : c[k] = s[i]
  <2>1. s \in Seq(Block) /\ Sorted(s)
    BY <1>4
  <2>2. x \in Block
    BY <1>7
  <2> QED
    BY <2>1, <2>2, InsertedSorted, Zenon
<1> HIDE DEF c
<1>11. to.high \in Nat /\ base <= to.high /\ st.high <= to.high /\ o + iv.bytes <= to.high
  <2>1. o + iv.bytes \in Nat
    BY <1>2, <1>5
  <2>2. CASE o + iv.bytes > st.high
    <3>1. to.high = o + iv.bytes
      BY <2>2, <1>8
    <3> QED
      BY <2>1, <2>2, <3>1, <1>9
  <2>3. CASE ~(o + iv.bytes > st.high)
    <3>1. to.high = st.high
      BY <2>3, <1>8
    <3> QED
      BY <2>1, <2>3, <3>1, <1>9
  <2> QED
    BY <2>2, <2>3
<1>12. ASSUME NEW j \in 1..n
       PROVE  \/ IsOver(ivs[j], iv.start)
              \/ \E i \in 1..Len(s) : s[i] = BlockOf(ivs[j], off[j])
  <2> SUFFICES ASSUME ~IsOver(ivs[j], iv.start)
               PROVE  \E i \in 1..Len(s) : s[i] = BlockOf(ivs[j], off[j])
    OBVIOUS
  <2>1. n \in 1..n
    OBVIOUS
  <2>2. ~IsOver(ivs[j], ivs[n].start)
    BY <2>1, <1>2, <1>3 DEF IsOver
  <2>3. PICK i \in 1..Len(st.active) : st.active[i] = BlockOf(ivs[j], off[j])
    BY <2>2 DEF Scanned, Listed
  <2>4. ~Expired(st.active[i], iv.start)
    BY <2>3 DEF BlockOf, IsOver, Expired
  <2> QED
    BY <2>3, <2>4, <1>4
<1>13. Listed(to, off, ivs, n + 1)
  <2>1. ASSUME NEW j \in 1..n
        PROVE  \/ IsOver(ivs[j], iv.start)
               \/ \E i \in 1..Len(c) : c[i] = BlockOf(ivs[j], off[j])
    BY <1>12, <1>10
  <2>2. \E i \in 1..Len(c) : c[i] = BlockOf(iv, off[n + 1])
    BY <1>6, <1>10 DEF x
  <2>3. \A j \in 1..(n + 1) : j \in 1..n \/ j = n + 1
    OBVIOUS
  <2> QED
    BY <2>1, <2>2, <2>3, <1>8 DEF Listed, iv
<1>14. Housed(to, off, ivs, base, n + 1)
  <2>1. ASSUME NEW j \in 1..n
        PROVE  off[j] \in Nat /\ base <= off[j] /\ off[j] + ivs[j].bytes <= to.high
    <3>1. off[j] \in Nat /\ base <= off[j] /\ off[j] + ivs[j].bytes <= st.high
      BY DEF Scanned, Housed
    <3> QED
      BY <3>1, <1>3, <1>9, <1>11
  <2>2. off[n + 1] \in Nat /\ base <= off[n + 1] /\ off[n + 1] + iv.bytes <= to.high
    BY <1>5, <1>6, <1>11
  <2>3. \A j \in 1..(n + 1) : j \in 1..n \/ j = n + 1
    OBVIOUS
  <2> QED
    BY <2>1, <2>2, <2>3 DEF Housed, iv
<1>15. Named(to, off, ivs, refs, n + 1)
  <2> SUFFICES ASSUME NEW v \in DOMAIN to.refs
               PROVE  \/ v \in DOMAIN refs /\ to.refs[v] = refs[v]
                      \/ \E j \in 1..(n + 1) : ivs[j].value = v /\ to.refs[v] = ArenaRef(off[j])
    BY DEF Named
  <2>1. CASE v = iv.value
    <3>1. to.refs[v] = ArenaRef(o)
      BY <2>1, <1>8 DEF Assigned
    <3> QED
      BY <2>1, <3>1, <1>6 DEF iv
  <2>2. CASE v # iv.value
    <3>1. v \in DOMAIN st.refs /\ to.refs[v] = st.refs[v]
      BY <2>2, <1>8 DEF Assigned
    <3>2. \/ v \in DOMAIN refs /\ st.refs[v] = refs[v]
          \/ \E j \in 1..n : ivs[j].value = v /\ st.refs[v] = ArenaRef(off[j])
      BY <3>1 DEF Scanned, Named
    <3>3. \A j \in 1..n : j \in 1..(n + 1)
      OBVIOUS
    <3> QED
      BY <3>1, <3>2, <3>3
  <2> QED
    BY <2>1, <2>2
<1>16. ASSUME NEW j \in 1..(n + 1), NEW l \in 1..(n + 1), j < l
       PROVE  Clear(ivs, off, j, l)
  <2>1. CASE l \in 1..n
    <3>1. j \in 1..n
      BY <2>1, <1>16
    <3> QED
      BY <2>1, <3>1, <1>16 DEF Scanned
  <2>2. CASE l = n + 1
    <3>1. j \in 1..n
      BY <2>2, <1>16
    <3>2. CASE IsOver(ivs[j], iv.start)
      BY <3>2, <2>2 DEF Clear, iv
    <3>3. CASE \E i \in 1..Len(s) : s[i] = BlockOf(ivs[j], off[j])
      <4>1. PICK i \in 1..Len(s) : s[i] = BlockOf(ivs[j], off[j])
        BY <3>3
      <4>2. s[i].start = off[j] /\ s[i].end = off[j] + ivs[j].bytes
        BY <4>1 DEF BlockOf
      <4>3. off[j] + ivs[j].bytes <= o \/ o + iv.bytes <= off[j]
        BY <4>2, <1>5
      <4> QED
        BY <4>3, <2>2, <1>6 DEF Clear, iv
    <3> QED
      BY <3>1, <3>2, <3>3, <1>12
  <2> QED
    BY <2>1, <2>2
<1> QED
  BY <1>8, <1>10, <1>11, <1>13, <1>14, <1>15, <1>16 DEF Scanned, to, iv

\* The table behind PlaceAll, over the first n intervals.
Scan(f, ivs, base, refs, n) ==
    f = [i \in 0..n |-> IF i = 0 THEN [active |-> << >>, refs |-> refs, high |-> base]
                        ELSE Place(f[i - 1], ivs[i], base)]

\* It exists.
LEMMA ScanExists ==
    ASSUME NEW ivs, NEW base, NEW refs, NEW n \in Nat
    PROVE  \E f : Scan(f, ivs, base, refs, n)
<1> DEFINE S == {k \in Nat : \E f : Scan(f, ivs, base, refs, k)}
           none == [active |-> << >>, refs |-> refs, high |-> base]
<1> HIDE DEF none
<1>1. 0 \in S
  <2>1. Scan([i \in 0..0 |-> none], ivs, base, refs, 0)
    BY DEF Scan, none
  <2> QED
    BY <2>1
<1>2. ASSUME NEW k \in Nat, k \in S PROVE k + 1 \in S
  <2>1. PICK f : Scan(f, ivs, base, refs, k)
    BY <1>2
  <2>2. \A i \in 0..k : f[i] = IF i = 0 THEN none ELSE Place(f[i - 1], ivs[i], base)
    BY <2>1 DEF Scan, none
  <2> DEFINE g == [i \in 0..(k + 1) |->
                     IF i = k + 1 THEN Place(f[k], ivs[i], base) ELSE f[i]]
  <2>3. \A i \in 0..(k + 1) : g[i] = IF i = 0 THEN none ELSE Place(g[i - 1], ivs[i], base)
    BY <2>2
  <2>4. g = [i \in 0..(k + 1) |-> g[i]]
    OBVIOUS
  <2> HIDE DEF g
  <2>5. Scan(g, ivs, base, refs, k + 1)
    BY <2>3, <2>4 DEF Scan, none
  <2> QED
    BY <2>5
<1> HIDE DEF S
<1>3. Nat \subseteq S
  BY <1>1, <1>2, Induction
<1> QED
  BY <1>3 DEF S

\* What a linear scan promises: every value where an interval was put, or where it was
\* before; every interval between the base and the high water mark; and any two that
\* are ever alive at once apart.
LEMMA PlaceAllIs ==
    ASSUME NEW ivs, InOrder(ivs), NEW base \in Nat, NEW refs
    PROVE  LET st == PlaceAll(ivs, base, refs) IN
           /\ st.high \in Nat /\ base <= st.high
           /\ \E off : /\ Housed(st, off, ivs, base, Len(ivs))
                       /\ Named(st, off, ivs, refs, Len(ivs))
                       /\ \A j, l \in 1..Len(ivs) : j < l => Clear(ivs, off, j, l)
<1> DEFINE T == CHOOSE f : Scan(f, ivs, base, refs, Len(ivs))
           off == [j \in 1..Len(ivs) |-> OffsetAt(T[j - 1], ivs[j], base)]
<1>1. Len(ivs) \in Nat
  BY DEF InOrder
<1>2. Scan(T, ivs, base, refs, Len(ivs))
  BY <1>1, ScanExists
<1>3. PlaceAll(ivs, base, refs) = T[Len(ivs)]
  BY DEF PlaceAll, Scan
<1> HIDE DEF T
<1>4. /\ T[0] = [active |-> << >>, refs |-> refs, high |-> base]
      /\ \A i \in 1..Len(ivs) : T[i] = Place(T[i - 1], ivs[i], base)
  <2>1. \A i \in 0..Len(ivs) : T[i] = IF i = 0
                                      THEN [active |-> << >>, refs |-> refs, high |-> base]
                                      ELSE Place(T[i - 1], ivs[i], base)
    BY <1>2 DEF Scan
  <2>2. 0 \in 0..Len(ivs) /\ \A i \in 1..Len(ivs) : i \in 0..Len(ivs) /\ i # 0
    BY <1>1
  <2> QED
    BY <2>1, <2>2
<1>5. \A j \in 1..Len(ivs) : off[j] = OffsetAt(T[j - 1], ivs[j], base)
  OBVIOUS
<1> HIDE DEF off
<1> DEFINE S == {n \in Nat : n <= Len(ivs) => Scanned(T[n], off, ivs, base, refs, n)}
<1>6. 0 \in S
  <2>1. T[0].active = << >> /\ T[0].refs = refs /\ T[0].high = base
    BY <1>4
  <2>2. << >> \in Seq(Block) /\ Sorted(<< >>)
    BY DEF Sorted
  <2>3. Listed(T[0], off, ivs, 0) /\ Housed(T[0], off, ivs, base, 0)
    BY DEF Listed, Housed
  <2>4. Named(T[0], off, ivs, refs, 0)
    BY <2>1 DEF Named
  <2>5. Scanned(T[0], off, ivs, base, refs, 0)
    BY <2>1, <2>2, <2>3, <2>4 DEF Scanned
  <2> QED
    BY <2>5
<1>7. ASSUME NEW n \in Nat, n \in S PROVE n + 1 \in S
  <2> SUFFICES ASSUME n + 1 <= Len(ivs)
               PROVE  Scanned(T[n + 1], off, ivs, base, refs, n + 1)
    OBVIOUS
  <2>1. Scanned(T[n], off, ivs, base, refs, n)
    BY <1>1, <1>7
  <2>2. n + 1 \in 1..Len(ivs) /\ (n + 1) - 1 = n
    BY <1>1
  <2>3. /\ T[n + 1] = Place(T[n], ivs[n + 1], base)
        /\ off[n + 1] = OffsetAt(T[n], ivs[n + 1], base)
    BY <1>4, <1>5, <2>2
  <2> QED
    BY <2>1, <2>3, PlaceOnward
<1> HIDE DEF S
<1>8. Nat \subseteq S
  BY <1>6, <1>7, Induction
<1>9. Scanned(T[Len(ivs)], off, ivs, base, refs, Len(ivs))
  BY <1>1, <1>8 DEF S
<1> QED
  BY <1>3, <1>9 DEF Scanned

-----------------------------------------------------------------------------
(* Sizes. *)

\* Rounding up to a multiple of the alignment rounds up, by less than the alignment.
LEMMA RoundUpIs ==
    ASSUME NEW v \in Nat, NEW a \in Nat \ {0}
    PROVE  RoundUp(v, a) \in Nat /\ v <= RoundUp(v, a)
<1> DEFINE w == v + a - 1
           q == w \div a
<1>1. w \in Nat /\ w = a * q + (w % a) /\ w % a \in 0..(a - 1) /\ q \in Nat
  OBVIOUS
<1>2. RoundUp(v, a) = q * a
  BY DEF RoundUp
<1> HIDE DEF q
<1>3. q * a \in Nat /\ a * q = q * a
  BY <1>1
<1>4. w < a * q + a
  BY <1>1, <1>3
<1> QED
  BY <1>2, <1>3, <1>4

\* A value's bytes are whole elements, and room for all of them.
LEMMA ValueBytesAre ==
    ASSUME NEW bb, HasSizes(bb), NEW v \in DOMAIN bb.vals
    PROVE  /\ ValueBytes(bb, v) \in Nat
           /\ Volume(ShapeOf(bb, v)) * kF32 \in Nat
           /\ Volume(ShapeOf(bb, v)) * kF32 <= ValueBytes(bb, v)
<1> DEFINE n == Volume(ShapeOf(bb, v))
<1>1. n \in Nat
  BY DEF HasSizes
<1> HIDE DEF n
<1>2. n * kF32 \in Nat
  BY <1>1 DEF kF32
<1>3. kArenaAlign \in Nat \ {0}
  BY AlignAssumption
<1>4. ValueBytes(bb, v) = RoundUp(n * kF32, kArenaAlign)
  BY DEF ValueBytes, AlignUp, n
<1> QED
  BY <1>2, <1>3, <1>4, RoundUpIs DEF n

-----------------------------------------------------------------------------
(* The intervals of a block. *)

\* What it means for a block that its values have sizes.
LEMMA SizesAre ==
    ASSUME NEW bb, HasSizes(bb)
    PROVE  /\ Len(bb.ops) \in Nat /\ DOMAIN bb.ops = 1..Len(bb.ops)
           /\ \A i \in 1..Len(bb.ops) :
                /\ bb.ops[i].out \in Seq(DOMAIN bb.vals)
                /\ IsMemoryOp(bb.ops[i]) => bb.ops[i].out[1] \in DOMAIN bb.vals
<1>1. Len(bb.ops) \in Nat /\ DOMAIN bb.ops = 1..Len(bb.ops)
  BY DEF HasSizes
<1>2. \A i \in DOMAIN bb.ops :
        /\ bb.ops[i].out \in Seq(DOMAIN bb.vals)
        /\ IsMemoryOp(bb.ops[i]) => Len(bb.ops[i].out) > 0
  BY DEF HasSizes
<1>3. ASSUME NEW D, NEW s \in Seq(D), Len(s) > 0 PROVE s[1] \in D
  <2>1. Len(s) \in Nat /\ \A i \in 1..Len(s) : s[i] \in D
    OBVIOUS
  <2>2. 1 \in 1..Len(s)
    BY <1>3, <2>1
  <2> QED
    BY <2>1, <2>2
<1> QED
  BY <1>1, <1>2, <1>3

\* The table behind Intervals, over the first n operations.
Births(bb, bound, pinned, i) ==
    [k \in 1..Len(Born(bb.ops[i], bound)) |->
       Interval(bb, Born(bb.ops[i], bound)[k], i, pinned)]
Listing(f, bb, bound, pinned, n) ==
    f = [i \in 0..n |-> IF i = 0 THEN << >>
                        ELSE f[i - 1] \o Births(bb, bound, pinned, i)]

\* It exists.
LEMMA ListingExists ==
    ASSUME NEW bb, NEW bound, NEW pinned, NEW n \in Nat
    PROVE  \E f : Listing(f, bb, bound, pinned, n)
<1> DEFINE S == {k \in Nat : \E f : Listing(f, bb, bound, pinned, k)}
<1>1. 0 \in S
  <2>1. Listing([i \in 0..0 |-> << >>], bb, bound, pinned, 0)
    BY DEF Listing
  <2> QED
    BY <2>1
<1>2. ASSUME NEW k \in Nat, k \in S PROVE k + 1 \in S
  <2>1. PICK f : Listing(f, bb, bound, pinned, k)
    BY <1>2
  <2>2. \A i \in 0..k : f[i] = IF i = 0 THEN << >>
                               ELSE f[i - 1] \o Births(bb, bound, pinned, i)
    BY <2>1 DEF Listing
  <2> DEFINE g == [i \in 0..(k + 1) |->
                     IF i = k + 1 THEN f[k] \o Births(bb, bound, pinned, i) ELSE f[i]]
  <2>3. \A i \in 0..(k + 1) : g[i] = IF i = 0 THEN << >>
                                     ELSE g[i - 1] \o Births(bb, bound, pinned, i)
    BY <2>2
  <2>4. g = [i \in 0..(k + 1) |-> g[i]]
    OBVIOUS
  <2> HIDE DEF g
  <2>5. Listing(g, bb, bound, pinned, k + 1)
    BY <2>3, <2>4 DEF Listing
  <2> QED
    BY <2>5
<1> HIDE DEF S
<1>3. Nat \subseteq S
  BY <1>1, <1>2, Induction
<1> QED
  BY <1>3 DEF S

\* A transient: a result, not bound already, of the i-th operation, which computes it.
Transient(bb, bound, v, i) ==
    /\ i \in 1..Len(bb.ops) /\ Defines(bb.ops[i], v)
    /\ ~IsMemoryOp(bb.ops[i]) /\ v \notin bound

\* What an operation gives birth to.
LEMMA BornAre ==
    ASSUME NEW bb, HasSizes(bb), NEW bound, NEW i \in 1..Len(bb.ops)
    PROVE  /\ Born(bb.ops[i], bound) \in Seq(DOMAIN bb.vals)
           /\ \A k \in 1..Len(Born(bb.ops[i], bound)) :
                Transient(bb, bound, Born(bb.ops[i], bound)[k], i)
<1> DEFINE op == bb.ops[i]
           D == DOMAIN bb.vals
           out == op.out
           I == {k \in DOMAIN out : out[k] \notin bound}
<1>1. out \in Seq(D)
  BY SizesAre
<1>2. CASE IsMemoryOp(op)
  <2>1. Born(op, bound) = << >>
    BY <1>2 DEF Born
  <2> QED
    BY <2>1
<1>3. CASE ~IsMemoryOp(op)
  <2>1. Born(op, bound) = Subsequence(out, I)
    BY <1>3 DEF Born
  <2>2. \A k \in I : k \in DOMAIN out /\ out[k] \notin bound
    OBVIOUS
  <2>3. Len(out) \in Nat /\ DOMAIN out = 1..Len(out) /\ \A k \in 1..Len(out) : out[k] \in D
    BY <1>1
  <2> DEFINE t == Born(op, bound)
  <2>5. \A v : Defines(op, v) <=> \E k \in DOMAIN out : out[k] = v
    BY DEF Defines
  <2> HIDE DEF I, out, D, op
  <2>6. t \in Seq(D) /\ \E ix : Picks(t, ix, out, I, Len(out))
    BY <2>1, <2>3, SubsequenceIs
  <2>7. PICK ix : Picks(t, ix, out, I, Len(out))
    BY <2>6
  <2>8. \A k \in 1..Len(t) : ix[k] \in I /\ t[k] = out[ix[k]]
    BY <2>7 DEF Picks
  <2>9. \A k \in 1..Len(t) : Defines(op, t[k]) /\ t[k] \notin bound
    BY <2>2, <2>5, <2>8
  <2> QED
    BY <2>6, <2>9, <1>3 DEF Transient, op, D
<1> QED
  BY <1>2, <1>3

\* A value's last reader from its birth on.
LEMMA LastUseIs ==
    ASSUME NEW bb, HasSizes(bb), NEW v, NEW birth \in 1..Len(bb.ops)
    PROVE  /\ LastUse(bb, v, birth) \in birth..Len(bb.ops)
           /\ \A i \in birth..Len(bb.ops) :
                (\E s \in DOMAIN bb.ops[i].in : bb.ops[i].in[s] = v) =>
                  i <= LastUse(bb, v, birth)
           /\ \/ LastUse(bb, v, birth) = birth
              \/ \E s \in DOMAIN bb.ops[LastUse(bb, v, birth)].in :
                   bb.ops[LastUse(bb, v, birth)].in[s] = v
<1> DEFINE n == Len(bb.ops)
           reads == {i \in birth..n : \E s \in DOMAIN bb.ops[i].in : bb.ops[i].in[s] = v}
           uses == {birth} \cup reads
           back == {n - i : i \in uses}
<1>1. n \in Nat
  BY DEF HasSizes
<1>2. uses \subseteq birth..n /\ uses # {}
  BY <1>1
<1>3. LastUse(bb, v, birth) = CHOOSE i \in uses : \A k \in uses : k <= i
  BY DEF LastUse
<1>4. \A i \in birth..n :
        (\E s \in DOMAIN bb.ops[i].in : bb.ops[i].in[s] = v) => i \in uses
  OBVIOUS
<1>11. \A i \in uses : i = birth \/ \E s \in DOMAIN bb.ops[i].in : bb.ops[i].in[s] = v
  OBVIOUS
<1> HIDE DEF uses, n, reads
<1>5. back \subseteq Nat /\ back # {}
  BY <1>1, <1>2
<1>6. PICK m \in back : \A k \in back : m <= k
  <2> HIDE DEF back
  <2> QED
    BY <1>5, LeastNumber
<1>7. PICK i \in uses : m = n - i
  BY <1>6
<1>8. ASSUME NEW k \in uses PROVE k <= i
  <2>1. n - k \in back
    OBVIOUS
  <2>2. m <= n - k
    BY <2>1, <1>6
  <2>3. k \in birth..n /\ i \in birth..n
    BY <1>2
  <2>4. k \in Nat /\ i \in Nat
    BY <2>3, <1>1
  <2> QED
    BY <2>2, <2>4, <1>1, <1>7
<1>9. \E j \in uses : \A k \in uses : k <= j
  BY <1>8
<1> DEFINE u == CHOOSE j \in uses : \A k \in uses : k <= j
<1>10. u \in uses /\ \A k \in uses : k <= u
  BY <1>9
<1> QED
  BY <1>2, <1>3, <1>4, <1>10, <1>11 DEF n

\* An interval of a transient is one the scan may be given.
LEMMA IntervalIs ==
    ASSUME NEW bb, HasSizes(bb), NEW v \in DOMAIN bb.vals, NEW i \in 1..Len(bb.ops), NEW pinned
    PROVE  LET iv == Interval(bb, v, i, pinned) IN
           /\ iv.value = v /\ iv.start = i /\ iv.bytes = ValueBytes(bb, v)
           /\ iv.end = IF v \in pinned THEN Forever ELSE LastUse(bb, v, i)
           /\ iv.bytes \in Nat /\ Volume(ShapeOf(bb, v)) * kF32 <= iv.bytes
           /\ iv.end \in Int /\ iv.start \in Nat
<1> DEFINE iv == Interval(bb, v, i, pinned)
<1>1. /\ iv.value = v /\ iv.start = i /\ iv.bytes = ValueBytes(bb, v)
      /\ iv.end = IF v \in pinned THEN Forever ELSE LastUse(bb, v, i)
  BY DEF Interval
<1> HIDE DEF iv
<1>2. LastUse(bb, v, i) \in Int /\ Forever \in Int
  <2>1. Len(bb.ops) \in Nat /\ LastUse(bb, v, i) \in i..Len(bb.ops)
    BY LastUseIs DEF HasSizes
  <2> QED
    BY <2>1 DEF Forever
<1>3. ValueBytes(bb, v) \in Nat /\ Volume(ShapeOf(bb, v)) * kF32 <= ValueBytes(bb, v)
  BY ValueBytesAre
<1> QED
  BY <1>1, <1>2, <1>3 DEF iv

\* What the first n operations give birth to, in the order of their births.
Gathered(t, bb, bound, pinned, n) ==
    /\ t \in Seq({Interval(bb, v, i, pinned) : v \in DOMAIN bb.vals, i \in 1..Len(bb.ops)})
    /\ \A j \in 1..Len(t) : \E i \in 1..n : \E v \in DOMAIN bb.vals :
         Transient(bb, bound, v, i) /\ t[j] = Interval(bb, v, i, pinned)
    /\ \A j, l \in 1..Len(t) : j < l => t[j].start <= t[l].start

\* What one more gives birth to.
LEMMA GatheredOnward ==
    ASSUME NEW bb, HasSizes(bb), NEW bound, NEW pinned, NEW n \in Nat, n + 1 <= Len(bb.ops),
           NEW t, Gathered(t, bb, bound, pinned, n)
    PROVE  Gathered(t \o Births(bb, bound, pinned, n + 1), bb, bound, pinned, n + 1)
<1> DEFINE D == DOMAIN bb.vals
           E == {Interval(bb, v, i, pinned) : v \in D, i \in 1..Len(bb.ops)}
           born == Born(bb.ops[n + 1], bound)
           new == Births(bb, bound, pinned, n + 1)
           on == t \o new
<1>1. Len(bb.ops) \in Nat /\ n + 1 \in 1..Len(bb.ops) /\ \A i \in 1..n : i \in 1..Len(bb.ops)
  BY DEF HasSizes
<1>2. born \in Seq(D) /\ \A k \in 1..Len(born) : Transient(bb, bound, born[k], n + 1)
  BY <1>1, BornAre
<1>3. Len(born) \in Nat /\ \A k \in 1..Len(born) : born[k] \in D
  BY <1>2
<1>4. new = [k \in 1..Len(born) |-> Interval(bb, born[k], n + 1, pinned)]
  BY DEF Births
<1> HIDE DEF born, D
<1>5. \A k \in 1..Len(born) : Interval(bb, born[k], n + 1, pinned) \in E
  BY <1>1, <1>3
<1> HIDE DEF new, E
<1>6. new \in Seq(E) /\ Len(new) = Len(born)
      /\ \A k \in 1..Len(new) : new[k] = Interval(bb, born[k], n + 1, pinned)
  BY <1>3, <1>4, <1>5
<1>7. t \in Seq(E)
  BY DEF Gathered, E, D
<1>8. /\ on \in Seq(E) /\ Len(on) = Len(t) + Len(new) /\ Len(t) \in Nat /\ Len(new) \in Nat
      /\ \A j \in 1..Len(t) : on[j] = t[j]
      /\ \A j \in 1..Len(on) : j > Len(t) => on[j] = new[j - Len(t)]
  <2>0. new \in Seq(E)
    BY <1>6
  <2>1. /\ on \in Seq(E) /\ Len(on) = Len(t) + Len(new) /\ Len(t) \in Nat /\ Len(new) \in Nat
        /\ \A j \in 1..(Len(t) + Len(new)) :
             on[j] = IF j <= Len(t) THEN t[j] ELSE new[j - Len(t)]
    BY <2>0, <1>7, ConcatIs, Zenon
  <2> HIDE DEF on
  <2>2. ASSUME NEW j \in 1..Len(t) PROVE on[j] = t[j]
    <3>1. j \in 1..(Len(t) + Len(new)) /\ j <= Len(t)
      BY <2>1
    <3> QED
      BY <2>1, <3>1
  <2>3. ASSUME NEW j \in 1..Len(on), j > Len(t) PROVE on[j] = new[j - Len(t)]
    <3>1. j \in 1..(Len(t) + Len(new)) /\ ~(j <= Len(t))
      BY <2>1, <2>3
    <3> QED
      BY <2>1, <3>1
  <2> QED
    BY <2>1, <2>2, <2>3
<1> HIDE DEF on
<1>9. ASSUME NEW j \in 1..Len(on)
      PROVE  /\ j <= Len(t) => on[j] = t[j] /\ j \in 1..Len(t)
             /\ j > Len(t) => /\ j - Len(t) \in 1..Len(born)
                              /\ on[j] = Interval(bb, born[j - Len(t)], n + 1, pinned)
  <2>1. CASE j <= Len(t)
    BY <2>1, <1>8
  <2>2. CASE j > Len(t)
    <3>1. j - Len(t) \in 1..Len(new)
      BY <2>2, <1>8
    <3>2. on[j] = new[j - Len(t)]
      BY <2>2, <1>8
    <3>3. new[j - Len(t)] = Interval(bb, born[j - Len(t)], n + 1, pinned)
      BY <3>1, <1>6
    <3>4. j - Len(t) \in 1..Len(born) /\ ~(j <= Len(t))
      BY <2>2, <3>1, <1>6, <1>8
    <3> QED
      BY <3>2, <3>3, <3>4
  <2> QED
    BY <2>1, <2>2, <1>8
<1>10. ASSUME NEW j \in 1..Len(t) PROVE t[j].start \in Nat /\ t[j].start <= n
  <2>0. \E i \in 1..n : \E v \in D :
          Transient(bb, bound, v, i) /\ t[j] = Interval(bb, v, i, pinned)
    BY DEF Gathered, D
  <2>1. PICK i \in 1..n : \E v \in D : t[j] = Interval(bb, v, i, pinned)
    BY <2>0
  <2>2. PICK v \in D : t[j] = Interval(bb, v, i, pinned)
    BY <2>1
  <2>3. t[j].start = i
    BY <2>2 DEF Interval
  <2> QED
    BY <2>3
<1>11. \A k : Interval(bb, born[k], n + 1, pinned).start = n + 1
  BY DEF Interval
<1>12. ASSUME NEW j \in 1..Len(on)
       PROVE  \E i \in 1..(n + 1) : \E v \in D :
                Transient(bb, bound, v, i) /\ on[j] = Interval(bb, v, i, pinned)
  <2>1. CASE j <= Len(t)
    <3>1. on[j] = t[j] /\ j \in 1..Len(t)
      BY <2>1, <1>9
    <3>2. \E i \in 1..n : \E v \in D :
            Transient(bb, bound, v, i) /\ t[j] = Interval(bb, v, i, pinned)
      BY <3>1 DEF Gathered, D
    <3>3. \A i \in 1..n : i \in 1..(n + 1)
      OBVIOUS
    <3> QED
      BY <3>1, <3>2, <3>3
  <2>2. CASE j > Len(t)
    <3>1. /\ j - Len(t) \in 1..Len(born)
          /\ on[j] = Interval(bb, born[j - Len(t)], n + 1, pinned)
      BY <2>2, <1>9
    <3>2. n + 1 \in 1..(n + 1)
      OBVIOUS
    <3> QED
      BY <3>1, <3>2, <1>2, <1>3
  <2> QED
    BY <2>1, <2>2, <1>8
<1>13. ASSUME NEW j \in 1..Len(on), NEW l \in 1..Len(on), j < l
       PROVE  on[j].start <= on[l].start
  <2>1. CASE l <= Len(t)
    <3>1. j <= Len(t)
      BY <2>1, <1>8, <1>13
    <3>2. on[j] = t[j] /\ on[l] = t[l] /\ j \in 1..Len(t) /\ l \in 1..Len(t)
      BY <2>1, <3>1, <1>9
    <3> QED
      BY <3>2, <1>13 DEF Gathered
  <2>2. CASE l > Len(t) /\ j <= Len(t)
    <3>1. on[j] = t[j] /\ j \in 1..Len(t)
      BY <2>2, <1>9
    <3>2. t[j].start \in Nat /\ t[j].start <= n
      BY <3>1, <1>10
    <3>3. on[l] = Interval(bb, born[l - Len(t)], n + 1, pinned)
      BY <2>2, <1>9
    <3>4. on[l].start = n + 1
      BY <3>3, <1>11
    <3> QED
      BY <3>1, <3>2, <3>4
  <2>3. CASE l > Len(t) /\ j > Len(t)
    <3>1. /\ on[j] = Interval(bb, born[j - Len(t)], n + 1, pinned)
          /\ on[l] = Interval(bb, born[l - Len(t)], n + 1, pinned)
      BY <2>3, <1>9
    <3>2. on[j].start = n + 1 /\ on[l].start = n + 1
      BY <3>1, <1>11
    <3> QED
      BY <3>2
  <2> QED
    BY <2>1, <2>2, <2>3, <1>8
<1>14. on \in Seq({Interval(bb, v, i, pinned) : v \in DOMAIN bb.vals, i \in 1..Len(bb.ops)})
  BY <1>8 DEF E, D
<1>15. Gathered(on, bb, bound, pinned, n + 1)
  BY <1>12, <1>13, <1>14 DEF Gathered, D
<1> QED
  BY <1>15 DEF on, new

\* Intervals is in order, and lists transients only.
LEMMA IntervalsAre ==
    ASSUME NEW bb, HasSizes(bb), NEW bound, NEW pinned
    PROVE  LET ivs == Intervals(bb, bound, pinned) IN
           /\ InOrder(ivs)
           /\ \A j \in 1..Len(ivs) : \E v \in DOMAIN bb.vals : \E i \in 1..Len(bb.ops) :
                Transient(bb, bound, v, i) /\ ivs[j] = Interval(bb, v, i, pinned)
<1> DEFINE n == Len(bb.ops)
           T == CHOOSE f : Listing(f, bb, bound, pinned, n)
           ivs == Intervals(bb, bound, pinned)
<1>1. n \in Nat
  BY DEF HasSizes
<1>2. Listing(T, bb, bound, pinned, n)
  BY <1>1, ListingExists
<1>3. ivs = T[n]
  BY DEF Intervals, Listing, Births
<1> HIDE DEF T, n, ivs
<1>4. /\ T[0] = << >>
      /\ \A i \in 1..n : T[i] = T[i - 1] \o Births(bb, bound, pinned, i)
  <2>1. \A i \in 0..n : T[i] = IF i = 0 THEN << >>
                               ELSE T[i - 1] \o Births(bb, bound, pinned, i)
    BY <1>2 DEF Listing
  <2>2. 0 \in 0..n /\ \A i \in 1..n : i \in 0..n /\ i # 0
    BY <1>1
  <2> QED
    BY <2>1, <2>2
<1> DEFINE S == {k \in Nat : k <= n => Gathered(T[k], bb, bound, pinned, k)}
<1>5. 0 \in S
  <2>1. Gathered(<< >>, bb, bound, pinned, 0)
    BY DEF Gathered
  <2> QED
    BY <2>1, <1>4
<1>6. ASSUME NEW k \in Nat, k \in S PROVE k + 1 \in S
  <2> SUFFICES ASSUME k + 1 <= n PROVE Gathered(T[k + 1], bb, bound, pinned, k + 1)
    OBVIOUS
  <2>1. Gathered(T[k], bb, bound, pinned, k)
    BY <1>1, <1>6
  <2>2. k + 1 \in 1..n /\ (k + 1) - 1 = k
    BY <1>1
  <2>3. T[k + 1] = T[k] \o Births(bb, bound, pinned, k + 1)
    BY <1>4, <2>2
  <2> QED
    BY <2>1, <2>3, GatheredOnward DEF n
<1> HIDE DEF S
<1>7. Nat \subseteq S
  BY <1>5, <1>6, Induction
<1>8. Gathered(ivs, bb, bound, pinned, n)
  BY <1>1, <1>3, <1>7 DEF S
<1>9. Len(ivs) \in Nat
  BY <1>8 DEF Gathered
<1>10. ASSUME NEW j \in 1..Len(ivs)
       PROVE  \E v \in DOMAIN bb.vals : \E i \in 1..n :
                Transient(bb, bound, v, i) /\ ivs[j] = Interval(bb, v, i, pinned)
  BY <1>8 DEF Gathered
<1>11. ASSUME NEW j \in 1..Len(ivs)
       PROVE  ivs[j].start \in Nat /\ ivs[j].bytes \in Nat /\ ivs[j].end \in Int
  <2>1. PICK v \in DOMAIN bb.vals : \E i \in 1..n : ivs[j] = Interval(bb, v, i, pinned)
    BY <1>10
  <2>2. PICK i \in 1..n : ivs[j] = Interval(bb, v, i, pinned)
    BY <2>1
  <2> QED
    BY <2>2, IntervalIs DEF n
<1>12. InOrder(ivs)
  BY <1>8, <1>9, <1>11 DEF InOrder, Gathered
<1> QED
  BY <1>10, <1>12 DEF n, ivs

-----------------------------------------------------------------------------
(* The slots and the frozen weights. *)

\* Slots that lie apart, before the cursor.
InSlots(bb, st) ==
    /\ st.cursor \in Nat
    /\ \A v \in DOMAIN st.refs :
         /\ v \in DOMAIN bb.vals /\ st.refs[v].off \in Nat
         /\ st.refs[v].off + ValueBytes(bb, v) <= st.cursor
    /\ \A v, w \in DOMAIN st.refs :
         \/ v = w
         \/ st.refs[v].off + ValueBytes(bb, v) <= st.refs[w].off
         \/ st.refs[w].off + ValueBytes(bb, w) <= st.refs[v].off

\* One more slot.
LEMMA BindSlotIs ==
    ASSUME NEW bb, HasSizes(bb), NEW st, InSlots(bb, st), NEW x \in DOMAIN bb.vals
    PROVE  InSlots(bb, BindSlot(bb, st, x))
<1> DEFINE to == BindSlot(bb, st, x)
           n == ValueBytes(bb, x)
<1>1. to.refs = Assigned(st.refs, x, ArenaRef(st.cursor)) /\ to.cursor = st.cursor + n
  BY DEF BindSlot
<1>2. n \in Nat /\ st.cursor \in Nat
  BY ValueBytesAre DEF InSlots
<1> HIDE DEF to, n
<1>3. /\ DOMAIN to.refs = DOMAIN st.refs \cup {x}
      /\ to.refs[x] = ArenaRef(st.cursor)
      /\ \A v \in DOMAIN st.refs : v # x => to.refs[v] = st.refs[v]
  BY <1>1 DEF Assigned
<1>4. to.refs[x].off = st.cursor
  BY <1>3 DEF ArenaRef
<1>5. ASSUME NEW v \in DOMAIN to.refs, v # x
      PROVE  /\ v \in DOMAIN st.refs /\ v \in DOMAIN bb.vals
             /\ to.refs[v] = st.refs[v] /\ to.refs[v].off \in Nat
             /\ ValueBytes(bb, v) \in Nat
             /\ to.refs[v].off + ValueBytes(bb, v) <= st.cursor
  <2>1. v \in DOMAIN st.refs /\ to.refs[v] = st.refs[v]
    BY <1>3, <1>5
  <2>2. /\ v \in DOMAIN bb.vals /\ st.refs[v].off \in Nat
        /\ st.refs[v].off + ValueBytes(bb, v) <= st.cursor
    BY <2>1 DEF InSlots
  <2>3. ValueBytes(bb, v) \in Nat
    BY <2>2, ValueBytesAre
  <2> QED
    BY <2>1, <2>2, <2>3
<1>6. ASSUME NEW v \in DOMAIN to.refs
      PROVE  /\ v \in DOMAIN bb.vals /\ to.refs[v].off \in Nat
             /\ to.refs[v].off + ValueBytes(bb, v) <= to.cursor
  <2>1. CASE v = x
    BY <2>1, <1>1, <1>2, <1>4 DEF n
  <2>2. CASE v # x
    BY <2>2, <1>1, <1>2, <1>5
  <2> QED
    BY <2>1, <2>2
<1>7. ASSUME NEW v \in DOMAIN to.refs, NEW w \in DOMAIN to.refs, v # w
      PROVE  \/ to.refs[v].off + ValueBytes(bb, v) <= to.refs[w].off
             \/ to.refs[w].off + ValueBytes(bb, w) <= to.refs[v].off
  <2>1. CASE v = x
    BY <2>1, <1>4, <1>5, <1>7
  <2>2. CASE w = x
    BY <2>2, <1>4, <1>5, <1>7
  <2>3. CASE v # x /\ w # x
    BY <2>3, <1>5, <1>7 DEF InSlots
  <2> QED
    BY <2>1, <2>2, <2>3
<1>8. to.cursor \in Nat
  BY <1>1, <1>2
<1> QED
  BY <1>6, <1>7, <1>8 DEF InSlots, to

\* The table behind BindSlots, over the first n values.
Slotting(f, bb, st, values, n) ==
    f = [i \in 0..n |-> IF i = 0 THEN st ELSE BindSlot(bb, f[i - 1], values[i])]

\* It exists.
LEMMA SlottingExists ==
    ASSUME NEW bb, NEW st, NEW values, NEW n \in Nat
    PROVE  \E f : Slotting(f, bb, st, values, n)
<1> DEFINE S == {k \in Nat : \E f : Slotting(f, bb, st, values, k)}
<1>1. 0 \in S
  <2>1. Slotting([i \in 0..0 |-> st], bb, st, values, 0)
    BY DEF Slotting
  <2> QED
    BY <2>1
<1>2. ASSUME NEW k \in Nat, k \in S PROVE k + 1 \in S
  <2>1. PICK f : Slotting(f, bb, st, values, k)
    BY <1>2
  <2>2. \A i \in 0..k : f[i] = IF i = 0 THEN st ELSE BindSlot(bb, f[i - 1], values[i])
    BY <2>1 DEF Slotting
  <2> DEFINE g == [i \in 0..(k + 1) |->
                     IF i = k + 1 THEN BindSlot(bb, f[k], values[i]) ELSE f[i]]
  <2>3. \A i \in 0..(k + 1) : g[i] = IF i = 0 THEN st ELSE BindSlot(bb, g[i - 1], values[i])
    BY <2>2
  <2>4. g = [i \in 0..(k + 1) |-> g[i]]
    OBVIOUS
  <2> HIDE DEF g
  <2>5. Slotting(g, bb, st, values, k + 1)
    BY <2>3, <2>4 DEF Slotting
  <2> QED
    BY <2>5
<1> HIDE DEF S
<1>3. Nat \subseteq S
  BY <1>1, <1>2, Induction
<1> QED
  BY <1>3 DEF S

\* BindSlots gives every value a slot of its own.
LEMMA BindSlotsAre ==
    ASSUME NEW bb, HasSizes(bb), NEW st, InSlots(bb, st),
           NEW values, Len(values) \in Nat, \A i \in 1..Len(values) : values[i] \in DOMAIN bb.vals
    PROVE  InSlots(bb, BindSlots(bb, st, values))
<1> DEFINE n == Len(values)
           T == CHOOSE f : Slotting(f, bb, st, values, n)
<1>1. Slotting(T, bb, st, values, n)
  BY SlottingExists
<1>2. BindSlots(bb, st, values) = T[n]
  BY DEF BindSlots, Slotting
<1> HIDE DEF T, n
<1>3. n \in Nat
  BY DEF n
<1>4. T[0] = st /\ \A i \in 1..n : T[i] = BindSlot(bb, T[i - 1], values[i])
  <2>1. \A i \in 0..n : T[i] = IF i = 0 THEN st ELSE BindSlot(bb, T[i - 1], values[i])
    BY <1>1 DEF Slotting
  <2>2. 0 \in 0..n /\ \A i \in 1..n : i \in 0..n /\ i # 0
    BY <1>3
  <2> QED
    BY <2>1, <2>2
<1> DEFINE S == {k \in Nat : k <= n => InSlots(bb, T[k])}
<1>5. 0 \in S
  BY <1>4
<1>6. ASSUME NEW k \in Nat, k \in S PROVE k + 1 \in S
  <2> SUFFICES ASSUME k + 1 <= n PROVE InSlots(bb, T[k + 1])
    OBVIOUS
  <2>1. InSlots(bb, T[k])
    BY <1>3, <1>6
  <2>2. k + 1 \in 1..n /\ (k + 1) - 1 = k
    BY <1>3
  <2>3. T[k + 1] = BindSlot(bb, T[k], values[k + 1]) /\ values[k + 1] \in DOMAIN bb.vals
    BY <1>4, <2>2 DEF n
  <2> QED
    BY <2>1, <2>3, BindSlotIs
<1> HIDE DEF S
<1>7. Nat \subseteq S
  BY <1>5, <1>6, Induction
<1> QED
  BY <1>2, <1>3, <1>7 DEF S

\* What keeps the references into the arena.
KeepsArena(to, from) ==
    \A v \in DOMAIN to : to[v].sp = "arena" => v \in DOMAIN from /\ to[v] = from[v]

\* The table behind PackAll, over the first n weights.
Packing(f, bb, values, refs, nar, n) ==
    f = [i \in 0..n |->
           IF i = 0 THEN [packs |-> << >>, cursor |-> 0, refs |-> refs, scales |-> Unbound]
           ELSE Packed(bb, f[i - 1], values[i], nar)]

\* It exists.
LEMMA PackingExists ==
    ASSUME NEW bb, NEW values, NEW refs, NEW nar, NEW n \in Nat
    PROVE  \E f : Packing(f, bb, values, refs, nar, n)
<1> DEFINE S == {k \in Nat : \E f : Packing(f, bb, values, refs, nar, k)}
           none == [packs |-> << >>, cursor |-> 0, refs |-> refs, scales |-> Unbound]
<1> HIDE DEF none
<1>1. 0 \in S
  <2>1. Packing([i \in 0..0 |-> none], bb, values, refs, nar, 0)
    BY DEF Packing, none
  <2> QED
    BY <2>1
<1>2. ASSUME NEW k \in Nat, k \in S PROVE k + 1 \in S
  <2>1. PICK f : Packing(f, bb, values, refs, nar, k)
    BY <1>2
  <2>2. \A i \in 0..k : f[i] = IF i = 0 THEN none ELSE Packed(bb, f[i - 1], values[i], nar)
    BY <2>1 DEF Packing, none
  <2> DEFINE g == [i \in 0..(k + 1) |->
                     IF i = k + 1 THEN Packed(bb, f[k], values[i], nar) ELSE f[i]]
  <2>3. \A i \in 0..(k + 1) : g[i] = IF i = 0 THEN none
                                     ELSE Packed(bb, g[i - 1], values[i], nar)
    BY <2>2
  <2>4. g = [i \in 0..(k + 1) |-> g[i]]
    OBVIOUS
  <2> HIDE DEF g
  <2>5. Packing(g, bb, values, refs, nar, k + 1)
    BY <2>3, <2>4 DEF Packing, none
  <2> QED
    BY <2>5
<1> HIDE DEF S
<1>3. Nat \subseteq S
  BY <1>1, <1>2, Induction
<1> QED
  BY <1>3 DEF S

\* Packing the frozen weights binds nothing in the arena.
LEMMA PackAllIs ==
    ASSUME NEW bb, NEW values, Len(values) \in Nat, NEW refs, NEW nar
    PROVE  KeepsArena(PackAll(bb, values, refs, nar).refs, refs)
<1> DEFINE n == Len(values)
           T == CHOOSE f : Packing(f, bb, values, refs, nar, n)
           none == [packs |-> << >>, cursor |-> 0, refs |-> refs, scales |-> Unbound]
<1>1. Packing(T, bb, values, refs, nar, n)
  BY PackingExists
<1>2. PackAll(bb, values, refs, nar) = T[n]
  BY DEF PackAll, Packing
<1> HIDE DEF T, n
<1>3. n \in Nat
  BY DEF n
<1>4. T[0] = none /\ \A i \in 1..n : T[i] = Packed(bb, T[i - 1], values[i], nar)
  <2>1. \A i \in 0..n : T[i] = IF i = 0 THEN none ELSE Packed(bb, T[i - 1], values[i], nar)
    BY <1>1 DEF Packing
  <2>2. 0 \in 0..n /\ \A i \in 1..n : i \in 0..n /\ i # 0
    BY <1>3
  <2> QED
    BY <2>1, <2>2
<1> DEFINE S == {k \in Nat : k <= n => KeepsArena(T[k].refs, refs)}
<1>5. 0 \in S
  BY <1>4 DEF KeepsArena
<1>6. ASSUME NEW k \in Nat, k \in S PROVE k + 1 \in S
  <2> SUFFICES ASSUME k + 1 <= n PROVE KeepsArena(T[k + 1].refs, refs)
    OBVIOUS
  <2>1. KeepsArena(T[k].refs, refs)
    BY <1>3, <1>6
  <2>2. k + 1 \in 1..n /\ (k + 1) - 1 = k
    BY <1>3
  <2>3. T[k + 1] = Packed(bb, T[k], values[k + 1], nar)
    BY <1>4, <2>2
  <2>4. T[k + 1].refs = Assigned(T[k].refs, values[k + 1], RodataRef(AlignUp(T[k].cursor)))
    BY <2>3 DEF Packed
  <2>5. \A off : RodataRef(off).sp # "arena"
    BY DEF RodataRef
  <2> QED
    BY <2>1, <2>4, <2>5 DEF KeepsArena, Assigned
<1> HIDE DEF S
<1>7. Nat \subseteq S
  BY <1>5, <1>6, Induction
<1> QED
  BY <1>2, <1>3, <1>7 DEF S

\* The values the memory operations of one kind declare.
LEMMA DeclaredAre ==
    ASSUME NEW bb, HasSizes(bb), NEW mn \in {"sc_mem.weight", "sc_mem.param"}
    PROVE  /\ Len(Declared(bb, mn)) \in Nat
           /\ \A i \in 1..Len(Declared(bb, mn)) : Declared(bb, mn)[i] \in DOMAIN bb.vals
<1> DEFINE n == Len(bb.ops)
           I == {i \in DOMAIN bb.ops : bb.ops[i].mn = mn}
           D == {bb.ops[i] : i \in 1..n}
           t == Subsequence(bb.ops, I)
           V == DOMAIN bb.vals
<1>1. /\ n \in Nat /\ DOMAIN bb.ops = 1..n
      /\ \A i \in 1..n : IsMemoryOp(bb.ops[i]) => bb.ops[i].out[1] \in V
  BY SizesAre
<1>2. Declared(bb, mn) = [i \in 1..Len(t) |-> t[i].out[1]]
  BY DEF Declared
<1>3. \A i \in I : i \in 1..n /\ IsMemoryOp(bb.ops[i])
  BY <1>1 DEF IsMemoryOp
<1>4. \A i \in 1..n : bb.ops[i] \in D
  OBVIOUS
<1> HIDE DEF D, V, n, I
<1>5. t \in Seq(D) /\ \E ix : Picks(t, ix, bb.ops, I, n)
  BY <1>1, <1>4, SubsequenceIs DEF n
<1>6. PICK ix : Picks(t, ix, bb.ops, I, n)
  BY <1>5
<1>7. Len(t) \in Nat
  BY <1>5
<1> HIDE DEF t
<1>8. \A k \in 1..Len(t) : t[k].out[1] \in V
  BY <1>1, <1>3, <1>6 DEF Picks
<1> HIDE DEF V
<1> DEFINE d == [i \in 1..Len(t) |-> t[i].out[1]]
<1>9. d \in Seq(V) /\ Len(d) = Len(t)
  BY <1>7, <1>8
<1> QED
  BY <1>2, <1>7, <1>8, <1>9 DEF V

-----------------------------------------------------------------------------
(* The arena. *)

SizeOf(bb, v) == Volume(ShapeOf(bb, v)) * kF32
\* The i-th operation computes v.
RunsAt(bb, v, i) == i \in 1..Len(bb.ops) /\ Defines(bb.ops[i], v) /\ ~IsMemoryOp(bb.ops[i])
\* Two values never alive at once, of which the i-th and the l-th operation compute.
InTurn(bb, pinned, v, w) ==
    \E i, l : /\ RunsAt(bb, v, i) /\ RunsAt(bb, w, l)
              /\ IsOver(Interval(bb, v, i, pinned), l) \/ IsOver(Interval(bb, w, l, pinned), i)
ApartIn(bb, refs, v, w) ==
    \/ refs[v].off + SizeOf(bb, v) <= refs[w].off
    \/ refs[w].off + SizeOf(bb, w) <= refs[v].off

\* What has room for more has room for less: a value lies within its interval's bytes.
LEMMA RoomToSpare ==
    ASSUME NEW from \in Nat, NEW to \in Nat, NEW size \in Nat, NEW room \in Nat,
           size <= room, from + room <= to
    PROVE  from + size <= to
  OBVIOUS

\* A linear scan leaves what is bound alone, and puts the transients above the base,
\* apart or in turn.
LEMMA LinearScanIs ==
    ASSUME NEW bb, HasSizes(bb), NEW base \in Nat, NEW refs, NEW pinned
    PROVE  LET st == LinearScanTransients(bb, base, refs, pinned) IN
           /\ st.high \in Nat /\ base <= st.high
           /\ \A v \in DOMAIN st.refs \cap DOMAIN refs : st.refs[v] = refs[v]
           /\ \A v \in DOMAIN st.refs \ DOMAIN refs :
                /\ v \in DOMAIN bb.vals /\ st.refs[v].off \in Nat
                /\ base <= st.refs[v].off /\ st.refs[v].off + SizeOf(bb, v) <= st.high
           /\ \A v, w \in DOMAIN st.refs \ DOMAIN refs :
                v = w \/ ApartIn(bb, st.refs, v, w) \/ InTurn(bb, pinned, v, w)
<1> DEFINE ivs == Intervals(bb, DOMAIN refs, pinned)
           st == PlaceAll(ivs, base, refs)
           n == Len(ivs)
           V == DOMAIN bb.vals
<1>1. LinearScanTransients(bb, base, refs, pinned) = st
  BY DEF LinearScanTransients
<1>2. /\ InOrder(ivs)
      /\ \A j \in 1..n : \E v \in V : \E i \in 1..Len(bb.ops) :
           Transient(bb, DOMAIN refs, v, i) /\ ivs[j] = Interval(bb, v, i, pinned)
  BY IntervalsAre
<1> HIDE DEF ivs, n, V
<1>3. /\ st.high \in Nat /\ base <= st.high
      /\ \E off : /\ Housed(st, off, ivs, base, n)
                  /\ Named(st, off, ivs, refs, n)
                  /\ \A j, l \in 1..n : j < l => Clear(ivs, off, j, l)
  BY <1>2, PlaceAllIs DEF n
<1> HIDE DEF st
<1>4. PICK off : /\ Housed(st, off, ivs, base, n)
                 /\ Named(st, off, ivs, refs, n)
                 /\ \A j, l \in 1..n : j < l => Clear(ivs, off, j, l)
  BY <1>3
<1>5. n \in Nat
  BY <1>2 DEF InOrder, n
<1> DEFINE Holds(j, v, i) == /\ RunsAt(bb, v, i) /\ v \notin DOMAIN refs
                             /\ ivs[j] = Interval(bb, v, i, pinned)
                             /\ ivs[j].value = v /\ ivs[j].start = i
                             /\ ivs[j].bytes \in Nat /\ SizeOf(bb, v) <= ivs[j].bytes
                             /\ SizeOf(bb, v) \in Nat
<1>6. ASSUME NEW j \in 1..n
      PROVE  \E v \in V : \E i \in 1..Len(bb.ops) : Holds(j, v, i)
  <2>1. PICK v \in V : \E i \in 1..Len(bb.ops) :
               Transient(bb, DOMAIN refs, v, i) /\ ivs[j] = Interval(bb, v, i, pinned)
    BY <1>2
  <2>2. PICK i \in 1..Len(bb.ops) :
               Transient(bb, DOMAIN refs, v, i) /\ ivs[j] = Interval(bb, v, i, pinned)
    BY <2>1
  <2>3. v \in DOMAIN bb.vals
    BY DEF V
  <2>4. /\ ivs[j].value = v /\ ivs[j].start = i
        /\ ivs[j].bytes \in Nat /\ SizeOf(bb, v) <= ivs[j].bytes
    BY <2>2, <2>3, IntervalIs DEF SizeOf
  <2>5. SizeOf(bb, v) \in Nat
    BY <2>3, ValueBytesAre DEF SizeOf
  <2>6. RunsAt(bb, v, i) /\ v \notin DOMAIN refs
    BY <2>2 DEF Transient, RunsAt
  <2> QED
    BY <2>2, <2>4, <2>5, <2>6
<1>7. ASSUME NEW v \in DOMAIN st.refs \cap DOMAIN refs PROVE st.refs[v] = refs[v]
  <2>1. \/ st.refs[v] = refs[v]
        \/ \E j \in 1..n : ivs[j].value = v
    BY <1>4 DEF Named
  <2>2. ASSUME NEW j \in 1..n PROVE ivs[j].value \notin DOMAIN refs
    BY <1>6
  <2> QED
    BY <2>1, <2>2
<1>8. ASSUME NEW v \in DOMAIN st.refs \ DOMAIN refs
      PROVE  \E j \in 1..n : \E i \in 1..Len(bb.ops) :
               v \in V /\ Holds(j, v, i) /\ st.refs[v].off = off[j]
  <2>1. PICK j \in 1..n : ivs[j].value = v /\ st.refs[v] = ArenaRef(off[j])
    BY <1>4 DEF Named
  <2>2. PICK w \in V : \E i \in 1..Len(bb.ops) : Holds(j, w, i)
    BY <1>6
  <2>3. w = v
    BY <2>1, <2>2
  <2>4. st.refs[v].off = off[j]
    BY <2>1 DEF ArenaRef
  <2> QED
    BY <2>2, <2>3, <2>4
<1>9. ASSUME NEW v \in DOMAIN st.refs \ DOMAIN refs
      PROVE  /\ v \in V /\ st.refs[v].off \in Nat
             /\ base <= st.refs[v].off /\ st.refs[v].off + SizeOf(bb, v) <= st.high
  <2>1. PICK j \in 1..n : \E i \in 1..Len(bb.ops) :
               v \in V /\ Holds(j, v, i) /\ st.refs[v].off = off[j]
    BY <1>8
  <2>2. /\ v \in V /\ st.refs[v].off = off[j]
        /\ ivs[j].bytes \in Nat /\ SizeOf(bb, v) <= ivs[j].bytes /\ SizeOf(bb, v) \in Nat
    BY <2>1
  <2>3. off[j] \in Nat /\ base <= off[j] /\ off[j] + ivs[j].bytes <= st.high
    BY <1>4 DEF Housed
  <2> QED
    BY <2>2, <2>3, <1>3
<1>10. ASSUME NEW v \in DOMAIN st.refs \ DOMAIN refs, NEW w \in DOMAIN st.refs \ DOMAIN refs,
              v # w
       PROVE  ApartIn(bb, st.refs, v, w) \/ InTurn(bb, pinned, v, w)
  <2>1. PICK j \in 1..n : \E i \in 1..Len(bb.ops) :
               v \in V /\ Holds(j, v, i) /\ st.refs[v].off = off[j]
    BY <1>8
  <2>2. PICK i \in 1..Len(bb.ops) : Holds(j, v, i) /\ st.refs[v].off = off[j]
    BY <2>1
  <2>3. PICK k \in 1..n : \E l \in 1..Len(bb.ops) :
               w \in V /\ Holds(k, w, l) /\ st.refs[w].off = off[k]
    BY <1>8
  <2>4. PICK l \in 1..Len(bb.ops) : Holds(k, w, l) /\ st.refs[w].off = off[k]
    BY <2>3
  <2>5. j # k
    BY <2>2, <2>4, <1>10
  <2>6. /\ RunsAt(bb, v, i) /\ RunsAt(bb, w, l)
        /\ ivs[j] = Interval(bb, v, i, pinned) /\ ivs[k] = Interval(bb, w, l, pinned)
        /\ ivs[j].start = i /\ ivs[k].start = l
    BY <2>2, <2>4
  <2>7. /\ ivs[j].bytes \in Nat /\ SizeOf(bb, v) <= ivs[j].bytes /\ SizeOf(bb, v) \in Nat
        /\ ivs[k].bytes \in Nat /\ SizeOf(bb, w) <= ivs[k].bytes /\ SizeOf(bb, w) \in Nat
    BY <2>2, <2>4
  <2>8. off[j] \in Nat /\ off[k] \in Nat
    BY <1>4 DEF Housed
  <2>9. Clear(ivs, off, j, k) \/ Clear(ivs, off, k, j)
    <3>1. j < k \/ k < j
      BY <2>5, <1>5
    <3> QED
      BY <3>1, <1>4
  <2>10. \/ IsOver(ivs[j], l) \/ IsOver(ivs[k], i)
         \/ off[j] + ivs[j].bytes <= off[k] \/ off[k] + ivs[k].bytes <= off[j]
    BY <2>6, <2>9 DEF Clear
  <2>11. CASE IsOver(ivs[j], l) \/ IsOver(ivs[k], i)
    BY <2>6, <2>11 DEF InTurn
  <2>12. CASE off[j] + ivs[j].bytes <= off[k] \/ off[k] + ivs[k].bytes <= off[j]
    <3>1. off[j] + SizeOf(bb, v) <= off[k] \/ off[k] + SizeOf(bb, w) <= off[j]
      <4>1. ASSUME off[j] + ivs[j].bytes <= off[k]
            PROVE  off[j] + SizeOf(bb, v) <= off[k]
        BY <2>7, <2>8, <4>1, RoomToSpare
      <4>2. ASSUME off[k] + ivs[k].bytes <= off[j]
            PROVE  off[k] + SizeOf(bb, w) <= off[j]
        BY <2>7, <2>8, <4>2, RoomToSpare
      <4> QED
        BY <2>12, <4>1, <4>2
    <3> QED
      BY <3>1, <2>2, <2>4 DEF ApartIn
  <2> QED
    BY <2>10, <2>11, <2>12
<1> QED
  BY <1>1, <1>3, <1>7, <1>9, <1>10 DEF V

\* Binding gives every value of the arena a place within it, apart from any other's it
\* does not take turns with.
LEMMA BindArenaIs ==
    ASSUME NEW bb, HasSizes(bb), NEW pinned, NEW nar
    PROVE  LET t == BindArena(bb, pinned, nar)
               inArena == {v \in DOMAIN t.refs : t.refs[v].sp = "arena"}
           IN  /\ t.arena_size \in Nat
               /\ \A v \in inArena :
                    /\ v \in DOMAIN bb.vals /\ t.refs[v].off \in Nat
                    /\ t.refs[v].off + SizeOf(bb, v) <= t.arena_size
               /\ \A v, w \in inArena :
                    v = w \/ ApartIn(bb, t.refs, v, w) \/ InTurn(bb, pinned, v, w)
<1> DEFINE params == Declared(bb, "sc_mem.param")
           none == [refs |-> Unbound, cursor |-> 0]
           front == BindSlots(bb, none, params)
           io == BindSlots(bb, front, bb.args)
           rom == PackAll(bb, Declared(bb, "sc_mem.weight"), io.refs, nar)
           base == AlignUp(io.cursor)
           st == LinearScanTransients(bb, base, rom.refs, pinned)
           t == BindArena(bb, pinned, nar)
           inArena == {v \in DOMAIN t.refs : t.refs[v].sp = "arena"}
<1>1. t.refs = st.refs /\ t.arena_size = st.high
  BY DEF BindArena, BindPersistent, BindIo, BindFrozen, BindTransients, Bound
<1>2. InSlots(bb, none)
  <2>1. DOMAIN none.refs = {} /\ none.cursor = 0
    BY DEF Unbound
  <2> QED
    BY <2>1 DEF InSlots
<1> HIDE DEF none, t
<1>3. InSlots(bb, front)
  <2>1. /\ Len(params) \in Nat
        /\ \A i \in 1..Len(params) : params[i] \in DOMAIN bb.vals
    BY DeclaredAre
  <2> HIDE DEF params
  <2> QED
    BY <1>2, <2>1, BindSlotsAre
<1>4. InSlots(bb, io)
  <2>1. /\ Len(bb.args) \in Nat
        /\ \A i \in 1..Len(bb.args) : bb.args[i] \in DOMAIN bb.vals
    <3>1. bb.args \in Seq(DOMAIN bb.vals)
      BY DEF HasSizes
    <3> QED
      BY <3>1
  <2> HIDE DEF front
  <2> QED
    BY <1>3, <2>1, BindSlotsAre
<1> HIDE DEF io
<1>5. KeepsArena(rom.refs, io.refs)
  <2>1. Len(Declared(bb, "sc_mem.weight")) \in Nat
    BY DeclaredAre
  <2> QED
    BY <2>1, PackAllIs
<1> HIDE DEF rom
<1>6. base \in Nat /\ io.cursor <= base /\ io.cursor \in Nat
  <2>1. io.cursor \in Nat
    BY <1>4 DEF InSlots
  <2>2. kArenaAlign \in Nat \ {0}
    BY AlignAssumption
  <2> QED
    BY <2>1, <2>2, RoundUpIs DEF AlignUp
<1> HIDE DEF base
<1>7. /\ st.high \in Nat /\ base <= st.high
      /\ \A v \in DOMAIN st.refs \cap DOMAIN rom.refs : st.refs[v] = rom.refs[v]
      /\ \A v \in DOMAIN st.refs \ DOMAIN rom.refs :
           /\ v \in DOMAIN bb.vals /\ st.refs[v].off \in Nat
           /\ base <= st.refs[v].off /\ st.refs[v].off + SizeOf(bb, v) <= st.high
      /\ \A v, w \in DOMAIN st.refs \ DOMAIN rom.refs :
           v = w \/ ApartIn(bb, st.refs, v, w) \/ InTurn(bb, pinned, v, w)
  BY <1>6, LinearScanIs
<1> HIDE DEF st
<1>8. ASSUME NEW v \in inArena, v \in DOMAIN rom.refs
      PROVE  v \in DOMAIN io.refs /\ t.refs[v] = io.refs[v]
  <2>1. v \in DOMAIN st.refs /\ st.refs[v] = rom.refs[v] /\ st.refs[v].sp = "arena"
    BY <1>1, <1>7, <1>8
  <2> QED
    BY <2>1, <1>1, <1>5, <1>8 DEF KeepsArena
<1>9. ASSUME NEW v \in inArena, v \in DOMAIN rom.refs
      PROVE  /\ v \in DOMAIN bb.vals /\ t.refs[v].off \in Nat
             /\ SizeOf(bb, v) \in Nat
             /\ t.refs[v].off + SizeOf(bb, v) <= io.cursor
  <2>1. v \in DOMAIN io.refs /\ t.refs[v] = io.refs[v]
    BY <1>8, <1>9
  <2>2. /\ v \in DOMAIN bb.vals /\ t.refs[v].off \in Nat
        /\ t.refs[v].off + ValueBytes(bb, v) <= io.cursor
    BY <2>1, <1>4 DEF InSlots
  <2>3. /\ ValueBytes(bb, v) \in Nat /\ SizeOf(bb, v) \in Nat
        /\ SizeOf(bb, v) <= ValueBytes(bb, v)
    BY <2>2, ValueBytesAre DEF SizeOf
  <2> QED
    BY <2>2, <2>3, <1>6
<1>10. ASSUME NEW v \in inArena, v \notin DOMAIN rom.refs
       PROVE  /\ v \in DOMAIN bb.vals /\ t.refs[v].off \in Nat
              /\ base <= t.refs[v].off /\ t.refs[v].off + SizeOf(bb, v) <= st.high
  BY <1>1, <1>7, <1>10
<1>11. ASSUME NEW v \in inArena
       PROVE  /\ v \in DOMAIN bb.vals /\ t.refs[v].off \in Nat
              /\ t.refs[v].off + SizeOf(bb, v) <= t.arena_size
  <2>1. CASE v \in DOMAIN rom.refs
    BY <2>1, <1>1, <1>6, <1>7, <1>9
  <2>2. CASE v \notin DOMAIN rom.refs
    BY <2>2, <1>1, <1>10
  <2> QED
    BY <2>1, <2>2
<1>12. ASSUME NEW v \in inArena, NEW w \in inArena, v # w
       PROVE  ApartIn(bb, t.refs, v, w) \/ InTurn(bb, pinned, v, w)
  <2>1. CASE v \in DOMAIN rom.refs /\ w \in DOMAIN rom.refs
    <3>1. /\ v \in DOMAIN io.refs /\ t.refs[v] = io.refs[v]
          /\ w \in DOMAIN io.refs /\ t.refs[w] = io.refs[w]
      BY <2>1, <1>8
    <3>2. \/ t.refs[v].off + ValueBytes(bb, v) <= t.refs[w].off
          \/ t.refs[w].off + ValueBytes(bb, w) <= t.refs[v].off
      BY <3>1, <1>4, <1>12 DEF InSlots
    <3>3. v \in DOMAIN bb.vals /\ w \in DOMAIN bb.vals
          /\ t.refs[v].off \in Nat /\ t.refs[w].off \in Nat
      BY <2>1, <1>9
    <3>4. /\ ValueBytes(bb, v) \in Nat /\ SizeOf(bb, v) \in Nat
          /\ SizeOf(bb, v) <= ValueBytes(bb, v)
          /\ ValueBytes(bb, w) \in Nat /\ SizeOf(bb, w) \in Nat
          /\ SizeOf(bb, w) <= ValueBytes(bb, w)
      BY <3>3, ValueBytesAre DEF SizeOf
    <3> QED
      BY <3>2, <3>3, <3>4 DEF ApartIn
  <2>2. CASE v \in DOMAIN rom.refs /\ w \notin DOMAIN rom.refs
    <3>1. /\ t.refs[v].off + SizeOf(bb, v) <= io.cursor /\ t.refs[v].off \in Nat
          /\ SizeOf(bb, v) \in Nat /\ base <= t.refs[w].off /\ t.refs[w].off \in Nat
      BY <2>2, <1>9, <1>10
    <3> QED
      BY <3>1, <1>6 DEF ApartIn
  <2>3. CASE v \notin DOMAIN rom.refs /\ w \in DOMAIN rom.refs
    <3>1. /\ t.refs[w].off + SizeOf(bb, w) <= io.cursor /\ t.refs[w].off \in Nat
          /\ SizeOf(bb, w) \in Nat /\ base <= t.refs[v].off /\ t.refs[v].off \in Nat
      BY <2>3, <1>9, <1>10
    <3> QED
      BY <3>1, <1>6 DEF ApartIn
  <2>4. CASE v \notin DOMAIN rom.refs /\ w \notin DOMAIN rom.refs
    BY <2>4, <1>1, <1>7, <1>12
  <2> QED
    BY <2>1, <2>2, <2>3, <2>4
<1>13. t.arena_size \in Nat
  BY <1>1, <1>7
<1> QED
  BY <1>11, <1>12, <1>13 DEF t

-----------------------------------------------------------------------------
(* A verified block defines a value once. *)

Distinct(s) == \A p, r \in 1..Len(s) : s[p] = s[r] => p = r

\* One sequence behind another.
LEMMA JoinedIs ==
    ASSUME NEW D, NEW s \in Seq(D), NEW t \in Seq(D)
    PROVE  /\ s \o t \in Seq(D)
           /\ \A p \in 1..Len(s) : p \in 1..Len(s \o t) /\ (s \o t)[p] = s[p]
           /\ \A r \in 1..Len(t) : /\ Len(s) + r \in 1..Len(s \o t)
                                  /\ (s \o t)[Len(s) + r] = t[r]
                                  /\ \A p \in 1..Len(s) : p # Len(s) + r
<1> DEFINE u == s \o t
           m == Len(s)
           n == Len(t)
<1>1. u \in Seq(D) /\ m \in Nat /\ n \in Nat /\ Len(u) = m + n
  BY ConcatIs
<1>2. \A p \in 1..(m + n) : u[p] = IF p <= m THEN s[p] ELSE t[p - m]
  BY ConcatIs
<1> HIDE DEF u, m, n
<1>3. ASSUME NEW r \in 1..n
      PROVE  m + r \in 1..Len(u) /\ u[m + r] = t[r] /\ \A p \in 1..m : p # m + r
  <2>1. m + r \in 1..(m + n) /\ ~(m + r <= m) /\ (m + r) - m = r
    BY <1>1
  <2>2. \A p \in 1..m : p # m + r
    BY <1>1
  <2> QED
    BY <1>1, <1>2, <2>1, <2>2
<1>4. ASSUME NEW p \in 1..m PROVE p \in 1..Len(u) /\ u[p] = s[p]
  <2>1. p \in 1..(m + n) /\ p <= m
    BY <1>1
  <2> QED
    BY <1>1, <1>2, <2>1
<1> QED
  BY <1>1, <1>3, <1>4 DEF u, m, n

\* The table behind DefinedValues, over the first n operations.
Defining(f, bb, n) ==
    f = [i \in 0..n |-> IF i = 0 THEN bb.args ELSE f[i - 1] \o bb.ops[i].out]

\* It exists.
LEMMA DefiningExists ==
    ASSUME NEW bb, NEW n \in Nat
    PROVE  \E f : Defining(f, bb, n)
<1> DEFINE S == {k \in Nat : \E f : Defining(f, bb, k)}
<1>1. 0 \in S
  <2>1. Defining([i \in 0..0 |-> bb.args], bb, 0)
    BY DEF Defining
  <2> QED
    BY <2>1
<1>2. ASSUME NEW k \in Nat, k \in S PROVE k + 1 \in S
  <2>1. PICK f : Defining(f, bb, k)
    BY <1>2
  <2>2. \A i \in 0..k : f[i] = IF i = 0 THEN bb.args ELSE f[i - 1] \o bb.ops[i].out
    BY <2>1 DEF Defining
  <2> DEFINE g == [i \in 0..(k + 1) |-> IF i = k + 1 THEN f[k] \o bb.ops[i].out ELSE f[i]]
  <2>3. \A i \in 0..(k + 1) : g[i] = IF i = 0 THEN bb.args ELSE g[i - 1] \o bb.ops[i].out
    BY <2>2
  <2>4. g = [i \in 0..(k + 1) |-> g[i]]
    OBVIOUS
  <2> HIDE DEF g
  <2>5. Defining(g, bb, k + 1)
    BY <2>3, <2>4 DEF Defining
  <2> QED
    BY <2>5
<1> HIDE DEF S
<1>3. Nat \subseteq S
  BY <1>1, <1>2, Induction
<1> QED
  BY <1>3 DEF S

\* t is what the first n operations define: where its values are distinct, no two
\* operations define the same one.
DefinedOnce(t, bb, n) ==
    /\ t \in Seq(DOMAIN bb.vals)
    /\ \A i \in 1..n : \A v : Defines(bb.ops[i], v) => \E r \in 1..Len(t) : t[r] = v
    /\ Distinct(t) => \A i, k \in 1..n : \A v :
                        Defines(bb.ops[i], v) /\ Defines(bb.ops[k], v) => i = k

\* One more operation.
LEMMA DefinedOnward ==
    ASSUME NEW bb, HasSizes(bb), NEW n \in Nat, n + 1 <= Len(bb.ops),
           NEW t, DefinedOnce(t, bb, n)
    PROVE  DefinedOnce(t \o bb.ops[n + 1].out, bb, n + 1)
<1> DEFINE out == bb.ops[n + 1].out
           u == t \o out
           D == DOMAIN bb.vals
<1>1. n + 1 \in 1..Len(bb.ops)
  BY SizesAre
<1>2. out \in Seq(D) /\ t \in Seq(D)
  BY <1>1, SizesAre DEF DefinedOnce
<1>3. \A v : Defines(bb.ops[n + 1], v) <=> \E r \in 1..Len(out) : out[r] = v
  <2>1. DOMAIN out = 1..Len(out)
    BY <1>2
  <2> QED
    BY <2>1 DEF Defines
<1> HIDE DEF D, out
<1>4. /\ u \in Seq(D)
      /\ \A p \in 1..Len(t) : \E r \in 1..Len(u) : u[r] = t[p]
      /\ \A p \in 1..Len(out) : \E r \in 1..Len(u) : u[r] = out[p]
      /\ Distinct(u) =>
           /\ Distinct(t)
           /\ \A p \in 1..Len(t), r \in 1..Len(out) : t[p] # out[r]
  <2>1. t \in Seq(D)
    BY <1>2
  <2>2. out \in Seq(D)
    BY <1>2
  <2>3. /\ u \in Seq(D)
        /\ \A p \in 1..Len(t) : p \in 1..Len(u) /\ u[p] = t[p]
        /\ \A r \in 1..Len(out) : /\ Len(t) + r \in 1..Len(u)
                                 /\ u[Len(t) + r] = out[r]
                                 /\ \A p \in 1..Len(t) : p # Len(t) + r
    BY <2>1, <2>2, JoinedIs, Zenon
  <2> HIDE DEF u
  <2>4. Distinct(u) => Distinct(t)
    BY <2>3 DEF Distinct
  <2>5. ASSUME Distinct(u), NEW p \in 1..Len(t), NEW r \in 1..Len(out) PROVE t[p] # out[r]
    BY <2>3, <2>5 DEF Distinct
  <2> QED
    BY <2>3, <2>4, <2>5
<1> HIDE DEF u
<1>5. ASSUME NEW i \in 1..(n + 1), NEW v, Defines(bb.ops[i], v)
      PROVE  \E r \in 1..Len(u) : u[r] = v
  <2>1. CASE i = n + 1
    <3>1. Defines(bb.ops[n + 1], v)
      BY <2>1, <1>5
    <3>2. PICK p \in 1..Len(out) : out[p] = v
      BY <3>1, <1>3
    <3> QED
      BY <3>2, <1>4
  <2>2. CASE i \in 1..n
    <3>1. PICK p \in 1..Len(t) : t[p] = v
      BY <2>2, <1>5 DEF DefinedOnce
    <3> QED
      BY <3>1, <1>4
  <2> QED
    BY <2>1, <2>2
<1>6. ASSUME Distinct(u), NEW i \in 1..n, NEW v,
             Defines(bb.ops[i], v), Defines(bb.ops[n + 1], v)
      PROVE  FALSE
  <2>1. PICK p \in 1..Len(t) : t[p] = v
    BY <1>6 DEF DefinedOnce
  <2>2. PICK r \in 1..Len(out) : out[r] = v
    BY <1>3, <1>6
  <2> QED
    BY <1>4, <1>6, <2>1, <2>2
<1>7. ASSUME Distinct(u), NEW i \in 1..(n + 1), NEW k \in 1..(n + 1), NEW v,
             Defines(bb.ops[i], v), Defines(bb.ops[k], v)
      PROVE  i = k
  <2>1. CASE i \in 1..n /\ k \in 1..n
    BY <2>1, <1>4, <1>7 DEF DefinedOnce
  <2>2. CASE i = n + 1 /\ k \in 1..n
    BY <2>2, <1>6, <1>7
  <2>3. CASE i \in 1..n /\ k = n + 1
    BY <2>3, <1>6, <1>7
  <2>4. CASE i = n + 1 /\ k = n + 1
    BY <2>4
  <2> QED
    BY <2>1, <2>2, <2>3, <2>4
<1>8. DefinedOnce(u, bb, n + 1)
  <2>1. u \in Seq(DOMAIN bb.vals)
    BY <1>4 DEF D
  <2> QED
    BY <2>1, <1>5, <1>7 DEF DefinedOnce
<1> QED
  BY <1>8 DEF u, out

\* DefinedValues is what all operations define.
LEMMA DefinedValuesAre ==
    ASSUME NEW bb, HasSizes(bb)
    PROVE  DefinedOnce(DefinedValues(bb), bb, Len(bb.ops))
<1> DEFINE n == Len(bb.ops)
           T == CHOOSE f : Defining(f, bb, n)
<1>1. n \in Nat
  BY SizesAre
<1>2. Defining(T, bb, n)
  BY <1>1, DefiningExists
<1>3. DefinedValues(bb) = T[n]
  BY DEF DefinedValues, Defining
<1> HIDE DEF T, n
<1>4. T[0] = bb.args /\ \A i \in 1..n : T[i] = T[i - 1] \o bb.ops[i].out
  <2>1. \A i \in 0..n : T[i] = IF i = 0 THEN bb.args ELSE T[i - 1] \o bb.ops[i].out
    BY <1>2 DEF Defining
  <2>2. 0 \in 0..n /\ \A i \in 1..n : i \in 0..n /\ i # 0
    BY <1>1
  <2> QED
    BY <2>1, <2>2
<1> DEFINE S == {k \in Nat : k <= n => DefinedOnce(T[k], bb, k)}
<1>5. 0 \in S
  <2>1. bb.args \in Seq(DOMAIN bb.vals)
    BY DEF HasSizes
  <2>2. DefinedOnce(bb.args, bb, 0)
    BY <2>1 DEF DefinedOnce
  <2> QED
    BY <2>2, <1>4
<1>6. ASSUME NEW k \in Nat, k \in S PROVE k + 1 \in S
  <2> SUFFICES ASSUME k + 1 <= n PROVE DefinedOnce(T[k + 1], bb, k + 1)
    OBVIOUS
  <2>1. DefinedOnce(T[k], bb, k)
    BY <1>1, <1>6
  <2>2. k + 1 \in 1..n /\ (k + 1) - 1 = k
    BY <1>1
  <2>3. T[k + 1] = T[k] \o bb.ops[k + 1].out
    BY <1>4, <2>2
  <2> QED
    BY <2>1, <2>3, DefinedOnward DEF n
<1> HIDE DEF S
<1>7. Nat \subseteq S
  BY <1>5, <1>6, Induction
<1> QED
  BY <1>1, <1>3, <1>7 DEF S, n

\* As many ids as values: no value is listed twice.
LEMMA UniqueIdsAreDistinct ==
    ASSUME NEW bb, NEW t \in Seq(DOMAIN bb.vals), UniqueIds(bb, t)
    PROVE  Distinct(t)
<1> DEFINE n == Len(t)
           I == 1..n
           ids == {bb.vals[t[i]].id : i \in I}
           f == [i \in I |-> bb.vals[t[i]].id]
<1>1. n \in Nat /\ DOMAIN t = I
  OBVIOUS
<1>2. Cardinality(ids) = n
  BY <1>1 DEF UniqueIds
<1>3. IsFiniteSet(I) /\ Cardinality(I) = n
  <2>1. /\ IsFiniteSet(1..n)
        /\ Cardinality(1..n) = IF 1 > n THEN 0 ELSE n - 1 + 1
    <3> HIDE DEF n
    <3> QED
      BY <1>1, FS_Interval
  <2>2. (IF 1 > n THEN 0 ELSE n - 1 + 1) = n
    <3> HIDE DEF n
    <3> QED
      BY <1>1
  <2> QED
    BY <2>1, <2>2
<1>4. f \in Surjection(I, ids)
  <2>1. f \in [I -> ids]
    OBVIOUS
  <2>2. \A x \in ids : \E i \in I : f[i] = x
    OBVIOUS
  <2> QED
    BY <2>1, <2>2 DEF Surjection
<1>5. f \in Injection(I, ids)
  <2> HIDE DEF f, ids, I, n
  <2> QED
    BY <1>2, <1>3, <1>4, FS_Surjection
<1>6. \A p, r \in I : f[p] = f[r] => p = r
  <2>1. DOMAIN f = I
    OBVIOUS
  <2> HIDE DEF f, ids, I
  <2> QED
    BY <2>1, <1>5 DEF Injection, IsInjective
<1>7. ASSUME NEW p \in I, NEW r \in I, t[p] = t[r] PROVE p = r
  <2>1. f[p] = f[r]
    BY <1>7
  <2> HIDE DEF f, I
  <2> QED
    BY <1>6, <2>1
<1> QED
  BY <1>7 DEF Distinct

\* Block::verify's unique names are the single definition the binding relies on.
LEMMA VerifiedDefinesOnce ==
    ASSUME NEW bb, HasSizes(bb), Verify(bb),
           NEW i \in 1..Len(bb.ops), NEW k \in 1..Len(bb.ops), NEW v,
           Defines(bb.ops[i], v), Defines(bb.ops[k], v)
    PROVE  i = k
<1>1. DefinedOnce(DefinedValues(bb), bb, Len(bb.ops))
  BY DefinedValuesAre
<1>2. UniqueIds(bb, DefinedValues(bb))
  BY DEF Verify
<1>3. Distinct(DefinedValues(bb))
  BY <1>1, <1>2, UniqueIdsAreDistinct DEF DefinedOnce
<1> QED
  BY <1>1, <1>3 DEF DefinedOnce

-----------------------------------------------------------------------------
(* What a step binds. *)

\* LiveValuesAreApart, of any block, binding and merge program.
SpanIn(bb, pinned, v) ==
    LET born == {i \in DOMAIN bb.ops : Defines(bb.ops[i], v)}
        reads == {i \in DOMAIN bb.ops : \E s \in DOMAIN bb.ops[i].in : bb.ops[i].in[s] = v}
        param == \A i \in born : bb.ops[i].mn = "sc_mem.param"
        first == IF param THEN 0 ELSE CHOOSE i \in born : TRUE
    IN  << first, IF param \/ v \in pinned THEN Len(bb.ops) + 1
                  ELSE CHOOSE i \in reads \cup {first} : \A k \in reads : k <= i >>
SpansAreDisjoint(bb, pinned, v, w) ==
    \/ SpanIn(bb, pinned, v)[2] < SpanIn(bb, pinned, w)[1]
    \/ SpanIn(bb, pinned, w)[2] < SpanIn(bb, pinned, v)[1]
InArena(bd) == {v \in DOMAIN bd.refs : bd.refs[v].sp = "arena"}
AreApart(bb, pinned, bd) ==
    \A v, w \in InArena(bd) :
      v = w \/ SpansAreDisjoint(bb, pinned, v, w) \/ ApartIn(bb, bd.refs, v, w)
DeltasAreBehind(bb, bd, mg) ==
    \A v \in InArena(bd) : \A d \in DOMAIN bd.merge \ DOMAIN mg.aliases :
      bd.refs[v].off + SizeOf(bb, v) <= bd.merge[d].off

\* What is bound ends within the arena, the merge program's deltas too.
ArenaHoldsAll(bb, bd, mg) ==
    /\ bd.arena_size \in Nat
    /\ \A v \in InArena(bd) :
         bd.refs[v].off \in Nat /\ bd.refs[v].off + SizeOf(bb, v) <= bd.arena_size
    /\ \A d \in DOMAIN bd.merge \ DOMAIN mg.aliases :
         /\ bd.merge[d].off \in Nat
         /\ bd.merge[d].off + SizeOf(mg.b, d) <= bd.arena_size

\* It is that.
LEMMA LiveValuesAre ==
    LiveValuesAreApart <=>
      (stage = "bound" => /\ AreApart(b, Protected, bind)
                          /\ DeltasAreBehind(b, bind, merge))
<1> DEFINE inArena == {v \in DOMAIN bind.refs : bind.refs[v].sp = "arena"}
           spans == [v \in inArena |-> Span(v)]
           end(v) == bind.refs[v].off + Volume(ShapeOf(b, v)) * kF32
           Pairs == \A v, w \in inArena :
                      \/ v = w
                      \/ spans[v][2] < spans[w][1] \/ spans[w][2] < spans[v][1]
                      \/ end(v) <= bind.refs[w].off \/ end(w) <= bind.refs[v].off
           Behind == \A v \in inArena : \A d \in DOMAIN bind.merge \ DOMAIN merge.aliases :
                       end(v) <= bind.merge[d].off
<1>1. LiveValuesAreApart <=> (stage = "bound" => Pairs /\ Behind)
  BY DEF LiveValuesAreApart
<1>2. Behind <=> DeltasAreBehind(b, bind, merge)
  BY DEF DeltasAreBehind, InArena, SizeOf
<1>3. \A v : Span(v) = SpanIn(b, Protected, v)
  BY DEF Span, SpanIn
<1>4. \A v \in inArena : spans[v] = SpanIn(b, Protected, v)
  BY <1>3
<1>5. \A v : end(v) = bind.refs[v].off + SizeOf(b, v)
  BY DEF SizeOf
<1> HIDE DEF spans, end
<1>6. Pairs <=> AreApart(b, Protected, bind)
  BY <1>4, <1>5 DEF AreApart, InArena, SpansAreDisjoint, ApartIn
<1> HIDE DEF Pairs, Behind
<1> QED
  BY <1>1, <1>2, <1>6

\* A computed value's life begins where it is defined, and ends no later than the
\* binder thinks.
LEMMA SpanIs ==
    ASSUME NEW bb, HasSizes(bb), Verify(bb), NEW pinned, NEW v, NEW i, RunsAt(bb, v, i)
    PROVE  /\ SpanIn(bb, pinned, v)[1] = i
           /\ v \notin pinned => /\ SpanIn(bb, pinned, v)[2] \in Int
                                 /\ SpanIn(bb, pinned, v)[2] <= LastUse(bb, v, i)
<1> DEFINE born == {k \in DOMAIN bb.ops : Defines(bb.ops[k], v)}
           reads == {k \in DOMAIN bb.ops : \E s \in DOMAIN bb.ops[k].in : bb.ops[k].in[s] = v}
           lastUse == LastUse(bb, v, i)
           end == CHOOSE e \in reads \cup {i} : \A k \in reads : k <= e
           n == Len(bb.ops)
<1>1. n \in Nat /\ DOMAIN bb.ops = 1..n
  BY SizesAre
<1>2. i \in 1..n /\ Defines(bb.ops[i], v) /\ bb.ops[i].mn # "sc_mem.param"
  BY DEF RunsAt, IsMemoryOp
<1>3. born = {i}
  <2>1. \A k \in born : k = i
    BY <1>1, <1>2, VerifiedDefinesOnce
  <2> QED
    BY <1>1, <1>2, <2>1
<1> DEFINE param == \A k \in born : bb.ops[k].mn = "sc_mem.param"
           first == IF param THEN 0 ELSE CHOOSE k \in born : TRUE
<1>4. param = FALSE
  BY <1>2, <1>3
<1>5. SpanIn(bb, pinned, v) =
        << first, IF param \/ v \in pinned THEN n + 1
                  ELSE CHOOSE e \in reads \cup {first} : \A k \in reads : k <= e >>
  BY DEF SpanIn
<1>12. first = i
  <2>1. (CHOOSE k \in {i} : TRUE) = i
    OBVIOUS
  <2>2. first = CHOOSE k \in born : TRUE
    BY <1>4
  <2> HIDE DEF first, born
  <2> QED
    BY <1>3, <2>1, <2>2
<1>6. SpanIn(bb, pinned, v) = << i, IF v \in pinned THEN n + 1 ELSE end >>
  <2>1. end = CHOOSE e \in reads \cup {i} : \A k \in reads : k <= e
    OBVIOUS
  <2> HIDE DEF first, param, reads, n, end
  <2> QED
    BY <1>4, <1>5, <1>12, <2>1
<1>7. /\ lastUse \in i..n
      /\ \A k \in i..n : k \in reads => k <= lastUse
      /\ lastUse \in reads \cup {i}
  <2>1. /\ lastUse \in i..n
        /\ \A k \in i..n : (\E s \in DOMAIN bb.ops[k].in : bb.ops[k].in[s] = v) => k <= lastUse
        /\ lastUse = i \/ \E s \in DOMAIN bb.ops[lastUse].in : bb.ops[lastUse].in[s] = v
    BY <1>2, LastUseIs
  <2>2. lastUse \in DOMAIN bb.ops
    BY <1>1, <1>2, <2>1
  <2> QED
    BY <2>1, <2>2
<1>8. reads \subseteq 1..n
  BY <1>1
<1> HIDE DEF reads, lastUse, n
<1>9. \A k \in reads : k <= lastUse
  <2> SUFFICES ASSUME NEW k \in reads PROVE k <= lastUse
    OBVIOUS
  <2>1. k \in 1..n /\ lastUse \in Int /\ i \in Int /\ i <= lastUse
    BY <1>1, <1>2, <1>7, <1>8
  <2>2. CASE k < i
    BY <2>1, <2>2
  <2>3. CASE k >= i
    BY <2>1, <2>3, <1>1, <1>2, <1>7
  <2> QED
    BY <2>1, <2>2, <2>3
<1>10. end \in reads \cup {i}
  BY <1>7, <1>9
<1>11. end \in Int /\ end <= lastUse
  <2> HIDE DEF end
  <2>1. CASE end \in reads
    BY <2>1, <1>1, <1>8, <1>9
  <2>2. CASE end = i
    BY <2>2, <1>1, <1>2, <1>7
  <2> QED
    BY <1>10, <2>1, <2>2
<1> HIDE DEF end
<1> QED
  BY <1>6, <1>11 DEF lastUse

\* Values that take turns are never alive together.
LEMMA TurnsAreDisjoint ==
    ASSUME NEW bb, HasSizes(bb), Verify(bb), NEW pinned, NEW v, NEW w,
           InTurn(bb, pinned, v, w)
    PROVE  SpansAreDisjoint(bb, pinned, v, w)
<1>1. ASSUME NEW x, NEW y, NEW i, NEW l, RunsAt(bb, x, i), RunsAt(bb, y, l),
             IsOver(Interval(bb, x, i, pinned), l)
      PROVE  SpanIn(bb, pinned, x)[2] < SpanIn(bb, pinned, y)[1]
  <2>1. x \notin pinned /\ LastUse(bb, x, i) < l
    <3>1. Interval(bb, x, i, pinned).end = IF x \in pinned THEN Forever ELSE LastUse(bb, x, i)
      BY DEF Interval
    <3> QED
      BY <1>1, <3>1 DEF IsOver
  <2>2. SpanIn(bb, pinned, y)[1] = l
    BY <1>1, SpanIs
  <2>3. SpanIn(bb, pinned, x)[2] \in Int /\ SpanIn(bb, pinned, x)[2] <= LastUse(bb, x, i)
    BY <1>1, <2>1, SpanIs
  <2>4. l \in Int /\ LastUse(bb, x, i) \in Int
    <3>1. Len(bb.ops) \in Nat /\ i \in 1..Len(bb.ops) /\ l \in 1..Len(bb.ops)
      BY <1>1, SizesAre DEF RunsAt
    <3>2. LastUse(bb, x, i) \in i..Len(bb.ops)
      BY <3>1, LastUseIs
    <3> QED
      BY <3>1, <3>2
  <2> QED
    BY <2>1, <2>2, <2>3, <2>4
<1>2. PICK i, l : /\ RunsAt(bb, v, i) /\ RunsAt(bb, w, l)
                  /\ \/ IsOver(Interval(bb, v, i, pinned), l)
                     \/ IsOver(Interval(bb, w, l, pinned), i)
  BY DEF InTurn
<1> QED
  BY <1>1, <1>2 DEF SpansAreDisjoint

\* BindAll keeps what is alive apart, the deltas behind it, and all in the arena.
LEMMA BindAllIs ==
    ASSUME HasSizes(b), Verify(b), HasSizes(merge.b)
    PROVE  /\ AreApart(b, Protected, BindAll)
           /\ DeltasAreBehind(b, BindAll, merge)
           /\ ArenaHoldsAll(b, BindAll, merge)
<1> DEFINE t == BindArena(b, Protected, narrow)
           m == ScanMerge(t, t.arena_size)
           base == AlignUp(t.arena_size)
           to == BindAll
<1>1. /\ to.refs = t.refs /\ to.merge = m.refs
      /\ to.arena_size = IF m.high > t.arena_size THEN m.high ELSE t.arena_size
  <2>1. to = BothBound(t, m)
    BY DEF BindAll
  <2>2. t = BindArena(b, Protected, narrow)
    OBVIOUS
  <2>3. /\ t.refs = t.refs /\ DOMAIN t = {"refs", "merge", "column_scales", "params",
           "persistent_size", "io_end", "arena_size", "packs", "rodata_size"}
    BY DEF BindArena, BindPersistent, BindIo, BindFrozen, BindTransients, Bound
  <2> HIDE DEF t, m, to
  <2>4. DEFINE u == [t EXCEPT !.merge = m.refs]
  <2>5. /\ u.refs = t.refs /\ u.merge = m.refs /\ u.arena_size = t.arena_size
        /\ DOMAIN u = DOMAIN t
    BY <2>3
  <2>6. to = [u EXCEPT !.arena_size = IF m.high > @ THEN m.high ELSE @]
    BY <2>1 DEF BothBound
  <2> HIDE DEF u
  <2>7. /\ to.refs = u.refs /\ to.merge = u.merge
        /\ to.arena_size = IF m.high > u.arena_size THEN m.high ELSE u.arena_size
    BY <2>3, <2>5, <2>6
  <2> QED
    BY <2>5, <2>7
<1>2. /\ t.arena_size \in Nat
      /\ \A v \in InArena(t) :
           /\ v \in DOMAIN b.vals /\ t.refs[v].off \in Nat
           /\ t.refs[v].off + SizeOf(b, v) <= t.arena_size
      /\ \A v, w \in InArena(t) :
           v = w \/ ApartIn(b, t.refs, v, w) \/ InTurn(b, Protected, v, w)
  BY BindArenaIs DEF InArena
<1> HIDE DEF t, to
<1>3. base \in Nat /\ t.arena_size <= base
  BY <1>2, AlignAssumption, RoundUpIs DEF AlignUp
<1>4. /\ m.high \in Nat
      /\ \A d \in DOMAIN m.refs \ DOMAIN merge.aliases :
           /\ m.refs[d].off \in Nat /\ base <= m.refs[d].off
           /\ m.refs[d].off + SizeOf(merge.b, d) <= m.high /\ SizeOf(merge.b, d) \in Nat
  <2> DEFINE refs0 == [v \in DOMAIN merge.aliases |-> t.refs[merge.aliases[v]]]
             pins == {merge.outputs[i] : i \in DOMAIN merge.outputs}
  <2>1. m = LinearScanTransients(merge.b, base, refs0, pins)
    BY DEF ScanMerge
  <2>2. DOMAIN refs0 = DOMAIN merge.aliases
    OBVIOUS
  <2> HIDE DEF refs0, pins, base, m
  <2>3. /\ m.high \in Nat
        /\ \A v \in DOMAIN m.refs \ DOMAIN refs0 :
             /\ v \in DOMAIN merge.b.vals /\ m.refs[v].off \in Nat /\ base <= m.refs[v].off
             /\ m.refs[v].off + SizeOf(merge.b, v) <= m.high
    BY <1>3, <2>1, LinearScanIs
  <2>4. \A v \in DOMAIN merge.b.vals : SizeOf(merge.b, v) \in Nat
    BY ValueBytesAre DEF SizeOf
  <2> QED
    BY <2>2, <2>3, <2>4
<1>5. InArena(to) = InArena(t)
  BY <1>1 DEF InArena
<1>6. AreApart(b, Protected, to)
  <2> SUFFICES ASSUME NEW v \in InArena(t), NEW w \in InArena(t)
               PROVE  v = w \/ SpansAreDisjoint(b, Protected, v, w) \/ ApartIn(b, t.refs, v, w)
    BY <1>1, <1>5 DEF AreApart
  <2> QED
    BY <1>2, TurnsAreDisjoint
<1>7. DeltasAreBehind(b, to, merge)
  <2> HIDE DEF m, base
  <2> SUFFICES ASSUME NEW v \in InArena(t), NEW d \in DOMAIN m.refs \ DOMAIN merge.aliases
               PROVE  t.refs[v].off + SizeOf(b, v) <= m.refs[d].off
    BY <1>1, <1>5 DEF DeltasAreBehind
  <2>1. SizeOf(b, v) \in Nat
    BY <1>2, ValueBytesAre DEF SizeOf
  <2> QED
    BY <1>2, <1>3, <1>4, <2>1
<1>8. ArenaHoldsAll(b, to, merge)
  <2> HIDE DEF m, base
  <2>1. /\ to.arena_size \in Nat /\ t.arena_size <= to.arena_size
        /\ m.high <= to.arena_size
    BY <1>1, <1>2, <1>4
  <2>2. ASSUME NEW v \in InArena(t)
        PROVE  t.refs[v].off \in Nat /\ t.refs[v].off + SizeOf(b, v) <= to.arena_size
    <3>1. SizeOf(b, v) \in Nat
      BY <1>2, ValueBytesAre DEF SizeOf
    <3> QED
      BY <1>2, <2>1, <3>1
  <2>3. ASSUME NEW d \in DOMAIN m.refs \ DOMAIN merge.aliases
        PROVE  m.refs[d].off \in Nat /\ m.refs[d].off + SizeOf(merge.b, d) <= to.arena_size
    BY <1>4, <2>1
  <2> QED
    BY <1>1, <1>5, <2>1, <2>2, <2>3 DEF ArenaHoldsAll
<1> QED
  BY <1>6, <1>7, <1>8 DEF to

-----------------------------------------------------------------------------
(* Every behaviour. *)

\* What the binding rests on, and what it leaves: the block the sweep hands over is
\* verified, a bound one apart, ahead of the deltas and within the arena.
BinderInv ==
    /\ stage = "swept" => Verify(b)
    /\ stage = "bound" => /\ AreApart(b, Protected, bind)
                          /\ DeltasAreBehind(b, bind, merge)
                          /\ ArenaHoldsAll(b, bind, merge)

\* The sweep verifies what it leaves.
LEMMA SweepVerifies ==
    ASSUME Sweep PROVE stage' \in {"swept", "refused"} /\ (stage' = "swept" => Verify(b)')
BY DEF Sweep, Refuse

\* Binding a verified block of values with sizes establishes what it leaves.
LEMMA BindEstablishes ==
    ASSUME BinderInv, SweptIsBindable, Bind
    PROVE  BinderInv'
<1>1. stage = "swept" /\ stage' = "bound" /\ bind' = BindAll
  BY DEF Bind
<1>2. b' = b /\ graph' = graph /\ grads' = grads /\ merge' = merge
  BY DEF Bind
<1>3. HasSizes(b) /\ HasSizes(merge.b) /\ Verify(b)
  BY <1>1 DEF BinderInv, SweptIsBindable
<1>4. /\ AreApart(b, Protected, BindAll)
      /\ DeltasAreBehind(b, BindAll, merge)
      /\ ArenaHoldsAll(b, BindAll, merge)
  BY <1>3, BindAllIs
<1>5. Protected' = Protected
  BY <1>2 DEF Protected
<1>6. /\ AreApart(b, Protected, bind)'
      /\ DeltasAreBehind(b, bind, merge)'
      /\ ArenaHoldsAll(b, bind, merge)'
  BY <1>1, <1>2, <1>4, <1>5
<1> QED
  BY <1>1, <1>6 DEF BinderInv

\* No other phase of the compiler reaches either stage.
LEMMA OtherPhases ==
    ASSUME \/ Admit \/ BuildGraph \/ Graft \/ Differentiate \/ BuildMerge \/ SelectStorage
           \/ FuseEpilogues \/ FuseAddends \/ FuseChains \/ Lower \/ Assemble
    PROVE  stage' \notin {"swept", "bound"}
<1>1. CASE Admit
  BY <1>1 DEF Admit, Refuse
<1>2. CASE BuildGraph
  BY <1>2 DEF BuildGraph, Refuse
<1>3. CASE Graft
  BY <1>3 DEF Graft, Refuse
<1>4. CASE Differentiate
  BY <1>4 DEF Differentiate, Refuse
<1>5. CASE BuildMerge
  BY <1>5 DEF BuildMerge, Refuse
<1>6. CASE SelectStorage
  BY <1>6 DEF SelectStorage, Refuse
<1>7. CASE FuseEpilogues
  BY <1>7 DEF FuseEpilogues, Rewritten, Refuse
<1>8. CASE FuseAddends
  BY <1>8 DEF FuseAddends, Rewritten, Refuse
<1>9. CASE FuseChains
  BY <1>9 DEF FuseChains, Rewritten, Refuse
<1>10. CASE Lower
  BY <1>10 DEF Lower, Refuse
<1>11. CASE Assemble
  BY <1>11 DEF Assemble, Refuse
<1> QED
  BY <1>1, <1>2, <1>3, <1>4, <1>5, <1>6, <1>7, <1>8, <1>9, <1>10, <1>11

\* Nor does a step of the machine, which runs a compiled plan.
LEMMA MachineSteps ==
    ASSUME \/ Load \/ TrainBatch \/ StepWindow \/ Evaluate \/ RunMerge
           \/ SaveCheckpoint \/ LoadCheckpoint
    PROVE  stage' \notin {"swept", "bound"}
<1>1. CASE Load
  BY <1>1 DEF Load
<1>2. CASE TrainBatch
  BY <1>2 DEF TrainBatch, vars
<1>3. CASE StepWindow
  BY <1>3 DEF StepWindow, vars
<1>4. CASE Evaluate
  BY <1>4 DEF Evaluate, vars
<1>5. CASE RunMerge
  BY <1>5 DEF RunMerge, vars
<1>6. CASE SaveCheckpoint
  BY <1>6 DEF SaveCheckpoint, vars
<1>7. CASE LoadCheckpoint
  BY <1>7 DEF LoadCheckpoint, vars
<1> QED
  BY <1>1, <1>2, <1>3, <1>4, <1>5, <1>6, <1>7

\* Every step keeps the invariant.
LEMMA BinderInvKept ==
    ASSUME BinderInv, SweptIsBindable, [Next]_allVars
    PROVE  BinderInv'
<1>1. CASE Sweep
  BY <1>1, SweepVerifies DEF BinderInv
<1>2. CASE Bind
  BY <1>2, BindEstablishes
<1>3. CASE \/ Admit \/ BuildGraph \/ Graft \/ Differentiate \/ BuildMerge \/ SelectStorage
           \/ FuseEpilogues \/ FuseAddends \/ FuseChains \/ Lower \/ Assemble
  <2>1. stage' \notin {"swept", "bound"}
    BY <1>3, OtherPhases
  <2> QED
    BY <2>1 DEF BinderInv
<1>4. CASE \/ Load \/ TrainBatch \/ StepWindow \/ Evaluate \/ RunMerge
           \/ SaveCheckpoint \/ LoadCheckpoint
  <2>1. stage' \notin {"swept", "bound"}
    BY <1>4, MachineSteps
  <2> QED
    BY <2>1 DEF BinderInv
<1>5. CASE UNCHANGED allVars
  <2>1. /\ stage' = stage /\ b' = b /\ graph' = graph /\ grads' = grads
        /\ merge' = merge /\ bind' = bind
    BY <1>5 DEF allVars, vars
  <2>2. Protected' = Protected
    BY <2>1 DEF Protected
  <2> QED
    BY <2>1, <2>2 DEF BinderInv
<1> QED
  BY <1>1, <1>2, <1>3, <1>4, <1>5 DEF Next, Compile

\* The invariant of the binding, in every run whose swept blocks can be bound.
THEOREM BinderInvariant == Spec /\ []SweptIsBindable => []BinderInv
<1>1. RunInit => BinderInv
  BY DEF RunInit, Init, BinderInv
<1>2. BinderInv /\ SweptIsBindable /\ [Next]_allVars => BinderInv'
  BY BinderInvKept
<1> QED
  BY <1>1, <1>2, PTL DEF Spec

\* A value is never placed over another that is still to be read, nor over the deltas a
\* merge leaves for the commit: for every model, configuration and alignment.
THEOREM BoundIsApart == Spec /\ []SweptIsBindable => []LiveValuesAreApart
<1>1. BinderInv => LiveValuesAreApart
  BY LiveValuesAre DEF BinderInv
<1> QED
  BY <1>1, BinderInvariant, PTL

\* Everything the binder places lies within the arena the plan's header announces.
THEOREM BoundIsWithin ==
  Spec /\ []SweptIsBindable => [](stage = "bound" => ArenaHoldsAll(b, bind, merge))
<1>1. BinderInv => (stage = "bound" => ArenaHoldsAll(b, bind, merge))
  BY DEF BinderInv
<1> QED
  BY <1>1, BinderInvariant, PTL
=============================================================================
