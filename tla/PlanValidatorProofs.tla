------------------------ MODULE PlanValidatorProofs ------------------------
(***************************************************************************)
(* The load-time proof of an instruction, for every width of the word and  *)
(* every plan: the checked arithmetic is exact, so that an operand the     *)
(* validator accepts lies in its space, and operands it finds disjoint are *)
(* apart, without any sum or product having wrapped.  Each kernel's        *)
(* touches are covered by what its claims were checked for, each index it  *)
(* may be given by the narrowest table and softmax of the plan; and so an  *)
(* instruction damaged in any single word, if accepted still, may run.     *)
(***************************************************************************)
EXTENDS UpdateRun, WellFoundedInduction, TLAPS

USE WordAssumption DEF Word, kF32

(***************************************************************************)
(* The checked arithmetic of plan_validator.h.                             *)
(***************************************************************************)
\* Multiplication is monotone.
LEMMA ProductGrows ==
  ASSUME NEW a \in Nat, NEW c \in Nat, NEW z \in Nat, a <= c
  PROVE  a * z <= c * z
<1> DEFINE d == c - a
<1>1. d \in Nat /\ c = a + d
  OBVIOUS
<1>2. c * z = a * z + d * z
  BY <1>1
<1>3. d * z >= 0
  BY <1>1
<1> QED
  BY <1>2, <1>3

\* A quotient, multiplied back, is the multiple below the dividend.
LEMMA QuotientBounds ==
  ASSUME NEW n \in Nat, NEW z \in Nat \ {0}
  PROVE  /\ n \div z \in Nat
         /\ (n \div z) * z <= n /\ n < (n \div z + 1) * z
<1>1. n \div z \in Nat /\ n % z \in 0..(z - 1) /\ n = z * (n \div z) + (n % z)
  OBVIOUS
<1> QED
  BY <1>1

\* A room that holds e elements of w bytes holds at least e whole ones.
LEMMA WholeElements ==
  ASSUME NEW e \in Nat, NEW w \in {1, 2, 4}, NEW room \in Nat, e * w <= room
  PROVE  e <= room \div w
<1>1. CASE w = 1
  BY <1>1
<1>2. CASE w = 2
  BY <1>2
<1>3. CASE w = 4
  BY <1>3
<1> QED
  BY <1>1, <1>2, <1>3

\* MulOk accepts exactly the products that fit a word (plan_validator.h:23-27).
THEOREM MulOkIsExact ==
  ASSUME NEW a \in Word, NEW z \in Word
  PROVE  MulOk(a, z) <=> a * z < WordSize
<1>1. CASE z = 0
  BY <1>1 DEF MulOk
<1>2. CASE z # 0
  <2> DEFINE q == (WordSize - 1) \div z
  <2>1. q \in Nat /\ q * z <= WordSize - 1 /\ WordSize - 1 < (q + 1) * z
    BY <1>2, QuotientBounds
  <2>2. CASE a <= q
    <3>1. a * z <= q * z
      BY <2>1, <2>2, ProductGrows
    <3>2. a * z \in Nat /\ q * z \in Nat
      BY <2>1
    <3> QED
      BY <1>2, <2>1, <2>2, <3>1, <3>2 DEF MulOk
  <2>3. CASE ~(a <= q)
    <3>1. (q + 1) * z <= a * z
      BY <2>1, <2>3, ProductGrows
    <3>2. a * z \in Nat /\ (q + 1) * z \in Nat
      BY <2>1
    <3> QED
      BY <1>2, <2>1, <2>3, <3>1, <3>2 DEF MulOk
  <2> QED
    BY <2>2, <2>3
<1> QED
  BY <1>1, <1>2

\* A product MulOk accepts is the machine's own.
LEMMA CheckedProduct ==
  ASSUME NEW a \in Word, NEW z \in Word, MulOk(a, z)
  PROVE  WordMul(a, z) = a * z /\ a * z \in Word
<1>1. a * z < WordSize /\ a * z \in Nat
  BY MulOkIsExact
<1> QED
  BY <1>1 DEF WordMul

\* RangeOk accepts exactly the ranges that end within the space
\* (plan_validator.h:30-32).
THEOREM RangeOkIsExact ==
  ASSUME NEW off \in Word, NEW bytes \in Word, NEW size \in Word
  PROVE  RangeOk(off, bytes, size) <=> off + bytes <= size
<1>1. CASE off <= size
  <2>1. WordSub(size, off) = size - off
    BY <1>1 DEF WordSub
  <2> QED
    BY <1>1, <2>1 DEF RangeOk
<1>2. CASE ~(off <= size)
  BY <1>2 DEF RangeOk
<1> QED
  BY <1>1, <1>2

(***************************************************************************)
(* One operand, and two of them.  A reference names one of the plan's      *)
(* three spaces or is null; the sizes of the spaces fit a word, as the     *)
(* plan contract has them.                                                 *)
(***************************************************************************)
ClaimType == [ref : TensorRef, elems : Word, write : BOOLEAN, width : {1, 2, 4}]
Context(ctx) ==
  ctx.arena_size \in Word /\ ctx.rodata_size \in Word /\ ctx.allow_source \in BOOLEAN

\* The bytes of a claim, as the integers have them.
EndOf(c) == c.ref.off + c.elems * c.width

\* An operand ref_ok accepts (plan_validator.cc:130-160) ends within its space; it
\* is aligned, and written only in the arena.
THEOREM AcceptedClaimIsInBounds ==
  ASSUME NEW ctx, Context(ctx), NEW c \in ClaimType, RefOk(c, ctx)
  PROVE  /\ c.ref.off \in Word /\ EndOf(c) <= SpaceSize(c.ref, ctx)
         /\ SpaceSize(c.ref, ctx) \in Word
         /\ WordMul(c.elems, c.width) = c.elems * c.width
         /\ c.ref.off % c.width = 0
         /\ c.write => c.ref.sp = "arena"
<1>1. c.ref \in [sp : {"arena", "rodata", "source"}, off : Word]
  BY DEF RefOk, ClaimType, TensorRef
<1>2. SpaceSize(c.ref, ctx) \in Word
  BY <1>1 DEF SpaceSize, Context
<1>3. c.elems \in Word /\ c.width \in Word /\ MulOk(c.elems, c.width)
  BY DEF RefOk, ClaimType, kF32
<1>4. WordMul(c.elems, c.width) = c.elems * c.width /\ c.elems * c.width \in Word
  BY <1>3, CheckedProduct
<1>5. RangeOk(c.ref.off, WordMul(c.elems, c.width), SpaceSize(c.ref, ctx))
  BY <1>1 DEF RefOk, SpaceSize
<1>6. c.ref.off + c.elems * c.width <= SpaceSize(c.ref, ctx)
  BY <1>1, <1>2, <1>4, <1>5, RangeOkIsExact
<1> QED
  BY <1>1, <1>2, <1>4, <1>6 DEF RefOk, EndOf, ClaimType

\* Two accepted operands the validator finds disjoint (plan_validator.cc:177-184) are
\* apart: neither end has wrapped.
THEOREM AcceptedClaimsAreApart ==
  ASSUME NEW ctx, Context(ctx), NEW a \in ClaimType, NEW z \in ClaimType,
         RefOk(a, ctx), RefOk(z, ctx), ~Overlap(a, z)
  PROVE  \/ a.ref.sp # z.ref.sp
         \/ EndOf(a) <= z.ref.off
         \/ EndOf(z) <= a.ref.off
<1>1. /\ WordAdd(a.ref.off, WordMul(a.elems, a.width)) = EndOf(a)
      /\ WordAdd(z.ref.off, WordMul(z.elems, z.width)) = EndOf(z)
  <2>1. ASSUME NEW c \in ClaimType, RefOk(c, ctx)
        PROVE  WordAdd(c.ref.off, WordMul(c.elems, c.width)) = EndOf(c)
    <3>1. /\ c.ref.off \in Word /\ WordMul(c.elems, c.width) = c.elems * c.width
          /\ EndOf(c) <= SpaceSize(c.ref, ctx) /\ SpaceSize(c.ref, ctx) \in Word
      BY <2>1, AcceptedClaimIsInBounds
    <3>2. c.elems * c.width \in Nat
      BY DEF ClaimType
    <3> QED
      BY <3>1, <3>2 DEF WordAdd, EndOf
  <2> QED
    BY <2>1
<1>2. /\ a.ref.off \in Nat /\ z.ref.off \in Nat
      /\ EndOf(a) \in Nat /\ EndOf(z) \in Nat
  <2>1. a.ref.off \in Nat /\ z.ref.off \in Nat
    BY AcceptedClaimIsInBounds
  <2> QED
    BY <2>1 DEF EndOf, ClaimType
<1> QED
  BY <1>1, <1>2 DEF Overlap

(***************************************************************************)
(* A whole instruction.                                                    *)
(***************************************************************************)
\* What a kernel touches is safe when each touch is a claim of its own, every claim
\* is accepted and the claims are disjoint.
THEOREM ClaimedTouchesAreSafe ==
  ASSUME NEW ctx, Context(ctx),
         NEW claims \in Seq(ClaimType), NEW touches \in Seq(ClaimType),
         NEW of \in [DOMAIN touches -> DOMAIN claims],
         \A i, j \in DOMAIN touches : i # j => of[i] # of[j],
         \A i \in DOMAIN touches : touches[i] = claims[of[i]],
         \A i \in DOMAIN claims : RefOk(claims[i], ctx),
         Disjoint(claims)
  PROVE  TouchesAreSafe(touches, ctx)
<1>1. ASSUME NEW i \in DOMAIN touches
      PROVE  /\ touches[i] \in ClaimType /\ RefOk(touches[i], ctx)
             /\ of[i] \in DOMAIN claims /\ of[i] \in Nat
  OBVIOUS
<1>2. ASSUME NEW i \in DOMAIN touches
      PROVE  LET t == touches[i] IN
             /\ t.ref.off % t.width = 0
             /\ t.ref.off <= SpaceSize(t.ref, ctx)
             /\ t.elems <= (SpaceSize(t.ref, ctx) - t.ref.off) \div t.width
             /\ t.write => t.ref.sp = "arena"
  <2> DEFINE t == touches[i]
             size == SpaceSize(t.ref, ctx)
  <2>1. /\ t \in ClaimType /\ t.ref.off \in Word /\ EndOf(t) <= size /\ size \in Word
        /\ t.ref.off % t.width = 0 /\ (t.write => t.ref.sp = "arena")
    BY <1>1, AcceptedClaimIsInBounds
  <2> HIDE DEF size, t
  <2>2. t.elems \in Nat /\ t.width \in {1, 2, 4}
    BY <2>1 DEF ClaimType
  <2>3. t.ref.off \in Nat /\ size \in Nat /\ t.elems * t.width \in Nat
    BY <2>1, <2>2
  <2>4. t.ref.off <= size /\ t.elems * t.width <= size - t.ref.off
    BY <2>1, <2>3 DEF EndOf
  <2>5. t.elems <= (size - t.ref.off) \div t.width
    <3> DEFINE room == size - t.ref.off
    <3>1. room \in Nat
      BY <2>3, <2>4
    <3>2. t.elems * t.width <= room
      BY <2>4
    <3> HIDE DEF room
    <3>3. t.elems <= room \div t.width
      BY <2>2, <3>1, <3>2, WholeElements
    <3> QED
      BY <3>3 DEF room
  <2> QED
    BY <2>1, <2>4, <2>5 DEF size, t
<1>3. ASSUME NEW i \in DOMAIN touches, NEW j \in DOMAIN touches, i # j, touches[i].write
      PROVE  \/ touches[i].ref.sp # touches[j].ref.sp
             \/ EndOf(touches[i]) <= touches[j].ref.off
             \/ EndOf(touches[j]) <= touches[i].ref.off
  <2>1. of[i] < of[j] \/ of[j] < of[i]
    BY <1>1, <1>3
  <2>2. ~Overlap(touches[i], touches[j]) \/ ~Overlap(touches[j], touches[i])
    BY <1>1, <1>3, <2>1 DEF Disjoint
  <2> QED
    BY <1>1, <2>2, AcceptedClaimsAreApart
<1> QED
  BY <1>2, <1>3 DEF TouchesAreSafe, EndOf

\* A kernel's touches are drawn from the claims: each is one of them, and no two are
\* the same one.
DrawnFrom(touches, claims) ==
  /\ touches \in Seq(ClaimType) /\ claims \in Seq(ClaimType)
  /\ \E of \in [DOMAIN touches -> DOMAIN claims] :
       /\ \A i, j \in DOMAIN touches : i # j => of[i] # of[j]
       /\ \A i \in DOMAIN touches : touches[i] = claims[of[i]]

\* A kernel that touches its claims in their order touches nothing else.
LEMMA ClaimsInTheirOrder ==
  ASSUME NEW claims \in Seq(ClaimType)
  PROVE  DrawnFrom(claims, claims)
<1> DEFINE of == [i \in DOMAIN claims |-> i]
<1>1. /\ of \in [DOMAIN claims -> DOMAIN claims]
      /\ \A i, j \in DOMAIN claims : i # j => of[i] # of[j]
      /\ \A i \in DOMAIN claims : claims[i] = claims[of[i]]
  OBVIOUS
<1> QED
  BY <1>1 DEF DrawnFrom

\* A kernel whose touches are drawn from the claims its proof accepted may run.
LEMMA TouchesDrawnFromClaims ==
  ASSUME NEW ctx, Context(ctx), NEW ins, ValidateInstruction(ins, ctx),
         DrawnFrom(Touches(ins), ExtentsOf(ins, ctx.version).claims)
  PROVE  MayTouch(ins, ctx)
<1> DEFINE claims == ExtentsOf(ins, ctx.version).claims
           touches == Touches(ins)
<1>1. (\A i \in DOMAIN claims : RefOk(claims[i], ctx)) /\ Disjoint(claims)
  BY DEF ValidateInstruction
<1>2. DrawnFrom(touches, claims)
  OBVIOUS
<1> HIDE DEF claims, touches
<1>3. PICK of \in [DOMAIN touches -> DOMAIN claims] :
        /\ \A i, j \in DOMAIN touches : i # j => of[i] # of[j]
        /\ \A i \in DOMAIN touches : touches[i] = claims[of[i]]
  BY <1>2 DEF DrawnFrom
<1>4. TouchesAreSafe(touches, ctx)
  BY <1>1, <1>2, <1>3, ClaimedTouchesAreSafe DEF DrawnFrom
<1> QED
  BY <1>4 DEF MayTouch, touches

\* A read is the claim of an input, a write the claim of an output.
LEMMA TouchesAsClaims ==
  ASSUME NEW ref, NEW e
  PROVE  Reads(ref, e) = In(ref, e) /\ Writes(ref, e) = OutTo(ref, e)
BY DEF Reads, Writes, Touch, TouchOf, In, OutTo, Claim

\* The claims on a reference of the plan.
LEMMA ClaimsAreTyped ==
  ASSUME NEW ref \in TensorRef, NEW e \in Word
  PROVE  In(ref, e) \in ClaimType /\ OutTo(ref, e) \in ClaimType
BY DEF In, OutTo, Claim, ClaimType

\* The kernel of a product touches exactly the operands its proof claims
\* (plan_validator.cc:190-252, cpu_backend.cc's dispatch).
LEMMA GemmClaimsAreItsTouches ==
  ASSUME NEW ins, ins.op \in Gemms, InstructionWord(ins), ExtentsOfGemm(ins).ok,
         ins.op = "gemm_acc_nn" => ins.flags = {}
  PROVE  /\ ExtentsOfGemm(ins).claims = TouchesOfGemm(ins)
         /\ TouchesOfGemm(ins) \in Seq(ClaimType)
<1> DEFINE m == ins.out[1]  n == ins.out[2]  k == ins.out[3]
<1>1. m \in Word /\ n \in Word /\ k \in Word
  BY DEF InstructionWord, CountWords, Gemms, MapOps, Maps1, Maps2
<1>2. /\ WordMul(m, k) = m * k /\ m * k \in Word
      /\ WordMul(k, n) = k * n /\ k * n \in Word
      /\ WordMul(m, n) = m * n /\ m * n \in Word
  <2>1. MulOk(m, k) /\ MulOk(k, n) /\ MulOk(m, n)
    BY DEF ExtentsOfGemm, Extents
  <2> QED
    BY <1>1, <2>1, CheckedProduct
<1> DEFINE a == Claim(ins.in[1], m * k, FALSE, kF32)
           z == Claim(ins.in[2], k * n, FALSE, StorageWidth(ins.op))
           c == Claim(ins.in[3], m * n, TRUE, kF32)
<1>4. ExtentsOfGemm(ins).claims = << a, z, c >>
             \o Plus("bias" \in ins.flags, In(ins.in[4], n))
             \o Plus("colscale" \in ins.flags,
                     In(ins.in[4], IF ins.op = "gemm_nt_q8" THEN k ELSE n))
             \o Plus("addend" \in ins.flags, In(ins.in[4], m * n))
  BY <1>2 DEF ExtentsOfGemm, Extents, In, OutTo
<1>5. TouchesOfGemm(ins) = << a, z, c >>
             \o Plus("bias" \in ins.flags, In(ins.in[4], n))
             \o Plus("colscale" \in ins.flags,
                     In(ins.in[4], IF ins.op = "gemm_nt_q8" THEN k ELSE n))
             \o Plus("addend" \in ins.flags, In(ins.in[4], m * n))
  BY DEF TouchesOfGemm, TouchOf, Touch, Reads, Optional, Plus, In, Claim
<1>6. ins.in[1] \in TensorRef /\ ins.in[2] \in TensorRef /\ ins.in[3] \in TensorRef
      /\ (ins.op # "gemm_acc_nn" => ins.in[4] \in TensorRef)
  BY DEF InstructionWord, OperandWords, Gemms, Maps1, Maps2, Ropes
<1>8. a \in ClaimType /\ z \in ClaimType /\ c \in ClaimType
  <2>1. StorageWidth(ins.op) \in {1, 2, 4}
    BY DEF StorageWidth
  <2> QED
    BY <1>2, <1>6, <2>1 DEF Claim, ClaimType
<1>9. ASSUME ins.flags # {}
      PROVE  /\ In(ins.in[4], n) \in ClaimType
             /\ In(ins.in[4], IF ins.op = "gemm_nt_q8" THEN k ELSE n) \in ClaimType
             /\ In(ins.in[4], m * n) \in ClaimType
  BY <1>1, <1>2, <1>6, <1>9, ClaimsAreTyped
<1>7. TouchesOfGemm(ins) \in Seq(ClaimType)
  <2> HIDE DEF a, z, c
  <2>1. << a, z, c >> \in Seq(ClaimType)
    BY <1>8
  <2>2. /\ Plus("bias" \in ins.flags, In(ins.in[4], n)) \in Seq(ClaimType)
        /\ Plus("colscale" \in ins.flags,
                In(ins.in[4], IF ins.op = "gemm_nt_q8" THEN k ELSE n)) \in Seq(ClaimType)
        /\ Plus("addend" \in ins.flags, In(ins.in[4], m * n)) \in Seq(ClaimType)
    BY <1>9 DEF Plus
  <2>3. \A s, t \in Seq(ClaimType) : s \o t \in Seq(ClaimType)
    OBVIOUS
  <2> QED
    BY <1>5, <2>1, <2>2, <2>3
<1> QED
  BY <1>4, <1>5, <1>7

\* An accepted accumulating product carries no flags, so that its fourth slot, an
\* immediate, is read as one.
LEMMA AccumulatingProductsAreBare ==
  ASSUME NEW ins, NEW version, ins.op = "gemm_acc_nn", FlagsOk(ins, version)
  PROVE  ins.flags = {}
<1>1. AllowedFlags(ins.op, version) = {}
  BY DEF AllowedFlags, GemmsQ8
<1> QED
  BY <1>1 DEF FlagsOk

(***************************************************************************)
(* The other instructions, family by family.                               *)
(***************************************************************************)
\* The operations over one count touch what they claim (plan_validator.cc, the maps,
\* the losses over elements and the optimizer steps).
LEMMA MapClaimsAreItsTouches ==
  ASSUME NEW ins, ins.op \in MapOps, InstructionWord(ins)
  PROVE  /\ ExtentsOfMap(ins).claims = TouchesOfMap(ins)
         /\ TouchesOfMap(ins) \in Seq(ClaimType)
<1> DEFINE in == ins.in  n == ins.out[1]
<1>1. n \in Word /\ 1 \in Word
  BY DEF InstructionWord, CountWords, MapOps, Gemms, Maps1, Maps2
<1>2. CASE ins.op \in Maps2
  <2>1. in[1] \in TensorRef /\ in[2] \in TensorRef /\ in[3] \in TensorRef
    BY <1>2 DEF InstructionWord, OperandWords, Maps2, Maps1, Ropes
  <2>2. /\ ExtentsOfMap(ins).claims =
             << In(in[1], n), In(in[2], n), OutTo(in[3], n) >>
        /\ TouchesOfMap(ins) =
             << Reads(in[1], n), Reads(in[2], n), Writes(in[3], n) >>
    BY <1>2 DEF ExtentsOfMap, TouchesOfMap, Extents, Maps2, Maps1
  <2> QED
    BY <1>1, <2>1, <2>2, TouchesAsClaims, ClaimsAreTyped
<1>3. CASE ins.op \in Maps1
  <2>1. in[1] \in TensorRef /\ in[2] \in TensorRef
    BY <1>3 DEF InstructionWord, OperandWords, Maps2, Maps1, Ropes
  <2>2. /\ ExtentsOfMap(ins).claims =
             << In(in[1], n), OutTo(in[2], n) >>
        /\ TouchesOfMap(ins) =
             << Reads(in[1], n), Writes(in[2], n) >>
    BY <1>3 DEF ExtentsOfMap, TouchesOfMap, Extents, Maps2, Maps1
  <2> QED
    BY <1>1, <2>1, <2>2, TouchesAsClaims, ClaimsAreTyped
<1>4. CASE ins.op \in {"clip_norm", "fill"}
  <2>1. in[1] \in TensorRef
    BY <1>4 DEF InstructionWord, OperandWords, Maps2, Maps1, Ropes
  <2>2. /\ ExtentsOfMap(ins).claims =
             << OutTo(in[1], n) >>
        /\ TouchesOfMap(ins) =
             << Writes(in[1], n) >>
    BY <1>4 DEF ExtentsOfMap, TouchesOfMap, Extents, Maps2, Maps1
  <2> QED
    BY <1>1, <2>1, <2>2, TouchesAsClaims, ClaimsAreTyped
<1>5. CASE ins.op = "mse_fwd"
  <2>1. in[1] \in TensorRef /\ in[2] \in TensorRef /\ in[3] \in TensorRef
    BY <1>5 DEF InstructionWord, OperandWords, Maps2, Maps1, Ropes
  <2>2. /\ ExtentsOfMap(ins).claims =
             << In(in[1], n), In(in[2], n), OutTo(in[3], 1) >>
        /\ TouchesOfMap(ins) =
             << Reads(in[1], n), Reads(in[2], n), Writes(in[3], 1) >>
    BY <1>5 DEF ExtentsOfMap, TouchesOfMap, Extents, Maps2, Maps1
  <2> QED
    BY <1>1, <2>1, <2>2, TouchesAsClaims, ClaimsAreTyped
<1>6. CASE ins.op = "mse_bwd"
  <2>1. in[1] \in TensorRef /\ in[2] \in TensorRef /\ in[3] \in TensorRef
        /\ in[4] \in TensorRef
    BY <1>6 DEF InstructionWord, OperandWords, Maps2, Maps1, Ropes
  <2>2. /\ ExtentsOfMap(ins).claims =
             << In(in[1], n), In(in[2], n), In(in[3], 1), OutTo(in[4], n) >>
        /\ TouchesOfMap(ins) =
             << Reads(in[1], n), Reads(in[2], n), Reads(in[3], 1), Writes(in[4], n) >>
    BY <1>6 DEF ExtentsOfMap, TouchesOfMap, Extents, Maps2, Maps1
  <2> QED
    BY <1>1, <2>1, <2>2, TouchesAsClaims, ClaimsAreTyped
<1>7. CASE ins.op \in {"sgd_step", "accumulate"}
  <2>1. in[1] \in TensorRef /\ in[2] \in TensorRef
    BY <1>7 DEF InstructionWord, OperandWords, Maps2, Maps1, Ropes
  <2>2. /\ ExtentsOfMap(ins).claims =
             << OutTo(in[1], n), In(in[2], n) >>
        /\ TouchesOfMap(ins) =
             << Writes(in[1], n), Reads(in[2], n) >>
    BY <1>7 DEF ExtentsOfMap, TouchesOfMap, Extents, Maps2, Maps1
  <2> QED
    BY <1>1, <2>1, <2>2, TouchesAsClaims, ClaimsAreTyped
<1>8. CASE ins.op = "adamw_step"
  <2>1. in[1] \in TensorRef /\ in[2] \in TensorRef /\ in[3] \in TensorRef
        /\ in[4] \in TensorRef
    BY <1>8 DEF InstructionWord, OperandWords, Maps2, Maps1, Ropes
  <2>2. /\ ExtentsOfMap(ins).claims =
             << OutTo(in[1], n), In(in[2], n), OutTo(in[3], n), OutTo(in[4], n) >>
        /\ TouchesOfMap(ins) =
             << Writes(in[1], n), Reads(in[2], n), Writes(in[3], n), Writes(in[4], n) >>
    BY <1>8 DEF ExtentsOfMap, TouchesOfMap, Extents, Maps2, Maps1
  <2> QED
    BY <1>1, <2>1, <2>2, TouchesAsClaims, ClaimsAreTyped
<1> QED
  BY <1>2, <1>3, <1>4, <1>5, <1>6, <1>7, <1>8 DEF MapOps
\* The dimensions of a row operation are words; its checked product is theirs.
LEMMA RowsAndColumnsAreWords ==
  ASSUME NEW ins, ins.op \in RowOps, InstructionWord(ins), ExtentsOfRows(ins).ok
  PROVE  LET r == RowsAndColumns(ins)[1]  c == RowsAndColumns(ins)[2]
         IN  /\ r \in Word /\ c \in Word
             /\ WordMul(r, c) = r * c /\ r * c \in Word
<1> DEFINE r == RowsAndColumns(ins)[1]  c == RowsAndColumns(ins)[2]
<1>1. r \in Word /\ c \in Word
  <2>1. CASE ins.op \in {"add_bias", "reduce_rows", "softmax_xent_fwd", "softmax_xent_bwd"}
    <3>1. ins.out[1] \in Word /\ ins.out[2] \in Word
      BY <2>1 DEF InstructionWord, CountWords, MapOps, Gemms, Maps1, Maps2
    <3> QED
      BY <2>1, <3>1 DEF RowsAndColumns
  <2>2. CASE ins.op \in {"rms_norm_bwd", "kl_distill_fwd"}
    <3>1. ins.out[2] \in Word \X Word
      BY <2>2 DEF InstructionWord, PairWords, Ropes
    <3> QED
      BY <2>2, <3>1 DEF RowsAndColumns
  <2>3. CASE ins.op = "layer_norm_bwd"
    <3>1. ins.out[3] \in Word \X Word
      BY <2>3 DEF InstructionWord, PairWords, Ropes
    <3> QED
      BY <2>3, <3>1 DEF RowsAndColumns
  <2>4. CASE ins.op \in {"layer_norm_fwd", "rms_norm_fwd", "kl_distill_bwd",
                         "softmax_rows_bwd"}
    <3>1. ins.out[1] \in Word \X Word
      BY <2>4 DEF InstructionWord, PairWords, Ropes
    <3> QED
      BY <2>4, <3>1 DEF RowsAndColumns
  <2> QED
    BY <2>1, <2>2, <2>3, <2>4 DEF RowOps
<1>2. MulOk(r, c)
  BY DEF ExtentsOfRows, Extents
<1> QED
  BY <1>1, <1>2, CheckedProduct

\* The operations over rows touch what they claim, in its order but for the two
\* backward norms, whose statistics are claimed last.
LEMMA RowClaimsAreItsTouches ==
  ASSUME NEW ins, ins.op \in RowOps \ {"layer_norm_bwd", "rms_norm_bwd"},
         InstructionWord(ins), ExtentsOfRows(ins).ok
  PROVE  /\ ExtentsOfRows(ins).claims = TouchesOfRows(ins)
         /\ TouchesOfRows(ins) \in Seq(ClaimType)
<1> DEFINE in == ins.in  out == ins.out
           r == RowsAndColumns(ins)[1]  c == RowsAndColumns(ins)[2]
<1>1. /\ r \in Word /\ c \in Word /\ 1 \in Word
      /\ WordMul(r, c) = r * c /\ r * c \in Word
  BY RowsAndColumnsAreWords
<1>2. CASE ins.op = "add_bias"
  <2>1. in[1] \in TensorRef /\ in[2] \in TensorRef /\ in[3] \in TensorRef
    BY <1>2 DEF InstructionWord, OperandWords, RefWords, Maps2, Maps1, Ropes, TiledBackwards
  <2>2. /\ ExtentsOfRows(ins).claims =
             << In(in[1], r * c), In(in[2], c), OutTo(in[3], r * c) >>
        /\ TouchesOfRows(ins) =
             << Reads(in[1], r * c), Reads(in[2], c), Writes(in[3], r * c) >>
    BY <1>1, <1>2 DEF ExtentsOfRows, TouchesOfRows, Extents
  <2> QED
    BY <1>1, <2>1, <2>2, TouchesAsClaims, ClaimsAreTyped
<1>3. CASE ins.op = "reduce_rows"
  <2>1. in[1] \in TensorRef /\ in[2] \in TensorRef
    BY <1>3 DEF InstructionWord, OperandWords, RefWords, Maps2, Maps1, Ropes, TiledBackwards
  <2>2. /\ ExtentsOfRows(ins).claims =
             << In(in[1], r * c), OutTo(in[2], c) >>
        /\ TouchesOfRows(ins) =
             << Reads(in[1], r * c), Writes(in[2], c) >>
    BY <1>1, <1>3 DEF ExtentsOfRows, TouchesOfRows, Extents
  <2> QED
    BY <1>1, <2>1, <2>2, TouchesAsClaims, ClaimsAreTyped
<1>4. CASE ins.op = "softmax_xent_fwd"
  <2>1. in[1] \in TensorRef /\ in[2] \in TensorRef /\ in[3] \in TensorRef
        /\ in[4] \in TensorRef
    BY <1>4 DEF InstructionWord, OperandWords, RefWords, Maps2, Maps1, Ropes, TiledBackwards
  <2>2. /\ ExtentsOfRows(ins).claims =
             << In(in[1], r * c), In(in[2], r), OutTo(in[3], 1), OutTo(in[4], r * c) >>
        /\ TouchesOfRows(ins) =
             << Reads(in[1], r * c), Reads(in[2], r), Writes(in[3], 1), Writes(in[4],
                r * c) >>
    BY <1>1, <1>4 DEF ExtentsOfRows, TouchesOfRows, Extents
  <2> QED
    BY <1>1, <2>1, <2>2, TouchesAsClaims, ClaimsAreTyped
<1>5. CASE ins.op = "softmax_xent_bwd"
  <2>1. in[1] \in TensorRef /\ in[2] \in TensorRef /\ in[3] \in TensorRef
        /\ in[4] \in TensorRef
    BY <1>5 DEF InstructionWord, OperandWords, RefWords, Maps2, Maps1, Ropes, TiledBackwards
  <2>2. /\ ExtentsOfRows(ins).claims =
             << In(in[1], r * c), In(in[2], r), In(in[3], 1), OutTo(in[4], r * c) >>
        /\ TouchesOfRows(ins) =
             << Reads(in[1], r * c), Reads(in[2], r), Reads(in[3], 1), Writes(in[4],
                r * c) >>
    BY <1>1, <1>5 DEF ExtentsOfRows, TouchesOfRows, Extents
  <2> QED
    BY <1>1, <2>1, <2>2, TouchesAsClaims, ClaimsAreTyped
<1>6. CASE ins.op = "layer_norm_fwd"
  <2>1. in[1] \in TensorRef /\ in[2] \in TensorRef /\ in[3] \in TensorRef
        /\ in[4] \in TensorRef /\ out[2] \in TensorRef /\ out[3] \in TensorRef
    BY <1>6 DEF InstructionWord, OperandWords, RefWords, Maps2, Maps1, Ropes, TiledBackwards
  <2>2. /\ ExtentsOfRows(ins).claims =
             << In(in[1], r * c), In(in[2], c), In(in[3], c), OutTo(in[4], r * c),
                OutTo(out[2], r), OutTo(out[3], r) >>
        /\ TouchesOfRows(ins) =
             << Reads(in[1], r * c), Reads(in[2], c), Reads(in[3], c), Writes(in[4],
                r * c), Writes(out[2], r), Writes(out[3], r) >>
    BY <1>1, <1>6 DEF ExtentsOfRows, TouchesOfRows, Extents
  <2> QED
    BY <1>1, <2>1, <2>2, TouchesAsClaims, ClaimsAreTyped
<1>7. CASE ins.op = "rms_norm_fwd"
  <2>1. in[1] \in TensorRef /\ in[2] \in TensorRef /\ in[3] \in TensorRef
        /\ in[4] \in TensorRef
    BY <1>7 DEF InstructionWord, OperandWords, RefWords, Maps2, Maps1, Ropes, TiledBackwards
  <2>2. /\ ExtentsOfRows(ins).claims =
             << In(in[1], r * c), In(in[2], c), OutTo(in[3], r * c), OutTo(in[4], r) >>
        /\ TouchesOfRows(ins) =
             << Reads(in[1], r * c), Reads(in[2], c), Writes(in[3], r * c), Writes(in[4],
                r) >>
    BY <1>1, <1>7 DEF ExtentsOfRows, TouchesOfRows, Extents
  <2> QED
    BY <1>1, <2>1, <2>2, TouchesAsClaims, ClaimsAreTyped
<1>8. CASE ins.op = "kl_distill_fwd"
  <2>1. in[1] \in TensorRef /\ in[2] \in TensorRef /\ in[3] \in TensorRef
        /\ in[4] \in TensorRef /\ out[1] \in TensorRef
    BY <1>8 DEF InstructionWord, OperandWords, RefWords, Maps2, Maps1, Ropes, TiledBackwards
  <2>2. /\ ExtentsOfRows(ins).claims =
             << In(in[1], r * c), In(in[2], r * c), OutTo(in[3], 1), OutTo(in[4], r * c),
                OutTo(out[1], r * c) >>
        /\ TouchesOfRows(ins) =
             << Reads(in[1], r * c), Reads(in[2], r * c), Writes(in[3], 1), Writes(in[4],
                r * c), Writes(out[1], r * c) >>
    BY <1>1, <1>8 DEF ExtentsOfRows, TouchesOfRows, Extents
  <2> QED
    BY <1>1, <2>1, <2>2, TouchesAsClaims, ClaimsAreTyped
<1>9. CASE ins.op = "kl_distill_bwd"
  <2>1. in[1] \in TensorRef /\ in[2] \in TensorRef /\ in[3] \in TensorRef
        /\ in[4] \in TensorRef
    BY <1>9 DEF InstructionWord, OperandWords, RefWords, Maps2, Maps1, Ropes, TiledBackwards
  <2>2. /\ ExtentsOfRows(ins).claims =
             << In(in[1], r * c), In(in[2], r * c), In(in[3], 1), OutTo(in[4], r * c) >>
        /\ TouchesOfRows(ins) =
             << Reads(in[1], r * c), Reads(in[2], r * c), Reads(in[3], 1), Writes(in[4],
                r * c) >>
    BY <1>1, <1>9 DEF ExtentsOfRows, TouchesOfRows, Extents
  <2> QED
    BY <1>1, <2>1, <2>2, TouchesAsClaims, ClaimsAreTyped
<1>10. CASE ins.op = "softmax_rows_bwd"
  <2>1. in[1] \in TensorRef /\ in[2] \in TensorRef /\ in[3] \in TensorRef
    BY <1>10 DEF InstructionWord, OperandWords, RefWords, Maps2, Maps1, Ropes,
          TiledBackwards
  <2>2. /\ ExtentsOfRows(ins).claims =
             << In(in[1], r * c), In(in[2], r * c), OutTo(in[3], r * c) >>
        /\ TouchesOfRows(ins) =
             << Reads(in[1], r * c), Reads(in[2], r * c), Writes(in[3], r * c) >>
    BY <1>1, <1>10 DEF ExtentsOfRows, TouchesOfRows, Extents
  <2> QED
    BY <1>1, <2>1, <2>2, TouchesAsClaims, ClaimsAreTyped
<1> QED
  BY <1>2, <1>3, <1>4, <1>5, <1>6, <1>7, <1>8, <1>9, <1>10 DEF RowOps

\* The backward of a layer norm: its statistics are read before the gradient is
\* written, and claimed after it.
LEMMA LayerNormBackwardIsClaimed ==
  ASSUME NEW ins, ins.op = "layer_norm_bwd", InstructionWord(ins), ExtentsOfRows(ins).ok
  PROVE  DrawnFrom(TouchesOfRows(ins), ExtentsOfRows(ins).claims)
<1> DEFINE in == ins.in  out == ins.out
           r == RowsAndColumns(ins)[1]  c == RowsAndColumns(ins)[2]
           claims == << In(in[1], r * c), In(in[2], r * c), In(in[3], c),
                        OutTo(in[4], r * c), In(out[1], r), In(out[2], r) >>
           touches == << In(in[1], r * c), In(in[2], r * c), In(in[3], c),
                         In(out[1], r), In(out[2], r), OutTo(in[4], r * c) >>
           of == << 1, 2, 3, 5, 6, 4 >>
<1>1. /\ r \in Word /\ c \in Word /\ 1 \in Word
      /\ WordMul(r, c) = r * c /\ r * c \in Word
  BY RowsAndColumnsAreWords DEF RowOps
<1>2. in[1] \in TensorRef /\ in[2] \in TensorRef /\ in[3] \in TensorRef
      /\ in[4] \in TensorRef /\ out[1] \in TensorRef /\ out[2] \in TensorRef
  BY DEF InstructionWord, OperandWords, RefWords, Maps2, Maps1, Ropes, TiledBackwards
<1>3. /\ ExtentsOfRows(ins).claims = claims
      /\ TouchesOfRows(ins) = touches
  BY <1>1, TouchesAsClaims DEF ExtentsOfRows, TouchesOfRows, Extents
<1>4. claims \in Seq(ClaimType) /\ touches \in Seq(ClaimType)
  BY <1>1, <1>2, ClaimsAreTyped
<1>5. DOMAIN claims = 1..6 /\ DOMAIN touches = 1..6
  OBVIOUS
<1>6. /\ of \in [1..6 -> 1..6]
      /\ \A i, j \in 1..6 : i # j => of[i] # of[j]
  OBVIOUS
<1>7. \A i \in 1..6 : touches[i] = claims[of[i]]
  OBVIOUS
<1> HIDE DEF claims, touches, of
<1> QED
  BY <1>3, <1>4, <1>5, <1>6, <1>7 DEF DrawnFrom

\* And of an RMS norm, whose one statistic is claimed last.
LEMMA RmsNormBackwardIsClaimed ==
  ASSUME NEW ins, ins.op = "rms_norm_bwd", InstructionWord(ins), ExtentsOfRows(ins).ok
  PROVE  DrawnFrom(TouchesOfRows(ins), ExtentsOfRows(ins).claims)
<1> DEFINE in == ins.in  out == ins.out
           r == RowsAndColumns(ins)[1]  c == RowsAndColumns(ins)[2]
           claims == << In(in[1], r * c), In(in[2], r * c), In(in[3], c),
                        OutTo(in[4], r * c), In(out[1], r) >>
           touches == << In(in[1], r * c), In(in[2], r * c), In(in[3], c),
                         In(out[1], r), OutTo(in[4], r * c) >>
           of == << 1, 2, 3, 5, 4 >>
<1>1. /\ r \in Word /\ c \in Word /\ 1 \in Word
      /\ WordMul(r, c) = r * c /\ r * c \in Word
  BY RowsAndColumnsAreWords DEF RowOps
<1>2. in[1] \in TensorRef /\ in[2] \in TensorRef /\ in[3] \in TensorRef
      /\ in[4] \in TensorRef /\ out[1] \in TensorRef
  BY DEF InstructionWord, OperandWords, RefWords, Maps2, Maps1, Ropes, TiledBackwards
<1>3. /\ ExtentsOfRows(ins).claims = claims
      /\ TouchesOfRows(ins) = touches
  BY <1>1, TouchesAsClaims DEF ExtentsOfRows, TouchesOfRows, Extents
<1>4. claims \in Seq(ClaimType) /\ touches \in Seq(ClaimType)
  BY <1>1, <1>2, ClaimsAreTyped
<1>5. DOMAIN claims = 1..5 /\ DOMAIN touches = 1..5
  OBVIOUS
<1>6. /\ of \in [1..5 -> 1..5]
      /\ \A i, j \in 1..5 : i # j => of[i] # of[j]
  OBVIOUS
<1>7. \A i \in 1..5 : touches[i] = claims[of[i]]
  OBVIOUS
<1> HIDE DEF claims, touches, of
<1> QED
  BY <1>3, <1>4, <1>5, <1>6, <1>7 DEF DrawnFrom

\* The geometry of attention (attn_geometry): what it checks product by product is
\* what the kernels' loops run over.
LEMMA GeometryIsExact ==
  ASSUME NEW bs \in Word \X Word, NEW hd \in Word \X Word, GeometryOk(bs, hd)
  PROVE  /\ Geometry_td(bs, hd) = Activation(bs, hd) /\ Activation(bs, hd) \in Word
         /\ Geometry_pn(bs, hd) = Probabilities(bs, hd) /\ Probabilities(bs, hd) \in Word
         /\ StatsOk(bs, hd) => /\ StatsElems(bs, hd) = StatsRows(bs, hd)
                               /\ StatsRows(bs, hd) \in Word
<1> DEFINE k == bs[1]  s == bs[2]  h == hd[1]  d == hd[2]
<1>1. k \in Word /\ s \in Word /\ h \in Word /\ d \in Word
  OBVIOUS
<1>2. WordMul(k, s) = k * s /\ k * s \in Word
  BY <1>1, CheckedProduct DEF GeometryOk
<1>3. WordMul(h, d) = h * d /\ h * d \in Word
  BY <1>1, CheckedProduct DEF GeometryOk
<1> DEFINE t == k * s  dm == h * d
<1>4. MulOk(t, dm) /\ MulOk(t, h) /\ MulOk(WordMul(t, h), s)
  BY <1>2, <1>3 DEF GeometryOk
<1>5. t \in Word /\ dm \in Word
  BY <1>2, <1>3
<1> HIDE DEF t, dm
<1>6. WordMul(t, dm) = t * dm /\ t * dm \in Word
  BY <1>4, <1>5, CheckedProduct
<1>7. WordMul(t, h) = t * h /\ t * h \in Word
  BY <1>1, <1>4, <1>5, CheckedProduct
<1>8. WordMul(t * h, s) = (t * h) * s /\ (t * h) * s \in Word
  BY <1>1, <1>4, <1>7, CheckedProduct
<1>9. StatsOk(bs, hd) => WordMul(t * h, 4) = (t * h) * 4 /\ (t * h) * 4 \in Word
  <2>1. 4 \in Word
    OBVIOUS
  <2> QED
    BY <1>2, <1>7, <2>1, CheckedProduct DEF StatsOk, t
<1>10. /\ t * dm = k * s * h * d
       /\ (t * h) * s = k * h * s * s
       /\ (t * h) * 4 = k * h * s * 4
  BY <1>1 DEF t, dm
<1>11. Geometry_td(bs, hd) = t * dm /\ Activation(bs, hd) = k * s * h * d
  BY <1>2, <1>3, <1>6 DEF Geometry_td, Activation, t, dm
<1>12. Geometry_pn(bs, hd) = (t * h) * s /\ Probabilities(bs, hd) = k * h * s * s
  BY <1>2, <1>7, <1>8 DEF Geometry_pn, Probabilities, t
<1>13. StatsElems(bs, hd) = WordMul(t * h, 4) /\ StatsRows(bs, hd) = k * h * s * 4
  BY <1>2, <1>7 DEF StatsElems, StatsRows, t
<1> QED
  BY <1>6, <1>8, <1>9, <1>10, <1>11, <1>12, <1>13

\* The attentions touch what they claim (plan_validator.cc's attention cases), but the
\* tiled dV, which claims the values it does without.
LEMMA AttentionClaimsAreItsTouches ==
  ASSUME NEW ins, ins.op \in Attentions \ {"attn_dv_tiled"},
         InstructionWord(ins), ExtentsOfAttention(ins).ok
  PROVE  /\ ExtentsOfAttention(ins).claims = TouchesOfAttention(ins)
         /\ TouchesOfAttention(ins) \in Seq(ClaimType)
<1> DEFINE in == ins.in  out == ins.out
<1>1. CASE ins.op = "attn_fwd"
  <2> DEFINE bs == out[2]  hd == out[3]
             td == Activation(bs, hd)  pn == Probabilities(bs, hd)
             st == StatsRows(bs, hd)
  <2>1. in[1] \in TensorRef /\ in[2] \in TensorRef /\ in[3] \in TensorRef
        /\ in[4] \in TensorRef /\ out[1] \in TensorRef
    BY <1>1 DEF InstructionWord, OperandWords, RefWords, PairWords, Maps2, Maps1, Ropes,
          TiledBackwards, GeometryWords
  <2>2. bs \in Word \X Word /\ hd \in Word \X Word
    BY <1>1 DEF InstructionWord, OperandWords, RefWords, PairWords, Maps2, Maps1, Ropes,
          TiledBackwards, GeometryWords
  <2>3. GeometryOk(bs, hd)
    BY <1>1 DEF ExtentsOfAttention, Extents, TiledBackwards
  <2>4. /\ Geometry_td(bs, hd) = td /\ td \in Word
        /\ Geometry_pn(bs, hd) = pn /\ pn \in Word
    BY <2>2, <2>3, GeometryIsExact
  <2>5. ExtentsOfAttention(ins).claims =
             << In(in[1], td), In(in[2], td), In(in[3], td), OutTo(in[4], td),
                OutTo(out[1], pn) >>
    BY <1>1, <2>4 DEF ExtentsOfAttention, Extents, TiledBackwards, In, OutTo
  <2>6. TouchesOfAttention(ins) =
             << Reads(in[1], td), Reads(in[2], td), Reads(in[3], td), Writes(in[4], td),
                Writes(out[1], pn) >>
    BY <1>1 DEF TouchesOfAttention, TiledBackwards, Reads, Writes
  <2> HIDE DEF td, pn, st
  <2> QED
    BY <2>1, <2>4, <2>5, <2>6, TouchesAsClaims, ClaimsAreTyped
<1>2. CASE ins.op = "attn_fwd_tiled"
  <2> DEFINE bs == out[2]  hd == out[3]
             td == Activation(bs, hd)  pn == Probabilities(bs, hd)
             st == StatsRows(bs, hd)
  <2>1. in[1] \in TensorRef /\ in[2] \in TensorRef /\ in[3] \in TensorRef
        /\ in[4] \in TensorRef /\ out[1] \in TensorRef
    BY <1>2 DEF InstructionWord, OperandWords, RefWords, PairWords, Maps2, Maps1, Ropes,
          TiledBackwards, GeometryWords
  <2>2. bs \in Word \X Word /\ hd \in Word \X Word
    BY <1>2 DEF InstructionWord, OperandWords, RefWords, PairWords, Maps2, Maps1, Ropes,
          TiledBackwards, GeometryWords
  <2>3. GeometryOk(bs, hd) /\ StatsOk(bs, hd)
    BY <1>2 DEF ExtentsOfAttention, Extents, TiledBackwards
  <2>4. /\ Geometry_td(bs, hd) = td /\ td \in Word
        /\ Geometry_pn(bs, hd) = pn /\ pn \in Word
        /\ StatsElems(bs, hd) = st /\ st \in Word
    BY <2>2, <2>3, GeometryIsExact
  <2>5. ExtentsOfAttention(ins).claims =
             << In(in[1], td), In(in[2], td), In(in[3], td), OutTo(in[4], td),
                OutTo(out[1], st) >>
    BY <1>2, <2>4 DEF ExtentsOfAttention, Extents, TiledBackwards, In, OutTo
  <2>6. TouchesOfAttention(ins) =
             << Reads(in[1], td), Reads(in[2], td), Reads(in[3], td), Writes(in[4], td),
                Writes(out[1], st) >>
    BY <1>2 DEF TouchesOfAttention, TiledBackwards, Reads, Writes
  <2> HIDE DEF td, pn, st
  <2> QED
    BY <2>1, <2>4, <2>5, <2>6, TouchesAsClaims, ClaimsAreTyped
<1>3. CASE ins.op = "attn_dp"
  <2> DEFINE bs == out[1]  hd == out[2]
             td == Activation(bs, hd)  pn == Probabilities(bs, hd)
             st == StatsRows(bs, hd)
  <2>1. in[1] \in TensorRef /\ in[2] \in TensorRef /\ in[3] \in TensorRef
    BY <1>3 DEF InstructionWord, OperandWords, RefWords, PairWords, Maps2, Maps1, Ropes,
          TiledBackwards, GeometryWords
  <2>2. bs \in Word \X Word /\ hd \in Word \X Word
    BY <1>3 DEF InstructionWord, OperandWords, RefWords, PairWords, Maps2, Maps1, Ropes,
          TiledBackwards, GeometryWords
  <2>3. GeometryOk(bs, hd)
    BY <1>3 DEF ExtentsOfAttention, Extents, TiledBackwards
  <2>4. /\ Geometry_td(bs, hd) = td /\ td \in Word
        /\ Geometry_pn(bs, hd) = pn /\ pn \in Word
    BY <2>2, <2>3, GeometryIsExact
  <2>5. ExtentsOfAttention(ins).claims =
             << In(in[1], td), In(in[2], td), OutTo(in[3], pn) >>
    BY <1>3, <2>4 DEF ExtentsOfAttention, Extents, TiledBackwards, In, OutTo
  <2>6. TouchesOfAttention(ins) =
             << Reads(in[1], td), Reads(in[2], td), Writes(in[3], pn) >>
    BY <1>3 DEF TouchesOfAttention, TiledBackwards, Reads, Writes
  <2> HIDE DEF td, pn, st
  <2> QED
    BY <2>1, <2>4, <2>5, <2>6, TouchesAsClaims, ClaimsAreTyped
<1>4. CASE ins.op \in {"attn_dv", "attn_dq", "attn_dk"}
  <2> DEFINE bs == out[1]  hd == out[2]
             td == Activation(bs, hd)  pn == Probabilities(bs, hd)
             st == StatsRows(bs, hd)
  <2>1. in[1] \in TensorRef /\ in[2] \in TensorRef /\ in[3] \in TensorRef
    BY <1>4 DEF InstructionWord, OperandWords, RefWords, PairWords, Maps2, Maps1, Ropes,
          TiledBackwards, GeometryWords
  <2>2. bs \in Word \X Word /\ hd \in Word \X Word
    BY <1>4 DEF InstructionWord, OperandWords, RefWords, PairWords, Maps2, Maps1, Ropes,
          TiledBackwards, GeometryWords
  <2>3. GeometryOk(bs, hd)
    BY <1>4 DEF ExtentsOfAttention, Extents, TiledBackwards
  <2>4. /\ Geometry_td(bs, hd) = td /\ td \in Word
        /\ Geometry_pn(bs, hd) = pn /\ pn \in Word
    BY <2>2, <2>3, GeometryIsExact
  <2>5. ExtentsOfAttention(ins).claims =
             << In(in[1], pn), In(in[2], td), OutTo(in[3], td) >>
    BY <1>4, <2>4 DEF ExtentsOfAttention, Extents, TiledBackwards, In, OutTo
  <2>6. TouchesOfAttention(ins) =
             << Reads(in[1], pn), Reads(in[2], td), Writes(in[3], td) >>
    BY <1>4 DEF TouchesOfAttention, TiledBackwards, Reads, Writes
  <2> HIDE DEF td, pn, st
  <2> QED
    BY <2>1, <2>4, <2>5, <2>6, TouchesAsClaims, ClaimsAreTyped
<1>5. CASE ins.op = "attn_dq_tiled"
  <2> DEFINE bs == out[3][1]  hd == out[3][2]
             td == Activation(bs, hd)  pn == Probabilities(bs, hd)
             st == StatsRows(bs, hd)
  <2>1. in[1] \in TensorRef /\ in[2] \in TensorRef /\ in[3] \in TensorRef
        /\ in[4] \in TensorRef /\ out[1] \in TensorRef /\ out[2] \in TensorRef
    BY <1>5 DEF InstructionWord, OperandWords, RefWords, PairWords, Maps2, Maps1, Ropes,
          TiledBackwards, GeometryWords
  <2>2. bs \in Word \X Word /\ hd \in Word \X Word
    BY <1>5 DEF InstructionWord, OperandWords, RefWords, PairWords, Maps2, Maps1, Ropes,
          TiledBackwards, GeometryWords
  <2>3. GeometryOk(bs, hd) /\ StatsOk(bs, hd)
    BY <1>5 DEF ExtentsOfAttention, Extents, TiledBackwards
  <2>4. /\ Geometry_td(bs, hd) = td /\ td \in Word
        /\ Geometry_pn(bs, hd) = pn /\ pn \in Word
        /\ StatsElems(bs, hd) = st /\ st \in Word
    BY <2>2, <2>3, GeometryIsExact
  <2>5. ExtentsOfAttention(ins).claims =
             << In(in[1], td), In(in[2], td), In(in[3], td), In(in[4], td), OutTo(out[1],
                st), OutTo(out[2], td) >>
    BY <1>5, <2>4 DEF ExtentsOfAttention, Extents, TiledBackwards, In, OutTo
  <2>6. TouchesOfAttention(ins) =
             << Reads(in[1], td), Reads(in[2], td), Reads(in[3], td), Reads(in[4], td),
                Writes(out[1], st), Writes(out[2], td) >>
    BY <1>5 DEF TouchesOfAttention, TiledBackwards, Reads, Writes
  <2> HIDE DEF td, pn, st
  <2> QED
    BY <2>1, <2>4, <2>5, <2>6, TouchesAsClaims, ClaimsAreTyped
<1>6. CASE ins.op = "attn_dk_tiled"
  <2> DEFINE bs == out[3][1]  hd == out[3][2]
             td == Activation(bs, hd)  pn == Probabilities(bs, hd)
             st == StatsRows(bs, hd)
  <2>1. in[1] \in TensorRef /\ in[2] \in TensorRef /\ in[3] \in TensorRef
        /\ in[4] \in TensorRef /\ out[1] \in TensorRef /\ out[2] \in TensorRef
    BY <1>6 DEF InstructionWord, OperandWords, RefWords, PairWords, Maps2, Maps1, Ropes,
          TiledBackwards, GeometryWords
  <2>2. bs \in Word \X Word /\ hd \in Word \X Word
    BY <1>6 DEF InstructionWord, OperandWords, RefWords, PairWords, Maps2, Maps1, Ropes,
          TiledBackwards, GeometryWords
  <2>3. GeometryOk(bs, hd) /\ StatsOk(bs, hd)
    BY <1>6 DEF ExtentsOfAttention, Extents, TiledBackwards
  <2>4. /\ Geometry_td(bs, hd) = td /\ td \in Word
        /\ Geometry_pn(bs, hd) = pn /\ pn \in Word
        /\ StatsElems(bs, hd) = st /\ st \in Word
    BY <2>2, <2>3, GeometryIsExact
  <2>5. ExtentsOfAttention(ins).claims =
             << In(in[1], td), In(in[2], td), In(in[3], td), In(in[4], td), In(out[1],
                st), OutTo(out[2], td) >>
    BY <1>6, <2>4 DEF ExtentsOfAttention, Extents, TiledBackwards, In, OutTo
  <2>6. TouchesOfAttention(ins) =
             << Reads(in[1], td), Reads(in[2], td), Reads(in[3], td), Reads(in[4], td),
                Reads(out[1], st), Writes(out[2], td) >>
    BY <1>6 DEF TouchesOfAttention, TiledBackwards, Reads, Writes
  <2> HIDE DEF td, pn, st
  <2> QED
    BY <2>1, <2>4, <2>5, <2>6, TouchesAsClaims, ClaimsAreTyped
<1> QED
  BY <1>1, <1>2, <1>3, <1>4, <1>5, <1>6 DEF Attentions, TiledBackwards

\* The tiled dV touches every claim but its third.
LEMMA TiledDVIsClaimed ==
  ASSUME NEW ins, ins.op = "attn_dv_tiled", InstructionWord(ins), ExtentsOfAttention(ins).ok
  PROVE  DrawnFrom(TouchesOfAttention(ins), ExtentsOfAttention(ins).claims)
<1> DEFINE in == ins.in  out == ins.out
           bs == out[3][1]  hd == out[3][2]
           td == Activation(bs, hd)  st == StatsRows(bs, hd)
           claims == << In(in[1], td), In(in[2], td), In(in[3], td), In(in[4], td),
                        In(out[1], st), OutTo(out[2], td) >>
           touches == << In(in[1], td), In(in[2], td), In(in[4], td),
                         In(out[1], st), OutTo(out[2], td) >>
           of == << 1, 2, 4, 5, 6 >>
<1>1. bs \in Word \X Word /\ hd \in Word \X Word
  BY DEF InstructionWord, GeometryWords, TiledBackwards
<1>2. in[1] \in TensorRef /\ in[2] \in TensorRef /\ in[3] \in TensorRef
      /\ in[4] \in TensorRef /\ out[1] \in TensorRef /\ out[2] \in TensorRef
  BY DEF InstructionWord, OperandWords, RefWords, Maps2, Maps1, Ropes, TiledBackwards
<1>3. GeometryOk(bs, hd) /\ StatsOk(bs, hd)
  BY DEF ExtentsOfAttention, Extents, TiledBackwards
<1>4. /\ Geometry_td(bs, hd) = td /\ td \in Word
      /\ StatsElems(bs, hd) = st /\ st \in Word
  BY <1>1, <1>3, GeometryIsExact
<1>5. ExtentsOfAttention(ins).claims = claims
  BY <1>4 DEF ExtentsOfAttention, Extents, TiledBackwards, In, OutTo
<1>6. TouchesOfAttention(ins) = touches
  BY TouchesAsClaims DEF TouchesOfAttention, TiledBackwards, Reads, Writes
<1> HIDE DEF td, st
<1>7. claims \in Seq(ClaimType) /\ touches \in Seq(ClaimType)
  BY <1>2, <1>4, ClaimsAreTyped
<1>8. DOMAIN claims = 1..6 /\ DOMAIN touches = 1..5
  OBVIOUS
<1>9. /\ of \in [1..5 -> 1..6]
      /\ \A i, j \in 1..5 : i # j => of[i] # of[j]
  OBVIOUS
<1>10. \A i \in 1..5 : touches[i] = claims[of[i]]
  OBVIOUS
<1> HIDE DEF claims, touches, of
<1> QED
  BY <1>5, <1>6, <1>7, <1>8, <1>9, <1>10 DEF DrawnFrom

\* The rotations touch what they claim, the table of angles when there is one.
LEMMA RopeClaimsAreItsTouches ==
  ASSUME NEW ins, NEW version, ins.op \in Ropes, InstructionWord(ins),
         ExtentsOfOther(ins, version).ok
  PROVE  /\ ExtentsOfOther(ins, version).claims = TouchesOfOther(ins)
         /\ TouchesOfOther(ins) \in Seq(ClaimType)
<1> DEFINE in == ins.in  bs == ins.out[1]  hd == ins.out[2]
           td == Activation(bs, hd)  table == in[3] # NullRef
           angles == bs[2] * hd[2]
           list == << In(in[1], td), OutTo(in[2], td) >> \o Plus(table, In(in[3], angles))
<1>1. bs \in Word \X Word /\ hd \in Word \X Word
  BY DEF InstructionWord, PairWords, Ropes
<1>2. in[1] \in TensorRef /\ in[2] \in TensorRef /\ in[3] \in TensorRef
  BY DEF InstructionWord, OperandWords, Maps1, Maps2, Ropes
<1>3. GeometryOk(bs, hd) /\ (table => MulOk(bs[2], hd[2]))
  BY DEF ExtentsOfOther, Extents, Ropes
<1>4. Geometry_td(bs, hd) = td /\ td \in Word
  BY <1>1, <1>3, GeometryIsExact
<1>5. table => WordMul(bs[2], hd[2]) = angles /\ angles \in Word
  BY <1>1, <1>3, CheckedProduct
<1>6. ExtentsOfOther(ins, version).claims = list
  BY <1>4, <1>5 DEF ExtentsOfOther, Extents, Ropes, Plus
<1>7. TouchesOfOther(ins) = list
  BY TouchesAsClaims DEF TouchesOfOther, Ropes, Optional, Plus
<1>8. list \in Seq(ClaimType)
  <2>1. << In(in[1], td), OutTo(in[2], td) >> \in Seq(ClaimType)
    BY <1>2, <1>4, ClaimsAreTyped
  <2>2. Plus(table, In(in[3], angles)) \in Seq(ClaimType)
    BY <1>2, <1>5, ClaimsAreTyped DEF Plus
  <2>3. \A s, t \in Seq(ClaimType) : s \o t \in Seq(ClaimType)
    OBVIOUS
  <2> QED
    BY <2>1, <2>2, <2>3
<1> QED
  BY <1>6, <1>7, <1>8

\* A fused chain touches what it claims: a slot its program does not read is null, and
\* a slot it reads is not, or its claim would have been refused.
LEMMA FusedClaimsAreItsTouches ==
  ASSUME NEW ins, NEW ctx, ins.op = "fused_map", InstructionWord(ins),
         ExtentsOfOther(ins, ctx.version).ok,
         \A i \in DOMAIN ExtentsOfOther(ins, ctx.version).claims :
           RefOk(ExtentsOfOther(ins, ctx.version).claims[i], ctx)
  PROVE  /\ ExtentsOfOther(ins, ctx.version).claims = TouchesOfOther(ins)
         /\ TouchesOfOther(ins) \in Seq(ClaimType)
<1> DEFINE in == ins.in  n == ins.out[1]
           one == UsesSlot(ins.out[2], 1)  two == UsesSlot(ins.out[2], 2)
           a == In(in[1], n)  bb == In(in[2], n)  c == In(in[3], n)  d == OutTo(in[4], n)
           claims == << a >> \o Plus(one, bb) \o Plus(two, c) \o << d >>
<1>1. n \in Word
  BY DEF InstructionWord, CountWords, Gemms, MapOps, Maps1, Maps2
<1>2. in[1] \in TensorRef /\ in[2] \in TensorRef /\ in[3] \in TensorRef
      /\ in[4] \in TensorRef
  BY DEF InstructionWord, OperandWords, Maps1, Maps2, Ropes
<1>3. a \in ClaimType /\ bb \in ClaimType /\ c \in ClaimType /\ d \in ClaimType
  BY <1>1, <1>2, ClaimsAreTyped
<1>4. ExtentsOfOther(ins, ctx.version).claims = claims
  BY DEF ExtentsOfOther, Extents, Ropes
<1>5. (one \/ in[2] = NullRef) /\ (two \/ in[3] = NullRef)
  BY DEF ExtentsOfOther, Extents, Ropes
<1> HIDE DEF a, bb, c, d, one, two
<1>6. Plus(one, bb) \in Seq(ClaimType) /\ Plus(two, c) \in Seq(ClaimType)
  BY <1>3 DEF Plus
<1>7. \A s, t \in Seq(ClaimType) : s \o t \in Seq(ClaimType)
  OBVIOUS
<1>8. << a >> \in Seq(ClaimType) /\ << d >> \in Seq(ClaimType)
  BY <1>3
<1>9. claims \in Seq(ClaimType)
  BY <1>6, <1>7, <1>8
<1>10. one => in[2] # NullRef
  <2>1. ASSUME one
        PROVE  2 \in DOMAIN claims /\ claims[2] = bb
    <3> DEFINE rest == Plus(two, c) \o << d >>
    <3>1. Plus(one, bb) = << bb >>
      BY <2>1 DEF Plus
    <3> QED
      BY <1>3, <1>6, <1>8, <3>1
  <2>2. one => RefOk(bb, ctx)
    BY <1>4, <2>1
  <2> QED
    BY <2>2 DEF RefOk, bb, In, Claim
<1>11. two => in[3] # NullRef
  <2>1. ASSUME two
        PROVE  \E i \in DOMAIN claims : claims[i] = c
    <3> DEFINE front == << a >> \o Plus(one, bb)
               i == Len(front) + 1
    <3>1. front \in Seq(ClaimType)
      BY <1>6, <1>7, <1>8
    <3>2. Plus(two, c) = << c >>
      BY <2>1 DEF Plus
    <3> HIDE DEF front
    <3>3. i \in DOMAIN (front \o << c >> \o << d >>)
          /\ (front \o << c >> \o << d >>)[i] = c
      BY <1>3, <1>8, <3>1
    <3> QED
      BY <3>2, <3>3 DEF front
  <2>2. two => RefOk(c, ctx)
    BY <1>4, <2>1
  <2> QED
    BY <2>2 DEF RefOk, c, In, Claim
<1>12. TouchesOfOther(ins) =
         << Reads(in[1], n) >> \o Optional(in[2] # NullRef, Reads(in[2], n))
           \o Optional(in[3] # NullRef, Reads(in[3], n)) \o << Writes(in[4], n) >>
  BY DEF TouchesOfOther, Ropes
<1>13. /\ Optional(in[2] # NullRef, Reads(in[2], n)) = Plus(one, bb)
       /\ Optional(in[3] # NullRef, Reads(in[3], n)) = Plus(two, c)
       /\ Reads(in[1], n) = a /\ Writes(in[4], n) = d
  BY <1>5, <1>10, <1>11, TouchesAsClaims DEF Optional, Plus, a, bb, c, d
<1> QED
  BY <1>4, <1>9, <1>12, <1>13

\* The rest: a table of angles, an embedding's gather, and the instruction that does
\* nothing.
LEMMA OtherClaimsAreItsTouches ==
  ASSUME NEW ins, NEW version, ins.op \in {"nop", "rope_table", "embed_fwd"},
         InstructionWord(ins), ExtentsOfOther(ins, version).ok
  PROVE  /\ ExtentsOfOther(ins, version).claims = TouchesOfOther(ins)
         /\ TouchesOfOther(ins) \in Seq(ClaimType)
<1> DEFINE in == ins.in  n == ins.out[1]  d1 == ins.out[2]
<1>1. CASE ins.op = "nop"
  BY <1>1 DEF ExtentsOfOther, TouchesOfOther, Extents, Ropes
<1>2. CASE ins.op = "rope_table"
  <2>1. in[1] \in TensorRef /\ n \in Word \X Word
    BY <1>2 DEF InstructionWord, OperandWords, PairWords, Ropes
  <2>2. MulOk(n[1], n[2])
    BY <1>2 DEF ExtentsOfOther, Extents, Ropes
  <2>3. WordMul(n[1], n[2]) = n[1] * n[2] /\ n[1] * n[2] \in Word
    BY <2>1, <2>2, CheckedProduct
  <2>4. /\ ExtentsOfOther(ins, version).claims = << OutTo(in[1], n[1] * n[2]) >>
        /\ TouchesOfOther(ins) = << Writes(in[1], n[1] * n[2]) >>
    BY <1>2, <2>3 DEF ExtentsOfOther, TouchesOfOther, Extents, Ropes
  <2> QED
    BY <2>1, <2>3, <2>4, TouchesAsClaims, ClaimsAreTyped
<1>3. CASE ins.op = "embed_fwd"
  <2>1. in[1] \in TensorRef /\ in[2] \in TensorRef /\ in[3] \in TensorRef
        /\ n \in Word /\ d1 \in Word \X Word
    BY <1>3 DEF InstructionWord, OperandWords, CountWords, PairWords, Ropes, Maps1, Maps2,
          Gemms, MapOps
  <2>2. MulOk(d1[1], d1[2]) /\ MulOk(n, d1[2])
    BY <1>3 DEF ExtentsOfOther, Extents, Ropes
  <2>3. /\ WordMul(d1[1], d1[2]) = d1[1] * d1[2] /\ d1[1] * d1[2] \in Word
        /\ WordMul(n, d1[2]) = n * d1[2] /\ n * d1[2] \in Word
    BY <2>1, <2>2, CheckedProduct
  <2>4. /\ ExtentsOfOther(ins, version).claims =
             << In(in[1], n), In(in[2], d1[1] * d1[2]), OutTo(in[3], n * d1[2]) >>
        /\ TouchesOfOther(ins) =
             << Reads(in[1], n), Reads(in[2], d1[1] * d1[2]), Writes(in[3], n * d1[2]) >>
    BY <1>3, <2>3 DEF ExtentsOfOther, TouchesOfOther, Extents, Ropes
  <2> QED
    BY <2>1, <2>3, <2>4, TouchesAsClaims, ClaimsAreTyped
<1> QED
  BY <1>1, <1>2, <1>3

\* An instruction the validator accepts may run, whatever its opcode and whatever its
\* words: the kernel stays in bounds, on its element's alignment, writes only the arena
\* and writes nothing it reads through another pointer (plan_validator.cc:186-650).
THEOREM AcceptedInstructionMayRun ==
  ASSUME NEW ctx, Context(ctx), NEW ins, InstructionWord(ins), ValidateInstruction(ins, ctx)
  PROVE  MayTouch(ins, ctx)
<1> DEFINE e == ExtentsOf(ins, ctx.version)
<1>1. /\ e.ok /\ FlagsOk(ins, ctx.version)
      /\ \A i \in DOMAIN e.claims : RefOk(e.claims[i], ctx)
  BY DEF ValidateInstruction
<1>2. DrawnFrom(Touches(ins), e.claims)
  <2>1. CASE ins.op \in Gemms
    <3>1. Touches(ins) = TouchesOfGemm(ins) /\ e = ExtentsOfGemm(ins)
      BY <2>1 DEF Touches, ExtentsOf
    <3>2. ins.op = "gemm_acc_nn" => ins.flags = {}
      BY <1>1, AccumulatingProductsAreBare
    <3> QED
      BY <1>1, <2>1, <3>1, <3>2, GemmClaimsAreItsTouches, ClaimsInTheirOrder
  <2>2. CASE ins.op \in Attentions
    <3>1. Touches(ins) = TouchesOfAttention(ins) /\ e = ExtentsOfAttention(ins)
      BY <2>2 DEF Touches, ExtentsOf, Gemms, Attentions, TiledBackwards
    <3>2. CASE ins.op = "attn_dv_tiled"
      BY <1>1, <3>1, <3>2, TiledDVIsClaimed
    <3>3. CASE ins.op # "attn_dv_tiled"
      BY <1>1, <2>2, <3>1, <3>3, AttentionClaimsAreItsTouches, ClaimsInTheirOrder
    <3> QED
      BY <3>2, <3>3
  <2>3. CASE ins.op \in MapOps
    <3>1. Touches(ins) = TouchesOfMap(ins) /\ e = ExtentsOfMap(ins)
      BY <2>3 DEF Touches, ExtentsOf, Gemms, Attentions, TiledBackwards, MapOps, Maps1, Maps2
    <3> QED
      BY <2>3, <3>1, MapClaimsAreItsTouches, ClaimsInTheirOrder
  <2>4. CASE ins.op \in RowOps
    <3>1. Touches(ins) = TouchesOfRows(ins) /\ e = ExtentsOfRows(ins)
      BY <2>4 DEF Touches, ExtentsOf, Gemms, Attentions, TiledBackwards, MapOps, Maps1, Maps2,
            RowOps
    <3>2. CASE ins.op = "layer_norm_bwd"
      BY <1>1, <3>1, <3>2, LayerNormBackwardIsClaimed
    <3>3. CASE ins.op = "rms_norm_bwd"
      BY <1>1, <3>1, <3>3, RmsNormBackwardIsClaimed
    <3>4. CASE ins.op \notin {"layer_norm_bwd", "rms_norm_bwd"}
      BY <1>1, <2>4, <3>1, <3>4, RowClaimsAreItsTouches, ClaimsInTheirOrder
    <3> QED
      BY <3>2, <3>3, <3>4
  <2>5. CASE ins.op \notin Gemms \cup Attentions \cup MapOps \cup RowOps
    <3>1. Touches(ins) = TouchesOfOther(ins) /\ e = ExtentsOfOther(ins, ctx.version)
      BY <2>5 DEF Touches, ExtentsOf
    <3>2. ins.op \in Ropes \cup {"nop", "rope_table", "embed_fwd", "fused_map"}
      <4> SUFFICES ASSUME ins.op \notin Ropes,
                          ins.op \notin {"nop", "rope_table", "embed_fwd", "fused_map"}
                   PROVE  FALSE
        OBVIOUS
      <4>1. ExtentsOfOther(ins, ctx.version) = Extents(FALSE, << >>)
        BY DEF ExtentsOfOther
      <4> QED
        BY <1>1, <3>1, <4>1 DEF Extents
    <3>3. CASE ins.op \in Ropes
      BY <1>1, <3>1, <3>3, RopeClaimsAreItsTouches, ClaimsInTheirOrder
    <3>4. CASE ins.op = "fused_map"
      BY <1>1, <3>1, <3>4, FusedClaimsAreItsTouches, ClaimsInTheirOrder
    <3>5. CASE ins.op \in {"nop", "rope_table", "embed_fwd"}
      BY <1>1, <3>1, <3>5, OtherClaimsAreItsTouches, ClaimsInTheirOrder
    <3> QED
      BY <3>2, <3>3, <3>4, <3>5
  <2> QED
    BY <2>1, <2>2, <2>3, <2>4, <2>5
<1> QED
  BY <1>2, TouchesDrawnFromClaims

(***************************************************************************)
(* The values that index memory.                                           *)
(***************************************************************************)
\* A set of numbers has a least one.
LEMMA LeastNumber ==
  ASSUME NEW S, S \subseteq Nat, S # {}
  PROVE  \E m \in S : \A k \in S : m <= k
<1> DEFINE R == OpToRel(<, Nat)
<1>1. IsWellFoundedOn(R, Nat)
  BY NatLessThanWellFounded
<1>2. \A x, y \in Nat : x < y => << x, y >> \in R
  BY DEF OpToRel
<1> HIDE DEF R
<1>3. PICK m \in S : \A y \in S : ~(<< y, m >> \in R)
  BY <1>1, WFMin
<1>4. \A y \in S : ~(y < m)
  BY <1>2, <1>3
<1> QED
  BY <1>4

\* The narrowest of some widths is a number, positive and no wider than any of them
\* that is not 0.
LEMMA NarrowestIsLeast ==
  ASSUME NEW widths, widths \subseteq Nat
  PROVE  /\ Narrowest(widths) \in Nat
         /\ \A w \in widths : w # 0 => Narrowest(widths) \in 1..w
<1> DEFINE S == widths \ {0}
<1>1. CASE S = {}
  BY <1>1 DEF Narrowest
<1>2. CASE S # {}
  <2>1. Narrowest(widths) = CHOOSE x \in S : \A y \in S : x <= y
    BY <1>2 DEF Narrowest
  <2>2. S \subseteq Nat
    OBVIOUS
  <2>3. \A w \in S : w \in Nat /\ w # 0
    OBVIOUS
  <2>4. \A w \in widths : w # 0 => w \in S
    OBVIOUS
  <2> HIDE DEF S
  <2>5. \E x \in S : \A y \in S : x <= y
    BY <1>2, <2>2, LeastNumber
  <2>6. Narrowest(widths) \in S /\ \A y \in S : Narrowest(widths) <= y
    BY <2>1, <2>5
  <2> QED
    BY <2>3, <2>4, <2>6
<1> QED
  BY <1>1, <1>2

\* A plan's programs, each of their words of the kind its opcode reads it as.
ProgramWords(programs) ==
  \A p \in Programs : \A i \in DOMAIN programs[p] : InstructionWord(programs[p][i])

\* The programs the engine takes the class count and the vocabulary from.
Indexing == {"train", "merge", "eval"}
ClassWidths(programs) ==
  UNION {{programs[p][i].out[2] :
            i \in {j \in DOMAIN programs[p] : programs[p][j].op \in SoftmaxLabels}} :
           p \in Indexing}
TableHeights(programs) ==
  UNION {{programs[p][i].out[2][1] :
            i \in {j \in DOMAIN programs[p] : programs[p][j].op \in {"embed_fwd"}}} :
           p \in Indexing}

\* The widths and heights an indexing program holds are numbers.
LEMMA IndexedWidthsAreNumbers ==
  ASSUME NEW programs, ProgramWords(programs)
  PROVE  ClassWidths(programs) \subseteq Nat /\ TableHeights(programs) \subseteq Nat
<1>1. \A q \in Indexing : \A j \in DOMAIN programs[q] : InstructionWord(programs[q][j])
  BY DEF ProgramWords, Indexing, Programs
<1>2. \A q \in Indexing : \A j \in DOMAIN programs[q] :
        programs[q][j].op \in SoftmaxLabels => programs[q][j].out[2] \in Nat
  BY <1>1 DEF InstructionWord, CountWords, SoftmaxLabels, Gemms, MapOps, Maps1, Maps2
<1>3. \A q \in Indexing : \A j \in DOMAIN programs[q] :
        programs[q][j].op = "embed_fwd" => programs[q][j].out[2][1] \in Nat
  BY <1>1 DEF InstructionWord, PairWords, Ropes
<1> QED
  BY <1>2, <1>3 DEF ClassWidths, TableHeights

\* The class count the engine settles on is within the width of every softmax, and the
\* vocabulary within the table of every embedding (update_engine.cc:323-353).
THEOREM BoundsAreNarrowest ==
  ASSUME NEW programs, ProgramWords(programs)
  PROVE  /\ NumClasses(programs) \in Nat /\ VocabBound(programs) \in Nat
         /\ \A p \in Indexing : \A i \in DOMAIN programs[p] :
              LET ins == programs[p][i] IN
              /\ ins.op \in SoftmaxLabels /\ ins.out[2] # 0 =>
                   NumClasses(programs) \in 1..ins.out[2]
              /\ ins.op = "embed_fwd" /\ ins.out[2][1] # 0 =>
                   VocabBound(programs) \in 1..ins.out[2][1]
<1>1. /\ NumClasses(programs) = Narrowest(ClassWidths(programs))
      /\ VocabBound(programs) = Narrowest(TableHeights(programs))
  BY DEF NumClasses, VocabBound, Widths, Indexing, ClassWidths, TableHeights
<1>2. ASSUME NEW p \in Indexing, NEW i \in DOMAIN programs[p]
      PROVE  /\ programs[p][i].op \in SoftmaxLabels =>
                  programs[p][i].out[2] \in ClassWidths(programs)
             /\ programs[p][i].op = "embed_fwd" =>
                  programs[p][i].out[2][1] \in TableHeights(programs)
  BY DEF ClassWidths, TableHeights
<1> QED
  BY <1>1, <1>2, IndexedWidthsAreNumbers, NarrowestIsLeast

\* An accepted operand has elements.
LEMMA AcceptedWidthsArePositive ==
  ASSUME NEW ctx, NEW ins, ValidateInstruction(ins, ctx), InstructionWord(ins)
  PROVE  /\ ins.op \in SoftmaxLabels => ins.out[2] # 0
         /\ ins.op = "embed_fwd" => ins.out[2][1] # 0
<1> DEFINE e == ExtentsOf(ins, ctx.version)
<1>1. \A i \in DOMAIN e.claims : e.claims[i].elems # 0
  BY DEF ValidateInstruction, RefOk
<1>2. ASSUME ins.op \in SoftmaxLabels
      PROVE  ins.out[2] # 0
  <2> DEFINE r == ins.out[1]  c == ins.out[2]
  <2>1. r \in Word /\ c \in Word
    BY <1>2 DEF InstructionWord, CountWords, SoftmaxLabels, Gemms, MapOps, Maps1, Maps2
  <2>2. e = ExtentsOfRows(ins)
    BY <1>2 DEF ExtentsOf, SoftmaxLabels, Gemms, Attentions, TiledBackwards, MapOps, Maps1,
          Maps2, RowOps
  <2>3. 1 \in DOMAIN e.claims /\ e.claims[1].elems = WordMul(r, c)
    <3>1. CASE ins.op = "softmax_xent_fwd"
      BY <2>2, <3>1 DEF ExtentsOfRows, Extents, RowsAndColumns, In, Claim
    <3>2. CASE ins.op = "softmax_xent_bwd"
      BY <2>2, <3>2 DEF ExtentsOfRows, Extents, RowsAndColumns, In, Claim
    <3> QED
      BY <1>2, <3>1, <3>2 DEF SoftmaxLabels
  <2>4. WordMul(r, c) # 0
    BY <1>1, <2>3
  <2>5. c = 0 => WordMul(r, c) = 0
    BY <2>1 DEF WordMul
  <2> QED
    BY <2>4, <2>5
<1>3. ASSUME ins.op = "embed_fwd"
      PROVE  ins.out[2][1] # 0
  <2> DEFINE v == ins.out[2][1]  d == ins.out[2][2]
  <2>1. v \in Word /\ d \in Word
    BY <1>3 DEF InstructionWord, PairWords, Ropes
  <2>2. e = ExtentsOfOther(ins, ctx.version)
    BY <1>3 DEF ExtentsOf, Gemms, Attentions, TiledBackwards, MapOps, Maps1, Maps2, RowOps
  <2>3. 2 \in DOMAIN e.claims /\ e.claims[2].elems = WordMul(v, d)
    BY <1>3, <2>2 DEF ExtentsOfOther, Extents, Ropes, In, Claim
  <2>4. WordMul(v, d) # 0
    BY <1>1, <2>3
  <2>5. v = 0 => WordMul(v, d) = 0
    BY <2>1 DEF WordMul
  <2> QED
    BY <2>4, <2>5
<1> QED
  BY <1>2, <1>3

\* What an accepted instruction takes for indices are the staged labels or ids, and the
\* bounds the engine settles on are within its tables (contract.cc:131-196).
THEOREM AcceptedInstructionMayIndex ==
  ASSUME NEW programs, ProgramWords(programs), NEW h, h.batch \in Nat,
         NEW p \in Indexing, NEW i \in DOMAIN programs[p],
         InstructionAccepted(programs[p][i], p, h)
  PROVE  MayIndex(programs[p][i], h,
                  [classes |-> NumClasses(programs), vocab |-> VocabBound(programs)])
<1> DEFINE ins == programs[p][i]
<1>1. ValidateInstruction(ins, ContextOf(p, h)) /\ IndicesAreStaged(ins, h)
  BY DEF InstructionAccepted
<1>2. InstructionWord(ins)
  BY DEF ProgramWords, Indexing, Programs
<1>3. /\ ins.op \in SoftmaxLabels => ins.out[2] # 0
      /\ ins.op = "embed_fwd" => ins.out[2][1] # 0
  BY <1>1, <1>2, AcceptedWidthsArePositive
<1>4. /\ ins.op \in SoftmaxLabels => NumClasses(programs) \in 1..ins.out[2]
      /\ ins.op = "embed_fwd" => VocabBound(programs) \in 1..ins.out[2][1]
  BY <1>3, BoundsAreNarrowest
<1> HIDE DEF ins
<1> QED
  BY <1>1, <1>4 DEF IndicesAreStaged, MayIndex, ins

\* A corpus the feeder contract admits holds no label and no token id that an indexed
\* table would not have: what is staged is below every width, in every program that
\* runs with it (contract.cc:215-268, UpdateEngine::Initialize).
THEOREM StagedIndicesAreInBounds ==
  ASSUME NEW programs, ProgramWords(programs), NEW h, Accepts(programs, h),
         NEW data, data.largest \in Nat,
         VerifyFeederContract(h, data, NumClasses(programs), VocabBound(programs)),
         NEW p \in Indexing, NEW i \in DOMAIN programs[p]
  PROVE  LET ins == programs[p][i] IN
         /\ ins.op \in SoftmaxLabels => data.largest < ins.out[2]
         /\ ins.op = "embed_fwd" => data.largest < ins.out[2][1]
<1> DEFINE ins == programs[p][i]
           classes == NumClasses(programs)
           vocab == VocabBound(programs)
<1>1. InstructionWord(ins) /\ p \in Programs
  BY DEF ProgramWords, Indexing, Programs
<1>2. ValidateInstruction(ins, ContextOf(p, h)) /\ IndicesAreStaged(ins, h)
  BY <1>1 DEF Accepts, VerifyExecutorContract, InstructionAccepted
<1>3. /\ ins.op \in SoftmaxLabels => ins.out[2] # 0
      /\ ins.op = "embed_fwd" => ins.out[2][1] # 0
  BY <1>1, <1>2, AcceptedWidthsArePositive
<1>4. /\ ins.op \in SoftmaxLabels => classes \in 1..ins.out[2]
      /\ ins.op = "embed_fwd" => vocab \in 1..ins.out[2][1]
  BY <1>3, BoundsAreNarrowest
<1>5. /\ ins.op \in SoftmaxLabels => ins.out[2] \in Nat
      /\ ins.op = "embed_fwd" => ins.out[2][1] \in Nat
  BY <1>1 DEF InstructionWord, CountWords, PairWords, SoftmaxLabels, Gemms, MapOps, Maps1,
        Maps2, Ropes
<1>6. classes \in Nat /\ vocab \in Nat
  BY BoundsAreNarrowest
<1> HIDE DEF ins, classes, vocab
<1>7. CASE h.input_kind = "tokens"
  <2>1. data.largest < Narrowest({vocab, classes})
    BY <1>7 DEF VerifyFeederContract, classes, vocab
  <2>2. /\ vocab # 0 => Narrowest({vocab, classes}) \in 1..vocab
        /\ classes # 0 => Narrowest({vocab, classes}) \in 1..classes
    BY <1>6, NarrowestIsLeast
  <2> QED
    BY <1>4, <1>5, <1>6, <2>1, <2>2 DEF ins
<1>8. CASE h.input_kind # "tokens"
  <2>1. ins.op # "embed_fwd"
    BY <1>2, <1>8 DEF IndicesAreStaged
  <2>2. ins.op \in SoftmaxLabels => data.largest < classes
    BY <1>2, <1>8 DEF IndicesAreStaged, VerifyFeederContract, classes
  <2> QED
    BY <1>4, <1>5, <1>6, <2>1, <2>2 DEF ins
<1> QED
  BY <1>7, <1>8

(***************************************************************************)
(* The plans one word away from a compiled one.                            *)
(***************************************************************************)
\* The integer root DamagedPlan takes for the width of a packed half exists.
LEMMA RootIsNumber ==
  ASSUME NEW n \in Nat \ {0}
  PROVE  RootOf(n) \in 1..n
<1> DEFINE S == {h \in Nat : (h + 1) * (h + 1) > n}
<1>1. n \in S
  <2>1. (n + 1) * (n + 1) = n * n + 2 * n + 1 /\ n * n \in Nat
    OBVIOUS
  <2> QED
    BY <2>1
<1>2. PICK m \in S : \A h \in S : m <= h
  <2>1. S \subseteq Nat /\ S # {}
    BY <1>1
  <2> HIDE DEF S
  <2> QED
    BY <2>1, LeastNumber
<1>3. m \in Nat /\ m # 0 /\ m <= n
  BY <1>1, <1>2
<1>4. m * m <= n
  <2>1. m - 1 \in Nat /\ (m - 1) \notin S
    BY <1>2, <1>3
  <2>2. ~(((m - 1) + 1) * ((m - 1) + 1) > n)
    BY <2>1
  <2>3. (m - 1) + 1 = m /\ m * m \in Nat
    BY <1>3
  <2> QED
    BY <2>2, <2>3
<1>5. m \in 1..n /\ m * m <= n /\ (m + 1) * (m + 1) > n
  BY <1>2, <1>3, <1>4
<1> QED
  BY <1>5 DEF RootOf

\* The references that stand in for one are references.
LEMMA OtherRefsAreRefs ==
  ASSUME NEW ins, \A i \in References(ins) : ins.in[i] \in TensorRef,
         NEW ctx, ctx.arena_size \in kF32..(WordSize - 64), ctx.rodata_size \in Word,
         NEW r, RefLeavesRoom(r), NEW x \in OtherRefs(r, ins, ctx)
  PROVE  x \in TensorRef
<1>1. r.off \in Word /\ r.sp \in {"arena", "rodata", "source", "null"}
  BY DEF RefLeavesRoom, TensorRef, NullRef
<1>2. {0, 1, r.off + kF32, ctx.arena_size - kF32, ctx.arena_size, ctx.rodata_size,
       WordSize - kF32, WordSize - 2 * kF32, WordSize - 1} \subseteq Word
  BY DEF RefLeavesRoom
<1> QED
  BY <1>1, <1>2 DEF OtherRefs, TensorRef

\* The counts that stand in for one are words.
LEMMA OtherCountsAreWords ==
  ASSUME NEW n \in Word, {n + 1, 2 * n} \subseteq Word
  PROVE  OtherCounts(n) \subseteq Word
<1>1. WordSize \div 4 + 1 \in Word /\ WordSize \div 2 \in Word
  OBVIOUS
<1> QED
  BY <1>1 DEF OtherCounts

\* The pairs that stand in for one are pairs of words.
LEMMA OtherPairsAreWords ==
  ASSUME NEW p \in Word \X Word, PairLeavesRoom(p), NEW limit \in 1..WordSize
  PROVE  OtherPairs(p, limit) \subseteq Word \X Word
BY DEF OtherPairs, PairLeavesRoom

\* The packed pairs that stand in for one are pairs of pairs of words.
LEMMA OtherGeometriesAreWords ==
  ASSUME NEW g \in (Word \X Word) \X (Word \X Word), NEW limit \in 1..WordSize,
         PairLeavesRoom(g[1]), PairLeavesRoom(g[2])
  PROVE  OtherGeometries(g, limit) \subseteq (Word \X Word) \X (Word \X Word)
<1>1. /\ OtherPairs(g[1], limit) \subseteq Word \X Word
      /\ OtherPairs(g[2], limit) \subseteq Word \X Word
  BY OtherPairsAreWords
<1> QED
  BY <1>1 DEF OtherGeometries

\* No word of an instruction is of two kinds.
LEMMA KindsAreApart ==
  ASSUME NEW op
  PROVE  /\ RefWords(op) \cap CountWords(op) = {} /\ RefWords(op) \cap PairWords(op) = {}
         /\ RefWords(op) \cap GeometryWords(op) = {}
         /\ CountWords(op) \cap PairWords(op) = {}
         /\ CountWords(op) \cap GeometryWords(op) = {}
         /\ PairWords(op) \cap GeometryWords(op) = {}
<1>1. CASE op \in TiledBackwards
  BY <1>1 DEF TiledBackwards, RefWords, CountWords, PairWords, GeometryWords, Gemms, MapOps,
        Maps1, Maps2, Ropes
<1>2. CASE op \notin TiledBackwards
  <2>1. GeometryWords(op) = {}
    BY <1>2 DEF GeometryWords
  <2>2. CASE op \in Gemms \cup MapOps
    BY <1>2, <2>1, <2>2 DEF RefWords, CountWords, PairWords, Gemms, MapOps, Maps1, Maps2, Ropes
  <2>3. CASE op \notin Gemms \cup MapOps
    BY <1>2, <2>1, <2>3 DEF RefWords, CountWords, PairWords, Ropes
  <2> QED
    BY <2>2, <2>3
<1> QED
  BY <1>1, <1>2

\* So a damaged instruction is an instruction of the same opcode, each word of its kind.
LEMMA DamagedInstruction ==
  ASSUME NEW ins, LeavesRoom(ins),
         NEW ctx, ctx.arena_size \in kF32..(WordSize - 64), ctx.rodata_size \in Word,
         NEW x \in OneWordOff(ins, ctx)
  PROVE  InstructionWord(x) /\ x.op = ins.op
<1> DEFINE half == RootOf(WordSize)
<1>1. /\ {"op", "in", "out"} \subseteq DOMAIN ins /\ DOMAIN ins.in = 1..4
      /\ DOMAIN ins.out = 1..3 /\ InstructionWord(ins)
      /\ \A i \in References(ins) : RefLeavesRoom(ins.in[i])
      /\ \A i \in RefWords(ins.op) : RefLeavesRoom(ins.out[i])
      /\ \A i \in CountWords(ins.op) : {ins.out[i] + 1, 2 * ins.out[i]} \subseteq Word
      /\ \A i \in PairWords(ins.op) : PairLeavesRoom(ins.out[i])
      /\ \A i \in GeometryWords(ins.op) :
           PairLeavesRoom(ins.out[i][1]) /\ PairLeavesRoom(ins.out[i][2])
  BY DEF LeavesRoom
<1>2. half \in 1..WordSize /\ RootOf(half) \in 1..WordSize
  <2>1. half \in 1..WordSize
    BY RootIsNumber
  <2>2. RootOf(half) \in 1..half
    BY <2>1, RootIsNumber
  <2> QED
    BY <2>1, <2>2
<1>3. \A i \in References(ins) : ins.in[i] \in TensorRef
  BY <1>1 DEF RefLeavesRoom
<1>4. ASSUME NEW i \in 1..4, NEW r \in TensorRef, x = [ins EXCEPT !.in[i] = r]
      PROVE  InstructionWord(x) /\ x.op = ins.op
  <2>1. /\ x.op = ins.op /\ x.out = ins.out
        /\ \A j \in 1..4 : x.in[j] = IF j = i THEN r ELSE ins.in[j]
    BY <1>1, <1>4
  <2>2. OperandWords(ins.op) \subseteq 1..4
    BY DEF OperandWords
  <2> QED
    BY <1>1, <1>4, <2>1, <2>2 DEF InstructionWord
<1>5. ASSUME NEW i \in 1..3, NEW w, x = [ins EXCEPT !.out[i] = w],
             i \in RefWords(ins.op) => w \in TensorRef,
             i \in CountWords(ins.op) => w \in Word,
             i \in PairWords(ins.op) => w \in Word \X Word,
             i \in GeometryWords(ins.op) => w \in (Word \X Word) \X (Word \X Word)
      PROVE  InstructionWord(x) /\ x.op = ins.op
  <2>1. /\ x.op = ins.op /\ x.in = ins.in
        /\ \A j \in 1..3 : x.out[j] = IF j = i THEN w ELSE ins.out[j]
    BY <1>1, <1>5
  <2>2. /\ RefWords(ins.op) \subseteq 1..3 /\ CountWords(ins.op) \subseteq 1..3
        /\ PairWords(ins.op) \subseteq 1..3 /\ GeometryWords(ins.op) \subseteq 1..3
    BY DEF RefWords, CountWords, PairWords, GeometryWords
  <2> QED
    BY <1>1, <1>5, <2>1, <2>2 DEF InstructionWord
<1>6. CASE \E i \in References(ins) : \E r \in OtherRefs(ins.in[i], ins, ctx) :
             x = [ins EXCEPT !.in[i] = r]
  <2>1. PICK i \in References(ins) :
          \E r \in OtherRefs(ins.in[i], ins, ctx) : x = [ins EXCEPT !.in[i] = r]
    BY <1>6
  <2>2. PICK r \in OtherRefs(ins.in[i], ins, ctx) : x = [ins EXCEPT !.in[i] = r]
    BY <2>1
  <2>3. i \in 1..4 /\ RefLeavesRoom(ins.in[i])
    BY <1>1, <2>1 DEF References
  <2>4. r \in TensorRef
    BY <1>3, <2>2, <2>3, OtherRefsAreRefs
  <2> QED
    BY <1>4, <2>1, <2>2, <2>3, <2>4
<1>7. CASE \E i \in RefWords(ins.op) : \E r \in OtherRefs(ins.out[i], ins, ctx) :
             x = [ins EXCEPT !.out[i] = r]
  <2>1. PICK i \in RefWords(ins.op) :
          \E r \in OtherRefs(ins.out[i], ins, ctx) : x = [ins EXCEPT !.out[i] = r]
    BY <1>7
  <2>2. PICK r \in OtherRefs(ins.out[i], ins, ctx) : x = [ins EXCEPT !.out[i] = r]
    BY <2>1
  <2>3. i \in 1..3
    BY <2>1 DEF RefWords
  <2>4. r \in TensorRef
    BY <1>1, <1>3, <2>1, <2>2, OtherRefsAreRefs
  <2> QED
    BY <1>5, <2>1, <2>2, <2>3, <2>4, KindsAreApart
<1>8. CASE \E i \in CountWords(ins.op) : \E n \in OtherCounts(ins.out[i]) :
             x = [ins EXCEPT !.out[i] = n]
  <2>1. PICK i \in CountWords(ins.op) :
          \E n \in OtherCounts(ins.out[i]) : x = [ins EXCEPT !.out[i] = n]
    BY <1>8
  <2>2. PICK n \in OtherCounts(ins.out[i]) : x = [ins EXCEPT !.out[i] = n]
    BY <2>1
  <2>3. i \in 1..3
    BY <2>1 DEF CountWords
  <2>4. ins.out[i] \in Word
    BY <1>1, <2>1 DEF InstructionWord
  <2>5. n \in Word
    BY <1>1, <2>1, <2>2, <2>4, OtherCountsAreWords
  <2> QED
    BY <1>5, <2>1, <2>2, <2>3, <2>5, KindsAreApart
<1>9. CASE \E i \in PairWords(ins.op) : \E p \in OtherPairs(ins.out[i], half) :
             x = [ins EXCEPT !.out[i] = p]
  <2>1. PICK i \in PairWords(ins.op) :
          \E p \in OtherPairs(ins.out[i], half) : x = [ins EXCEPT !.out[i] = p]
    BY <1>9
  <2>2. PICK p \in OtherPairs(ins.out[i], half) : x = [ins EXCEPT !.out[i] = p]
    BY <2>1
  <2>3. i \in 1..3
    BY <2>1 DEF PairWords
  <2>4. ins.out[i] \in Word \X Word
    BY <1>1, <2>1 DEF InstructionWord
  <2>5. p \in Word \X Word
    <3> HIDE DEF half
    <3> QED
      BY <1>1, <1>2, <2>1, <2>2, <2>4, OtherPairsAreWords
  <2> QED
    BY <1>5, <2>1, <2>2, <2>3, <2>5, KindsAreApart
<1>10. CASE \E i \in GeometryWords(ins.op) :
              \E g \in OtherGeometries(ins.out[i], RootOf(half)) : x = [ins EXCEPT !.out[i] = g]
  <2>1. PICK i \in GeometryWords(ins.op) :
          \E g \in OtherGeometries(ins.out[i], RootOf(half)) : x = [ins EXCEPT !.out[i] = g]
    BY <1>10
  <2>2. PICK g \in OtherGeometries(ins.out[i], RootOf(half)) : x = [ins EXCEPT !.out[i] = g]
    BY <2>1
  <2>3. i \in 1..3
    BY <2>1 DEF GeometryWords
  <2>4. ins.out[i] \in (Word \X Word) \X (Word \X Word)
    BY <1>1, <2>1 DEF InstructionWord
  <2>5. g \in (Word \X Word) \X (Word \X Word)
    <3> HIDE DEF half
    <3> QED
      BY <1>1, <1>2, <2>1, <2>2, <2>4, OtherGeometriesAreWords
  <2> QED
    BY <1>5, <2>1, <2>2, <2>3, <2>5, KindsAreApart
<1> DEFINE
      ins_refs == UNION {{[ins EXCEPT !.in[i] = r] : r \in OtherRefs(ins.in[i], ins, ctx)} :
                           i \in References(ins)}
      out_refs == UNION {{[ins EXCEPT !.out[i] = r] : r \in OtherRefs(ins.out[i], ins, ctx)} :
                           i \in RefWords(ins.op)}
      counts == UNION {{[ins EXCEPT !.out[i] = n] : n \in OtherCounts(ins.out[i])} :
                         i \in CountWords(ins.op)}
      pairs == UNION {{[ins EXCEPT !.out[i] = p] : p \in OtherPairs(ins.out[i], half)} :
                        i \in PairWords(ins.op)}
      geometries == UNION {{[ins EXCEPT !.out[i] = g] :
                              g \in OtherGeometries(ins.out[i], RootOf(half))} :
                             i \in GeometryWords(ins.op)}
<1>11. x \in ins_refs \/ x \in out_refs \/ x \in counts \/ x \in pairs \/ x \in geometries
  <2>1. OneWordOff(ins, ctx) = ins_refs \cup out_refs \cup counts \cup pairs \cup geometries
    BY DEF OneWordOff
  <2> HIDE DEF ins_refs, out_refs, counts, pairs, geometries
  <2> QED
    BY <2>1
<1>12. x \in ins_refs => \E i \in References(ins) : \E r \in OtherRefs(ins.in[i], ins, ctx) :
                           x = [ins EXCEPT !.in[i] = r]
  OBVIOUS
<1>13. x \in out_refs => \E i \in RefWords(ins.op) : \E r \in OtherRefs(ins.out[i], ins, ctx) :
                           x = [ins EXCEPT !.out[i] = r]
  OBVIOUS
<1>14. x \in counts => \E i \in CountWords(ins.op) : \E n \in OtherCounts(ins.out[i]) :
                         x = [ins EXCEPT !.out[i] = n]
  OBVIOUS
<1>15. x \in pairs => \E i \in PairWords(ins.op) : \E p \in OtherPairs(ins.out[i], half) :
                        x = [ins EXCEPT !.out[i] = p]
  OBVIOUS
<1>16. x \in geometries =>
         \E i \in GeometryWords(ins.op) : \E g \in OtherGeometries(ins.out[i], RootOf(half)) :
           x = [ins EXCEPT !.out[i] = g]
  OBVIOUS
<1> HIDE DEF ins_refs, out_refs, counts, pairs, geometries, half
<1> QED
  BY <1>6, <1>7, <1>8, <1>9, <1>10, <1>11, <1>12, <1>13, <1>14, <1>15, <1>16

\* In a plan that fits its words, whatever single word of an instruction is damaged, an
\* instruction the engine still accepts may run (plan_validator.h:20-32).
THEOREM AcceptedIsSafeHere ==
  ASSUME PlanFitsItsWords
  PROVE  AcceptedIsSafe
<1> SUFFICES ASSUME stage = "compiled", NEW p \in Programs, NEW i \in DOMAIN plan[p],
                    NEW ins \in OneWordOff(plan[p][i], ContextOf(p, plan)),
                    InstructionAccepted(ins, p, plan)
             PROVE  LET damaged == [plan EXCEPT ![p][i] = ins] IN
                    /\ MayTouch(ins, ContextOf(p, plan))
                    /\ MayIndex(ins, plan, [classes |-> NumClasses(damaged),
                                            vocab |-> VocabBound(damaged)])
  BY DEF AcceptedIsSafe
<1> DEFINE ctx == ContextOf(p, plan)
           damaged == [plan EXCEPT ![p][i] = ins]
<1>1. /\ Programs \subseteq DOMAIN plan
      /\ plan.arena_size \in kF32..(WordSize - 64) /\ plan.rodata_size \in Word
      /\ plan.batch \in Nat
      /\ \A q \in Programs : \A j \in DOMAIN plan[q] : LeavesRoom(plan[q][j])
      /\ \A j \in DOMAIN plan.step : plan.step[j].op \notin SoftmaxLabels \cup {"embed_fwd"}
  BY DEF PlanFitsItsWords
<1>2. /\ ctx.arena_size \in kF32..(WordSize - 64) /\ ctx.rodata_size \in Word
      /\ Context(ctx)
  BY <1>1 DEF ContextOf, Context
<1>3. InstructionWord(ins) /\ ins.op = plan[p][i].op
  <2>1. LeavesRoom(plan[p][i])
    BY <1>1
  <2> HIDE DEF ctx
  <2> QED
    BY <1>2, <2>1, DamagedInstruction DEF ctx
<1>4. MayTouch(ins, ctx)
  <2>1. ValidateInstruction(ins, ctx)
    BY DEF InstructionAccepted
  <2> HIDE DEF ctx
  <2> QED
    BY <1>2, <1>3, <2>1, AcceptedInstructionMayRun
<1>5. MayIndex(ins, plan, [classes |-> NumClasses(damaged), vocab |-> VocabBound(damaged)])
  <2>1. CASE p = "step"
    <3>1. ins.op \notin SoftmaxLabels \cup {"embed_fwd"}
      BY <1>1, <1>3, <2>1
    <3> QED
      BY <3>1 DEF MayIndex
  <2>2. CASE p # "step"
    <3>1. /\ p \in Indexing /\ i \in DOMAIN damaged[p] /\ damaged[p][i] = ins
      BY <1>1, <2>2 DEF Programs, Indexing
    <3>2. ProgramWords(damaged)
      <4> SUFFICES ASSUME NEW q \in Programs, NEW j \in DOMAIN damaged[q]
                   PROVE  InstructionWord(damaged[q][j])
        BY DEF ProgramWords
      <4>1. /\ j \in DOMAIN plan[q]
            /\ damaged[q][j] = IF q = p /\ j = i THEN ins ELSE plan[q][j]
        BY <1>1
      <4> QED
        BY <1>1, <1>3, <4>1 DEF LeavesRoom
    <3>3. InstructionAccepted(damaged[p][i], p, plan)
      BY <3>1
    <3> HIDE DEF damaged
    <3> QED
      BY <1>1, <3>1, <3>2, <3>3, AcceptedInstructionMayIndex
  <2> QED
    BY <2>1, <2>2
<1> QED
  BY <1>4, <1>5

\* Every run whose plans fit their words is one in which what the engine accepts is safe.
THEOREM AcceptedStaysSafe == Spec /\ []PlanFitsItsWords => []AcceptedIsSafe
BY AcceptedIsSafeHere, PTL
=============================================================================
