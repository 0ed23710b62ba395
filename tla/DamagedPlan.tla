----------------------------- MODULE DamagedPlan -----------------------------
(***************************************************************************)
(* What the load-time proof is for: the plans that differ from a compiled  *)
(* one in a single word, and what a kernel may touch.  The operators here  *)
(* enumerate inputs and state a property; none of them models code.        *)
(***************************************************************************)
EXTENDS PlanContract

\* Where an opcode keeps counts, pairs of counts, pairs of such pairs and references
\* among its three output words.
CountWords(op) ==
  CASE op \in Gemms -> {1, 2, 3}
    [] op \in MapOps \cup {"fused_map", "embed_fwd"} -> {1}
    [] op \in {"add_bias", "reduce_rows", "softmax_xent_fwd", "softmax_xent_bwd"} -> {1, 2}
    [] OTHER -> {}
PairWords(op) ==
  CASE op \in {"attn_fwd", "attn_fwd_tiled"} -> {2, 3}
    [] op \in {"attn_dp", "attn_dv", "attn_dq", "attn_dk"} \cup Ropes -> {1, 2}
    [] op \in {"embed_fwd", "rms_norm_bwd", "kl_distill_fwd"} -> {2}
    [] op = "layer_norm_bwd" -> {3}
    [] op \in {"layer_norm_fwd", "rms_norm_fwd", "kl_distill_bwd", "softmax_rows_bwd",
               "rope_table"} -> {1}
    [] OTHER -> {}
GeometryWords(op) == IF op \in TiledBackwards THEN {3} ELSE {}   \* two pairs in one word
RefWords(op) ==
  CASE op \in {"attn_fwd", "attn_fwd_tiled", "rms_norm_bwd", "kl_distill_fwd"} -> {1}
    [] op \in TiledBackwards \cup {"layer_norm_bwd"} -> {1, 2}
    [] op = "layer_norm_fwd" -> {2, 3}
    [] OTHER -> {}

\* The operands each opcode takes by reference; the slots behind them are null or
\* hold immediates.
OperandWords(op) ==
  CASE op \in {"clip_norm", "fill", "rope_table"} -> {1}
    [] op \in Maps1 \cup {"sgd_step", "accumulate", "reduce_rows"} -> {1, 2}
    [] op \in Maps2 \cup Ropes \cup {"mse_fwd", "add_bias", "softmax_rows_bwd", "embed_fwd",
                                     "attn_dp", "attn_dv", "attn_dq", "attn_dk",
                                     "gemm_acc_nn"} -> {1, 2, 3}
    [] OTHER -> 1..4

\* An instruction as it may stand in a plan file, each of its words of the kind its
\* opcode reads it as.
TensorRef == [sp : {"arena", "rodata", "source"}, off : Word] \cup {NullRef}
InstructionWord(ins) ==
  /\ \A i \in OperandWords(ins.op) : ins.in[i] \in TensorRef
  /\ \A i \in RefWords(ins.op) : ins.out[i] \in TensorRef
  /\ \A i \in CountWords(ins.op) : ins.out[i] \in Word
  /\ \A i \in PairWords(ins.op) : ins.out[i] \in Word \X Word
  /\ \A i \in GeometryWords(ins.op) : ins.out[i] \in (Word \X Word) \X (Word \X Word)

RootOf(n) == CHOOSE h \in 1..n : h * h <= n /\ (h + 1) * (h + 1) > n

\* One word of each kind, changed: to a boundary of its type or its neighbourhood.
OtherCounts(n) == {0, 1, n + 1, 2 * n, WordSize \div 4 + 1, WordSize \div 2, WordSize - 1}
OtherPairs(p, limit) ==
  UNION {{<< x, p[2] >>, << p[1], x >>} : x \in {0, p[1] + 1, limit - 1}}
OtherGeometries(g, limit) ==
  {<< p, g[2] >> : p \in OtherPairs(g[1], limit)}
    \cup {<< g[1], p >> : p \in OtherPairs(g[2], limit)}
References(ins) == {i \in 1..4 : ins.in[i].sp # "imm"}
OtherRefs(r, ins, ctx) ==
  LET offsets == {0, 1, r.off + kF32, ctx.arena_size - kF32, ctx.arena_size,
                  ctx.rodata_size, WordSize - kF32, WordSize - 2 * kF32, WordSize - 1}
  IN  {[sp |-> sp, off |-> o] :
         sp \in {"arena", "rodata", "source", r.sp} \ {"null"}, o \in {r.off} \cup offsets}
        \cup {NullRef} \cup {ins.in[i] : i \in References(ins)}

OneWordOff(ins, ctx) ==
  LET half == RootOf(WordSize)
      ins_refs == UNION {{[ins EXCEPT !.in[i] = r] : r \in OtherRefs(ins.in[i], ins, ctx)} :
                           i \in References(ins)}
      out_refs == UNION {{[ins EXCEPT !.out[i] = r] : r \in OtherRefs(ins.out[i], ins, ctx)} :
                           i \in RefWords(ins.op)}
      counts == UNION {{[ins EXCEPT !.out[i] = n] : n \in OtherCounts(ins.out[i])} :
                         i \in CountWords(ins.op)}
      pairs == UNION {{[ins EXCEPT !.out[i] = p] : p \in OtherPairs(ins.out[i], half)} :
                        i \in PairWords(ins.op)}
      geometries == UNION {{[ins EXCEPT !.out[i] = g] :
                              g \in OtherGeometries(ins.out[i], RootOf(half))} :
                             i \in GeometryWords(ins.op)}
  IN  ins_refs \cup out_refs \cup counts \cup pairs \cup geometries

\* A compiled instruction with room in every word for the neighbours above.
RefLeavesRoom(r) == r \in TensorRef /\ r.off + kF32 \in Word
PairLeavesRoom(p) == p[1] + 1 \in Word
LeavesRoom(ins) ==
  /\ {"op", "in", "out"} \subseteq DOMAIN ins /\ DOMAIN ins.in = 1..4 /\ DOMAIN ins.out = 1..3
  /\ InstructionWord(ins)
  /\ \A i \in References(ins) : RefLeavesRoom(ins.in[i])
  /\ \A i \in RefWords(ins.op) : RefLeavesRoom(ins.out[i])
  /\ \A i \in CountWords(ins.op) : {ins.out[i] + 1, 2 * ins.out[i]} \subseteq Word
  /\ \A i \in PairWords(ins.op) : PairLeavesRoom(ins.out[i])
  /\ \A i \in GeometryWords(ins.op) :
       PairLeavesRoom(ins.out[i][1]) /\ PairLeavesRoom(ins.out[i][2])

\* A kernel may run: whatever it dereferences lies in its space, on its element's
\* alignment, written only in the arena; no operand it writes overlaps another; and
\* what it takes for indices are the staged labels or ids, which the feeder keeps
\* below the table's width.
SpaceSize(ref, ctx) ==
  IF ref.sp = "arena" THEN ctx.arena_size
  ELSE IF ref.sp = "rodata" THEN ctx.rodata_size
  ELSE IF ref.sp = "source" /\ ctx.allow_source THEN kSourceSpaceLimit ELSE 0
TouchesAreSafe(touches, ctx) ==
  LET inside(t) == /\ t.ref.off % t.width = 0
                   /\ t.ref.off <= SpaceSize(t.ref, ctx)
                   /\ t.elems <= (SpaceSize(t.ref, ctx) - t.ref.off) \div t.width
                   /\ t.write => t.ref.sp = "arena"
      end(t) == t.ref.off + t.elems * t.width
      apart(s, t) == s.ref.sp # t.ref.sp \/ end(s) <= t.ref.off \/ end(t) <= s.ref.off
  IN  /\ \A i \in DOMAIN touches : inside(touches[i])
      /\ \A i, j \in DOMAIN touches :
           i # j /\ touches[i].write => apart(touches[i], touches[j])
MayTouch(ins, ctx) == TouchesAreSafe(Touches(ins), ctx)
MayIndex(ins, h, bound) ==
  LET staged(ref, slot, rows) == ref = slot /\ rows <= h.batch
  IN  /\ ins.op \in SoftmaxLabels =>
           staged(ins.in[2], h.labels, ins.out[1]) /\ bound.classes \in 1..ins.out[2]
      /\ ins.op = "embed_fwd" =>
           staged(ins.in[1], h.input, ins.out[1]) /\ bound.vocab \in 1..ins.out[2][1]
=============================================================================
