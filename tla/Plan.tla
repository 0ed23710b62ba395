-------------------------------- MODULE Plan --------------------------------
(***************************************************************************)
(* The plan's instruction set (src/source/plan/instruction.h): tensor      *)
(* references, the instruction word, and what the kernel behind each       *)
(* opcode touches when the CPU backend dispatches it                       *)
(* (src/runtime/executor/cpu_backend.cc).                                  *)
(*                                                                         *)
(* A 64-bit word is a reference [sp, off] - a space and a byte offset -,   *)
(* a count, a pair << hi, lo >> packed in its two halves, or an immediate. *)
(***************************************************************************)
EXTENDS Integers, Sequences, FiniteSets

ArenaRef(off) == [sp |-> "arena", off |-> off]
RodataRef(off) == [sp |-> "rodata", off |-> off]
SourceRef(off) == [sp |-> "source", off |-> off]
NullRef == [sp |-> "null", off |-> 0]
Imm(x) == [sp |-> "imm", off |-> x]

kF32 == 4

\* An instruction; the slots it does not name are null references and zeros.
Instruction(op, in, out) ==
  [op |-> op, flags |-> {}, act |-> "none", imm |-> 0,
   in |-> [i \in 1..4 |-> IF i <= Len(in) THEN in[i] ELSE NullRef],
   out |-> [i \in 1..3 |-> IF i <= Len(out) THEN out[i] ELSE 0]]

Gemms == {"gemm_nn", "gemm_nt", "gemm_tn", "gemm_acc_nn", "gemm_nn_q8",
          "gemm_nt_q8", "gemm_nn_bf16", "gemm_nt_bf16"}
GemmsQ8 == {"gemm_nn_q8", "gemm_nt_q8"}
GemmsBF16 == {"gemm_nn_bf16", "gemm_nt_bf16"}
Maps2 == {"add_ew", "mul_ew", "relu_bwd", "gelu_bwd", "silu_bwd"}
Maps1 == {"relu_fwd", "gelu_fwd", "silu_fwd", "scale", "copy"}
Ropes == {"rope_fwd", "rope_bwd"}
MapOps == Maps2 \cup Maps1 \cup {"clip_norm", "fill", "mse_fwd", "mse_bwd",
                                 "sgd_step", "accumulate", "adamw_step"}
RowOps == {"add_bias", "reduce_rows", "softmax_xent_fwd", "softmax_xent_bwd",
           "layer_norm_fwd", "layer_norm_bwd", "rms_norm_fwd", "rms_norm_bwd",
           "kl_distill_fwd", "kl_distill_bwd", "softmax_rows_bwd"}
TiledBackwards == {"attn_dq_tiled", "attn_dk_tiled", "attn_dv_tiled"}

\* Bytes per stored element of a product's right operand.
StorageWidth(op) == IF op \in GemmsQ8 THEN 1 ELSE IF op \in GemmsBF16 THEN 2 ELSE kF32

(***************************************************************************)
(* What a kernel touches: the operands it dereferences, in its order, each *)
(* with the elements its loops run over.  An operand read and written      *)
(* through one pointer is one touch.                                       *)
(***************************************************************************)
TouchOf(ref, elems, write, width) ==
  [ref |-> ref, elems |-> elems, write |-> write, width |-> width]
Touch(ref, elems, write) == TouchOf(ref, elems, write, kF32)
Reads(ref, elems) == Touch(ref, elems, FALSE)
Writes(ref, elems) == Touch(ref, elems, TRUE)
Optional(present, touch) == IF present THEN << touch >> ELSE << >>

TouchesOfGemm(ins) ==
  LET m == ins.out[1]  n == ins.out[2]  k == ins.out[3]
  IN  << Touch(ins.in[1], m * k, FALSE),
         TouchOf(ins.in[2], k * n, FALSE, StorageWidth(ins.op)),
         Touch(ins.in[3], m * n, TRUE) >>
        \o Optional("bias" \in ins.flags, Reads(ins.in[4], n))
        \o Optional("colscale" \in ins.flags,
                    Reads(ins.in[4], IF ins.op = "gemm_nt_q8" THEN k ELSE n))
        \o Optional("addend" \in ins.flags, Reads(ins.in[4], m * n))

\* bs = << B, S >>, hd = << H, d >>: tokens x width, and the probabilities.
Activation(bs, hd) == bs[1] * bs[2] * hd[1] * hd[2]
Probabilities(bs, hd) == bs[1] * hd[1] * bs[2] * bs[2]
StatsRows(bs, hd) == bs[1] * hd[1] * bs[2] * 4

TouchesOfAttention(ins) ==
  LET in == ins.in  out == ins.out
      td == Activation(out[1], out[2])
      pn == Probabilities(out[1], out[2])
  IN  CASE ins.op \in {"attn_fwd", "attn_fwd_tiled"} ->
             LET t == Activation(out[2], out[3])
                 cache == IF ins.op = "attn_fwd" THEN Probabilities(out[2], out[3])
                          ELSE StatsRows(out[2], out[3])
             IN  << Reads(in[1], t), Reads(in[2], t), Reads(in[3], t),
                   Writes(in[4], t), Writes(out[1], cache) >>
        [] ins.op = "attn_dp" -> << Reads(in[1], td), Reads(in[2], td), Writes(in[3], pn) >>
        [] ins.op \in {"attn_dv", "attn_dq", "attn_dk"} ->
             << Reads(in[1], pn), Reads(in[2], td), Writes(in[3], td) >>
        [] ins.op \in TiledBackwards ->
             LET t == Activation(out[3][1], out[3][2])
                 stats == Touch(out[1], StatsRows(out[3][1], out[3][2]),
                                ins.op = "attn_dq_tiled")
             IN  IF ins.op = "attn_dv_tiled"   \* dV does without v
                 THEN << Reads(in[1], t), Reads(in[2], t), Reads(in[4], t), stats,
                         Writes(out[2], t) >>
                 ELSE << Reads(in[1], t), Reads(in[2], t), Reads(in[3], t),
                         Reads(in[4], t), stats, Writes(out[2], t) >>

Attentions == {"attn_fwd", "attn_fwd_tiled", "attn_dp", "attn_dv", "attn_dq",
               "attn_dk"} \cup TiledBackwards

TouchesOfMap(ins) ==
  LET in == ins.in  n == ins.out[1]
  IN  CASE ins.op \in Maps2 -> << Reads(in[1], n), Reads(in[2], n), Writes(in[3], n) >>
        [] ins.op \in Maps1 -> << Reads(in[1], n), Writes(in[2], n) >>
        [] ins.op \in {"clip_norm", "fill"} -> << Writes(in[1], n) >>
        [] ins.op = "mse_fwd" -> << Reads(in[1], n), Reads(in[2], n), Writes(in[3], 1) >>
        [] ins.op = "mse_bwd" ->
             << Reads(in[1], n), Reads(in[2], n), Reads(in[3], 1), Writes(in[4], n) >>
        [] ins.op \in {"sgd_step", "accumulate"} -> << Writes(in[1], n), Reads(in[2], n) >>
        [] ins.op = "adamw_step" ->
             << Writes(in[1], n), Reads(in[2], n), Writes(in[3], n), Writes(in[4], n) >>

\* The operations over rows and columns, whose pair each opcode keeps where it can.
RowsAndColumns(ins) ==
  CASE ins.op \in {"add_bias", "reduce_rows", "softmax_xent_fwd", "softmax_xent_bwd"} ->
         << ins.out[1], ins.out[2] >>
    [] ins.op \in {"rms_norm_bwd", "kl_distill_fwd"} -> ins.out[2]
    [] ins.op = "layer_norm_bwd" -> ins.out[3]
    [] ins.op \in {"layer_norm_fwd", "rms_norm_fwd", "kl_distill_bwd",
                   "softmax_rows_bwd"} -> ins.out[1]

TouchesOfRows(ins) ==
  LET in == ins.in  out == ins.out
      r == RowsAndColumns(ins)[1]  c == RowsAndColumns(ins)[2]
  IN  CASE ins.op = "add_bias" ->
             << Reads(in[1], r * c), Reads(in[2], c), Writes(in[3], r * c) >>
        [] ins.op = "reduce_rows" -> << Reads(in[1], r * c), Writes(in[2], c) >>
        [] ins.op = "softmax_xent_fwd" ->
             << Reads(in[1], r * c), Reads(in[2], r), Writes(in[3], 1),
               Writes(in[4], r * c) >>
        [] ins.op = "softmax_xent_bwd" ->
             << Reads(in[1], r * c), Reads(in[2], r), Reads(in[3], 1),
               Writes(in[4], r * c) >>
        [] ins.op = "layer_norm_fwd" ->
             << Reads(in[1], r * c), Reads(in[2], c), Reads(in[3], c),
               Writes(in[4], r * c), Writes(out[2], r), Writes(out[3], r) >>
        [] ins.op = "layer_norm_bwd" ->
             << Reads(in[1], r * c), Reads(in[2], r * c), Reads(in[3], c),
               Reads(out[1], r), Reads(out[2], r), Writes(in[4], r * c) >>
        [] ins.op = "rms_norm_fwd" ->
             << Reads(in[1], r * c), Reads(in[2], c), Writes(in[3], r * c),
               Writes(in[4], r) >>
        [] ins.op = "rms_norm_bwd" ->
             << Reads(in[1], r * c), Reads(in[2], r * c), Reads(in[3], c),
               Reads(out[1], r), Writes(in[4], r * c) >>
        [] ins.op = "kl_distill_fwd" ->
             << Reads(in[1], r * c), Reads(in[2], r * c), Writes(in[3], 1),
               Writes(in[4], r * c), Writes(out[1], r * c) >>
        [] ins.op = "kl_distill_bwd" ->
             << Reads(in[1], r * c), Reads(in[2], r * c), Reads(in[3], 1),
               Writes(in[4], r * c) >>
        [] ins.op = "softmax_rows_bwd" ->
             << Reads(in[1], r * c), Reads(in[2], r * c), Writes(in[3], r * c) >>

TouchesOfOther(ins) ==
  LET in == ins.in  n == ins.out[1]  d1 == ins.out[2]
  IN  CASE ins.op \in Ropes ->
             << Reads(in[1], Activation(n, d1)), Writes(in[2], Activation(n, d1)) >>
               \o Optional(in[3] # NullRef, Reads(in[3], n[2] * d1[2]))
        [] ins.op = "rope_table" -> << Writes(in[1], n[1] * n[2]) >>
        [] ins.op = "fused_map" ->
             << Reads(in[1], n) >> \o Optional(in[2] # NullRef, Reads(in[2], n))
               \o Optional(in[3] # NullRef, Reads(in[3], n)) \o << Writes(in[4], n) >>
        [] ins.op = "embed_fwd" ->
             << Reads(in[1], n), Reads(in[2], d1[1] * d1[2]), Writes(in[3], n * d1[2]) >>
        [] OTHER -> << >>

Touches(ins) ==
  IF ins.op \in Gemms THEN TouchesOfGemm(ins)
  ELSE IF ins.op \in Attentions THEN TouchesOfAttention(ins)
  ELSE IF ins.op \in MapOps THEN TouchesOfMap(ins)
  ELSE IF ins.op \in RowOps THEN TouchesOfRows(ins)
  ELSE TouchesOfOther(ins)
=============================================================================
