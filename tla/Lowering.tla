------------------------------ MODULE Lowering ------------------------------
(***************************************************************************)
(* One instruction per operation (instruction_lowering.cc): which slot of  *)
(* the instruction word each operand, result, extent and immediate of the  *)
(* operation goes to.  The resolver is the arena binder's `refs`; an       *)
(* operation over a value it does not know is not lowered.                 *)
(***************************************************************************)
EXTENDS ArenaBinder

\* Operands, then results; one word, the elements of the result.
MapOpcodes ==
  "sc_high.add" :> "add_ew" @@ "sc_high.mul" :> "mul_ew" @@ "sc_low.mul" :> "mul_ew"
    @@ "sc_high.relu" :> "relu_fwd" @@ "sc_high.gelu" :> "gelu_fwd"
    @@ "sc_high.silu" :> "silu_fwd" @@ "sc_low.relu_grad" :> "relu_bwd"
    @@ "sc_low.gelu_grad" :> "gelu_bwd" @@ "sc_low.silu_grad" :> "silu_bwd"
    @@ "sc_low.mse_grad" :> "mse_bwd" @@ "sc_low.copy" :> "copy"
\* In place over operand 0, which gives the count.
InPlaceOpcodes ==
  "sc_low.clip_norm" :> "clip_norm" @@ "sc_low.sgd_step" :> "sgd_step"
    @@ "sc_low.adamw_step" :> "adamw_step" @@ "sc_low.accumulate" :> "accumulate"
    @@ "sc_low.zero" :> "fill"
\* Operands, then results; rows and columns in two words.
RowOpcodes ==
  "sc_high.add_bias" :> "add_bias" @@ "sc_low.reduce_rows" :> "reduce_rows"
    @@ "sc_high.softmax_xent" :> "softmax_xent_fwd"
    @@ "sc_low.softmax_xent_grad" :> "softmax_xent_bwd"
SequenceOpcodes ==
  "sc_low.attn_dp" :> "attn_dp" @@ "sc_low.attn_dv" :> "attn_dv"
    @@ "sc_low.attn_dq" :> "attn_dq" @@ "sc_low.attn_dk" :> "attn_dk"
TiledOpcodes ==
  "sc_low.attn_dq_tiled" :> "attn_dq_tiled" @@ "sc_low.attn_dk_tiled" :> "attn_dk_tiled"
    @@ "sc_low.attn_dv_tiled" :> "attn_dv_tiled"
Sequenced == {"sc_high.rope", "sc_low.rope_grad", "sc_high.attention"}
               \cup DOMAIN SequenceOpcodes \cup DOMAIN TiledOpcodes

GemmOpcode(op, storage) ==
  CASE op.mn = "sc_low.matmul_tn" -> "gemm_tn"
    [] op.mn = "sc_high.matmul" /\ storage = "int8" -> "gemm_nn_q8"
    [] op.mn = "sc_high.matmul" /\ storage = "bf16" -> "gemm_nn_bf16"
    [] op.mn = "sc_high.matmul" -> "gemm_nn"
    [] storage = "int8" -> "gemm_nt_q8"
    [] storage = "bf16" -> "gemm_nt_bf16"
    [] OTHER -> "gemm_nt"

LowerGemm(b, op, in, out, storage, scales) ==
  LET c == ShapeOf(b, op.out[1])
      a == ShapeOf(b, op.in[1])
      biased == op.mn = "sc_high.matmul" /\ Len(op.in) = 3
      q8 == storage = "int8" /\ op.mn # "sc_low.matmul_tn"
      fourth == IF q8 THEN << scales[op.in[2]] >>
                ELSE IF biased THEN << in[3] >> ELSE << >>
  IN  [Instruction(GemmOpcode(op, storage), << in[1], in[2], out[1] >> \o fourth,
                   << c[1], c[2], IF op.mn = "sc_low.matmul_tn" THEN a[1] ELSE a[2] >>)
       EXCEPT !.flags = (IF biased THEN {"bias"} ELSE {})
                          \cup (IF "epilogue_act" \in DOMAIN op.at THEN {"act"} ELSE {})
                          \cup (IF q8 THEN {"colscale"} ELSE {}),
              !.act = Attr(op, "epilogue_act", "none")]

LowerAddend(b, op, in, out) ==
  LET c == ShapeOf(b, op.out[1])
      a == ShapeOf(b, op.in[2])
      form == op.at.gemm_addend
  IN  [Instruction("gemm_" \o form, << in[2], in[3], out[1], in[1] >>,
                   << c[1], c[2], IF form = "tn" THEN a[1] ELSE a[2] >>)
       EXCEPT !.flags = {"addend"}]

\* B, S and H, d of the activation an operation's geometry is derived from.
GeometryOf(b, op) ==
  LET act == IF op.mn \in {"sc_high.attention", "sc_low.attn_dp"}
             THEN op.in[1] ELSE op.out[1]
      s == ShapeOf(b, act)
  IN  [bs |-> << s[1] \div op.at.seq, op.at.seq >>,
       hd |-> << op.at.heads, s[2] \div op.at.heads >>]

LowerSequenced(b, op, in, out) ==
  LET g == GeometryOf(b, op) IN
  CASE op.mn = "sc_high.attention" ->
         Instruction(IF "tiled" \in DOMAIN op.at THEN "attn_fwd_tiled" ELSE "attn_fwd",
                     in \o << out[1] >>, << out[2], g.bs, g.hd >>)
    [] op.mn \in DOMAIN TiledOpcodes ->
         Instruction(TiledOpcodes[op.mn], SubSeq(in, 1, 4),
                     << in[5], out[1], << g.bs, g.hd >> >>)
    [] op.mn \in DOMAIN SequenceOpcodes ->
         Instruction(SequenceOpcodes[op.mn], << in[1], in[2], out[1] >>, << g.bs, g.hd >>)
    [] OTHER ->
         Instruction(IF op.mn = "sc_high.rope" THEN "rope_fwd" ELSE "rope_bwd",
                     << in[1], out[1] >> \o Tail(in), << g.bs, g.hd, op.at.base >>)

LowerNormalization(b, op, in, out) ==
  LET dims == ShapeOf(b, op.out[1]) IN
  CASE op.mn = "sc_high.layer_norm" ->
         [Instruction("layer_norm_fwd", in \o << out[1] >>, << dims, out[2], out[3] >>)
          EXCEPT !.imm = Attr(op, "eps", 0)]
    [] op.mn = "sc_low.layer_norm_grad" ->
         Instruction("layer_norm_bwd", SubSeq(in, 1, 3) \o << out[1] >>,
                     << in[4], in[5], dims >>)
    [] op.mn = "sc_high.rms_norm" ->
         [Instruction("rms_norm_fwd", in \o out, << dims >>) EXCEPT !.imm = Attr(op, "eps", 0)]
    [] op.mn = "sc_low.rms_norm_grad" ->
         Instruction("rms_norm_bwd", SubSeq(in, 1, 3) \o << out[1] >>, << in[4], dims >>)
Normalizations == {"sc_high.layer_norm", "sc_low.layer_norm_grad",
                   "sc_high.rms_norm", "sc_low.rms_norm_grad"}

LowerOther(b, op, in, out) ==
  LET shape(v) == ShapeOf(b, v)
      kl == << Attr(op, "loss_scale", 1), Attr(op, "temperature", 1) >>
  IN  CASE op.mn = "sc_high.embedding" ->
             Instruction("embed_fwd", in \o out, << shape(op.out[1])[1], shape(op.in[2]) >>)
        [] op.mn = "sc_low.softmax_rows_grad" ->
             Instruction("softmax_rows_bwd", in \o out, << shape(op.out[1]) >>)
        [] op.mn \in {"sc_high.scale", "sc_low.scale"} ->
             Instruction("scale", in \o out \o << Imm(Attr(op, "alpha", 1)) >>,
                         << Volume(shape(op.out[1])) >>)
        [] op.mn = "sc_high.mse" ->
             Instruction("mse_fwd", in \o out, << Volume(shape(op.in[1])) >>)
        [] op.mn = "sc_high.kl_distill" ->
             Instruction("kl_distill_fwd", in \o << out[1], out[2] >>,
                         << out[3], shape(op.in[1]), kl >>)
        [] op.mn = "sc_low.kl_grad" ->
             Instruction("kl_distill_bwd", in \o out, << shape(op.out[1]), kl >>)
        [] op.mn = "sc_low.rope_table" ->
             Instruction("rope_table", out, << << op.at.seq, op.at.width >>, op.at.base >>)
        [] op.mn = "sc_low.fill" ->
             Instruction("fill", out \o << Imm(op.at.value) >>, << Volume(shape(op.out[1])) >>)
        [] op.mn = "sc_low.gemm_acc" ->
             Instruction("gemm_acc_nn", in \o << Imm(op.at.alpha) >>,
                         << shape(op.in[1])[1], shape(op.in[2])[2], shape(op.in[1])[2] >>)

LowerInPlace(b, op, in) ==
  LET tail == CASE op.mn = "sc_low.clip_norm" -> << Imm(op.at.max_norm) >>
                [] op.mn = "sc_low.zero" -> << Imm(0) >>
                [] OTHER -> << >>
  IN  Instruction(InPlaceOpcodes[op.mn], in \o tail,
                  << Volume(ShapeOf(b, op.in[1])), Attr(op, "clip_norm", 0) >>)

LowerOp(b, op, bind, narrow) ==
  LET in == Tuple([i \in DOMAIN op.in |-> bind.refs[op.in[i]]])
      out == Tuple([i \in DOMAIN op.out |-> bind.refs[op.out[i]]])
      n == Volume(ShapeOf(b, op.out[1]))
      rows == ShapeOf(b, IF op.mn \in {"sc_low.reduce_rows", "sc_high.softmax_xent"}
                         THEN op.in[1] ELSE op.out[1])
  IN  CASE "fused_stages" \in DOMAIN op.at ->
             Instruction("fused_map",
                         [i \in 1..4 |-> IF i = 4 THEN out[1]
                                         ELSE IF i <= Len(in) THEN in[i] ELSE NullRef],
                         << n, op.at.fused_stages,
                            [i \in 1..2 |-> IF i <= Len(op.at.fused_imm)
                                            THEN op.at.fused_imm[i] ELSE 0] >>)
        [] op.mn \in DOMAIN GemmForms ->
             LowerGemm(b, op, in, out, StorageOf(narrow, op.in[2]), bind.column_scales)
        [] "gemm_addend" \in DOMAIN op.at -> LowerAddend(b, op, in, out)
        [] op.mn \in DOMAIN MapOpcodes -> Instruction(MapOpcodes[op.mn], in \o out, << n >>)
        [] op.mn \in DOMAIN InPlaceOpcodes -> LowerInPlace(b, op, in)
        [] op.mn \in DOMAIN RowOpcodes ->
             Instruction(RowOpcodes[op.mn], in \o out, << rows[1], rows[2] >>)
        [] op.mn \in Sequenced -> LowerSequenced(b, op, in, out)
        [] op.mn \in Normalizations -> LowerNormalization(b, op, in, out)
        [] OTHER -> LowerOther(b, op, in, out)

\* What selection refuses: a value the binder does not know, a chain of more
\* operands than the instruction has slots, a bias where an int8 product keeps its
\* scales, an unknown activation or addend form, rows that are not whole sequences
\* or heads that do not divide the width.
Resolvable(op, bind) ==
  \A s \in {op.in, op.out} : \A i \in DOMAIN s : s[i] \in DOMAIN bind.refs
SequencesFit(b, op) ==
  LET x == ShapeOf(b, IF op.mn \in {"sc_high.attention", "sc_low.attn_dp"}
                      THEN op.in[1] ELSE op.out[1])
      heads == Attr(op, "heads", 0)
      seq == Attr(op, "seq", 0)
  IN  heads > 0 /\ seq > 0 /\ x[1] % seq = 0 /\ x[2] % heads = 0
Selectable(b, op, bind, narrow) ==
  /\ Resolvable(op, bind)
  /\ "fused_stages" \in DOMAIN op.at => Len(op.in) \in 1..3
  /\ op.mn = "sc_high.matmul" /\ Len(op.in) = 3 => StorageOf(narrow, op.in[2]) # "int8"
  /\ Attr(op, "epilogue_act", "relu") \in {"relu", "gelu", "silu"}
  /\ "gemm_addend" \in DOMAIN op.at =>
       Len(op.in) = 3 /\ op.at.gemm_addend \in {"nn", "nt", "tn"}
  /\ op.mn \in Sequenced => SequencesFit(b, op)

LowerOps(b, ops, bind, narrow) ==
  LET code == SelectSeq(ops, LAMBDA o : ~IsMemoryOp(o))
  IN  IF \E i \in DOMAIN code : ~Selectable(b, code[i], bind, narrow)
      THEN [ok |-> FALSE, instrs |-> << >>]
      ELSE [ok |-> TRUE,
            instrs |-> Tuple([i \in DOMAIN code |-> LowerOp(b, code[i], bind, narrow)])]
=============================================================================
