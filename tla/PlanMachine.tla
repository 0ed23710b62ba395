---------------------------- MODULE PlanMachine ----------------------------
(***************************************************************************)
(* The CPU backend (src/runtime/executor/cpu_backend.cc) running a plan:   *)
(* each instruction fetches the operands it touches, computes with its     *)
(* kernel and stores what it writes.  The memory is                        *)
(*   arena    the arena's 4-byte cells                                     *)
(*   rodata   the frozen weights' bytes, an element at its first byte      *)
(*   source   the cells of the bound source model file                     *)
(***************************************************************************)
EXTENDS Lowering

Fetch(mem, t) ==
  LET off == t.ref.off IN
  CASE t.ref.sp = "rodata" -> Flat(t.elems, LAMBDA i : mem.rodata[off + i * t.width + 1])
    [] t.ref.sp = "source" -> Flat(t.elems, LAMBDA i : mem.source[off \div kF32 + i + 1])
    [] OTHER -> Flat(t.elems, LAMBDA i : mem.arena[off \div kF32 + i + 1])

Store(arena, ref, tensor) ==
  LET c == ref.off \div kF32
  IN  SubSeq(arena, 1, c) \o tensor \o SubSeq(arena, c + Len(tensor) + 1, Len(arena))

\* What a product writes, whatever form its operands are stored in.
GemmWrites(ins, x) ==
  LET m == ins.out[1]  n == ins.out[2]  k == ins.out[3]
      bias == IF "bias" \in ins.flags THEN x[4] ELSE None
      addend == IF "addend" \in ins.flags THEN x[4] ELSE None
      act == IF "act" \in ins.flags THEN ins.act ELSE "none"
  IN  << CASE ins.op \in {"gemm_nn", "gemm_nn_bf16"} ->
                GemmNN(x[1], x[2], m, n, k, bias, act, addend)
           [] ins.op \in {"gemm_nt", "gemm_nt_bf16"} -> GemmNT(x[1], x[2], m, n, k, addend)
           [] ins.op = "gemm_tn" -> GemmTN(x[1], x[2], m, n, k, addend)
           [] ins.op = "gemm_acc_nn" ->
                GemmAccNN(x[3], x[1], x[2], m, n, k, ins.in[4].off)
           [] ins.op = "gemm_nn_q8" -> GemmNNQ8(x[1], x[2], x[4], m, n, k, act)
           [] ins.op = "gemm_nt_q8" -> GemmNTQ8(x[1], x[2], x[4], m, n, k) >>

AttentionWrites(ins, x) ==
  LET out == ins.out
      g == IF ins.op \in {"attn_fwd", "attn_fwd_tiled"} THEN << out[2], out[3] >>
           ELSE IF ins.op \in TiledBackwards THEN out[3] ELSE << out[1], out[2] >>
      B == g[1][1]  S == g[1][2]  H == g[2][1]  d == g[2][2]
      probs == AttnProbs(x[1], x[2], B, S, H, d)
      \* The tiled backward reads q, k, v, dO, stats; dV does without v.
      stats == x[Len(x) - 1]
      dO == x[Len(x) - 2]
      tp == TiledProbs(x[1], x[2], stats, B, S, H, d)
      dp == AttnDP(dO, x[3], B, S, H, d)
  IN  CASE ins.op = "attn_fwd" -> << AttnOut(probs, x[3], B, S, H, d), probs >>
        [] ins.op = "attn_fwd_tiled" ->
             << AttnOut(probs, x[3], B, S, H, d), AttnStats(x[1], x[2], B, S, H, d) >>
        [] ins.op = "attn_dp" -> << AttnDP(x[1], x[2], B, S, H, d) >>
        [] ins.op = "attn_dv" -> << AttnDV(x[1], x[2], B, S, H, d) >>
        [] ins.op = "attn_dq" -> << AttnDQ(x[1], x[2], B, S, H, d) >>
        [] ins.op = "attn_dk" -> << AttnDK(x[1], x[2], B, S, H, d) >>
        [] ins.op = "attn_dq_tiled" ->
             LET st == AttnDelta(stats, tp, dp, B, S, H)
             IN  << st, AttnDQ(TiledDS(st, tp, dp, B, S, H), x[2], B, S, H, d) >>
        [] ins.op = "attn_dk_tiled" ->
             << AttnDK(TiledDS(stats, tp, dp, B, S, H), x[1], B, S, H, d) >>
        [] ins.op = "attn_dv_tiled" -> << AttnDV(tp, dO, B, S, H, d) >>

MapWrites(ins, x) ==
  LET n == ins.out[1]
      clip == ins.out[2]
  IN  CASE ins.op = "add_ew" -> << AddEW(x[1], x[2], n) >>
        [] ins.op = "mul_ew" -> << MulEW(x[1], x[2], n) >>
        [] ins.op \in {"relu_fwd", "gelu_fwd", "silu_fwd"} ->
             << ActFwd(SubSeq(ins.op, 1, 4), x[1], n) >>
        [] ins.op \in {"relu_bwd", "gelu_bwd", "silu_bwd"} ->
             << ActBwd(SubSeq(ins.op, 1, 4), x[1], x[2], n) >>
        [] ins.op = "scale" -> << Scale(x[1], ins.in[3].off, n) >>
        [] ins.op = "copy" -> << x[1] >>
        [] ins.op = "clip_norm" -> << Scale(x[1], ClipScale(x[1], n, ins.in[2].off), n) >>
        [] ins.op = "fill" -> << Fill(ins.in[2].off, n) >>
        [] ins.op = "accumulate" -> << AddEW(x[1], x[2], n) >>
        [] ins.op = "mse_fwd" -> << MseFwd(x[1], x[2], n) >>
        [] ins.op = "mse_bwd" -> << MseBwd(x[1], x[2], x[3], n) >>

StepWrites(ins, x, hp) ==
  LET n == ins.out[1]
      r == AdamWStep(x[1], x[2], x[3], x[4], n, hp.step, hp.lr, hp.wd, ins.out[2])
  IN  IF ins.op = "sgd_step" THEN << SgdStep(x[1], x[2], n, hp.lr, hp.wd, ins.out[2]) >>
      ELSE << r.p, r.m, r.v >>

RowWrites(ins, x) ==
  LET out == ins.out  n == out[1] IN
  CASE ins.op = "add_bias" -> << AddBias(x[1], x[2], n, out[2]) >>
    [] ins.op = "reduce_rows" -> << ReduceRows(x[1], n, out[2]) >>
    [] ins.op = "softmax_xent_fwd" ->
         LET ps == RowSoftmax(x[1], n, out[2], 1)
         IN  << SoftmaxXEntFwd(ps, x[2], n, out[2]), ps >>
    [] ins.op = "softmax_xent_bwd" -> << SoftmaxXEntBwd(x[1], x[2], x[3], n, out[2]) >>
    [] ins.op = "layer_norm_fwd" ->
         LET st == LayerNormStats(x[1], n[1], n[2], ins.imm)
         IN  << LayerNormFwd(x[1], x[2], x[3], st, n[1], n[2]), st.mean, st.rstd >>
    [] ins.op = "layer_norm_bwd" ->
         << LayerNormBwd(x[1], x[2], x[3], x[4], x[5], out[3][1], out[3][2]) >>
    [] ins.op = "rms_norm_fwd" ->
         LET r == RmsNormRstd(x[1], n[1], n[2], ins.imm)
         IN  << RmsNormFwd(x[1], x[2], r, n[1], n[2]), r >>
    [] ins.op = "rms_norm_bwd" ->
         << RmsNormBwd(x[1], x[2], x[3], x[4], out[2][1], out[2][2]) >>
    [] ins.op = "kl_distill_fwd" ->
         LET T == Recip(out[3][2])
             ps == RowSoftmax(x[1], out[2][1], out[2][2], T)
             pt == RowSoftmax(x[2], out[2][1], out[2][2], T)
         IN  << KLDistillFwd(ps, pt, out[2][1], out[2][2], out[3][1]), ps, pt >>
    [] ins.op = "kl_distill_bwd" ->
         << KLDistillBwd(x[1], x[2], x[3], n[1], n[2], out[2][2], out[2][1]) >>
    [] ins.op = "softmax_rows_bwd" -> << SoftmaxRowsBwd(x[1], x[2], n[1], n[2]) >>
    [] ins.op = "embed_fwd" -> << EmbedFwd(x[1], x[2], n, out[2][2]) >>
    [] ins.op = "rope_table" -> << RopeTable(n[1], n[2], out[2]) >>

\* A rotation without a table computes the angles as it goes.
RopeWrites(ins, x) ==
  LET bs == ins.out[1]  hd == ins.out[2]
      table == IF ins.in[3] = NullRef THEN RopeTable(bs[2], hd[2], ins.out[3]) ELSE x[3]
  IN  << Rotate(x[1], bs[1], bs[2], hd[1], hd[2], table, ins.op = "rope_bwd") >>

FusedWrites(ins, x) ==
  LET first == Len(x) - 1
      others == [i \in 1..2 |-> IF ins.in[i + 1] = NullRef THEN None
                                ELSE IF i = 1 THEN x[2] ELSE x[first]]
  IN  << FusedMap(x[1], others, ins.out[1], ins.out[2], ins.out[3]) >>

KernelWrites(ins, x, hp) ==
  CASE ins.op \in Gemms -> GemmWrites(ins, x)
    [] ins.op \in Attentions -> AttentionWrites(ins, x)
    [] ins.op \in {"sgd_step", "adamw_step"} -> StepWrites(ins, x, hp)
    [] ins.op \in Maps1 \cup Maps2 \cup {"clip_norm", "fill", "accumulate", "mse_fwd",
                                         "mse_bwd"} -> MapWrites(ins, x)
    [] ins.op \in Ropes -> RopeWrites(ins, x)
    [] ins.op = "fused_map" -> FusedWrites(ins, x)
    [] OTHER -> RowWrites(ins, x)

StoreAll(mem, writes, tensors) ==
  [mem EXCEPT !.arena = Walk(LAMBDA arena, i : Store(arena, writes[i].ref, tensors[i]),
                             @, Tuple([i \in DOMAIN writes |-> i]))]
ExecuteOver(mem, ins, touched, hp) ==
  StoreAll(mem, SelectSeq(touched, LAMBDA t : t.write),
           KernelWrites(ins, Tuple([i \in DOMAIN touched |-> Fetch(mem, touched[i])]), hp))
\* CpuBackend::Execute: hp carries the step's learning rate and its index.
Execute(mem, ins, hp) == ExecuteOver(mem, ins, Touches(ins), hp)

RunProgram(mem, instrs, hp) == Walk(LAMBDA m, ins : Execute(m, ins, hp), mem, instrs)
=============================================================================
