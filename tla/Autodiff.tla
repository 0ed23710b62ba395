------------------------------ MODULE Autodiff ------------------------------
(***************************************************************************)
(* From the forward graph to the training graph: the reverse-mode sweep    *)
(* (analysis/calculus/autodiff.cc) and the optimizer's step operations     *)
(* (analysis/optimization/optimizer.cc).                                   *)
(*                                                                         *)
(* The state of a sweep (AdContext): the block, the values that need a     *)
(* gradient, the adjoint of each value reached so far, the counter of      *)
(* fresh ids.                                                              *)
(***************************************************************************)
EXTENDS Grafting

Needs(ctx, v) == v \in ctx.needs
GradOf(ctx, v) == IF v \in DOMAIN ctx.adjoint THEN ctx.adjoint[v] ELSE 0

Accumulate_Last(ctx, primal, grad) ==   \* a later gradient replaces the one before
  IF ~Needs(ctx, primal) THEN ctx ELSE [ctx EXCEPT !.adjoint = (primal :> grad) @@ @]
\* AdContext::Accumulate: the first gradient is the adjoint, a later one is
\* added to it.
Accumulate(ctx, primal, grad) ==
  IF ~Needs(ctx, primal) THEN ctx
  ELSE IF primal \notin DOMAIN ctx.adjoint
  THEN [ctx EXCEPT !.adjoint = (primal :> grad) @@ @]
  ELSE LET summed(b) == [ctx EXCEPT !.b = b, !.adjoint[primal] = LastResult(b), !.fresh = @ + 1]
       IN  summed(Emit(ctx.b, "sc_high.add", << ctx.adjoint[primal], grad >>,
                       Out(IdOf(ctx.b, primal) \o ".grad_acc" \o ToString(ctx.fresh),
                           ShapeOf(ctx.b, grad)), NoAttrs))

\* Emit1: an adjoint operation whose result is shaped and named after `like`.
Emit1(ctx, mn, in, like, at) ==
  [ctx EXCEPT !.b = Emit(@, mn, in,
                         Out(IdOf(@, like) \o ".d" \o ToString(ctx.fresh),
                             ShapeOf(@, like)), at),
              !.fresh = @ + 1]

\* The adjoint operation of one operand, if that operand needs it.
Give(ctx, v, mn, in, at) ==
  LET to(e) == Accumulate(e, v, LastResult(e.b))
  IN  IF ~Needs(ctx, v) THEN ctx ELSE to(Emit1(ctx, mn, in, v, at))

Unsupported(ctx) == [ctx EXCEPT !.ok = FALSE]

Subset(at, keys) == [k \in keys \cap DOMAIN at |-> at[k]]

(***************************************************************************)
(* The rules.                                                              *)
(***************************************************************************)
AttentionRule(ctx, op, dout) ==
  LET q == op.in[1]  k == op.in[2]  v == op.in[3]  probs == op.out[2]
      geo == Subset(op.at, {"heads", "seq"})
      score == Needs(ctx, q) \/ Needs(ctx, k)
      tiledIn == << q, k, v, dout, probs >>
      \* The dQ pass leaves in the stats what the dK pass reads.
      tiledQ == IF score /\ ~Needs(ctx, q)
                THEN Emit1(ctx, "sc_low.attn_dq_tiled", tiledIn, q, geo)
                ELSE Give(ctx, q, "sc_low.attn_dq_tiled", tiledIn, geo)
      tiledK == Give(tiledQ, k, "sc_low.attn_dk_tiled", tiledIn, geo)
      dQK(ds, dsv) == Give(Give(ds, q, "sc_low.attn_dq", << dsv, k >>, geo),
                           k, "sc_low.attn_dk", << dsv, q >>, geo)
      dS(dp) == Emit1(dp, "sc_low.softmax_rows_grad", << probs, LastResult(dp.b) >>, probs, geo)
      back(ds) == dQK(ds, LastResult(ds.b))
      dV == Give(ctx, v, "sc_low.attn_dv", << probs, dout >>, geo)
  IN  IF "tiled" \in DOMAIN op.at
      THEN Give(tiledK, v, "sc_low.attn_dv_tiled", tiledIn, geo)
      ELSE IF ~score THEN dV
      ELSE back(dS(Emit1(dV, "sc_low.attn_dp", << dout, v >>, probs, geo)))

\* The name of a one-operand operation's own adjoint kernel.
GradKernel(op) == "sc_low." \o SubSeq(op.mn, 9, Len(op.mn)) \o "_grad"

\* Products and sums: each operand receives what flows to it, if it needs it.
ArithmeticRule(ctx, op, dy) ==
  LET x == op.in[1]  y == op.in[2]
  IN  CASE op.mn = "sc_high.matmul" ->
             Give(Give(ctx, x, "sc_low.matmul_nt", << dy, y >>, NoAttrs),
                  y, "sc_low.matmul_tn", << x, dy >>, NoAttrs)
        [] op.mn = "sc_high.add" -> Accumulate(Accumulate(ctx, x, dy), y, dy)
        [] op.mn = "sc_high.add_bias" ->
             Give(Accumulate(ctx, x, dy), y, "sc_low.reduce_rows", << dy >>, NoAttrs)
        [] op.mn = "sc_high.mul" ->
             Give(Give(ctx, x, "sc_low.mul", << dy, y >>, NoAttrs),
                  y, "sc_low.mul", << dy, x >>, NoAttrs)
        [] OTHER ->                           \* relu, gelu, silu
             Give(ctx, x, GradKernel(op), << dy, x >>, NoAttrs)

\* Only dX: a trainable gamma or beta is refused.
NormRule(ctx, op, dy) ==
  LET affine == {op.in[i] : i \in 2..Len(op.in)}
  IN  IF affine \cap ctx.needs # {} THEN Unsupported(ctx)
      ELSE Give(ctx, op.in[1], GradKernel(op),
                << dy, op.in[1], op.in[2] >> \o Tail(op.out), NoAttrs)

\* The transpose rotation reads the same angle table, when there is one.
RopeRule(ctx, op, dy) ==
  Give(ctx, op.in[1], GradKernel(op), << dy >> \o Tail(op.in),
       Subset(op.at, {"heads", "seq", "base"}))

\* No loss is differentiated towards its labels, its target or its teacher.
LossRule(ctx, op, seed) ==
  LET x == op.in[1]  y == op.in[2]
  IN  CASE op.mn = "sc_high.scale" ->
             Give(ctx, x, "sc_low.scale", << seed >>, Subset(op.at, {"alpha"}))
        [] op.mn = "sc_high.softmax_xent" ->
             Give(ctx, x, GradKernel(op), << op.out[2], y, seed >>, NoAttrs)
        [] op.mn = "sc_high.mse" /\ ~Needs(ctx, y) ->
             Give(ctx, x, GradKernel(op), << x, y, seed >>, NoAttrs)
        [] op.mn = "sc_high.kl_distill" /\ ~Needs(ctx, y) ->
             Give(ctx, x, "sc_low.kl_grad", << op.out[2], op.out[3], seed >>,
                  Subset(op.at, {"temperature", "loss_scale"}))
        [] OTHER -> Unsupported(ctx)

Rule(ctx, op) ==
  LET dy == GradOf(ctx, op.out[1])
      high(names) == op.mn \in {"sc_high." \o n : n \in names}
  IN  CASE high({"matmul", "add", "add_bias", "relu", "gelu", "silu", "mul"}) ->
             ArithmeticRule(ctx, op, dy)
        [] high({"layer_norm", "rms_norm"}) -> NormRule(ctx, op, dy)
        [] high({"rope"}) -> RopeRule(ctx, op, dy)
        [] high({"attention"}) -> AttentionRule(ctx, op, dy)
        [] OTHER -> LossRule(ctx, op, dy)

(***************************************************************************)
(* TrainableAutodiff::Run.                                                 *)
(***************************************************************************)
AnyNeeded(needs, op) == \E i \in DOMAIN op.in : op.in[i] \in needs

NeedsGrad(b, trainables) ==
  Walk(LAMBDA needs, op : IF AnyNeeded(needs, op)
                          THEN needs \cup {op.out[i] : i \in DOMAIN op.out}
                          ELSE needs,
       {trainables[i] : i \in DOMAIN trainables}, b.ops)

Backstep(ctx, op) ==
  IF ~ctx.ok \/ IsMemoryOp(op) \/ op.out = << >> \/ GradOf(ctx, op.out[1]) = 0
       \/ ~AnyNeeded(ctx.needs, op)
  THEN ctx ELSE Rule(ctx, op)

\* From the loss's seed backwards over the operations there were.
SweepBack(seeded, needs, loss) ==
  LET n == Len(seeded.ops)
  IN  Walk(LAMBDA ctx, i : Backstep(ctx, seeded.ops[n + 1 - i]),
           [ok |-> TRUE, b |-> seeded, needs |-> needs,
            adjoint |-> loss :> LastResult(seeded), fresh |-> 0],
           [i \in 1..n |-> i])
Backward(b, loss, trainables, seed) ==
  LET needs == NeedsGrad(b, trainables)
      params == {trainables[i] : i \in DOMAIN trainables}
      swept(end) ==
        IF ~end.ok \/ ~(params \subseteq DOMAIN end.adjoint)
        THEN [ok |-> FALSE, b |-> end.b, grads |-> NoAttrs]
        ELSE [ok |-> TRUE, b |-> end.b, grads |-> [p \in params |-> end.adjoint[p]]]
  IN  IF trainables = << >> \/ loss \notin needs
      THEN [ok |-> FALSE, b |-> b, grads |-> NoAttrs]
      ELSE swept(SweepBack(Emit(b, "sc_low.fill", << >>,
                             Out(IdOf(b, loss) \o ".seed", ShapeOf(b, loss)),
                             [value |-> seed]),
                        needs, loss))

(***************************************************************************)
(* OptimizerSynthesizer::Run.  The parameters are taken in the order of    *)
(* their creation (the code sorts them by id: one fixed order).            *)
(***************************************************************************)
StateParam(b, p, suffix) ==
  Emit(b, "sc_mem.param", << >>, Out(IdOf(b, p) \o suffix, ShapeOf(b, p)),
       ParamAttrs(0, "zeros", 0))

Fold(st, pg) ==
  LET into(declared, acc) ==
        [b |-> Emit(declared, "sc_low.accumulate", << acc, pg[2] >>, << >>, NoAttrs),
         steps |-> Append(st.steps, << pg[1], acc >>)]
      declare(declared) == into(declared, LastResult(declared))
  IN  declare(StateParam(st.b, pg[1], ".grad_acc"))

Step(b, pg, opt, accumulate) ==
  LET p == pg[1]  g == pg[2]
      fused == opt.fuse_clip /\ opt.clip_norm > 0
      clipped == IF opt.clip_norm > 0 /\ ~fused
                 THEN Emit(b, "sc_low.clip_norm", << g >>, << >>,
                           [max_norm |-> opt.clip_norm])
                 ELSE b
      at == IF fused THEN [clip_norm |-> opt.clip_norm] ELSE NoAttrs
      m == StateParam(clipped, p, ".adam_m")
      v == StateParam(m, p, ".adam_v")
      stepped == IF opt.kind = "sgd"
                 THEN Emit(clipped, "sc_low.sgd_step", << p, g >>, << >>, at)
                 ELSE Emit(v, "sc_low.adamw_step",
                           << p, g, LastResult(m), LastResult(v) >>, << >>, at)
  IN  IF accumulate THEN Emit(stepped, "sc_low.zero", << g >>, << >>, NoAttrs)
      ELSE stepped

SynthesizeOptimizer(b, params, grads, opt, accum, emitStep) ==
  LET pairs == Tuple([i \in DOMAIN params |-> << params[i], grads[params[i]] >>])
      stepped(folded) ==
        IF ~emitStep THEN folded.b
        ELSE Walk(LAMBDA acc, pg : Step(acc, pg, opt, accum > 1), folded.b, folded.steps)
  IN  stepped(IF accum > 1 THEN Walk(Fold, [b |-> b, steps |-> << >>], pairs)
              ELSE [b |-> b, steps |-> pairs])
=============================================================================
