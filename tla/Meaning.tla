------------------------------ MODULE Meaning ------------------------------
(***************************************************************************)
(* What a block computes, read straight off its operations: the reference  *)
(* every rewrite of a block and the lowered plan are held to.  An          *)
(* environment gives each value its tensor; `given` are the tensors of the *)
(* arguments, the parameters and the weights (a weight stored narrow is    *)
(* given as the kernels widen it).                                         *)
(*                                                                         *)
(* Tangents is the forward-mode derivative of the same block: the          *)
(* definition the backward program is held to.                             *)
(***************************************************************************)
EXTENDS Fusers

Geometry(b, op, act) ==
  LET s == ShapeOf(b, act)
  IN  [B |-> s[1] \div op.at.seq, S |-> op.at.seq,
       H |-> op.at.heads, d |-> s[2] \div op.at.heads]

\* The form of a product, whether it stands alone or took in the sum above it.
FormOf(op) == IF op.mn \in DOMAIN GemmForms THEN GemmForms[op.mn]
              ELSE op.at.gemm_addend
Product(b, op, form, x, y, bias, act, addend) ==
  LET c == ShapeOf(b, op.out[1])
      a == ShapeOf(b, x.v)
  IN  CASE form = "nn" -> GemmNN(x.t, y.t, c[1], c[2], a[2], bias, act, addend)
        [] form = "nt" -> GemmNT(x.t, y.t, c[1], c[2], a[2], addend)
        [] form = "tn" -> GemmTN(x.t, y.t, c[1], c[2], a[1], addend)

\* The tensors an operation's results hold.
Results(b, op, env) ==
  LET v(i) == op.in[i]
      x(i) == env[v(i)]
      arg(i) == [v |-> v(i), t |-> x(i)]
      dim(i, j) == ShapeOf(b, v(i))[j]
      odim(j) == ShapeOf(b, op.out[1])[j]
      n == Volume(ShapeOf(b, op.out[1]))
      alpha == Attr(op, "alpha", 1)
      eps == Attr(op, "eps", 0)
      g == Geometry(b, op, IF op.mn = "sc_low.attn_dp" THEN v(1)
                           ELSE IF op.mn = "sc_high.attention" THEN v(1) ELSE op.out[1])
      table == IF Len(op.in) > 1 THEN x(2) ELSE RopeTable(g.S, g.d, op.at.base)
      probs == AttnProbs(x(1), x(2), g.B, g.S, g.H, g.d)
      \* The tiled backward's operands are q, k, v, dO, stats.
      tp == TiledProbs(x(1), x(2), x(5), g.B, g.S, g.H, g.d)
      tds == TiledDS(x(5), tp, AttnDP(x(4), x(3), g.B, g.S, g.H, g.d), g.B, g.S, g.H)
      ps == RowSoftmax(x(1), dim(1, 1), dim(1, 2), 1)
      klT == Recip(op.at.temperature)
      kps == RowSoftmax(x(1), dim(1, 1), dim(1, 2), klT)
      kpt == RowSoftmax(x(2), dim(1, 1), dim(1, 2), klT)
  IN  CASE "fused_stages" \in DOMAIN op.at ->
             << FusedMap(x(1), Tuple([i \in 1..(Len(op.in) - 1) |-> x(i + 1)]), n,
                         op.at.fused_stages, op.at.fused_imm) >>
        [] "gemm_addend" \in DOMAIN op.at ->
             << Product(b, op, FormOf(op), arg(2), arg(3), None, "none", x(1)) >>
        [] op.mn \in DOMAIN GemmForms ->
             << Product(b, op, FormOf(op), arg(1), arg(2),
                        IF Len(op.in) = 3 THEN x(3) ELSE None,
                        Attr(op, "epilogue_act", "none"), None) >>
        [] op.mn = "sc_high.add" -> << AddEW(x(1), x(2), n) >>
        [] op.mn = "sc_high.add_bias" -> << AddBias(x(1), x(2), odim(1), odim(2)) >>
        [] op.mn \in Activations -> << ActFwd(Short(op), x(1), n) >>
        [] op.mn \in {"sc_low.relu_grad", "sc_low.gelu_grad", "sc_low.silu_grad"} ->
             << ActBwd(SubSeq(op.mn, 8, 11), x(1), x(2), n) >>
        [] op.mn \in {"sc_high.mul", "sc_low.mul"} -> << MulEW(x(1), x(2), n) >>
        [] op.mn \in {"sc_high.scale", "sc_low.scale"} -> << Scale(x(1), alpha, n) >>
        [] op.mn = "sc_low.reduce_rows" -> << ReduceRows(x(1), dim(1, 1), dim(1, 2)) >>
        [] op.mn = "sc_high.embedding" -> << EmbedFwd(x(1), x(2), odim(1), odim(2)) >>
        [] op.mn = "sc_high.layer_norm" ->
             LET st == LayerNormStats(x(1), odim(1), odim(2), eps)
             IN  << LayerNormFwd(x(1), x(2), x(3), st, odim(1), odim(2)), st.mean, st.rstd >>
        [] op.mn = "sc_low.layer_norm_grad" ->
             << LayerNormBwd(x(1), x(2), x(3), x(4), x(5), odim(1), odim(2)) >>
        [] op.mn = "sc_high.rms_norm" ->
             LET r == RmsNormRstd(x(1), odim(1), odim(2), eps)
             IN  << RmsNormFwd(x(1), x(2), r, odim(1), odim(2)), r >>
        [] op.mn = "sc_low.rms_norm_grad" ->
             << RmsNormBwd(x(1), x(2), x(3), x(4), odim(1), odim(2)) >>
        [] op.mn = "sc_high.rope" -> << Rotate(x(1), g.B, g.S, g.H, g.d, table, FALSE) >>
        [] op.mn = "sc_low.rope_grad" -> << Rotate(x(1), g.B, g.S, g.H, g.d, table, TRUE) >>
        [] op.mn = "sc_low.rope_table" ->
             << RopeTable(op.at.seq, op.at.width, op.at.base) >>
        [] op.mn = "sc_high.attention" ->
             << AttnOut(probs, x(3), g.B, g.S, g.H, g.d),
                IF "tiled" \in DOMAIN op.at
                THEN AttnStats(x(1), x(2), g.B, g.S, g.H, g.d) ELSE probs >>
        [] op.mn = "sc_low.attn_dp" -> << AttnDP(x(1), x(2), g.B, g.S, g.H, g.d) >>
        [] op.mn = "sc_low.attn_dv" -> << AttnDV(x(1), x(2), g.B, g.S, g.H, g.d) >>
        [] op.mn = "sc_low.softmax_rows_grad" -> << SoftmaxRowsBwd(x(1), x(2), odim(1), odim(2)) >>
        [] op.mn = "sc_low.attn_dq" -> << AttnDQ(x(1), x(2), g.B, g.S, g.H, g.d) >>
        [] op.mn = "sc_low.attn_dk" -> << AttnDK(x(1), x(2), g.B, g.S, g.H, g.d) >>
        [] op.mn = "sc_low.attn_dq_tiled" ->
             LET dp == AttnDP(x(4), x(3), g.B, g.S, g.H, g.d)
                 st == AttnDelta(x(5), tp, dp, g.B, g.S, g.H)
             IN  << AttnDQ(TiledDS(st, tp, dp, g.B, g.S, g.H), x(2), g.B, g.S, g.H, g.d) >>
        [] op.mn = "sc_low.attn_dk_tiled" -> << AttnDK(tds, x(1), g.B, g.S, g.H, g.d) >>
        [] op.mn = "sc_low.attn_dv_tiled" -> << AttnDV(tp, x(4), g.B, g.S, g.H, g.d) >>
        [] op.mn = "sc_high.softmax_xent" ->
             << SoftmaxXEntFwd(ps, x(2), dim(1, 1), dim(1, 2)), ps >>
        [] op.mn = "sc_low.softmax_xent_grad" ->
             << SoftmaxXEntBwd(x(1), x(2), x(3), odim(1), odim(2)) >>
        [] op.mn = "sc_high.mse" -> << MseFwd(x(1), x(2), Volume(ShapeOf(b, v(1)))) >>
        [] op.mn = "sc_low.mse_grad" -> << MseBwd(x(1), x(2), x(3), n) >>
        [] op.mn = "sc_high.kl_distill" ->
             << KLDistillFwd(kps, kpt, dim(1, 1), dim(1, 2), op.at.loss_scale), kps, kpt >>
        [] op.mn = "sc_low.kl_grad" ->
             << KLDistillBwd(x(1), x(2), x(3), odim(1), odim(2), op.at.temperature,
                             op.at.loss_scale) >>
        [] op.mn = "sc_low.fill" -> << Fill(op.at.value, n) >>
        [] OTHER -> << >>

\* The operands an operation rewrites, as << value, tensor >>.
Rewrites(b, op, env, hp) ==
  LET x(i) == env[op.in[i]]
      n == Len(x(1))
      clip == Attr(op, "clip_norm", 0)
      g == Geometry(b, op, op.in[1])
  IN  CASE op.mn = "sc_low.attn_dq_tiled" ->
             << << op.in[5], AttnDelta(x(5), TiledProbs(x(1), x(2), x(5), g.B, g.S, g.H, g.d),
                             AttnDP(x(4), x(3), g.B, g.S, g.H, g.d), g.B, g.S, g.H) >> >>
        [] op.mn = "sc_low.gemm_acc" ->
             << << op.in[3], GemmAccNN(x(3), x(1), x(2), ShapeOf(b, op.in[1])[1],
                             ShapeOf(b, op.in[2])[2], ShapeOf(b, op.in[1])[2], op.at.alpha) >> >>
        [] op.mn = "sc_low.accumulate" -> << << op.in[1], AddEW(x(1), x(2), n) >> >>
        [] op.mn = "sc_low.zero" -> << << op.in[1], Zeros(n) >> >>
        [] op.mn = "sc_low.clip_norm" ->
             << << op.in[1], Scale(x(1), ClipScale(x(1), n, op.at.max_norm), n) >> >>
        [] op.mn = "sc_low.sgd_step" ->
             << << op.in[1], SgdStep(x(1), x(2), n, hp.lr, hp.wd, clip) >> >>
        [] op.mn = "sc_low.adamw_step" ->
             LET r == AdamWStep(x(1), x(2), x(3), x(4), n, hp.step, hp.lr, hp.wd, clip)
             IN  << << op.in[1], r.p >>, << op.in[3], r.m >>, << op.in[4], r.v >> >>
        [] OTHER -> << >>

Put(env, pairs) == Walk(LAMBDA e, p : [e EXCEPT ![p[1]] = p[2]], env, pairs)

Environment(b, given) ==
  Tuple([v \in 1..Len(b.vals) |-> IF v \in DOMAIN given THEN given[v] ELSE None])

\* Running the operations `ops` of b in order.
After(b, op, env, results, hp) ==
  Put(env, Tuple([i \in DOMAIN results |-> << op.out[i], results[i] >>])
             \o Rewrites(b, op, env, hp))
RunOps(b, ops, env, hp) ==
  Walk(LAMBDA e, op : IF IsMemoryOp(op) THEN e ELSE After(b, op, e, Results(b, op, e), hp),
       env, ops)

(***************************************************************************)
(* Forward mode: the tangent of every value of the forward operations, for *)
(* a tangent of the parameters.                                            *)
(***************************************************************************)
Tangent(b, op, env, d) ==
  LET x(i) == env[op.in[i]]
      dx(i) == d[op.in[i]]
      s == ShapeOf(b, op.out[1])
      n == Volume(s)
      rows == s[1]   cols == s[2]
      in1 == ShapeOf(b, op.in[1])
      g == Geometry(b, op, op.in[1])
      table == IF Len(op.in) > 1 THEN x(2) ELSE RopeTable(g.S, g.d, op.at.base)
      \* A softmax's tangent, and the mean of f over each row.
      soft(p, dz, r, c) == Flat(r * c, LAMBDA e :
        Mul(At(p, e), N(At(dz, e) - Sum(c, LAMBDA j :
              Mul(At(p, (e \div c) * c + j), At(dz, (e \div c) * c + j))))))
      rowMean(f, c) == Flat(Len(f), LAMBDA e :
        Mul(Recip(c), Sum(c, LAMBDA j : At(f, (e \div c) * c + j))))
      dot(p, q) == Sum(Len(p), LAMBDA e : Mul(At(p, e), At(q, e)))
      scores == Flat(g.B * g.H * g.S * g.S, LAMBDA e :
        LET w == Unit(e \div g.S, g.H, g.S)  j == e % g.S
            at(p, q) == DotAt(p, q, w.b, w.h, w.i, j, g.S, g.H, g.d)
        IN  IF j > w.i THEN 0
            ELSE Mul(InvSqrt(g.d), at(dx(1), x(2)) + at(x(1), dx(2))))
      probs == AttnProbs(x(1), x(2), g.B, g.S, g.H, g.d)
      labelled == Flat(Len(x(1)), LAMBDA e :
        IF e % in1[2] = At(x(2), e \div in1[2]) THEN 1 ELSE 0)
  IN  CASE op.mn = "sc_high.matmul" ->
             AddEW(GemmNN(dx(1), x(2), rows, cols, in1[2], None, "none", None),
                   GemmNN(x(1), dx(2), rows, cols, in1[2], None, "none", None), n)
        [] op.mn = "sc_high.add" -> AddEW(dx(1), dx(2), n)
        [] op.mn = "sc_high.add_bias" -> AddBias(dx(1), dx(2), rows, cols)
        [] op.mn \in Activations -> ActBwd(Short(op), dx(1), x(1), n)
        [] op.mn = "sc_high.mul" -> AddEW(MulEW(dx(1), x(2), n), MulEW(x(1), dx(2), n), n)
        [] op.mn = "sc_high.scale" -> Scale(dx(1), op.at.alpha, n)
        [] op.mn = "sc_high.rms_norm" ->
             LET r == env[op.out[2]]
                 m == rowMean(MulEW(x(1), dx(1), n), cols)
             IN  Flat(n, LAMBDA e : LET rs == At(r, e \div cols) IN
                   Mul(At(x(2), e % cols),
                       N(Mul(rs, At(dx(1), e))
                         - Mul(Mul(rs, Mul(rs, rs)), Mul(At(x(1), e), At(m, e))))))
        [] op.mn = "sc_high.layer_norm" ->
             LET mu == env[op.out[2]]   r == env[op.out[3]]
                 c == Flat(n, LAMBDA e : N(At(x(1), e) - At(mu, e \div cols)))
                 dc == LET dm == rowMean(dx(1), cols)
                       IN  Flat(n, LAMBDA e : N(At(dx(1), e) - At(dm, e)))
                 m == rowMean(MulEW(c, dc, n), cols)
             IN  Flat(n, LAMBDA e : LET rs == At(r, e \div cols) IN
                   Mul(At(x(2), e % cols),
                       N(Mul(rs, At(dc, e))
                         - Mul(Mul(rs, Mul(rs, rs)), Mul(At(c, e), At(m, e))))))
        [] op.mn = "sc_high.rope" -> Rotate(dx(1), g.B, g.S, g.H, g.d, table, FALSE)
        [] op.mn = "sc_high.attention" ->
             AddEW(AttnOut(soft(probs, scores, g.B * g.H * g.S, g.S), x(3), g.B, g.S, g.H, g.d),
                   AttnOut(probs, dx(3), g.B, g.S, g.H, g.d), n)
        [] op.mn = "sc_high.softmax_xent" ->
             << Mul(Recip(in1[1]), dot(AddEW(env[op.out[2]], Scale(labelled, P - 1, Len(x(1))),
                                             Len(x(1))), dx(1))) >>
        [] op.mn = "sc_high.mse" ->
             << Mul(Mul(2, Recip(Len(x(1)))),
                    dot(AddEW(x(1), Scale(x(2), P - 1, Len(x(1))), Len(x(1))), dx(1))) >>
        [] op.mn = "sc_high.kl_distill" ->
             LET ps == env[op.out[2]]   pt == env[op.out[3]]
                 away == Flat(Len(ps), LAMBDA e : N(At(dx(1), e) - Sum(in1[2], LAMBDA j :
                           Mul(At(ps, (e \div in1[2]) * in1[2] + j),
                               At(dx(1), (e \div in1[2]) * in1[2] + j)))))
             IN  << N(-Mul(Mul(op.at.loss_scale, Recip(op.at.temperature)),
                           Mul(Recip(in1[1]), dot(pt, away)))) >>
        [] OTHER -> Zeros(n)

\* The tangent of the loss along `direction`, over the forward operations.
LossTangent(b, ops, env, direction, loss) ==
  LET start == Tuple([v \in 1..Len(b.vals) |->
                 IF v \in DOMAIN direction THEN direction[v]
                 ELSE Zeros(Volume(ShapeOf(b, v)))])
      one(d, op) == IF IsMemoryOp(op) THEN d
                    ELSE [d EXCEPT ![op.out[1]] = Tangent(b, op, env, d)]
  IN  At(Walk(one, start, ops)[loss], 0)
=============================================================================
