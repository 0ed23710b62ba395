------------------------------ MODULE Kernels ------------------------------
(***************************************************************************)
(* What each kernel of src/runtime/executor computes, over the field of    *)
(* the integers modulo P in place of the floats.  A tensor is the flat     *)
(* sequence of its elements, row-major, and every kernel takes the extents *)
(* its code takes, so a swapped operand, a transposed read or a wrong      *)
(* extent changes the numbers.  The laws the compiler relies on (matrix    *)
(* algebra, sums, products) are exact in the field; what is not a law of a *)
(* ring - exp, log, tanh, 1/sqrt, a maximum, rounding a weight to int8 or  *)
(* bf16 - is a fixed but meaningless function of its argument, and its     *)
(* derivative is the one its backward kernel states.  Chunking over the    *)
(* threads is WorkerPool's subject and is left out here.                   *)
(***************************************************************************)
EXTENDS Sir

P == 1009

N(x) == x % P
Mul(x, y) == (x * y) % P
\* A fixed function of x with no algebraic meaning, one for each tag.
Opaque(tag, x) == N(Mul(Mul(x, x), x + tag) + 7 * tag * x + 11 * tag + 5)
\* The multiplicative inverse, x^(P-2); 0 for 0.
Inverse0(x) ==
  LET pow[e \in 0..(P - 2)] ==
        IF e = 0 THEN 1
        ELSE LET h == << pow[e \div 2] >>
             IN  IF e % 2 = 0 THEN Mul(h[1], h[1]) ELSE Mul(Mul(h[1], h[1]), x)
  IN  pow[P - 2]
\* 1/n for the small extents the kernels divide by.
SmallInverse == << 1, 505, 673, 757, 202, 841, 865, 883, 897, 101, 367, 925, 621,
                   937, 740, 946 >>
ASSUME InverseAssumption == \A n \in DOMAIN SmallInverse : Mul(n, SmallInverse[n]) = 1
Recip(n) == SmallInverse[n]

Sum(n, F(_)) ==
  LET s[k \in 0..n] == IF k = 0 THEN 0 ELSE s[k - 1] + F(k - 1) IN N(s[n])

\* The tensor of n elements whose e-th (from 0) is F(e).
Flat(n, F(_)) == Tuple([e \in 1..n |-> F(e - 1)])
At(t, e) == t[e + 1]
Zeros(n) == Flat(n, LAMBDA e : 0)
None == << >>

(* ---- kernel_policy.h, activation.cc ---- *)
ActTag == [relu |-> 1, gelu |-> 2, silu |-> 3]
ActExpr(act, x) ==
  IF act = "none" THEN x ELSE Opaque(ActTag[act], x)
\* The derivative of Opaque, which the backward kernels evaluate at x.
ActSlope(act, x) ==
  LET t == ActTag[act] IN N(3 * Mul(x, x) + 2 * Mul(t, x) + 7 * t)
ActFwd(act, x, n) == Flat(n, LAMBDA e : ActExpr(act, At(x, e)))
ActBwd(act, dy, x, n) ==
  Flat(n, LAMBDA e : Mul(At(dy, e), ActSlope(act, At(x, e))))

(* ---- gemm.cc ---- *)
\* act(A @ B + bias) + addend: the plain product, the fused epilogue and the
\* fused addend are one kernel with its optional parts absent.
Epilogue(c, i, j, n, bias, act, addend) ==
  N(ActExpr(act, N(c + (IF bias = None THEN 0 ELSE At(bias, j))))
    + (IF addend = None THEN 0 ELSE At(addend, i * n + j)))
GemmNN(a, b, m, n, k, bias, act, addend) ==
  Flat(m * n, LAMBDA e :
    LET i == e \div n  j == e % n
    IN  Epilogue(Sum(k, LAMBDA l : Mul(At(a, i * k + l), At(b, l * n + j))),
                 i, j, n, bias, act, addend))
\* B is stored [n, k] and read transposed.
GemmNT(a, b, m, n, k, addend) ==
  Flat(m * n, LAMBDA e :
    LET i == e \div n  j == e % n
    IN  Epilogue(Sum(k, LAMBDA l : Mul(At(a, i * k + l), At(b, j * k + l))),
                 i, j, n, None, "none", addend))
\* A is stored [k, m] and read transposed.
GemmTN(a, b, m, n, k, addend) ==
  Flat(m * n, LAMBDA e :
    LET i == e \div n  j == e % n
    IN  Epilogue(Sum(k, LAMBDA l : Mul(At(a, l * m + i), At(b, l * n + j))),
                 i, j, n, None, "none", addend))
GemmAccNN(c, a, b, m, n, k, alpha) ==
  LET ab == GemmNN(a, b, m, n, k, None, "none", None)
  IN  Flat(m * n, LAMBDA e : N(At(c, e) + Mul(alpha, At(ab, e))))

\* Storage of a frozen weight [k, n] narrower than f32: int8 with one scale per
\* column, or bf16.  Rounding keeps no algebraic law.
ColumnScale(w, k, n) ==
  Flat(n, LAMBDA j : Opaque(21, Sum(k, LAMBDA i : At(w, i * n + j))))
QuantizeQ8(w, k, n) ==
  LET s == ColumnScale(w, k, n)
  IN  Flat(k * n, LAMBDA e : Opaque(22, N(At(w, e) + At(s, e % n))))
RoundBF16(w, k, n) == Flat(k * n, LAMBDA e : Opaque(23, At(w, e)))
\* The weight the int8 kernels compute with.
Dequantized(q, s, k, n) == Flat(k * n, LAMBDA e : Mul(At(q, e), At(s, e % n)))
\* The scale multiplies a finished column of C; in the transposed product it
\* multiplies A's columns, which run along the weight's columns.
GemmNNQ8(a, q, s, m, n, k, act) ==
  Flat(m * n, LAMBDA e :
    LET i == e \div n  j == e % n
    IN  ActExpr(act, Mul(At(s, j),
          Sum(k, LAMBDA l : Mul(At(a, i * k + l), At(q, l * n + j))))))
GemmNTQ8(a, q, s, m, n, k) ==
  LET scaled == Flat(m * k, LAMBDA e : Mul(At(a, e), At(s, e % k)))
  IN  GemmNT(scaled, q, m, n, k, None)

(* ---- elementwise.cc ---- *)
AddEW(x, y, n) == Flat(n, LAMBDA e : N(At(x, e) + At(y, e)))
MulEW(x, y, n) == Flat(n, LAMBDA e : Mul(At(x, e), At(y, e)))
AddBias(x, b, rows, cols) ==
  Flat(rows * cols, LAMBDA e : N(At(x, e) + At(b, e % cols)))
Scale(x, alpha, n) == Flat(n, LAMBDA e : Mul(alpha, At(x, e)))
ReduceRows(dy, rows, cols) ==
  Flat(cols, LAMBDA c : Sum(rows, LAMBDA r : At(dy, r * cols + c)))
EmbedFwd(tokens, table, rows, dim) ==
  Flat(rows * dim, LAMBDA e : At(table, At(tokens, e \div dim) * dim + (e % dim)))
Fill(value, n) == Flat(n, LAMBDA e : value)

\* One stage of a fused chain over the running value v; the other operand of a
\* binary stage is others[arg], on the left when the run is its right operand.
FusedStage(stage, v, e, others, imm) ==
  CASE stage.kind = "add"   -> N(v + At(others[stage.arg], e))
    [] stage.kind = "mul"   -> Mul(v, At(others[stage.arg], e))
    [] stage.kind = "scale" -> Mul(imm[stage.arg + 1], v)
    [] OTHER                -> ActExpr(stage.kind, v)
FusedMap(x, others, n, stages, imm) ==
  Flat(n, LAMBDA e :
    Walk(LAMBDA v, st : FusedStage(st, v, e, others, imm), At(x, e), stages))

(* ---- normalization.cc ---- *)
Rstd(eps, v) == Opaque(31 + eps, v)
RowMean(x, r, cols) == Mul(Recip(cols), Sum(cols, LAMBDA c : At(x, r * cols + c)))
LayerNormStats(x, rows, cols, eps) ==
  LET mean == Flat(rows, LAMBDA r : RowMean(x, r, cols))
      d(r, c) == N(At(x, r * cols + c) - At(mean, r))
  IN  [mean |-> mean,
       rstd |-> Flat(rows, LAMBDA r :
                  Rstd(eps, Mul(Recip(cols),
                    Sum(cols, LAMBDA c : Mul(d(r, c), d(r, c))))))]
LayerNormFwd(x, gamma, beta, st, rows, cols) ==
  Flat(rows * cols, LAMBDA e :
    LET r == e \div cols  c == e % cols
    IN  N(Mul(Mul(At(x, e) - At(st.mean, r), At(st.rstd, r)), At(gamma, c))
          + At(beta, c)))
LayerNormBwd(dy, x, gamma, mean, rstd, rows, cols) ==
  LET xhat(r, c) == Mul(At(x, r * cols + c) - At(mean, r), At(rstd, r))
      g(r, c) == Mul(At(dy, r * cols + c), At(gamma, c))
      mg == Flat(rows, LAMBDA r : Mul(Recip(cols), Sum(cols, LAMBDA c : g(r, c))))
      mgx == Flat(rows, LAMBDA r : Mul(Recip(cols),
                     Sum(cols, LAMBDA c : Mul(g(r, c), xhat(r, c)))))
  IN  Flat(rows * cols, LAMBDA e :
        LET r == e \div cols  c == e % cols
        IN  Mul(At(rstd, r),
                N(g(r, c) - At(mg, r) - Mul(xhat(r, c), At(mgx, r)))))
RmsNormRstd(x, rows, cols, eps) ==
  Flat(rows, LAMBDA r : Rstd(eps, Mul(Recip(cols),
    Sum(cols, LAMBDA c : Mul(At(x, r * cols + c), At(x, r * cols + c))))))
RmsNormFwd(x, gamma, rstd, rows, cols) ==
  Flat(rows * cols, LAMBDA e :
    Mul(Mul(At(x, e), At(rstd, e \div cols)), At(gamma, e % cols)))
RmsNormBwd(dy, x, gamma, rstd, rows, cols) ==
  LET mgx == Flat(rows, LAMBDA r : Mul(Recip(cols), Sum(cols, LAMBDA c :
               Mul(Mul(At(dy, r * cols + c), At(gamma, c)), At(x, r * cols + c)))))
  IN  Flat(rows * cols, LAMBDA e :
        LET r == e \div cols  rs == At(rstd, r)
        IN  Mul(rs, N(Mul(At(dy, e), At(gamma, e % cols))
                      - Mul(Mul(At(x, e), Mul(rs, rs)), At(mgx, r)))))

(* ---- loss.cc ---- *)
Exp(x) == Opaque(41, x)
Log(x) == Opaque(42, x)
\* The stabilizer of a softmax row; any function of the row will do.
RowMax(row) == Opaque(43, Sum(Len(row), LAMBDA c : At(row, c)))
SoftmaxRow(row) ==
  LET m == RowMax(row)
      e == Flat(Len(row), LAMBDA c : Exp(N(At(row, c) - m)))
      inv == Inverse0(Sum(Len(row), LAMBDA c : At(e, c)))
  IN  Flat(Len(row), LAMBDA c : Mul(At(e, c), inv))
RowOf(x, r, cols, f) == Flat(cols, LAMBDA c : Mul(f, At(x, r * cols + c)))
RowSoftmax(logits, n, c, inv_T) ==
  Walk(LAMBDA acc, r : acc \o SoftmaxRow(RowOf(logits, r, c, inv_T)),
       << >>, [r \in 1..n |-> r - 1])

SoftmaxXEntFwd(probs, labels, n, c) ==
  << Mul(N(-Recip(n)), Sum(n, LAMBDA r : Log(At(probs, r * c + At(labels, r))))) >>
SoftmaxXEntBwd(probs, labels, seed, n, c) ==
  LET scale == Mul(At(seed, 0), Recip(n))
  IN  Flat(n * c, LAMBDA e :
        N(Mul(scale, At(probs, e))
          - (IF e % c = At(labels, e \div c) THEN scale ELSE 0)))
MseFwd(pred, target, n) ==
  << Mul(Recip(n), Sum(n, LAMBDA e : Mul(N(At(pred, e) - At(target, e)),
                                         N(At(pred, e) - At(target, e))))) >>
MseBwd(pred, target, seed, n) ==
  LET scale == Mul(2 * At(seed, 0), Recip(n))
  IN  Flat(n, LAMBDA e : Mul(scale, N(At(pred, e) - At(target, e))))
KLDistillFwd(ps, pt, n, c, loss_scale) ==
  << Mul(loss_scale, Mul(Recip(n), Sum(n * c, LAMBDA e :
       Mul(At(pt, e), N(Log(At(pt, e)) - Log(At(ps, e))))))) >>
KLDistillBwd(ps, pt, seed, n, c, T, loss_scale) ==
  LET scale == Mul(Mul(At(seed, 0), loss_scale), Mul(Recip(n), Recip(T)))
  IN  Flat(n * c, LAMBDA e : Mul(scale, N(At(ps, e) - At(pt, e))))

(* ---- attention.cc: batch B, sequence S, heads H, head width d ---- *)
InvSqrt(d) == Opaque(51, d)
Unit(u, H, S) == [b |-> u \div (H * S), h |-> (u \div S) % H, i |-> u % S]
\* Where element c of position i of head h of batch b lives in [B*S, H*d].
Cell(b, h, i, c, S, H, d) == (b * S + i) * (H * d) + h * d + c
DotAt(x, y, bx, hx, ix, iy, S, H, d) ==
  Sum(d, LAMBDA c : Mul(At(x, Cell(bx, hx, ix, c, S, H, d)),
                        At(y, Cell(bx, hx, iy, c, S, H, d))))
Score(q, k, b, h, i, j, S, H, d) ==
  Mul(DotAt(q, k, b, h, i, j, S, H, d), InvSqrt(d))
\* The causal score row of one query: positions 0..i.
ScoreRow(q, k, u, S, H, d) ==
  LET w == Unit(u, H, S)
  IN  Flat(w.i + 1, LAMBDA j : Score(q, k, w.b, w.h, w.i, j, S, H, d))
AttnProbs(q, k, B, S, H, d) ==
  Walk(LAMBDA acc, u :
         acc \o SoftmaxRow(ScoreRow(q, k, u, S, H, d)) \o Zeros(S - 1 - (u % S)),
       << >>, [u \in 1..(B * H * S) |-> u - 1])
\* The element (row, c) of a [B*S, H*d] tensor and its unit.
UnitAt(e, S, H, d) ==
  LET r == e \div (H * d)
  IN  [b |-> r \div S, h |-> (e % (H * d)) \div d, i |-> r % S, c |-> e % d]
ProbAt(probs, b, h, i, j, S, H) == At(probs, ((b * H + h) * S + i) * S + j)
AttnOut(probs, v, B, S, H, d) ==
  Flat(B * S * H * d, LAMBDA e : LET w == UnitAt(e, S, H, d) IN
    Sum(w.i + 1, LAMBDA j : Mul(ProbAt(probs, w.b, w.h, w.i, j, S, H),
                                At(v, Cell(w.b, w.h, j, w.c, S, H, d)))))
AttnDP(dout, v, B, S, H, d) ==
  Flat(B * H * S * S, LAMBDA e :
    LET w == Unit(e \div S, H, S)  j == e % S
    IN  IF j > w.i THEN 0 ELSE DotAt(dout, v, w.b, w.h, w.i, j, S, H, d))
AttnDV(probs, dout, B, S, H, d) ==
  Flat(B * S * H * d, LAMBDA e : LET w == UnitAt(e, S, H, d) IN
    Sum(S - w.i, LAMBDA x : Mul(ProbAt(probs, w.b, w.h, w.i + x, w.i, S, H),
                                At(dout, Cell(w.b, w.h, w.i + x, w.c, S, H, d)))))
SoftmaxRowsBwd(probs, dp, rows, cols) ==
  LET dot == Flat(rows, LAMBDA r : Sum(cols, LAMBDA c :
               Mul(At(dp, r * cols + c), At(probs, r * cols + c))))
  IN  Flat(rows * cols, LAMBDA e :
        Mul(At(probs, e), N(At(dp, e) - At(dot, e \div cols))))
AttnDQ(ds, k, B, S, H, d) ==
  Flat(B * S * H * d, LAMBDA e : LET w == UnitAt(e, S, H, d) IN
    Sum(w.i + 1, LAMBDA j : Mul(Mul(ProbAt(ds, w.b, w.h, w.i, j, S, H), InvSqrt(d)),
                                At(k, Cell(w.b, w.h, j, w.c, S, H, d)))))
AttnDK(ds, q, B, S, H, d) ==
  Flat(B * S * H * d, LAMBDA e : LET w == UnitAt(e, S, H, d) IN
    Sum(S - w.i, LAMBDA x :
      Mul(Mul(ProbAt(ds, w.b, w.h, w.i + x, w.i, S, H), InvSqrt(d)),
          At(q, Cell(w.b, w.h, w.i + x, w.c, S, H, d)))))

\* The tiled family keeps, per query, a stats row [max, 1/denominator, delta, 0]
\* in place of the probabilities, and recomputes them.
kAttnStatsWidth == 4
AttnStats(q, k, B, S, H, d) ==
  LET row(u) == ScoreRow(q, k, u, S, H, d)
  IN  Walk(LAMBDA acc, u : LET rr == row(u)  mm == RowMax(rr) IN
             acc \o << mm, Inverse0(Sum(Len(rr), LAMBDA j : Exp(N(At(rr, j) - mm)))),
                       0, 0 >>,
           << >>, [u \in 1..(B * H * S) |-> u - 1])
\* The probabilities a tiled pass recomputes from the stats rows.
TiledProbs(q, k, stats, B, S, H, d) ==
  Flat(B * H * S * S, LAMBDA e :
    LET u == e \div S  j == e % S  w == Unit(u, H, S)
    IN  IF j > w.i THEN 0
        ELSE Mul(Exp(N(Score(q, k, w.b, w.h, w.i, j, S, H, d)
                       - At(stats, u * kAttnStatsWidth))),
                 At(stats, u * kAttnStatsWidth + 1)))
\* The dQ pass leaves each query's delta, the row sum of dP * P, in its stats.
AttnDelta(stats, probs, dp, B, S, H) ==
  Flat(Len(stats), LAMBDA e :
    LET u == e \div kAttnStatsWidth
    IN  IF e % kAttnStatsWidth # 2 THEN At(stats, e)
        ELSE Sum(S, LAMBDA j : Mul(At(dp, u * S + j), At(probs, u * S + j))))
\* dS as the dK pass forms it: with the delta it finds in the stats.
TiledDS(stats, probs, dp, B, S, H) ==
  Flat(B * H * S * S, LAMBDA e :
    Mul(At(probs, e),
        N(At(dp, e) - At(stats, (e \div S) * kAttnStatsWidth + 2))))

\* RoPE: the angle of position s, pair c; the same whether hoisted or computed.
Cos(s, c, base) == Opaque(61 + base, 3 * s + c)
Sin(s, c, base) == Opaque(71 + base, 3 * s + c)
RopeTable(S, d, base) ==
  Flat(S * (d \div 2) * 2, LAMBDA e :
    LET s == e \div ((d \div 2) * 2)  c == e % ((d \div 2) * 2)
    IN  IF c % 2 = 0 THEN Cos(s, c \div 2, base) ELSE Sin(s, c \div 2, base))
Rotate(x, B, S, H, d, table, backward) ==
  Flat(B * S * H * d, LAMBDA e :
    LET w == UnitAt(e, S, H, d)
        p == 2 * (w.c \div 2)
        cs == At(table, w.i * (d \div 2) * 2 + p)
        sn == At(table, w.i * (d \div 2) * 2 + p + 1)
        a == At(x, Cell(w.b, w.h, w.i, p, S, H, d))
        b == At(x, Cell(w.b, w.h, w.i, p + 1, S, H, d))
        sign == IF backward THEN N(-sn) ELSE sn
    IN  IF w.c = p THEN N(Mul(a, cs) - Mul(b, sign))
        ELSE N(Mul(a, sign) + Mul(b, cs)))

(* ---- optimizer.cc ---- *)
\* The factor a clip multiplies the gradient by; 1 when no clipping is asked.
ClipScale(g, n, max_norm) ==
  IF max_norm = 0 THEN 1
  ELSE Opaque(81 + max_norm, Sum(n, LAMBDA e : Mul(At(g, e), At(g, e))))
SgdStep(p, g, n, lr, wd, max_norm) ==
  LET s == ClipScale(g, n, max_norm)
  IN  Flat(n, LAMBDA e :
        N(At(p, e) - Mul(lr, Mul(At(g, e), s) + Mul(wd, At(p, e)))))
AdamWStep(p, g, m, v, n, step, lr, wd, max_norm) ==
  LET s == ClipScale(g, n, max_norm)
      b1 == 3  b2 == 5
      m2 == Flat(n, LAMBDA e : N(Mul(b1, At(m, e)) + Mul(1 - b1, Mul(At(g, e), s))))
      v2 == Flat(n, LAMBDA e : N(Mul(b2, At(v, e)) + Mul(1 - b2,
                                   Mul(Mul(At(g, e), s), Mul(At(g, e), s)))))
  IN  [p |-> Flat(n, LAMBDA e :
               N(At(p, e) - Mul(lr, Mul(Mul(At(m2, e), Opaque(91, step)),
                                        Opaque(92, N(At(v2, e) + step)))
                                    + Mul(wd, At(p, e))))),
       m |-> m2, v |-> v2]
=============================================================================
