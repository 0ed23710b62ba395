----------------------------- MODULE Footprint -----------------------------
(***************************************************************************)
(* The resource analyzer (compiler/frontend/accountant): what the driver   *)
(* believes a model needs before it compiles it, and the gate that refuses *)
(* one that cannot fit.  The code saturates its sums; the sizes here stay  *)
(* far below a word.  A filter is the set of weight names it matches.      *)
(***************************************************************************)
EXTENDS Frontend

FloatBytes == 4
StatsFloats == 4   \* kAttnStatsWidth

NoFootprint == [weights |-> 0, activations |-> 0, deltas |-> 0, probs |-> 0, stats |-> 0]
Total(fp) == fp.weights + fp.activations + fp.deltas + fp.probs
Together(x, y) == [k \in DOMAIN x |-> x[k] + y[k]]

TensorBytes(t) == Volume(t.dims) * FloatBytes

\* The width and the row count the walk knows of a name, 0 and `rows` when none.
SeedOf(t, rows) ==
  LET n == Len(t.dims)
  IN  [width |-> IF n > 0 /\ t.dims[n] > 0 THEN t.dims[n] ELSE 0,
       rows |-> IF ~t.const THEN rows
                ELSE IF n >= 2 /\ t.dims[1] > 0 THEN t.dims[1] ELSE 1]
Known(st, name, rows) ==
  IF name \in DOMAIN st.known THEN st.known[name] ELSE [width |-> 0, rows |-> rows]

\* A training run caches every activation, so they are summed; a frozen forward
\* lets each die at its reader, so the widest one counts.
Charge(fp, bytes, sum) ==
  [fp EXCEPT !.activations = IF sum THEN @ + bytes ELSE IF bytes > @ THEN bytes ELSE @]

ChargeOp(st, m, op, rows, sum) ==
  LET first == Known(st, op.inputs[1], rows)
      second == FindTensor(m, op.inputs[2]).dims
      projects == op.kind \in {"matmul", "embedding"}
      w == IF ~projects THEN first.width
           ELSE IF Len(op.inputs) = 2 /\ Len(second) = 2 THEN second[2] ELSE 0
      r == first.rows
      normed == CASE op.kind = "layer_norm" -> Charge(st.fp, 2 * FloatBytes * r, sum)
                  [] op.kind = "rms_norm" -> Charge(st.fp, FloatBytes * r, sum)
                  [] OTHER -> st.fp
      rowsHeads == r * op.heads
      cache == rowsHeads * m.seq_len * FloatBytes
      cached == IF op.kind # "attention" THEN normed
                ELSE IF sum THEN [normed EXCEPT !.probs = @ + cache,
                                    !.stats = @ + rowsHeads * StatsFloats * FloatBytes]
                ELSE Charge(normed, cache, sum)
  IN  IF w = 0 THEN [st EXCEPT !.fp = cached]
      ELSE [known |-> (op.output :> [width |-> w, rows |-> r]) @@ st.known,
            fp |-> Charge(cached, r * w * FloatBytes, sum)]

EstimateFootprint(m, rows, sum) ==
  LET weights == Walk(LAMBDA n, t : n + (IF t.const THEN TensorBytes(t) ELSE 0),
                      0, m.tensors)
      seeds == Walk(LAMBDA k, t : (t.name :> SeedOf(t, rows)) @@ k,
                    [x \in {} |-> 0], m.tensors)
  IN  Walk(LAMBDA st, op : ChargeOp(st, m, op, rows, sum),
           [known |-> seeds, fp |-> [NoFootprint EXCEPT !.weights = weights]], m.ops).fp

EstimateTrainingFootprint(m, batch) == EstimateFootprint(m, batch, TRUE)
EstimateFrozenForwardFootprint(m, batch) == EstimateFootprint(m, batch, FALSE)

\* The tensors read only as the right-hand side of products.
WeightOnly(m, name) ==
  /\ \E i \in DOMAIN m.ops : name \in Ingoing(m.ops[i])
  /\ \A i \in DOMAIN m.ops : \A s \in DOMAIN m.ops[i].inputs :
       m.ops[i].inputs[s] = name =>
         /\ m.ops[i].kind = "matmul" /\ Len(m.ops[i].inputs) = 2
         /\ s = 2 /\ m.ops[i].inputs[1] # name

EstimateLoraDeltaBytes(m, filters) ==
  LET adapted == SelectSeq(m.tensors, LAMBDA t :
        /\ t.const /\ Len(t.dims) = 2 /\ WeightOnly(m, t.name)
        /\ filters = << >> \/ \E f \in DOMAIN filters : t.name \in filters[f])
  IN  Walk(LAMBDA n, t : n + TensorBytes(t), 0, adapted)

\* 0 asks for the host's memory, which the model does not know.
FitsLocally(bytes, budget) == budget = 0 \/ bytes <= budget
=============================================================================
