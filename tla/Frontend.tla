------------------------------ MODULE Frontend ------------------------------
(***************************************************************************)
(* From a model file to the forward graph: the graph check (sema.cc), the  *)
(* resolver that turns a tensor into a value at its first use              *)
(* (value_resolver.cc) and the parser that appends one operation per model *)
(* operation (parser.cc).                                                  *)
(*                                                                         *)
(* A model is [input, output, seq_len, tensors, ops]; a tensor is [name,   *)
(* dims, const] and an operation [kind, inputs, output, heads, base, eps]. *)
(* A dynamic dimension is -1.  An error is a result whose `ok` is FALSE.   *)
(***************************************************************************)
EXTENDS Sir

TensorNames(m) == {m.tensors[i].name : i \in DOMAIN m.tensors}
FindTensor(m, name) ==
  LET hits == SelectSeq(m.tensors, LAMBDA t : t.name = name)
  IN  IF hits = << >> THEN [name |-> "", dims |-> << >>, const |-> FALSE]
      ELSE hits[1]
IsConst(m, name) == FindTensor(m, name).const
\* No teacher.
NoModel == [input |-> "", output |-> "", seq_len |-> 0, tensors |-> << >>, ops |-> << >>]

Outputs(m) == {m.ops[i].output : i \in DOMAIN m.ops}
Ingoing(op) == {op.inputs[i] : i \in DOMAIN op.inputs}

\* A rank-1 dynamic, non-constant input declares token ids.
TokenInput(m) ==
  LET t == FindTensor(m, m.input)
  IN  ~t.const /\ t.dims = << -1 >>

Companions(op) ==
  CASE op.kind = "layer_norm" -> {op.output \o ".mean", op.output \o ".rstd"}
    [] op.kind = "rms_norm"   -> {op.output \o ".rstd"}
    [] op.kind = "attention"  -> {op.output \o ".probs"}
    [] OTHER -> {}

\* sema::CheckGraph.
CheckGraph(m) ==
  LET names == TensorNames(m) \cup {m.input}
      boundBefore(i) == names \cup {m.ops[j].output : j \in 1..(i - 1)}
      embeddings == {i \in DOMAIN m.ops : m.ops[i].kind = "embedding"}
  IN  /\ ~IsConst(m, m.input)
      /\ \A i \in DOMAIN m.ops :
           /\ \A x \in Ingoing(m.ops[i]) : x \in boundBefore(i) \/ x \notin Outputs(m)
           /\ m.ops[i].output \notin boundBefore(i)
           /\ Companions(m.ops[i]) \cap (names \cup Outputs(m)) = {}
      /\ m.output \in Outputs(m)
      /\ \A i \in DOMAIN m.ops :
           IF i \in embeddings
           THEN /\ m.ops[i].inputs # << >> /\ m.ops[i].inputs[1] = m.input
                /\ Len(m.ops[i].inputs) >= 2 /\ IsConst(m, m.ops[i].inputs[2])
           ELSE TokenInput(m) => m.input \notin Ingoing(m.ops[i])
      /\ (embeddings # {}) <=> TokenInput(m)

Arity == [matmul |-> 2, add_bias |-> 2, relu |-> 1, gelu |-> 1, silu |-> 1,
          mul |-> 2, embedding |-> 2, add |-> 2, rms_norm |-> 2, rope |-> 1,
          attention |-> 3, layer_norm |-> 3]

\* CheckSeqGeometry: rows are whole sequences, heads divide the width.
SeqGeometry(op, x, seq_len, evenHead) ==
  /\ Len(x) = 2 /\ op.heads > 0 /\ seq_len > 0
  /\ x[1] % seq_len = 0
  /\ x[2] % op.heads = 0
  /\ evenHead => (x[2] \div op.heads) % 2 = 0

DefaultRopeBase == 9
RopeBaseOf(op) == IF op.base = 0 THEN DefaultRopeBase ELSE op.base

\* The per-kind checks of sema.cc, on the operands' shapes.
CheckOp(op, s, seq_len) ==
  LET rowVector(v) == Len(v) = 1 /\ v[1] = s[1][Len(s[1])] IN
  CASE op.kind = "matmul"     -> Len(s[1]) = 2 /\ Len(s[2]) = 2 /\ s[1][2] = s[2][1]
    [] op.kind = "add_bias"   -> Len(s[1]) = 2 /\ rowVector(s[2])
    [] op.kind \in {"mul", "add"} -> s[1] = s[2]
    [] op.kind = "embedding"  -> Len(s[1]) = 1 /\ Len(s[2]) = 2
    [] op.kind = "rms_norm"   -> Len(s[1]) = 2 /\ rowVector(s[2])
    [] op.kind = "layer_norm" -> Len(s[1]) = 2 /\ rowVector(s[2]) /\ rowVector(s[3])
    [] op.kind = "rope"       -> /\ SeqGeometry(op, s[1], seq_len, TRUE)
                                 /\ RopeBaseOf(op) > 1
    [] op.kind = "attention"  -> /\ s[1] = s[2] /\ s[1] = s[3]
                                 /\ SeqGeometry(op, s[1], seq_len, FALSE)
    [] OTHER -> TRUE

\* The results of an operation: its output and the companions its backward reads.
OutsOf(op, p, s, seq_len) ==
  LET named(suffix, shape) == [id |-> p \o op.output \o suffix, shape |-> shape]
      main(shape) == named("", shape)
  IN  CASE op.kind \in {"matmul", "embedding"} -> << main(<< s[1][1], s[2][2] >>) >>
        [] op.kind = "rms_norm" ->
             << main(s[1]), named(".rstd", << s[1][1] >>) >>
        [] op.kind = "layer_norm" ->
             << main(s[1]), named(".mean", << s[1][1] >>),
                named(".rstd", << s[1][1] >>) >>
        [] op.kind = "attention" ->
             << main(s[1]), named(".probs", << s[1][1] * op.heads, seq_len >>) >>
        [] OTHER -> << main(s[1]) >>

AttrsOf(op, seq_len) ==
  CASE op.kind = "attention" -> [heads |-> op.heads, seq |-> seq_len]
    [] op.kind = "rope" -> [heads |-> op.heads, seq |-> seq_len, base |-> RopeBaseOf(op)]
    [] op.kind \in {"rms_norm", "layer_norm"} /\ op.eps # 0 -> [eps |-> op.eps]
    [] OTHER -> NoAttrs

(***************************************************************************)
(* Building.  The state of a build: the block, the names bound so far      *)
(* (ValueResolver::values_) and which tensor each weight value came from   *)
(* (GraphBuild::weight_sources, as [prefix, name]).                        *)
(***************************************************************************)
EmptyBuild == [b |-> EmptyBlock, sources |-> [v \in {} |-> 0]]

\* ValueResolver::Resolve: a bound name, or a constant tensor materialized now.
Resolve(st, m, p, name) ==
  IF ~st.ok \/ name \in DOMAIN st.env THEN st
  ELSE IF ~IsConst(m, name) THEN [st EXCEPT !.ok = FALSE]
  ELSE LET bound(nb) ==
             [st EXCEPT !.b = nb, !.env = (name :> LastResult(nb)) @@ @,
                        !.sources = (LastResult(nb) :> [prefix |-> p, name |-> name]) @@ @]
       IN  bound(Emit(st.b, "sc_mem.weight", << >>,
                      Out(p \o name, FindTensor(m, name).dims), NoAttrs))

AppendOp(st, m, p, op, in, shapes) ==
  LET bound(nb) == [st EXCEPT !.b = nb, !.env = (op.output :> LastResult(nb)) @@ @]
  IN  IF ~CheckOp(op, shapes, m.seq_len) THEN [st EXCEPT !.ok = FALSE]
      ELSE bound(Emit(st.b, "sc_high." \o op.kind, in, OutsOf(op, p, shapes, m.seq_len),
                      AttrsOf(op, m.seq_len)))
ParseOp(st, m, p, op) ==
  LET over(r, in) ==
        AppendOp(r, m, p, op, in, Tuple([i \in DOMAIN in |-> ShapeOf(r.b, in[i])]))
      resolved(r) ==
        IF r.ok THEN over(r, Tuple([i \in DOMAIN op.inputs |-> r.env[op.inputs[i]]])) ELSE r
  IN  IF st.ok /\ Len(op.inputs) = Arity[op.kind]
      THEN resolved(Walk(LAMBDA s, name : Resolve(s, m, p, name), st, op.inputs))
      ELSE [st EXCEPT !.ok = FALSE]

\* BuildForward: the value of the model's output, or ok = FALSE.
BuildForward(build, m, p, input) ==
  LET start == [ok |-> CheckGraph(m), b |-> build.b, sources |-> build.sources,
                env |-> (m.input :> input)]
      built(done, out) ==
        [ok |-> out # 0 /\ Len(ShapeOf(done.b, out)) = 2,
         b |-> done.b, sources |-> done.sources, out |-> out]
      parsed(done) ==
        built(done, IF done.ok /\ m.output \in DOMAIN done.env THEN done.env[m.output] ELSE 0)
  IN  parsed(Walk(LAMBDA st, op : ParseOp(st, m, p, op), start, m.ops))
=============================================================================
