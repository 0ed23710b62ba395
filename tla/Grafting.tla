------------------------------ MODULE Grafting ------------------------------
(***************************************************************************)
(* The analysis passes that shape the forward graph before it is           *)
(* differentiated - attention tiling, the LoRA grafter, the RoPE table     *)
(* hoister - with the two that read its outcome: the merge builder and the *)
(* choice of the frozen weights stored narrower than f32.                  *)
(*                                                                         *)
(* A --targets filter is the set of weight ids that contain it.            *)
(***************************************************************************)
EXTENDS Kernels

IsTeacherValue(b, v) ==
  Len(IdOf(b, v)) > 3 /\ SubSeq(IdOf(b, v), 1, 3) = "t::"

(***************************************************************************)
(* attention_tiling.cc: every attention op trades its probability cache    *)
(* for one stats row per query.                                            *)
(***************************************************************************)
kGeometryField == 65535
\* Rows are whole sequences, heads divide the width, and each number fits its
\* 16-bit field of the tiled backward's geometry word.
TilingFits(b, op) ==
  LET q == ShapeOf(b, op.in[1])
      heads == Attr(op, "heads", 0)
      seq == Attr(op, "seq", 0)
  IN  /\ Len(op.out) = 2 /\ heads > 0 /\ seq > 0
      /\ q[1] % seq = 0 /\ q[2] % heads = 0
      /\ {q[1] \div seq, seq, heads, q[2] \div heads} \subseteq 0..kGeometryField

ProbsCache(b) ==
  Walk(LAMBDA n, op : n + (IF op.mn = "sc_high.attention"
                           THEN 4 * Volume(ShapeOf(b, op.out[2])) ELSE 0), 0, b.ops)

TileOne(b, op) ==
  LET rows == ShapeOf(b, op.in[1])[1]
  IN  [b EXCEPT !.ops[OpIndex(b, op.uid)].at = [tiled |-> 1] @@ @,
                !.vals[op.out[2]].shape = << rows * op.at.heads, kAttnStatsWidth >>]

\* kind is "materialized", "tiled" or "auto"; budget bounds the cache for auto.
AttentionTiling(b, kind, gateTiled, budget) ==
  LET ops == SelectSeq(b.ops, LAMBDA o : o.mn = "sc_high.attention"
                                          /\ "tiled" \notin DOMAIN o.at)
      tiled == kind = "tiled"
                 \/ (kind = "auto" /\ (gateTiled \/ ProbsCache(b) > budget))
  IN  IF ~tiled \/ ops = << >> THEN [ok |-> TRUE, b |-> b, tiled |-> tiled]
      ELSE IF \E i \in DOMAIN ops : ~TilingFits(b, ops[i])
           THEN [ok |-> FALSE, b |-> b, tiled |-> tiled]
      ELSE [ok |-> TRUE, b |-> Walk(TileOne, b, ops), tiled |-> tiled]

(***************************************************************************)
(* lora_grafter.cc                                                         *)
(***************************************************************************)
\* Every use of w is the right-hand side of a plain product, and only that.
OnlyRhsUses(b, w) ==
  \A i \in DOMAIN UsersOf(b, w) :
    LET user == OpOf(b, UsersOf(b, w)[i])
    IN  /\ user.mn = "sc_high.matmul" /\ Len(user.in) = 2
        /\ user.in[2] = w /\ user.in[1] # w

\* A product with a frozen student weight LoRA may adapt.
Eligible(b, op) ==
  /\ op.mn = "sc_high.matmul" /\ Len(op.in) = 2
  /\ DefiningOp(b, op.in[2]).mn = "sc_mem.weight"
  /\ ~IsTeacherValue(b, op.in[2]) /\ ~IsTeacherValue(b, op.out[1])
  /\ OnlyRhsUses(b, op.in[2])

Matches(b, op, filters) ==
  filters = << >> \/ \E i \in DOMAIN filters : IdOf(b, op.in[2]) \in filters[i]

\* The adapter of w among those grafted so far, 0 when there is none.
AdapterOf(adapters, w) ==
  LET hits == {i \in DOMAIN adapters : adapters[i].frozen_weight = w}
  IN  IF hits = {} THEN 0 ELSE CHOOSE i \in hits : TRUE

ParamAttrs(trainable, init, seed) ==
  [trainable |-> trainable, init |-> init, seed |-> seed]

\* Operations made and waiting to be placed.
Made(acc, mn, in, out, at) ==
  LET add(made) == [b |-> made.b, ops |-> Append(acc.ops, made.op)]
  IN  add(MakeOp(acc.b, mn, in, out, at))
LastMade(acc) == acc.ops[Len(acc.ops)].out[1]

\* An operation that reads what was made last.
MadeOn(acc, mn, before, after, out, at) ==
  Made(acc, mn, before \o << LastMade(acc) >> \o after, out, at)

\* The pair a site reads: the weight's own if an earlier site made it, or a new one.
PairAgain(st, adapter) ==
  [made |-> [b |-> st.b, ops |-> << >>], adapter |-> adapter, adapters |-> st.adapters]
Declares(st, made, adapter) ==
  [made |-> made, adapter |-> adapter, adapters |-> Append(st.adapters, adapter)]
Paired(st, w, base, scale, a, ab) ==
  Declares(st, ab, [frozen_weight |-> w, A |-> LastMade(a), B |-> LastMade(ab),
                    scale |-> scale, id_base |-> base])
AddB(st, w, base, rank, scale, a) ==
  Paired(st, w, base, scale, a,
         Made(a, "sc_mem.param", << >>,
              Out(base \o ".lora_B", << rank, ShapeOf(st.b, w)[2] >>),
              ParamAttrs(1, "zeros", 0)))
NewAdapter(st, w, base, rank, scale, seed) ==
  AddB(st, w, base, rank, scale,
       Made([b |-> st.b, ops |-> << >>], "sc_mem.param", << >>,
            Out(base \o ".lora_A", << ShapeOf(st.b, w)[1], rank >>),
            ParamAttrs(1, "randn", seed + Len(st.adapters))))
AdapterFor(st, w, known, base, rank, scale, seed) ==
  IF known # 0 THEN PairAgain(st, st.adapters[known])
  ELSE NewAdapter(st, w, base, rank, scale, seed)

\* c + (s * x @ A) @ B; a scale of one takes no operation.
Scaled(t, scale, out) ==
  IF scale = 1 THEN t ELSE MadeOn(t, "sc_high.scale", << >>, << >>, out, [alpha |-> scale])
AdapterPath(made, a, op, base, narrow, wide, scale) ==
  MadeOn(MadeOn(Scaled(Made(made, "sc_high.matmul", << op.in[1], a.A >>,
                            Out(base \o ".lora_t", narrow), NoAttrs),
                       scale, Out(base \o ".lora_ts", narrow)),
                "sc_high.matmul", << >>, << a.B >>, Out(base \o ".lora_u", wide), NoAttrs),
         "sc_high.add", << op.out[1] >>, << >>, Out(base \o ".lora_out", wide), NoAttrs)

\* The operations go behind the product, and its readers read their sum.
PlacedAt(st, op, s, adapters) ==
  [b |-> Rewire(InsertOpsAfter(s.b, op.uid, s.ops), UsersOf(st.b, op.out[1]), op.out[1],
                LastMade(s)),
   sites |-> Append(st.sites, op.in[2]), adapters |-> adapters]

\* One graft site: x @ W becomes x @ W + (s * x @ A) @ B for every reader the
\* product had, with one adapter pair per frozen weight.
GraftSite(st, op, rank, scale, seed) ==
  LET w == op.in[2]
      rows == ShapeOf(st.b, op.in[1])[1]
      site == Cardinality({i \in DOMAIN st.sites : st.sites[i] = w})
      base == IdOf(st.b, w) \o (IF site = 0 THEN "" ELSE "@" \o ToString(site))
      graft(pair) ==
        PlacedAt(st, op, AdapterPath(pair.made, pair.adapter, op, base, << rows, rank >>,
                                     << rows, ShapeOf(st.b, w)[2] >>, scale),
                 pair.adapters)
  IN  graft(AdapterFor(st, w, AdapterOf(st.adapters, w), base, rank, scale, seed))

\* LoraGrafter::Run, over the products as they stand before any is grafted.
LoraGraft(b, rank, alpha, seed, filters) ==
  LET eligible == SelectSeq(b.ops, LAMBDA o : Eligible(b, o))
      targets == SelectSeq(eligible, LAMBDA o : Matches(b, o, filters))
      met == \A f \in DOMAIN filters : \E i \in DOMAIN eligible :
               IdOf(b, eligible[i].in[2]) \in filters[f]
      scale == Mul(alpha, Recip(rank))
      grafted(done) == [ok |-> TRUE, b |-> done.b, adapters |-> done.adapters]
  IN  IF rank <= 0 \/ ~met \/ targets = << >>
      THEN [ok |-> FALSE, b |-> b, adapters |-> << >>]
      ELSE grafted(Walk(LAMBDA st, o : GraftSite(st, OpOf(st.b, o.uid), rank, scale, seed),
                        [b |-> b, sites |-> << >>, adapters |-> << >>], targets))

(***************************************************************************)
(* rope_table.cc: one table per (seq, head width, base), declared above    *)
(* the first rope that reads it.                                           *)
(***************************************************************************)
RopeKey(b, op) ==
  << op.at.seq, ShapeOf(b, op.in[1])[2] \div op.at.heads, op.at.base >>

HoistOne(st, rope) ==
  LET key == RopeKey(st.b, rope)
      read(b, tables) == [b |-> AddOperand(b, rope.uid, tables[key]), tables |-> tables]
      declared(b) == read(MoveOpBefore(b, LastOp(b).uid, rope.uid),
                          (key :> LastResult(b)) @@ st.tables)
  IN  IF key \in DOMAIN st.tables THEN read(st.b, st.tables)
      ELSE declared(Emit(st.b, "sc_low.rope_table", << >>,
                         Out("rope_table." \o ToString(Cardinality(DOMAIN st.tables)),
                             << key[1], key[2] >>),
                         [seq |-> key[1], width |-> key[2], base |-> key[3]]))

RopeTableHoist(b) ==
  LET ropes == SelectSeq(b.ops, LAMBDA o : o.mn = "sc_high.rope")
      none == [k \in {} |-> 0]
      wellFormed(op) ==
        LET x == ShapeOf(b, op.in[1])
        IN  /\ Len(op.in) = 1 /\ Attr(op, "heads", 0) > 0 /\ Attr(op, "seq", 0) > 0
            /\ Len(x) = 2 /\ x[2] % op.at.heads = 0
  IN  IF \E i \in DOMAIN ropes : ~wellFormed(ropes[i])
      THEN [ok |-> FALSE, b |-> b]
      ELSE [ok |-> TRUE, b |-> Walk(HoistOne, [b |-> b, tables |-> none], ropes).b]

(***************************************************************************)
(* merge_builder.cc: Delta = 0; Delta += s * A @ B, for each adapter, over *)
(* mirrors of the trained parameters.                                      *)
(***************************************************************************)
Mirror(st, train, v, suffix) ==
  LET bound(nb) == [st EXCEPT !.b = nb, !.aliases = (LastResult(nb) :> v) @@ @]
  IN  bound(Emit(st.b, "sc_mem.param", << >>, Out(IdOf(train, v) \o suffix, ShapeOf(train, v)),
                 NoAttrs))
MergeOne(st, a, train) ==
  LET product(s1, s2, filled) ==
        [s2 EXCEPT !.b = Emit(filled, "sc_low.gemm_acc",
                              << LastResult(s1.b), LastResult(s2.b), LastResult(filled) >>,
                              << >>, [alpha |-> a.scale]),
                   !.outputs = Append(@, LastResult(filled))]
      fill(s1, s2) ==
        product(s1, s2, Emit(s2.b, "sc_low.fill", << >>,
                             Out(a.id_base \o ".delta", ShapeOf(train, a.frozen_weight)),
                             [value |-> 0]))
      both(s1) == fill(s1, Mirror(s1, train, a.B, ".merge_b"))
  IN  both(Mirror(st, train, a.A, ".merge_a"))

MergeBuild(adapters, train) ==
  LET weights == {adapters[i].frozen_weight : i \in DOMAIN adapters}
  IN  [ok |-> adapters # << >> /\ Cardinality(weights) = Len(adapters)]
        @@ Walk(LAMBDA st, a : MergeOne(st, a, train),
                [b |-> EmptyBlock, aliases |-> [v \in {} |-> 0], outputs |-> << >>],
                adapters)

(***************************************************************************)
(* quantization.cc: the frozen student weights every reader of which       *)
(* widens them on the way into a product.                                  *)
(***************************************************************************)
MatmulWeightOnly(b, v) ==
  \A i \in DOMAIN UsersOf(b, v) :
    LET user == OpOf(b, UsersOf(b, v)[i])
    IN  /\ user.mn \in {"sc_high.matmul", "sc_low.matmul_nt"}
        /\ Len(user.in) = 2 /\ user.in[2] = v /\ user.in[1] # v

NarrowWeights(b, sources) ==
  {v \in DOMAIN sources : /\ DefiningOp(b, v).mn = "sc_mem.weight"
                          /\ ~IsTeacherValue(b, v)
                          /\ MatmulWeightOnly(b, v)}
=============================================================================
