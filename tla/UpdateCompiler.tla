--------------------------- MODULE UpdateCompiler ---------------------------
(***************************************************************************)
(* The update compiler's driver (compiler/driver/update_compiler.cc): from *)
(* a model, perhaps a teacher, and a configuration to a plan, one action   *)
(* for each pass or phase of CompileImpl.  The pass manager and the        *)
(* boundary contracts (contract.cc) re-verify the block after each; any    *)
(* error ends the compile.                                                 *)
(*                                                                         *)
(* A job is [source, teacher, config, from_file]: the models (the teacher  *)
(* NoModel when there is none) and whether the source was read from a file *)
(* the plan may refer back to.                                             *)
(***************************************************************************)
EXTENDS PlanMachine, PlanContract, Footprint

CONSTANTS
  Jobs,           \* the sequence of jobs that may be asked for
  kSeeuRodataAlignment

VARIABLES
  job,       \* the index of the job being compiled
  stage,     \* the last phase completed, or "refused"
  why,       \* what refused it
  tiled,     \* the attention decision made on the footprint
  b,         \* the block
  graph,     \* [input, out, teacher, labels, loss, sources]
  adapters,  \* what the grafter added
  primal,    \* the uids of the forward program: the evaluation program
  grads,     \* the gradient of each trainable
  merge,     \* the merge program
  narrow,    \* the storage of the frozen weights narrower than f32
  bind,      \* where every value lives
  plan       \* the programs and the header

vars == << job, stage, why, tiled, b, graph, adapters, primal, grads, merge,
           narrow, bind, plan >>

Source == Jobs[job].source
Teacher == Jobs[job].teacher
Config == Jobs[job].config

WantsTeacher(config) == config.loss \in {"kl", "xent+kl"}
InDim(m) == LET d == FindTensor(m, m.input).dims IN d[Len(d)]
Accum(config) == IF config.accum > 1 THEN config.accum ELSE 1

Refuse(reason) ==
  /\ stage' = "refused" /\ why' = reason
  /\ UNCHANGED << job, tiled, b, graph, adapters, primal, grads, merge, narrow,
                  bind, plan >>

(***************************************************************************)
(* The driver's own checks and the early footprint gate.                   *)
(***************************************************************************)
ConfigAccepted(j) ==
  LET c == j.config
      token == TokenInput(j.source)
  IN  /\ WantsTeacher(c) => j.teacher # NoModel
      /\ c.tile_k % 4 = 0
      /\ c.steps > 0
      /\ IF c.schedule = "cosine"
         THEN c.warmup < c.steps /\ (c.min_lr > 0 \/ c.allow_zero_lr)
         ELSE c.warmup = 0
      /\ FindTensor(j.source, j.source.input).dims # << >>
      /\ token \/ InDim(j.source) > 0
      /\ token => /\ j.source.seq_len > 0 /\ j.source.seq_len <= c.batch
                  /\ c.batch % j.source.seq_len = 0

\* The footprint before the attention decision: int8 storage quarters the
\* student's weights, the teacher counts at its peak.
StudentFootprint(j) ==
  LET stored(fp) == IF j.config.quantize_base THEN [fp EXCEPT !.weights = @ \div 4] ELSE fp
  IN  stored(EstimateTrainingFootprint(j.source, j.config.batch))
CachedFootprint(j) ==
  LET c == j.config
      both(student) == IF WantsTeacher(c)
                       THEN Together(student, EstimateFrozenForwardFootprint(j.teacher, c.batch))
                       ELSE student
  IN  [both(StudentFootprint(j)) EXCEPT
         !.deltas = EstimateLoraDeltaBytes(j.source, c.filters)]

TilesOver(fp, c) ==
  c.attention = "tiled"
    \/ (c.attention = "auto" /\ (fp.probs > c.cache_budget
                                   \/ ~FitsLocally(Total(fp), c.budget)))
TilesAttention(j) == TilesOver(CachedFootprint(j), j.config)
EarlyFootprint(j) ==
  LET decided(fp) == IF TilesOver(fp, j.config) THEN [fp EXCEPT !.probs = fp.stats] ELSE fp
  IN  decided(CachedFootprint(j))

Admit ==
  /\ stage = "start"
  /\ LET j == Jobs[job] IN
     IF ~ConfigAccepted(j) THEN Refuse("driver")
     ELSE IF ~FitsLocally(Total(EarlyFootprint(j)), j.config.budget)
     THEN Refuse("footprint")
     ELSE /\ stage' = "admitted" /\ tiled' = TilesAttention(j)
          /\ UNCHANGED << job, why, b, graph, adapters, primal, grads, merge,
                          narrow, bind, plan >>

(***************************************************************************)
(* The forward graph and the loss on it.                                   *)
(***************************************************************************)
SourcesAreWeights(j, bb, sources) ==
  \A v \in DOMAIN sources :
    LET m == IF sources[v].prefix = "" THEN j.source ELSE j.teacher
        t == FindTensor(m, sources[v].name)
    IN  DefiningOp(bb, v).mn = "sc_mem.weight" /\ t.const /\ t.dims # << >>

TeacherInputFits(j) ==
  LET t == FindTensor(j.teacher, j.teacher.input)
  IN  /\ t.dims # << >>
      /\ IF TokenInput(j.source) THEN t.dims = << -1 >> ELSE InDim(j.teacher) = InDim(j.source)

\* [ok, b, input, out, teacher, sources]: the student and, sharing its input,
\* the frozen teacher.
ShapeOfInput_Declared(j, batch) ==   \* with the batch left open, as the model has it
  FindTensor(j.source, j.source.input).dims
ShapeOfInput(j, batch) ==
  IF TokenInput(j.source) THEN << batch >> ELSE << batch, InDim(j.source) >>
Teach(j, student, input) ==
  IF WantsTeacher(j.config)
  THEN BuildForward([b |-> student.b, sources |-> student.sources], j.teacher, "t::", input)
  ELSE [student EXCEPT !.out = 0]
GraphOf(j, student, taught, input) ==
  LET wants == WantsTeacher(j.config)
      width(v) == ShapeOf(taught.b, v)[2]
  IN  IF ~student.ok \/ (wants /\ ~TeacherInputFits(j)) \/ ~taught.ok
      THEN [ok |-> FALSE, b |-> student.b]
      ELSE [ok |-> /\ width(student.out) > 0
                   /\ wants => width(taught.out) = width(student.out),
            b |-> taught.b, input |-> input, out |-> student.out,
            teacher |-> taught.out, sources |-> taught.sources]
BuildGraphOf(j, batch) ==
  LET b0 == AddArgument(EmptyBlock, ShapeOfInput(j, batch))
      input == Len(b0.vals)
      taught(student) == GraphOf(j, student, Teach(j, student, input), input)
  IN  taught(BuildForward([EmptyBuild EXCEPT !.b = b0], j.source, "", input))

WithLabels(st, shape) ==
  LET bb == AddArgument(st.b, shape)
  IN  [st EXCEPT !.b = bb, !.labels = Len(bb.vals)]
WithLoss(st, bb) == [st EXCEPT !.b = bb, !.loss = LastResult(bb)]
XentLoss(st, batch) ==
  LET on(l) ==
        WithLoss(l, Emit(l.b, "sc_high.softmax_xent", << l.out, l.labels >>,
                         << [id |-> "loss.xent", shape |-> << >>],
                            [id |-> "loss.xent_probs", shape |-> ShapeOf(l.b, l.out)] >>,
                         NoAttrs))
  IN  on(WithLabels(st, << batch >>))
MseLoss(st) ==
  LET on(l) == WithLoss(l, Emit(l.b, "sc_high.mse", << l.out, l.labels >>,
                                Out("loss.mse", << >>), NoAttrs))
  IN  on(WithLabels(st, ShapeOf(st.b, st.out)))
\* The soft-target loss is scaled by T^2.
KlLoss(st, config) ==
  LET T == config.temperature
  IN  WithLoss(st, Emit(st.b, "sc_high.kl_distill", << st.out, st.teacher >>,
                        << [id |-> "loss.kl", shape |-> << >>],
                           [id |-> "loss.kl_ps", shape |-> ShapeOf(st.b, st.out)],
                           [id |-> "loss.kl_pt", shape |-> ShapeOf(st.b, st.out)] >>,
                        [temperature |-> T, loss_scale |-> Mul(T, T)]))
Weighted(st, v, id, w) ==
  WithLoss(st, Emit(st.b, "sc_high.scale", << v >>, Out(id, << >>), [alpha |-> w]))
MixedLoss(st, config) ==
  LET sum(wx, wk) == WithLoss(wk, Emit(wk.b, "sc_high.add", << wx.loss, wk.loss >>,
                                       Out("loss.total", << >>), NoAttrs))
      kl(wx, l) == sum(wx, Weighted(wx, l, "loss.kl_w", config.distill_weight))
      weigh(xent, both) == kl(Weighted(both, xent.loss, "loss.xent_w",
                                       N(1 - config.distill_weight)), both.loss)
      mix(xent) == weigh(xent, KlLoss(xent, config))
  IN  mix(XentLoss(st, config.batch))

GraftLossOn(g, config) ==
  LET st == [b |-> g.b, input |-> g.input, out |-> g.out, teacher |-> g.teacher,
             sources |-> g.sources, labels |-> 0, loss |-> 0]
  IN  CASE config.loss = "xent" -> XentLoss(st, config.batch)
        [] config.loss = "mse" -> MseLoss(st)
        [] config.loss = "kl" -> KlLoss(st, config)
        [] config.loss = "xent+kl" -> MixedLoss(st, config)

BuildGraph ==
  /\ stage = "admitted"
  /\ \E g \in {BuildGraphOf(Jobs[job], Config.batch)} :
       IF ~g.ok THEN Refuse("frontend")
       ELSE IF ~Verify(g.b) \/ ~SourcesAreWeights(Jobs[job], g.b, g.sources)
       THEN Refuse("contract")
       ELSE \E st \in {GraftLossOn(g, Config)} :
              /\ stage' = "built" /\ b' = st.b
              /\ graph' = [k \in DOMAIN st \ {"b"} |-> st[k]]
              /\ UNCHANGED << job, why, tiled, adapters, primal, grads, merge,
                              narrow, bind, plan >>

(***************************************************************************)
(* Phase A: attention tiling, LoRA grafting, the RoPE table; then the      *)
(* snapshot of the primal program.                                         *)
(***************************************************************************)
Uids(bb) == Tuple([i \in 1..Len(bb.ops) |-> bb.ops[i].uid])

\* The passes in their order: t is what the tiling made of the block, l the
\* grafting, r the hoisting.
Shaped(t, l, r) ==
  [ok |-> t.ok /\ l.ok /\ r.ok, b |-> r.b, adapters |-> l.adapters,
   verified |-> Verify(t.b) /\ Verify(l.b) /\ Verify(r.b)]
HoistedTables(t, l, config) ==
  Shaped(t, l, IF config.rope_table THEN RopeTableHoist(l.b) ELSE [ok |-> TRUE, b |-> l.b])
Grafted(t, config) ==
  HoistedTables(t, LoraGraft(t.b, config.rank, config.alpha, config.seed, config.filters), config)
ShapeForTraining(bb, config, tile) ==
  Grafted(AttentionTiling(bb, config.attention, tile, config.cache_budget), config)

Graft ==
  /\ stage = "built"
  /\ \E s \in {ShapeForTraining(b, Config, tiled)} :
       IF ~s.ok THEN Refuse("graft")
       ELSE IF ~s.verified THEN Refuse("contract")
       ELSE /\ stage' = "grafted" /\ b' = s.b /\ adapters' = s.adapters
            /\ primal' = Uids(s.b)
            /\ UNCHANGED << job, why, tiled, graph, grads, merge, narrow, bind, plan >>

TrainablesOf(ads) == Walk(LAMBDA s, a : s \o << a.A, a.B >>, << >>, ads)
Trainables == TrainablesOf(adapters)

(***************************************************************************)
(* Phase B: reverse-mode autodiff, then the optimizer; the merge program.  *)
(***************************************************************************)
Differentiate ==
  /\ stage = "grafted"
  /\ \E d \in {Backward(b, graph.loss, Trainables, Recip(Accum(Config)))} :
       IF ~d.ok THEN Refuse("autodiff")
       ELSE \E nb \in {IF Config.emit_optimizer \/ Accum(Config) > 1
                        THEN SynthesizeOptimizer(d.b, Trainables, d.grads, Config.optimizer,
                                                 Accum(Config), Config.emit_optimizer)
                        ELSE d.b} :
              IF ~Verify(d.b) \/ ~Verify(nb) THEN Refuse("contract")
              ELSE /\ stage' = "differentiated" /\ b' = nb /\ grads' = d.grads
                   /\ UNCHANGED << job, why, tiled, graph, adapters, primal, merge,
                                   narrow, bind, plan >>

\* VerifyAnalysisContract.
AnalysisContract(m) ==
  /\ adapters # << >>
  /\ \A p \in {Trainables[i] : i \in DOMAIN Trainables} :
       DefiningOp(b, p).mn = "sc_mem.param" /\ p \in DOMAIN grads
  /\ Cardinality(DOMAIN grads) = 2 * Len(adapters)
  /\ m.ok /\ Verify(m.b) /\ Len(m.outputs) = Len(adapters)

BuildMerge ==
  /\ stage = "differentiated"
  /\ \E m \in {MergeBuild(adapters, b)} :
     IF ~AnalysisContract(m) THEN Refuse("contract")
     ELSE /\ stage' = "merged" /\ merge' = m
          /\ UNCHANGED << job, why, tiled, b, graph, adapters, primal, grads,
                          narrow, bind, plan >>

SelectStorage ==
  /\ stage = "merged"
  /\ IF Config.quantize_base /\ Config.bf16_base THEN Refuse("driver")
     ELSE LET asked == Config.quantize_base \/ Config.bf16_base
              weights == IF asked THEN NarrowWeights(b, graph.sources) ELSE {}
          IN  /\ stage' = "stored"
              /\ narrow' = [v \in weights |->
                             IF Config.quantize_base THEN "int8" ELSE "bf16"]
              /\ UNCHANGED << job, why, tiled, b, graph, adapters, primal, grads,
                              merge, bind, plan >>

(***************************************************************************)
(* Phase C: the fusers, each rebinding the primal snapshot to what it left *)
(* standing, then the sweep.                                               *)
(***************************************************************************)
Protected == {graph.loss} \cup {grads[p] : p \in DOMAIN grads}

Rewritten(from, to, asked, fused) ==
  /\ stage = from
  /\ \E f \in {IF asked THEN fused ELSE [b |-> b, gone |-> {}]} :
     IF ~Verify(f.b) THEN Refuse("contract")
     ELSE /\ stage' = to /\ b' = f.b
          /\ primal' = SelectSeq(primal, LAMBDA u : u \notin f.gone)
          /\ UNCHANGED << job, why, tiled, graph, adapters, grads, merge, narrow,
                          bind, plan >>

\* A fused bias has no slot on an int8 product, which keeps its scales there.
FuseEpilogues ==
  Rewritten("stored", "epilogues", Config.fuse_epilogues,
            FuseGemmEpilogue(b, {w \in DOMAIN narrow : narrow[w] = "int8"}, Protected))
FuseAddends ==
  Rewritten("epilogues", "addends", Config.fuse_gemm_addend,
            FuseGemmAddend(b, DOMAIN narrow, Protected))
FuseChains ==
  Rewritten("addends", "chains", Config.fuse_elementwise,
            FuseElementwise(b, Protected))

PrimalOps == Tuple([i \in DOMAIN primal |-> OpOf(b, primal[i])])

Sweep ==
  /\ stage = "chains"
  /\ LET results == UNION {{op.out[r] : r \in DOMAIN op.out} :
                           op \in {PrimalOps[i] : i \in DOMAIN PrimalOps}}
     IN  \E nb \in {EliminateDeadCode(b, Protected \cup results)} :
         IF ~Verify(nb) THEN Refuse("contract")
         ELSE /\ stage' = "swept" /\ b' = nb
              /\ UNCHANGED << job, why, tiled, graph, adapters, primal, grads,
                              merge, narrow, bind, plan >>

(***************************************************************************)
(* Binding: the training block, and above its high water mark the merge    *)
(* program's deltas, so that no evaluation overwrites them.                *)
(***************************************************************************)
ScanMerge(t, above) ==
  LinearScanTransients(merge.b, AlignUp(above),
                       [v \in DOMAIN merge.aliases |-> t.refs[merge.aliases[v]]],
                       {merge.outputs[i] : i \in DOMAIN merge.outputs})
BothBound(t, m) ==
  [t EXCEPT !.merge = m.refs,
            !.arena_size = IF m.high > @ THEN m.high ELSE @]
BindAll_Shared ==   \* the deltas share the transients' segment
  LET bound(t) == BothBound(t, ScanMerge(t, t.io_end))
  IN  bound(BindArena(b, Protected, narrow))
BindAll ==
  LET bound(t) == BothBound(t, ScanMerge(t, t.arena_size))
  IN  bound(BindArena(b, Protected, narrow))

Bind ==
  /\ stage = "swept"
  /\ stage' = "bound" /\ bind' = BindAll
  /\ UNCHANGED << job, why, tiled, b, graph, adapters, primal, grads, merge,
                  narrow, plan >>

(***************************************************************************)
(* Lowering the programs, and the plan.                                    *)
(***************************************************************************)
\* The file offset of each constant tensor of a model: the metadata, which fits
\* one alignment unit here, then the tensors in their order, each aligned.
kDataAlignment == 64
DataOffset(m, name) ==
  Walk(LAMBDA st, t : IF st.done \/ t.name = name THEN [st EXCEPT !.done = TRUE]
                      ELSE [st EXCEPT !.off = @ + (IF t.const THEN RoundUp(TensorBytes(t), kDataAlignment) ELSE 0)],
       [off |-> kDataAlignment, done |-> FALSE], m.tensors).off

\* The evaluation program reads the file's own f32 weights where training reads
\* a narrow copy, if there is a file to read.
Shipped_Never == {}   \* the evaluation reads the narrow copies too
Shipped == IF Jobs[job].from_file THEN DOMAIN narrow ELSE {}
EvalBind ==
  [bind EXCEPT !.refs = [v \in Shipped |->
                           SourceRef(DataOffset(Source, graph.sources[v].name))] @@ @]
EvalNarrow == [v \in DOMAIN narrow \ Shipped |-> narrow[v]]

\* Under certified arithmetic every product with a frozen weight is relaxed.
Relax(instrs) ==
  Tuple([i \in DOMAIN instrs |->
    LET ins == instrs[i] IN
    IF /\ Config.precision = "certified"
       /\ ins.op \in Gemms \ {"gemm_tn", "gemm_acc_nn"}
       /\ ins.in[2].sp = "rodata"
    THEN [ins EXCEPT !.flags = @ \cup {"relaxed"}] ELSE ins])

IsStep_Fill(ins) ==   \* taken for the zeroing of an accumulator, the seed too
  ins.op \in {"fill", "clip_norm", "sgd_step", "adamw_step"}
IsStep(ins) == ins.op \in {"clip_norm", "sgd_step", "adamw_step"}
SplitAt_Late(instrs) ==   \* the first step instruction runs with every batch
  1 + Cardinality({i \in DOMAIN instrs : \A k \in 1..i : ~IsStep(instrs[k])})
\* The training stream is split at its first step instruction.
SplitAt(instrs) ==
  Walk(LAMBDA n, ins : IF n.done \/ IsStep(ins) THEN [n EXCEPT !.done = TRUE]
                       ELSE [n EXCEPT !.at = @ + 1],
       [at |-> 0, done |-> FALSE], instrs).at

Lower ==
  /\ stage = "bound"
  /\ \E train \in {LowerOps(b, b.ops, bind, narrow)},
        eval \in {LowerOps(b, PrimalOps, EvalBind, EvalNarrow)},
        deltas \in {LowerOps(merge.b, merge.b.ops, [bind EXCEPT !.refs = bind.merge], narrow)} :
       \E stream \in {Relax(train.instrs)} :
         LET splits == Accum(Config) > 1 /\ Config.emit_optimizer
             cut == IF splits THEN SplitAt(stream) ELSE Len(stream)
         IN  IF \/ ~train.ok \/ ~eval.ok \/ ~deltas.ok
                \/ (splits /\ cut = Len(stream))
             THEN Refuse("lowering")
             ELSE /\ stage' = "lowered"
                  /\ plan' = [train |-> SubSeq(stream, 1, cut),
                              step |-> SubSeq(stream, cut + 1, Len(stream)),
                              eval |-> eval.instrs, merge |-> deltas.instrs]
                  /\ UNCHANGED << job, why, tiled, b, graph, adapters, primal, grads,
                                  merge, narrow, bind >>

\* The offsets of the blob's sections, in their order, and its size.
Layout ==
  LET code(n) == InstrBytes * n
      train == AlignUp(HeaderBytes)
      merged == train + code(Len(plan.train))
      eval == merged + code(Len(plan.merge))
      step == eval + code(Len(plan.eval))
      rodata == RoundUp(step + code(Len(plan.step)), kSeeuRodataAlignment)
      persist == AlignUp(rodata + bind.rodata_size)
      emit == AlignUp(persist + bind.persistent_size)
  IN  [train |-> train, merge |-> merged, eval |-> eval, step |-> step,
       rodata |-> rodata, persist |-> persist, emit |-> emit,
       size |-> RoundUp(emit + EmitBytes * Len(merge.outputs), kSeeuRodataAlignment)]

LabelKind == CASE graph.labels = 0 -> "none" [] Config.loss = "mse" -> "dense" [] OTHER -> "class"
InputKind == IF TokenInput(Source) THEN "tokens" ELSE "features"
RecordedAccum == IF Config.emit_optimizer THEN Accum(Config) ELSE 1

\* VerifyGeneratedPlan.
GeneratedPlanOk ==
  LET n == Len(adapters) IN
  /\ Len(plan.train) > 0 /\ Len(plan.eval) > 0 /\ Len(plan.merge) > 0
  /\ Len(plan.eval) <= Len(plan.train)
  /\ Len(plan.merge) >= n
  /\ (RecordedAccum > 1) = (Len(plan.step) > 0)
  /\ RecordedAccum > 1 => Len(plan.step) >= 4 * n
  /\ bind.arena_size > 0 /\ bind.arena_size >= bind.persistent_size
  /\ bind.rodata_size > 0
  /\ Cardinality(DOMAIN grads) = 2 * n

Header ==
  [arena_size |-> AlignUp(bind.arena_size), persistent_size |-> bind.persistent_size,
   plan_size |-> Layout.size, at |-> Layout, version |-> kSeeuRelaxedVersion,
   tile_k |-> Config.tile_k, rodata_size |-> bind.rodata_size,
   input |-> bind.refs[graph.input],
   labels |-> IF graph.labels = 0 THEN NullRef ELSE bind.refs[graph.labels],
   loss |-> bind.refs[graph.loss], accum |-> RecordedAccum,
   batch |-> Config.batch, seq_len |-> Source.seq_len,
   input_kind |-> InputKind, input_floats |-> Volume(ShapeOf(b, graph.input)),
   label_kind |-> LabelKind,
   label_bytes |-> IF graph.labels = 0 THEN 0 ELSE Volume(ShapeOf(b, graph.labels)) * kF32,
   emit |-> Tuple([i \in DOMAIN adapters |->
              [file |-> DataOffset(Source, graph.sources[adapters[i].frozen_weight].name),
               bytes |-> Volume(ShapeOf(b, adapters[i].frozen_weight)) * kF32,
               arena |-> bind.merge[merge.outputs[i]].off]])]

Assemble ==
  /\ stage = "lowered"
  /\ IF ~FitsLocally(Header.arena_size + Header.plan_size, Config.budget)
     THEN Refuse("final footprint")
     ELSE IF ~GeneratedPlanOk THEN Refuse("contract")
     ELSE /\ stage' = "compiled" /\ plan' = Header @@ plan
          /\ UNCHANGED << job, why, tiled, b, graph, adapters, primal, grads,
                          merge, narrow, bind >>

Nothing == [x \in {} |-> 0]
Init ==
  /\ job \in DOMAIN Jobs
  /\ stage = "start" /\ why = "" /\ tiled = FALSE /\ b = EmptyBlock
  /\ graph = Nothing /\ adapters = << >> /\ primal = << >> /\ grads = Nothing
  /\ merge = Nothing /\ narrow = Nothing /\ bind = Nothing /\ plan = Nothing

Compile ==
  \/ Admit \/ BuildGraph \/ Graft \/ Differentiate \/ BuildMerge \/ SelectStorage
  \/ FuseEpilogues \/ FuseAddends \/ FuseChains \/ Sweep \/ Bind \/ Lower \/ Assemble

SpecCompile == Init /\ [][Compile]_vars

\* The early gate "only guarantees rejections are correct" (resource_analyzer.h):
\* what it counts is never more than the compiled plan and its arena take.
RejectionsAreCorrect ==
  stage = "compiled" =>
    Total(EarlyFootprint(Jobs[job])) <= plan.arena_size + plan.plan_size
=============================================================================
