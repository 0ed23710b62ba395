----------------------------- MODULE UpdateRun -----------------------------
(***************************************************************************)
(* The compiled plan run by the executor: micro-batches of training, the   *)
(* step program that follows a window of them, evaluations and merges in   *)
(* any order the engine may ask for, over one arena.                       *)
(*                                                                         *)
(* Beside the machine runs its reference, read off the models and the      *)
(* configuration alone: the unfused training graph on one batch as large   *)
(* as the whole accumulation window, and the loss of the source model with *)
(* the adapters folded into its weights.                                   *)
(***************************************************************************)
EXTENDS UpdateCompiler, Meaning, DamagedPlan

CONSTANT MaxSteps   \* bound: optimizer steps in a behaviour

VARIABLES
  oracle,   \* the reference graph and the job's own before fusion, if it has one
  rodata,   \* the rodata section's cells
  arena,    \* the arena's cells
  micro,    \* micro-batches run since the last step
  steps,    \* optimizer steps taken
  ideal,    \* the reference's parameters and optimizer state, by id
  last,     \* what the engine did last
  merged,   \* merged_: the deltas in the arena may be committed
  saved     \* the checkpoint file: [segment, steps, ideal], or Nothing

runVars == << oracle, rodata, arena, micro, steps, ideal, last, merged, saved >>
allVars == << vars, runVars >>

(***************************************************************************)
(* The data: fixed functions of the row, so that a window of small batches *)
(* reads the rows of one large batch.                                      *)
(***************************************************************************)
Vocabulary(m) ==
  LET e == SelectSeq(m.ops, LAMBDA o : o.kind = "embedding")
  IN  FindTensor(m, e[1].inputs[2]).dims[1]
InputTensor(j, batch, index) ==
  IF TokenInput(j.source)
  THEN Flat(batch, LAMBDA e : Opaque(3, index * batch + e) % Vocabulary(j.source))
  ELSE Flat(batch * InDim(j.source), LAMBDA e : Opaque(4, index * batch * InDim(j.source) + e))
LabelTensor(j, batch, index, classes) ==
  IF j.config.loss = "mse"
  THEN Flat(batch * classes, LAMBDA e : Opaque(5, index * batch * classes + e))
  ELSE Flat(batch, LAMBDA e : Opaque(6, index * batch + e) % classes)

Corpus ==
  [input_kind |-> InputKind, label_kind |-> LabelKind,
   input_dim |-> IF TokenInput(Source) THEN Source.seq_len ELSE InDim(Source),
   label_bytes |-> kF32 * (IF LabelKind = "dense" THEN ShapeOf(b, graph.labels)[2] ELSE 1),
   largest |-> IF TokenInput(Source) THEN Vocabulary(Source) - 1
               ELSE ShapeOf(b, graph.out)[2] - 1]

PositionOf(m, name) == CHOOSE i \in DOMAIN m.tensors : m.tensors[i].name = name
WeightTensor(j, source) ==
  LET teacher == source.prefix = "t::"
      m == IF teacher THEN j.teacher ELSE j.source
      i == PositionOf(m, source.name)
  IN  Flat(Volume(m.tensors[i].dims),
           LAMBDA e : Opaque(100 + i + (IF teacher THEN 50 ELSE 0), e))
\* What the kernels widen a stored weight to.
AsStored(w, shape, storage) ==
  CASE storage = "int8" -> Dequantized(QuantizeQ8(w, shape[1], shape[2]),
                                       ColumnScale(w, shape[1], shape[2]),
                                       shape[1], shape[2])
    [] storage = "bf16" -> RoundBF16(w, shape[1], shape[2])
    [] OTHER -> w
\* The persistent image: counter_randn of the seed, or zeros.
CounterRandn(seed, i) == Opaque(200 + seed, i)
InitialTensor(bb, p) ==
  LET at == DefiningOp(bb, p).at
      n == Volume(ShapeOf(bb, p))
  IN  IF at.init = "randn" THEN Flat(n, LAMBDA e : CounterRandn(at.seed, e)) ELSE Zeros(n)

(***************************************************************************)
(* The reference.                                                          *)
(***************************************************************************)
\* The models with their loss, the grafted graph and the training graph; Nothing
\* where a pass refuses the job.
LossGraphOf(j, batch) == GraftLossOn(BuildGraphOf(j, batch), j.config)
TrainedOf(j, g, s, d) ==
  IF ~d.ok THEN Nothing
  ELSE [model |-> g, grafted |-> s.b, adapters |-> s.adapters, grads |-> d.grads,
        b |-> SynthesizeOptimizer(d.b, TrainablesOf(s.adapters), d.grads,
                                  j.config.optimizer, Accum(j.config),
                                  j.config.emit_optimizer)]
DifferentiatedOf(j, g, s) ==
  IF ~s.ok THEN Nothing
  ELSE TrainedOf(j, g, s, Backward(s.b, g.loss, TrainablesOf(s.adapters),
                                   Recip(Accum(j.config))))
GraftedOf(j, g, tile) == DifferentiatedOf(j, g, ShapeForTraining(g.b, j.config, tile))
TrainingGraphOf(j, built, tile) ==
  IF ~built.ok THEN Nothing ELSE GraftedOf(j, GraftLossOn(built, j.config), tile)

\* The same job with the whole window as one batch and nothing optional.
WholeWindow(j) ==
  [j EXCEPT !.config.batch = @ * Accum(j.config), !.config.accum = 1,
            !.config.attention = "materialized", !.config.rope_table = FALSE]

OracleOf(j) ==
  [k \in {"whole", "own"} |->
     IF ~ConfigAccepted(j) THEN Nothing
     ELSE LET own == k = "own"
              read == IF own THEN j ELSE WholeWindow(j)
          IN  TrainingGraphOf(read, BuildGraphOf(read, read.config.batch),
                              own /\ TilesAttention(j))]
Reference == oracle.whole
Differentiable == Reference # Nothing
Window == Accum(Config) * Config.batch

ParamsOf(bb) == {v \in 1..Len(bb.vals) : DefiningOp(bb, v).mn = "sc_mem.param"}
ById(bb, values, F(_)) == Walk(LAMBDA f, v : (IdOf(bb, v) :> F(v)) @@ f, Nothing,
                               SelectSeq(Tuple([i \in 1..Len(bb.vals) |-> i]),
                                         LAMBDA v : v \in values))

\* The tensors of a block's arguments and weights; weights as the function says.
GivenOf(j, bb, g, batch, index, Weight(_)) ==
  [v \in {g.input} \cup (IF g.labels = 0 THEN {} ELSE {g.labels}) |->
     IF v = g.input THEN InputTensor(j, batch, index)
     ELSE LabelTensor(j, batch, index, ShapeOf(bb, g.out)[2])]
    @@ [v \in DOMAIN g.sources |-> Weight(v)]

\* The weight of the training graph: what storage makes of it.
TrainedWeight(v) ==
  AsStored(WeightTensor(Jobs[job], graph.sources[v]), ShapeOf(b, v), StorageOf(narrow, v))

\* The reference's parameters and optimizer state after one window, with the
\* loss and the gradients it stepped on.
IdealWindow(params, index, hp) ==
  LET r == Reference
      given == [v \in ParamsOf(r.b) |-> params[IdOf(r.b, v)]]
                 @@ GivenOf(Jobs[job], r.b, r.model, Window, index, TrainedWeight)
      reached(env) ==
        [params |-> ById(r.b, ParamsOf(r.b), LAMBDA v : env[v]),
         loss |-> env[r.model.loss],
         grads |-> ById(r.b, DOMAIN r.grads, LAMBDA v : env[r.grads[v]])]
  IN  reached(RunOps(r.b, r.b.ops, Environment(r.b, given), hp))

\* The loss of the source model over weights W + s * A @ B.
AdaptedWeight(params, v, w) ==
  LET r == Reference
      i == AdapterOf(r.adapters, v)
      a == r.adapters[i]
      scale == Mul(Config.alpha, Recip(Config.rank))
      s == ShapeOf(r.grafted, v)
      rank == ShapeOf(r.grafted, a.A)[2]
      ab == GemmNN(params[IdOf(r.grafted, a.A)], params[IdOf(r.grafted, a.B)],
                   s[1], s[2], rank, None, "none", None)
  IN  IF i = 0 THEN w ELSE AddEW(w, Scale(ab, scale, s[1] * s[2]), s[1] * s[2])
LossOf(g, params, batch, index, Weight(_)) ==
  LET weight(v) == AdaptedWeight(params, v, Weight(v))
      j == [Jobs[job] EXCEPT !.config.batch = batch]
  IN  RunOps(g.b, g.b.ops, Environment(g.b, GivenOf(j, g.b, g, batch, index, weight)),
             Nothing)[g.loss]
ModelLoss(params, batch, index, Weight(_)) ==
  LossOf(LossGraphOf(Jobs[job], batch), params, batch, index, Weight)

(***************************************************************************)
(* The machine.                                                            *)
(***************************************************************************)
\* The rodata section: each pack at its offset, an element at its first byte.
PutBytes(mem, off, tensor, width) ==
  Walk(LAMBDA m, i : [m EXCEPT ![off + (i - 1) * width + 1] = tensor[i]], mem,
       Tuple([i \in 1..Len(tensor) |-> i]))
PackRodata(mem, pack) ==
  LET w == WeightTensor(Jobs[job], graph.sources[pack.value])
      s == ShapeOf(b, pack.value)
  IN  CASE pack.storage = "int8" ->
             PutBytes(PutBytes(mem, pack.offset, QuantizeQ8(w, s[1], s[2]), 1),
                      pack.scales_offset, ColumnScale(w, s[1], s[2]), kF32)
        [] pack.storage = "bf16" -> PutBytes(mem, pack.offset, RoundBF16(w, s[1], s[2]), 2)
        [] OTHER -> PutBytes(mem, pack.offset, w, kF32)
Rodata == Walk(PackRodata, Zeros(bind.rodata_size), bind.packs)

\* The source file: its metadata, then the constant tensors in their order.
SourceFile(Weight(_)) ==
  LET unit == kDataAlignment \div kF32
      padded(w) == w \o Zeros((-Len(w)) % unit)
  IN  Walk(LAMBDA cells, t : cells \o (IF t.const THEN padded(Weight(t.name)) ELSE << >>),
           Zeros(unit), Source.tensors)
FileWeight(name) == WeightTensor(Jobs[job], [prefix |-> "", name |-> name])

Memory == [arena |-> arena, rodata |-> rodata, source |-> SourceFile(FileWeight)]
Hyper == [lr |-> 17, wd |-> 5, step |-> steps + 1]

Cells(ref, n) == SubSeq(arena, ref.off \div kF32 + 1, ref.off \div kF32 + n)
ValueOf(v) == Cells(bind.refs[v], Volume(ShapeOf(b, v)))

\* The batch staged in the arena's slots.
Staged(mem, index) ==
  LET input == InputTensor(Jobs[job], Config.batch, index)
      classes == ShapeOf(Reference.model.b, Reference.model.out)[2]
      written == Store(mem.arena, plan.input, input)
  IN  [mem EXCEPT !.arena = IF graph.labels = 0 THEN written
                            ELSE Store(written, plan.labels,
                                       LabelTensor(Jobs[job], Config.batch, index, classes))]

\* The arena a process starts with: zeroed, the persistent image at its front.
FreshArena == Walk(LAMBDA a, p : Store(a, bind.refs[p], InitialTensor(b, p)),
                   Zeros(plan.arena_size \div kF32), bind.params)

\* Initialize.
Load ==
  /\ stage = "compiled"
  /\ stage' = "loaded"
  /\ arena' = FreshArena
  /\ ideal' = [params |-> ById(Reference.b, ParamsOf(Reference.b),
                               LAMBDA v : InitialTensor(Reference.b, v)),
               loss |-> None, grads |-> Nothing]
  /\ rodata' = Rodata
  /\ last' = "load"
  /\ UNCHANGED << oracle, job, why, tiled, b, graph, adapters, primal, grads, merge,
                  narrow, bind, plan, micro, steps, merged, saved >>

\* Training and loading a checkpoint move the parameters: the deltas an earlier
\* merge left may no longer be committed.
DeltasAreStale == merged' = FALSE

\* One micro-batch of training; without accumulation the program steps too.
TrainBatch ==
  /\ stage = "loaded" /\ steps < MaxSteps /\ micro < plan.accum
  /\ LET index == steps * plan.accum + micro
         alone == plan.accum = 1
     IN  /\ arena' = RunProgram(Staged(Memory, index), plan.train, Hyper).arena
         /\ micro' = IF alone THEN 0 ELSE micro + 1
         /\ steps' = IF alone THEN steps + 1 ELSE steps
         /\ ideal' = IF alone THEN IdealWindow(ideal.params, steps, Hyper) ELSE ideal
  /\ last' = "train" /\ DeltasAreStale
  /\ UNCHANGED << vars, oracle, rodata, saved >>

StepWindow ==
  /\ stage = "loaded" /\ plan.accum > 1 /\ micro = plan.accum
  /\ arena' = RunProgram(Memory, plan.step, Hyper).arena
  /\ micro' = 0 /\ steps' = steps + 1
  /\ ideal' = IdealWindow(ideal.params, steps, Hyper)
  /\ last' = "step"
  /\ UNCHANGED << vars, oracle, rodata, merged, saved >>

HeldOut == 9   \* the index of the batch an evaluation stages

Evaluate ==
  /\ stage = "loaded" /\ micro = 0 /\ last # "eval"
  /\ arena' = RunProgram(Staged(Memory, HeldOut), plan.eval, Hyper).arena
  /\ last' = "eval"
  /\ UNCHANGED << vars, oracle, rodata, micro, steps, ideal, merged, saved >>

RunMerge ==
  /\ stage = "loaded" /\ micro = 0 /\ last # "merge"
  /\ arena' = RunProgram(Memory, plan.merge, Hyper).arena
  /\ merged' = TRUE
  /\ last' = "merge"
  /\ UNCHANGED << vars, oracle, rodata, micro, steps, ideal, saved >>

\* A checkpoint keeps the persistent segment and nothing else of the arena.
Segment == SubSeq(arena, 1, plan.persistent_size \div kF32)
SaveCheckpoint ==
  /\ stage = "loaded" /\ micro = 0 /\ last \in {"train", "step"}
  /\ saved = Nothing   \* bound: one checkpoint in a behaviour
  /\ saved' = [segment |-> Segment, steps |-> steps, ideal |-> ideal]
  /\ UNCHANGED << vars, oracle, rodata, arena, micro, steps, ideal, last, merged >>

\* Loaded by the process that trained, wherever an error left it in a window, or
\* by a new one.
LoadCheckpoint ==
  /\ stage = "loaded" /\ saved # Nothing /\ last # "resume"
  /\ \E before \in {arena, FreshArena} :
       arena' = saved.segment \o SubSeq(before, Len(saved.segment) + 1, Len(before))
  /\ steps' = saved.steps /\ ideal' = saved.ideal /\ micro' = 0
  /\ last' = "resume" /\ DeltasAreStale
  /\ UNCHANGED << vars, oracle, rodata, saved >>

RunInit ==
  /\ Init
  /\ oracle = OracleOf(Jobs[job]) /\ rodata = << >>
  /\ arena = << >> /\ micro = 0 /\ steps = 0 /\ ideal = Nothing /\ last = "none"
  /\ merged = FALSE /\ saved = Nothing

Next ==
  \/ Compile /\ UNCHANGED runVars
  \/ Load \/ TrainBatch \/ StepWindow \/ Evaluate \/ RunMerge
  \/ SaveCheckpoint \/ LoadCheckpoint

Spec == RunInit /\ [][Next]_allVars

(***************************************************************************)
(* What must hold.                                                         *)
(***************************************************************************)
\* Parameters nothing is special about.
AnyParams(bb) == [v \in ParamsOf(bb) |-> Flat(Volume(ShapeOf(bb, v)),
                                             LAMBDA e : Opaque(300 + v, e))]
GivenHere(bb, Weight(_)) ==
  AnyParams(bb) @@ GivenOf(Jobs[job], bb, graph, Config.batch, 0, Weight)
FileTensor(v) == WeightTensor(Jobs[job], graph.sources[v])
EnvironmentAfter(bb, ops, Weight(_)) ==
  RunOps(bb, ops, Environment(bb, GivenHere(bb, Weight)), Hyper)

\* No pass breaks the block it rewrites: a job the driver and the frontend accept
\* is never refused by the pass manager's verifier, a boundary contract or the
\* instruction selector.
NothingBreaksInside == why \notin {"contract", "lowering"}

\* Grafting, tiling and hoisting leave the model alone but for its adapters: the
\* grafted graph's loss is the source model's over weights W + s * A @ B,
\* whatever A and B hold (lora_grafter.cc, attention_tiling.cc, rope_table.cc).
GraftedIsAdapted ==
  stage = "grafted" /\ Differentiable =>
    LET params == ById(b, ParamsOf(b), LAMBDA v : AnyParams(b)[v])
    IN  EnvironmentAfter(b, b.ops, FileTensor)[graph.loss]
          = ModelLoss(params, Config.batch, 0, FileTensor)

\* The backward program computes the derivative of the loss: along any direction
\* of the parameters, the gradients' sum is the loss's tangent (autodiff.cc, every
\* backward kernel).
GradientsAreDerivatives ==
  stage = "differentiated" =>
    LET pure == SelectSeq(b.ops, LAMBDA o : ~MutatesInPlace(o) \/ o.mn = "sc_low.attn_dq_tiled")
        along(tag) == [p \in DOMAIN grads |->
                         Flat(Volume(ShapeOf(b, p)), LAMBDA e : Opaque(tag + p, e))]
        inner(env, d) == Walk(LAMBDA n, p : N(n + Sum(Len(d[p]), LAMBDA e :
                                                Mul(At(env[grads[p]], e), At(d[p], e)))),
                              0, Trainables)
        agrees(env, d) ==
          inner(env, d) = Mul(Recip(Accum(Config)),
                              LossTangent(b, PrimalOps, env, d, graph.loss))
    IN  \A env \in {EnvironmentAfter(b, pure, FileTensor)} :
          \A tag \in {400, 500} : agrees(env, along(tag))

\* Every fuser and the sweep keep what the training program computes - the loss,
\* the gradients, the stepped parameters and their state - and what the
\* evaluation program, which is rebound to what they left, computes.
FusionKeepsThePrograms ==
  stage \in {"epilogues", "addends", "chains", "swept"} =>
    LET u == oracle.own
        same(before, after, eval) ==
          /\ \A v \in Protected \cup ParamsOf(b) : after[v] = before[v]
          /\ eval[graph.loss] = before[graph.loss]
    IN  same(EnvironmentAfter(u.b, u.b.ops, TrainedWeight),
             EnvironmentAfter(b, b.ops, TrainedWeight),
             EnvironmentAfter(b, PrimalOps, TrainedWeight))

\* What the sweep leaves can be bound: every value, of the merge program too, has a
\* size, and every frozen weight the tensor its bytes come from: the error of a
\* weight without one is never met (arena_binder.cc:22-24, 226, 252-261).
HasSizes(bb) ==
  /\ Len(bb.ops) \in Nat /\ DOMAIN bb.ops = 1..Len(bb.ops)
  /\ bb.args \in Seq(DOMAIN bb.vals)
  /\ \A i \in DOMAIN bb.ops :
       /\ bb.ops[i].out \in Seq(DOMAIN bb.vals)
       /\ IsMemoryOp(bb.ops[i]) => Len(bb.ops[i].out) > 0
  /\ \A v \in DOMAIN bb.vals : Volume(ShapeOf(bb, v)) \in Nat \ {0}
SweptIsBindable ==
  stage = "swept" =>
    /\ HasSizes(b) /\ HasSizes(merge.b)
    /\ \A i \in DOMAIN b.ops : b.ops[i].mn = "sc_mem.weight" =>
                               b.ops[i].out[1] \in DOMAIN graph.sources

\* A value is never placed over another that is still to be read: while an
\* operation runs, the values alive - defined by then, read by it or later, or
\* read after the program - keep apart (arena_binder.cc), and the deltas the merge
\* program leaves for the commit lie behind them all (update_compiler.cc:563-583).
Span(v) ==
  LET born == {i \in DOMAIN b.ops : Defines(b.ops[i], v)}
      reads == {i \in DOMAIN b.ops : \E s \in DOMAIN b.ops[i].in : b.ops[i].in[s] = v}
      param == \A i \in born : b.ops[i].mn = "sc_mem.param"   \* or an argument
      first == IF param THEN 0 ELSE CHOOSE i \in born : TRUE
  IN  << first, IF param \/ v \in Protected THEN Len(b.ops) + 1
                ELSE CHOOSE i \in reads \cup {first} : \A k \in reads : k <= i >>
LiveValuesAreApart ==
  stage = "bound" =>
    LET inArena == {v \in DOMAIN bind.refs : bind.refs[v].sp = "arena"}
        spans == [v \in inArena |-> Span(v)]
        end(v) == bind.refs[v].off + Volume(ShapeOf(b, v)) * kF32
    IN  /\ \A v, w \in inArena :
             \/ v = w
             \/ spans[v][2] < spans[w][1] \/ spans[w][2] < spans[v][1]
             \/ end(v) <= bind.refs[w].off \/ end(w) <= bind.refs[v].off
        /\ \A v \in inArena : \A d \in DOMAIN bind.merge \ DOMAIN merge.aliases :
             end(v) <= bind.merge[d].off

\* Whatever the compiler emits the engine accepts - the header, every instruction,
\* the indexed operands - and with it the corpus the models were written for
\* (contract.cc, plan_validator.cc, UpdateEngine::Initialize).
ProgramsAreAccepted ==
  stage = "compiled" =>
    /\ Accepts(plan, plan)
    /\ VerifyFeederContract(plan, Corpus, NumClasses(plan), VocabBound(plan))

\* What the compiler emits fits the words of its plan, with room to spare, and the
\* program of the optimizer's steps, whose widths the engine leaves out when it looks
\* for the narrowest softmax and the smallest table, indexes nothing
\* (update_engine.cc:323-353, update_compiler.cc:634-655).
PlanFitsItsWords ==
  stage = "compiled" =>
    /\ Programs \subseteq DOMAIN plan
    /\ plan.arena_size \in kF32..(WordSize - 64) /\ plan.rodata_size \in Word
    /\ plan.batch \in Nat
    /\ \A p \in Programs : \A i \in DOMAIN plan[p] : LeavesRoom(plan[p][i])
    /\ \A i \in DOMAIN plan.step : plan.step[i].op \notin SoftmaxLabels \cup {"embed_fwd"}

\* And the proof is sound: an instruction the engine accepts may run, whichever
\* single word of a compiled instruction is damaged - a reference, a count or half
\* of a packed pair, up to the values whose sums and products wrap
\* (plan_validator.h:20-32, contract.cc:131-208).
AcceptedIsSafe ==
  stage = "compiled" =>
    \A p \in Programs : \A i \in DOMAIN plan[p] :
      LET ctx == ContextOf(p, plan)
          bound(ins) == LET damaged == [plan EXCEPT ![p][i] = ins]
                        IN  [classes |-> NumClasses(damaged), vocab |-> VocabBound(damaged)]
      IN  \A ins \in OneWordOff(plan[p][i], ctx) :
            InstructionAccepted(ins, p, plan) =>
              MayTouch(ins, ctx) /\ MayIndex(ins, plan, bound(ins))

\* Training on the device is training the graph: after each window the parameters
\* and the optimizer's state in the arena are the reference's, trained on the
\* window as one batch, and so are the loss and the gradients of a batch; no
\* evaluation or merge in between disturbs them.
TrainingIsTheGraph ==
  stage = "loaded" =>
    /\ \A i \in DOMAIN bind.params :
         LET p == bind.params[i] IN
         IdOf(b, p) \in DOMAIN ideal.params => ValueOf(p) = ideal.params[IdOf(b, p)]
    /\ last = "train" /\ Accum(Config) = 1 =>
         /\ ValueOf(graph.loss) = ideal.loss
         /\ \A p \in DOMAIN grads : ValueOf(grads[p]) = ideal.grads[IdOf(b, p)]

\* An evaluation scores what a commit would ship: the source file's f32 weights
\* plus the adapters' product, whatever copies training reads (in memory, with no
\* file to read, the stored weights stand in).
EvaluationScoresWhatShips ==
  last = "eval" =>
    LET weight(v) == IF v \in DOMAIN narrow /\ ~Jobs[job].from_file
                     THEN TrainedWeight(v) ELSE FileTensor(v)
    IN  ValueOf(graph.loss) = ModelLoss(ideal.params, Config.batch, HeldOut, weight)

\* What may be committed is what was trained: whenever merged_ lets a commit
\* through, the deltas in the arena, added to the source file where the emit table
\* says, give the model with its current adapters folded in - whatever was trained,
\* evaluated, loaded or merged before (UpdateEngine::CommitToModel).
Patched(cells) ==
  Walk(LAMBDA c, e : LET n == e.bytes \div kF32  at == e.file \div kF32 IN
         Store(c, SourceRef(e.file),
               AddEW(SubSeq(c, at + 1, at + n), Cells(ArenaRef(e.arena), n), n)),
       cells, plan.emit)
CommitsAreCurrent ==
  merged =>
    LET named(name) == {v \in DOMAIN graph.sources :
                          graph.sources[v] = [prefix |-> "", name |-> name]}
        adapted(name) ==
          IF named(name) = {} THEN FileWeight(name)
          ELSE AdaptedWeight(ideal.params, CHOOSE v \in named(name) : TRUE, FileWeight(name))
    IN  Patched(SourceFile(FileWeight)) = SourceFile(adapted)
=============================================================================
