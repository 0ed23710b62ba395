---------------------------- MODULE PlanContract ----------------------------
(***************************************************************************)
(* What the engine demands of a plan before it runs it                     *)
(* (src/runtime/dispatcher/contract.cc and UpdateEngine::Initialize): the  *)
(* header agrees with the blob, every instruction passes its proof, and    *)
(* the operands whose values index memory - class labels, token ids - are  *)
(* the staged slots, whose values the feeder contract bounds.              *)
(*                                                                         *)
(* Programs are a record [train, merge, eval, step] of instruction         *)
(* sequences; the header h is the record the compiler's driver assembles,  *)
(* with h.at the offset of each section.                                   *)
(***************************************************************************)
EXTENDS PlanValidator

CONSTANTS
  HeaderBytes,    \* sizeof(PlanHeader)
  InstrBytes,     \* sizeof(UpdateInstruction)
  EmitBytes       \* sizeof(EmitEntry)

Programs == {"train", "merge", "eval", "step"}
kSeeuGradAccumVersion == 9
kSeeuGemmTilesVersion == 11

SlotOk(ref, bytes, h) ==
  ref.sp # "rodata" /\ ref.off % kF32 = 0 /\ RangeOk(ref.off, bytes, h.arena_size)

VerifyPlanContract(programs, h) ==
  /\ \A p \in Programs :
       /\ MulOk(Len(programs[p]), InstrBytes)
       /\ RangeOk(h.at[p], WordMul(Len(programs[p]), InstrBytes), h.plan_size)
  /\ MulOk(Len(h.emit), EmitBytes)
  /\ RangeOk(h.at.emit, WordMul(Len(h.emit), EmitBytes), h.plan_size)
  /\ RangeOk(h.at.rodata, h.rodata_size, h.plan_size)
  /\ RangeOk(h.at.persist, h.persistent_size, h.plan_size)
  /\ h.tile_k % 4 = 0
  /\ h.version < kSeeuGemmTilesVersion => h.tile_k = 0
  /\ (h.accum > 1) = (Len(programs.step) > 0)
  /\ h.version < kSeeuGradAccumVersion => h.accum <= 1 /\ programs.step = << >>
  /\ h.batch # 0 /\ h.input_floats # 0
  /\ h.arena_size <= WordSize - 64
  /\ h.persistent_size <= h.arena_size
  /\ MulOk(h.input_floats, kF32)
  /\ SlotOk(h.input, WordMul(h.input_floats, kF32), h)
  /\ h.label_kind # "none" => SlotOk(h.labels, h.label_bytes, h)
  /\ SlotOk(h.loss, kF32, h)

\* Where a program's values are used as indices they are the staged ones.
SoftmaxLabels == {"softmax_xent_fwd", "softmax_xent_bwd"}
IndicesAreStaged(ins, h) ==
  /\ ins.op \in SoftmaxLabels =>
       h.label_kind = "class" /\ ins.in[2] = h.labels /\ ins.out[1] = h.batch
  /\ ins.op = "embed_fwd" =>
       h.input_kind = "tokens" /\ ins.in[1] = h.input /\ ins.out[1] = h.batch

\* Only the evaluation program may read the source file.
ContextOf(program, h) ==
  [arena_size |-> h.arena_size, rodata_size |-> h.rodata_size, version |-> h.version,
   allow_source |-> program = "eval"]
InstructionAccepted(ins, program, h) ==
  /\ ValidateInstruction(ins, ContextOf(program, h))
  /\ ~("relaxed" \in ins.flags /\ program \in {"eval", "merge"})
  /\ IndicesAreStaged(ins, h)

VerifyExecutorContract(programs, h) ==
  /\ \A p \in Programs : \A i \in DOMAIN programs[p] :
       InstructionAccepted(programs[p][i], p, h)
  /\ \A i \in DOMAIN h.emit :
       LET e == h.emit[i] IN
         /\ RangeOk(e.arena, e.bytes, h.arena_size)
         /\ e.arena % kF32 = 0 /\ e.bytes % kF32 = 0

\* The widths the programs index with labels, the tables they index with tokens;
\* the feeder must stay below the narrowest of each, 0 when there is none.
Widths(programs, names, ops, Width(_)) ==
  UNION {{Width(programs[p][i]) : i \in {j \in DOMAIN programs[p] : programs[p][j].op \in ops}} :
           p \in names}
Narrowest(widths) ==
  IF widths \ {0} = {} THEN 0
  ELSE CHOOSE w \in widths \ {0} : \A x \in widths \ {0} : w <= x
NumClasses(programs) ==
  Narrowest(Widths(programs, {"train", "merge", "eval"}, SoftmaxLabels, LAMBDA i : i.out[2]))
VocabBound(programs) ==
  Narrowest(Widths(programs, {"train", "merge", "eval"}, {"embed_fwd"}, LAMBDA i : i.out[2][1]))

\* UpdateEngine::Initialize.
Accepts(programs, h) ==
  LET forward == Widths(programs, {"train", "eval"}, {"softmax_xent_fwd"}, LAMBDA i : i.out[2])
  IN  /\ VerifyPlanContract(programs, h)
      /\ VerifyExecutorContract(programs, h)
      /\ Cardinality(forward) <= 1
      /\ h.label_kind = "class" => forward \ {0} # {}
      /\ h.input_kind = "tokens" =>
           VocabBound(programs) # 0 /\ h.seq_len # 0 /\ h.batch % h.seq_len = 0

\* A corpus is [input_kind, input_dim, label_kind, label_bytes, largest]: the width
\* of a record, the bytes of one sample's label, and the largest of its labels and
\* token ids.
VerifyFeederContract(h, data, classes, vocab) ==
  IF h.input_kind = "tokens"
  THEN /\ data.input_kind = "tokens" /\ data.input_dim = h.seq_len
       /\ h.input_floats = h.batch
       /\ h.label_kind \in {"class", "none"}
       /\ h.label_kind = "class" => h.label_bytes = WordMul(h.batch, kF32)
       /\ data.largest < Narrowest({vocab, classes})
  ELSE /\ data.input_kind = "features"
       /\ h.input_floats = WordMul(h.batch, data.input_dim)
       /\ h.label_kind # "none" => /\ data.label_kind = h.label_kind
                                   /\ h.label_bytes = WordMul(h.batch, data.label_bytes)
       /\ h.label_kind = "class" => data.largest < classes
=============================================================================
