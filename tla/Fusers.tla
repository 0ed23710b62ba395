------------------------------- MODULE Fusers -------------------------------
(***************************************************************************)
(* The passes that rewrite the training graph into fewer operations once   *)
(* it is differentiated - a product with its bias and activation, a        *)
(* product with the sum that reads it, a chain of elementwise operations - *)
(* and the sweep that removes what they orphan.  `protected` are the       *)
(* values read from outside the block, `narrow` the weights stored         *)
(* narrower than f32; the state of a fuser is the block and the operations *)
(* it orphaned.                                                            *)
(***************************************************************************)
EXTENDS Autodiff

HasOneUse(b, v) == Len(UsersOf(b, v)) = 1
OneUser(b, v) == OpOf(b, UsersOf(b, v)[1])
Activations == {"sc_high.relu", "sc_high.gelu", "sc_high.silu"}
Short(op) == SubSeq(op.mn, 9, Len(op.mn))
Unary(op) == Len(op.in) = 1 /\ Len(op.out) = 1
Without(st, ops) == [st EXCEPT !.gone = @ \cup ops]

OpPrecedes(b, a, c) == HasOp(b, a) /\ OpIndex(b, a) < OpIndex(b, c)

(***************************************************************************)
(* epilogue_fuser.cc: act(x @ W + bias) becomes one product, whose result  *)
(* takes over every reader of the chain's.                                 *)
(***************************************************************************)
\* The bias is declared above the product, or can be: it is a storage
\* declaration.
BiasReady(b, bias, gemm) ==
  LET def == DefiningOp(b, bias)
  IN  def = NoOp \/ OpPrecedes(b, def.uid, gemm) \/ IsMemoryOp(def)
Hoisted_InPlace(b, bias, gemm) == b   \* the declaration stays below the product
Hoisted(b, bias, gemm) ==
  LET def == DefiningOp(b, bias)
  IN  IF def = NoOp \/ OpPrecedes(b, def.uid, gemm) THEN b
      ELSE MoveOpBefore(b, def.uid, gemm)

\* The only reader of a value; an orphan of an earlier fusion still counts.
LoneReader_First(b, y) == IF UsersOf(b, y) = << >> THEN NoOp ELSE OneUser(b, y)
LoneReader(b, y) == IF HasOneUse(b, y) THEN OneUser(b, y) ELSE NoOp

\* A bias and, when it alone reads the biased sum, the activation after it.
FuseBias(st, gemm, user, protected) ==
  LET y == user.out[1]
      bias == user.in[2]
      b == Hoisted(st.b, bias, gemm.uid)
      act == LoneReader(b, y)
      both == /\ act.mn \in Activations /\ Unary(act)
              /\ {y, act.out[1]} \cap protected = {}
      biased == AddOperand(b, gemm.uid, bias)
  IN  IF ~BiasReady(st.b, bias, gemm.uid) THEN st
      ELSE IF both
      THEN Without([st EXCEPT !.b = ReplaceAllUsesWith(
                      SetAttribute(biased, gemm.uid, "epilogue_act", Short(act)),
                      act.out[1], gemm.out[1])], {user.uid, act.uid})
      ELSE IF y \in protected THEN [st EXCEPT !.b = b]
      ELSE Without([st EXCEPT !.b = ReplaceAllUsesWith(biased, y, gemm.out[1])],
                   {user.uid})

FuseEpilogueOf(st, uid, narrow, protected) ==
  LET gemm == OpOf(st.b, uid)
      c == gemm.out[1]
      user == OneUser(st.b, c)
  IN  IF \/ gemm.mn # "sc_high.matmul" \/ Len(gemm.in) # 2
         \/ ~HasOneUse(st.b, c) \/ c \in protected
      THEN st
      ELSE IF user.mn = "sc_high.add_bias" /\ user.in[1] = c /\ gemm.in[2] \notin narrow
      THEN FuseBias(st, gemm, user, protected)
      ELSE IF user.mn \in Activations /\ Unary(user) /\ user.out[1] \notin protected
      THEN Without([st EXCEPT !.b = ReplaceAllUsesWith(
                      SetAttribute(@, uid, "epilogue_act", Short(user)),
                      user.out[1], c)], {user.uid})
      ELSE st

Over(b, F(_, _)) ==
  Walk(LAMBDA st, op : F(st, op.uid), [b |-> b, gone |-> {}], b.ops)

FuseGemmEpilogue(b, narrow, protected) ==
  Over(b, LAMBDA st, uid : FuseEpilogueOf(st, uid, narrow, protected))

(***************************************************************************)
(* addend_fuser.cc: z + a @ b becomes the product with z as its addend,    *)
(* executed where the sum was.                                             *)
(***************************************************************************)
MutatesInPlace(op) ==
  op.mn \in {"sc_low.clip_norm", "sc_low.sgd_step", "sc_low.adamw_step",
             "sc_low.gemm_acc", "sc_low.accumulate", "sc_low.zero",
             "sc_low.attn_dq_tiled"}

GemmForms == ("sc_high.matmul" :> "nn" @@ "sc_low.matmul_nt" :> "nt"
                @@ "sc_low.matmul_tn" :> "tn")
PlainGemm(op) ==
  /\ op.mn \in DOMAIN GemmForms /\ Len(op.in) = 2 /\ Len(op.out) = 1
  /\ "epilogue_act" \notin DOMAIN op.at
InnerDim(b, gemm) ==
  ShapeOf(b, gemm.in[1])[IF gemm.mn = "sc_low.matmul_tn" THEN 1 ELSE 2]

\* The product behind operand i of a sum can move down to the sum.
CanFold(b, add, i, narrow, protected) ==
  LET v == add.in[i]
      gemm == DefiningOp(b, v)
  IN  /\ HasOneUse(b, v) /\ v \notin protected
      /\ PlainGemm(gemm)
      /\ ShapeOf(b, v) = ShapeOf(b, add.out[1])
      /\ ShapeOf(b, add.in[3 - i]) = ShapeOf(b, add.out[1])
      /\ {gemm.in[1], gemm.in[2]} \cap narrow = {}
      /\ \A j \in (OpIndex(b, gemm.uid) + 1)..(OpIndex(b, add.uid) - 1) :
           ~MutatesInPlace(b.ops[j])

FoldInto(st, add, i) ==
  LET gemm == DefiningOp(st.b, add.in[i])
      addend == SetOperand(st.b, add.uid, 1, add.in[3 - i])
      left == SetOperand(addend, add.uid, 2, gemm.in[1])
      right == AddOperand(left, add.uid, gemm.in[2])
  IN  Without([st EXCEPT !.b = SetAttribute(right, add.uid, "gemm_addend",
                                            GemmForms[gemm.mn])], {gemm.uid})

FuseAddendOf(st, uid, narrow, protected) ==
  LET add == OpOf(st.b, uid)
      fits == {i \in {1, 2} : CanFold(st.b, add, i, narrow, protected)}
      inner(i) == InnerDim(st.b, DefiningOp(st.b, add.in[i]))
  IN  IF \/ add.mn # "sc_high.add" \/ Len(add.in) # 2
         \/ "fused_stages" \in DOMAIN add.at
         \/ add.in[1] = add.in[2]
         \/ Len(ShapeOf(st.b, add.out[1])) # 2
         \/ fits = {}
      THEN st
      ELSE FoldInto(st, add, CHOOSE i \in fits : \A j \in fits :
                               inner(i) < inner(j) \/ (inner(i) = inner(j) /\ i <= j))

FuseGemmAddend(b, narrow, protected) ==
  Over(b, LAMBDA st, uid : FuseAddendOf(st, uid, narrow, protected))

(***************************************************************************)
(* chain_fuser.cc: a run of same-shaped elementwise operations, each the   *)
(* only reader of the one before, becomes one micro-program at its tail.   *)
(***************************************************************************)
kFusedMapMaxStages == 4

StageKind(op) ==
  LET binary == Len(op.in) = 2 IN
  CASE "fused_stages" \in DOMAIN op.at \/ Len(op.out) # 1 -> "none"
    [] op.mn = "sc_high.add" /\ binary -> "add"
    [] op.mn \in {"sc_high.mul", "sc_low.mul"} /\ binary -> "mul"
    [] op.mn \in {"sc_high.scale", "sc_low.scale"} /\ Len(op.in) = 1 -> "scale"
    [] op.mn \in Activations /\ Len(op.in) = 1 -> Short(op)
    [] OTHER -> "none"
IsBinary(kind) == kind \in {"add", "mul"}

\* One shape throughout, and no storage a step between could rewrite.
Foldable(b, op, shape) ==
  /\ ShapeOf(b, op.out[1]) = shape
  /\ \A i \in DOMAIN op.in : /\ ShapeOf(b, op.in[i]) = shape
                             /\ DefiningOp(b, op.in[i]).mn # "sc_mem.param"
  /\ IsBinary(StageKind(op)) => op.in[1] # op.in[2]

\* Where x stands in s, or the next free place.
SlotOf(s, x) ==
  IF \E i \in DOMAIN s : s[i] = x
  THEN CHOOSE i \in DOMAIN s : s[i] = x /\ \A j \in DOMAIN s : s[j] = x => i <= j
  ELSE Len(s) + 1
Including(s, x) == IF SlotOf(s, x) > Len(s) THEN Append(s, x) ELSE s

\* Chain::Append: the chain with the operation as its next stage, or unchanged
\* when the micro-program has no room for it.
AppendStage(chain, op, run) ==
  LET kind == StageKind(op)
      other == IF IsBinary(kind) THEN op.in[3 - run] ELSE 0
      alpha == Attr(op, "alpha", 1)
      others == IF IsBinary(kind) THEN Including(chain.others, other) ELSE chain.others
      imms == IF kind = "scale" THEN Including(chain.imms, alpha) ELSE chain.imms
      arg == IF IsBinary(kind) THEN SlotOf(others, other)
             ELSE IF kind = "scale" THEN SlotOf(imms, alpha) - 1 ELSE 0
  IN  IF Len(chain.ops) = kFusedMapMaxStages \/ Len(others) > 2 \/ Len(imms) > 2
      THEN chain
      ELSE [ops |-> Append(chain.ops, op.uid), others |-> others, imms |-> imms,
            stages |-> Append(chain.stages, [kind |-> kind, arg |-> arg])]

\* The chain, grown as far as its running value has one reader that fits.
GrowChain(b, head, shape, absorbed, protected) ==
  LET extend(chain, i) ==
        LET v == OpOf(b, chain.ops[Len(chain.ops)]).out[1]
            user == OneUser(b, v)
        IN  IF \/ Len(chain.ops) # i \/ ~HasOneUse(b, v) \/ v \in protected
               \/ StageKind(user) = "none" \/ user.uid \in absorbed
               \/ ~Foldable(b, user, shape)
            THEN chain
            ELSE AppendStage(chain, user, IF user.in[1] = v THEN 1 ELSE 2)
  IN  Walk(extend,
           AppendStage([ops |-> << >>, others |-> << >>, imms |-> << >>,
                        stages |-> << >>], head, 1),
           [i \in 1..kFusedMapMaxStages |-> i])

RewriteTail(b, tail, operands, chain) ==
  LET n == Len(OpOf(b, tail).in)
      put(bb, i) == IF i <= n THEN SetOperand(bb, tail, i, operands[i])
                    ELSE AddOperand(bb, tail, operands[i])
  IN  SetAttribute(SetAttribute(Walk(put, b, Tuple([i \in DOMAIN operands |-> i])),
                                tail, "fused_stages", chain.stages),
                   tail, "fused_imm", chain.imms)

FuseChain(st, head, chain, members) ==
  LET tail == chain.ops[Len(chain.ops)]
  IN  [b |-> RewriteTail(st.b, tail, << head.in[1] >> \o chain.others, chain),
       gone |-> st.gone \cup (members \ {tail}),
       absorbed |-> st.absorbed \cup members]
Folded(st, head, chain) ==
  IF Len(chain.ops) < 2 THEN st
  ELSE FuseChain(st, head, chain, {chain.ops[i] : i \in DOMAIN chain.ops})
FuseChainFrom(st, head, protected) ==
  LET shape == ShapeOf(st.b, head.out[1])
  IN  IF head.uid \in st.absorbed \/ StageKind(head) = "none" \/ ~Foldable(st.b, head, shape)
      THEN st
      ELSE Folded(st, head, GrowChain(st.b, head, shape, st.absorbed, protected))

FuseElementwise(b, protected) ==
  Walk(LAMBDA st, op : FuseChainFrom(st, OpOf(st.b, op.uid), protected),
       [b |-> b, gone |-> {}, absorbed |-> {}], b.ops)

(***************************************************************************)
(* dce.cc: one backward sweep; a dead reader releases its operands.        *)
(***************************************************************************)
IsEffectful(op) == IsMemoryOp(op) \/ MutatesInPlace(op)

DeadOps(b, roots) ==
  LET n == Len(b.ops)
      read(dead, v) == \E i \in DOMAIN UsersOf(b, v) : UsersOf(b, v)[i] \notin dead
      sweep(dead, i) ==
        LET op == b.ops[n + 1 - i]
        IN  IF \/ IsEffectful(op)
               \/ \E r \in DOMAIN op.out : read(dead, op.out[r]) \/ op.out[r] \in roots
            THEN dead ELSE dead \cup {op.uid}
  IN  Walk(sweep, {}, [i \in 1..n |-> i])

EliminateDeadCode(b, roots) == RemoveOps(b, DeadOps(b, roots))
=============================================================================
