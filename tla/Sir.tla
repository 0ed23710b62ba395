-------------------------------- MODULE Sir --------------------------------
(***************************************************************************)
(* The compiler's intermediate representation                              *)
(* (src/compiler/frontend/representation): a block of operations in        *)
(* program order over SSA values, every value with the use-list the passes *)
(* rewrite through.                                                        *)
(*                                                                         *)
(* A block is a record:                                                    *)
(*   args   the values that are its arguments                              *)
(*   ops    the operations in program order                                *)
(*   vals   vals[v] is the value v: its id, its shape, its use-list (the   *)
(*          operations that read it, one entry per operand slot)           *)
(*   uids   how many operations were ever created                          *)
(*   autos  Operation::id_counter_, the numbers of the generated ids       *)
(* An operation is [uid, mn, in, out, at]: who it is, its mnemonic, its    *)
(* operands and results (values) and its attributes.  Pointers of the code *)
(* are the values' indices and the operations' uids; what a removed        *)
(* operation leaves in vals is memory no operation reaches any more.       *)
(***************************************************************************)
EXTENDS Integers, Sequences, FiniteSets, TLC

\* A left fold evaluated strictly and in order: each step takes the value before it
\* from a one-element set, and the steps are grouped so that their recursion stays
\* shallow (TLC unfolds the community modules' folds over the set of indices,
\* which is quadratic, and passes their steps down unevaluated).
kGroup == 12
Steps(Op(_, _), base, s, lo, hi) ==
  LET f[i \in lo..hi] ==
        IF i = lo THEN base
        ELSE CHOOSE next \in {Op(sofar, s[i]) : sofar \in {f[i - 1]}} : TRUE
  IN  f[hi]
UpTo(k, n) == IF k * kGroup < n THEN k * kGroup ELSE n
Walk(Op(_, _), base, s) ==
  LET groups[k \in 0..(Len(s) \div kGroup + 1)] ==
        IF k = 0 THEN base
        ELSE CHOOSE next \in {Steps(Op, sofar, s, UpTo(k - 1, Len(s)), UpTo(k, Len(s))) :
                                 sofar \in {groups[k - 1]}} : TRUE
  IN  groups[Len(s) \div kGroup + 1]

\* The sequence an enumerating function stands for, evaluated.
Tuple(f) == f \o << >>

\* The elements of a sequence at the given indices, in their order.
Subsequence(s, indices) ==
  LET upto[i \in 0..Len(s)] ==
        IF i = 0 THEN << >>
        ELSE IF i \in indices THEN Append(upto[i - 1], s[i]) ELSE upto[i - 1]
  IN  upto[Len(s)]

NoAttrs == [none \in {} |-> 0]
NoOp == [uid |-> 0, mn |-> "none", in |-> << >>, out |-> << >>, at |-> NoAttrs]

EmptyBlock == [args |-> << >>, ops |-> << >>, vals |-> << >>,
               uids |-> 0, autos |-> 0]

(* Block::ops_ and Value accessors. *)
OpIndex(b, uid) == CHOOSE i \in DOMAIN b.ops : b.ops[i].uid = uid
OpOf(b, uid) == b.ops[OpIndex(b, uid)]
HasOp(b, uid) == \E i \in DOMAIN b.ops : b.ops[i].uid = uid
Defines(op, v) == \E i \in DOMAIN op.out : op.out[i] = v
\* Value::definingOp; NoOp for an argument.
FirstOp(ops) == IF ops = << >> THEN NoOp ELSE ops[1]
DefiningOp(b, v) == FirstOp(SelectSeq(b.ops, LAMBDA o : Defines(o, v)))
UsersOf(b, v) == b.vals[v].users
ShapeOf(b, v) == b.vals[v].shape
IdOf(b, v) == b.vals[v].id
Attr(op, key, default) == IF key \in DOMAIN op.at THEN op.at[key] ELSE default
IsMemoryOp(op) == op.mn \in {"sc_mem.weight", "sc_mem.param"}

Volume(shape) == Walk(LAMBDA n, d : n * d, 1, shape)

\* Value::addUser, removeUser.
AddUser(vals, v, uid) == [vals EXCEPT ![v].users = Append(@, uid)]
RemoveUser(vals, v, uid) ==
  LET u == vals[v].users
      hits == {i \in DOMAIN u : u[i] = uid}
      first == CHOOSE i \in hits : \A j \in hits : i <= j
  IN  IF hits = {} THEN vals
      ELSE [vals EXCEPT ![v].users = SubSeq(u, 1, first - 1)
                                       \o SubSeq(u, first + 1, Len(u))]

\* A result's id: the one asked for, or a generated one when it is empty.
FreshId(b, id) == IF id = "" THEN "%" \o ToString(b.autos) ELSE id

\* Block::addArgument.
AddArgument(b, shape) ==
  [b EXCEPT !.vals = Append(@, [id |-> FreshId(b, ""), shape |-> shape,
                                users |-> << >>]),
            !.args = Append(@, Len(b.vals) + 1),
            !.autos = @ + 1]

\* An Operation is built (addOperand registers each use, addResult creates each
\* result) and stands ready to be placed: the new block and the operation.
\* outs is the sequence of the results' [id, shape].
AddUsers(vals, in, uid) == Walk(LAMBDA vs, v : AddUser(vs, v, uid), vals, in)
AddResult(st, o) ==
  [vals |-> Append(st.vals, [id |-> IF o.id = "" THEN "%" \o ToString(st.autos) ELSE o.id,
                             shape |-> o.shape, users |-> << >>]),
   autos |-> IF o.id = "" THEN st.autos + 1 ELSE st.autos]
MakeOp(b, mn, in, outs, at) ==
  LET with(st) ==
        [b  |-> [b EXCEPT !.vals = st.vals, !.autos = st.autos, !.uids = @ + 1],
         op |-> [uid |-> b.uids + 1, mn |-> mn, in |-> in,
                 out |-> Tuple([i \in 1..Len(outs) |-> Len(b.vals) + i]), at |-> at]]
  IN  with(Walk(AddResult, [vals |-> AddUsers(b.vals, in, b.uids + 1), autos |-> b.autos],
                outs))

\* Block::appendOp: at the end of the block.
Placed(m) == [m.b EXCEPT !.ops = Append(@, m.op)]
Emit(b, mn, in, outs, at) == Placed(MakeOp(b, mn, in, outs, at))
LastOp(b) == b.ops[Len(b.ops)]
LastResult(b) == LastOp(b).out[1]
Out(id, shape) == << [id |-> id, shape |-> shape] >>

\* Block::insertOpsAfter.
InsertOpsAfter(b, anchor, new) ==
  LET i == OpIndex(b, anchor)
  IN  [b EXCEPT !.ops = SubSeq(@, 1, i) \o new \o SubSeq(@, i + 1, Len(@))]

\* Block::moveOpBefore: only an operand-less operation is hoisted.
InsertedAt(s, k, x) == SubSeq(s, 1, k - 1) \o << x >> \o SubSeq(s, k, Len(s))
MoveOpBefore(b, uid, anchor) ==
  LET before(rest) ==
        InsertedAt(rest, CHOOSE i \in DOMAIN rest : rest[i].uid = anchor, OpOf(b, uid))
  IN  [b EXCEPT !.ops = before(SelectSeq(@, LAMBDA o : o.uid # uid))]

\* Block::removeOps (and removeOp, its one-element case): every removed
\* operation leaves its operands' use-lists, then one stable compaction.
RemoveOps(b, uids) ==
  LET Unlink(vals, op) == IF op.uid \in uids
                          THEN Walk(LAMBDA vs, v : RemoveUser(vs, v, op.uid),
                                    vals, op.in)
                          ELSE vals
  IN  [b EXCEPT !.vals = Walk(Unlink, @, b.ops),
                !.ops = SelectSeq(@, LAMBDA o : o.uid \notin uids)]

\* Operation::setOperand.
SetOperand(b, uid, slot, v) ==
  LET i == OpIndex(b, uid)
      old == b.ops[i].in[slot]
  IN  [b EXCEPT !.vals = AddUser(RemoveUser(@, old, uid), v, uid),
                !.ops[i].in[slot] = v]

\* Operation::addOperand on an operation already placed.
AddOperand(b, uid, v) ==
  [b EXCEPT !.vals = AddUser(@, v, uid),
            !.ops[OpIndex(b, uid)].in = Append(@, v)]

\* Operation::setAttribute.
SetAttribute(b, uid, key, x) ==
  [b EXCEPT !.ops[OpIndex(b, uid)].at = (key :> x) @@ @]

Rewire_First(b, users, v, w) ==   \* only the first reader follows
  IF users = << >> THEN b
  ELSE Walk(LAMBDA bb, slot : IF OpOf(bb, users[1]).in[slot] = v
                              THEN SetOperand(bb, users[1], slot, w) ELSE bb,
            b, [s \in 1..Len(OpOf(b, users[1]).in) |-> s])
\* Every slot of the operations `users` that reads v now reads w.
Rewire(b, users, v, w) ==
  Walk(LAMBDA bb, uid :
         Walk(LAMBDA bbb, slot : IF OpOf(bbb, uid).in[slot] = v
                                 THEN SetOperand(bbb, uid, slot, w) ELSE bbb,
              bb, [s \in 1..Len(OpOf(bb, uid).in) |-> s]),
       b, users)

\* Value::replaceAllUsesWith.
ReplaceAllUsesWith(b, v, w) ==
  [Rewire(b, UsersOf(b, v), v, w) EXCEPT !.vals[v].users = << >>]

(***************************************************************************)
(* Block::verify, the gate every pass is followed by.                      *)
(***************************************************************************)
Occurrences(s, x) == Cardinality({i \in DOMAIN s : s[i] = x})

Uses(b, v) == Walk(LAMBDA n, op : n + Occurrences(op.in, v), 0, b.ops)

DefinedValues(b) ==
  LET upto[i \in 0..Len(b.ops)] == IF i = 0 THEN b.args ELSE upto[i - 1] \o b.ops[i].out
  IN  upto[Len(b.ops)]

\* Every operand is an argument or a result of an earlier operation.
DefinedBeforeUse(b) ==
  LET step(st, op) ==
        [ok |-> st.ok /\ \A i \in DOMAIN op.in : op.in[i] \in st.seen,
         seen |-> st.seen \cup {op.out[i] : i \in DOMAIN op.out}]
  IN  Walk(step, [ok |-> TRUE, seen |-> {b.args[i] : i \in DOMAIN b.args}],
           b.ops).ok

UniqueIds(b, defined) ==
  Cardinality({b.vals[defined[i]].id : i \in DOMAIN defined}) = Len(defined)

\* A value's use-list is, as a bag, the operations that read it.
UseListAgrees(b, v, users) ==
  /\ Len(users) = Uses(b, v)
  /\ \A j \in DOMAIN users :
       /\ HasOp(b, users[j])
       /\ Occurrences(users, users[j]) = Occurrences(OpOf(b, users[j]).in, v)
UseListsAgree(b, defined) ==
  \A i \in DOMAIN defined : UseListAgrees(b, defined[i], UsersOf(b, defined[i]))

Verify(b) ==
  LET holds(defined) == UniqueIds(b, defined) /\ UseListsAgree(b, defined)
  IN  DefinedBeforeUse(b) /\ holds(DefinedValues(b))
=============================================================================
