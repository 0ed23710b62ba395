----------------------------- MODULE ArenaBinder -----------------------------
(***************************************************************************)
(* Where every value of a block lives on the device                        *)
(* (src/compiler/backend/allocation/arena_binder.cc): the parameters at    *)
(* the front of the arena, the input and label slots behind them, the      *)
(* frozen weights laid out in rodata, and the transients placed by a       *)
(* linear scan over their live ranges.                                     *)
(***************************************************************************)
EXTENDS Fusers, Plan

CONSTANT kArenaAlign   \* 64 in the program

ASSUME AlignAssumption == kArenaAlign \in Nat \ {0} /\ kArenaAlign % kF32 = 0

RoundUp_Exact(v, a) == v   \* no padding
RoundUp(v, a) == ((v + a - 1) \div a) * a
AlignUp(v) == RoundUp(v, kArenaAlign)
ValueBytes(b, v) == AlignUp(Volume(ShapeOf(b, v)) * kF32)

\* The empty map, and a map after an assignment.
Unbound == [v \in {} |-> NullRef]
Assigned(f, v, x) == [w \in DOMAIN f \cup {v} |-> IF w = v THEN x ELSE f[w]]

(***************************************************************************)
(* LinearScanTransients.                                                   *)
(***************************************************************************)
Forever == -1   \* SIZE_MAX: a pinned value is never reclaimed

\* The tick of the last operation that reads a value, from its birth on.
LastUse(b, v, birth) ==
  LET uses == {birth} \cup {i \in birth..Len(b.ops) :
                              \E s \in DOMAIN b.ops[i].in : b.ops[i].in[s] = v}
  IN  CHOOSE i \in uses : \A k \in uses : k <= i

Interval(b, v, birth, pinned) ==
  [value |-> v, start |-> birth, bytes |-> ValueBytes(b, v),
   end |-> IF v \in pinned THEN Forever ELSE LastUse(b, v, birth)]

\* The transients of the block in the order of their births.
Born(op, bound) ==
  IF IsMemoryOp(op) THEN << >>
  ELSE Subsequence(op.out, {k \in DOMAIN op.out : op.out[k] \notin bound})
Intervals(b, bound, pinned) ==
  LET births(i) == LET born == Born(b.ops[i], bound)
                   IN  [k \in 1..Len(born) |-> Interval(b, born[k], i, pinned)]
      upto[i \in 0..Len(b.ops)] == IF i = 0 THEN << >> ELSE upto[i - 1] \o births(i)
  IN  upto[Len(b.ops)]

Expired_Touching(block, tick) ==   \* freed at the tick that last reads it
  block.free_after # Forever /\ block.free_after <= tick
Expired(block, tick) == block.free_after # Forever /\ block.free_after < tick

\* The lowest offset with room for `bytes` among the active blocks, which are
\* sorted by their start.
Fit(st, block, bytes) ==
  IF st.found \/ st.offset + bytes <= block.start
  THEN [found |-> TRUE, offset |-> st.offset]
  ELSE [found |-> FALSE, offset |-> IF block.end > st.offset THEN block.end ELSE st.offset]
FirstFit(active, base, bytes) ==
  LET past[i \in 0..Len(active)] ==
        IF i = 0 THEN [found |-> FALSE, offset |-> base]
        ELSE Fit(past[i - 1], active[i], bytes)
  IN  past[Len(active)].offset

UpperBound(active, start) ==
  CHOOSE k \in 1..(Len(active) + 1) :
    /\ \A i \in 1..(k - 1) : active[i].start <= start
    /\ k <= Len(active) => active[k].start > start

Place(st, iv, base) ==
  LET active == Subsequence(st.active, {i \in DOMAIN st.active :
                                          ~Expired(st.active[i], iv.start)})
      offset == FirstFit(active, base, iv.bytes)
      fresh == [start |-> offset, end |-> offset + iv.bytes, free_after |-> iv.end]
  IN  [refs |-> Assigned(st.refs, iv.value, ArenaRef(offset)),
       active |-> InsertedAt(active, UpperBound(active, offset), fresh),
       high |-> IF fresh.end > st.high THEN fresh.end ELSE st.high]

\* [refs, high]: the references with the transients added, the high water mark.
PlaceAll(intervals, base, refs) ==
  LET placed[n \in 0..Len(intervals)] ==
        IF n = 0 THEN [active |-> << >>, refs |-> refs, high |-> base]
        ELSE Place(placed[n - 1], intervals[n], base)
  IN  placed[Len(intervals)]
LinearScanTransients(b, base, refs, pinned) ==
  PlaceAll(Intervals(b, DOMAIN refs, pinned), base, refs)

(***************************************************************************)
(* BindArena.  narrow maps each frozen weight stored narrower than f32 to  *)
(* its storage, "int8" or "bf16"; an int8 weight's column scales follow    *)
(* its levels.                                                             *)
(***************************************************************************)
Declared(b, mn) ==
  LET ops == Subsequence(b.ops, {i \in DOMAIN b.ops : b.ops[i].mn = mn})
  IN  [i \in 1..Len(ops) |-> ops[i].out[1]]

\* Slots one behind the other, from the cursor on.
BindSlot(b, st, v) ==
  [refs |-> Assigned(st.refs, v, ArenaRef(st.cursor)),
   cursor |-> st.cursor + ValueBytes(b, v)]
BindSlots(b, st, values) ==
  LET bound[i \in 0..Len(values)] ==
        IF i = 0 THEN st ELSE BindSlot(b, bound[i - 1], values[i])
  IN  bound[Len(values)]

StorageOf(narrow, v) == IF v \in DOMAIN narrow THEN narrow[v] ELSE "f32"

\* The pack of one frozen weight, behind what is laid out already.
Packed(b, st, v, narrow) ==
  LET storage == StorageOf(narrow, v)
      offset == AlignUp(st.cursor)
      count == Volume(ShapeOf(b, v))
      shape == ShapeOf(b, v)
      cols == IF Len(shape) = 2 THEN shape[2] ELSE count
      scales == RoundUp(offset + count, kF32)
      bytes == CASE storage = "int8" -> scales - offset + cols * kF32
                 [] storage = "bf16" -> count * 2
                 [] OTHER -> count * kF32
  IN  [packs |-> Append(st.packs, [value |-> v, storage |-> storage, offset |-> offset,
                                   scales_offset |-> scales, bytes |-> bytes]),
       cursor |-> offset + bytes,
       refs |-> Assigned(st.refs, v, RodataRef(offset)),
       scales |-> IF storage = "int8" THEN Assigned(st.scales, v, RodataRef(scales))
                  ELSE st.scales]
PackAll(b, values, refs, narrow) ==
  LET packed[i \in 0..Len(values)] ==
        IF i = 0 THEN [packs |-> << >>, cursor |-> 0, refs |-> refs, scales |-> Unbound]
        ELSE Packed(b, packed[i - 1], values[i], narrow)
  IN  packed[Len(values)]

\* The segments in their order, each behind the one before: the parameters, the
\* batch's slots, the frozen weights (in rodata), the transients; the merge program
\* is bound behind them.
Bound(params, persistent, io, rodata, scan) ==
  [refs |-> scan.refs, merge |-> Unbound, column_scales |-> rodata.scales,
   params |-> params, persistent_size |-> persistent.cursor,
   io_end |-> io.cursor, arena_size |-> scan.high,
   packs |-> rodata.packs, rodata_size |-> rodata.cursor]
BindTransients(b, pinned, params, persistent, io, rodata) ==
  Bound(params, persistent, io, rodata,
        LinearScanTransients(b, AlignUp(io.cursor), rodata.refs, pinned))
BindFrozen(b, pinned, narrow, params, persistent, io) ==
  BindTransients(b, pinned, params, persistent, io,
                 PackAll(b, Declared(b, "sc_mem.weight"), io.refs, narrow))
BindIo(b, pinned, narrow, params, persistent) ==
  BindFrozen(b, pinned, narrow, params, persistent,
             BindSlots(b, persistent, b.args))
BindPersistent(b, pinned, narrow, params) ==
  BindIo(b, pinned, narrow, params,
         BindSlots(b, [refs |-> Unbound, cursor |-> 0], params))
BindArena(b, pinned, narrow) ==
  BindPersistent(b, pinned, narrow, Declared(b, "sc_mem.param"))
=============================================================================
