---------------------------- MODULE PlanValidator ----------------------------
(***************************************************************************)
(* The load-time proof of one instruction                                  *)
(* (src/runtime/verifier/plan_validator.cc): every operand in bounds of    *)
(* its space, no written range shared with another operand, nothing in the *)
(* word its opcode and the plan's version do not define.  Words are        *)
(* unsigned and wrap at WordSize.                                          *)
(***************************************************************************)
EXTENDS Plan

CONSTANTS
  WordSize,           \* 2^64 in the program
  kSourceSpaceLimit   \* 2^48 in the program

ASSUME WordAssumption ==
  /\ WordSize \in Nat /\ WordSize > kF32
  /\ kSourceSpaceLimit \in Nat /\ kSourceSpaceLimit < WordSize

Word == 0..(WordSize - 1)
WordMul(a, b) == (a * b) % WordSize
WordAdd(a, b) == (a + b) % WordSize
WordSub(a, b) == (a - b) % WordSize

MulOk(a, b) == b = 0 \/ ~(a > (WordSize - 1) \div b)
RangeOk_Sum(off, bytes, size) == WordAdd(off, bytes) <= size   \* the sum may wrap
RangeOk(off, bytes, size) == off <= size /\ bytes <= WordSub(size, off)

(* ---- What each plan version first defined (schema.h). ---- *)
kSeeuFlagsVersion == 5
kSeeuKlScaleVersion == 8
kSeeuKernelBatchVersion == 12
kSeeuGemmAddendVersion == 14
kSeeuNormEpsVersion == 16
kSeeuShippedEvalVersion == 17
kSeeuRelaxedVersion == 18

Transformer == {"rms_norm_fwd", "rms_norm_bwd", "attn_fwd", "attn_dp", "attn_dv",
                "softmax_rows_bwd", "attn_dq", "attn_dk"} \cup Ropes
OpcodeSince(op) ==
  CASE op \in Transformer -> 6
    [] op = "embed_fwd" -> 7
    [] op = "accumulate" -> 9
    [] op \in GemmsBF16 -> 10
    [] op = "rope_table" -> kSeeuKernelBatchVersion
    [] op = "fused_map" -> 13
    [] op \in {"attn_fwd_tiled"} \cup TiledBackwards -> 15
    [] OTHER -> 0

EpilogueFlags == {"bias", "act"}
AllowedFlags(op, version) ==
  (CASE op \in {"gemm_nn", "gemm_nn_bf16"} -> EpilogueFlags
     [] op = "gemm_nn_q8" -> {"act"}
     [] OTHER -> {})
    \cup (IF version >= kSeeuGemmAddendVersion /\ op \in {"gemm_nn", "gemm_nt", "gemm_tn"}
          THEN {"addend"} ELSE {})
    \cup (IF version >= kSeeuShippedEvalVersion /\ op \in GemmsQ8 THEN {"colscale"} ELSE {})
    \cup (IF version >= kSeeuRelaxedVersion /\ op \in Gemms \ {"gemm_tn", "gemm_acc_nn"}
          THEN {"relaxed"} ELSE {})

FlagsOk(ins, version) ==
  IF version < kSeeuFlagsVersion THEN ins.flags = {}
  ELSE /\ ins.flags \subseteq AllowedFlags(ins.op, version)
       /\ ~("addend" \in ins.flags /\ ins.flags \cap EpilogueFlags # {})

ImmOk(ins, version) ==
  ins.imm # 0 => /\ ins.op \in {"layer_norm_fwd", "rms_norm_fwd"}
                 /\ version >= kSeeuNormEpsVersion

\* The clip threshold of an optimizer step, the loss scale of a distillation.
ClipWordOk(word, version) == word # 0 => version >= kSeeuKernelBatchVersion
KlScaleOk(word, version) == word[1] # 0 => version >= kSeeuKlScaleVersion

(* ---- The micro-program of a fused chain. ---- *)
FusedKinds == {"add", "mul", "scale", "relu", "gelu", "silu"}
FusedProgramOk(stages, imm) ==
  LET uses(i) == \E s \in DOMAIN stages : stages[s].kind = "scale" /\ stages[s].arg = i
  IN  /\ Len(stages) \in 1..4
      /\ \A s \in DOMAIN stages :
           /\ stages[s].kind \in FusedKinds
           /\ stages[s].arg \in (CASE stages[s].kind \in {"add", "mul"} -> {1, 2}
                                   [] stages[s].kind = "scale" -> {0, 1}
                                   [] OTHER -> {0})
      /\ \A i \in {0, 1} : uses(i) \/ imm[i + 1] = 0
UsesSlot(stages, slot) ==
  \E s \in DOMAIN stages : stages[s].kind \in {"add", "mul"} /\ stages[s].arg = slot

(* ---- One operand. ---- *)
Claim(ref, elems, write, width) ==
  [ref |-> ref, elems |-> elems, write |-> write, width |-> width]
In(ref, elems) == Claim(ref, elems, FALSE, kF32)
OutTo(ref, elems) == Claim(ref, elems, TRUE, kF32)

\* ref_ok_w: ctx carries the plan's spaces, its version, and whether the
\* program may read the source model file.
RefOk(c, ctx) ==
  LET space == IF c.ref.sp = "source" THEN kSourceSpaceLimit
               ELSE IF c.ref.sp = "rodata" THEN ctx.rodata_size ELSE ctx.arena_size
  IN  /\ c.ref # NullRef
      /\ ~(c.write /\ c.ref.sp = "rodata")
      /\ c.ref.sp = "source" => /\ ~c.write /\ ctx.allow_source
                                /\ ctx.version >= kSeeuShippedEvalVersion
      /\ c.elems # 0
      /\ MulOk(c.elems, c.width)
      /\ c.ref.off % c.width = 0
      /\ RangeOk(c.ref.off, WordMul(c.elems, c.width), space)

\* disjoint: no written range overlaps another operand of the same space.
Overlap(a, b) ==
  /\ a.ref.sp = b.ref.sp
  /\ a.ref.off < WordAdd(b.ref.off, WordMul(b.elems, b.width))
  /\ b.ref.off < WordAdd(a.ref.off, WordMul(a.elems, a.width))
Disjoint(claims) ==
  \A i, j \in DOMAIN claims :
    i < j /\ (claims[i].write \/ claims[j].write) => ~Overlap(claims[i], claims[j])

(***************************************************************************)
(* The extents of each opcode: [ok, claims], ok when every product of its  *)
(* dimensions is sound.                                                    *)
(***************************************************************************)
Extents(ok, claims) == [ok |-> ok, claims |-> claims]
Plus(present, claim) == IF present THEN << claim >> ELSE << >>

ExtentsOfGemm(ins) ==
  LET m == ins.out[1]  n == ins.out[2]  k == ins.out[3]
      mn == WordMul(m, n)
  IN  Extents(
        /\ MulOk(m, k) /\ MulOk(k, n) /\ MulOk(m, n)
        /\ ins.op \in GemmsQ8 \cup GemmsBF16 => ins.in[2].sp = "rodata"
        /\ "colscale" \in ins.flags => ins.in[4].sp = "rodata",
        << In(ins.in[1], WordMul(m, k)),
           Claim(ins.in[2], WordMul(k, n), FALSE, StorageWidth(ins.op)),
           OutTo(ins.in[3], mn) >>
          \o Plus("bias" \in ins.flags, In(ins.in[4], n))
          \o Plus("colscale" \in ins.flags,
                  In(ins.in[4], IF ins.op = "gemm_nt_q8" THEN k ELSE n))
          \o Plus("addend" \in ins.flags, In(ins.in[4], mn)))

\* attn_geometry: [B*S, H*d] activations, [B*H*S, S] probabilities.
Geometry_td(bs, hd) == WordMul(WordMul(bs[1], bs[2]), WordMul(hd[1], hd[2]))
Geometry_pn(bs, hd) == WordMul(WordMul(WordMul(bs[1], bs[2]), hd[1]), bs[2])
GeometryOk(bs, hd) ==
  LET t == WordMul(bs[1], bs[2])  dm == WordMul(hd[1], hd[2])
  IN  /\ bs[1] # 0 /\ bs[2] # 0 /\ hd[1] # 0 /\ hd[2] # 0
      /\ MulOk(bs[1], bs[2]) /\ MulOk(hd[1], hd[2]) /\ MulOk(t, dm)
      /\ MulOk(t, hd[1]) /\ MulOk(WordMul(t, hd[1]), bs[2])
StatsElems(bs, hd) == WordMul(WordMul(WordMul(bs[1], bs[2]), hd[1]), 4)
StatsOk(bs, hd) == MulOk(WordMul(WordMul(bs[1], bs[2]), hd[1]), 4)

ExtentsOfAttention(ins) ==
  LET in == ins.in  out == ins.out
      g == IF ins.op \in {"attn_fwd", "attn_fwd_tiled"} THEN << out[2], out[3] >>
           ELSE IF ins.op \in TiledBackwards THEN out[3]
           ELSE << out[1], out[2] >>
      td == Geometry_td(g[1], g[2])
      pn == Geometry_pn(g[1], g[2])
      st == StatsElems(g[1], g[2])
      ok == GeometryOk(g[1], g[2])
  IN  CASE ins.op = "attn_fwd" ->
             Extents(ok, << In(in[1], td), In(in[2], td), In(in[3], td),
                            OutTo(in[4], td), OutTo(out[1], pn) >>)
        [] ins.op = "attn_fwd_tiled" ->
             Extents(ok /\ StatsOk(g[1], g[2]),
                     << In(in[1], td), In(in[2], td), In(in[3], td),
                        OutTo(in[4], td), OutTo(out[1], st) >>)
        [] ins.op = "attn_dp" ->
             Extents(ok, << In(in[1], td), In(in[2], td), OutTo(in[3], pn) >>)
        [] ins.op \in {"attn_dv", "attn_dq", "attn_dk"} ->
             Extents(ok, << In(in[1], pn), In(in[2], td), OutTo(in[3], td) >>)
        [] ins.op \in TiledBackwards ->
             Extents(ok /\ StatsOk(g[1], g[2]),
                     << In(in[1], td), In(in[2], td), In(in[3], td), In(in[4], td),
                        Claim(out[1], st, ins.op = "attn_dq_tiled", kF32),
                        OutTo(out[2], td) >>)

\* The operations over one count of elements.
ExtentsOfMap(ins) ==
  LET in == ins.in  n == ins.out[1]
  IN  Extents(TRUE,
        CASE ins.op \in Maps2 -> << In(in[1], n), In(in[2], n), OutTo(in[3], n) >>
          [] ins.op \in Maps1 -> << In(in[1], n), OutTo(in[2], n) >>
          [] ins.op \in {"clip_norm", "fill"} -> << OutTo(in[1], n) >>
          [] ins.op = "mse_fwd" -> << In(in[1], n), In(in[2], n), OutTo(in[3], 1) >>
          [] ins.op = "mse_bwd" ->
               << In(in[1], n), In(in[2], n), In(in[3], 1), OutTo(in[4], n) >>
          [] ins.op \in {"sgd_step", "accumulate"} -> << OutTo(in[1], n), In(in[2], n) >>
          [] ins.op = "adamw_step" ->
               << OutTo(in[1], n), In(in[2], n), OutTo(in[3], n), OutTo(in[4], n) >>)

\* The operations over rows and columns.
ExtentsOfRows(ins) ==
  LET in == ins.in  out == ins.out
      r == RowsAndColumns(ins)[1]  c == RowsAndColumns(ins)[2]  rc == WordMul(r, c)
  IN  Extents(MulOk(r, c),
        CASE ins.op = "add_bias" -> << In(in[1], rc), In(in[2], c), OutTo(in[3], rc) >>
          [] ins.op = "reduce_rows" -> << In(in[1], rc), OutTo(in[2], c) >>
          [] ins.op = "softmax_xent_fwd" ->
               << In(in[1], rc), In(in[2], r), OutTo(in[3], 1), OutTo(in[4], rc) >>
          [] ins.op = "softmax_xent_bwd" ->
               << In(in[1], rc), In(in[2], r), In(in[3], 1), OutTo(in[4], rc) >>
          [] ins.op = "layer_norm_fwd" ->
               << In(in[1], rc), In(in[2], c), In(in[3], c), OutTo(in[4], rc),
                  OutTo(out[2], r), OutTo(out[3], r) >>
          [] ins.op = "layer_norm_bwd" ->
               << In(in[1], rc), In(in[2], rc), In(in[3], c), OutTo(in[4], rc),
                  In(out[1], r), In(out[2], r) >>
          [] ins.op = "rms_norm_fwd" ->
               << In(in[1], rc), In(in[2], c), OutTo(in[3], rc), OutTo(in[4], r) >>
          [] ins.op = "rms_norm_bwd" ->
               << In(in[1], rc), In(in[2], rc), In(in[3], c), OutTo(in[4], rc),
                  In(out[1], r) >>
          [] ins.op = "kl_distill_fwd" ->
               << In(in[1], rc), In(in[2], rc), OutTo(in[3], 1), OutTo(in[4], rc),
                  OutTo(out[1], rc) >>
          [] ins.op = "kl_distill_bwd" ->
               << In(in[1], rc), In(in[2], rc), In(in[3], 1), OutTo(in[4], rc) >>
          [] ins.op = "softmax_rows_bwd" ->
               << In(in[1], rc), In(in[2], rc), OutTo(in[3], rc) >>)

ExtentsOfOther(ins, version) ==
  LET in == ins.in  n == ins.out[1]  d1 == ins.out[2]
  IN  CASE ins.op = "nop" -> Extents(TRUE, << >>)
        [] ins.op \in Ropes ->
             LET td == Geometry_td(n, d1)
                 table == in[3] # NullRef
             IN  Extents(/\ GeometryOk(n, d1) /\ d1[2] % 2 = 0
                         /\ table => /\ version >= kSeeuKernelBatchVersion
                                     /\ MulOk(n[2], d1[2]),
                         << In(in[1], td), OutTo(in[2], td) >>
                           \o Plus(table, In(in[3], WordMul(n[2], d1[2]))))
        [] ins.op = "rope_table" ->
             Extents(n[1] # 0 /\ n[2] # 0 /\ n[2] % 2 = 0 /\ MulOk(n[1], n[2]),
                     << OutTo(in[1], WordMul(n[1], n[2])) >>)
        [] ins.op = "fused_map" ->
             Extents(/\ FusedProgramOk(d1, ins.out[3])
                     /\ \A slot \in {1, 2} :
                          UsesSlot(d1, slot) \/ in[slot + 1] = NullRef,
                     << In(in[1], n) >>
                       \o Plus(UsesSlot(d1, 1), In(in[2], n))
                       \o Plus(UsesSlot(d1, 2), In(in[3], n))
                       \o << OutTo(in[4], n) >>)
        [] ins.op = "embed_fwd" ->
             Extents(MulOk(d1[1], d1[2]) /\ MulOk(n, d1[2]) /\ in[2].sp = "rodata",
                     << In(in[1], n), In(in[2], WordMul(d1[1], d1[2])),
                        OutTo(in[3], WordMul(n, d1[2])) >>)
        [] OTHER -> Extents(FALSE, << >>)

ExtentsOf(ins, version) ==
  IF ins.op \in Gemms THEN ExtentsOfGemm(ins)
  ELSE IF ins.op \in Attentions THEN ExtentsOfAttention(ins)
  ELSE IF ins.op \in MapOps THEN ExtentsOfMap(ins)
  ELSE IF ins.op \in RowOps THEN ExtentsOfRows(ins)
  ELSE ExtentsOfOther(ins, version)

\* ValidateInstruction.
ValidateInstruction(ins, ctx) ==
  LET e == ExtentsOf(ins, ctx.version)
  IN  /\ FlagsOk(ins, ctx.version) /\ ImmOk(ins, ctx.version)
      /\ ctx.version >= OpcodeSince(ins.op)
      /\ ins.op \in {"sgd_step", "adamw_step"} => ClipWordOk(ins.out[2], ctx.version)
      /\ ins.op = "kl_distill_fwd" => KlScaleOk(ins.out[3], ctx.version)
      /\ ins.op = "kl_distill_bwd" => KlScaleOk(ins.out[2], ctx.version)
      /\ e.ok
      /\ \A i \in DOMAIN e.claims : RefOk(e.claims[i], ctx)
      /\ Disjoint(e.claims)
=============================================================================
