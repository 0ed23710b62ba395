------------------------------ MODULE ModelJobs ------------------------------
(***************************************************************************)
(* The jobs of the compiler's runs: small models that between them use     *)
(* every operation the frontend knows, and configurations that turn each   *)
(* option on and off.                                                      *)
(***************************************************************************)
EXTENDS Frontend

T(name, dims) == [name |-> name, dims |-> dims, const |-> TRUE]
Rows(n) == [name |-> "x", dims |-> << -1, n >>, const |-> FALSE]
Tokens == [name |-> "x", dims |-> << -1 >>, const |-> FALSE]
O(kind, inputs, output) ==
  [kind |-> kind, inputs |-> inputs, output |-> output, heads |-> 0, base |-> 0, eps |-> 0]
Headed(op) == [op EXCEPT !.heads = 2]
Eps(op, e) == [op EXCEPT !.eps = e]
Model(seq, tensors, ops) ==
  [input |-> "x", output |-> "o", seq_len |-> seq, tensors |-> tensors, ops |-> ops]

\* Two layers with a bias and an activation.
Mlp(act) ==
  Model(0, << Rows(2), T("w1", << 2, 3 >>), T("b1", << 3 >>), T("w2", << 3, 2 >>) >>,
        << O("matmul", << "x", "w1" >>, "h"), O("add_bias", << "h", "b1" >>, "y"),
           O(act, << "y" >>, "a"), O("matmul", << "a", "w2" >>, "o") >>)

\* A biased layer above the one that is adapted, so that gradients cross it.
Tower ==
  Model(0, << Rows(2), T("w1", << 2, 2 >>), T("w2", << 2, 3 >>), T("b2", << 3 >>), T("w3", << 3, 2 >>) >>,
        << O("matmul", << "x", "w1" >>, "h"), O("matmul", << "h", "w2" >>, "k"),
           O("add_bias", << "k", "b2" >>, "y"), O("gelu", << "y" >>, "a"),
           O("matmul", << "a", "w3" >>, "o") >>)

\* A gated layer, residual sums, a product with two readers and one weight read by
\* two products.
Gate ==
  Model(0, << Rows(2), T("w", << 2, 2 >>), T("u", << 2, 2 >>), T("wo", << 2, 2 >>) >>,
        << O("matmul", << "x", "w" >>, "a"), O("silu", << "a" >>, "g"),
           O("matmul", << "x", "u" >>, "c"), O("mul", << "g", "c" >>, "m"),
           O("add", << "m", "c" >>, "r"), O("matmul", << "r", "w" >>, "p"),
           O("relu", << "p" >>, "s"), O("add", << "s", "r" >>, "q"), O("matmul", << "q", "wo" >>, "o") >>)

\* One transformer block over sequences of two tokens.
Block ==
  Model(2, << Tokens, T("e", << 3, 4 >>), T("g1", << 4 >>), T("wq", << 4, 4 >>),
              T("wk", << 4, 4 >>), T("wv", << 4, 4 >>), T("wp", << 4, 4 >>),
              T("g2", << 4 >>), T("b2", << 4 >>), T("wo", << 4, 3 >>) >>,
        << O("embedding", << "x", "e" >>, "t"), Eps(O("rms_norm", << "t", "g1" >>, "n"), 2),
           O("matmul", << "n", "wq" >>, "q"), O("matmul", << "n", "wk" >>, "k"),
           O("matmul", << "n", "wv" >>, "v"), Headed(O("rope", << "q" >>, "qr")),
           Headed(O("rope", << "k" >>, "kr")),
           Headed(O("attention", << "qr", "kr", "v" >>, "z")),
           O("matmul", << "z", "wp" >>, "p"), O("add", << "t", "p" >>, "r"),
           O("layer_norm", << "r", "g2", "b2" >>, "l"), O("matmul", << "l", "wo" >>, "o") >>)

\* A product nothing reads, and an operand of the wrong width.
DeadEnd ==
  Model(0, << Rows(2), T("w1", << 2, 2 >>), T("w2", << 2, 2 >>) >>,
        << O("matmul", << "x", "w1" >>, "h"), O("matmul", << "x", "w2" >>, "o") >>)
Misfit ==
  Model(0, << Rows(2), T("w1", << 3, 2 >>) >>, << O("matmul", << "x", "w1" >>, "o") >>)

Sgd == [kind |-> "sgd", clip_norm |-> 0, fuse_clip |-> FALSE]
AdamW(clip, fused) == [kind |-> "adamw", clip_norm |-> clip, fuse_clip |-> fused]

Default ==
  [loss |-> "mse", batch |-> 2, temperature |-> 1, distill_weight |-> 0,
   rank |-> 1, alpha |-> 1, seed |-> 3, filters |-> << >>, optimizer |-> Sgd,
   accum |-> 1, emit_optimizer |-> TRUE, schedule |-> "constant", steps |-> 4,
   warmup |-> 0, min_lr |-> 1, allow_zero_lr |-> FALSE, tile_k |-> 0,
   rope_table |-> TRUE, attention |-> "auto", cache_budget |-> 64, budget |-> 0,
   quantize_base |-> FALSE, bf16_base |-> FALSE, precision |-> "reference",
   fuse_epilogues |-> TRUE, fuse_gemm_addend |-> TRUE, fuse_elementwise |-> TRUE]

Job(source, config) ==
  [source |-> source, teacher |-> NoModel, config |-> config, from_file |-> TRUE]
Taught(source, teacher, config) == [Job(source, config) EXCEPT !.teacher = teacher]
With(changes) == changes @@ Default

Xent(changes) == changes @@ With([loss |-> "xent"])
TokenRows(changes) == changes @@ Xent([batch |-> 4])

\* n layers of width 8.
Deep(n) ==
  LET weight(i) == "w" \o ToString(i)
      out(i) == IF i = 0 THEN "x" ELSE IF i = n THEN "o" ELSE "h" \o ToString(i)
  IN  Model(0, << Rows(8) >> \o [i \in 1..n |-> T(weight(i), << 8, 8 >>)],
            [i \in 1..n |-> O("matmul", << out(i - 1), weight(i) >>, out(i))])
=============================================================================
