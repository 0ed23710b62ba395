----------------------------- MODULE UpdateRunMC -----------------------------
(* The compiled update program on jobs small enough to be computed. *)
EXTENDS UpdateRun, ModelJobs

RunJobs == <<
  Job(Mlp("relu"), Default),
  Job(Mlp("gelu"), With([accum |-> 2, optimizer |-> AdamW(2, FALSE), rank |-> 2])),
  Job(Mlp("silu"), Xent([optimizer |-> AdamW(2, TRUE), alpha |-> 3, fuse_epilogues |-> FALSE])),
  Job(Gate, Default),
  Job(Gate, With([filters |-> << {"wo"} >>, quantize_base |-> TRUE])),
  Job(Gate, With([filters |-> << {"wo"} >>, accum |-> 2, alpha |-> 2])),
  Job(Gate, With([filters |-> << {"w"} >>, bf16_base |-> TRUE, fuse_gemm_addend |-> FALSE])),
  Job(Gate, With([alpha |-> 2, fuse_epilogues |-> FALSE, fuse_elementwise |-> FALSE])),
  Job(Block, TokenRows([attention |-> "materialized"])),
  Job(Block, TokenRows([attention |-> "tiled", rope_table |-> FALSE, accum |-> 2])),
  Job(Block, TokenRows([filters |-> << {"wq", "wk"}, {"wo"} >>, cache_budget |-> 1])),
  Job(Mlp("gelu"), With([filters |-> << {"w2"} >>])),
  Job(Mlp("silu"), With([filters |-> << {"w2"} >>, quantize_base |-> TRUE])),
  Job(Tower, With([filters |-> << {"w1"} >>])),
  Taught(Mlp("relu"), Mlp("silu"), With([loss |-> "kl", temperature |-> 2])),
  Taught(Mlp("gelu"), Mlp("relu"),
         With([loss |-> "xent+kl", temperature |-> 3, distill_weight |-> 5,
               quantize_base |-> TRUE, precision |-> "certified"])),
  [Job(Mlp("relu"), With([quantize_base |-> TRUE])) EXCEPT !.from_file = FALSE],
  Job(Mlp("relu"), With([emit_optimizer |-> FALSE, accum |-> 2])),
  \* Jobs the compiler refuses.
  Job(Mlp("relu"), With([loss |-> "kl"])),
  Job(Mlp("relu"), With([schedule |-> "cosine", warmup |-> 4])),
  Job(Mlp("relu"), With([filters |-> << {"b1"} >>])),
  Job(Misfit, Default),
  Job(DeadEnd, Default),
  Job(Mlp("relu"), With([quantize_base |-> TRUE, bf16_base |-> TRUE])),
  Job(Mlp("relu"), With([budget |-> 40])),
  Job(Mlp("relu"), With([budget |-> 500])) >>
=============================================================================
