# A TLA+ model of SeeAI's on-device updates

SeeAI compiles a program that trains a small part of a model on a device.  A
build host turns the model and a configuration into a plan; a runtime validates
the plan, executes it step by step, survives crashes, and commits the result
into the model's file.  This directory models that path from the first pass of
the compiler to the exit code of the device's program, checks it with TLC on
small instances, and proves with TLAPS, for every value of the constants, what the
runs of the runtime check, the plan validator's soundness, and that the compiler's
arena binder keeps what is alive apart.  All paths below are under `src/`.

    tlc -config WorkerPool_safety.cfg WorkerPoolMC.tla     # check a model
    tlapm PlanValidatorProofs.tla                          # check proofs

## 1. The system

| Component | State | Operations | What makes it correct |
|---|---|---|---|
| Worker pool, `source/parallel/parallel_for.{h,cc}` | `job_`, `epoch_`, `stop_`, `thread_count_`, two mutexes, two condition variables; a `Job` on the submitter's stack with atomics `next`, `done`, `holders`, `failed` | `ParallelFor`, `SetParallelThreadCount`, the workers' loop | no worker touches a dead `Job`; each chunk runs once; exceptions reach the caller; no deadlock, no lost wake-up |
| Dataset, `runtime/pipeline/dataset.*` | cursor, epoch, permutation, generator; cached extent of the labels | `FillBatch`, `EnableShuffle`, `Save/RestoreServingPos`, `Rewind`, `SkipServed`, `SplitValidation`, `ValidateClassLabels` | the position after any mix of operations is the one a serial run has; a cached verdict is never stale |
| Batch pipeline, `runtime/pipeline/batch_pipeline.*` | `full_`, `stop_`, staging buffers, `stage_start_`, the feeder thread | constructor, `NextBatch`, `FeederLoop`, destructor | batches are whole, in order, and independent of thread timing, also after a teardown |
| Checkpoint file, `runtime/storage/{durable_io,checkpoint}.*` | a file, sidecars | `WriteFileDurable`, `SaveCheckpointRecord`, `LoadCheckpointRecord` | a reader or a power cut finds one whole record |
| Commit, `CommitLock` and `DurableFileEdit` in `durable_io.*`, `UpdateEngine::CommitToModel` | `out`, `out.tmp`, `out.lock` | acquire, copy, check, patch, install, discard | the output is old or fully patched; no committed work disappears |
| Update engine, `runtime/dispatcher/update_engine.*` | the arena, `step_`, `horizon_`, `binding_`, best state, `merged_` | `Initialize`, `Train`, `Evaluate`, `RunMerge`, `CommitToModel`, `Save/LoadCheckpoint` | an interrupted and resumed update is the uninterrupted one; the gate compares the source model with what ships; deltas of an older merge are never committed |
| Device program, emitted by `compiler/backend/packaging/native_emitter.cc` | exit code | resume, gate, merge, commit | an update that did not improve changes nothing |
| Contracts and validator, `runtime/verifier`, `runtime/dispatcher/contract.*` | none | `MulOk`, `RangeOk`, the checks of header, instruction, indexed operand | what it accepts stays in bounds and writes nothing it also reads, whatever the 64-bit words hold |
| Kernels and backends, `runtime/executor` | the arena | one kernel per opcode | each computes the operation it was lowered from |
| Frontend, `compiler/frontend` | the block (SIR): operations, values, use lists | resolve, parse, verify, estimate the footprint | the block is well formed after each rewrite; the estimate refuses only what cannot fit |
| Analysis passes, `compiler/analysis` | rewrites of the block | attention tiling, LoRA grafting, RoPE hoisting, autodiff, loss, optimizer, fusers, dead code | gradients are derivatives; fusion keeps what the program computes; merging is folding the adapters in |
| Backend, `compiler/backend` | offsets, rodata, instructions | `ArenaBinder`, weight packing, `InstructionLowering` | two values alive together share no byte; the instructions do what the block says |
| Driver, `compiler/driver/update_compiler.cc` | the plan being assembled | `CompileImpl`, phase by phase, with a contract at each boundary and two gates on memory | what it emits the device's validator accepts; a refusal is justified |
| Diagnostics, hashes, tools | none | formatting, hashing, packaging | |

How they interact.  The driver builds the block and sends it through the
passes, each followed by the verifier; the backend gives every value an address
and turns each operation into an instruction; header, programs, emit table and
rodata become the plan.  On the device the program loads it into an
`UpdateEngine`, which proves every instruction in bounds once, and calls
`Train`.  `Train` builds a `BatchPipeline` over the training `Dataset`; its
feeder thread stages the next batch while the engine's thread executes the
plan, whose kernels call `ParallelFor`.  Between steps `EvaluateMetrics` runs
another pipeline over the validation `Dataset`, and a checkpoint may be saved.
After training the program compares the scores and either stops or merges the
adapters into weight deltas and commits: under a lock file it patches a copy of
the source model and renames it into place.  A later process may resume from the
checkpoint.

What is hard here: the hand-over of the stack-allocated `Job`; exceptions and
nested calls in the pool; the teardown of the feeder at an arbitrary moment; a
position saved in one epoch and restored in another; power cuts between write,
fsync, rename and directory fsync; several processes and one output file; chains
of processes that die, are stopped and are resumed with other options.  In the
compiler: a rewrite whose order matters to the next one; a value whose last
reader was fused away or lives in another program; live ranges that touch at one
instruction; a check that multiplies before it compares; a number computed one
way by the compiler and another by the validator.  `PROJECT.json` lists each
hazard at its line, with the properties that watch it.

## 2. Modules

| Module | Models |
|---|---|
| `WorkerPool` | the pool, one action per step another thread can see |
| `SerialLoops` | what `ParallelFor` promises: loops one at a time, a body entered at most once, return or rethrow |
| `WorkerPoolMC`, `WorkerPoolProofs` | instances of the pool; its inductive invariant and theorems |
| `EvaluatePassProofs` | what the serving functions do to a serial position, for any file; the inductive invariants of `DatasetServing`, `BatchPipeline` and `EvaluatePass`, and the refinement of `SerialFeed` |
| `Dataset` | the serving functions of `Dataset` as operators on a record, and their arithmetic reference (`SerialRecord`, `SerialPosition`) |
| `DatasetServing`, `DatasetServingMC` | one thread using a dataset in any order of calls |
| `SerialFeed` | what a pipeline promises: the serial batches, and the position of the last consumed one |
| `BatchPipeline`, `EvaluatePass` | feeder and consumer; `EvaluateMetrics` on top |
| `FileSystem` | directory, inodes, fsync, rename, write-back, power cut (external: how the code uses POSIX) |
| `AtomicFile` | a file that changes from one complete content to another in one step |
| `CheckpointFile`, `CheckpointFileMC` | `WriteFileDurable`, a reader |
| `Commit`, `CommitMC` | `CommitToModel` by several processes |
| `FileSystemProofs`, `CommitProofs`, `CheckpointFileProofs` | lemmas on the file system's steps; the theorems of the two protocols and their refinement of `AtomicFile` |
| `DeviceUpdateProofs` | what a chain of kills, stops and resumes trains, reports and ships |
| `Train` | `TrainImpl`, checkpoints and resume over a chain of processes |
| `DeviceUpdate`, `DeviceUpdateMC` | the emitted `main`: gate, merge, commit, exit |
| `Sir` | the block: values, operations, use lists, replacement, removal, the verifier |
| `Frontend`, `Footprint` | shape resolution, semantic checks, the forward graph; the resource estimate |
| `Kernels` | what each kernel computes on flat tensors |
| `Grafting` | attention tiling, LoRA grafting, RoPE hoisting, merge program, choice of narrow weights |
| `Autodiff` | the reverse sweep, one gradient rule per operation, and the optimizers' steps |
| `Fusers` | epilogue, addend and elementwise fusion, dead code |
| `Meaning` | reference: the value of a block, and its forward-mode derivative |
| `Plan` | the instruction word, and what the kernel of each opcode touches |
| `ArenaBinder`, `Lowering` | linear scan and rodata; one instruction per operation |
| `PlanMachine` | the CPU backend: an instruction applied to a memory of cells |
| `PlanValidator`, `PlanContract` | the proof of one instruction; of header, slots, indexed operands and corpus |
| `DamagedPlan` | the plans one word away from a compiled one, and what a kernel may touch |
| `PlanValidatorProofs` | what acceptance means, for every word size, opcode and damaged word |
| `ArenaBinderProofs` | the linear scan, the slots and the binding, for every block and alignment |
| `UpdateCompiler`, `UpdateCompilerMC` | the driver, one action per phase |
| `UpdateRun`, `UpdateRunMC` | the compiled plan run, checkpointed, resumed and merged, beside its reference |
| `ModelJobs` | the models and configurations of the compiler's runs |

Composition: `BatchPipeline` extends `Dataset` and implements `SerialFeed`;
`EvaluatePass` extends `BatchPipeline`; `CheckpointFile` and `Commit` extend
`FileSystem` and both implement `AtomicFile`.  `Train` uses what
`CheckpointFile` establishes, that a checkpoint is replaced in one step, and
what `SerialFeed` establishes, that a dataset is where the consumed batches left
it; `DeviceUpdate` extends `Train` and uses what `Commit` establishes.  On the
compiler's side each pass extends the one before it (`Sir`, `Kernels`,
`Grafting`, `Autodiff`, `Fusers`); `Lowering` and `PlanMachine` are the two ends
of the instruction word; `UpdateCompiler` composes them with `PlanContract`, and
`UpdateRun` runs what it emits.

### Worker pool

A submitter's `Job` has the submitter's name; its fields are functions of that
name.  `pc` is the place of a thread in `ParallelForRaw`, `Run`, `DrainJob` or
`WorkerLoop`.  Critical sections of `mutex_` are single actions, except the
submitter's wait: its predicate reads atomics that change outside `mutex_`, so
between the failed test (`Retire`) and the sleep (`Block`) the thread holds the
mutex and others run.  That window is where a wake-up could be lost, and why
`WorkerLoop` takes an empty critical section before `notify_one`.  Accesses to
atomics are separate actions, under sequential consistency: the relaxed load of
`failed` could return an older value in the program, which only starts more
chunks.  Bodies may throw (`Faulty`), nest a `ParallelFor`, and thread creation
may fail with either exception the standard allows.

### Dataset and pipeline

A permutation is named by the state of the generator it was drawn from, so two
orders are equal exactly when the draws are.  A served record is the pair of its
order and index; "the right rows in the right order" is then equality with
`SerialRecord`.  The number of samples is a field of the record, as a split
changes it; after a split `DatasetServing` follows either half, so the
properties hold of both.  `FillBatch` is split at its loop's turns, and the two copies
into the plan's slots are separate, because they run outside the mutex.  A
label slot that the plan does not have is the same as one nobody reads.

### Storage

`FileSystem` keeps what processes see (`dir`, `data`) apart from what a power
cut would leave (`disk_dir`, and `data` of `clean` inodes).  An inode that was
not flushed holds `Torn` after a cut, whatever was written; the kernel may flush
anything at any time.  This is what POSIX lets the code assume.  In
`CheckpointFile` each of open, header write, payload write, fsync, rename and
directory fsync is a step, fails or is interrupted.  A killed writer that starts
again finds its own sidecar, which stands for a reused process id.  In `Commit` a model is a few
blocks, each with the set of updates added to it, so a mixture of two updates,
a half-patched file and a patch of another model are all visible; that one update
was added twice is not.  A plan either carries the hash of the model it was
compiled from (`Hashed`) or, compiled from memory, none: `Verify` then lets any
copy through, and what its update may install is any model with its delta in every
block (`Completed`).  The lock is a process's `flock`, dropped when the process dies.

### Training

The persistent segment is the sequence of optimizer steps that made it, each
with the micro-batch it began at, the horizon its rate annealed over and the
split it read: two runs leave the same bits only if these sequences are equal.
Validation losses are arbitrary but fixed per number of steps, chosen in `Init`.
`Verdict` and `FinalStep` compute what one uninterrupted process would do from
the losses alone.  Inside a step the evaluation comes before the checkpoint and
the checkpoint before the break, as in the loop.  `Exit` ends a process
anywhere; what is not in the checkpoint is gone.

`DeviceUpdate` adds what `main` does with the report.  A validated run is gated
on the best loss against the source model's; a run without a split on the
averages of two windows of training losses, first and last, which only the steps
of the present process fill.  The output is named by the states merged into it.

### Compiler

A block is a record, a pointer of the code an index or a uid.  The use list
holds one entry for each operand slot, as the code's does, and every rewrite
goes through `Sir`'s counterparts of `ReplaceAllUsesWith` and `RemoveOperation`,
so a pass that forgets a use is visible to the next.  Ids are strings because
the program keys parameters, checkpoints and emit entries by them.  Each pass is
a function from block to block that follows the code's own traversal, since what
one fuser takes is what the next does not see.  A pass's failure is a result, and
the driver's action for it sets `stage = "refused"` with what refused.

### Meaning and kernels

A tensor is a sequence of integers modulo 1009.  Products, sums, transposes and
reductions are exact there, so two programs that differ by the laws of algebra
agree, while a swapped operand, a wrong extent, a missing accumulation or an
overwritten cell changes numbers.  Functions that are not polynomials (`exp`,
`tanh`, `1/sqrt`, rounding to int8 or bf16) are fixed, meaningless functions, and
each has an equally fixed derivative where its backward kernel states one.
`Tangents` differentiates the forward graph in forward mode; along two arbitrary
directions of all the parameters, the derivative must be the inner product of
direction and gradients.  One point of the field stands for all: an error that
vanishes there is missed, with a chance near one in a thousand per comparison.

### Plan, validator and run

A word is a reference (space, offset), a count, two packed halves or an
immediate.  `Touches` lists what the kernel of an opcode reads and writes;
`ValidateInstruction` is the code's check, over words that wrap at
`WordSize`.  `DamagedPlan` changes one word of one instruction of a compiled plan -
a reference, a count, or one half of a packed pair - to zero, its neighbours, the
size of its space, another operand's place, or values whose product wraps, and asks
that whatever is still accepted is still safe: that its kernel stays in bounds,
writes nothing it reads, and takes no label or token for an index that the plan's
own bounds do not cover.  In `UpdateRun` the
arena is a function from cells to numbers; the reference beside it (`ideal`)
knows neither offsets, instructions nor fusion, and takes one batch as large as
the accumulation window.

## 3. Runs

| Run | Instance | Shows |
|---|---|---|
| `pool_safety` | 2 submitters, 2 workers, up to 2 chunks, 1 call each, chunk 0 may throw; symmetric | typing, `Job` lifetime, holder count, wake-ups, accounting of claims, refinement of `SerialLoops` |
| `pool_liveness` | the same with resizing to width 1 and automatic width, fair | every call returns |
| `dataset_serving` | up to 3 samples of 2 rows, batches of 1, 2 and 4 records, 8 served; labels in -1..1, 0 to 2 classes, 3 fractions | positions are serial over several epochs and after a split; a label verdict, cached or not, is about the current samples |
| `batch_pipeline` | 3 records, batches of 4, 5 batches, fair | hand-over of buffers, refinement of `SerialFeed`, both waits end |
| `evaluate_pass` | 3 records, batches of 2, 2 passes, entered after 0 to 7 records | every sample scored once, no trace left |
| `evaluate_failure` | the same | the error path touches the dataset under the feeder (finding) |
| `checkpoint_file` | 2 writers, 2 saves each, 1 power cut, any kills | whole loads, no lost save, refinement of `AtomicFile` |
| `commit` | 2 processes, one with a hash in its plan and one without, 2 commits in all, 2 blocks, 1 kill or cut, in place or from a source | sidecar ownership, no lost commit, no leftovers, refinement of `AtomicFile` |
| `device_update` | 4 steps, 3 processes, 3 losses and a required improvement of 60% that a fall from 2 to 1 misses and one to 0 meets, cadences off and automatic (a horizon in 2 parts), explicit counts 0 and 2, no split or 2 splits, an accuracy that rises and falls, no patience | a completed run is the uninterrupted one; one split; the report scores what ships; nothing worse than the source ships; behind a validation gate a resumed update is accepted and committed as the uninterrupted one |
| `device_trend` | the same without a split, 3 steps | without a split it need not be (finding) |
| `update_program` | 26 jobs, 18 of which compile, each run for up to 2 optimizer steps | everything from block to committed deltas, below |
| `early_gate` | a 12-layer model at its real size | the early gate over-counts (finding) |

`update_program` takes each job through the compiler and whatever is compiled
through any order of micro-batches, steps, evaluations, merges, saves and loads:

- `GraftedIsAdapted`: the grafted forward graph is the model with the adapters
  folded into its weights.
- `GradientsAreDerivatives`: the training graph's gradients, summed over a
  window, are the loss's derivative.
- `FusionKeepsThePrograms`: after each rewrite the block computes what it did.
- `SweptIsBindable`: what the sweep leaves, and the merge program, has a size for
  every value and a tensor behind every frozen weight.
- `LiveValuesAreApart`: no two values alive at one instruction share a byte,
  parameters and inputs included, and the merge program's deltas lie behind them
  all.
- `NothingBreaksInside`: only the configuration, the model or the budget refuses
  a job; no internal contract or verifier ever does.
- `ProgramsAreAccepted`: what the compiler emits the device accepts.
- `PlanFitsItsWords`: the numbers of a compiled plan leave room in their words, and
  the program of the optimizer's steps indexes no table.
- `AcceptedIsSafe`: so is no plan one word away from it, unless its kernels stay
  in bounds, write nothing they read and index within their tables.
- `TrainingIsTheGraph`, `EvaluationScoresWhatShips`: what the instructions leave
  in the arena is what the reference computes, with accumulation, clipping,
  AdamW's moments, distillation and quantized weights, across saves and loads.
- `CommitsAreCurrent`: deltas that may be committed are those of the parameters
  that are there.

Why the bounds are enough.  Pool: with two submitters one queues while the other
runs, with two workers one holds the `Job` while the other leaves, and two
chunks give one thrown and one in flight.  Feed: a batch of four over three
records wraps within a batch and starts every batch at another cursor; a batch
of two makes the last evaluation batch ragged; five batches cross six epoch
boundaries.  Storage: interference needs a second writer, and the second commit of
two runs beside the first, on top of it, or on what it left when it was killed; one
cut is enough as each cut starts from a state that the model also reaches by
write-back.  Training: a chain of
three has a fresh start, a resume, and a resume of a resume; three losses give a
new best, an equal and a worse one; two parts of a horizon of four make an
automatic cadence that differs from that of a shorter segment.  Compiler: the
models between them use every operation the frontend accepts and the
configurations turn every option both ways, in the combinations where one pass
feeds another (narrow weights under a fused product, an accumulated step with a
clip, a tiled attention with and without the table); extents are 2 and 3, so
that a swapped pair shows, and one weight is read twice.  Two steps make the
second start from what the first left, moments and zeroed accumulators included;
one checkpoint is enough, as the next overwrites it whole.  The constants that
size a plan are scaled with the models: `kArenaAlign` 8 for 64, header,
instruction and emit entry of 24, 8 and 3 bytes, rodata on a boundary of 32, and
words of 2^15, in which the products of the damaged words still wrap.
`early_gate` takes real sizes.  `CHECK_DEADLOCK FALSE` appears where the bounds
stop the system or the program ends.

Fairness is weak and only in the runs that check liveness.  A thread that can
run is scheduled, and a chunk body or a fill ends; no fairness makes anyone call
`ParallelFor`, ask for a batch, nest a call or wake spuriously.  The submission
lock needs no strong fairness, because calls are bounded: `std::mutex` grants the
lock in no particular order, so with unbounded calls a submitter could starve
(`parallel_for.h:36` says "in arrival order", which the model does not assume).
The compiler and one process's training have no waiting in them.

Each property has a mutant, a definition marked "Mutant" or named after the one
it stands beside: a plausible bug in that function that breaks the property.

## 4. Findings

1. A failed evaluation restores the dataset's position while the feeder may be
   serving from it, against `batch_pipeline.h:23` (`evaluate_failure`).
2. Without a validation split the gate is the trend of the training loss, and
   its windows are not in the checkpoint: a process that resumes with no step
   left compares 0 with 0 and rejects what the uninterrupted run commits, against
   `docs/runtime.md:62` (`device_trend`).
3. The early gate on memory charges every activation as if the backward pass kept
   it, and refuses a deep model with only its last layer adapted that compiles
   into half that memory, against `resource_analyzer.h:24` (`early_gate`).

Three more disagreements were met in reading the code and no run is kept for
them.  A chunk that was claimed before the throw was seen may start after it,
against `parallel_for.h:90` (`parallel_for.cc:73`, `:83`); the loop is still
retired and the exception rethrown.  Patience's verdict is not in the checkpoint:
a process that dies after the save of the step that exhausted it is resumed past
that step (`update_engine.cc:1025`, against `update_engine.h:60-63`).  A first
segment of a longer horizon skips the evaluation due at its last step
(`update_engine.cc:1005`, against the comment at `:1002`).

## 5. Proofs

Eight modules hold the theorems, each about a specification whole: `Init`, every
action, and any number of processes, threads, files or steps.  Of the properties
the passing runs check, eight about the data of `UpdateRun`, its two hypotheses below
and the two of liveness have no theorem; all the others do, four of them under
hypotheses named below.

What is assumed is the `ASSUME`s of the modules that declare the constants, which
TLC evaluates in every run: that sets of threads are finite and their names
distinct, that counts are natural numbers, that a file has a record and a
sidecar is not called like the checkpoint.  The bounds (`MaxCalls`, `MaxKills`,
`MaxStep` and so on) are arbitrary numbers there.

Each invariant was checked by TLC on an instance of its run before it was
proved.  The proof that a step keeps it has one lemma or case for each action
and under it one step for each part the action can disturb.

### The pool

`WorkerPoolProofs` proves, for any finite sets of submitters and workers, any
number of chunks and any width:

- `Typed`: `TypeOK` is an invariant; the holder count never underflows.
- `JobOutlivesItsHolders`: no worker points at a `Job` whose submitter has left.
- `HoldersAreCounted`: `holders` is the number of workers that point at it.
- `WakeupIsNeverLost`: a submitter that sleeps on a completed loop has a notify
  on the way.
- `ChunksAreCounted`: a claimed chunk is in one thread's hands or counted in `done`.
- `NestedCallsNeverQueue`: a nested call never waits for the lock of its own loop.
- `PoolIsSerial`: the pool implements `SerialLoops`.

None of the first four is inductive alone.  The argument runs through `IInv`:

- `Ownership` ties the two mutexes and `job_` to program counters.  It makes the
  submitter inside `Run` unique, so the published `Job` is the only one.
- `HeldWhileDraining` says when a worker has a pointer, `NoDanglingJob` to whom,
  `FreshJob` that a `Job` is published with no holder.
- `HoldersCounted` follows: only `Register` and `Detach` change both sides, each
  by one; `Retire` leaves with the count at 0 in the critical section in which
  `Register` would have to run.
- `WakeupOnTheWay` is `NoLostWakeup` carried back to the moment the submitter has
  tested the predicate and still holds `mutex_`.  While it does, the last
  worker cannot pass its critical section, so it is at `signal`; once the
  submitter sleeps, the worker is there or at `notify`.

The other three rest on a second invariant over the first, `LoopInv`.  For a
published loop `LoopsAreSerial` balances the books: `done` plus the number of
threads at work on it is the number of chunks claimed, where claims past the end
count as none.  Hence when the submitter's test passes, nobody works on the loop
and every chunk was started or a body has thrown.  `ChunksAreClaimed` keeps the chunks of two
threads apart, so a body is entered once.  The refinement maps a loop to what its
caller sees; registration, detaching and the wake-up protocol are stutters.

### Dataset and pipeline

A position is serial if some number of records served in order from the origin
leads to it; `SerialPosition(n, shuffled, k)` is that position, in closed form.
`EvaluatePassProofs` shows, for any file, batch and row width, what each function of
`Dataset` does to it: `RunAdvances` and `BatchAdvances` (serving goes from record
`k` to `k + n`, across any number of wraps), `RunServes` (the rows are the records
in between), `Rewinds` (back to a multiple of `n`), `Restores` (a position saved at
one record and restored at another, in a later epoch or an earlier one, comes
back), `ReplayIs` (the permutations drawn again are those drawn before).  They
rest on lemmas about `\div` and `%`, which the provers lack.  On top:

- `PositionsAreSerial`, `VerdictsAreCurrent`: the two properties of the dataset's
  run.  Inductive with two more parts: a saved position is serial for its own
  count, and the cached extent is empty or that of the labels now held.

Of the pipeline, with a feeder thread or without, the same module proves:

- `PipelineIsTyped`, `BuffersAreHandedOver`: the staging buffers change hands.
- `PipelineIsSerial`: the pipeline implements `SerialFeed`.

One invariant gives all three.  `PipeAt(shuffled, k)` says for each pair of places
of the two threads where the dataset is, what the buffers and slots hold, and
what `stage_start` is, when the next batch begins at record `k`; `PipelineInv`
says that `k` is the batches taken times their size.  Of all the actions only
`Release` and the last turn of `FillDirect` move `k` on, and
`Join` brings the dataset back to it, by `Restores`.

An evaluation is the same invariant at another `k`:

- `EverySampleIsScored`: the rows judged are those of one epoch, each once.
- `PassesLeaveNoTrace`: the dataset is as it was.

`PassInv` puts the pipeline at the top of the epoch in which the pass was entered,
plus `b` batches, and the rows judged so far at the first of that epoch; the
last batch is ragged exactly by what the minimum in `RealSamples` cuts.  It claims
nothing after a failed `Execute`, where finding 1 applies.

### Storage

`FileSystemProofs` says once what the steps of a file system do to its names,
inodes and disk.  Over it, for any number of processes, saves, kills and power
cuts, `CommitProofs` proves

- `SidecarHasOneEditor`, `NothingIsLeftBehind`, `NoUpdateIsLost`, and
- `CommitIsAtomic`: `Commit` implements `AtomicFile`;

and `CheckpointFileProofs`

- `LoadsReadOneRecord`, `FlushedSavesSurvive`, and
- `SaveIsAtomic`: `CheckpointFile` implements `AtomicFile`.

The invariants follow one idea.  No two names share an inode, now or on disk, and
no sidecar is the file a power cut would bring back (`NamesApart`); so writes to a
sidecar are seen by nobody else.  What a process has written so far is said for
each place in its code (`EditsRight`, `WritersWrite`), up to the fsync, after which
the inode is `clean`; hence what a rename installs is whole and stays whole
(`OutputIsWhole`, `CheckpointIsWhole`).  `Commit` adds that whoever is past the lock
holds it (`HolderWorks`), and that the sidecar of an update in place holds every
update the file holds (`InPlace`), since nobody else replaces the file meanwhile; so
a commit keeps the ones before it, with a hash in its plan or without.  A source of
its own is a model, whoever rewrites it (`SourceStays`), hence so is the copy.  The loader adds that the inode
it has open is no writer's, under whatever name (`LoadIsWhole`).

### Training

`DeviceUpdateProofs` is about `DeviceSpec`: for every horizon, cadence, split, curve
of losses and accuracy, and every chain of processes killed anywhere, stopped, and
started again with other options.

- `RowsAreOfOneSplit`, `ReportsAreTrue`, `ShippedIsBetter` hold without further
  hypotheses.  In `IInv` every score travels with the state it is the score of:
  the engine's members and the checkpoint's say how many steps are behind each
  state they keep, so a loss is never compared with another state's, and which
  split it was trained on, so a resume that would mix two is refused.
- `ChainsTrainAsOne`: a chain whose processes only finish what the first was asked
  for consumes the micro-batches in order and anneals over one horizon, so its
  state is that of one process.  Without a validation set that is
  `ResumedIsUninterrupted`.
- `ResumedAsUninterrupted` and `ResumedCommitsTheBits`: with a validation set too,
  the resumed run ships what the uninterrupted one ships, reports its losses and is
  accepted exactly when it is.  `Judged` says that after every step the best
  step the chain keeps is the one `Verdict` computes for a single process.

The last two assume `Patience = 0` and `Horizons \subseteq {0}`.  The code needs
both: patience's verdict is not in the checkpoint, and a first segment of a longer
horizon skips an evaluation (section 4).  The run that checks the two properties
has patience off for the same reason.

### Induction

The library's induction theorems take an operator, which no prover here can
instantiate.  Induction over numbers is stated instead as a fact about sets, from
the well-foundedness of `<` (`Induction` in `EvaluatePassProofs`,
`DeviceUpdateProofs` and `ArenaBinderProofs`), and used on the set of numbers for
which a claim holds.  That is enough to unfold the recursive functions of
`FillBatch`, of the replayed permutations, of `Verdict` and of the arena binder, and
to show that a finite set of labels has a least and a greatest.  A recursive function
defined inside an operator is a `CHOOSE`: the lemma that the table exists comes
first, then what it holds.

### The validator

`PlanValidatorProofs` proves, for every word size above 4 and every source limit
below it:

- `MulOkIsExact`, `RangeOkIsExact`: the two primitives accept exactly the products
  and ranges that do not wrap.  The one is a division, the other a subtraction
  after a comparison; neither computes what it is asked about.
- `AcceptedClaimIsInBounds`: an operand that passes `RefOk` ends within its space,
  aligned, in the arena if it is written; its element count times its width is
  the number the validator computed.
- `AcceptedClaimsAreApart`: two accepted operands that `Overlap` finds disjoint
  share no byte.  This needs the one before: the ends it compares are sums that
  would be wrong if they had wrapped.
- `ClaimedTouchesAreSafe`: if each touch of a kernel lies in a claim of its own
  (an injection from touches to claims), and claims are accepted and disjoint, the
  kernel is safe.
- `AcceptedInstructionMayRun`: for an instruction of any opcode, whatever its words
  hold, acceptance means `MayTouch`: in bounds, and nothing written that is read
  through another pointer.  There is one lemma for each family of opcodes, that the
  claims the validator makes are the touches of the kernel, or cover them.
- `BoundsAreNarrowest`, `AcceptedInstructionMayIndex`: the class count and the
  vocabulary bound taken from a plan exceed no softmax and no table in it, and the
  only operands used as indices are the staged ones.  `StagedIndicesAreInBounds`
  follows them to the corpus: what the feeder contract admits is within every table.
- `AcceptedStaysSafe`: `AcceptedIsSafe` is an invariant.  A damaged word is still a
  word of its kind (`DamagedInstruction`), so the theorems above are about it.

The assumptions are `WordAssumption`, that the sizes of the context are words, and
for the last theorem `PlanFitsItsWords`, which is about what the compiler's passes
compute and is an invariant of the run: a compiled plan leaves room in its words, and
its step program indexes nothing, because the engine looks for the narrowest table in
the other three (`update_engine.cc:331`, `:349`).  The chain from
`ValidateInstruction` to `MayTouch` is arithmetic about `\div` up to `RangeOkIsExact`
and set reasoning after it.

### The arena binder

`ArenaBinderProofs` proves, for every model and configuration, every alignment and
every choice of narrow weights, that of whatever block the sweep leaves

- `BoundIsApart`: `LiveValuesAreApart` is an invariant;
- `BoundIsWithin`: every value and every delta ends within `arena_size`.

The hypothesis is `SweptIsBindable`, an invariant of the run: the values have sizes.
The invariant, `BinderInv`, carries the verifier's verdict from the sweep to the
binding, and what the binding established while the block is bound.  The argument:

- `Scanned` is the invariant of the scan itself, over the intervals placed so far.
  The active blocks are sorted by their start, which is what makes the first fit
  sound (`FirstFitIs`: the place found is free of every active block); an interval
  that is no longer among them ended before the present one begins; all lie between
  the base and the high water mark.
- So of two transients either one's interval is over when the other is born, or they
  are apart (`LinearScanIs`).  The slots lie below the base, one behind the other
  (`BindSlotsAre`); the frozen weights are in rodata (`PackAllIs`).
- An interval that is over is a life that is over (`SpanIs`).  This needs that a value
  is defined once, as the binder takes its birth from the operation it meets and
  its last use from there on.  It is `Block::verify` that says so: as many ids as values
  means that no value is listed twice, hence that no two operations define one
  (`VerifiedDefinesOnce`).
- The merge program's scan starts at the arena's high water mark, so its deltas are
  behind everything (`BindAllIs`).

### Only model-checked

Liveness (`EveryCallReturns`, `CallsReturn`), which the prover does not do; the
three runs that expect a violation; and, of `UpdateRun`, what the passes of the
compiler compute: `NothingBreaksInside`, `GraftedIsAdapted`,
`GradientsAreDerivatives`, `FusionKeepsThePrograms`, `ProgramsAreAccepted`,
`TrainingIsTheGraph`, `EvaluationScoresWhatShips`, `CommitsAreCurrent`, and the two
hypotheses above, `SweptIsBindable` and `PlanFitsItsWords`.  The passes are folds of
an operator over the operations of a block (`Walk`), and a lemma about `Walk` would
have to take that operator as its parameter, which no prover here can instantiate;
they also build attribute maps with `:>` and `@@` and filter with `SelectSeq`, which
the provers do not know.

## 6. What is not modelled

- Rounding of floating-point numbers, the order of a sum and the tiles of a
  product (`executor/gemm.cc`): the field has neither.  Weak memory beyond what
  is said above.
- Reading and writing files: `.sds`, `.smf`, the byte layout of a plan and of a
  checkpoint, v3 and v4 checkpoints, the importers.  A hash is equality of
  contents.
- The im2col lowering of convolutions: no model that reaches the driver has one.
- The kernel policy, the host's architecture and the emitter of kernels' source,
  which choose a traversal and never a result; the Metal backend.
- In the device program: option parsing, the report file, the build script.
- The Windows branches of `durable_io.cc`, which follow the same steps.
- Two updates from one separate source model, one after the other: the second
  replaces the first by design; `CommittedIsKept` is about commits in place.
- A second `Train` in one process, and a fresh run over the checkpoint of an
  older one.  Patience is in `Train` but off in the passing run, because of the
  disagreement above.
- In an evaluation, a composite loss (cross-entropy with distillation, or
  distillation alone): its batches keep no loss per row, so the last one's mean
  counts once per real row and the rows it wraps to still shape it
  (`docs/runtime.md:79`).  `EvaluatePass` is about losses that are kept per row.
- In a step, the refusal of a tensor whose gradient norm is not finite
  (`executor/optimizer.cc:43`): the field of `Kernels` has no such element.
- Diagnostics and the command-line tools.

## 7. Plan

Proofs next: `SweptIsBindable` and `PlanFitsItsWords` as invariants of the passes, which
needs each pass written, as the arena binder is, as a recursive function over the
operations; then that lowering reads and writes only what the binder bound.

Models next: the chunks of a loop partition it, whatever the grain
(`ChunkGeometry`); a second `Train` in one process; the parsing of a checkpoint of
another plan.
