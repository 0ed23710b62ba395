---------------------------- MODULE WorkerPool ----------------------------
(***************************************************************************)
(* The persistent worker pool behind ParallelFor                           *)
(* (source/parallel/parallel_for.cc).                                      *)
(*                                                                         *)
(* A submitter calls ParallelFor; the call either runs inline or takes the *)
(* submission lock, publishes a Job that lives on its own stack, drains    *)
(* chunks together with the workers and waits until the chunks are done    *)
(* and every worker has let go of the Job.  The Job of submitter s is      *)
(* named s.                                                                *)
(*                                                                         *)
(* Granularity.  A critical section of mutex_ whose reads and writes are   *)
(* all guarded by mutex_ is one action.  The submitter's wait is not one:  *)
(* its predicate reads done and holders, which change outside mutex_, so   *)
(* the thread holds mutex_ from the failed test (Retire) to the moment it  *)
(* sleeps (Block).  Every access to an atomic is an action of its own.     *)
(* Memory is sequentially consistent: the relaxed load of `failed` may in  *)
(* the program be later than here, which only starts more chunks.          *)
(***************************************************************************)
EXTENDS Naturals, FiniteSets

CONSTANTS
    Submitters,         \* external threads that call ParallelFor
    Workers,            \* threads the pool may create
    kMaxParallelChunks, \* most chunks of one call
    Faulty,             \* chunks whose body may throw
    Widths,             \* arguments of SetParallelThreadCount
    EnvThreads,         \* SEEML_THREADS as strtoll reads it; 0 when refused
    HardwareThreads,    \* std::thread::hardware_concurrency(); 0 when unknown
    MaxCalls,           \* bound: calls of one submitter
    NoThread, NoJob, NoError

ASSUME ThreadsAssumption ==
    /\ IsFiniteSet(Submitters) /\ IsFiniteSet(Workers)
    /\ Submitters \cap Workers = {}
    /\ NoThread \notin Submitters \cup Workers
    /\ NoJob \notin Submitters

ASSUME CountsAssumption ==
    /\ kMaxParallelChunks \in Nat \ {0}
    /\ Faulty \subseteq 0..(kMaxParallelChunks - 1)
    /\ Widths \subseteq Nat
    /\ EnvThreads \in Nat /\ HardwareThreads \in Nat /\ MaxCalls \in Nat
    /\ NoError \notin Nat

Threads == Submitters \cup Workers
Chunk == 0..(kMaxParallelChunks - 1)

VARIABLES
    pc,             \* where each thread is
    submit_mutex,   \* owner of submit_mutex_
    mutex,          \* owner of mutex_ between two actions
    job,            \* job_
    epoch,          \* epoch_
    thread_count,   \* thread_count_; 0 is "not yet resolved"
    stop,           \* stop_
    tls_job_owner,  \* the threads whose tls_job_owner flag is set
    seen_epoch,     \* each worker's seen_epoch
    held,           \* each worker's local Job pointer
    chunks, next, done, holders, failed, error,  \* fields of each Job
    chunk,          \* the chunk a thread has claimed
    calls,          \* calls each submitter has made
    started,        \* history: the chunks of the call whose body was entered
    thrown,         \* history: the chunks of the call whose body threw
    outcome         \* how the last call of a submitter ended

pool == <<submit_mutex, mutex, job, epoch, thread_count, stop, tls_job_owner>>
fields == <<chunks, next, done, holders, failed, error>>
worker == <<seen_epoch, held>>
history == <<started, thrown, outcome>>
vars == <<pc, pool, worker, fields, chunk, calls, history>>

\* Pcs of a thread inside DrainJob, from the claim to the count.
Executing == {"body", "nested"}
Working == {"test", "mark", "count", "blocked"} \cup Executing
Draining == {"claim"} \cup Working

\* Pcs of a submitter whose Job workers may see, and of one inside Run().
Published == {"announce", "retire", "block", "waiting"} \cup Draining
InRun == {"publish", "return"} \cup Published

SubmitterPc ==
    {"idle", "inline", "submit", "stopping", "joining"} \cup InRun
WorkerPc ==
    {"none", "wake", "parked", "detach", "signal", "notify", "exited"}
        \cup Draining

workers == {w \in Workers : pc[w] # "none"}

JobOf(t) == IF t \in Submitters THEN t ELSE held[t]

ResolveAutoThreadCount ==
    CASE EnvThreads > 0 -> EnvThreads
      [] EnvThreads = 0 /\ HardwareThreads > 0 -> HardwareThreads
      [] OTHER -> 1

ThreadCount == IF thread_count = 0 THEN ResolveAutoThreadCount ELSE thread_count

Init ==
    /\ pc = [t \in Threads |-> IF t \in Submitters THEN "idle" ELSE "none"]
    /\ submit_mutex = NoThread /\ mutex = NoThread
    /\ job = NoJob /\ epoch = 0
    /\ thread_count = 0 /\ stop = FALSE
    /\ tls_job_owner = {}
    /\ seen_epoch = [w \in Workers |-> 0]
    /\ held = [w \in Workers |-> NoJob]
    /\ chunks = [s \in Submitters |-> 0]
    /\ next = [s \in Submitters |-> 0]
    /\ done = [s \in Submitters |-> 0]
    /\ holders = [s \in Submitters |-> 0]
    /\ failed = [s \in Submitters |-> FALSE]
    /\ error = [s \in Submitters |-> NoError]
    /\ chunk = [t \in Threads |-> 0]
    /\ calls = [s \in Submitters |-> 0]
    /\ started = [s \in Submitters |-> {}]
    /\ thrown = [s \in Submitters |-> {}]
    /\ outcome = [s \in Submitters |-> "none"]

Goto(t, label) == pc' = [pc EXCEPT ![t] = label]

(***************************************************************************)
(* ParallelForRaw.                                                         *)
(***************************************************************************)

\* Mutant: the submitting thread forgets that it is in a loop.
RunsInline_NoOwnerFlag(t) == t \in Workers \/ ThreadCount = 1

\* A thread that is in a loop already must not queue for the pool it occupies.
RunsInline(t) == t \in Workers \/ t \in tls_job_owner \/ ThreadCount = 1

\* SetParallelThreadCount must not race a ParallelFor (parallel_for.h:74).
NoResize == \A s \in Submitters : pc[s] \notin {"stopping", "joining"}

\* n = 0 has no chunk and returns at once; otherwise the call runs inline or
\* constructs a fresh Job and enters Run().
ParallelForRaw(s) ==
    /\ pc[s] = "idle" /\ NoResize
    /\ calls[s] < MaxCalls
    /\ calls' = [calls EXCEPT ![s] = @ + 1]
    /\ \E k \in 0..kMaxParallelChunks :
        /\ Goto(s, CASE k = 0 -> "idle"
                     [] k = 1 \/ (k > 1 /\ RunsInline(s)) -> "inline"
                     [] OTHER -> "submit")
        /\ thread_count' = IF k > 1 THEN ThreadCount ELSE thread_count
        /\ chunks' = [chunks EXCEPT ![s] = k]
    /\ next' = [next EXCEPT ![s] = 0]
    /\ done' = [done EXCEPT ![s] = 0]
    /\ holders' = [holders EXCEPT ![s] = 0]
    /\ failed' = [failed EXCEPT ![s] = FALSE]
    /\ error' = [error EXCEPT ![s] = NoError]
    /\ started' = [started EXCEPT ![s] = {}]
    /\ thrown' = [thrown EXCEPT ![s] = {}]
    /\ outcome' = [outcome EXCEPT ![s] = "none"]
    /\ UNCHANGED <<submit_mutex, mutex, job, epoch, stop, tls_job_owner,
                   worker, chunk>>

\* The inline loop touches nothing shared.  It runs every chunk, or leaves at
\* the first body that throws.
InlineLoop(s) ==
    /\ pc[s] = "inline"
    /\ Goto(s, "idle")
    /\ \/ /\ started' = [started EXCEPT ![s] = 0..(chunks[s] - 1)]
          /\ outcome' = [outcome EXCEPT ![s] = "returned"]
          /\ UNCHANGED thrown
       \/ \E c \in Faulty \cap 0..(chunks[s] - 1) :
            /\ started' = [started EXCEPT ![s] = 0..c]
            /\ thrown' = [thrown EXCEPT ![s] = {c}]
            /\ outcome' = [outcome EXCEPT ![s] = "rethrown"]
    /\ UNCHANGED <<pool, worker, fields, chunk, calls>>

(***************************************************************************)
(* WorkerPool::Run, up to the drain.                                       *)
(***************************************************************************)

\* Mutant: submissions are not serialized.
Submit_Unserialized(s) ==
    /\ pc[s] = "submit"
    /\ submit_mutex' = s
    /\ tls_job_owner' = tls_job_owner \cup {s}
    /\ Goto(s, "publish")
    /\ UNCHANGED <<mutex, job, epoch, thread_count, stop, worker, fields,
                   chunk, calls, history>>

Submit(s) ==
    /\ pc[s] = "submit" /\ submit_mutex = NoThread
    /\ submit_mutex' = s
    /\ tls_job_owner' = tls_job_owner \cup {s}
    /\ Goto(s, "publish")
    /\ UNCHANGED <<mutex, job, epoch, thread_count, stop, worker, fields,
                   chunk, calls, history>>

\* A std::thread constructor may throw, so any number of the missing workers
\* is created.
SpawnWorkersLocked(new) ==
    /\ new \subseteq Workers \ workers
    /\ new # {} => Cardinality(workers \cup new) + 1 <= ThreadCount
    /\ thread_count' = ThreadCount
    /\ seen_epoch' = [w \in Workers |-> IF w \in new THEN 0 ELSE seen_epoch[w]]

\* pc after s creates the workers in new and goes on to label.
SpawnAndGoto(s, new, label) ==
    pc' = [t \in Threads |-> CASE t = s -> label
                               [] t \in new -> "wake"
                               [] OTHER -> pc[t]]

Publish(s) ==
    /\ pc[s] = "publish" /\ mutex = NoThread
    /\ \E new \in SUBSET Workers :
        SpawnWorkersLocked(new) /\ SpawnAndGoto(s, new, "announce")
    /\ job' = s
    /\ epoch' = epoch + 1
    /\ UNCHANGED <<submit_mutex, mutex, stop, tls_job_owner, held, fields,
                   chunk, calls, history>>

\* Growing workers_ may also throw std::bad_alloc, which nothing in Run()
\* catches: the call fails before its Job is published, and the owner flag and
\* the submission lock are released on the way out.
PublishThrows(s) ==
    /\ pc[s] = "publish" /\ mutex = NoThread
    /\ \E new \in SUBSET Workers :
        /\ SpawnWorkersLocked(new) /\ SpawnAndGoto(s, new, "idle")
        /\ Cardinality(workers \cup new) + 1 < ThreadCount
    /\ outcome' = [outcome EXCEPT ![s] = "failed"]
    /\ tls_job_owner' = tls_job_owner \ {s}
    /\ submit_mutex' = NoThread
    /\ UNCHANGED <<mutex, job, epoch, stop, held, fields, chunk, calls,
                   started, thrown>>

\* pc after s does work_cv_.notify_all() and goes on to label.
NotifyAll(s, label) ==
    pc' = [t \in Threads |-> CASE t = s -> label
                               [] t \in Workers /\ pc[t] = "parked" -> "wake"
                               [] OTHER -> pc[t]]

Announce(s) ==
    /\ pc[s] = "announce"
    /\ NotifyAll(s, "claim")
    /\ UNCHANGED <<pool, worker, fields, chunk, calls, history>>

(***************************************************************************)
(* DrainJob, by the submitter or a worker.                                 *)
(***************************************************************************)

\* Mutant: one chunk too many.
Exhausted_OffByOne(j) == next[j] > chunks[j]

Exhausted(j) == next[j] >= chunks[j]

Claim(t) ==
    LET j == JobOf(t) IN
    /\ pc[t] = "claim"
    /\ next' = [next EXCEPT ![j] = @ + 1]
    /\ IF Exhausted(j)
         THEN /\ Goto(t, IF t \in Submitters THEN "retire" ELSE "detach")
              /\ UNCHANGED chunk
         ELSE /\ Goto(t, "test")
              /\ chunk' = [chunk EXCEPT ![t] = next[j]]
    /\ UNCHANGED <<pool, worker, chunks, done, holders, failed, error, calls,
                   history>>

\* Once a body has thrown, claimed chunks are counted but not executed.
Test(t) ==
    LET j == JobOf(t) IN
    /\ pc[t] = "test"
    /\ IF failed[j]
         THEN Goto(t, "count") /\ UNCHANGED started
         ELSE /\ Goto(t, "body")
              /\ started' = [started EXCEPT ![j] = @ \cup {chunk[t]}]
    /\ UNCHANGED <<pool, worker, fields, chunk, calls, thrown, outcome>>

\* The body calls ParallelFor.  The nested loop runs inline, or queues for
\* the submission lock: that lock is held until this very loop retires, so a
\* thread at "blocked" has no next step.
NestedCall(t) ==
    /\ pc[t] = "body"
    /\ Goto(t, IF RunsInline(t) THEN "nested" ELSE "blocked")
    /\ UNCHANGED <<pool, worker, fields, chunk, calls, history>>

BodyReturns(t) ==
    /\ pc[t] \in Executing
    /\ Goto(t, "count")
    /\ UNCHANGED <<pool, worker, fields, chunk, calls, history>>

\* The catch clause: the first exception is kept, under error_mutex.
BodyThrows(t) ==
    LET j == JobOf(t) IN
    /\ pc[t] \in Executing /\ chunk[t] \in Faulty
    /\ error' = [error EXCEPT ![j] = IF @ = NoError THEN chunk[t] ELSE @]
    /\ thrown' = [thrown EXCEPT ![j] = @ \cup {chunk[t]}]
    /\ Goto(t, "mark")
    /\ UNCHANGED <<pool, worker, chunks, next, done, holders, failed, chunk,
                   calls, started, outcome>>

\* Mutant: a chunk whose body threw is never counted.
MarkFailed_Uncounted(t) ==
    /\ pc[t] = "mark"
    /\ failed' = [failed EXCEPT ![JobOf(t)] = TRUE]
    /\ Goto(t, "claim")
    /\ UNCHANGED <<pool, worker, chunks, next, done, holders, error, chunk,
                   calls, history>>

MarkFailed(t) ==
    /\ pc[t] = "mark"
    /\ failed' = [failed EXCEPT ![JobOf(t)] = TRUE]
    /\ Goto(t, "count")
    /\ UNCHANGED <<pool, worker, chunks, next, done, holders, error, chunk,
                   calls, history>>

Count(t) ==
    /\ pc[t] = "count"
    /\ done' = [done EXCEPT ![JobOf(t)] = @ + 1]
    /\ Goto(t, "claim")
    /\ UNCHANGED <<pool, worker, chunks, next, holders, failed, error, chunk,
                   calls, history>>

DrainJob(t) ==
    \/ Claim(t) \/ Test(t) \/ NestedCall(t) \/ BodyReturns(t)
    \/ BodyThrows(t) \/ MarkFailed(t) \/ Count(t)

(***************************************************************************)
(* WorkerPool::Run, the wait and the return.                               *)
(***************************************************************************)

\* Mutant: the submitter waits for the chunks but not for the workers.
RetirePredicate_DoneOnly(s) == done[s] = chunks[s]

RetirePredicate(s) == done[s] = chunks[s] /\ holders[s] = 0

\* With the predicate true, job_ is cleared in the same critical section.
Retire(s) ==
    /\ pc[s] = "retire" /\ mutex = NoThread
    /\ IF RetirePredicate(s)
         THEN job' = NoJob /\ Goto(s, "return") /\ UNCHANGED mutex
         ELSE mutex' = s /\ Goto(s, "block") /\ UNCHANGED job
    /\ UNCHANGED <<submit_mutex, epoch, thread_count, stop, tls_job_owner,
                   worker, fields, chunk, calls, history>>

Block(s) ==
    /\ pc[s] = "block"
    /\ mutex' = NoThread
    /\ Goto(s, "waiting")
    /\ UNCHANGED <<submit_mutex, job, epoch, thread_count, stop,
                   tls_job_owner, worker, fields, chunk, calls, history>>

\* Rethrow or return, releasing the owner flag and the submission lock.
Return(s) ==
    /\ pc[s] = "return"
    /\ outcome' = [outcome EXCEPT
                     ![s] = IF error[s] = NoError THEN "returned" ELSE "rethrown"]
    /\ tls_job_owner' = tls_job_owner \ {s}
    /\ submit_mutex' = NoThread
    /\ Goto(s, "idle")
    /\ UNCHANGED <<mutex, job, epoch, thread_count, stop, worker, fields,
                   chunk, calls, started, thrown>>

(***************************************************************************)
(* WorkerLoop.                                                             *)
(***************************************************************************)

Park(w) ==
    /\ pc[w] = "wake" /\ mutex = NoThread
    /\ ~stop /\ epoch = seen_epoch[w]
    /\ Goto(w, "parked")
    /\ UNCHANGED <<pool, worker, fields, chunk, calls, history>>

Exit(w) ==
    /\ pc[w] = "wake" /\ mutex = NoThread
    /\ stop
    /\ Goto(w, "exited")
    /\ UNCHANGED <<pool, worker, fields, chunk, calls, history>>

\* Mutant: a worker that finds every chunk claimed already does not count.
Register_Uncounted(w) ==
    /\ pc[w] = "wake" /\ mutex = NoThread
    /\ ~stop /\ epoch # seen_epoch[w]
    /\ seen_epoch' = [seen_epoch EXCEPT ![w] = epoch]
    /\ IF job = NoJob
         THEN UNCHANGED <<pc, held, holders>>
         ELSE /\ held' = [held EXCEPT ![w] = job]
              /\ holders' = [holders EXCEPT
                               ![job] = IF Exhausted(job) THEN @ ELSE @ + 1]
              /\ Goto(w, "claim")
    /\ UNCHANGED <<pool, chunks, next, done, failed, error, chunk, calls,
                   history>>

\* The worker registers as a holder in the critical section that reads job_.
Register(w) ==
    /\ pc[w] = "wake" /\ mutex = NoThread
    /\ ~stop /\ epoch # seen_epoch[w]
    /\ seen_epoch' = [seen_epoch EXCEPT ![w] = epoch]
    /\ IF job = NoJob
         THEN UNCHANGED <<pc, held, holders>>
         ELSE /\ held' = [held EXCEPT ![w] = job]
              /\ holders' = [holders EXCEPT ![job] = @ + 1]
              /\ Goto(w, "claim")
    /\ UNCHANGED <<pool, chunks, next, done, failed, error, chunk, calls,
                   history>>

LastHolder(before) == before = 1

\* The Job is not touched after the decrement; only the last holder wakes the
\* submitter.
Detach(w) ==
    LET j == held[w] IN
    /\ pc[w] = "detach"
    /\ holders' = [holders EXCEPT ![j] = @ - 1]
    /\ held' = [held EXCEPT ![w] = NoJob]
    /\ Goto(w, IF LastHolder(holders[j]) THEN "signal" ELSE "wake")
    /\ UNCHANGED <<pool, seen_epoch, chunks, next, done, failed, error, chunk,
                   calls, history>>

\* Mutant: no critical section before the notify.
Signal_NoLock(w) ==
    /\ pc[w] = "signal"
    /\ Goto(w, "notify")
    /\ UNCHANGED <<pool, worker, fields, chunk, calls, history>>

\* The empty critical section before the notify.
Signal(w) ==
    /\ pc[w] = "signal" /\ mutex = NoThread
    /\ Goto(w, "notify")
    /\ UNCHANGED <<pool, worker, fields, chunk, calls, history>>

NotifyOne(w) ==
    /\ pc[w] = "notify"
    /\ LET waiters == {s \in Submitters : pc[s] = "waiting"} IN
       IF waiters = {}
         THEN Goto(w, "wake")
         ELSE \E s \in waiters :
                pc' = [pc EXCEPT ![w] = "wake", ![s] = "retire"]
    /\ UNCHANGED <<pool, worker, fields, chunk, calls, history>>

WorkerLoop(w) ==
    \/ Park(w) \/ Exit(w) \/ Register(w)
    \/ Detach(w) \/ Signal(w) \/ NotifyOne(w)

\* A condition variable may wake without a notify.
SpuriousWake(t) ==
    /\ \/ pc[t] = "parked" /\ Goto(t, "wake")
       \/ pc[t] = "waiting" /\ Goto(t, "retire")
    /\ UNCHANGED <<pool, worker, fields, chunk, calls, history>>

(***************************************************************************)
(* SetThreadCount.                                                         *)
(***************************************************************************)

SetWidth ==
    \E n \in Widths :
        thread_count' = IF n > 0 THEN n ELSE ResolveAutoThreadCount

\* JoinWorkers asks the workers to stop, or has none to join.
SetThreadCount(s) ==
    /\ \A r \in Submitters : pc[r] = "idle"
    /\ IF workers = {}
         THEN SetWidth /\ UNCHANGED <<pc, stop>>
         ELSE stop' = TRUE /\ Goto(s, "stopping") /\ UNCHANGED thread_count
    /\ UNCHANGED <<submit_mutex, mutex, job, epoch, tls_job_owner, worker,
                   fields, chunk, calls, history>>

NotifyStop(s) ==
    /\ pc[s] = "stopping"
    /\ NotifyAll(s, "joining")
    /\ UNCHANGED <<pool, worker, fields, chunk, calls, history>>

Join(s) ==
    /\ pc[s] = "joining"
    /\ \A w \in workers : pc[w] = "exited"
    /\ pc' = [t \in Threads |-> CASE t = s -> "idle"
                                  [] t \in Workers -> "none"
                                  [] OTHER -> pc[t]]
    /\ stop' = FALSE
    /\ SetWidth
    /\ UNCHANGED <<submit_mutex, mutex, job, epoch, tls_job_owner, worker,
                   fields, chunk, calls, history>>

\* The steps of a call in progress.
Run(s) ==
    \/ InlineLoop(s) \/ Submit(s) \/ Publish(s) \/ PublishThrows(s) \/ Announce(s)
    \/ Retire(s) \/ Block(s) \/ Return(s)
    \/ NotifyStop(s) \/ Join(s)

Next ==
    \/ \E s \in Submitters : ParallelForRaw(s) \/ SetThreadCount(s) \/ Run(s)
    \/ \E w \in Workers : WorkerLoop(w)
    \/ \E t \in Threads : DrainJob(t) \/ SpuriousWake(t)

\* Threads that can run do run, and a body ends.  Making a call, nesting one
\* and a spurious wake-up are never owed.
Fairness ==
    /\ \A s \in Submitters : WF_vars(Run(s))
    /\ \A w \in Workers : WF_vars(WorkerLoop(w))
    /\ \A t \in Threads :
        WF_vars(Claim(t) \/ Test(t) \/ BodyReturns(t) \/ BodyThrows(t)
                \/ MarkFailed(t) \/ Count(t))

Spec == Init /\ [][Next]_vars
FairSpec == Spec /\ Fairness

(***************************************************************************)
(* Properties.                                                             *)
(***************************************************************************)

\* Every variable holds a value of its C++ type's range in this model.
TypeOK ==
    /\ pc \in [Threads -> SubmitterPc \cup WorkerPc]
    /\ \A s \in Submitters : pc[s] \in SubmitterPc
    /\ \A w \in Workers : pc[w] \in WorkerPc
    /\ submit_mutex \in Submitters \cup {NoThread}
    /\ mutex \in Submitters \cup {NoThread}
    /\ job \in Submitters \cup {NoJob}
    /\ epoch \in Nat /\ thread_count \in Nat /\ stop \in BOOLEAN
    /\ tls_job_owner \subseteq Submitters
    /\ seen_epoch \in [Workers -> Nat]
    /\ held \in [Workers -> Submitters \cup {NoJob}]
    /\ chunks \in [Submitters -> 0..kMaxParallelChunks]
    /\ next \in [Submitters -> Nat]
    /\ done \in [Submitters -> Nat]
    /\ holders \in [Submitters -> Nat]
    /\ failed \in [Submitters -> BOOLEAN]
    /\ error \in [Submitters -> Chunk \cup {NoError}]
    /\ chunk \in [Threads -> Chunk]
    /\ calls \in [Submitters -> Nat]
    /\ started \in [Submitters -> SUBSET Chunk]
    /\ thrown \in [Submitters -> SUBSET Chunk]
    /\ outcome \in [Submitters -> {"none", "returned", "rethrown", "failed"}]

HoldersOf(s) == {w \in Workers : held[w] = s}

\* No worker ever points at a Job that has left its submitter's stack: while a
\* worker holds the Job of s, that Job is the published one and s is still
\* inside Run(), before the return (parallel_for.cc:44-47).
NoDanglingJob ==
    \A w \in Workers :
        held[w] # NoJob => job = held[w] /\ pc[held[w]] \in Published

\* holders counts exactly the workers that point at the Job, so the submitter
\* that reads 0 is alone with it (parallel_for.cc:194-196, 210).
HoldersCounted ==
    \A s \in Submitters :
        pc[s] \in Published => holders[s] = Cardinality(HoldersOf(s))

\* A submitter that sleeps although its loop is complete has a notify on the
\* way: waking only on the last detach loses no wake-up (parallel_for.cc:200-214).
NoLostWakeup ==
    \A s \in Submitters :
        pc[s] = "waiting" /\ RetirePredicate(s) =>
            \E w \in Workers : pc[w] \in {"signal", "notify"}

WorkingOn(s) == {t \in Threads : pc[t] \in Working /\ JobOf(t) = s}

\* Every claimed chunk is in the hands of exactly one thread or has been
\* counted in done, whatever threw: done reaches chunks, and not before the
\* last body has ended (parallel_for.cc:67-90).
ClaimsAreCounted ==
    \A s \in Submitters :
        pc[s] \in Published =>
            done[s] + Cardinality(WorkingOn(s)) =
                IF next[s] < chunks[s] THEN next[s] ELSE chunks[s]

\* The pool implements serial loops: the chunks in execution are those of the
\* threads inside a body, and the loop with the pool is the lock's owner.
LoopState ==
    [s \in Submitters |->
        CASE pc[s] \in {"idle", "stopping", "joining"} -> "idle"
          [] pc[s] = "inline" -> "inline"
          [] pc[s] = "submit" -> "queued"
          [] OTHER -> "running"]

ExecutingChunks ==
    [s \in Submitters |->
        {chunk[t] : t \in {u \in WorkingOn(s) : pc[u] \in Executing}}]

Promise == INSTANCE SerialLoops WITH
    Callers <- Submitters, MaxChunks <- kMaxParallelChunks,
    MayThrow <- Faulty, Nobody <- NoThread,
    loop <- LoopState, size <- chunks, entered <- started,
    executing <- ExecutingChunks, threw <- thrown, result <- outcome,
    current <- submit_mutex

\* Seen by its callers, the pool runs loops one at a time, enters a body at
\* most once, and returns or rethrows as parallel_for.h:87-92 says.
ImplementsSerialLoops == Promise!Spec

\* A call of ParallelFor or SetParallelThreadCount comes back, with nested
\* calls, throwing bodies, missing workers and late wake-ups; this also says
\* that nobody deadlocks on the two mutexes or the two condition variables.
EveryCallReturns ==
    \A s \in Submitters : pc[s] # "idle" ~> pc[s] = "idle"
============================================================================
