-------------------------- MODULE WorkerPoolProofs --------------------------
(***************************************************************************)
(* Proofs about WorkerPool: no worker outlives the Job it points at, the   *)
(* holder count is exact, and the submitter's wake-up is never lost        *)
(* (IInv); every claimed chunk is in one thread's hands or counted in      *)
(* done, a body is entered once and a nested call never queues (LoopInv);  *)
(* hence the pool implements SerialLoops.                                  *)
(***************************************************************************)
EXTENDS WorkerPool, FiniteSetTheorems, TLAPS

\* What the program counter of a submitter says about the two mutexes and job_.
Ownership ==
    \A s \in Submitters :
        /\ pc[s] \in InRun <=> submit_mutex = s
        /\ pc[s] \in Published <=> job = s
        /\ pc[s] = "block" <=> mutex = s

\* A worker has a Job exactly from the registration to the detach.
HeldWhileDraining ==
    \A w \in Workers : held[w] # NoJob <=> pc[w] \in Draining \cup {"detach"}

\* A Job is published with no holder.
FreshJob == \A s \in Submitters : pc[s] \in {"submit", "publish"} => holders[s] = 0

\* NoLostWakeup, carried back to the moment the submitter has tested the
\* predicate and still holds mutex_: the last worker out cannot have passed
\* its critical section.
WakeupOnTheWay ==
    \A s \in Submitters :
        RetirePredicate(s) =>
            /\ pc[s] = "block" => \E w \in Workers : pc[w] = "signal"
            /\ pc[s] = "waiting" =>
                \E w \in Workers : pc[w] \in {"signal", "notify"}

IInv ==
    /\ TypeOK /\ Ownership /\ HeldWhileDraining /\ NoDanglingJob
    /\ FreshJob /\ HoldersCounted /\ WakeupOnTheWay

-----------------------------------------------------------------------------
(* Typing. *)

\* The pool's width is a natural number, and the automatic one is at least 1
\* (parallel_for.cc:29-42, 103-107).
LEMMA WidthIsNat ==
    ASSUME thread_count \in Nat
    PROVE  ThreadCount \in Nat /\ ResolveAutoThreadCount \in Nat \ {0}
BY CountsAssumption DEF ThreadCount, ResolveAutoThreadCount

\* The chunks of a call are among the chunk numbers.
LEMMA FirstChunks ==
    ASSUME NEW k \in 0..kMaxParallelChunks
    PROVE  0..(k - 1) \subseteq Chunk
BY CountsAssumption DEF Chunk

\* The members of a new pool have their types (parallel_for.cc:219-228).
LEMMA TypeInit == Init => TypeOK
<1> SUFFICES ASSUME Init PROVE TypeOK
  OBVIOUS
<1> USE ThreadsAssumption, CountsAssumption DEF Init, Threads, Chunk
<1>1. pc \in [Threads -> SubmitterPc \cup WorkerPc]
  BY DEF SubmitterPc, WorkerPc
<1>2. /\ \A s \in Submitters : pc[s] \in SubmitterPc
      /\ \A w \in Workers : pc[w] \in WorkerPc
  BY DEF SubmitterPc, WorkerPc
<1>3. /\ chunks \in [Submitters -> 0..kMaxParallelChunks]
      /\ chunk \in [Threads -> Chunk]
  OBVIOUS
<1> QED
  BY <1>1, <1>2, <1>3 DEF TypeOK

\* A worker about to detach holds a Job whose count includes it.
LEMMA HolderIsCounted ==
    ASSUME IInv, NEW w \in Workers, pc[w] \in Draining \cup {"detach"}
    PROVE  /\ held[w] \in Submitters
           /\ pc[held[w]] \in Published
           /\ IsFiniteSet(HoldersOf(held[w]))
           /\ holders[held[w]] = Cardinality(HoldersOf(held[w]))
           /\ holders[held[w]] >= 1
<1>1. held[w] \in Submitters /\ pc[held[w]] \in Published
  BY DEF IInv, TypeOK, HeldWhileDraining, NoDanglingJob
<1>2. IsFiniteSet(HoldersOf(held[w]))
  BY FS_Subset, ThreadsAssumption DEF HoldersOf
<1>3. holders[held[w]] = Cardinality(HoldersOf(held[w]))
  BY <1>1 DEF IInv, HoldersCounted
<1>4. w \in HoldersOf(held[w])
  BY DEF HoldersOf
<1>5. Cardinality(HoldersOf(held[w])) \in Nat /\ Cardinality(HoldersOf(held[w])) # 0
  BY <1>2, <1>4, FS_CardinalityType, FS_EmptySet
<1> QED
  BY <1>1, <1>2, <1>3, <1>5

\* A thread inside DrainJob works on a Job that is published
\* (parallel_for.cc:67-90).
LEMMA DrainerHasJob ==
    ASSUME IInv, NEW t \in Threads, pc[t] \in Draining
    PROVE  JobOf(t) \in Submitters /\ pc[JobOf(t)] \in Published
<1>1. CASE t \in Submitters
  BY <1>1 DEF JobOf, Published
<1>2. CASE t \notin Submitters
  BY <1>2, HolderIsCounted DEF JobOf, Threads
<1> QED
  BY <1>1, <1>2

\* Every step keeps the types: the holder count is never decremented below 0,
\* and a claimed chunk is a chunk of the Job.
LEMMA TypeStep == IInv /\ [Next]_vars => TypeOK'
<1> SUFFICES ASSUME IInv, [Next]_vars PROVE TypeOK'
  OBVIOUS
<1>0. TypeOK
  BY DEF IInv
<1> USE <1>0, ThreadsAssumption, CountsAssumption, WidthIsNat
    DEF TypeOK, pool, fields, worker, history, Threads, Goto, SubmitterPc,
        WorkerPc, InRun, Published, Draining, Working, Executing, JobOf
<1>1. ASSUME NEW s \in Submitters, ParallelForRaw(s) PROVE TypeOK'
  BY <1>1 DEF ParallelForRaw
<1>2. ASSUME NEW s \in Submitters, InlineLoop(s) PROVE TypeOK'
  <2>1. pc' \in [Threads -> SubmitterPc \cup WorkerPc] /\ TypeOK!2' /\ TypeOK!3'
    BY <1>2 DEF InlineLoop
  <2>2. 0..(chunks[s] - 1) \subseteq Chunk
    BY FirstChunks
  <2>3. \A c \in Faulty : 0..c \subseteq Chunk /\ c \in Chunk
    BY DEF Chunk
  <2>4. /\ started' \in [Submitters -> SUBSET Chunk]
        /\ thrown' \in [Submitters -> SUBSET Chunk]
        /\ outcome' \in [Submitters -> {"none", "returned", "rethrown", "failed"}]
    <3>1. CASE /\ started' = [started EXCEPT ![s] = 0..(chunks[s] - 1)]
               /\ outcome' = [outcome EXCEPT ![s] = "returned"]
               /\ thrown' = thrown
      BY <2>2, <3>1
    <3>2. ASSUME NEW c \in Faulty,
                 started' = [started EXCEPT ![s] = 0..c],
                 thrown' = [thrown EXCEPT ![s] = {c}],
                 outcome' = [outcome EXCEPT ![s] = "rethrown"]
          PROVE  <2>4!1 /\ <2>4!2 /\ <2>4!3
      BY <2>3, <3>2
    <3> QED
      BY <1>2, <3>1, <3>2 DEF InlineLoop
  <2> QED
    BY <1>2, <2>1, <2>4 DEF InlineLoop
<1>3. ASSUME NEW s \in Submitters, Submit(s) PROVE TypeOK'
  BY <1>3 DEF Submit
<1>4. ASSUME NEW s \in Submitters, Publish(s) PROVE TypeOK'
  BY <1>4 DEF Publish, SpawnWorkersLocked, SpawnAndGoto
<1>5. ASSUME NEW s \in Submitters, PublishThrows(s) PROVE TypeOK'
  BY <1>5 DEF PublishThrows, SpawnWorkersLocked, SpawnAndGoto
<1>6. ASSUME NEW s \in Submitters, Announce(s) PROVE TypeOK'
  BY <1>6 DEF Announce, NotifyAll
<1>7. ASSUME NEW s \in Submitters, Retire(s) PROVE TypeOK'
  BY <1>7 DEF Retire
<1>8. ASSUME NEW s \in Submitters, Block(s) PROVE TypeOK'
  BY <1>8 DEF Block
<1>9. ASSUME NEW s \in Submitters, Return(s) PROVE TypeOK'
  BY <1>9 DEF Return
<1>10. ASSUME NEW s \in Submitters, NotifyStop(s) PROVE TypeOK'
  BY <1>10 DEF NotifyStop, NotifyAll
<1>11. ASSUME NEW s \in Submitters, SetThreadCount(s) PROVE TypeOK'
  <2>1. thread_count' \in Nat
    BY <1>11 DEF SetThreadCount, SetWidth
  <2>2. CASE workers = {}
    BY <1>11, <2>1, <2>2 DEF SetThreadCount
  <2>3. CASE workers # {}
    <3>1. pc' = [pc EXCEPT ![s] = "stopping"] /\ stop' = TRUE
      BY <1>11, <2>3 DEF SetThreadCount
    <3>2. TypeOK!1' /\ TypeOK!2' /\ TypeOK!3'
      BY <3>1
    <3> QED
      BY <1>11, <2>1, <3>1, <3>2 DEF SetThreadCount
  <2> QED
    BY <2>2, <2>3
<1>12. ASSUME NEW s \in Submitters, Join(s) PROVE TypeOK'
  <2>1. TypeOK!1' /\ TypeOK!2' /\ TypeOK!3'
    <3>1. \A t \in Submitters : pc'[t] \in {"idle", pc[t]}
      BY <1>12 DEF Join
    <3>2. \A t \in Workers : pc'[t] = "none"
      BY <1>12 DEF Join
    <3>3. TypeOK!2' /\ TypeOK!3'
      BY <3>1, <3>2
    <3>4. pc' \in [Threads -> SubmitterPc \cup WorkerPc]
      BY <1>12, <3>3 DEF Join
    <3> QED
      BY <3>3, <3>4
  <2>2. stop' = FALSE /\ SetWidth
    BY <1>12 DEF Join
  <2>3. thread_count' \in Nat
    BY <2>2 DEF SetWidth
  <2> QED
    BY <1>12, <2>1, <2>2, <2>3 DEF Join
<1>13. ASSUME NEW w \in Workers, Park(w) PROVE TypeOK'
  BY <1>13 DEF Park
<1>14. ASSUME NEW w \in Workers, Exit(w) PROVE TypeOK'
  BY <1>14 DEF Exit
<1>15. ASSUME NEW w \in Workers, Register(w) PROVE TypeOK'
  <2>1. CASE job = NoJob
    BY <1>15, <2>1 DEF Register
  <2>2. CASE job # NoJob
    <3>1. pc' = [pc EXCEPT ![w] = "claim"] /\ TypeOK!1' /\ TypeOK!2' /\ TypeOK!3'
      BY <1>15, <2>2 DEF Register
    <3>2. /\ seen_epoch' \in [Workers -> Nat]
          /\ held' \in [Workers -> Submitters \cup {NoJob}]
          /\ holders' \in [Submitters -> Nat]
      BY <1>15, <2>2 DEF Register
    <3> QED
      BY <1>15, <3>1, <3>2 DEF Register
  <2> QED
    BY <2>1, <2>2
<1>16. ASSUME NEW w \in Workers, Detach(w) PROVE TypeOK'
  BY <1>16, HolderIsCounted DEF Detach
<1>17. ASSUME NEW w \in Workers, Signal(w) PROVE TypeOK'
  BY <1>17 DEF Signal
<1>18. ASSUME NEW w \in Workers, NotifyOne(w) PROVE TypeOK'
  <2>1. CASE pc' = [pc EXCEPT ![w] = "wake"]
    BY <1>18, <2>1 DEF NotifyOne
  <2>2. ASSUME NEW s \in Submitters, pc' = [pc EXCEPT ![w] = "wake", ![s] = "retire"]
        PROVE  TypeOK'
    <3>1. \A t \in Submitters : pc'[t] \in {"retire", pc[t]}
      BY <2>2
    <3>2. \A t \in Workers : pc'[t] \in {"wake", pc[t]}
      BY <2>2
    <3>3. TypeOK!2' /\ TypeOK!3'
      BY <3>1, <3>2
    <3>4. TypeOK!1'
      BY <2>2, <3>3
    <3> QED
      BY <1>18, <3>3, <3>4 DEF NotifyOne
  <2> QED
    BY <1>18, <2>1, <2>2 DEF NotifyOne
<1>19. ASSUME NEW t \in Threads, Claim(t) PROVE TypeOK'
  <2>1. JobOf(t) \in Submitters
    BY <1>19, DrainerHasJob DEF Claim
  <2>2. CASE Exhausted(JobOf(t))
    BY <1>19, <2>1, <2>2 DEF Claim
  <2>3. CASE ~Exhausted(JobOf(t))
    <3>1. next[JobOf(t)] \in Chunk
      BY <2>1, <2>3 DEF Exhausted, Chunk
    <3> QED
      BY <1>19, <2>1, <2>3, <3>1 DEF Claim
  <2> QED
    BY <2>2, <2>3
<1>20. ASSUME NEW t \in Threads, Test(t) PROVE TypeOK'
  BY <1>20 DEF Test
<1>21. ASSUME NEW t \in Threads, NestedCall(t) PROVE TypeOK'
  BY <1>21 DEF NestedCall
<1>22. ASSUME NEW t \in Threads, BodyReturns(t) PROVE TypeOK'
  BY <1>22 DEF BodyReturns
<1>23. ASSUME NEW t \in Threads, BodyThrows(t) PROVE TypeOK'
  <2>1. JobOf(t) \in Submitters
    BY <1>23, DrainerHasJob DEF BodyThrows
  <2> QED
    BY <1>23, <2>1 DEF BodyThrows
<1>24. ASSUME NEW t \in Threads, MarkFailed(t) PROVE TypeOK'
  BY <1>24 DEF MarkFailed
<1>25. ASSUME NEW t \in Threads, Count(t) PROVE TypeOK'
  <2>1. JobOf(t) \in Submitters
    BY <1>25, DrainerHasJob DEF Count
  <2>2. done' \in [Submitters -> Nat]
    BY <1>25, <2>1 DEF Count
  <2> QED
    BY <1>25, <2>2 DEF Count
<1>26. ASSUME NEW t \in Threads, SpuriousWake(t) PROVE TypeOK'
  BY <1>26 DEF SpuriousWake
<1>27. CASE UNCHANGED vars
  BY <1>27 DEF vars
<1> QED
  BY <1>1, <1>2, <1>3, <1>4, <1>5, <1>6, <1>7, <1>8, <1>9, <1>10, <1>11, <1>12, <1>13,
     <1>14, <1>15, <1>16, <1>17, <1>18, <1>19, <1>20, <1>21, <1>22, <1>23, <1>24, <1>25,
     <1>26, <1>27 DEF Next, Run, WorkerLoop, DrainJob

-----------------------------------------------------------------------------
(* The mutexes and job_. *)

\* Every step keeps submit_mutex_ with the one submitter inside Run(), job_ with
\* its Job while it is published, and mutex_ with a submitter between its
\* failed test and its sleep (parallel_for.cc:115-149).
LEMMA OwnershipStep == IInv /\ [Next]_vars => Ownership'
<1> SUFFICES ASSUME IInv, [Next]_vars PROVE Ownership'
  OBVIOUS
<1>0. /\ Ownership
      /\ pc \in [Threads -> SubmitterPc \cup WorkerPc]
      /\ submit_mutex \in Submitters \cup {NoThread}
      /\ mutex \in Submitters \cup {NoThread}
      /\ job \in Submitters \cup {NoJob}
  BY DEF IInv, TypeOK
<1> USE <1>0, ThreadsAssumption
    DEF Ownership, pool, fields, worker, history, Threads, Goto,
        InRun, Published, Draining, Working, Executing
<1>1. ASSUME NEW s \in Submitters, ParallelForRaw(s) PROVE Ownership'
  BY <1>1 DEF ParallelForRaw
<1>2. ASSUME NEW s \in Submitters, InlineLoop(s) PROVE Ownership'
  BY <1>2 DEF InlineLoop
<1>3. ASSUME NEW s \in Submitters, Submit(s) PROVE Ownership'
  BY <1>3 DEF Submit
<1>4. ASSUME NEW s \in Submitters, Publish(s) PROVE Ownership'
  BY <1>4 DEF Publish, SpawnWorkersLocked, SpawnAndGoto, workers
<1>5. ASSUME NEW s \in Submitters, PublishThrows(s) PROVE Ownership'
  BY <1>5 DEF PublishThrows, SpawnWorkersLocked, SpawnAndGoto, workers
<1>6. ASSUME NEW s \in Submitters, Announce(s) PROVE Ownership'
  BY <1>6 DEF Announce, NotifyAll
<1>7. ASSUME NEW s \in Submitters, Retire(s) PROVE Ownership'
  BY <1>7 DEF Retire
<1>8. ASSUME NEW s \in Submitters, Block(s) PROVE Ownership'
  BY <1>8 DEF Block
<1>9. ASSUME NEW s \in Submitters, Return(s) PROVE Ownership'
  BY <1>9 DEF Return
<1>10. ASSUME NEW s \in Submitters, NotifyStop(s) PROVE Ownership'
  BY <1>10 DEF NotifyStop, NotifyAll
<1>11. ASSUME NEW s \in Submitters, SetThreadCount(s) PROVE Ownership'
  BY <1>11 DEF SetThreadCount
<1>12. ASSUME NEW s \in Submitters, Join(s) PROVE Ownership'
  BY <1>12 DEF Join
<1>13. ASSUME NEW w \in Workers, Park(w) PROVE Ownership'
  BY <1>13 DEF Park
<1>14. ASSUME NEW w \in Workers, Exit(w) PROVE Ownership'
  BY <1>14 DEF Exit
<1>15. ASSUME NEW w \in Workers, Register(w) PROVE Ownership'
  BY <1>15 DEF Register
<1>16. ASSUME NEW w \in Workers, Detach(w) PROVE Ownership'
  BY <1>16 DEF Detach
<1>17. ASSUME NEW w \in Workers, Signal(w) PROVE Ownership'
  BY <1>17 DEF Signal
<1>18. ASSUME NEW w \in Workers, NotifyOne(w) PROVE Ownership'
  BY <1>18 DEF NotifyOne
<1>19. ASSUME NEW t \in Threads, Claim(t) PROVE Ownership'
  BY <1>19 DEF Claim
<1>20. ASSUME NEW t \in Threads, Test(t) PROVE Ownership'
  BY <1>20 DEF Test
<1>21. ASSUME NEW t \in Threads, NestedCall(t) PROVE Ownership'
  BY <1>21 DEF NestedCall
<1>22. ASSUME NEW t \in Threads, BodyReturns(t) PROVE Ownership'
  BY <1>22 DEF BodyReturns
<1>23. ASSUME NEW t \in Threads, BodyThrows(t) PROVE Ownership'
  BY <1>23 DEF BodyThrows
<1>24. ASSUME NEW t \in Threads, MarkFailed(t) PROVE Ownership'
  BY <1>24 DEF MarkFailed
<1>25. ASSUME NEW t \in Threads, Count(t) PROVE Ownership'
  BY <1>25 DEF Count
<1>26. ASSUME NEW t \in Threads, SpuriousWake(t) PROVE Ownership'
  BY <1>26 DEF SpuriousWake
<1>27. CASE UNCHANGED vars
  BY <1>27 DEF vars
<1> QED
  BY <1>1, <1>2, <1>3, <1>4, <1>5, <1>6, <1>7, <1>8, <1>9, <1>10, <1>11, <1>12, <1>13,
     <1>14, <1>15, <1>16, <1>17, <1>18, <1>19, <1>20, <1>21, <1>22, <1>23, <1>24, <1>25,
     <1>26, <1>27 DEF Next, Run, WorkerLoop, DrainJob

-----------------------------------------------------------------------------
(* Who holds a Job. *)

\* Every step keeps a worker's Job pointer set exactly between its
\* registration and its detach (parallel_for.cc:186-213).
LEMMA HeldStep == IInv /\ [Next]_vars => HeldWhileDraining'
<1> SUFFICES ASSUME IInv, [Next]_vars PROVE HeldWhileDraining'
  OBVIOUS
<1>0. /\ HeldWhileDraining
      /\ pc \in [Threads -> SubmitterPc \cup WorkerPc]
      /\ \A s \in Submitters : pc[s] \in SubmitterPc
      /\ \A w \in Workers : pc[w] \in WorkerPc
      /\ held \in [Workers -> Submitters \cup {NoJob}]
      /\ job \in Submitters \cup {NoJob}
  BY DEF IInv, TypeOK
<1> USE <1>0, ThreadsAssumption
    DEF HeldWhileDraining, pool, fields, worker, history, Threads, Goto,
        Draining, Working, Executing
<1>1. ASSUME NEW s \in Submitters, ParallelForRaw(s) PROVE HeldWhileDraining'
  BY <1>1 DEF ParallelForRaw
<1>2. ASSUME NEW s \in Submitters, InlineLoop(s) PROVE HeldWhileDraining'
  BY <1>2 DEF InlineLoop
<1>3. ASSUME NEW s \in Submitters, Submit(s) PROVE HeldWhileDraining'
  BY <1>3 DEF Submit
<1>4. ASSUME NEW s \in Submitters, Publish(s) PROVE HeldWhileDraining'
  BY <1>4 DEF Publish, SpawnWorkersLocked, SpawnAndGoto, workers
<1>5. ASSUME NEW s \in Submitters, PublishThrows(s) PROVE HeldWhileDraining'
  BY <1>5 DEF PublishThrows, SpawnWorkersLocked, SpawnAndGoto, workers
<1>6. ASSUME NEW s \in Submitters, Announce(s) PROVE HeldWhileDraining'
  BY <1>6 DEF Announce, NotifyAll
<1>7. ASSUME NEW s \in Submitters, Retire(s) PROVE HeldWhileDraining'
  BY <1>7 DEF Retire
<1>8. ASSUME NEW s \in Submitters, Block(s) PROVE HeldWhileDraining'
  BY <1>8 DEF Block
<1>9. ASSUME NEW s \in Submitters, Return(s) PROVE HeldWhileDraining'
  BY <1>9 DEF Return
<1>10. ASSUME NEW s \in Submitters, NotifyStop(s) PROVE HeldWhileDraining'
  BY <1>10 DEF NotifyStop, NotifyAll
<1>11. ASSUME NEW s \in Submitters, SetThreadCount(s) PROVE HeldWhileDraining'
  BY <1>11 DEF SetThreadCount
<1>12. ASSUME NEW s \in Submitters, Join(s) PROVE HeldWhileDraining'
  BY <1>12 DEF Join, workers
<1>13. ASSUME NEW w \in Workers, Park(w) PROVE HeldWhileDraining'
  BY <1>13 DEF Park
<1>14. ASSUME NEW w \in Workers, Exit(w) PROVE HeldWhileDraining'
  BY <1>14 DEF Exit
<1>15. ASSUME NEW w \in Workers, Register(w) PROVE HeldWhileDraining'
  BY <1>15 DEF Register
<1>16. ASSUME NEW w \in Workers, Detach(w) PROVE HeldWhileDraining'
  BY <1>16 DEF Detach
<1>17. ASSUME NEW w \in Workers, Signal(w) PROVE HeldWhileDraining'
  BY <1>17 DEF Signal
<1>18. ASSUME NEW w \in Workers, NotifyOne(w) PROVE HeldWhileDraining'
  BY <1>18 DEF NotifyOne
<1>19. ASSUME NEW t \in Threads, Claim(t) PROVE HeldWhileDraining'
  BY <1>19 DEF Claim
<1>20. ASSUME NEW t \in Threads, Test(t) PROVE HeldWhileDraining'
  BY <1>20 DEF Test
<1>21. ASSUME NEW t \in Threads, NestedCall(t) PROVE HeldWhileDraining'
  BY <1>21 DEF NestedCall
<1>22. ASSUME NEW t \in Threads, BodyReturns(t) PROVE HeldWhileDraining'
  BY <1>22 DEF BodyReturns
<1>23. ASSUME NEW t \in Threads, BodyThrows(t) PROVE HeldWhileDraining'
  BY <1>23 DEF BodyThrows
<1>24. ASSUME NEW t \in Threads, MarkFailed(t) PROVE HeldWhileDraining'
  BY <1>24 DEF MarkFailed
<1>25. ASSUME NEW t \in Threads, Count(t) PROVE HeldWhileDraining'
  BY <1>25 DEF Count
<1>26. ASSUME NEW t \in Threads, SpuriousWake(t) PROVE HeldWhileDraining'
  BY <1>26 DEF SpuriousWake
<1>27. CASE UNCHANGED vars
  BY <1>27 DEF vars
<1> QED
  BY <1>1, <1>2, <1>3, <1>4, <1>5, <1>6, <1>7, <1>8, <1>9, <1>10, <1>11, <1>12, <1>13,
     <1>14, <1>15, <1>16, <1>17, <1>18, <1>19, <1>20, <1>21, <1>22, <1>23, <1>24, <1>25,
     <1>26, <1>27 DEF Next, Run, WorkerLoop, DrainJob

\* Every step keeps the Jobs that workers point at published: a submitter
\* leaves only with holders at 0 under mutex_ (parallel_for.cc:140-147).
LEMMA DanglingStep == IInv /\ [Next]_vars => NoDanglingJob'
<1> SUFFICES ASSUME IInv, [Next]_vars PROVE NoDanglingJob'
  OBVIOUS
<1>0. /\ NoDanglingJob /\ HeldWhileDraining /\ Ownership
      /\ pc \in [Threads -> SubmitterPc \cup WorkerPc]
      /\ held \in [Workers -> Submitters \cup {NoJob}]
      /\ job \in Submitters \cup {NoJob}
      /\ submit_mutex \in Submitters \cup {NoThread}
  BY DEF IInv, TypeOK
<1> USE <1>0, ThreadsAssumption
    DEF NoDanglingJob, Ownership, pool, fields, worker, history, Threads, Goto,
        InRun, Published, Draining, Working, Executing
<1>1. ASSUME NEW s \in Submitters, ParallelForRaw(s) PROVE NoDanglingJob'
  BY <1>1 DEF ParallelForRaw
<1>2. ASSUME NEW s \in Submitters, InlineLoop(s) PROVE NoDanglingJob'
  BY <1>2 DEF InlineLoop
<1>3. ASSUME NEW s \in Submitters, Submit(s) PROVE NoDanglingJob'
  BY <1>3 DEF Submit
<1>4. ASSUME NEW s \in Submitters, Publish(s) PROVE NoDanglingJob'
  BY <1>4 DEF Publish, SpawnWorkersLocked, SpawnAndGoto, workers
<1>5. ASSUME NEW s \in Submitters, PublishThrows(s) PROVE NoDanglingJob'
  BY <1>5 DEF PublishThrows, SpawnWorkersLocked, SpawnAndGoto, workers
<1>6. ASSUME NEW s \in Submitters, Announce(s) PROVE NoDanglingJob'
  BY <1>6 DEF Announce, NotifyAll
<1>7. ASSUME NEW s \in Submitters, Retire(s) PROVE NoDanglingJob'
  <2>1. ASSUME RetirePredicate(s), NEW w \in Workers, held[w] # NoJob PROVE FALSE
    <3>1. held[w] = s
      BY <1>7, <2>1 DEF Retire
    <3>2. pc[w] \in Draining \cup {"detach"}
      BY <2>1 DEF HeldWhileDraining
    <3> QED
      BY <2>1, <3>1, <3>2, HolderIsCounted DEF RetirePredicate
  <2> QED
    BY <1>7, <2>1 DEF Retire
<1>8. ASSUME NEW s \in Submitters, Block(s) PROVE NoDanglingJob'
  BY <1>8 DEF Block
<1>9. ASSUME NEW s \in Submitters, Return(s) PROVE NoDanglingJob'
  BY <1>9 DEF Return
<1>10. ASSUME NEW s \in Submitters, NotifyStop(s) PROVE NoDanglingJob'
  BY <1>10 DEF NotifyStop, NotifyAll
<1>11. ASSUME NEW s \in Submitters, SetThreadCount(s) PROVE NoDanglingJob'
  BY <1>11 DEF SetThreadCount
<1>12. ASSUME NEW s \in Submitters, Join(s) PROVE NoDanglingJob'
  BY <1>12 DEF Join
<1>13. ASSUME NEW w \in Workers, Park(w) PROVE NoDanglingJob'
  BY <1>13 DEF Park
<1>14. ASSUME NEW w \in Workers, Exit(w) PROVE NoDanglingJob'
  BY <1>14 DEF Exit
<1>15. ASSUME NEW w \in Workers, Register(w) PROVE NoDanglingJob'
  BY <1>15 DEF Register
<1>16. ASSUME NEW w \in Workers, Detach(w) PROVE NoDanglingJob'
  BY <1>16 DEF Detach
<1>17. ASSUME NEW w \in Workers, Signal(w) PROVE NoDanglingJob'
  BY <1>17 DEF Signal
<1>18. ASSUME NEW w \in Workers, NotifyOne(w) PROVE NoDanglingJob'
  BY <1>18 DEF NotifyOne
<1>19. ASSUME NEW t \in Threads, Claim(t) PROVE NoDanglingJob'
  BY <1>19 DEF Claim
<1>20. ASSUME NEW t \in Threads, Test(t) PROVE NoDanglingJob'
  BY <1>20 DEF Test
<1>21. ASSUME NEW t \in Threads, NestedCall(t) PROVE NoDanglingJob'
  BY <1>21 DEF NestedCall
<1>22. ASSUME NEW t \in Threads, BodyReturns(t) PROVE NoDanglingJob'
  BY <1>22 DEF BodyReturns
<1>23. ASSUME NEW t \in Threads, BodyThrows(t) PROVE NoDanglingJob'
  BY <1>23 DEF BodyThrows
<1>24. ASSUME NEW t \in Threads, MarkFailed(t) PROVE NoDanglingJob'
  BY <1>24 DEF MarkFailed
<1>25. ASSUME NEW t \in Threads, Count(t) PROVE NoDanglingJob'
  BY <1>25 DEF Count
<1>26. ASSUME NEW t \in Threads, SpuriousWake(t) PROVE NoDanglingJob'
  BY <1>26 DEF SpuriousWake
<1>27. CASE UNCHANGED vars
  BY <1>27 DEF vars
<1> QED
  BY <1>1, <1>2, <1>3, <1>4, <1>5, <1>6, <1>7, <1>8, <1>9, <1>10, <1>11, <1>12, <1>13,
     <1>14, <1>15, <1>16, <1>17, <1>18, <1>19, <1>20, <1>21, <1>22, <1>23, <1>24, <1>25,
     <1>26, <1>27 DEF Next, Run, WorkerLoop, DrainJob

\* Every step keeps a Job that is not published yet without holders
\* (parallel_for.cc:47-65, 129-134).
LEMMA FreshStep == IInv /\ [Next]_vars => FreshJob'
<1> SUFFICES ASSUME IInv, [Next]_vars PROVE FreshJob'
  OBVIOUS
<1>0. /\ FreshJob /\ Ownership
      /\ pc \in [Threads -> SubmitterPc \cup WorkerPc]
      /\ holders \in [Submitters -> Nat]
      /\ job \in Submitters \cup {NoJob}
  BY DEF IInv, TypeOK
<1> USE <1>0, ThreadsAssumption
    DEF FreshJob, Ownership, pool, fields, worker, history, Threads, Goto,
        Published, Draining, Working, Executing
<1>1. ASSUME NEW s \in Submitters, ParallelForRaw(s) PROVE FreshJob'
  BY <1>1 DEF ParallelForRaw
<1>2. ASSUME NEW s \in Submitters, InlineLoop(s) PROVE FreshJob'
  BY <1>2 DEF InlineLoop
<1>3. ASSUME NEW s \in Submitters, Submit(s) PROVE FreshJob'
  BY <1>3 DEF Submit
<1>4. ASSUME NEW s \in Submitters, Publish(s) PROVE FreshJob'
  BY <1>4 DEF Publish, SpawnWorkersLocked, SpawnAndGoto, workers
<1>5. ASSUME NEW s \in Submitters, PublishThrows(s) PROVE FreshJob'
  BY <1>5 DEF PublishThrows, SpawnWorkersLocked, SpawnAndGoto, workers
<1>6. ASSUME NEW s \in Submitters, Announce(s) PROVE FreshJob'
  BY <1>6 DEF Announce, NotifyAll
<1>7. ASSUME NEW s \in Submitters, Retire(s) PROVE FreshJob'
  BY <1>7 DEF Retire
<1>8. ASSUME NEW s \in Submitters, Block(s) PROVE FreshJob'
  BY <1>8 DEF Block
<1>9. ASSUME NEW s \in Submitters, Return(s) PROVE FreshJob'
  BY <1>9 DEF Return
<1>10. ASSUME NEW s \in Submitters, NotifyStop(s) PROVE FreshJob'
  BY <1>10 DEF NotifyStop, NotifyAll
<1>11. ASSUME NEW s \in Submitters, SetThreadCount(s) PROVE FreshJob'
  BY <1>11 DEF SetThreadCount
<1>12. ASSUME NEW s \in Submitters, Join(s) PROVE FreshJob'
  BY <1>12 DEF Join
<1>13. ASSUME NEW w \in Workers, Park(w) PROVE FreshJob'
  BY <1>13 DEF Park
<1>14. ASSUME NEW w \in Workers, Exit(w) PROVE FreshJob'
  BY <1>14 DEF Exit
<1>15. ASSUME NEW w \in Workers, Register(w) PROVE FreshJob'
  BY <1>15 DEF Register
<1>16. ASSUME NEW w \in Workers, Detach(w) PROVE FreshJob'
  <2>1. held[w] \in Submitters /\ pc[held[w]] \in Published
    BY <1>16, HolderIsCounted DEF Detach
  <2>2. /\ holders' = [holders EXCEPT ![held[w]] = @ - 1]
        /\ \A s \in Submitters : pc'[s] = pc[s]
    BY <1>16 DEF Detach
  <2> QED
    BY <2>1, <2>2
<1>17. ASSUME NEW w \in Workers, Signal(w) PROVE FreshJob'
  BY <1>17 DEF Signal
<1>18. ASSUME NEW w \in Workers, NotifyOne(w) PROVE FreshJob'
  BY <1>18 DEF NotifyOne
<1>19. ASSUME NEW t \in Threads, Claim(t) PROVE FreshJob'
  BY <1>19 DEF Claim
<1>20. ASSUME NEW t \in Threads, Test(t) PROVE FreshJob'
  BY <1>20 DEF Test
<1>21. ASSUME NEW t \in Threads, NestedCall(t) PROVE FreshJob'
  BY <1>21 DEF NestedCall
<1>22. ASSUME NEW t \in Threads, BodyReturns(t) PROVE FreshJob'
  BY <1>22 DEF BodyReturns
<1>23. ASSUME NEW t \in Threads, BodyThrows(t) PROVE FreshJob'
  BY <1>23 DEF BodyThrows
<1>24. ASSUME NEW t \in Threads, MarkFailed(t) PROVE FreshJob'
  BY <1>24 DEF MarkFailed
<1>25. ASSUME NEW t \in Threads, Count(t) PROVE FreshJob'
  BY <1>25 DEF Count
<1>26. ASSUME NEW t \in Threads, SpuriousWake(t) PROVE FreshJob'
  BY <1>26 DEF SpuriousWake
<1>27. CASE UNCHANGED vars
  BY <1>27 DEF vars
<1> QED
  BY <1>1, <1>2, <1>3, <1>4, <1>5, <1>6, <1>7, <1>8, <1>9, <1>10, <1>11, <1>12, <1>13,
     <1>14, <1>15, <1>16, <1>17, <1>18, <1>19, <1>20, <1>21, <1>22, <1>23, <1>24, <1>25,
     <1>26, <1>27 DEF Next, Run, WorkerLoop, DrainJob

\* Only Publish, Register and Detach disturb the count.
LEMMA CountedStep == IInv /\ [Next]_vars => HoldersCounted'
<1> SUFFICES ASSUME IInv, [Next]_vars PROVE HoldersCounted'
  OBVIOUS
<1>0. /\ HoldersCounted /\ Ownership
      /\ pc \in [Threads -> SubmitterPc \cup WorkerPc]
      /\ held \in [Workers -> Submitters \cup {NoJob}]
      /\ holders \in [Submitters -> Nat]
      /\ job \in Submitters \cup {NoJob}
  BY DEF IInv, TypeOK
<1>f. \A s \in Submitters : IsFiniteSet(HoldersOf(s))
  BY FS_Subset, ThreadsAssumption DEF HoldersOf
<1> USE <1>0, ThreadsAssumption
    DEF HoldersCounted, HoldersOf, Ownership, pool, fields, worker, history,
        Threads, Goto, Published, Draining, Working, Executing
<1>1. ASSUME NEW s \in Submitters, ParallelForRaw(s) PROVE HoldersCounted'
  BY <1>1 DEF ParallelForRaw
<1>2. ASSUME NEW s \in Submitters, InlineLoop(s) PROVE HoldersCounted'
  BY <1>2 DEF InlineLoop
<1>3. ASSUME NEW s \in Submitters, Submit(s) PROVE HoldersCounted'
  BY <1>3 DEF Submit
<1>4. ASSUME NEW s \in Submitters, Publish(s) PROVE HoldersCounted'
  <2>1. HoldersOf(s) = {} /\ holders[s] = 0
    BY <1>4 DEF Publish, IInv, NoDanglingJob, FreshJob
  <2>2. \A r \in Submitters : pc'[r] \in Published => r = s \/ pc[r] \in Published
    BY <1>4 DEF Publish, SpawnAndGoto
  <2>3. UNCHANGED <<held, holders>>
    BY <1>4 DEF Publish
  <2>4. \A r \in Submitters : HoldersOf(r)' = HoldersOf(r)
    BY <2>3
  <2>5. Cardinality(HoldersOf(s)) = 0
    BY <2>1, <1>f, FS_EmptySet
  <2> QED
    BY <2>1, <2>2, <2>3, <2>4, <2>5
<1>5. ASSUME NEW s \in Submitters, PublishThrows(s) PROVE HoldersCounted'
  BY <1>5 DEF PublishThrows, SpawnWorkersLocked, SpawnAndGoto, workers
<1>6. ASSUME NEW s \in Submitters, Announce(s) PROVE HoldersCounted'
  BY <1>6 DEF Announce, NotifyAll
<1>7. ASSUME NEW s \in Submitters, Retire(s) PROVE HoldersCounted'
  BY <1>7 DEF Retire
<1>8. ASSUME NEW s \in Submitters, Block(s) PROVE HoldersCounted'
  BY <1>8 DEF Block
<1>9. ASSUME NEW s \in Submitters, Return(s) PROVE HoldersCounted'
  BY <1>9 DEF Return
<1>10. ASSUME NEW s \in Submitters, NotifyStop(s) PROVE HoldersCounted'
  BY <1>10 DEF NotifyStop, NotifyAll
<1>11. ASSUME NEW s \in Submitters, SetThreadCount(s) PROVE HoldersCounted'
  BY <1>11 DEF SetThreadCount
<1>12. ASSUME NEW s \in Submitters, Join(s) PROVE HoldersCounted'
  BY <1>12 DEF Join
<1>13. ASSUME NEW w \in Workers, Park(w) PROVE HoldersCounted'
  BY <1>13 DEF Park
<1>14. ASSUME NEW w \in Workers, Exit(w) PROVE HoldersCounted'
  BY <1>14 DEF Exit
<1>15. ASSUME NEW w \in Workers, Register(w) PROVE HoldersCounted'
  <2>1. CASE job = NoJob
    BY <1>15, <2>1 DEF Register
  <2>2. ASSUME NEW j \in Submitters, j = job PROVE HoldersCounted'
    <3>1. /\ held' = [held EXCEPT ![w] = j]
          /\ holders' = [holders EXCEPT ![j] = @ + 1]
          /\ \A s \in Submitters : pc'[s] = pc[s]
      BY <1>15, <2>2 DEF Register
    <3>2. held[w] = NoJob
      BY <1>15 DEF Register, IInv, HeldWhileDraining
    <3>3. HoldersOf(j)' = HoldersOf(j) \cup {w} /\ w \notin HoldersOf(j)
      BY <3>1, <3>2
    <3>4. \A s \in Submitters \ {j} : HoldersOf(s)' = HoldersOf(s)
      BY <3>1, <3>2
    <3>5. Cardinality(HoldersOf(j)') = Cardinality(HoldersOf(j)) + 1
      BY <1>f, <3>3, FS_AddElement
    <3>6. holders[j] = Cardinality(HoldersOf(j))
      BY <2>2
    <3>7. holders'[j] = Cardinality(HoldersOf(j)')
      BY <3>1, <3>5, <3>6
    <3>8. \A s \in Submitters \ {j} :
            pc'[s] \in Published => holders'[s] = Cardinality(HoldersOf(s)')
      BY <3>1, <3>4
    <3> HIDE <1>0, ThreadsAssumption DEF HoldersOf, Ownership
    <3> QED
      BY <3>7, <3>8
  <2> QED
    BY <2>1, <2>2
<1>16. ASSUME NEW w \in Workers, Detach(w) PROVE HoldersCounted'
  <2>1. PICK j \in Submitters : j = held[w] /\ pc[j] \in Published
    BY <1>16, HolderIsCounted DEF Detach
  <2>2. /\ held' = [held EXCEPT ![w] = NoJob]
        /\ holders' = [holders EXCEPT ![j] = @ - 1]
        /\ \A s \in Submitters : pc'[s] = pc[s]
    BY <1>16, <2>1 DEF Detach
  <2>3. HoldersOf(j)' = HoldersOf(j) \ {w} /\ w \in HoldersOf(j)
    BY <2>1, <2>2
  <2>4. \A s \in Submitters \ {j} : HoldersOf(s)' = HoldersOf(s)
    BY <2>1, <2>2
  <2>5. Cardinality(HoldersOf(j)') = Cardinality(HoldersOf(j)) - 1
    <3>1. w \in HoldersOf(j) /\ IsFiniteSet(HoldersOf(j))
      BY <1>f, <2>3
    <3>2. Cardinality(HoldersOf(j) \ {w}) = Cardinality(HoldersOf(j)) - 1
      BY <3>1, FS_RemoveElement
    <3> QED
      BY <2>3, <3>2
  <2>6. holders'[j] = Cardinality(HoldersOf(j)')
    BY <2>1, <2>2, <2>5
  <2>7. \A s \in Submitters \ {j} :
          pc'[s] \in Published => holders'[s] = Cardinality(HoldersOf(s)')
    BY <2>2, <2>4
  <2> HIDE <1>0, ThreadsAssumption DEF HoldersOf, Ownership
  <2> QED
    BY <2>6, <2>7
<1>17. ASSUME NEW w \in Workers, Signal(w) PROVE HoldersCounted'
  BY <1>17 DEF Signal
<1>18. ASSUME NEW w \in Workers, NotifyOne(w) PROVE HoldersCounted'
  BY <1>18 DEF NotifyOne
<1>19. ASSUME NEW t \in Threads, Claim(t) PROVE HoldersCounted'
  BY <1>19 DEF Claim
<1>20. ASSUME NEW t \in Threads, Test(t) PROVE HoldersCounted'
  BY <1>20 DEF Test
<1>21. ASSUME NEW t \in Threads, NestedCall(t) PROVE HoldersCounted'
  BY <1>21 DEF NestedCall
<1>22. ASSUME NEW t \in Threads, BodyReturns(t) PROVE HoldersCounted'
  BY <1>22 DEF BodyReturns
<1>23. ASSUME NEW t \in Threads, BodyThrows(t) PROVE HoldersCounted'
  BY <1>23 DEF BodyThrows
<1>24. ASSUME NEW t \in Threads, MarkFailed(t) PROVE HoldersCounted'
  BY <1>24 DEF MarkFailed
<1>25. ASSUME NEW t \in Threads, Count(t) PROVE HoldersCounted'
  BY <1>25 DEF Count
<1>26. ASSUME NEW t \in Threads, SpuriousWake(t) PROVE HoldersCounted'
  BY <1>26 DEF SpuriousWake
<1>27. CASE UNCHANGED vars
  BY <1>27 DEF vars
<1> QED
  BY <1>1, <1>2, <1>3, <1>4, <1>5, <1>6, <1>7, <1>8, <1>9, <1>10, <1>11, <1>12, <1>13,
     <1>14, <1>15, <1>16, <1>17, <1>18, <1>19, <1>20, <1>21, <1>22, <1>23, <1>24, <1>25,
     <1>26, <1>27 DEF Next, Run, WorkerLoop, DrainJob

-----------------------------------------------------------------------------
(* The wake-up. *)

\* The predicate becomes true for a submitter that sleeps or is about to only
\* when the last holder detaches.
LEMMA WakeupStep == IInv /\ [Next]_vars => WakeupOnTheWay'
<1> SUFFICES ASSUME IInv, [Next]_vars PROVE WakeupOnTheWay'
  OBVIOUS
<1>0. /\ WakeupOnTheWay /\ Ownership
      /\ pc \in [Threads -> SubmitterPc \cup WorkerPc]
      /\ holders \in [Submitters -> Nat]
      /\ done \in [Submitters -> Nat]
      /\ job \in Submitters \cup {NoJob}
  BY DEF IInv, TypeOK
<1> USE <1>0, ThreadsAssumption
    DEF WakeupOnTheWay, RetirePredicate, Ownership, pool, fields, worker,
        history, Threads, Goto
<1>1. ASSUME NEW s \in Submitters, ParallelForRaw(s) PROVE WakeupOnTheWay'
  BY <1>1 DEF ParallelForRaw
<1>2. ASSUME NEW s \in Submitters, InlineLoop(s) PROVE WakeupOnTheWay'
  BY <1>2 DEF InlineLoop
<1>3. ASSUME NEW s \in Submitters, Submit(s) PROVE WakeupOnTheWay'
  BY <1>3 DEF Submit
<1>4. ASSUME NEW s \in Submitters, Publish(s) PROVE WakeupOnTheWay'
  BY <1>4 DEF Publish, SpawnWorkersLocked, SpawnAndGoto, workers
<1>5. ASSUME NEW s \in Submitters, PublishThrows(s) PROVE WakeupOnTheWay'
  BY <1>5 DEF PublishThrows, SpawnWorkersLocked, SpawnAndGoto, workers
<1>6. ASSUME NEW s \in Submitters, Announce(s) PROVE WakeupOnTheWay'
  BY <1>6 DEF Announce, NotifyAll
<1>7. ASSUME NEW s \in Submitters, Retire(s) PROVE WakeupOnTheWay'
  BY <1>7 DEF Retire
<1>8. ASSUME NEW s \in Submitters, Block(s) PROVE WakeupOnTheWay'
  BY <1>8 DEF Block
<1>9. ASSUME NEW s \in Submitters, Return(s) PROVE WakeupOnTheWay'
  BY <1>9 DEF Return
<1>10. ASSUME NEW s \in Submitters, NotifyStop(s) PROVE WakeupOnTheWay'
  BY <1>10 DEF NotifyStop, NotifyAll
<1>11. ASSUME NEW s \in Submitters, SetThreadCount(s) PROVE WakeupOnTheWay'
  BY <1>11 DEF SetThreadCount
<1>12. ASSUME NEW s \in Submitters, Join(s) PROVE WakeupOnTheWay'
  BY <1>12 DEF Join, workers
<1>13. ASSUME NEW w \in Workers, Park(w) PROVE WakeupOnTheWay'
  BY <1>13 DEF Park
<1>14. ASSUME NEW w \in Workers, Exit(w) PROVE WakeupOnTheWay'
  BY <1>14 DEF Exit
<1>15. ASSUME NEW w \in Workers, Register(w) PROVE WakeupOnTheWay'
  BY <1>15 DEF Register
<1>16. ASSUME NEW w \in Workers, Detach(w) PROVE WakeupOnTheWay'
  <2>1. PICK j \in Submitters : j = held[w] /\ holders[j] >= 1
    BY <1>16, HolderIsCounted DEF Detach
  <2>2. /\ holders' = [holders EXCEPT ![j] = @ - 1] /\ done' = done /\ chunks' = chunks
        /\ pc' = [pc EXCEPT ![w] = IF holders[j] = 1 THEN "signal" ELSE "wake"]
        /\ pc[w] = "detach"
    BY <1>16, <2>1 DEF Detach, LastHolder
  <2>3. CASE holders[j] = 1
    BY <2>2, <2>3
  <2>4. CASE holders[j] # 1
    <3>1. \A r \in Submitters : RetirePredicate(r)' => RetirePredicate(r)
      BY <2>1, <2>2, <2>4
    <3> QED
      BY <2>2, <2>4, <3>1
  <2> QED
    BY <2>3, <2>4
<1>17. ASSUME NEW w \in Workers, Signal(w) PROVE WakeupOnTheWay'
  BY <1>17 DEF Signal
<1>18. ASSUME NEW w \in Workers, NotifyOne(w) PROVE WakeupOnTheWay'
  <2>1. \A r \in Submitters : pc'[r] \notin {"waiting"} \/ pc'[r] # pc[r]
    BY <1>18 DEF NotifyOne, InRun, Published
  <2>2. \A r \in Submitters : pc'[r] \in {"block", "waiting"} => pc'[r] = pc[r]
    BY <1>18 DEF NotifyOne
  <2>3. \A v \in Workers : pc[v] = "signal" => pc'[v] = "signal"
    BY <1>18 DEF NotifyOne
  <2>4. UNCHANGED <<done, holders, chunks>>
    BY <1>18 DEF NotifyOne
  <2> QED
    BY <2>1, <2>2, <2>3, <2>4
<1>19. ASSUME NEW t \in Threads, Claim(t) PROVE WakeupOnTheWay'
  BY <1>19 DEF Claim
<1>20. ASSUME NEW t \in Threads, Test(t) PROVE WakeupOnTheWay'
  BY <1>20 DEF Test
<1>21. ASSUME NEW t \in Threads, NestedCall(t) PROVE WakeupOnTheWay'
  BY <1>21 DEF NestedCall
<1>22. ASSUME NEW t \in Threads, BodyReturns(t) PROVE WakeupOnTheWay'
  BY <1>22 DEF BodyReturns, Executing
<1>23. ASSUME NEW t \in Threads, BodyThrows(t) PROVE WakeupOnTheWay'
  BY <1>23 DEF BodyThrows, Executing
<1>24. ASSUME NEW t \in Threads, MarkFailed(t) PROVE WakeupOnTheWay'
  BY <1>24 DEF MarkFailed
<1>25. ASSUME NEW t \in Threads, Count(t) PROVE WakeupOnTheWay'
  <2>1. CASE t \in Submitters
    BY <1>25, <2>1 DEF Count, JobOf
  <2>2. CASE t \in Workers
    <3>1. pc[t] \in Draining \cup {"detach"}
      BY <1>25 DEF Count, Draining, Working
    <3>2. PICK j \in Submitters : j = held[t] /\ holders[j] >= 1
      BY <2>2, <3>1, HolderIsCounted
    <3>3. done' = [done EXCEPT ![j] = @ + 1] /\ holders' = holders /\ chunks' = chunks
      BY <1>25, <2>2, <3>2 DEF Count, JobOf
    <3>4. \A r \in Submitters : RetirePredicate(r)' => RetirePredicate(r)
      BY <3>2, <3>3
    <3> QED
      BY <1>25, <2>2, <3>4 DEF Count
  <2> QED
    BY <2>1, <2>2
<1>26. ASSUME NEW t \in Threads, SpuriousWake(t) PROVE WakeupOnTheWay'
  BY <1>26 DEF SpuriousWake
<1>27. CASE UNCHANGED vars
  BY <1>27 DEF vars
<1> QED
  BY <1>1, <1>2, <1>3, <1>4, <1>5, <1>6, <1>7, <1>8, <1>9, <1>10, <1>11, <1>12, <1>13,
     <1>14, <1>15, <1>16, <1>17, <1>18, <1>19, <1>20, <1>21, <1>22, <1>23, <1>24, <1>25,
     <1>26, <1>27 DEF Next, Run, WorkerLoop, DrainJob

\* The conjunction of the invariants above holds of the initial pool and is
\* kept by every step of submitters and workers (parallel_for.cc:67-217).
THEOREM InductiveInvariant == Spec => []IInv
<1>1. Init => IInv
  <2> SUFFICES ASSUME Init PROVE IInv
    OBVIOUS
  <2>1. TypeOK
    BY TypeInit
  <2> QED
    BY <2>1, ThreadsAssumption
    DEF Init, IInv, Ownership, HeldWhileDraining, NoDanglingJob, FreshJob,
        HoldersCounted, WakeupOnTheWay, Threads, InRun, Published, Draining,
        Working, Executing
<1>2. IInv /\ [Next]_vars => IInv'
  BY TypeStep, OwnershipStep, HeldStep, DanglingStep, FreshStep, CountedStep,
     WakeupStep
  DEF IInv
<1> QED
  BY <1>1, <1>2, PTL DEF Spec

\* Every variable keeps its type for any number of submitters, workers and
\* chunks; in particular holders never goes below zero.
THEOREM Typed == Spec => []TypeOK
BY InductiveInvariant, PTL DEF IInv

\* No worker ever points at a Job whose submitter has left Run()
\* (parallel_for.cc:44-47).
THEOREM JobOutlivesItsHolders == Spec => []NoDanglingJob
BY InductiveInvariant, PTL DEF IInv

\* holders is exactly the number of workers that point at the Job
\* (parallel_for.cc:194-196, 210).
THEOREM HoldersAreCounted == Spec => []HoldersCounted
BY InductiveInvariant, PTL DEF IInv

\* Waking the submitter only on the last detach loses no wake-up
\* (parallel_for.cc:200-214).
THEOREM WakeupIsNeverLost == Spec => []NoLostWakeup
<1>1. IInv => NoLostWakeup
  BY DEF IInv, WakeupOnTheWay, NoLostWakeup
<1> QED
  BY <1>1, InductiveInvariant, PTL

-----------------------------------------------------------------------------
(* The chunks of a loop: the invariant that makes the pool a serial loop. *)

\* A Job not yet published is as its constructor left it.
FreshLoop(s) ==
    /\ next[s] = 0 /\ done[s] = 0
    /\ ~failed[s] /\ error[s] = NoError
    /\ started[s] = {} /\ thrown[s] = {}

Claimed(s) == IF next[s] < chunks[s] THEN next[s] ELSE chunks[s]

\* Of a published Job, a claimed chunk was started, or was skipped after a
\* failure, or is about to be tested; failures leave their exception.
ActiveLoop(s) ==
    /\ done[s] + Cardinality(WorkingOn(s)) = Claimed(s)
    /\ \A c \in started[s] : c < next[s] /\ c < chunks[s]
    /\ \A c \in Chunk :
        c < next[s] /\ c < chunks[s] =>
            \/ c \in started[s]
            \/ thrown[s] # {}
            \/ \E t \in WorkingOn(s) : pc[t] = "test" /\ chunk[t] = c
    /\ failed[s] => thrown[s] # {}
    /\ error[s] = NoError <=> thrown[s] = {}

EndedLoop(s) ==
    /\ started[s] = 0..(chunks[s] - 1) \/ thrown[s] # {}
    /\ error[s] = NoError <=> thrown[s] = {}

LoopsAreSerial ==
    \A s \in Submitters :
        /\ pc[s] \in {"submit", "publish"} => FreshLoop(s)
        /\ pc[s] \in Published => ActiveLoop(s)
        /\ pc[s] = "return" => EndedLoop(s)

\* A thread works on a chunk that it has claimed and no other thread has.
ChunksAreClaimed ==
    \A t \in Threads : pc[t] \in Working =>
        /\ chunk[t] < next[JobOf(t)] /\ chunk[t] < chunks[JobOf(t)]
        /\ pc[t] = "test" => chunk[t] \notin started[JobOf(t)]
        /\ pc[t] = "mark" => thrown[JobOf(t)] # {}
        /\ \A u \in Threads :
            /\ pc[u] \in Working /\ JobOf(u) = JobOf(t)
            /\ chunk[u] = chunk[t]
            => u = t

\* A submitter inside Run() knows it, so a nested loop of its body never queues.
NestedRunsInline ==
    /\ \A s \in Submitters : pc[s] \in InRun => s \in tls_job_owner
    /\ \A t \in Threads : pc[t] # "blocked"

LoopInv == LoopsAreSerial /\ ChunksAreClaimed /\ NestedRunsInline

\* Finitely many threads work on a Job.
LEMMA FewWorkOn ==
    ASSUME NEW s \in Submitters
    PROVE  IsFiniteSet(WorkingOn(s))
<1>1. IsFiniteSet(Threads)
  BY ThreadsAssumption, FS_Union DEF Threads
<1> QED
  BY <1>1, FS_Subset DEF WorkingOn

\* Nobody works on a Job that is not published (parallel_for.cc:115-149).
LEMMA UnpublishedIsQuiet ==
    ASSUME IInv, NEW s \in Submitters, pc[s] \notin Published
    PROVE  WorkingOn(s) = {} /\ Cardinality(WorkingOn(s)) = 0
<1>1. \A t \in Threads : pc[t] \in Working => pc[JobOf(t)] \in Published
  BY DrainerHasJob DEF Draining
<1>2. WorkingOn(s) = {}
  BY <1>1 DEF WorkingOn
<1> QED
  BY <1>2, FS_EmptySet

\* A step outside DrainJob keeps the chunks of every published Job, and publishes
\* only a fresh one.
LEMMA OutsideDrain ==
    ASSUME IInv, LoopInv, chunk' = chunk,
           \A s \in Submitters :
             /\ pc'[s] \in {"submit", "publish"} => FreshLoop(s)'
             /\ pc'[s] \in Published =>
                  \/ pc[s] \notin Published /\ FreshLoop(s)'
                  \/ /\ pc[s] \in Published
                     /\ chunks'[s] = chunks[s] /\ next'[s] = next[s]
                     /\ done'[s] = done[s] /\ failed'[s] = failed[s]
                     /\ error'[s] = error[s] /\ started'[s] = started[s]
                     /\ thrown'[s] = thrown[s]
             /\ pc'[s] = "return" => EndedLoop(s)'
             /\ pc'[s] \in InRun => s \in tls_job_owner'
             /\ pc[s] \in Published /\ pc'[s] \notin Published => WorkingOn(s) = {}
             /\ chunks'[s] \in Nat,
           \A t \in Threads :
             /\ pc[t] \in Working \/ pc'[t] \in Working => pc'[t] = pc[t]
             /\ pc[t] \in Working => JobOf(t)' = JobOf(t)
    PROVE  LoopInv' /\ ExecutingChunks' = ExecutingChunks
<1>1. \A s \in Submitters : WorkingOn(s)' = WorkingOn(s)
  BY DEF WorkingOn
<1>2. ASSUME NEW s \in Submitters, pc'[s] \in Published
      PROVE  ActiveLoop(s)'
  <2>1. CASE pc[s] \notin Published /\ FreshLoop(s)'
    <3>1. Cardinality(WorkingOn(s)') = 0
      BY <2>1, <1>1, UnpublishedIsQuiet
    <3>2. next'[s] = 0 /\ done'[s] = 0 /\ ~failed'[s] /\ error'[s] = NoError
          /\ started'[s] = {} /\ thrown'[s] = {}
      BY <2>1 DEF FreshLoop
    <3>3. chunks'[s] \in Nat
      OBVIOUS
    <3>4. Claimed(s)' = 0
      BY <3>2, <3>3 DEF Claimed
    <3>5. \A c \in Chunk : ~(c < 0)
      BY CountsAssumption DEF Chunk
    <3> QED
      BY <3>1, <3>2, <3>4, <3>5 DEF ActiveLoop
  <2>2. CASE /\ pc[s] \in Published
             /\ chunks'[s] = chunks[s] /\ next'[s] = next[s]
             /\ done'[s] = done[s] /\ failed'[s] = failed[s]
             /\ error'[s] = error[s] /\ started'[s] = started[s]
             /\ thrown'[s] = thrown[s]
    <3>1. ActiveLoop(s)
      BY <2>2 DEF LoopInv, LoopsAreSerial
    <3>2. \A t \in WorkingOn(s) : pc'[t] = pc[t] /\ chunk'[t] = chunk[t]
      BY DEF WorkingOn
    <3>3. Claimed(s)' = Claimed(s)
      BY <2>2 DEF Claimed
    <3> QED
      BY <2>2, <3>1, <3>2, <3>3, <1>1 DEF ActiveLoop
  <2> QED
    BY <1>2, <2>1, <2>2
<1>3. LoopsAreSerial'
  BY <1>2 DEF LoopsAreSerial
<1>4. ChunksAreClaimed'
  <2>1. ASSUME NEW t \in Threads, pc'[t] \in Working
        PROVE  /\ pc[t] \in Working /\ pc'[t] = pc[t]
               /\ JobOf(t)' = JobOf(t) /\ JobOf(t) \in Submitters
               /\ chunks'[JobOf(t)] = chunks[JobOf(t)]
               /\ next'[JobOf(t)] = next[JobOf(t)]
               /\ started'[JobOf(t)] = started[JobOf(t)]
               /\ thrown'[JobOf(t)] = thrown[JobOf(t)]
    <3>1. pc[t] \in Working /\ pc'[t] = pc[t] /\ JobOf(t)' = JobOf(t)
      BY <2>1
    <3>2. JobOf(t) \in Submitters /\ pc[JobOf(t)] \in Published
      BY <3>1, DrainerHasJob DEF Draining
    <3>3. t \in WorkingOn(JobOf(t))
      BY <3>1 DEF WorkingOn
    <3>4. pc'[JobOf(t)] \in Published
      BY <3>2, <3>3
    <3> QED
      BY <3>1, <3>2, <3>4
  <2>2. ChunksAreClaimed
    BY DEF LoopInv
  <2> QED
    BY <2>1, <2>2 DEF ChunksAreClaimed
<1>5. NestedRunsInline'
  BY DEF LoopInv, NestedRunsInline, Working
<1>6. ExecutingChunks' = ExecutingChunks
  <2>1. \A s \in Submitters : \A t \in WorkingOn(s) : pc'[t] = pc[t]
    BY DEF WorkingOn
  <2>2. \A s \in Submitters : {u \in WorkingOn(s) : pc[u] \in Executing}' =
                              {u \in WorkingOn(s) : pc[u] \in Executing}
    BY <2>1, <1>1
  <2> QED
    BY <2>2 DEF ExecutingChunks
<1> QED
  BY <1>3, <1>4, <1>5, <1>6 DEF LoopInv

\* A step of DrainJob moves one thread between two points of the loop, and no
\* other thread, submission or Job pointer (parallel_for.cc:67-90).
Moves(t, label) ==
    /\ pc[t] \in Draining
    /\ label \in (Draining \ {"blocked"}) \cup {"retire", "detach"}
    /\ label = "retire" => t \in Submitters
    /\ label = "detach" => t \in Workers
    /\ pc' = [pc EXCEPT ![t] = label]
    /\ held' = held /\ chunks' = chunks /\ tls_job_owner' = tls_job_owner

\* A step of a thread at work on a Job leaves the others, and their Jobs, alone.
LEMMA MovesOneThread ==
    ASSUME IInv, NEW t \in Threads, NEW label, Moves(t, label)
    PROVE  /\ JobOf(t) \in Submitters /\ pc[JobOf(t)] \in Published
           /\ \A u \in Threads : JobOf(u)' = JobOf(u)
           /\ \A u \in Threads \ {t} : pc'[u] = pc[u]
           /\ pc'[t] = label
           /\ \A s \in Submitters : pc'[s] = pc[s] \/
                (pc[s] \in Published /\ pc'[s] \in Published)
           /\ \A s \in Submitters \ {JobOf(t)} : WorkingOn(s)' = WorkingOn(s)
           /\ label \in Working =>
                WorkingOn(JobOf(t))' = WorkingOn(JobOf(t)) \cup {t}
           /\ label \notin Working =>
                WorkingOn(JobOf(t))' = WorkingOn(JobOf(t)) \ {t}
<1>1. JobOf(t) \in Submitters /\ pc[JobOf(t)] \in Published
  BY DrainerHasJob DEF Moves
<1>2. \A u \in Threads : JobOf(u)' = JobOf(u)
  BY DEF JobOf, Moves
<1>3. pc \in [Threads -> SubmitterPc \cup WorkerPc]
  BY DEF IInv, TypeOK
<1>4. pc'[t] = label /\ \A u \in Threads \ {t} : pc'[u] = pc[u]
  BY <1>3 DEF Moves
<1>5. \A s \in Submitters : pc'[s] = pc[s] \/
        (pc[s] \in Published /\ pc'[s] \in Published)
  <2> SUFFICES ASSUME NEW s \in Submitters, s = t
               PROVE  pc[s] \in Published /\ pc'[s] \in Published
    BY <1>4 DEF Threads
  <2>1. label # "detach"
    BY ThreadsAssumption DEF Moves
  <2> QED
    BY <2>1, <1>4 DEF Moves, Published
<1>6. \A s \in Submitters \ {JobOf(t)} : WorkingOn(s)' = WorkingOn(s)
  BY <1>2, <1>4 DEF WorkingOn
<1>7. label \in Working =>
        WorkingOn(JobOf(t))' = WorkingOn(JobOf(t)) \cup {t}
  BY <1>2, <1>4 DEF WorkingOn
<1>8. label \notin Working =>
        WorkingOn(JobOf(t))' = WorkingOn(JobOf(t)) \ {t}
  BY <1>2, <1>4 DEF WorkingOn
<1> QED
  BY <1>1, <1>2, <1>4, <1>5, <1>6, <1>7, <1>8

\* Only the loop of that thread's Job changes.
LEMMA OtherLoopsKept ==
    ASSUME IInv, LoopInv, NEW t \in Threads, NEW label, Moves(t, label),
           \A u \in Threads \ {t} : chunk'[u] = chunk[u],
           \A s \in Submitters \ {JobOf(t)} :
             /\ next'[s] = next[s] /\ done'[s] = done[s]
             /\ failed'[s] = failed[s] /\ error'[s] = error[s]
             /\ started'[s] = started[s] /\ thrown'[s] = thrown[s],
           ActiveLoop(JobOf(t))'
    PROVE  LoopsAreSerial' /\ NestedRunsInline'
<1>1. /\ \A s \in Submitters : pc'[s] = pc[s] \/
            (pc[s] \in Published /\ pc'[s] \in Published)
      /\ \A s \in Submitters \ {JobOf(t)} : WorkingOn(s)' = WorkingOn(s)
      /\ \A u \in Threads \ {t} : pc'[u] = pc[u]
      /\ JobOf(t)' = JobOf(t) /\ pc'[t] = label
      /\ JobOf(t) \in Submitters /\ pc[JobOf(t)] \in Published
  BY MovesOneThread
<1>2. \A s \in Submitters \ {JobOf(t)} : t \notin WorkingOn(s)
  BY DEF WorkingOn
<1>3. ASSUME NEW s \in Submitters, s # JobOf(t)
      PROVE  /\ pc'[s] \in {"submit", "publish"} => FreshLoop(s)'
             /\ pc'[s] \in Published => ActiveLoop(s)'
             /\ pc'[s] = "return" => EndedLoop(s)'
  <2>1. /\ pc[s] \in {"submit", "publish"} => FreshLoop(s)
        /\ pc[s] \in Published => ActiveLoop(s)
        /\ pc[s] = "return" => EndedLoop(s)
    BY DEF LoopInv, LoopsAreSerial
  <2>2. /\ next'[s] = next[s] /\ done'[s] = done[s]
        /\ failed'[s] = failed[s] /\ error'[s] = error[s]
        /\ started'[s] = started[s] /\ thrown'[s] = thrown[s]
        /\ chunks'[s] = chunks[s]
    BY <1>3 DEF Moves
  <2>3. /\ WorkingOn(s)' = WorkingOn(s)
        /\ \A u \in WorkingOn(s) : pc'[u] = pc[u] /\ chunk'[u] = chunk[u]
    BY <1>1, <1>2, <1>3 DEF WorkingOn
  <2>4. Claimed(s)' = Claimed(s)
    BY <2>2 DEF Claimed
  <2>5. pc'[s] \in {"submit", "publish"} => FreshLoop(s)'
    BY <1>1, <2>1, <2>2 DEF FreshLoop, Published, Draining, Working, Executing
  <2>6. pc'[s] \in Published => ActiveLoop(s)'
    BY <1>1, <2>1, <2>2, <2>3, <2>4 DEF ActiveLoop
  <2>7. pc'[s] = "return" => EndedLoop(s)'
    BY <1>1, <2>1, <2>2 DEF EndedLoop, Published, Draining, Working, Executing
  <2> QED
    BY <2>5, <2>6, <2>7
<1>4. pc'[JobOf(t)] \in Published
  BY <1>1
<1>5. pc'[JobOf(t)] \notin {"submit", "publish", "return"}
  BY <1>4 DEF Published, Draining, Working, Executing
<1>6. ASSUME NEW s \in Submitters, s = JobOf(t)
      PROVE  /\ pc'[s] \in {"submit", "publish"} => FreshLoop(s)'
             /\ pc'[s] \in Published => ActiveLoop(s)'
             /\ pc'[s] = "return" => EndedLoop(s)'
  <2>1. ActiveLoop(s)'
    BY <1>1, <1>6
  <2> QED
    BY <2>1, <1>5, <1>6
<1>7. LoopsAreSerial'
  BY <1>3, <1>6 DEF LoopsAreSerial
<1>8. \A s \in Submitters : pc'[s] \in InRun => pc[s] \in InRun
  BY <1>1 DEF InRun
<1>9. NestedRunsInline'
  <2>1. label # "blocked"
    BY DEF Moves
  <2> QED
    BY <2>1, <1>1, <1>8 DEF LoopInv, NestedRunsInline, Moves
<1> QED
  BY <1>7, <1>9

\* The chunks in execution gain or lose the chunk of the thread that moves.
LEMMA ExecutionMoves ==
    ASSUME IInv, LoopInv, NEW t \in Threads, NEW label, Moves(t, label),
           \A u \in Threads \ {t} : chunk'[u] = chunk[u],
           pc[t] \in Executing \/ label \in Executing => chunk'[t] = chunk[t]
    PROVE  /\ label \in Executing /\ pc[t] \notin Executing =>
                ExecutingChunks' =
                  [ExecutingChunks EXCEPT ![JobOf(t)] = @ \cup {chunk[t]}]
           /\ label \notin Executing /\ pc[t] \in Executing =>
                /\ chunk[t] \in ExecutingChunks[JobOf(t)]
                /\ ExecutingChunks' =
                     [ExecutingChunks EXCEPT ![JobOf(t)] = @ \ {chunk[t]}]
           /\ (label \in Executing <=> pc[t] \in Executing) =>
                ExecutingChunks' = ExecutingChunks
<1>j. PICK j \in Submitters : j = JobOf(t)
  BY MovesOneThread
<1> DEFINE Bodies(s) == {u \in WorkingOn(s) : pc[u] \in Executing}
           E(s) == {chunk[u] : u \in Bodies(s)}
<1>1. /\ \A u \in Threads : JobOf(u)' = JobOf(u)
      /\ \A u \in Threads \ {t} : pc'[u] = pc[u]
      /\ pc'[t] = label
  BY MovesOneThread
<1>2. \A s \in Submitters, u \in Threads :
        /\ u \in Bodies(s) <=> pc[u] \in Executing /\ JobOf(u) = s
        /\ u \in Bodies(s)' <=> pc'[u] \in Executing /\ JobOf(u) = s
  BY <1>1 DEF WorkingOn, Working
<1>3. \A s \in Submitters : Bodies(s) \subseteq Threads /\ Bodies(s)' \subseteq Threads
  BY DEF WorkingOn
<1>4. /\ ExecutingChunks = [s \in Submitters |-> E(s)]
      /\ ExecutingChunks' = [s \in Submitters |-> E(s)']
  BY DEF ExecutingChunks
<1> HIDE DEF Bodies
<1>5. \A s \in Submitters \ {j} : E(s)' = E(s)
  <2> SUFFICES ASSUME NEW s \in Submitters \ {j} PROVE E(s)' = E(s)
    OBVIOUS
  <2>1. Bodies(s)' = Bodies(s) /\ t \notin Bodies(s)
    BY <1>1, <1>2, <1>3, <1>j
  <2>2. \A u \in Bodies(s) : chunk'[u] = chunk[u]
    BY <2>1, <1>3
  <2> QED
    BY <2>1, <2>2
<1>6. CASE label \in Executing /\ pc[t] \notin Executing
  <2>1. Bodies(j)' = Bodies(j) \cup {t} /\ t \notin Bodies(j)
    BY <1>1, <1>2, <1>3, <1>6, <1>j
  <2>2. chunk'[t] = chunk[t] /\ \A u \in Bodies(j) : chunk'[u] = chunk[u]
    BY <2>1, <1>3, <1>6, <1>j
  <2>3. E(j)' = E(j) \cup {chunk[t]}
    BY <2>1, <2>2
  <2> HIDE DEF E
  <2> QED
    BY <2>3, <1>1, <1>4, <1>5, <1>6, <1>j
<1>7. CASE label \notin Executing /\ pc[t] \in Executing
  <2>1. Bodies(j)' = Bodies(j) \ {t} /\ t \in Bodies(j)
    BY <1>1, <1>2, <1>3, <1>7, <1>j
  <2>2. \A u \in Bodies(j) : chunk'[u] = chunk[u]
    BY <2>1, <1>3, <1>7, <1>j
  <2>3. \A u \in Bodies(j) : chunk[u] = chunk[t] => u = t
    BY <1>1, <1>2, <1>3, <1>7, <1>j DEF LoopInv, ChunksAreClaimed, Working
  <2>4. E(j)' = E(j) \ {chunk[t]} /\ chunk[t] \in E(j)
    BY <2>1, <2>2, <2>3
  <2> HIDE DEF E
  <2> QED
    BY <2>4, <1>1, <1>4, <1>5, <1>7, <1>j
<1>8. CASE label \in Executing <=> pc[t] \in Executing
  <2>1. Bodies(j)' = Bodies(j)
    BY <1>1, <1>2, <1>3, <1>8, <1>j
  <2>2. \A u \in Bodies(j) : chunk'[u] = chunk[u]
    BY <1>1, <1>2, <1>3, <1>8, <1>j
  <2>3. E(j)' = E(j)
    BY <2>1, <2>2
  <2> HIDE DEF E
  <2>4. \A s \in Submitters : E(s)' = E(s)
    BY <2>3, <1>5
  <2> QED
    BY <2>4, <1>4, <1>8
<1> QED
  BY <1>6, <1>7, <1>8, <1>j

\* A thread that already has a chunk keeps it, whatever else it does.
LEMMA ClaimsKept ==
    ASSUME IInv, LoopInv, NEW t \in Threads, NEW label, Moves(t, label),
           pc[t] \in Working, label # "test", chunk' = chunk, next' = next,
           \A u \in Threads \ {t} : pc[u] = "test" =>
                chunk[u] \notin started'[JobOf(u)],
           \A s \in Submitters : thrown[s] \subseteq thrown'[s],
           label = "mark" => thrown'[JobOf(t)] # {}
    PROVE  ChunksAreClaimed'
<1>1. /\ \A u \in Threads : JobOf(u)' = JobOf(u)
      /\ \A u \in Threads \ {t} : pc'[u] = pc[u]
      /\ pc'[t] = label
  BY MovesOneThread
<1>2. chunks' = chunks
  BY DEF Moves
<1>3. ASSUME NEW u \in Threads, pc'[u] \in Working
      PROVE  /\ pc[u] \in Working /\ JobOf(u) \in Submitters
             /\ pc'[u] = "test" => u # t /\ pc[u] = "test"
             /\ pc'[u] = "mark" => thrown'[JobOf(u)] # {}
  <2>1. pc[u] \in Working
    BY <1>1, <1>3
  <2>2. JobOf(u) \in Submitters
    BY <2>1, DrainerHasJob DEF Draining
  <2>3. pc[u] = "mark" => thrown[JobOf(u)] # {}
    BY <2>1 DEF LoopInv, ChunksAreClaimed
  <2> QED
    BY <2>1, <2>2, <2>3, <1>1
<1> QED
  BY <1>1, <1>2, <1>3 DEF LoopInv, ChunksAreClaimed

\* A claim takes the next chunk, or finds none left (parallel_for.cc:69-71).
LEMMA ClaimKeepsLoops ==
    ASSUME IInv, LoopInv, NEW t \in Threads, Claim(t)
    PROVE  /\ LoopInv' /\ ExecutingChunks' = ExecutingChunks
           /\ \E label : Moves(t, label)
<1>j. PICK j \in Submitters : j = JobOf(t) /\ pc[j] \in Published
  BY DrainerHasJob DEF Claim, Draining
<1>1. /\ pc[t] = "claim" /\ next' = [next EXCEPT ![j] = @ + 1]
      /\ UNCHANGED <<tls_job_owner, held, chunks, done, failed, error, started,
                     thrown>>
  BY <1>j DEF Claim, pool, worker, history
<1>2. /\ next \in [Submitters -> Nat] /\ chunks \in [Submitters -> 0..kMaxParallelChunks]
      /\ chunk \in [Threads -> Chunk] /\ done \in [Submitters -> Nat]
  BY DEF IInv, TypeOK
<1>3. /\ next'[j] = next[j] + 1 /\ next[j] \in Nat /\ chunks[j] \in Nat
      /\ \A s \in Submitters \ {j} : next'[s] = next[s]
  BY <1>1, <1>2, CountsAssumption
<1>4. ActiveLoop(j)
  BY <1>j DEF LoopInv, LoopsAreSerial
<1>5. t \notin WorkingOn(j) /\ IsFiniteSet(WorkingOn(j))
  BY <1>1, FewWorkOn DEF WorkingOn, Working, Executing
<1>6. Cardinality(WorkingOn(j)) \in Nat
  BY <1>5, FS_CardinalityType
<1>7. CASE Exhausted(j)
  <2> DEFINE label == IF t \in Submitters THEN "retire" ELSE "detach"
  <2>1. pc' = [pc EXCEPT ![t] = label] /\ chunk' = chunk
    BY <1>7, <1>j DEF Claim, Goto
  <2>2. Moves(t, label) /\ label \notin Working /\ label \notin Executing
    BY <2>1, <1>1 DEF Moves, Draining, Working, Executing, Threads
  <2> HIDE DEF label
  <2>3. /\ WorkingOn(j)' = WorkingOn(j)
        /\ \A u \in Threads : JobOf(u)' = JobOf(u)
        /\ \A u \in Threads \ {t} : pc'[u] = pc[u]
        /\ pc'[t] = label
    BY <2>2, <1>5, <1>j, MovesOneThread
  <2>4. ActiveLoop(j)'
    <3>1. next[j] >= chunks[j]
      BY <1>7 DEF Exhausted
    <3>2. Claimed(j)' = Claimed(j)
      BY <3>1, <1>1, <1>3 DEF Claimed
    <3>3. \A c \in Chunk : c < next'[j] /\ c < chunks[j] => c < next[j]
      BY <3>1, <1>3 DEF Chunk
    <3>4. \A c \in started[j] : c < next'[j]
      <4>1. started[j] \subseteq Chunk
        BY DEF IInv, TypeOK
      <4> QED
        BY <4>1, <1>3, <1>4 DEF ActiveLoop, Chunk
    <3>5. \A u \in WorkingOn(j) : pc'[u] = pc[u]
      BY <2>3, <1>5 DEF WorkingOn
    <3> QED
      BY <3>2, <3>3, <3>4, <3>5, <2>1, <2>3, <1>1, <1>4 DEF ActiveLoop
  <2>5. LoopsAreSerial' /\ NestedRunsInline'
    BY <2>1, <2>2, <2>3, <2>4, <1>1, <1>3, <1>j, OtherLoopsKept
  <2>6. ChunksAreClaimed'
    <3>1. ASSUME NEW u \in Threads, pc'[u] \in Working
          PROVE  /\ pc[u] \in Working /\ pc'[u] = pc[u]
                 /\ JobOf(u)' = JobOf(u) /\ JobOf(u) \in Submitters
      <4>1. pc[u] \in Working /\ pc'[u] = pc[u]
        BY <3>1, <2>2, <2>3
      <4> QED
        BY <4>1, <2>3, DrainerHasJob DEF Draining
    <3>2. ASSUME NEW u \in Threads, pc'[u] \in Working
          PROVE  chunk[u] < next'[JobOf(u)]
      <4>1. JobOf(u) \in Submitters /\ chunk[u] < next[JobOf(u)]
        BY <3>1, <3>2 DEF LoopInv, ChunksAreClaimed
      <4>2. chunk[u] \in Nat /\ next[JobOf(u)] \in Nat
        BY <4>1, <1>2 DEF Chunk
      <4> QED
        BY <4>1, <4>2, <1>3
    <3> QED
      BY <3>1, <3>2, <2>1, <1>1 DEF LoopInv, ChunksAreClaimed
  <2>7. ExecutingChunks' = ExecutingChunks
    <3>1. pc[t] \notin Executing
      BY <1>1 DEF Executing
    <3> QED
      BY <3>1, <2>1, <2>2, ExecutionMoves
  <2> QED
    BY <2>2, <2>5, <2>6, <2>7 DEF LoopInv
<1>8. CASE ~Exhausted(j)
  <2>1. pc' = [pc EXCEPT ![t] = "test"] /\ chunk' = [chunk EXCEPT ![t] = next[j]]
    BY <1>8, <1>j DEF Claim, Goto
  <2>2. Moves(t, "test") /\ "test" \in Working /\ "test" \notin Executing
    BY <2>1, <1>1 DEF Moves, Draining, Working, Executing
  <2>3. /\ WorkingOn(j)' = WorkingOn(j) \cup {t}
        /\ \A u \in Threads : JobOf(u)' = JobOf(u)
        /\ \A u \in Threads \ {t} : pc'[u] = pc[u] /\ chunk'[u] = chunk[u]
        /\ pc'[t] = "test" /\ chunk'[t] = next[j]
    BY <2>1, <2>2, <1>2, <1>j, MovesOneThread
  <2>4. next[j] < chunks[j] /\ next[j] \in Chunk
    BY <1>2, <1>3, <1>8, CountsAssumption DEF Exhausted, Chunk
  <2>5. ActiveLoop(j)'
    <3>1. Cardinality(WorkingOn(j)') = Cardinality(WorkingOn(j)) + 1
      BY <2>3, <1>5, FS_AddElement
    <3>2. Claimed(j) = next[j] /\ Claimed(j)' = next[j] + 1
      BY <2>4, <1>1, <1>3 DEF Claimed
    <3>3. done[j] \in Nat /\ done[j] + Cardinality(WorkingOn(j)) = next[j]
      BY <3>2, <1>2, <1>4 DEF ActiveLoop
    <3>4. done[j] + Cardinality(WorkingOn(j)') = Claimed(j)'
      BY <3>1, <3>2, <3>3, <1>6
    <3>5. \A c \in started[j] : c < next'[j]
      <4>1. started[j] \subseteq Chunk
        BY DEF IInv, TypeOK
      <4> QED
        BY <4>1, <1>3, <1>4 DEF ActiveLoop, Chunk
    <3>6. \A u \in WorkingOn(j) : pc'[u] = pc[u] /\ chunk'[u] = chunk[u]
      BY <2>3, <1>5 DEF WorkingOn
    <3>7. \A c \in Chunk : c < next'[j] => c < next[j] \/ c = next[j]
      BY <1>3 DEF Chunk
    <3>8. ASSUME NEW c \in Chunk, c < next'[j], c < chunks[j]
          PROVE  \/ c \in started[j] \/ thrown[j] # {}
                 \/ \E u \in WorkingOn(j)' : pc'[u] = "test" /\ chunk'[u] = c
      <4>1. CASE c = next[j]
        BY <4>1, <2>3
      <4>2. CASE c < next[j]
        BY <4>2, <3>6, <3>8, <2>3, <1>4 DEF ActiveLoop
      <4> QED
        BY <4>1, <4>2, <3>7, <3>8
    <3> QED
      BY <3>4, <3>5, <3>8, <1>1, <1>4 DEF ActiveLoop
  <2>6. LoopsAreSerial' /\ NestedRunsInline'
    BY <2>2, <2>3, <2>5, <1>1, <1>3, <1>j, OtherLoopsKept
  <2>7. ChunksAreClaimed'
    <3>1. ASSUME NEW u \in Threads, u # t, pc[u] \in Working
          PROVE  /\ JobOf(u) \in Submitters
                 /\ chunk[u] \in Nat /\ next[JobOf(u)] \in Nat
                 /\ chunk[u] < next[JobOf(u)]
                 /\ chunk[u] < next'[JobOf(u)]
                 /\ JobOf(u) = j => chunk[u] # next[j]
      <4>1. JobOf(u) \in Submitters
        BY <3>1, DrainerHasJob DEF Draining
      <4>2. chunk[u] \in Nat /\ next[JobOf(u)] \in Nat
        BY <4>1, <1>2 DEF Chunk
      <4>3. chunk[u] < next[JobOf(u)]
        BY <3>1 DEF LoopInv, ChunksAreClaimed
      <4> QED
        BY <4>1, <4>2, <4>3, <1>3
    <3>2. /\ next[j] < next'[j] /\ next[j] < chunks[j] /\ next[j] \notin started[j]
      <4>1. next[j] \notin started[j]
        BY <1>3, <1>4 DEF ActiveLoop
      <4> QED
        BY <4>1, <2>4, <1>3
    <3>3. \A u \in Threads : pc'[u] \in Working <=> u = t \/ pc[u] \in Working
      BY <2>2, <2>3
    <3>4. chunks' = chunks /\ started' = started /\ thrown' = thrown
      BY <1>1
    <3>5. ASSUME NEW u \in Threads, pc'[u] \in Working
          PROVE  /\ chunk'[u] < next'[JobOf(u)] /\ chunk'[u] < chunks[JobOf(u)]
                 /\ pc'[u] = "test" => chunk'[u] \notin started[JobOf(u)]
                 /\ pc'[u] = "mark" => thrown[JobOf(u)] # {}
                 /\ \A v \in Threads :
                     /\ pc'[v] \in Working /\ JobOf(v) = JobOf(u)
                     /\ chunk'[v] = chunk'[u]
                     => v = u
      <4>1. CASE u = t
        BY <4>1, <3>1, <3>2, <3>3, <2>3, <1>j
      <4>2. CASE u # t
        BY <4>2, <3>1, <3>3, <3>5, <2>3, <1>j DEF LoopInv, ChunksAreClaimed
      <4> QED
        BY <4>1, <4>2
    <3> QED
      BY <3>4, <3>5, <2>3 DEF ChunksAreClaimed
  <2>8. ExecutingChunks' = ExecutingChunks
    <3>1. pc[t] \notin Executing
      BY <1>1 DEF Executing
    <3> QED
      BY <3>1, <2>2, <2>3, ExecutionMoves
  <2> QED
    BY <2>2, <2>6, <2>7, <2>8 DEF LoopInv
<1> QED
  BY <1>7, <1>8

\* The test of failed: the chunk is skipped, or its body is entered, for the first
\* time (parallel_for.cc:72-74).
LEMMA TestKeepsLoops ==
    ASSUME IInv, LoopInv, NEW t \in Threads, Test(t)
    PROVE  /\ LoopInv'
           /\ \/ Moves(t, "count") /\ UNCHANGED <<started, chunk>>
              \/ /\ Moves(t, "body") /\ chunk' = chunk
                 /\ chunk[t] \in 0..(chunks[JobOf(t)] - 1)
                 /\ chunk[t] \notin started[JobOf(t)]
                 /\ started' = [started EXCEPT ![JobOf(t)] = @ \cup {chunk[t]}]
<1>j. PICK j \in Submitters : j = JobOf(t) /\ pc[j] \in Published
  BY DrainerHasJob DEF Test, Draining, Working
<1>1. /\ pc[t] = "test"
      /\ UNCHANGED <<tls_job_owner, held, chunks, next, done, failed, error,
                     chunk, thrown>>
  BY DEF Test, pool, worker, fields
<1>2. /\ chunk \in [Threads -> Chunk] /\ chunks \in [Submitters -> 0..kMaxParallelChunks]
      /\ started \in [Submitters -> SUBSET Chunk]
  BY DEF IInv, TypeOK
<1>3. /\ t \in WorkingOn(j) /\ pc[t] \notin Executing
  BY <1>1, <1>j DEF WorkingOn, Working, Executing
<1>4. ActiveLoop(j)
  BY <1>j DEF LoopInv, LoopsAreSerial
<1>5. /\ chunk[t] < next[j] /\ chunk[t] < chunks[j] /\ chunk[t] \notin started[j]
  BY <1>1, <1>j DEF LoopInv, ChunksAreClaimed, Working
<1>6. chunk[t] \in 0..(chunks[j] - 1)
  BY <1>2, <1>5, CountsAssumption DEF Chunk
<1> DEFINE label == IF failed[j] THEN "count" ELSE "body"
<1>7. /\ pc' = [pc EXCEPT ![t] = label]
      /\ started' = IF failed[j] THEN started
                    ELSE [started EXCEPT ![j] = @ \cup {chunk[t]}]
  BY <1>j DEF Test, Goto
<1>8. /\ Moves(t, label) /\ label \in Working /\ label \notin {"test", "mark"}
      /\ label \in Executing <=> ~failed[j]
  BY <1>1, <1>7 DEF Moves, Draining, Working, Executing
<1> HIDE DEF label
<1>9. /\ WorkingOn(j)' = WorkingOn(j)
      /\ \A u \in Threads : JobOf(u)' = JobOf(u)
      /\ \A u \in Threads \ {t} : pc'[u] = pc[u]
      /\ pc'[t] = label
  BY <1>3, <1>8, <1>j, MovesOneThread
<1>10. /\ started'[j] = IF failed[j] THEN started[j] ELSE started[j] \cup {chunk[t]}
       /\ \A s \in Submitters \ {j} : started'[s] = started[s]
  BY <1>2, <1>7
<1>11. ActiveLoop(j)'
  <2>1. Claimed(j)' = Claimed(j)
    BY <1>1 DEF Claimed
  <2>2. \A c \in started'[j] : c < next[j] /\ c < chunks[j]
    BY <1>4, <1>5, <1>10 DEF ActiveLoop
  <2>3. ASSUME NEW c \in Chunk, c < next[j], c < chunks[j]
        PROVE  \/ c \in started'[j] \/ thrown[j] # {}
               \/ \E u \in WorkingOn(j) : pc'[u] = "test" /\ chunk[u] = c
    <3>1. CASE thrown[j] # {}
      BY <3>1
    <3>2. CASE thrown[j] = {}
      <4>1. ~failed[j]
        BY <3>2, <1>4 DEF ActiveLoop
      <4>2. c \in started[j] \/ \E u \in WorkingOn(j) : pc[u] = "test" /\ chunk[u] = c
        BY <3>2, <2>3, <1>4 DEF ActiveLoop
      <4> QED
        BY <4>1, <4>2, <1>9, <1>10 DEF WorkingOn
    <3> QED
      BY <3>1, <3>2
  <2> QED
    BY <2>1, <2>2, <2>3, <1>1, <1>4, <1>9 DEF ActiveLoop
<1>12. LoopsAreSerial' /\ NestedRunsInline'
  BY <1>1, <1>8, <1>9, <1>10, <1>11, <1>j, OtherLoopsKept
<1>13. ChunksAreClaimed'
  <2>1. ASSUME NEW u \in Threads \ {t}, pc[u] = "test"
        PROVE  chunk[u] \notin started'[JobOf(u)]
    <3>1. pc[u] \in Working /\ JobOf(u) \in Submitters
      BY <2>1, DrainerHasJob DEF Working, Draining
    <3>2. chunk[u] \notin started[JobOf(u)]
      BY <2>1, <3>1 DEF LoopInv, ChunksAreClaimed
    <3>3. JobOf(u) = j => chunk[u] # chunk[t]
      BY <3>1, <1>1, <1>j DEF LoopInv, ChunksAreClaimed, Working
    <3> QED
      BY <3>1, <3>2, <3>3, <1>10
  <2> QED
    BY <2>1, <1>1, <1>8, ClaimsKept DEF Working
<1> QED
  BY <1>1, <1>5, <1>6, <1>7, <1>8, <1>12, <1>13, <1>j DEF LoopInv, label

\* A body that returns, or calls ParallelFor, changes nothing of its loop; the
\* nested call runs inline (parallel_for.cc:243-254).
LEMMA BodyKeepsLoops ==
    ASSUME IInv, LoopInv, NEW t \in Threads, NestedCall(t) \/ BodyReturns(t)
    PROVE  /\ LoopInv' /\ pc[t] \in Executing
           /\ NestedCall(t) => Moves(t, "nested")
           /\ BodyReturns(t) => Moves(t, "count")
<1>j. PICK j \in Submitters : j = JobOf(t) /\ pc[j] \in Published
  BY DrainerHasJob DEF NestedCall, BodyReturns, Draining, Working, Executing
<1>1. /\ pc[t] \in Executing
      /\ UNCHANGED <<tls_job_owner, held, chunks, next, done, failed, error,
                     chunk, started, thrown>>
  BY DEF NestedCall, BodyReturns, pool, worker, fields, history, Executing
<1>2. ASSUME NestedCall(t) PROVE pc' = [pc EXCEPT ![t] = "nested"]
  <2>1. t \in Submitters => t \in tls_job_owner
    BY <1>1 DEF LoopInv, NestedRunsInline, InRun, Published, Draining, Working
  <2>2. RunsInline(t)
    BY <2>1 DEF RunsInline, Threads
  <2> QED
    BY <2>2, <1>2 DEF NestedCall, Goto
<1>3. PICK label \in {"nested", "count"} :
        /\ Moves(t, label)
        /\ NestedCall(t) => label = "nested"
        /\ BodyReturns(t) => label = "count"
  <2>1. CASE NestedCall(t)
    <3>1. Moves(t, "nested") /\ pc'[t] = "nested"
      BY <2>1, <1>1, <1>2 DEF Moves, Draining, Working, Executing, IInv, TypeOK
    <3>2. ~BodyReturns(t)
      BY <3>1, <1>1 DEF BodyReturns, Goto, IInv, TypeOK
    <3> QED
      BY <3>1, <3>2
  <2>2. CASE BodyReturns(t)
    <3>1. Moves(t, "count") /\ pc'[t] = "count"
      BY <2>2, <1>1
      DEF BodyReturns, Goto, Moves, Draining, Working, Executing, IInv, TypeOK
    <3>2. ~NestedCall(t)
      BY <3>1, <1>2 DEF IInv, TypeOK
    <3> QED
      BY <3>1, <3>2
  <2> QED
    BY <2>1, <2>2
<1>4. label \in Working /\ label \notin {"test", "mark"} /\ pc[t] \in Working
  BY <1>1 DEF Working, Executing
<1>5. /\ WorkingOn(j)' = WorkingOn(j)
      /\ \A u \in Threads : JobOf(u)' = JobOf(u)
      /\ \A u \in Threads \ {t} : pc'[u] = pc[u]
      /\ pc'[t] = label
  <2>1. t \in WorkingOn(j)
    BY <1>4, <1>j DEF WorkingOn
  <2> QED
    BY <2>1, <1>3, <1>4, <1>j, MovesOneThread
<1>6. ActiveLoop(j)'
  <2>1. ActiveLoop(j)
    BY <1>j DEF LoopInv, LoopsAreSerial
  <2>2. Claimed(j)' = Claimed(j)
    BY <1>1 DEF Claimed
  <2>3. \A u \in WorkingOn(j) : pc[u] = "test" => pc'[u] = "test"
    BY <1>1, <1>5 DEF WorkingOn, Executing
  <2> QED
    BY <2>1, <2>2, <2>3, <1>1, <1>5 DEF ActiveLoop
<1>7. LoopsAreSerial' /\ NestedRunsInline'
  BY <1>1, <1>3, <1>5, <1>6, <1>j, OtherLoopsKept
<1>8. \A u \in Threads : pc[u] = "test" => chunk[u] \notin started[JobOf(u)]
  BY DEF LoopInv, ChunksAreClaimed, Working
<1>9. ChunksAreClaimed'
  BY <1>1, <1>3, <1>4, <1>8, ClaimsKept
<1> QED
  BY <1>1, <1>3, <1>7, <1>9 DEF LoopInv

\* A body that throws leaves its exception before it marks the failure
\* (parallel_for.cc:77-84).
LEMMA ThrowKeepsLoops ==
    ASSUME IInv, LoopInv, NEW t \in Threads, BodyThrows(t)
    PROVE  LoopInv' /\ Moves(t, "mark") /\ pc[t] \in Executing
<1>j. PICK j \in Submitters : j = JobOf(t) /\ pc[j] \in Published
  BY DrainerHasJob DEF BodyThrows, Draining, Working
<1>1. /\ pc[t] \in Executing /\ pc[t] # "test"
      /\ error' = [error EXCEPT ![j] = IF @ = NoError THEN chunk[t] ELSE @]
      /\ thrown' = [thrown EXCEPT ![j] = @ \cup {chunk[t]}]
      /\ UNCHANGED <<tls_job_owner, held, chunks, next, done, failed, chunk,
                     started>>
  BY <1>j DEF BodyThrows, pool, worker, Executing
<1>2. /\ chunk[t] \in Chunk /\ thrown \in [Submitters -> SUBSET Chunk]
      /\ error \in [Submitters -> Chunk \cup {NoError}]
  BY DEF IInv, TypeOK
<1>3. /\ thrown'[j] = thrown[j] \cup {chunk[t]} /\ thrown'[j] # {}
      /\ error'[j] = (IF error[j] = NoError THEN chunk[t] ELSE error[j])
      /\ \A s \in Submitters \ {j} : thrown'[s] = thrown[s] /\ error'[s] = error[s]
      /\ \A s \in Submitters : thrown[s] \subseteq thrown'[s]
  BY <1>1, <1>2
<1>4. error'[j] # NoError
  BY <1>2, <1>3, CountsAssumption DEF Chunk
<1>5. Moves(t, "mark")
  BY <1>1 DEF BodyThrows, Moves, Goto, Draining, Working
<1>6. "mark" \in Working /\ pc[t] \in Working
  BY <1>1 DEF Working
<1>7. /\ WorkingOn(j)' = WorkingOn(j)
      /\ \A u \in Threads : JobOf(u)' = JobOf(u)
      /\ \A u \in Threads \ {t} : pc'[u] = pc[u]
  <2>1. t \in WorkingOn(j)
    BY <1>6, <1>j DEF WorkingOn
  <2> QED
    BY <2>1, <1>5, <1>6, <1>j, MovesOneThread
<1>8. ActiveLoop(j)'
  <2>1. ActiveLoop(j)
    BY <1>j DEF LoopInv, LoopsAreSerial
  <2>2. Claimed(j)' = Claimed(j)
    BY <1>1 DEF Claimed
  <2> QED
    BY <2>1, <2>2, <1>1, <1>3, <1>4, <1>7 DEF ActiveLoop
<1>9. LoopsAreSerial' /\ NestedRunsInline'
  BY <1>1, <1>3, <1>5, <1>7, <1>8, <1>j, OtherLoopsKept
<1>10. \A u \in Threads : pc[u] = "test" => chunk[u] \notin started[JobOf(u)]
  BY DEF LoopInv, ChunksAreClaimed, Working
<1>11. ChunksAreClaimed'
  BY <1>1, <1>3, <1>5, <1>6, <1>10, <1>j, ClaimsKept
<1> QED
  BY <1>1, <1>5, <1>9, <1>11 DEF LoopInv

\* A body threw: the loop is marked as failed (parallel_for.cc:83-88).
LEMMA MarkKeepsLoops ==
    ASSUME IInv, LoopInv, NEW t \in Threads, MarkFailed(t)
    PROVE  LoopInv' /\ Moves(t, "count") /\ pc[t] \notin Executing
<1>j. PICK j \in Submitters : j = JobOf(t) /\ pc[j] \in Published
  BY DrainerHasJob DEF MarkFailed, Draining, Working
<1>1. /\ pc[t] = "mark" /\ failed' = [failed EXCEPT ![j] = TRUE]
      /\ UNCHANGED <<tls_job_owner, held, chunks, next, done, error, chunk,
                     started, thrown>>
  BY <1>j DEF MarkFailed, pool, worker, history
<1>2. \A s \in Submitters \ {j} : failed'[s] = failed[s]
  BY <1>1 DEF IInv, TypeOK
<1>3. thrown[j] # {}
  BY <1>1, <1>j DEF LoopInv, ChunksAreClaimed, Working
<1>4. Moves(t, "count")
  BY <1>1 DEF MarkFailed, Moves, Goto, Draining, Working
<1>5. "count" \in Working /\ pc[t] \in Working /\ pc[t] \notin Executing
  BY <1>1 DEF Working, Executing
<1>6. /\ WorkingOn(j)' = WorkingOn(j)
      /\ \A u \in Threads : JobOf(u)' = JobOf(u)
      /\ \A u \in Threads \ {t} : pc'[u] = pc[u]
  <2>1. t \in WorkingOn(j)
    BY <1>5, <1>j DEF WorkingOn
  <2> QED
    BY <2>1, <1>4, <1>5, <1>j, MovesOneThread
<1>7. ActiveLoop(j)'
  <2>1. ActiveLoop(j)
    BY <1>j DEF LoopInv, LoopsAreSerial
  <2>2. Claimed(j)' = Claimed(j)
    BY <1>1 DEF Claimed
  <2> QED
    BY <2>1, <2>2, <1>1, <1>3, <1>6 DEF ActiveLoop
<1>8. LoopsAreSerial' /\ NestedRunsInline'
  BY <1>1, <1>2, <1>4, <1>6, <1>7, <1>j, OtherLoopsKept
<1>9. \A u \in Threads : pc[u] = "test" => chunk[u] \notin started[JobOf(u)]
  BY DEF LoopInv, ChunksAreClaimed, Working
<1>10. ChunksAreClaimed'
  BY <1>1, <1>4, <1>5, <1>9, ClaimsKept
<1> QED
  BY <1>4, <1>5, <1>8, <1>10 DEF LoopInv

\* A chunk leaves the hands of its thread in the step that counts it
\* (parallel_for.cc:86-88).
LEMMA CountKeepsLoops ==
    ASSUME IInv, LoopInv, NEW t \in Threads, Count(t)
    PROVE  LoopInv' /\ Moves(t, "claim") /\ pc[t] \notin Executing
<1>j. PICK j \in Submitters : j = JobOf(t) /\ pc[j] \in Published
  BY DrainerHasJob DEF Count, Draining, Working
<1>1. /\ pc[t] = "count" /\ done' = [done EXCEPT ![j] = @ + 1]
      /\ UNCHANGED <<tls_job_owner, held, chunks, next, failed, error, chunk,
                     started, thrown>>
  BY <1>j DEF Count, pool, worker, history
<1>2. done[j] \in Nat /\ done'[j] = done[j] + 1
      /\ \A s \in Submitters \ {j} : done'[s] = done[s]
  BY <1>1 DEF IInv, TypeOK
<1>3. Moves(t, "claim")
  BY <1>1 DEF Count, Moves, Goto, Draining, Working, Executing
<1>4. "claim" \notin Working /\ pc[t] \in Working /\ pc[t] \notin Executing
  BY <1>1 DEF Working, Executing
<1>5. /\ WorkingOn(j)' = WorkingOn(j) \ {t} /\ t \in WorkingOn(j)
      /\ \A u \in Threads : JobOf(u)' = JobOf(u)
      /\ \A u \in Threads \ {t} : pc'[u] = pc[u]
  <2>1. t \in WorkingOn(j)
    BY <1>4, <1>j DEF WorkingOn
  <2> QED
    BY <2>1, <1>3, <1>4, <1>j, MovesOneThread
<1>6. ActiveLoop(j)'
  <2>1. ActiveLoop(j)
    BY <1>j DEF LoopInv, LoopsAreSerial
  <2>2. Claimed(j)' = Claimed(j)
    BY <1>1 DEF Claimed
  <2>3. /\ Cardinality(WorkingOn(j)) \in Nat
        /\ Cardinality(WorkingOn(j) \ {t}) = Cardinality(WorkingOn(j)) - 1
    BY <1>5, FewWorkOn, FS_CardinalityType, FS_RemoveElement
  <2>4. done'[j] + Cardinality(WorkingOn(j)') =
            done[j] + Cardinality(WorkingOn(j))
    BY <2>3, <1>2, <1>5
  <2>5. \A u \in WorkingOn(j) : pc[u] = "test" => u \in WorkingOn(j)' /\ pc'[u] = "test"
    BY <1>1, <1>5 DEF WorkingOn
  <2> QED
    BY <2>1, <2>2, <2>4, <2>5, <1>1 DEF ActiveLoop
<1>7. LoopsAreSerial' /\ NestedRunsInline'
  BY <1>1, <1>2, <1>3, <1>5, <1>6, <1>j, OtherLoopsKept
<1>8. \A u \in Threads : pc[u] = "test" => chunk[u] \notin started[JobOf(u)]
  BY DEF LoopInv, ChunksAreClaimed, Working
<1>9. ChunksAreClaimed'
  BY <1>1, <1>3, <1>4, <1>8, ClaimsKept
<1> QED
  BY <1>3, <1>4, <1>7, <1>9 DEF LoopInv

\* A step that moves no working thread and writes no field of a Job keeps every
\* loop.
LEMMA QuietKeepsLoops ==
    ASSUME IInv, LoopInv,
           UNCHANGED <<chunks, next, done, failed, error, chunk, started, thrown>>,
           \A s \in Submitters :
             /\ \/ pc'[s] = pc[s]
                \/ pc[s] \in Published /\ pc'[s] \in Published
                \/ /\ pc[s] \notin Published
                   /\ pc'[s] \in {"idle", "stopping", "joining"}
             /\ pc'[s] \in InRun => s \in tls_job_owner',
           \A t \in Threads : pc[t] \in Working \/ pc'[t] \in Working =>
             pc'[t] = pc[t] /\ (t \in Workers => held'[t] = held[t])
    PROVE  LoopInv' /\ ExecutingChunks' = ExecutingChunks
<1>1. ASSUME NEW s \in Submitters
      PROVE  /\ pc'[s] \in {"submit", "publish"} => FreshLoop(s)'
             /\ pc'[s] \in Published => pc[s] \in Published
             /\ pc'[s] = "return" => EndedLoop(s)'
             /\ pc[s] \in Published => pc'[s] \in Published
             /\ chunks'[s] \in Nat
  <2>1. /\ pc[s] \in {"submit", "publish"} => FreshLoop(s)
        /\ pc[s] = "return" => EndedLoop(s)
    BY DEF LoopInv, LoopsAreSerial
  <2>2. FreshLoop(s)' <=> FreshLoop(s)
    BY DEF FreshLoop
  <2>3. EndedLoop(s)' <=> EndedLoop(s)
    BY DEF EndedLoop
  <2>4. chunks[s] \in Nat
    BY CountsAssumption DEF IInv, TypeOK
  <2>5. \A l \in Published : l \notin {"submit", "publish", "return", "idle",
                                       "stopping", "joining"}
    BY DEF Published, Draining, Working, Executing
  <2> QED
    BY <2>1, <2>2, <2>3, <2>4, <2>5
<1>2. ASSUME NEW t \in Threads, pc[t] \in Working
      PROVE  JobOf(t)' = JobOf(t)
  BY <1>2 DEF JobOf, Threads
<1> QED
  BY <1>1, <1>2, OutsideDrain

\* Making a call: an idle submitter gets a fresh Job or an inline loop.
LEMMA CallKeepsLoops ==
    ASSUME IInv, LoopInv, NEW s \in Submitters, ParallelForRaw(s)
    PROVE  LoopInv' /\ ExecutingChunks' = ExecutingChunks
<1>1. /\ pc \in [Threads -> SubmitterPc \cup WorkerPc]
      /\ chunks \in [Submitters -> 0..kMaxParallelChunks]
      /\ next \in [Submitters -> Nat] /\ done \in [Submitters -> Nat]
      /\ failed \in [Submitters -> BOOLEAN]
      /\ error \in [Submitters -> Chunk \cup {NoError}]
      /\ started \in [Submitters -> SUBSET Chunk]
      /\ thrown \in [Submitters -> SUBSET Chunk]
  BY DEF IInv, TypeOK
<1>2. PICK k \in 0..kMaxParallelChunks, label \in {"idle", "inline", "submit"} :
        pc' = [pc EXCEPT ![s] = label] /\ chunks' = [chunks EXCEPT ![s] = k]
  BY DEF ParallelForRaw, Goto
<1>3. /\ pc[s] = "idle" /\ chunk' = chunk /\ held' = held
      /\ tls_job_owner' = tls_job_owner
      /\ next' = [next EXCEPT ![s] = 0] /\ done' = [done EXCEPT ![s] = 0]
      /\ failed' = [failed EXCEPT ![s] = FALSE]
      /\ error' = [error EXCEPT ![s] = NoError]
      /\ started' = [started EXCEPT ![s] = {}]
      /\ thrown' = [thrown EXCEPT ![s] = {}]
  BY DEF ParallelForRaw, worker
<1>4. /\ pc'[s] = label /\ s \in Threads
      /\ \A t \in Threads \ {s} : pc'[t] = pc[t]
      /\ pc'[s] \notin InRun /\ pc[s] \notin Published
      /\ pc'[s] \notin Working /\ pc[s] \notin Working
  BY <1>1, <1>2, <1>3 DEF Threads, InRun, Published, Draining, Working, Executing
<1>5. FreshLoop(s)'
  BY <1>1, <1>3 DEF FreshLoop
<1>6. k \in Nat /\ \A r \in Submitters : chunks'[r] \in Nat
  BY <1>1, <1>2, CountsAssumption
<1>7. \A t \in Threads : JobOf(t)' = JobOf(t)
  BY <1>3 DEF JobOf
<1>8. ASSUME NEW r \in Submitters
      PROVE  /\ pc'[r] \in {"submit", "publish"} => FreshLoop(r)'
             /\ pc'[r] \in Published =>
                  /\ pc[r] \in Published
                  /\ chunks'[r] = chunks[r] /\ next'[r] = next[r]
                  /\ done'[r] = done[r] /\ failed'[r] = failed[r]
                  /\ error'[r] = error[r] /\ started'[r] = started[r]
                  /\ thrown'[r] = thrown[r]
             /\ pc'[r] = "return" => EndedLoop(r)'
             /\ pc'[r] \in InRun => r \in tls_job_owner'
             /\ pc[r] \in Published => pc'[r] \in Published
  <2>1. CASE r = s
    BY <2>1, <1>2, <1>4, <1>5 DEF InRun
  <2>2. CASE r # s
    <3>1. /\ chunks'[r] = chunks[r] /\ next'[r] = next[r]
          /\ done'[r] = done[r] /\ failed'[r] = failed[r]
          /\ error'[r] = error[r] /\ started'[r] = started[r]
          /\ thrown'[r] = thrown[r] /\ pc'[r] = pc[r]
      BY <2>2, <1>1, <1>2, <1>3, <1>4 DEF Threads
    <3> QED
      BY <3>1, <1>3
      DEF LoopInv, LoopsAreSerial, NestedRunsInline, FreshLoop, EndedLoop
  <2> QED
    BY <2>1, <2>2
<1> QED
  BY <1>3, <1>4, <1>6, <1>7, <1>8, OutsideDrain

\* The inline loop is of a submitter that has no Job.
LEMMA InlineKeepsLoops ==
    ASSUME IInv, LoopInv, NEW s \in Submitters, InlineLoop(s)
    PROVE  LoopInv' /\ ExecutingChunks' = ExecutingChunks
<1>1. /\ pc \in [Threads -> SubmitterPc \cup WorkerPc]
      /\ started \in [Submitters -> SUBSET Chunk]
      /\ thrown \in [Submitters -> SUBSET Chunk]
      /\ \A r \in Submitters : chunks[r] \in Nat
  BY CountsAssumption DEF IInv, TypeOK
<1>2. /\ pc[s] = "inline" /\ pc' = [pc EXCEPT ![s] = "idle"]
      /\ UNCHANGED <<chunk, held, tls_job_owner, chunks, next, done, failed, error>>
      /\ \A r \in Submitters \ {s} : started'[r] = started[r] /\ thrown'[r] = thrown[r]
  BY <1>1 DEF InlineLoop, Goto, pool, worker, fields
<1>3. /\ pc'[s] = "idle" /\ s \in Threads
      /\ \A t \in Threads \ {s} : pc'[t] = pc[t]
      /\ pc'[s] \notin InRun /\ pc'[s] \notin Published
      /\ pc[s] \notin Published /\ pc'[s] \notin Working /\ pc[s] \notin Working
  BY <1>1, <1>2 DEF Threads, InRun, Published, Draining, Working, Executing
<1>4. \A t \in Threads : JobOf(t)' = JobOf(t)
  BY <1>2 DEF JobOf
<1>5. ASSUME NEW r \in Submitters
      PROVE  /\ pc'[r] \in {"submit", "publish"} => FreshLoop(r)'
             /\ pc'[r] \in Published =>
                  pc[r] \in Published /\ started'[r] = started[r] /\ thrown'[r] = thrown[r]
             /\ pc'[r] = "return" => EndedLoop(r)'
             /\ pc'[r] \in InRun => r \in tls_job_owner'
             /\ pc[r] \in Published => pc'[r] \in Published
  <2>1. CASE r = s
    BY <2>1, <1>3
  <2>2. CASE r # s
    <3>1. started'[r] = started[r] /\ thrown'[r] = thrown[r] /\ pc'[r] = pc[r]
      BY <2>2, <1>2, <1>3 DEF Threads
    <3> QED
      BY <3>1, <1>2
      DEF LoopInv, LoopsAreSerial, NestedRunsInline, FreshLoop, EndedLoop
  <2> QED
    BY <2>1, <2>2
<1> QED
  BY <1>1, <1>2, <1>3, <1>4, <1>5, OutsideDrain

\* Taking the submission lock, and publishing the Job with new workers that have
\* none (parallel_for.cc:115-131).
LEMMA SubmissionKeepsLoops ==
    ASSUME IInv, LoopInv, NEW s \in Submitters, Submit(s) \/ Publish(s)
    PROVE  LoopInv' /\ ExecutingChunks' = ExecutingChunks
<1>1. /\ pc \in [Threads -> SubmitterPc \cup WorkerPc]
      /\ \A r \in Submitters : chunks[r] \in Nat
  BY CountsAssumption DEF IInv, TypeOK
<1>2. UNCHANGED <<chunk, held, chunks, next, done, failed, error, started, thrown>>
  BY DEF Submit, Publish, worker, fields, history
<1>3. /\ pc[s] \in {"submit", "publish"} /\ pc'[s] \in {"publish", "announce"}
      /\ \A r \in Submitters \ {s} : pc'[r] = pc[r]
      /\ \A w \in Workers : pc'[w] = pc[w] \/ (pc[w] = "none" /\ pc'[w] = "wake")
  <2>1. CASE Submit(s)
    BY <2>1, <1>1, ThreadsAssumption DEF Submit, Goto, Threads
  <2>2. CASE Publish(s)
    BY <2>2, <1>1, ThreadsAssumption
    DEF Publish, SpawnWorkersLocked, SpawnAndGoto, Threads, workers
  <2> QED
    BY <2>1, <2>2
<1>4. s \in tls_job_owner' /\ tls_job_owner \subseteq tls_job_owner'
  BY DEF Submit, Publish, LoopInv, NestedRunsInline, InRun
<1>5. FreshLoop(s) /\ (FreshLoop(s)' <=> FreshLoop(s))
  BY <1>2, <1>3 DEF LoopInv, LoopsAreSerial, FreshLoop
<1>6. /\ pc[s] \notin Published /\ pc[s] \notin Working /\ pc'[s] \notin Working
      /\ pc'[s] # "return"
      /\ "none" \notin Working /\ "wake" \notin Working
  BY <1>3 DEF Published, Draining, Working, Executing
<1>7. \A t \in Threads : /\ JobOf(t)' = JobOf(t)
                         /\ pc[t] \in Working \/ pc'[t] \in Working => pc'[t] = pc[t]
  BY <1>2, <1>3, <1>6 DEF JobOf, Threads
<1>8. ASSUME NEW r \in Submitters
      PROVE  /\ pc'[r] \in {"submit", "publish"} => FreshLoop(r)'
             /\ pc'[r] \in Published =>
                  \/ pc[r] \notin Published /\ FreshLoop(r)'
                  \/ pc[r] \in Published
             /\ pc'[r] = "return" => EndedLoop(r)'
             /\ pc'[r] \in InRun => r \in tls_job_owner'
             /\ pc[r] \in Published => pc'[r] \in Published
  <2>1. CASE r = s
    BY <2>1, <1>4, <1>5, <1>6
  <2>2. CASE r # s
    BY <2>2, <1>2, <1>3, <1>4
    DEF LoopInv, LoopsAreSerial, NestedRunsInline, FreshLoop, EndedLoop
  <2> QED
    BY <2>1, <2>2
<1> QED
  BY <1>1, <1>2, <1>7, <1>8, OutsideDrain

\* The predicate of the wait: when the chunks are done and nobody holds the Job,
\* every chunk was started, or a body threw (parallel_for.cc:138-147).
LEMMA RetireKeepsLoops ==
    ASSUME IInv, LoopInv, NEW s \in Submitters, Retire(s)
    PROVE  LoopInv' /\ ExecutingChunks' = ExecutingChunks
<1>1. /\ pc \in [Threads -> SubmitterPc \cup WorkerPc]
      /\ \A r \in Submitters : chunks[r] \in Nat
  BY CountsAssumption DEF IInv, TypeOK
<1>2. /\ pc[s] = "retire" /\ s \in Threads
      /\ UNCHANGED <<chunk, held, tls_job_owner, chunks, next, done, failed, error,
                     started, thrown>>
      /\ \A t \in Threads \ {s} : pc'[t] = pc[t]
      /\ pc'[s] = IF RetirePredicate(s) THEN "return" ELSE "block"
  BY <1>1 DEF Retire, Goto, worker, fields, history, Threads
<1>3. /\ pc[s] \in Published /\ pc[s] \in InRun /\ pc[s] \notin Working
      /\ pc'[s] \notin Working /\ pc'[s] \notin {"submit", "publish"}
      /\ "return" \notin Published /\ "block" \in Published
  BY <1>2 DEF InRun, Published, Draining, Working, Executing
<1>4. ActiveLoop(s)
  BY <1>3 DEF LoopInv, LoopsAreSerial
<1>5. ASSUME RetirePredicate(s)
      PROVE  WorkingOn(s) = {} /\ EndedLoop(s)
  <2>1. /\ done[s] = chunks[s] /\ done[s] \in Nat /\ next[s] \in Nat
        /\ IsFiniteSet(WorkingOn(s)) /\ Cardinality(WorkingOn(s)) \in Nat
    BY <1>5, FewWorkOn, FS_CardinalityType DEF RetirePredicate, IInv, TypeOK
  <2>2. /\ Cardinality(WorkingOn(s)) = 0 /\ next[s] >= chunks[s]
    BY <2>1, <1>4 DEF ActiveLoop, Claimed
  <2>3. WorkingOn(s) = {}
    BY <2>1, <2>2, FS_EmptySet
  <2>4. ASSUME thrown[s] = {} PROVE started[s] = 0..(chunks[s] - 1)
    <3>1. started[s] \subseteq Chunk /\ chunks[s] \in 0..kMaxParallelChunks
      BY DEF IInv, TypeOK
    <3>2. \A c \in started[s] : c < chunks[s]
      BY <1>4 DEF ActiveLoop
    <3>3. \A c \in Chunk : c < chunks[s] => c \in started[s]
      BY <2>1, <2>2, <2>3, <2>4, <1>4 DEF ActiveLoop, Chunk
    <3>4. \A c \in Chunk : c \in Nat
      BY DEF Chunk
    <3>5. 0..(chunks[s] - 1) \subseteq Chunk
      BY <3>1, FirstChunks
    <3>6. started[s] \subseteq 0..(chunks[s] - 1)
      BY <3>1, <3>2, <3>4, CountsAssumption
    <3>7. 0..(chunks[s] - 1) \subseteq started[s]
      BY <3>1, <3>3, <3>5, CountsAssumption
    <3> QED
      BY <3>6, <3>7
  <2> QED
    BY <2>3, <2>4, <1>4 DEF EndedLoop, ActiveLoop
<1>6. \A t \in Threads : /\ JobOf(t)' = JobOf(t)
                         /\ pc[t] \in Working \/ pc'[t] \in Working => pc'[t] = pc[t]
  BY <1>2, <1>3 DEF JobOf
<1>7. ASSUME NEW r \in Submitters
      PROVE  /\ pc'[r] \in {"submit", "publish"} => FreshLoop(r)'
             /\ pc'[r] \in Published => pc[r] \in Published
             /\ pc'[r] = "return" => EndedLoop(r)'
             /\ pc'[r] \in InRun => r \in tls_job_owner'
             /\ pc[r] \in Published /\ pc'[r] \notin Published => WorkingOn(r) = {}
  <2>1. CASE r = s
    <3>1. EndedLoop(s)' <=> EndedLoop(s)
      BY <1>2 DEF EndedLoop
    <3>2. s \in tls_job_owner'
      BY <1>2, <1>3 DEF LoopInv, NestedRunsInline
    <3> QED
      BY <2>1, <3>1, <3>2, <1>2, <1>3, <1>5
  <2>2. CASE r # s
    BY <2>2, <1>2
    DEF LoopInv, LoopsAreSerial, NestedRunsInline, FreshLoop, EndedLoop, Threads
  <2> QED
    BY <2>1, <2>2
<1> QED
  BY <1>1, <1>2, <1>6, <1>7, OutsideDrain

\* The steps of a call outside the drain and of SetThreadCount: none gives a
\* submitter a Job or takes one from a worker that has a chunk.
LEMMA CallerKeepsLoops ==
    ASSUME IInv, LoopInv, NEW s \in Submitters,
           \/ PublishThrows(s) \/ Announce(s) \/ Block(s) \/ Return(s)
           \/ NotifyStop(s) \/ Join(s) \/ SetThreadCount(s)
    PROVE  LoopInv' /\ ExecutingChunks' = ExecutingChunks
<1>1. /\ pc \in [Threads -> SubmitterPc \cup WorkerPc]
      /\ s \in Threads /\ s \notin Workers /\ \A r \in Submitters : r \notin Workers
      /\ Threads = Submitters \cup Workers
  BY ThreadsAssumption DEF IInv, TypeOK, Threads
<1>2. UNCHANGED <<chunks, next, done, failed, error, chunk, started, thrown, held>>
  BY DEF PublishThrows, Announce, Block, Return, NotifyStop, Join, SetThreadCount,
         worker, fields, history
<1>3. \/ pc[s] \in Published /\ pc'[s] \in Published \ Working /\ pc[s] \notin Working
      \/ /\ pc[s] \notin Published /\ pc'[s] \in {"idle", "stopping", "joining"}
         /\ pc[s] \notin Working /\ pc'[s] \notin Working \cup InRun
  BY <1>1
  DEF PublishThrows, Announce, Block, Return, NotifyStop, Join, SetThreadCount,
      NotifyAll, SpawnAndGoto, Goto, InRun, Published, Draining, Working, Executing
<1>4. \A r \in Submitters \ {s} : pc'[r] = pc[r]
  BY <1>1
  DEF PublishThrows, Announce, Block, Return, NotifyStop, Join, SetThreadCount,
      NotifyAll, SpawnAndGoto, SpawnWorkersLocked, Goto
<1>5. \A w \in Workers :
        pc'[w] = pc[w] \/ (pc[w] \notin Working /\ pc'[w] \notin Working)
  BY <1>1
  DEF PublishThrows, Announce, Block, Return, NotifyStop, Join, SetThreadCount,
      NotifyAll, SpawnAndGoto, SpawnWorkersLocked, workers, Goto, Working, Executing
<1>6. tls_job_owner \ {s} \subseteq tls_job_owner'
      /\ (pc[s] \in Published => tls_job_owner' = tls_job_owner)
  BY DEF PublishThrows, Announce, Block, Return, NotifyStop, Join, SetThreadCount,
         pool, Published, Draining, Working, Executing
<1>7. \A r \in Submitters :
        /\ \/ pc'[r] = pc[r]
           \/ pc[r] \in Published /\ pc'[r] \in Published
           \/ pc[r] \notin Published /\ pc'[r] \in {"idle", "stopping", "joining"}
        /\ pc'[r] \in InRun => r \in tls_job_owner'
  BY <1>3, <1>4, <1>6 DEF LoopInv, NestedRunsInline, InRun
<1>8. \A t \in Threads : pc[t] \in Working \/ pc'[t] \in Working =>
        pc'[t] = pc[t] /\ (t \in Workers => held'[t] = held[t])
  BY <1>1, <1>2, <1>3, <1>4, <1>5
<1> QED
  BY <1>2, <1>7, <1>8, QuietKeepsLoops

\* The steps of a worker outside the drain, and a wake-up: the worker has no
\* chunk, and the submitter that wakes goes on waiting for its own loop.
LEMMA WorkerKeepsLoops ==
    ASSUME IInv, LoopInv,
           \/ \E w \in Workers : WorkerLoop(w)
           \/ \E t \in Threads : SpuriousWake(t)
    PROVE  /\ LoopInv' /\ ExecutingChunks' = ExecutingChunks
           /\ \A s \in Submitters : pc'[s] = pc[s] \/
                (pc[s] \in Published /\ pc'[s] \in Published)
<1>1. /\ pc \in [Threads -> SubmitterPc \cup WorkerPc]
      /\ held \in [Workers -> Submitters \cup {NoJob}]
      /\ \A r \in Submitters : r \notin Workers /\ pc[r] \in SubmitterPc
      /\ \A w \in Workers : pc[w] \in WorkerPc
      /\ Threads = Submitters \cup Workers
  BY ThreadsAssumption DEF IInv, TypeOK, Threads
<1>2. UNCHANGED <<chunks, next, done, failed, error, chunk, started, thrown,
                  tls_job_owner>>
  BY DEF WorkerLoop, Park, Exit, Register, Detach, Signal, NotifyOne, SpuriousWake,
         pool, worker, fields, history
<1>3. \A s \in Submitters : pc'[s] = pc[s] \/
        (pc[s] = "waiting" /\ pc'[s] = "retire")
  <2>1. CASE \E w \in Workers : WorkerLoop(w)
    BY <2>1, <1>1
    DEF WorkerLoop, Park, Exit, Register, Detach, Signal, NotifyOne, Goto
  <2>2. CASE \E t \in Threads : SpuriousWake(t)
    BY <2>2, <1>1
    DEF SpuriousWake, Goto, SubmitterPc, InRun, Published, Draining, Working, Executing
  <2> QED
    BY <2>1, <2>2
<1>4. \A w \in Workers :
        \/ pc'[w] = pc[w] /\ held'[w] = held[w]
        \/ pc[w] \notin Working /\ pc'[w] \notin Working
  <2>1. CASE \E w \in Workers : WorkerLoop(w)
    BY <2>1, <1>1
    DEF WorkerLoop, Park, Exit, Register, Detach, Signal, NotifyOne, Goto, worker,
        Working, Executing
  <2>2. CASE \E t \in Threads : SpuriousWake(t)
    BY <2>2, <1>1 DEF SpuriousWake, Goto, worker, Working, Executing
  <2> QED
    BY <2>1, <2>2
<1>5. /\ {"waiting", "retire"} \subseteq Published
      /\ {"waiting", "retire"} \cap Working = {}
  BY DEF Published, Draining, Working, Executing
<1>6. \A r \in Submitters :
        /\ pc'[r] = pc[r] \/ (pc[r] \in Published /\ pc'[r] \in Published)
        /\ pc'[r] \in InRun => r \in tls_job_owner'
  BY <1>2, <1>3, <1>5 DEF LoopInv, NestedRunsInline, InRun
<1>7. \A t \in Threads : pc[t] \in Working \/ pc'[t] \in Working =>
        pc'[t] = pc[t] /\ (t \in Workers => held'[t] = held[t])
  BY <1>1, <1>3, <1>4, <1>5
<1> QED
  BY <1>2, <1>6, <1>7, QuietKeepsLoops

\* Every step of submitters and workers keeps the loops (parallel_for.cc:67-217).
LEMMA LoopStep == IInv /\ LoopInv /\ [Next]_vars => LoopInv'
<1> SUFFICES ASSUME IInv, LoopInv, [Next]_vars PROVE LoopInv'
  OBVIOUS
<1>1. ASSUME NEW s \in Submitters, ParallelForRaw(s) \/ SetThreadCount(s) \/ Run(s)
      PROVE  LoopInv'
  BY <1>1, CallKeepsLoops, InlineKeepsLoops, SubmissionKeepsLoops,
     RetireKeepsLoops, CallerKeepsLoops DEF Run
<1>2. ASSUME NEW t \in Threads, DrainJob(t) PROVE LoopInv'
  BY <1>2, ClaimKeepsLoops, TestKeepsLoops, BodyKeepsLoops, ThrowKeepsLoops,
     MarkKeepsLoops, CountKeepsLoops DEF DrainJob
<1>3. ASSUME \/ \E w \in Workers : WorkerLoop(w)
             \/ \E t \in Threads : SpuriousWake(t)
      PROVE  LoopInv'
  BY <1>3, WorkerKeepsLoops
<1>4. CASE UNCHANGED vars
  <2>1. UNCHANGED <<pc, held, tls_job_owner, chunks, next, done, failed, error, chunk,
                    started, thrown>>
    BY <1>4 DEF vars, pool, worker, fields, history
  <2>2. \A s \in Submitters : pc[s] \in InRun => s \in tls_job_owner
    BY DEF LoopInv, NestedRunsInline
  <2> QED
    BY <2>1, <2>2, QuietKeepsLoops
<1> QED
  BY <1>1, <1>2, <1>3, <1>4 DEF Next

\* In every reachable state each published loop accounts for its chunks, and a
\* chunk belongs to one thread (parallel_for.cc:67-147).
THEOREM LoopInvariant == Spec => []LoopInv
<1>1. Init => LoopInv
  BY ThreadsAssumption
  DEF Init, LoopInv, LoopsAreSerial, ChunksAreClaimed, NestedRunsInline, Threads,
      InRun, Published, Draining, Working, Executing
<1>2. IInv /\ LoopInv /\ [Next]_vars => LoopInv'
  BY LoopStep
<1> QED
  BY <1>1, <1>2, InductiveInvariant, PTL DEF Spec

\* Every claimed chunk is in one thread's hands or counted in done, whatever
\* threw (parallel_for.cc:67-90).
THEOREM ChunksAreCounted == Spec => []ClaimsAreCounted
<1>1. LoopInv => ClaimsAreCounted
  BY DEF LoopInv, LoopsAreSerial, ActiveLoop, Claimed, ClaimsAreCounted
<1> QED
  BY <1>1, LoopInvariant, PTL

\* No thread queues for the lock that its own loop holds: the pool cannot
\* deadlock on a nested call (parallel_for.cc:245-250).
THEOREM NestedCallsNeverQueue == Spec => [](\A t \in Threads : pc[t] # "blocked")
<1>1. LoopInv => \A t \in Threads : pc[t] # "blocked"
  BY DEF LoopInv, NestedRunsInline
<1> QED
  BY <1>1, LoopInvariant, PTL

-----------------------------------------------------------------------------
(* The refinement: seen by its callers, the pool is SerialLoops. *)

\* What the caller of s sees of its program counter.
LEMMA LoopSeen ==
    ASSUME NEW s \in Submitters
    PROVE  /\ pc[s] \in {"idle", "stopping", "joining"} <=> LoopState[s] = "idle"
           /\ pc[s] = "inline" <=> LoopState[s] = "inline"
           /\ pc[s] = "submit" <=> LoopState[s] = "queued"
           /\ pc[s] \in InRun => LoopState[s] = "running"
BY DEF LoopState, InRun, Published, Draining, Working, Executing

\* A step that moves only s between the states its caller can tell apart.
LEMMA LoopTurns ==
    ASSUME NEW s \in Submitters, NEW l, LoopState'[s] = l,
           \A r \in Submitters \ {s} : pc'[r] = pc[r]
    PROVE  LoopState' = [LoopState EXCEPT ![s] = l]
<1>1. \A r \in Submitters \ {s} : LoopState'[r] = LoopState[r]
  BY DEF LoopState
<1> QED
  BY <1>1 DEF LoopState

\* A step that no caller can see.
LEMMA Unseen ==
    ASSUME UNCHANGED <<chunks, started, thrown, outcome, submit_mutex>>,
           ExecutingChunks' = ExecutingChunks,
           \A s \in Submitters :
             \/ pc'[s] = pc[s]
             \/ pc[s] \in InRun /\ pc'[s] \in InRun
             \/ /\ pc[s] \in {"idle", "stopping", "joining"}
                /\ pc'[s] \in {"idle", "stopping", "joining"}
    PROVE  UNCHANGED Promise!avars
<1>1. \A s \in Submitters : LoopState'[s] = LoopState[s]
  BY DEF LoopState, InRun, Published, Draining, Working, Executing
<1>2. LoopState' = LoopState
  BY <1>1 DEF LoopState
<1> QED
  BY <1>2 DEF Promise!avars

\* A step inside Run() is not seen in the state of any loop.
LEMMA DrainRunning ==
    ASSUME \A s \in Submitters :
             pc'[s] = pc[s] \/ (pc[s] \in InRun /\ pc'[s] \in InRun)
    PROVE  LoopState' = LoopState
<1>1. \A s \in Submitters : LoopState'[s] = LoopState[s]
  BY DEF LoopState, InRun, Published, Draining, Working, Executing
<1> QED
  BY <1>1 DEF LoopState

\* Making a call and running it inline (parallel_for.cc:240-258).
LEMMA CallIsSeen ==
    ASSUME IInv, LoopInv, NEW s \in Submitters, ParallelForRaw(s)
    PROVE  Promise!Call(s)
<1>1. /\ pc \in [Threads -> SubmitterPc \cup WorkerPc] /\ s \in Threads
      /\ \A r \in Submitters : r \in Threads
  BY DEF IInv, TypeOK, Threads
<1>2. PICK k \in 0..kMaxParallelChunks, label \in {"idle", "inline", "submit"} :
        /\ pc' = [pc EXCEPT ![s] = label] /\ chunks' = [chunks EXCEPT ![s] = k]
        /\ k = 0 <=> label = "idle"
  <2>1. PICK k \in 0..kMaxParallelChunks :
          /\ pc' = [pc EXCEPT ![s] = CASE k = 0 -> "idle"
                                       [] k = 1 \/ (k > 1 /\ RunsInline(s)) -> "inline"
                                       [] OTHER -> "submit"]
          /\ chunks' = [chunks EXCEPT ![s] = k]
    BY DEF ParallelForRaw, Goto
  <2> DEFINE label == CASE k = 0 -> "idle"
                        [] k = 1 \/ (k > 1 /\ RunsInline(s)) -> "inline"
                        [] OTHER -> "submit"
  <2>2. label \in {"idle", "inline", "submit"} /\ (k = 0 <=> label = "idle")
    OBVIOUS
  <2>3. pc' = [pc EXCEPT ![s] = label]
    BY <2>1
  <2> HIDE DEF label
  <2> QED
    BY <2>1, <2>2, <2>3
<1>3. /\ pc[s] = "idle"
      /\ started' = [started EXCEPT ![s] = {}]
      /\ thrown' = [thrown EXCEPT ![s] = {}]
      /\ outcome' = [outcome EXCEPT ![s] = "none"]
      /\ submit_mutex' = submit_mutex
  BY DEF ParallelForRaw
<1>4. ExecutingChunks' = ExecutingChunks
  BY CallKeepsLoops
<1>5. PICK l \in {"idle", "inline", "queued"} :
        LoopState'[s] = l /\ (l = "idle" <=> label = "idle")
  BY <1>1, <1>2 DEF LoopState
<1>6. LoopState' = [LoopState EXCEPT ![s] = l]
  BY <1>1, <1>2, <1>5, LoopTurns
<1>7. LoopState[s] = "idle"
  BY <1>3, LoopSeen
<1> HIDE DEF LoopState, ExecutingChunks
<1> QED
  BY <1>2, <1>3, <1>4, <1>5, <1>6, <1>7 DEF Promise!Call

\* A loop run inline is one step of the loops that the callers see.
LEMMA InlineIsSeen ==
    ASSUME IInv, LoopInv, NEW s \in Submitters, InlineLoop(s)
    PROVE  Promise!Inline(s)
<1>1. /\ pc \in [Threads -> SubmitterPc \cup WorkerPc] /\ s \in Threads
      /\ \A r \in Submitters : r \in Threads
  BY DEF IInv, TypeOK, Threads
<1>2. /\ pc[s] = "inline" /\ pc' = [pc EXCEPT ![s] = "idle"]
      /\ chunks' = chunks /\ submit_mutex' = submit_mutex
  BY DEF InlineLoop, Goto, fields, pool
<1>3. \/ /\ started' = [started EXCEPT ![s] = 0..(chunks[s] - 1)]
         /\ outcome' = [outcome EXCEPT ![s] = "returned"]
         /\ thrown' = thrown
      \/ \E c \in Faulty \cap 0..(chunks[s] - 1) :
            /\ started' = [started EXCEPT ![s] = 0..c]
            /\ thrown' = [thrown EXCEPT ![s] = {c}]
            /\ outcome' = [outcome EXCEPT ![s] = "rethrown"]
  BY DEF InlineLoop
<1>4. ExecutingChunks' = ExecutingChunks
  BY InlineKeepsLoops
<1>5. LoopState' = [LoopState EXCEPT ![s] = "idle"]
  <2>1. LoopState'[s] = "idle"
    BY <1>1, <1>2 DEF LoopState
  <2> QED
    BY <2>1, <1>1, <1>2, LoopTurns
<1>6. LoopState[s] = "inline"
  BY <1>2, LoopSeen
<1> HIDE DEF LoopState, ExecutingChunks
<1> QED
  BY <1>2, <1>3, <1>4, <1>5, <1>6 DEF Promise!Inline, Promise!Indices

\* Taking the submission lock starts the loop, and failing to create the workers
\* gives it up before any body is entered (parallel_for.cc:115-131).
LEMMA SubmissionIsSeen ==
    ASSUME IInv, LoopInv, NEW s \in Submitters
    PROVE  /\ Submit(s) => Promise!Start(s)
           /\ PublishThrows(s) => Promise!GiveUp(s)
<1>1. /\ pc \in [Threads -> SubmitterPc \cup WorkerPc] /\ s \in Threads
      /\ \A r \in Submitters : r \in Threads /\ r \notin Workers
  BY ThreadsAssumption DEF IInv, TypeOK, Threads
<1>2. ASSUME Submit(s) PROVE Promise!Start(s)
  <2>1. /\ pc[s] = "submit" /\ submit_mutex = NoThread /\ submit_mutex' = s
        /\ pc' = [pc EXCEPT ![s] = "publish"]
        /\ UNCHANGED <<chunks, started, thrown, outcome>>
    BY <1>2 DEF Submit, Goto, fields, history
  <2>2. ExecutingChunks' = ExecutingChunks
    BY <1>2, SubmissionKeepsLoops
  <2>3. LoopState' = [LoopState EXCEPT ![s] = "running"]
    <3>1. LoopState'[s] = "running"
      BY <1>1, <2>1 DEF LoopState
    <3> QED
      BY <3>1, <1>1, <2>1, LoopTurns
  <2>4. LoopState[s] = "queued"
    BY <2>1, LoopSeen
  <2> HIDE DEF LoopState, ExecutingChunks
  <2> QED
    BY <2>1, <2>2, <2>3, <2>4 DEF Promise!Start
<1>3. ASSUME PublishThrows(s) PROVE Promise!GiveUp(s)
  <2>1. /\ pc[s] = "publish" /\ submit_mutex' = NoThread /\ pc'[s] = "idle"
        /\ outcome' = [outcome EXCEPT ![s] = "failed"]
        /\ \A r \in Submitters \ {s} : pc'[r] = pc[r]
        /\ UNCHANGED <<chunks, started, thrown>>
    BY <1>1, <1>3 DEF PublishThrows, SpawnWorkersLocked, SpawnAndGoto, fields
  <2>2. ExecutingChunks' = ExecutingChunks
    BY <1>3, CallerKeepsLoops
  <2>3. LoopState' = [LoopState EXCEPT ![s] = "idle"]
    <3>1. LoopState'[s] = "idle"
      BY <2>1 DEF LoopState
    <3> QED
      BY <3>1, <2>1, LoopTurns
  <2>4. LoopState[s] = "running" /\ started[s] = {}
    BY <2>1, LoopSeen DEF InRun, LoopInv, LoopsAreSerial, FreshLoop
  <2> HIDE DEF LoopState, ExecutingChunks
  <2> QED
    BY <2>1, <2>2, <2>3, <2>4 DEF Promise!GiveUp
<1> QED
  BY <1>2, <1>3

\* The return or rethrow ends the loop: no body runs, and every chunk ran or one
\* threw (parallel_for.cc:138-149).
LEMMA ReturnIsSeen ==
    ASSUME IInv, LoopInv, NEW s \in Submitters, Return(s)
    PROVE  Promise!Finish(s)
<1>1. /\ pc \in [Threads -> SubmitterPc \cup WorkerPc] /\ s \in Threads
      /\ \A r \in Submitters : r \in Threads
  BY DEF IInv, TypeOK, Threads
<1>2. /\ pc[s] = "return" /\ submit_mutex' = NoThread
      /\ pc' = [pc EXCEPT ![s] = "idle"]
      /\ outcome' = [outcome EXCEPT
                       ![s] = IF error[s] = NoError THEN "returned" ELSE "rethrown"]
      /\ UNCHANGED <<chunks, started, thrown>>
  BY DEF Return, Goto, fields
<1>3. ExecutingChunks' = ExecutingChunks
  BY CallerKeepsLoops
<1>4. LoopState' = [LoopState EXCEPT ![s] = "idle"]
  <2>1. LoopState'[s] = "idle"
    BY <1>1, <1>2 DEF LoopState
  <2> QED
    BY <2>1, <1>1, <1>2, LoopTurns
<1>5. LoopState[s] = "running"
  BY <1>2, LoopSeen DEF InRun
<1>6. ExecutingChunks[s] = {}
  <2>1. WorkingOn(s) = {}
    BY <1>2, UnpublishedIsQuiet DEF Published, Draining, Working, Executing
  <2> QED
    BY <2>1 DEF ExecutingChunks
<1>7. EndedLoop(s)
  BY <1>2 DEF LoopInv, LoopsAreSerial
<1> HIDE DEF LoopState, ExecutingChunks
<1> QED
  BY <1>2, <1>3, <1>4, <1>5, <1>6, <1>7 DEF EndedLoop, Promise!Finish, Promise!Indices

\* The drain begins and ends one body at a time, on behalf of the Job's caller;
\* claiming, skipping, marking and counting are not seen (parallel_for.cc:67-90).
LEMMA DrainIsSeen ==
    ASSUME IInv, LoopInv, NEW t \in Threads, DrainJob(t)
    PROVE  (\E s \in Submitters : Promise!Begin(s) \/ Promise!End(s))
             \/ UNCHANGED Promise!avars
<1>1. ASSUME NEW label, Moves(t, label)
      PROVE  \A s \in Submitters :
               pc'[s] = pc[s] \/ (pc[s] \in InRun /\ pc'[s] \in InRun)
  BY <1>1, MovesOneThread DEF InRun
<1>2. ASSUME NEW label, Moves(t, label) PROVE LoopState' = LoopState
  BY <1>1, <1>2, DrainRunning
<1>j. PICK j \in Submitters : j = JobOf(t) /\ LoopState[j] = "running"
  <2>1. pc[t] \in Draining
    BY DEF DrainJob, Claim, Test, NestedCall, BodyReturns, BodyThrows, MarkFailed,
           Count, Draining, Working, Executing
  <2> QED
    BY <2>1, DrainerHasJob, LoopSeen DEF InRun
<1>3. CASE Claim(t)
  <2>1. /\ ExecutingChunks' = ExecutingChunks /\ \E label : Moves(t, label)
        /\ UNCHANGED <<chunks, started, thrown, outcome, submit_mutex>>
    BY <1>3, ClaimKeepsLoops DEF Claim, pool, history
  <2> QED
    BY <2>1, <1>1, Unseen
<1>4. CASE Test(t)
  <2>1. UNCHANGED <<chunks, thrown, outcome, submit_mutex, chunk>>
    BY <1>4 DEF Test, pool, fields
  <2>2. CASE Moves(t, "count") /\ UNCHANGED started
    <3>1. ExecutingChunks' = ExecutingChunks
      BY <1>4, <2>1, <2>2, ExecutionMoves DEF Test, Executing
    <3> QED
      BY <3>1, <2>1, <2>2, <1>1, Unseen
  <2>3. CASE /\ Moves(t, "body")
             /\ chunk[t] \in 0..(chunks[j] - 1)
             /\ chunk[t] \notin started[j]
             /\ started' = [started EXCEPT ![j] = @ \cup {chunk[t]}]
    <3>1. ExecutingChunks' = [ExecutingChunks EXCEPT ![j] = @ \cup {chunk[t]}]
      BY <1>4, <1>j, <2>1, <2>3, ExecutionMoves DEF Test, Executing
    <3>2. LoopState' = LoopState
      BY <1>2, <2>3
    <3> HIDE DEF LoopState, ExecutingChunks
    <3>3. Promise!Begin(j)
      BY <3>1, <3>2, <2>1, <2>3, <1>j DEF Promise!Begin, Promise!Indices
    <3> QED
      BY <3>3
  <2> QED
    BY <2>2, <2>3, <1>4, <1>j, TestKeepsLoops
<1>5. CASE NestedCall(t)
  <2>1. UNCHANGED <<chunks, started, thrown, outcome, submit_mutex, chunk>>
    BY <1>5 DEF NestedCall, pool, fields, history
  <2>2. Moves(t, "nested") /\ pc[t] \in Executing
    BY <1>5, BodyKeepsLoops
  <2>3. ExecutingChunks' = ExecutingChunks
    BY <2>1, <2>2, ExecutionMoves DEF Executing
  <2> QED
    BY <2>1, <2>2, <2>3, <1>1, Unseen
<1>6. ASSUME NEW label, Moves(t, label), pc[t] \in Executing, label \notin Executing,
             UNCHANGED <<chunks, started, outcome, submit_mutex, chunk>>,
             \/ thrown' = thrown
             \/ /\ chunk[t] \in Faulty
                /\ thrown' = [thrown EXCEPT ![j] = @ \cup {chunk[t]}]
      PROVE  Promise!End(j)
  <2>1. /\ chunk[t] \in ExecutingChunks[j]
        /\ ExecutingChunks' = [ExecutingChunks EXCEPT ![j] = @ \ {chunk[t]}]
    BY <1>6, <1>j, ExecutionMoves
  <2>2. LoopState' = LoopState
    BY <1>2, <1>6
  <2> HIDE DEF LoopState, ExecutingChunks
  <2> QED
    BY <2>1, <2>2, <1>6 DEF Promise!End
<1>7. CASE BodyReturns(t)
  <2>1. Moves(t, "count") /\ pc[t] \in Executing /\ "count" \notin Executing
    BY <1>7, BodyKeepsLoops DEF Executing
  <2>2. UNCHANGED <<chunks, started, thrown, outcome, submit_mutex, chunk>>
    BY <1>7 DEF BodyReturns, pool, fields, history
  <2>3. Promise!End(j)
    BY <2>1, <2>2, <1>6
  <2> QED
    BY <2>3
<1>8. CASE BodyThrows(t)
  <2>1. Moves(t, "mark") /\ pc[t] \in Executing /\ "mark" \notin Executing
    BY <1>8, ThrowKeepsLoops DEF Executing
  <2>2. /\ UNCHANGED <<chunks, started, outcome, submit_mutex, chunk>>
        /\ chunk[t] \in Faulty
        /\ thrown' = [thrown EXCEPT ![j] = @ \cup {chunk[t]}]
    BY <1>8, <1>j DEF BodyThrows, pool
  <2>3. Promise!End(j)
    BY <2>1, <2>2, <1>6
  <2> QED
    BY <2>3
<1>9. CASE MarkFailed(t) \/ Count(t)
  <2>1. PICK label \in {"count", "claim"} : Moves(t, label)
    BY <1>9, MarkKeepsLoops, CountKeepsLoops
  <2>2. /\ UNCHANGED <<chunks, started, thrown, outcome, submit_mutex, chunk>>
        /\ pc[t] \notin Executing
    BY <1>9 DEF MarkFailed, Count, pool, history, Executing
  <2>3. ExecutingChunks' = ExecutingChunks
    BY <2>1, <2>2, ExecutionMoves DEF Executing
  <2> QED
    BY <2>1, <2>2, <2>3, <1>1, Unseen
<1> QED
  BY <1>3, <1>4, <1>5, <1>7, <1>8, <1>9 DEF DrainJob

\* Every step of the pool is a step of serial loops, or not seen.
LEMMA PoolStepIsSeen ==
    IInv /\ LoopInv /\ [Next]_vars => [Promise!Next]_(Promise!avars)
<1> SUFFICES ASSUME IInv, LoopInv, [Next]_vars
             PROVE  Promise!Next \/ UNCHANGED Promise!avars
  OBVIOUS
<1>1. ASSUME NEW s \in Submitters, ParallelForRaw(s) PROVE Promise!Next
  BY <1>1, CallIsSeen DEF Promise!Next
<1>2. ASSUME NEW s \in Submitters, InlineLoop(s) PROVE Promise!Next
  BY <1>2, InlineIsSeen DEF Promise!Next
<1>3. ASSUME NEW s \in Submitters, Submit(s) \/ PublishThrows(s) PROVE Promise!Next
  BY <1>3, SubmissionIsSeen DEF Promise!Next
<1>4. ASSUME NEW s \in Submitters, Return(s) PROVE Promise!Next
  BY <1>4, ReturnIsSeen DEF Promise!Next
<1>5. ASSUME NEW s \in Submitters,
             \/ Publish(s) \/ Announce(s) \/ Retire(s) \/ Block(s)
             \/ NotifyStop(s) \/ Join(s) \/ SetThreadCount(s)
      PROVE  UNCHANGED Promise!avars
  <2>1. UNCHANGED <<chunks, started, thrown, outcome, submit_mutex>>
    BY <1>5 DEF Publish, Announce, Retire, Block, NotifyStop, Join, SetThreadCount,
                pool, fields, history
  <2>2. ExecutingChunks' = ExecutingChunks
    BY <1>5, SubmissionKeepsLoops, RetireKeepsLoops, CallerKeepsLoops
  <2>3. /\ pc \in [Threads -> SubmitterPc \cup WorkerPc] /\ s \in Threads
        /\ \A r \in Submitters : r \in Threads /\ r \notin Workers
    BY ThreadsAssumption DEF IInv, TypeOK, Threads
  <2>4. \A r \in Submitters \ {s} : pc'[r] = pc[r]
    BY <1>5, <2>3
    DEF Publish, Announce, Retire, Block, NotifyStop, Join, SetThreadCount, Goto,
        NotifyAll, SpawnAndGoto, SpawnWorkersLocked
  <2>5. \/ pc'[s] = pc[s]
        \/ pc[s] \in InRun /\ pc'[s] \in InRun
        \/ /\ pc[s] \in {"idle", "stopping", "joining"}
           /\ pc'[s] \in {"idle", "stopping", "joining"}
    BY <1>5, <2>3
    DEF Publish, Announce, Retire, Block, NotifyStop, Join, SetThreadCount, Goto,
        NotifyAll, SpawnAndGoto, InRun, Published, Draining
  <2> QED
    BY <2>1, <2>2, <2>4, <2>5, Unseen
<1>6. ASSUME NEW t \in Threads, DrainJob(t)
      PROVE  Promise!Next \/ UNCHANGED Promise!avars
  BY <1>6, DrainIsSeen DEF Promise!Next
<1>7. ASSUME \/ \E w \in Workers : WorkerLoop(w)
             \/ \E t \in Threads : SpuriousWake(t)
      PROVE  UNCHANGED Promise!avars
  <2>1. UNCHANGED <<chunks, started, thrown, outcome, submit_mutex>>
    BY <1>7 DEF WorkerLoop, Park, Exit, Register, Detach, Signal, NotifyOne,
                SpuriousWake, pool, fields, history
  <2> QED
    BY <2>1, <1>7, WorkerKeepsLoops, Unseen DEF InRun
<1>8. CASE UNCHANGED vars
  <2>1. ExecutingChunks' = ExecutingChunks
    BY <1>8 DEF ExecutingChunks, WorkingOn, JobOf, vars, worker
  <2>2. UNCHANGED <<pc, chunks, started, thrown, outcome, submit_mutex>>
    BY <1>8 DEF vars, pool, fields, history
  <2> QED
    BY <2>1, <2>2, Unseen
<1> QED
  BY <1>1, <1>2, <1>3, <1>4, <1>5, <1>6, <1>7, <1>8 DEF Next, Run

\* Seen by its callers, the pool runs loops one at a time, enters a body at most
\* once, and returns or rethrows only when no body runs (parallel_for.h:87-92).
THEOREM PoolIsSerial == Spec => ImplementsSerialLoops
<1>1. Init => Promise!Init
  <2> SUFFICES ASSUME Init PROVE Promise!Init
    OBVIOUS
  <2>1. LoopState = [s \in Submitters |-> "idle"]
    BY DEF Init, LoopState, Threads
  <2>2. \A s \in Submitters : WorkingOn(s) = {}
    BY DEF Init, WorkingOn, Working, Executing
  <2>3. ExecutingChunks = [s \in Submitters |-> {}]
    BY <2>2 DEF ExecutingChunks
  <2> HIDE DEF LoopState, ExecutingChunks
  <2> QED
    BY <2>1, <2>3 DEF Init, Promise!Init
<1>2. IInv /\ LoopInv /\ [Next]_vars => [Promise!Next]_(Promise!avars)
  BY PoolStepIsSeen
<1> QED
  BY <1>1, <1>2, InductiveInvariant, LoopInvariant, PTL
  DEF Spec, ImplementsSerialLoops, Promise!Spec
=============================================================================
