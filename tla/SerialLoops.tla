---------------------------- MODULE SerialLoops ----------------------------
(***************************************************************************)
(* What ParallelFor promises its callers (source/parallel/parallel_for.h): *)
(* loops that use the pool run one at a time; a chunk body is entered at   *)
(* most once; a call returns only when no body of it is running and either *)
(* every chunk has run or a body threw, and then it rethrows.              *)
(***************************************************************************)
EXTENDS Naturals

CONSTANTS Callers, MaxChunks, MayThrow, Nobody

VARIABLES
    loop,       \* "idle", "inline", "queued" or "running"
    size,       \* number of chunks of each caller's loop
    entered,    \* chunks whose body was entered
    executing,  \* chunks whose body is running now
    threw,      \* chunks whose body threw
    result,     \* how the last loop ended
    current     \* the caller whose loop has the pool

avars == <<loop, size, entered, executing, threw, result, current>>

Indices(s) == 0..(size[s] - 1)

Init ==
    /\ loop = [s \in Callers |-> "idle"]
    /\ size = [s \in Callers |-> 0]
    /\ entered = [s \in Callers |-> {}]
    /\ executing = [s \in Callers |-> {}]
    /\ threw = [s \in Callers |-> {}]
    /\ result = [s \in Callers |-> "none"]
    /\ current = Nobody

Call(s) ==
    /\ loop[s] = "idle"
    /\ \E n \in 0..MaxChunks, l \in {"idle", "inline", "queued"} :
        /\ n = 0 <=> l = "idle"
        /\ size' = [size EXCEPT ![s] = n]
        /\ loop' = [loop EXCEPT ![s] = l]
    /\ entered' = [entered EXCEPT ![s] = {}]
    /\ threw' = [threw EXCEPT ![s] = {}]
    /\ result' = [result EXCEPT ![s] = "none"]
    /\ UNCHANGED <<executing, current>>

\* A loop on the calling thread: chunks in order up to the first throw.
Inline(s) ==
    /\ loop[s] = "inline"
    /\ loop' = [loop EXCEPT ![s] = "idle"]
    /\ \/ /\ entered' = [entered EXCEPT ![s] = Indices(s)]
          /\ result' = [result EXCEPT ![s] = "returned"]
          /\ UNCHANGED threw
       \/ \E c \in MayThrow \cap Indices(s) :
            /\ entered' = [entered EXCEPT ![s] = 0..c]
            /\ threw' = [threw EXCEPT ![s] = {c}]
            /\ result' = [result EXCEPT ![s] = "rethrown"]
    /\ UNCHANGED <<size, executing, current>>

Start(s) ==
    /\ loop[s] = "queued" /\ current = Nobody
    /\ current' = s
    /\ loop' = [loop EXCEPT ![s] = "running"]
    /\ UNCHANGED <<size, entered, executing, threw, result>>

\* Creating a worker failed in a way the pool does not absorb.
GiveUp(s) ==
    /\ loop[s] = "running" /\ entered[s] = {}
    /\ current' = Nobody
    /\ loop' = [loop EXCEPT ![s] = "idle"]
    /\ result' = [result EXCEPT ![s] = "failed"]
    /\ UNCHANGED <<size, entered, executing, threw>>

Begin(s) ==
    /\ loop[s] = "running"
    /\ \E c \in Indices(s) \ entered[s] :
        /\ entered' = [entered EXCEPT ![s] = @ \cup {c}]
        /\ executing' = [executing EXCEPT ![s] = @ \cup {c}]
    /\ UNCHANGED <<loop, size, threw, result, current>>

End(s) ==
    /\ \E c \in executing[s] :
        /\ executing' = [executing EXCEPT ![s] = @ \ {c}]
        /\ \/ UNCHANGED threw
           \/ c \in MayThrow /\ threw' = [threw EXCEPT ![s] = @ \cup {c}]
    /\ UNCHANGED <<loop, size, entered, result, current>>

Finish(s) ==
    /\ loop[s] = "running" /\ executing[s] = {}
    /\ entered[s] = Indices(s) \/ threw[s] # {}
    /\ result' = [result EXCEPT
                    ![s] = IF threw[s] = {} THEN "returned" ELSE "rethrown"]
    /\ loop' = [loop EXCEPT ![s] = "idle"]
    /\ current' = Nobody
    /\ UNCHANGED <<size, entered, executing, threw>>

Next == \E s \in Callers :
    Call(s) \/ Inline(s) \/ Start(s) \/ GiveUp(s) \/ Begin(s) \/ End(s) \/ Finish(s)

Spec == Init /\ [][Next]_avars
============================================================================
