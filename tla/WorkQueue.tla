----------------------------- MODULE WorkQueue -----------------------------
(***************************************************************************)
(* What the job queue promises (src/src/concurrency/worker.ts): a job that *)
(* was enqueued is completed at most once, by one worker, and a completed  *)
(* job never changes again.  There are no locks, polls or crashes here;    *)
(* JobQueue implements this.                                               *)
(***************************************************************************)
EXTENDS Naturals

CONSTANTS
    Jobs,       \* every job that may ever be enqueued
    Workers,    \* the workers of the pool
    NoWorker    \* the SQL NULL of the worker_id column

VARIABLES
    status,     \* job -> "absent", "pending" or "done"
    processed,  \* job -> how many times it was completed
    workerId    \* job -> who completed it

wqVars == <<status, processed, workerId>>

Init ==
    /\ status \in [Jobs -> {"absent", "pending"}]
    /\ processed = [j \in Jobs |-> 0]
    /\ workerId = [j \in Jobs |-> NoWorker]

Add(j) ==
    /\ status[j] = "absent"
    /\ status' = [status EXCEPT ![j] = "pending"]
    /\ UNCHANGED <<processed, workerId>>

Finish(j, w) ==
    /\ status[j] = "pending"
    /\ status' = [status EXCEPT ![j] = "done"]
    /\ processed' = [processed EXCEPT ![j] = 1]
    /\ workerId' = [workerId EXCEPT ![j] = w]

Next == \E j \in Jobs : Add(j) \/ \E w \in Workers : Finish(j, w)

Spec == Init /\ [][Next]_wqVars
=============================================================================
