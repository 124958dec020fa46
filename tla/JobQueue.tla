------------------------------ MODULE JobQueue ------------------------------
(***************************************************************************)
(* The worker pool of src/src/concurrency/worker.ts on the job_queue table.*)
(*                                                                         *)
(* One iteration of runWorker is one READ COMMITTED transaction:           *)
(*     SELECT ... WHERE status = 'pending' ORDER BY created_at, id         *)
(*     LIMIT 1 FOR UPDATE SKIP LOCKED                                      *)
(*     <handler>   UPDATE ... 'done', processed + 1, worker_id   COMMIT    *)
(* The SELECT is not one instant.  Its snapshot of the pending rows is     *)
(* taken when it starts; it then visits those rows in order, skips a row   *)
(* that a sibling has locked, and re-checks the status of a row whose lock *)
(* it got, because a sibling may have committed since the snapshot.        *)
(*                                                                         *)
(* A job is identified by its place in the (created_at, id) order.  A job  *)
(* becomes visible when the checkout that wrote it commits, which need not *)
(* be in that order.                                                       *)
(***************************************************************************)
EXTENDS Naturals, Sequences, FiniteSets

CONSTANTS
    Jobs,           \* jobs, as positions in the (created_at, id) order
    Backlog,        \* the jobs that are queued before the pool starts
    Workers,        \* the workers of the pool
    NoWorker,       \* the SQL NULL of worker_id, and "not locked"
    NoJob,          \* the null a transaction without a job returns
    MaxIdlePolls    \* options.maxIdlePolls

ASSUME JobsAssumption == Jobs \subseteq Nat /\ Backlog \subseteq Jobs /\ NoJob \notin Jobs
ASSUME WorkersAssumption == NoWorker \notin Workers
ASSUME PoolAssumption == IsFiniteSet(Workers)
ASSUME MaxIdlePollsAssumption == MaxIdlePolls \in Nat \ {0}

VARIABLES
    status,         \* job_queue.status as committed; "absent" before the INSERT commits
    processed,      \* job_queue.processed as committed
    workerId,       \* job_queue.worker_id as committed
    lock,           \* who holds the row's FOR UPDATE lock
    pc,             \* where each worker is in its loop
    rows,           \* the rows of the SELECT's snapshot a worker has not visited yet
    claimedId,      \* the job id a worker's transaction returned, until it is recorded
    consecutiveIdle,\* empty polls since a worker's last job
    jobIds          \* the jobs a worker recorded in its own memory

vars == <<status, processed, workerId, lock, pc, rows, claimedId, consecutiveIdle, jobIds>>

Live == {"top", "scan", "handler", "claimed"}
Ended == {"returned", "failed"}

\* A row of the snapshot that no other row precedes in ORDER BY created_at, id.
IsNext(w, j) == j \in rows[w] /\ \A k \in rows[w] : j <= k

\* Mutant of Free: the status of a locked row is not read again.
FreeAsOfSnapshot(j) == lock[j] = NoWorker

\* FOR UPDATE SKIP LOCKED takes a row nobody holds that is still pending.
Free(j) == lock[j] = NoWorker /\ status[j] = "pending"

Init ==
    /\ status = [j \in Jobs |-> IF j \in Backlog THEN "pending" ELSE "absent"]
    /\ processed = [j \in Jobs |-> 0]
    /\ workerId = [j \in Jobs |-> NoWorker]
    /\ lock = [j \in Jobs |-> NoWorker]
    /\ pc = [w \in Workers |-> "top"]
    /\ rows = [w \in Workers |-> {}]
    /\ claimedId = [w \in Workers |-> NoJob]
    /\ consecutiveIdle = [w \in Workers |-> 0]
    /\ jobIds = [w \in Workers |-> <<>>]

-----------------------------------------------------------------------------
\* A checkout commits its INSERT INTO job_queue.
Enqueue(j) ==
    /\ status[j] = "absent"
    /\ status' = [status EXCEPT ![j] = "pending"]
    /\ UNCHANGED <<processed, workerId, lock, pc, rows, claimedId, consecutiveIdle, jobIds>>

\* The SELECT starts: its snapshot is the pending rows committed by now.
Poll(w) ==
    /\ pc[w] = "top"
    /\ rows' = [rows EXCEPT ![w] = {j \in Jobs : status[j] = "pending"}]
    /\ pc' = [pc EXCEPT ![w] = "scan"]
    /\ UNCHANGED <<status, processed, workerId, lock, claimedId, consecutiveIdle, jobIds>>

\* Mutant of Claim: the SELECT has no LIMIT, so every free row of the snapshot is locked.
ClaimAll(w, j) ==
    /\ pc[w] = "scan"
    /\ IsNext(w, j)
    /\ Free(j)
    /\ lock' = [k \in Jobs |-> IF k \in rows[w] /\ Free(k) THEN w ELSE lock[k]]
    /\ rows' = [rows EXCEPT ![w] = {}]
    /\ pc' = [pc EXCEPT ![w] = "handler"]
    /\ UNCHANGED <<status, processed, workerId, claimedId, consecutiveIdle, jobIds>>

\* LIMIT 1: the first row of the snapshot that is still free is locked.
Claim(w, j) ==
    /\ pc[w] = "scan"
    /\ IsNext(w, j)
    /\ Free(j)
    /\ lock' = [lock EXCEPT ![j] = w]
    /\ rows' = [rows EXCEPT ![w] = {}]
    /\ pc' = [pc EXCEPT ![w] = "handler"]
    /\ UNCHANGED <<status, processed, workerId, claimedId, consecutiveIdle, jobIds>>

\* Mutant of Skip: LIMIT 1 applied before the locking, one locked row ends the scan.
SkipToEnd(w, j) ==
    /\ pc[w] = "scan"
    /\ IsNext(w, j)
    /\ ~Free(j)
    /\ rows' = [rows EXCEPT ![w] = {}]
    /\ UNCHANGED <<status, processed, workerId, lock, pc, claimedId, consecutiveIdle, jobIds>>

\* A row that a sibling holds, or finished since the snapshot, is passed over.
Skip(w, j) ==
    /\ pc[w] = "scan"
    /\ IsNext(w, j)
    /\ ~Free(j)
    /\ rows' = [rows EXCEPT ![w] = @ \ {j}]
    /\ UNCHANGED <<status, processed, workerId, lock, pc, claimedId, consecutiveIdle, jobIds>>

\* Mutant of IdlePoll: empty polls are not counted.
IdlePollUncounted(w) ==
    /\ pc[w] = "scan"
    /\ rows[w] = {}
    /\ pc' = [pc EXCEPT ![w] = IF consecutiveIdle[w] + 1 >= MaxIdlePolls
                               THEN "returned" ELSE "top"]
    /\ UNCHANGED <<status, processed, workerId, lock, rows, claimedId, consecutiveIdle, jobIds>>

\* No row: the transaction returns null.  The worker polls again unless this
\* was its maxIdlePolls-th empty poll in a row.
IdlePoll(w) ==
    /\ pc[w] = "scan"
    /\ rows[w] = {}
    /\ consecutiveIdle' = [consecutiveIdle EXCEPT ![w] = @ + 1]
    /\ pc' = [pc EXCEPT ![w] = IF consecutiveIdle[w] + 1 >= MaxIdlePolls
                               THEN "returned" ELSE "top"]
    /\ UNCHANGED <<status, processed, workerId, lock, rows, claimedId, jobIds>>

\* The handler ends, the UPDATE runs and the transaction commits: the result
\* becomes visible and the lock goes in one step.
Commit(w, j) ==
    /\ pc[w] = "handler"
    /\ lock[j] = w
    /\ status' = [status EXCEPT ![j] = "done"]
    /\ processed' = [processed EXCEPT ![j] = @ + 1]
    /\ workerId' = [workerId EXCEPT ![j] = w]
    /\ lock' = [lock EXCEPT ![j] = NoWorker]
    /\ claimedId' = [claimedId EXCEPT ![w] = j]
    /\ pc' = [pc EXCEPT ![w] = "claimed"]
    /\ UNCHANGED <<rows, consecutiveIdle, jobIds>>

\* Back in the loop with a claimed id, which lives for one iteration.
Record(w) ==
    /\ pc[w] = "claimed"
    /\ jobIds' = [jobIds EXCEPT ![w] = Append(@, claimedId[w])]
    /\ consecutiveIdle' = [consecutiveIdle EXCEPT ![w] = 0]
    /\ claimedId' = [claimedId EXCEPT ![w] = NoJob]
    /\ pc' = [pc EXCEPT ![w] = "top"]
    /\ UNCHANGED <<status, processed, workerId, lock, rows>>

\* Mutant of Fail: the result is written outside the transaction, so a death in
\* the handler leaves it behind on a job that is still pending.
FailHalfDone(w) ==
    /\ pc[w] \in Live
    /\ processed' = [j \in Jobs |-> IF lock[j] = w THEN processed[j] + 1 ELSE processed[j]]
    /\ lock' = [j \in Jobs |-> IF lock[j] = w THEN NoWorker ELSE lock[j]]
    /\ pc' = [pc EXCEPT ![w] = "failed"]
    /\ rows' = [rows EXCEPT ![w] = {}]
    /\ claimedId' = [claimedId EXCEPT ![w] = NoJob]
    /\ consecutiveIdle' = [consecutiveIdle EXCEPT ![w] = 0]
    /\ jobIds' = [jobIds EXCEPT ![w] = <<>>]
    /\ UNCHANGED <<status, workerId>>

\* The process dies, its connection drops, or a statement throws (runWorker
\* catches nothing): Postgres rolls the open transaction back and the row lock
\* goes with it, and so does everything the worker kept in memory.  After COMMIT
\* the job stays done, even if the worker never hears of it.
Fail(w) ==
    /\ pc[w] \in Live
    /\ lock' = [j \in Jobs |-> IF lock[j] = w THEN NoWorker ELSE lock[j]]
    /\ pc' = [pc EXCEPT ![w] = "failed"]
    /\ rows' = [rows EXCEPT ![w] = {}]
    /\ claimedId' = [claimedId EXCEPT ![w] = NoJob]
    /\ consecutiveIdle' = [consecutiveIdle EXCEPT ![w] = 0]
    /\ jobIds' = [jobIds EXCEPT ![w] = <<>>]
    /\ UNCHANGED <<status, processed, workerId>>

Step(w) ==
    \/ Poll(w)
    \/ \E j \in Jobs : Claim(w, j) \/ Skip(w, j) \/ Commit(w, j)
    \/ IdlePoll(w)
    \/ Record(w)

\* Every worker returned or died and nothing is left to enqueue: the demo ends.
Finished ==
    /\ \A w \in Workers : pc[w] \in Ended
    /\ \A j \in Jobs : status[j] # "absent"
    /\ UNCHANGED vars

Next ==
    \/ \E j \in Jobs : Enqueue(j)
    \/ \E w \in Workers : Step(w) \/ Fail(w)
    \/ Finished

Spec == Init /\ [][Next]_vars

\* A live worker keeps running its loop; nothing makes it die, and nothing makes
\* a checkout happen.
FairSpec == Spec /\ \A w \in Workers : WF_vars(Step(w))

-----------------------------------------------------------------------------
TypeOK ==
    /\ status \in [Jobs -> {"absent", "pending", "done"}]
    /\ processed \in [Jobs -> Nat]
    /\ workerId \in [Jobs -> Workers \cup {NoWorker}]
    /\ lock \in [Jobs -> Workers \cup {NoWorker}]
    /\ pc \in [Workers -> Live \cup Ended]
    /\ rows \in [Workers -> SUBSET Jobs]
    /\ claimedId \in [Workers -> Jobs \cup {NoJob}]
    /\ consecutiveIdle \in [Workers -> 0..MaxIdlePolls]
    /\ jobIds \in [Workers -> Seq(Jobs)]

\* "processed > 1 means two workers handled the same row" (job.entity.ts): a
\* job is pending and untouched, or done once by a named worker, whatever the
\* polls, crashes and commits of the siblings interleave to.
ExactlyOnce ==
    \A j \in Jobs :
        /\ status[j] # "done" => processed[j] = 0 /\ workerId[j] = NoWorker
        /\ status[j] = "done" => processed[j] = 1 /\ workerId[j] \in Workers

\* "An empty result means nothing free right now": as long as no worker died, a
\* worker gives up only when each job of the backlog is done or in the hands of
\* a sibling that will finish it, so no job is left behind by the pool.
NoEarlyReturn ==
    (\A w \in Workers : pc[w] # "failed") =>
        \A w \in Workers : pc[w] = "returned" =>
            \A j \in Backlog : status[j] = "done" \/ lock[j] # NoWorker

\* The promise when workers die: once a worker has given up, a death costs the
\* backlog at most the one job the dead worker held.  Each job that is left free
\* was passed over while a worker that died later held it.
OneJobPerDeath ==
    (\E w \in Workers : pc[w] = "returned") =>
        Cardinality({j \in Backlog : Free(j)}) <= Cardinality({w \in Workers : pc[w] = "failed"})

\* The counts demo-workers.ts takes from the workers' memory agree with the
\* table: a worker recorded a job at most once, only a job whose row names it,
\* and at rest it misses none unless it died between COMMIT and the push.
StatsMatchTable ==
    \A w \in Workers :
        /\ \A i, k \in 1..Len(jobIds[w]) : i # k => jobIds[w][i] # jobIds[w][k]
        /\ \A i \in 1..Len(jobIds[w]) : workerId[jobIds[w][i]] = w
        /\ pc[w] = "returned" =>
               \A j \in Jobs : workerId[j] = w => \E i \in 1..Len(jobIds[w]) : jobIds[w][i] = j

\* The pool implements the queue without locks: every committed step is a
\* single enqueue or a single completion.
WQ == INSTANCE WorkQueue WITH status <- status, processed <- processed, workerId <- workerId
ImplementsWorkQueue == WQ!Spec

\* What demo-workers.ts asks of the table and of the workers' own counts when the
\* pool has ended: no job processed twice, none unfinished, and the recorded ids
\* are the jobs, each once.  (That two workers took part and that it was faster
\* than one are about timing.)
Verdict(jobs) ==
    \A j \in jobs :
        /\ status[j] = "done" /\ processed[j] = 1
        /\ \E w \in Workers : \E i \in 1..Len(jobIds[w]) :
               /\ jobIds[w][i] = j
               /\ \A v \in Workers : \A k \in 1..Len(jobIds[v]) :
                      jobIds[v][k] = j => v = w /\ k = i

\* The pool terminates: every worker returns or dies, and if none died the demo's
\* verdict on the backlog is OK.  A worker that keeps finding its rows taken
\* neither polls for ever nor leaves a job that nobody will finish or count.
PoolDrains ==
    <>( /\ \A w \in Workers : pc[w] \in Ended
        /\ (\A w \in Workers : pc[w] = "returned") => Verdict(Backlog) )
=============================================================================
