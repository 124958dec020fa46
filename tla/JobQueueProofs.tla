--------------------------- MODULE JobQueueProofs ---------------------------
(***************************************************************************)
(* Proofs about JobQueue for any jobs, any backlog, any pool and any       *)
(* maxIdlePolls.  None of the properties is inductive by itself.  The      *)
(* invariant adds to them                                                  *)
(*   LoopInv   a worker that still runs has polled in vain fewer than      *)
(*             MaxIdlePolls times, and a claimed id is a job;              *)
(*   LockInv   a locked job is pending, and its holder is in the handler   *)
(*             with that one job;                                          *)
(*   ScanInv   while nobody died, a backlog job that a scan no longer has  *)
(*             before it is done or held;                                  *)
(*   DeathInv  the backlog jobs that a scan has passed over and that are   *)
(*             free again are not more than the workers that died;         *)
(*   StatsInv  what a worker has recorded is what the table says it did,   *)
(*             except for the one id it is about to record.                *)
(***************************************************************************)
EXTENDS JobQueue, FiniteSetTheorems, TLAPS

LoopInv ==
    \A w \in Workers :
        /\ pc[w] \in Live => consecutiveIdle[w] < MaxIdlePolls
        /\ pc[w] = "claimed" => claimedId[w] \in Jobs

LockInv ==
    /\ \A j \in Jobs : lock[j] # NoWorker => status[j] = "pending" /\ pc[lock[j]] = "handler"
    /\ \A j, k \in Jobs : lock[j] # NoWorker /\ lock[j] = lock[k] => j = k

\* A job a worker may leave alone.
Settled(j) == status[j] = "done" \/ lock[j] # NoWorker

ScanInv ==
    /\ \A j \in Backlog : status[j] # "absent"
    /\ (\A w \in Workers : pc[w] # "failed") =>
           \A w \in Workers :
               /\ pc[w] = "scan" => \A j \in Backlog \ rows[w] : Settled(j)
               /\ pc[w] = "returned" => \A j \in Backlog : Settled(j)

Recorded(w, j) == \E i \in 1..Len(jobIds[w]) : jobIds[w][i] = j

OwnJobs(w) == \A i \in 1..Len(jobIds[w]) : workerId[jobIds[w][i]] = w
NoRepeats(w) == \A i, k \in 1..Len(jobIds[w]) : i # k => jobIds[w][i] # jobIds[w][k]
ClaimIsNew(w) == pc[w] = "claimed" => workerId[claimedId[w]] = w /\ ~Recorded(w, claimedId[w])
AllRecorded(w) ==
    pc[w] # "failed" =>
        \A j \in Jobs : workerId[j] = w =>
            Recorded(w, j) \/ (pc[w] = "claimed" /\ j = claimedId[w])

StatsInv ==
    \A w \in Workers : OwnJobs(w) /\ NoRepeats(w) /\ ClaimIsNew(w) /\ AllRecorded(w)

\* The backlog jobs a worker no longer has before it, though nobody holds them.
Passed(w) == {j \in Backlog \ rows[w] : Free(j)}
Failed == {w \in Workers : pc[w] = "failed"}

DeathInv ==
    \A w \in Workers :
        /\ pc[w] = "returned" => rows[w] = {}
        /\ pc[w] \in {"scan", "returned"} =>
              IsFiniteSet(Passed(w)) /\ Cardinality(Passed(w)) <= Cardinality(Failed)

TypeInv == TypeOK /\ LoopInv
IInv == TypeInv /\ ExactlyOnce /\ LockInv /\ ScanInv /\ DeathInv /\ StatsInv

USE JobsAssumption, WorkersAssumption, MaxIdlePollsAssumption

-----------------------------------------------------------------------------
\* The initial states satisfy every part of the invariant.
LEMMA InitIInv == Init => IInv
<1> SUFFICES ASSUME Init PROVE IInv
  OBVIOUS
<1>1. TypeInv
  BY DEF Init, TypeInv, TypeOK, LoopInv, Live, Ended
<1>2. ExactlyOnce /\ LockInv /\ ScanInv
  BY DEF Init, ExactlyOnce, LockInv, ScanInv
<1>3. StatsInv
  BY DEF Init, StatsInv, OwnJobs, NoRepeats, ClaimIsNew, AllRecorded, Recorded
<1>4. DeathInv
  BY DEF Init, DeathInv
<1> QED
  BY <1>1, <1>2, <1>3, <1>4 DEF IInv

\* Each step keeps the types; the idle counter stays within its bound because
\* the worker that reaches MaxIdlePolls returns in the same step.
LEMMA TypeStep == TypeInv /\ [Next]_vars => TypeInv'
<1> SUFFICES ASSUME TypeInv, [Next]_vars PROVE TypeInv'
  OBVIOUS
<1> USE DEF TypeInv, TypeOK, LoopInv, Live, Ended
<1>1. ASSUME NEW j \in Jobs, Enqueue(j) PROVE TypeInv'
  BY <1>1 DEF Enqueue
<1>2. ASSUME NEW w \in Workers, Poll(w) PROVE TypeInv'
  BY <1>2 DEF Poll
<1>3. ASSUME NEW w \in Workers, NEW j \in Jobs, Claim(w, j) PROVE TypeInv'
  BY <1>3 DEF Claim
<1>4. ASSUME NEW w \in Workers, NEW j \in Jobs, Skip(w, j) PROVE TypeInv'
  BY <1>4 DEF Skip
<1>5. ASSUME NEW w \in Workers, IdlePoll(w) PROVE TypeInv'
  BY <1>5 DEF IdlePoll
<1>6. ASSUME NEW w \in Workers, NEW j \in Jobs, Commit(w, j) PROVE TypeInv'
  BY <1>6 DEF Commit
<1>7. ASSUME NEW w \in Workers, Record(w) PROVE TypeInv'
  BY <1>7 DEF Record
<1>8. ASSUME NEW w \in Workers, Fail(w) PROVE TypeInv'
  BY <1>8 DEF Fail
<1>9. CASE UNCHANGED vars
  BY <1>9 DEF vars
<1> QED
  BY <1>1, <1>2, <1>3, <1>4, <1>5, <1>6, <1>7, <1>8, <1>9 DEF Next, Step, Finished

\* The table and its locks: a commit finds its job pending because it holds the
\* job's lock, so no job is completed a second time.
LEMMA TableStep == TypeInv /\ ExactlyOnce /\ LockInv /\ [Next]_vars => ExactlyOnce' /\ LockInv'
<1> SUFFICES ASSUME TypeInv, ExactlyOnce, LockInv, [Next]_vars PROVE ExactlyOnce' /\ LockInv'
  OBVIOUS
<1> USE DEF TypeInv, TypeOK, ExactlyOnce, LockInv, Live, Ended
<1>1. ASSUME NEW j \in Jobs, Enqueue(j) PROVE ExactlyOnce' /\ LockInv'
  BY <1>1 DEF Enqueue
<1>2. ASSUME NEW w \in Workers, Poll(w) PROVE ExactlyOnce' /\ LockInv'
  BY <1>2 DEF Poll
<1>3. ASSUME NEW w \in Workers, NEW j \in Jobs, Claim(w, j) PROVE ExactlyOnce' /\ LockInv'
  BY <1>3 DEF Claim, Free
<1>4. ASSUME NEW w \in Workers, NEW j \in Jobs, Skip(w, j) PROVE ExactlyOnce' /\ LockInv'
  BY <1>4 DEF Skip
<1>5. ASSUME NEW w \in Workers, IdlePoll(w) PROVE ExactlyOnce' /\ LockInv'
  BY <1>5 DEF IdlePoll
<1>6. ASSUME NEW w \in Workers, NEW j \in Jobs, Commit(w, j) PROVE ExactlyOnce' /\ LockInv'
  <2>1. status[j] = "pending" /\ processed[j] = 0
    BY <1>6 DEF Commit
  <2>2. ExactlyOnce'
    BY <1>6, <2>1 DEF Commit
  <2>3. LockInv'
    BY <1>6, <2>1 DEF Commit
  <2> QED
    BY <2>2, <2>3
<1>7. ASSUME NEW w \in Workers, Record(w) PROVE ExactlyOnce' /\ LockInv'
  BY <1>7 DEF Record
<1>8. ASSUME NEW w \in Workers, Fail(w) PROVE ExactlyOnce' /\ LockInv'
  BY <1>8 DEF Fail
<1>9. CASE UNCHANGED vars
  BY <1>9 DEF vars
<1> QED
  BY <1>1, <1>2, <1>3, <1>4, <1>5, <1>6, <1>7, <1>8, <1>9 DEF Next, Step, Finished

\* Without a death a settled job stays settled: a lock is only given up by the
\* commit that makes the job done.
LEMMA SettledStable ==
    ASSUME TypeInv, LockInv, [Next]_vars,
           \A w \in Workers : pc'[w] # "failed",
           NEW k \in Jobs, Settled(k)
    PROVE  Settled(k)'
<1> USE DEF TypeInv, TypeOK, Settled, Live, Ended
<1>1. ASSUME NEW j \in Jobs, Enqueue(j) PROVE Settled(k)'
  BY <1>1 DEF Enqueue, LockInv
<1>2. ASSUME NEW w \in Workers, NEW j \in Jobs, Commit(w, j) PROVE Settled(k)'
  BY <1>2 DEF Commit
<1>3. ASSUME NEW w \in Workers, NEW j \in Jobs, Claim(w, j) PROVE Settled(k)'
  BY <1>3 DEF Claim
<1>4. ASSUME NEW w \in Workers, Fail(w) PROVE Settled(k)'
  BY <1>4 DEF Fail
<1>5. ASSUME UNCHANGED <<status, lock>> PROVE Settled(k)'
  BY <1>5
<1> QED
  BY <1>1, <1>2, <1>3, <1>4, <1>5
     DEF Next, Step, Finished, Poll, Skip, IdlePoll, Record, vars

\* A row leaves a scan only when it is settled, so the scan that ends with no
\* row left has seen every backlog job done or held.
LEMMA ScanStep == TypeInv /\ LockInv /\ ScanInv /\ [Next]_vars => ScanInv'
<1> SUFFICES ASSUME TypeInv, LockInv, ScanInv, [Next]_vars PROVE ScanInv'
  OBVIOUS
<1>1. \A j \in Backlog : status'[j] # "absent"
  BY DEF TypeInv, TypeOK, ScanInv, Next, Step, Finished, vars, Enqueue, Poll, Claim, Skip,
         IdlePoll, Commit, Record, Fail
<1>2. SUFFICES ASSUME \A w \in Workers : pc'[w] # "failed", NEW v \in Workers
               PROVE  /\ pc'[v] = "scan" => \A j \in Backlog \ rows'[v] : Settled(j)'
                      /\ pc'[v] = "returned" => \A j \in Backlog : Settled(j)'
  BY <1>1 DEF ScanInv
<1>3. \A w \in Workers : pc[w] # "failed"
  BY <1>2 DEF TypeInv, TypeOK, Live, Ended, Next, Step, Finished, vars, Enqueue, Poll, Claim,
              Skip, IdlePoll, Commit, Record, Fail
<1>4. \A j \in Backlog : Settled(j) => Settled(j)'
  BY <1>2, SettledStable
<1>5. /\ pc[v] = "scan" => \A j \in Backlog \ rows[v] : Settled(j)
      /\ pc[v] = "returned" => \A j \in Backlog : Settled(j)
  BY <1>3 DEF ScanInv
<1> DEFINE Goal == /\ pc'[v] = "scan" => \A j \in Backlog \ rows'[v] : Settled(j)'
                   /\ pc'[v] = "returned" => \A j \in Backlog : Settled(j)'
<1> USE DEF TypeInv, TypeOK, Live, Ended
<1>6. ASSUME UNCHANGED <<pc, rows>> PROVE Goal
  BY <1>4, <1>5, <1>6
<1>7. ASSUME NEW w \in Workers, Poll(w) PROVE Goal
  <2>1. CASE v = w
    BY <1>7, <2>1 DEF Poll, ScanInv, Settled
  <2>2. CASE v # w
    BY <1>4, <1>5, <1>7, <2>2 DEF Poll
  <2> QED
    BY <2>1, <2>2
<1>8. ASSUME NEW w \in Workers, NEW j \in Jobs, Claim(w, j) PROVE Goal
  BY <1>4, <1>5, <1>8 DEF Claim
<1>9. ASSUME NEW w \in Workers, NEW j \in Jobs, Skip(w, j) PROVE Goal
  <2>1. j \in Backlog => Settled(j)
    BY <1>9 DEF Skip, Free, Settled, ScanInv
  <2> QED
    BY <1>4, <1>5, <1>9, <2>1 DEF Skip
<1>10. ASSUME NEW w \in Workers, IdlePoll(w) PROVE Goal
  BY <1>4, <1>5, <1>10 DEF IdlePoll
<1>11. ASSUME NEW w \in Workers, NEW j \in Jobs, Commit(w, j) PROVE Goal
  BY <1>4, <1>5, <1>11 DEF Commit
<1>12. ASSUME NEW w \in Workers, Record(w) PROVE Goal
  BY <1>4, <1>5, <1>12 DEF Record
<1>13. ASSUME NEW w \in Workers, Fail(w) PROVE Goal
  BY <1>2, <1>13 DEF Fail
<1> QED
  BY <1>6, <1>7, <1>8, <1>9, <1>10, <1>11, <1>12, <1>13
     DEF Next, Step, Finished, vars, Enqueue

\* What a scan has passed over gains a free job only when the holder of the job
\* dies, and a dead worker held one job.
LEMMA DeathStep == TypeInv /\ LockInv /\ ScanInv /\ DeathInv /\ [Next]_vars => DeathInv'
<1> DEFINE Fewer(w) == IsFiniteSet(Passed(w)) /\ Cardinality(Passed(w)) <= Cardinality(Failed)
<1> SUFFICES ASSUME TypeInv, LockInv, ScanInv, DeathInv, [Next]_vars, NEW v \in Workers
             PROVE  /\ (pc[v] = "returned" => rows[v] = {})'
                    /\ (pc[v] \in {"scan", "returned"} => Fewer(v))'
  BY DEF DeathInv
<1>a. /\ pc[v] = "returned" => rows[v] = {}
      /\ pc[v] \in {"scan", "returned"} => Fewer(v)
  BY DEF DeathInv
<1>b. /\ status \in [Jobs -> {"absent", "pending", "done"}]
      /\ lock \in [Jobs -> Workers \cup {NoWorker}]
      /\ pc \in [Workers -> Live \cup Ended]
      /\ rows \in [Workers -> SUBSET Jobs]
  BY DEF TypeInv, TypeOK
<1>c. IsFiniteSet(Failed) /\ IsFiniteSet(Failed') /\ Cardinality(Failed) \in Nat
      /\ Cardinality(Failed') \in Nat
  <2>1. Failed \in SUBSET Workers /\ Failed' \in SUBSET Workers
    BY DEF Failed
  <2>2. IsFiniteSet(Failed) /\ IsFiniteSet(Failed')
    BY <2>1, PoolAssumption, FS_Subset
  <2> QED BY <2>2, FS_CardinalityType
\* A step after which a worker has passed over no more, and no fewer have died.
<1>d. ASSUME Fewer(v), Passed(v)' \subseteq Passed(v), Failed \subseteq Failed'
      PROVE  Fewer(v)'
  <2>1. IsFiniteSet(Passed(v)) /\ Cardinality(Passed(v)) <= Cardinality(Failed)
    BY <1>d
  <2>2. /\ IsFiniteSet(Passed(v)') /\ Cardinality(Passed(v)') <= Cardinality(Passed(v))
        /\ Cardinality(Passed(v)') \in Nat /\ Cardinality(Passed(v)) \in Nat
    BY <2>1, <1>d, FS_Subset, FS_CardinalityType
  <2>3. Cardinality(Failed) <= Cardinality(Failed')
    BY <1>c, <1>d, FS_Subset
  <2> HIDE DEF Fewer
  <2>4. Cardinality(Passed(v)') <= Cardinality(Failed')
    BY <1>c, <2>1, <2>2, <2>3
  <2>5. IsFiniteSet(Passed(v)') /\ Cardinality(Passed(v)') <= Cardinality(Failed')
    BY <2>2, <2>4
  <2> QED BY <2>5, Zenon DEF Fewer
<1>e. ASSUME pc'[v] \in {"scan", "returned"} => pc[v] \in {"scan", "returned"},
             pc'[v] = "returned" => rows'[v] = {},
             pc'[v] \in {"scan", "returned"} => Passed(v)' \subseteq Passed(v),
             Failed \subseteq Failed'
      PROVE  /\ (pc[v] = "returned" => rows[v] = {})'
             /\ (pc[v] \in {"scan", "returned"} => Fewer(v))'
  <2> HIDE DEF Fewer
  <2> QED BY <1>a, <1>d, <1>e
<1> HIDE DEF Fewer
<1>1. ASSUME NEW j \in Jobs, Enqueue(j)
      PROVE  /\ (pc[v] = "returned" => rows[v] = {})'
             /\ (pc[v] \in {"scan", "returned"} => Fewer(v))'
  <2>1. j \notin Backlog /\ UNCHANGED <<pc, rows, lock>>
    BY <1>1 DEF Enqueue, ScanInv
  <2>2. \A k \in Backlog : status'[k] = status[k]
    BY <1>1, <1>b, <2>1 DEF Enqueue
  <2>3. Passed(v)' \subseteq Passed(v)
    BY <2>1, <2>2 DEF Passed, Free
  <2>4. Failed \subseteq Failed'
    BY <2>1 DEF Failed
  <2> QED BY <1>a, <1>e, <2>1, <2>3, <2>4
<1>2. ASSUME NEW w \in Workers, Poll(w)
      PROVE  /\ (pc[v] = "returned" => rows[v] = {})'
             /\ (pc[v] \in {"scan", "returned"} => Fewer(v))'
  <2>1. Failed \subseteq Failed' /\ UNCHANGED <<status, lock>>
    BY <1>2, <1>b DEF Poll, Failed
  <2>2. CASE v = w
    <3>1. pc'[v] = "scan" /\ rows'[v] = {j \in Jobs : status[j] = "pending"}
      BY <1>2, <1>b, <2>2 DEF Poll
    <3>2. Passed(v)' = {}
      BY <3>1, <2>1 DEF Passed, Free
    <3>3. IsFiniteSet(Passed(v)') /\ Cardinality(Passed(v)') = 0
      BY <3>2, FS_EmptySet
    <3>4. IsFiniteSet(Passed(v)') /\ Cardinality(Passed(v)') <= Cardinality(Failed')
      BY <3>3, <1>c
    <3>5. Fewer(v)'
      BY <3>4, Zenon DEF Fewer
    <3> QED BY <3>1, <3>5
  <2>3. CASE v # w
    <3>1. pc'[v] = pc[v] /\ rows'[v] = rows[v]
      BY <1>2, <1>b, <2>3 DEF Poll
    <3>2. Passed(v)' \subseteq Passed(v)
      BY <3>1, <2>1 DEF Passed, Free
    <3> QED BY <1>a, <1>e, <2>1, <3>1, <3>2
  <2> QED BY <2>2, <2>3
<1>3. ASSUME NEW w \in Workers, NEW j \in Jobs, Claim(w, j)
      PROVE  /\ (pc[v] = "returned" => rows[v] = {})'
             /\ (pc[v] \in {"scan", "returned"} => Fewer(v))'
  <2>1. Failed \subseteq Failed'
    BY <1>3, <1>b DEF Claim, Failed
  <2>2. CASE v = w
    BY <1>3, <1>b, <2>2 DEF Claim
  <2>3. CASE v # w
    <3>1. pc'[v] = pc[v] /\ rows'[v] = rows[v] /\ UNCHANGED status
      BY <1>3, <1>b, <2>3 DEF Claim
    <3>2. \A k \in Jobs : lock'[k] = NoWorker => lock[k] = NoWorker
      BY <1>3, <1>b DEF Claim
    <3>3. Passed(v)' \subseteq Passed(v)
      BY <3>1, <3>2 DEF Passed, Free
    <3> QED BY <1>a, <1>e, <2>1, <3>1, <3>3
  <2> QED BY <2>2, <2>3
<1>4. ASSUME NEW w \in Workers, NEW j \in Jobs, Skip(w, j)
      PROVE  /\ (pc[v] = "returned" => rows[v] = {})'
             /\ (pc[v] \in {"scan", "returned"} => Fewer(v))'
  <2>1. Failed \subseteq Failed' /\ UNCHANGED <<pc, status, lock>> /\ ~Free(j) /\ pc[w] = "scan"
    BY <1>4 DEF Skip, Failed
  <2>2. rows'[v] = IF v = w THEN rows[v] \ {j} ELSE rows[v]
    BY <1>4, <1>b DEF Skip
  <2>3. Passed(v)' \subseteq Passed(v)
    BY <2>1, <2>2 DEF Passed, Free
  <2>4. pc'[v] = "returned" => rows'[v] = {}
    BY <1>a, <2>1, <2>2
  <2> QED BY <1>e, <2>1, <2>3, <2>4
<1>5. ASSUME NEW w \in Workers, IdlePoll(w)
      PROVE  /\ (pc[v] = "returned" => rows[v] = {})'
             /\ (pc[v] \in {"scan", "returned"} => Fewer(v))'
  <2>1. Failed \subseteq Failed'
    BY <1>5, <1>b DEF IdlePoll, Failed
  <2>2. UNCHANGED <<status, lock, rows>> /\ pc[w] = "scan" /\ rows[w] = {}
    BY <1>5 DEF IdlePoll
  <2>3. v # w => pc'[v] = pc[v]
    BY <1>5, <1>b DEF IdlePoll
  <2>4. Passed(v)' \subseteq Passed(v)
    BY <2>2 DEF Passed, Free
  <2> QED BY <1>a, <1>e, <2>1, <2>2, <2>3, <2>4
<1>6. ASSUME NEW w \in Workers, NEW j \in Jobs, Commit(w, j)
      PROVE  /\ (pc[v] = "returned" => rows[v] = {})'
             /\ (pc[v] \in {"scan", "returned"} => Fewer(v))'
  <2>1. Failed \subseteq Failed' /\ UNCHANGED rows
    BY <1>6, <1>b DEF Commit, Failed
  <2>2. pc'[v] = IF v = w THEN "claimed" ELSE pc[v]
    BY <1>6, <1>b DEF Commit
  <2>3. \A k \in Jobs : Free(k)' => Free(k)
    BY <1>6, <1>b DEF Commit, Free
  <2>4. Passed(v)' \subseteq Passed(v)
    BY <2>1, <2>3 DEF Passed
  <2> QED BY <1>a, <1>e, <2>1, <2>2, <2>4
<1>7. ASSUME NEW w \in Workers, Record(w)
      PROVE  /\ (pc[v] = "returned" => rows[v] = {})'
             /\ (pc[v] \in {"scan", "returned"} => Fewer(v))'
  <2>1. Failed \subseteq Failed' /\ UNCHANGED <<rows, status, lock>>
    BY <1>7, <1>b DEF Record, Failed
  <2>2. pc'[v] = IF v = w THEN "top" ELSE pc[v]
    BY <1>7, <1>b DEF Record
  <2>3. Passed(v)' \subseteq Passed(v)
    BY <2>1 DEF Passed, Free
  <2> QED BY <1>a, <1>e, <2>1, <2>2, <2>3
<1>8. ASSUME NEW w \in Workers, Fail(w)
      PROVE  /\ (pc[v] = "returned" => rows[v] = {})'
             /\ (pc[v] \in {"scan", "returned"} => Fewer(v))'
  <2>1. CASE v = w
    BY <1>8, <1>b, <2>1 DEF Fail
  <2>2. CASE v # w
    <3>1. pc'[v] = pc[v] /\ rows'[v] = rows[v] /\ UNCHANGED status
      BY <1>8, <1>b, <2>2 DEF Fail
    <3>2. Failed' = Failed \cup {w} /\ w \notin Failed
      BY <1>8, <1>b DEF Fail, Failed, Live
    <3>3. Cardinality(Failed') = Cardinality(Failed) + 1
      BY <3>2, <1>c, FS_AddElement
    <3>4. \A k \in Jobs : Free(k)' => Free(k) \/ lock[k] = w
      BY <1>8, <1>b DEF Fail, Free
    <3>5. CASE \E k \in Jobs : lock[k] = w
      <4>1. PICK k \in Jobs : lock[k] = w
        BY <3>5
      <4>2. \A l \in Jobs : lock[l] = w => l = k
        BY <4>1 DEF LockInv
      <4>3. Passed(v)' \subseteq Passed(v) \cup {k}
        BY <3>1, <3>4, <4>2 DEF Passed
      <4>4. ASSUME pc[v] \in {"scan", "returned"} PROVE Fewer(v)'
        <5>1. IsFiniteSet(Passed(v)) /\ Cardinality(Passed(v)) <= Cardinality(Failed)
          BY <4>4, <1>a, Zenon DEF Fewer
        <5>2. /\ IsFiniteSet(Passed(v) \cup {k})
              /\ Cardinality(Passed(v)) \in Nat
              /\ Cardinality(Passed(v) \cup {k}) = IF k \in Passed(v) THEN Cardinality(Passed(v))
                                                   ELSE Cardinality(Passed(v)) + 1
          BY <5>1, FS_AddElement, FS_CardinalityType
        <5>3. /\ IsFiniteSet(Passed(v)') /\ Cardinality(Passed(v)') \in Nat
              /\ Cardinality(Passed(v)') <= Cardinality(Passed(v) \cup {k})
          BY <5>2, <4>3, FS_Subset, FS_CardinalityType
        <5>4. Cardinality(Passed(v)') <= Cardinality(Failed')
          BY <5>1, <5>2, <5>3, <3>3, <1>c
        <5>5. IsFiniteSet(Passed(v)') /\ Cardinality(Passed(v)') <= Cardinality(Failed')
          BY <5>3, <5>4
        <5> QED BY <5>5, Zenon DEF Fewer
      <4> QED BY <1>a, <3>1, <4>4
    <3>6. CASE ~\E k \in Jobs : lock[k] = w
      <4>1. Passed(v)' \subseteq Passed(v)
        BY <3>1, <3>4, <3>6 DEF Passed
      <4> QED BY <1>a, <1>e, <3>1, <3>2, <4>1
    <3> QED BY <3>5, <3>6
  <2> QED BY <2>1, <2>2
<1>9. CASE UNCHANGED vars
  <2>1. UNCHANGED <<pc, rows, status, lock>>
    BY <1>9 DEF vars
  <2>2. Failed \subseteq Failed' /\ Passed(v)' \subseteq Passed(v)
    BY <2>1 DEF Failed, Passed, Free
  <2> QED BY <1>a, <1>e, <2>1, <2>2
<1> QED
  BY <1>1, <1>2, <1>3, <1>4, <1>5, <1>6, <1>7, <1>8, <1>9 DEF Next, Step, Finished

\* The workers' own lists follow the table.  A commit's job was not done before,
\* so no worker had recorded it.
LEMMA StatsStep == TypeInv /\ ExactlyOnce /\ LockInv /\ StatsInv /\ [Next]_vars => StatsInv'
<1> DEFINE Stats(v) == OwnJobs(v) /\ NoRepeats(v) /\ ClaimIsNew(v) /\ AllRecorded(v)
<1> SUFFICES ASSUME TypeInv, ExactlyOnce, LockInv, StatsInv, [Next]_vars, NEW v \in Workers
             PROVE  Stats(v)'
  BY DEF StatsInv
<1>0. Stats(v) /\ jobIds[v] \in Seq(Jobs) /\ Len(jobIds[v]) \in Nat
  BY DEF StatsInv, TypeInv, TypeOK
<1>1. ASSUME UNCHANGED <<workerId, jobIds, claimedId>>, pc'[v] = pc[v] PROVE Stats(v)'
  BY <1>0, <1>1 DEF OwnJobs, NoRepeats, ClaimIsNew, AllRecorded, Recorded
<1>2. ASSUME UNCHANGED <<workerId, jobIds, claimedId>>,
             pc[v] \notin {"claimed", "failed"}, pc'[v] # "claimed" PROVE Stats(v)'
  BY <1>0, <1>2 DEF OwnJobs, NoRepeats, ClaimIsNew, AllRecorded, Recorded
<1>3. ASSUME NEW w \in Workers, NEW j \in Jobs, Commit(w, j) PROVE Stats(v)'
  <2>1. workerId[j] = NoWorker
    BY <1>3 DEF Commit, LockInv, ExactlyOnce
  <2>2. ~Recorded(v, j)
    BY <1>0, <2>1 DEF OwnJobs, Recorded
  <2>3. jobIds' = jobIds /\ workerId' = [workerId EXCEPT ![j] = w] /\ workerId'[j] = w
    BY <1>3 DEF Commit, TypeInv, TypeOK
  <2>4. OwnJobs(v)' /\ NoRepeats(v)'
    <3>1. NoRepeats(v)'
      BY <1>0, <2>3 DEF NoRepeats
    <3>2. OwnJobs(v)'
      BY <1>0, <2>1, <2>3 DEF OwnJobs, TypeInv, TypeOK
    <3> QED
      BY <3>1, <3>2
  <2>5. CASE v = w
    <3>1. pc[v] = "handler" /\ pc'[v] = "claimed" /\ claimedId'[v] = j
      BY <1>3, <2>5 DEF Commit, TypeInv, TypeOK
    <3>2. ClaimIsNew(v)'
      BY <2>2, <2>3, <2>5, <3>1 DEF ClaimIsNew, Recorded
    <3>3. AllRecorded(v)'
      BY <1>0, <2>3, <3>1 DEF AllRecorded, Recorded, TypeInv, TypeOK
    <3> QED
      BY <2>4, <3>2, <3>3
  <2>6. CASE v # w
    <3>1. pc'[v] = pc[v] /\ claimedId'[v] = claimedId[v]
      BY <1>3, <2>6 DEF Commit, TypeInv, TypeOK
    <3>2. ClaimIsNew(v)'
      BY <1>0, <2>1, <2>3, <3>1 DEF ClaimIsNew, Recorded, TypeInv, TypeOK, LoopInv
    <3>3. AllRecorded(v)'
      BY <1>0, <2>3, <2>6, <3>1 DEF AllRecorded, Recorded, TypeInv, TypeOK
    <3> QED
      BY <2>4, <3>2, <3>3
  <2> QED
    BY <2>5, <2>6
<1>4. ASSUME NEW w \in Workers, Record(w) PROVE Stats(v)'
  <2>1. CASE v = w
    <3>1. claimedId[v] \in Jobs /\ pc[v] = "claimed" /\ pc'[v] = "top" /\ workerId' = workerId
      BY <1>4, <2>1 DEF Record, TypeInv, TypeOK, LoopInv
    <3>2. jobIds'[v] = Append(jobIds[v], claimedId[v])
      BY <1>4, <2>1 DEF Record, TypeInv, TypeOK
    <3>3. Len(jobIds'[v]) = Len(jobIds[v]) + 1
      BY <1>0, <3>1, <3>2
    <3>4. \A i \in 1..Len(jobIds[v]) : jobIds'[v][i] = jobIds[v][i]
      BY <1>0, <3>1, <3>2
    <3>5. jobIds'[v][Len(jobIds[v]) + 1] = claimedId[v]
      BY <1>0, <3>1, <3>2
    <3>6. OwnJobs(v)'
      BY <1>0, <3>1, <3>3, <3>4, <3>5 DEF OwnJobs, ClaimIsNew
    <3>7. NoRepeats(v)'
      <4>1. \A i \in 1..Len(jobIds[v]) : jobIds'[v][i] # claimedId[v]
        BY <1>0, <3>1, <3>4 DEF ClaimIsNew, Recorded
      <4> SUFFICES ASSUME NEW i \in 1..Len(jobIds'[v]), NEW k \in 1..Len(jobIds'[v]), i # k
                   PROVE  jobIds'[v][i] # jobIds'[v][k]
        BY DEF NoRepeats
      <4>2. CASE i \in 1..Len(jobIds[v]) /\ k \in 1..Len(jobIds[v])
        BY <1>0, <3>4, <4>2 DEF NoRepeats
      <4>3. CASE i = Len(jobIds[v]) + 1 \/ k = Len(jobIds[v]) + 1
        BY <1>0, <3>3, <3>5, <4>1, <4>3
      <4> QED
        BY <1>0, <3>3, <4>2, <4>3
    <3>8. \A j \in Jobs : Recorded(v, j) \/ j = claimedId[v] => Recorded(v, j)'
      BY <1>0, <3>3, <3>4, <3>5 DEF Recorded
    <3>9. ClaimIsNew(v)'
      BY <3>1 DEF ClaimIsNew
    <3>10. \A j \in Jobs : workerId'[j] = v => Recorded(v, j)'
      BY <1>0, <3>1, <3>8 DEF AllRecorded
    <3>11. AllRecorded(v)'
      BY <3>10 DEF AllRecorded
    <3> QED
      BY <3>6, <3>7, <3>9, <3>11
  <2>2. CASE v # w
    <3>1. /\ jobIds'[v] = jobIds[v] /\ pc'[v] = pc[v] /\ claimedId'[v] = claimedId[v]
          /\ workerId' = workerId
      BY <1>4, <2>2 DEF Record, TypeInv, TypeOK
    <3> QED
      BY <1>0, <3>1 DEF OwnJobs, NoRepeats, ClaimIsNew, AllRecorded, Recorded
  <2> QED
    BY <2>1, <2>2
<1>5. ASSUME NEW w \in Workers, Fail(w) PROVE Stats(v)'
  <2>1. CASE v = w
    <3>1. jobIds'[v] = <<>> /\ pc'[v] = "failed"
      BY <1>5, <2>1 DEF Fail, TypeInv, TypeOK
    <3> QED
      BY <3>1 DEF OwnJobs, NoRepeats, ClaimIsNew, AllRecorded, Recorded
  <2>2. CASE v # w
    <3>1. /\ jobIds'[v] = jobIds[v] /\ pc'[v] = pc[v] /\ claimedId'[v] = claimedId[v]
          /\ workerId' = workerId
      BY <1>5, <2>2 DEF Fail, TypeInv, TypeOK
    <3> QED
      BY <1>0, <3>1 DEF OwnJobs, NoRepeats, ClaimIsNew, AllRecorded, Recorded
  <2> QED
    BY <2>1, <2>2
<1>6. ASSUME NEW w \in Workers, Poll(w) \/ IdlePoll(w) \/ \E j \in Jobs : Claim(w, j) \/ Skip(w, j)
      PROVE  Stats(v)'
  <2>1. /\ UNCHANGED <<workerId, jobIds, claimedId>>
        /\ \/ pc'[v] = pc[v]
           \/ pc[v] \notin {"claimed", "failed"} /\ pc'[v] # "claimed"
    BY <1>6 DEF Poll, IdlePoll, Claim, Skip, TypeInv, TypeOK
  <2> QED
    BY <1>1, <1>2, <2>1
<1>7. ASSUME NEW j \in Jobs, Enqueue(j) PROVE Stats(v)'
  BY <1>1, <1>7 DEF Enqueue
<1>8. CASE UNCHANGED vars
  BY <1>1, <1>8 DEF vars
<1> QED
  BY <1>3, <1>4, <1>5, <1>6, <1>7, <1>8 DEF Next, Step, Finished

\* The strengthened invariant holds in every state of the pool: it holds of a
\* freshly filled job_queue and every step of runWorker keeps each of its parts.
LEMMA Invariance == Spec => []IInv
<1>1. IInv /\ [Next]_vars => IInv'
  BY TypeStep, TableStep, ScanStep, DeathStep, StatsStep DEF IInv
<1> QED
  BY InitIInv, <1>1, PTL DEF Spec

-----------------------------------------------------------------------------
\* Every reachable state of the pool is of its type; in particular no worker
\* counts past MaxIdlePolls.
THEOREM TypeCorrect == Spec => []TypeOK
  BY Invariance, PTL DEF IInv, TypeInv

\* No interleaving of polls, commits and deaths makes two workers complete the
\* same job, for any number of jobs and workers.
THEOREM ExactlyOnceHolds == Spec => []ExactlyOnce
  BY Invariance, PTL DEF IInv

\* Unless a worker died, a worker that gives up leaves no backlog job behind
\* that is neither done nor held.
THEOREM NoEarlyReturnHolds == Spec => []NoEarlyReturn
<1>1. IInv => NoEarlyReturn
  BY DEF IInv, ScanInv, Settled, NoEarlyReturn
<1> QED
  BY <1>1, Invariance, PTL

\* Once a worker has given up, each death has cost the backlog at most one job.
THEOREM OneJobPerDeathHolds == Spec => []OneJobPerDeath
<1>1. ASSUME IInv, NEW w \in Workers, pc[w] = "returned"
      PROVE  Cardinality({j \in Backlog : Free(j)}) <= Cardinality({u \in Workers : pc[u] = "failed"})
  <2>1. rows[w] = {} /\ Cardinality(Passed(w)) <= Cardinality(Failed)
    BY <1>1 DEF IInv, DeathInv
  <2>2. Passed(w) = {j \in Backlog : Free(j)}
    BY <2>1 DEF Passed
  <2>3. Failed = {u \in Workers : pc[u] = "failed"}
    BY Zenon DEF Failed
  <2> QED
    BY <2>1, <2>2, <2>3
<1>2. IInv => OneJobPerDeath
  BY <1>1 DEF OneJobPerDeath
<1> QED
  BY <1>2, Invariance, PTL

\* What the workers report agrees with job_queue.
THEOREM StatsMatchTableHolds == Spec => []StatsMatchTable
<1>1. IInv => StatsMatchTable
  BY DEF IInv, StatsInv, OwnJobs, NoRepeats, AllRecorded, StatsMatchTable, Recorded
<1> QED
  BY <1>1, Invariance, PTL

\* The pool implements WorkQueue: a commit is one Finish of a pending job, an
\* enqueue is one Add, and every other step changes nothing that WorkQueue sees.
THEOREM Implementation == Spec => ImplementsWorkQueue
<1>1. Init => WQ!Init
  BY DEF Init, WQ!Init
<1>2. IInv /\ [Next]_vars => [WQ!Next]_(WQ!wqVars)
  <2> SUFFICES ASSUME IInv, [Next]_vars PROVE [WQ!Next]_(WQ!wqVars)
    OBVIOUS
  <2>1. ASSUME NEW j \in Jobs, Enqueue(j) PROVE WQ!Next
    BY <2>1 DEF Enqueue, WQ!Next, WQ!Add
  <2>2. ASSUME NEW w \in Workers, NEW j \in Jobs, Commit(w, j) PROVE WQ!Next
    <3>1. status[j] = "pending" /\ processed[j] = 0
      BY <2>2 DEF IInv, TypeInv, TypeOK, LockInv, ExactlyOnce, Commit
    <3>2. WQ!Finish(j, w)
      BY <2>2, <3>1 DEF Commit, WQ!Finish
    <3> QED
      BY <3>2 DEF WQ!Next
  <2>3. ASSUME UNCHANGED <<status, processed, workerId>> PROVE UNCHANGED WQ!wqVars
    BY <2>3 DEF WQ!wqVars
  <2> QED
    BY <2>1, <2>2, <2>3
       DEF Next, Step, Finished, vars, Poll, Claim, Skip, IdlePoll, Record, Fail
<1> QED
  BY <1>1, <1>2, Invariance, PTL DEF Spec, ImplementsWorkQueue, WQ!Spec
=============================================================================
