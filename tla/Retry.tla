------------------------------- MODULE Retry --------------------------------
(***************************************************************************)
(* withRetry of src/src/concurrency/retry.ts around the read-modify-write  *)
(* of src/src/demo-retry.ts, under REPEATABLE READ.                        *)
(*                                                                         *)
(* A transaction reads from the snapshot its first statement took, and     *)
(* writes absolute values computed from it.  Its UPDATE of a row waits     *)
(* while another transaction holds the row, and then fails with 40001 if   *)
(* the row has changed since the snapshot.  A circle of waiting            *)
(* transactions is broken with 40P01.  On either error withRetry runs the  *)
(* whole transaction again, up to maxAttempts times; on any other error it *)
(* throws.                                                                 *)
(*                                                                         *)
(* The demo's writers add the same amount to one row; here a writer adds   *)
(* one to each row of its path.  The writers in Parties meet at the demo's *)
(* barrier between the read and the write of their first attempt.          *)
(***************************************************************************)
EXTENDS Naturals, Sequences, FiniteSets

CONSTANTS
    Rows,           \* the rows the writers share
    Writers,        \* the concurrent calls of withRetry
    Path,           \* writer -> the rows it updates, in order
    Parties,        \* the writers whose fn waits at the barrier
    NoOne,          \* nobody holds the row lock
    MaxAttempts     \* options.maxAttempts

ASSUME WritersAssumption == IsFiniteSet(Writers) /\ NoOne \notin Writers /\ Parties \subseteq Writers
ASSUME PathAssumption == Path \in [Writers -> Seq(Rows)]
ASSUME MaxAttemptsAssumption == MaxAttempts \in Nat \ {0}

VARIABLES
    value,          \* the rows, committed
    version,        \* row -> the commits that changed it
    lock,           \* row -> the writer that holds its lock
    pc,             \* writer -> its place in withRetry
    snapshot,       \* writer -> the values and versions it reads
    todo,           \* writer -> the rows it has yet to update in this attempt
    written,        \* writer -> the uncommitted values, for the rows it holds
    attempt,        \* writer -> the loop counter of withRetry
    error,          \* writer -> the SQLSTATE its last attempt failed with
    conflicts,      \* writer -> its 40001 failures so far (the retries array)
    arrived,        \* the writers that have called allHaveRead()
    applied         \* writer -> how often its changes were committed (history variable)

vars == <<value, version, lock, pc, snapshot, todo, written, attempt, error, conflicts,
          arrived, applied>>

db == <<value, version>>

RETRYABLE_SQLSTATES == {"40001", "40P01"}

Init ==
    /\ value = [x \in Rows |-> 0]
    /\ version = [x \in Rows |-> 0]
    /\ lock = [x \in Rows |-> NoOne]
    /\ pc = [w \in Writers |-> "begin"]
    /\ snapshot = [w \in Writers |-> [value |-> value, version |-> version]]
    /\ todo = [w \in Writers |-> <<>>]
    /\ written = [w \in Writers |-> value]
    /\ attempt = [w \in Writers |-> 1]
    /\ error = [w \in Writers |-> "none"]
    /\ conflicts = [w \in Writers |-> 0]
    /\ arrived = {}
    /\ applied = [w \in Writers |-> 0]

-----------------------------------------------------------------------------
(* Postgres.                                                               *)

ReleaseLocks(w) == lock' = [x \in Rows |-> IF lock[x] = w THEN NoOne ELSE lock[x]]

\* The transaction fails: Postgres rolls it back and the driver throws.
Abort(w, sqlState) ==
    /\ ReleaseLocks(w)
    /\ error' = [error EXCEPT ![w] = sqlState]
    /\ pc' = [pc EXCEPT ![w] = "caught"]
    /\ UNCHANGED <<snapshot, todo, written, attempt, arrived>>

\* What the transaction wrote becomes visible at once.
Install(w) ==
    /\ value' = [x \in Rows |-> IF lock[x] = w THEN written[w][x] ELSE value[x]]
    /\ version' = [x \in Rows |-> IF lock[x] = w THEN version[x] + 1 ELSE version[x]]
    /\ applied' = [applied EXCEPT ![w] = @ + 1]

Waits(w) == pc[w] = "write" /\ todo[w] # <<>> /\ lock[Head(todo[w])] \notin {NoOne, w}

\* w is on a circle of transactions that wait for each other.
InDeadlock(w) ==
    \E circle \in SUBSET Writers :
        /\ w \in circle
        /\ \A q \in circle : Waits(q)
        /\ {lock[Head(todo[q])] : q \in circle} = circle

-----------------------------------------------------------------------------
(* One attempt.                                                            *)

\* The first SELECT takes the snapshot; fn computes what it will write and, on
\* the first attempt, goes to the barrier.
Read(w) ==
    /\ pc[w] = "begin"
    /\ snapshot' = [snapshot EXCEPT ![w] = [value |-> value, version |-> version]]
    /\ todo' = [todo EXCEPT ![w] = Path[w]]
    /\ IF attempt[w] = 1 /\ w \in Parties
       THEN arrived' = arrived \cup {w} /\ pc' = [pc EXCEPT ![w] = "barrier"]
       ELSE UNCHANGED arrived /\ pc' = [pc EXCEPT ![w] = "write"]
    /\ UNCHANGED <<db, lock, written, attempt, error, conflicts, applied>>

\* Mutant of Opened: the barrier opens one arrival too early.
OpenedEarly == Cardinality(arrived) + 1 >= Cardinality(Parties)

\* barrier(count): the promise everyone awaits is resolved by the last arrival.
Opened == Cardinality(arrived) >= Cardinality(Parties)

\* A connection lost at the barrier is noticed by the statement after it.
Pass(w) ==
    /\ pc[w] = "barrier"
    /\ Opened
    /\ pc' = [pc EXCEPT ![w] = "write"]
    /\ UNCHANGED <<db, lock, snapshot, todo, written, attempt, error, conflicts, arrived, applied>>

\* UPDATE ... SET balance_cents = <the value read, plus one>.
Write(w) ==
    LET x == Head(todo[w]) IN
    /\ pc[w] = "write"
    /\ todo[w] # <<>>
    /\ lock[x] \in {NoOne, w}
    /\ version[x] = snapshot[w].version[x]
    /\ lock' = [lock EXCEPT ![x] = w]
    /\ written' = [written EXCEPT ![w][x] = snapshot[w].value[x] + 1]
    /\ todo' = [todo EXCEPT ![w] = Tail(@)]
    /\ UNCHANGED <<db, pc, snapshot, attempt, error, conflicts, arrived, applied>>

\* could not serialize access due to concurrent update
Conflict(w) ==
    LET x == Head(todo[w]) IN
    /\ pc[w] = "write"
    /\ todo[w] # <<>>
    /\ lock[x] \in {NoOne, w}
    /\ version[x] # snapshot[w].version[x]
    /\ Abort(w, "40001")
    /\ conflicts' = [conflicts EXCEPT ![w] = @ + 1]
    /\ UNCHANGED <<db, applied>>

Deadlock(w) ==
    /\ InDeadlock(w)
    /\ Abort(w, "40P01")
    /\ UNCHANGED <<db, conflicts, arrived, applied>>

\* COMMIT is confirmed: withRetry returns.
Commit(w) ==
    /\ pc[w] = "write"
    /\ todo[w] = <<>>
    /\ Install(w)
    /\ ReleaseLocks(w)
    /\ pc' = [pc EXCEPT ![w] = "returned"]
    /\ UNCHANGED <<snapshot, todo, written, attempt, error, conflicts, arrived>>

\* The connection fails (08006): before COMMIT the transaction is gone, during
\* COMMIT it may have taken effect.
LoseConnection(w) ==
    /\ pc[w] \in {"begin", "write"}
    /\ \/ UNCHANGED <<db, applied>>
       \/ /\ pc[w] = "write"
          /\ todo[w] = <<>>
          /\ Install(w)
    /\ Abort(w, "08006")
    /\ UNCHANGED conflicts

-----------------------------------------------------------------------------
(* The catch block of withRetry.                                           *)

\* Mutant of IsRetryable: every failure is retried.
IsRetryableAlways(sqlState) == TRUE

IsRetryable(sqlState) == sqlState \in RETRYABLE_SQLSTATES

\* Mutant of Again: only the writes are run again, with the values computed
\* before, on a new snapshot.
AgainWithoutRead(w) ==
    /\ pc[w] = "caught"
    /\ IsRetryable(error[w])
    /\ attempt[w] < MaxAttempts
    /\ attempt' = [attempt EXCEPT ![w] = @ + 1]
    /\ snapshot' = [snapshot EXCEPT ![w].version = version]
    /\ todo' = [todo EXCEPT ![w] = Path[w]]
    /\ pc' = [pc EXCEPT ![w] = "write"]
    /\ UNCHANGED <<db, lock, written, error, conflicts, arrived, applied>>

\* Mutant of Again: the statements are run again in the transaction that failed.
AgainSameSnapshot(w) ==
    /\ pc[w] = "caught"
    /\ IsRetryable(error[w])
    /\ attempt[w] < MaxAttempts
    /\ attempt' = [attempt EXCEPT ![w] = @ + 1]
    /\ todo' = [todo EXCEPT ![w] = Path[w]]
    /\ pc' = [pc EXCEPT ![w] = "write"]
    /\ UNCHANGED <<db, lock, snapshot, written, error, conflicts, arrived, applied>>

\* Mutant of Again: the attempts are not counted.
AgainUncounted(w) ==
    /\ pc[w] = "caught"
    /\ IsRetryable(error[w])
    /\ attempt[w] < MaxAttempts
    /\ pc' = [pc EXCEPT ![w] = "begin"]
    /\ UNCHANGED <<db, lock, snapshot, todo, written, attempt, error, conflicts, arrived, applied>>

\* Backoff, then the next attempt from its beginning.
Again(w) ==
    /\ pc[w] = "caught"
    /\ IsRetryable(error[w])
    /\ attempt[w] < MaxAttempts
    /\ attempt' = [attempt EXCEPT ![w] = @ + 1]
    /\ pc' = [pc EXCEPT ![w] = "begin"]
    /\ UNCHANGED <<db, lock, snapshot, todo, written, error, conflicts, arrived, applied>>

GiveUp(w) ==
    /\ pc[w] = "caught"
    /\ ~IsRetryable(error[w]) \/ attempt[w] >= MaxAttempts
    /\ pc' = [pc EXCEPT ![w] = "threw"]
    /\ UNCHANGED <<db, lock, snapshot, todo, written, attempt, error, conflicts, arrived, applied>>

Step(w) ==
    Read(w) \/ Pass(w) \/ Write(w) \/ Conflict(w) \/ Deadlock(w) \/ Commit(w) \/ Again(w) \/ GiveUp(w)

\* A party that threw before it arrived never will: the others wait for ever,
\* each with its transaction open.
Stranded(w) == pc[w] = "barrier" /\ \E q \in Parties \ arrived : pc[q] = "threw"

AllEnded ==
    /\ \A w \in Writers : pc[w] \in {"returned", "threw"} \/ Stranded(w)
    /\ UNCHANGED vars

Next == (\E w \in Writers : Step(w) \/ LoseConnection(w)) \/ AllEnded

Spec == Init /\ [][Next]_vars

\* A transaction that is not blocked runs on, and the backoff ends.
FairSpec == Spec /\ \A w \in Writers : WF_vars(Step(w))

-----------------------------------------------------------------------------
WritersOf(x) == {w \in Writers : \E i \in DOMAIN Path[w] : Path[w][i] = x}

\* "Lost update: final balance ..., expected ..." (demo-retry.ts): at every
\* moment a row holds exactly one increment for each writer of it that has
\* committed, so a retry neither loses what others wrote nor repeats a write.
NoLostUpdate ==
    \A x \in Rows :
        value[x] = Cardinality({w \in WritersOf(x) : applied[w] > 0})

\* "A blind retry could double it" (retry.ts): a writer's changes are committed
\* at most once, exactly once if withRetry returned, and not at all if it threw
\* an error that says the transaction was aborted.
CommittedAtMostOnce ==
    \A w \in Writers :
        /\ applied[w] <= 1
        /\ pc[w] = "returned" => applied[w] = 1
        /\ pc[w] = "threw" /\ error[w] \in RETRYABLE_SQLSTATES => applied[w] = 0

\* A serialization failure is paid for by another writer's commit, and no commit
\* pays twice: a writer that meets no deadlock and has more attempts than there
\* are other writers never throws 40001.
ConflictsAreProgress ==
    \A w \in Writers : conflicts[w] <= Cardinality({q \in Writers \ {w} : applied[q] > 0})

\* What demo-retry.ts asks of the outcomes: a failure was provoked, the final
\* balance is start + WRITERS * DELTA, and no SQLSTATE was retried that is not
\* retryable (error keeps the one the last retry was for).
Verdict ==
    /\ \E w \in Writers : attempt[w] > 1
    /\ \A x \in Rows : value[x] = Cardinality(WritersOf(x))
    /\ \A w \in Writers : error[w] \in RETRYABLE_SQLSTATES \cup {"none"}

\* "On the first attempt all WRITERS read before any of them writes, so
\* WRITERS - 1 failures are guaranteed" (demo-retry.ts): of the parties that
\* update one row at most one commits on its first attempt, and if all calls
\* return the demo's verdict is OK.
BarrierForcesConflict ==
    /\ \A x \in Rows :
           Cardinality({w \in WritersOf(x) \cap Parties : applied[w] > 0 /\ attempt[w] = 1}) <= 1
    /\ (\A w \in Writers : pc[w] = "returned") => Verdict

\* Every call of withRetry returns or throws, whatever conflicts and deadlocks
\* it meets, unless a lost connection keeps a party from the barrier.
EveryCallEnds == \A w \in Writers : <>(pc[w] \in {"returned", "threw"} \/ Stranded(w))
=============================================================================
