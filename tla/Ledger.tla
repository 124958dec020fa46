------------------------------- MODULE Ledger -------------------------------
(***************************************************************************)
(* Concurrent requests on accounts, transactions and job_queue, statement  *)
(* by statement, as Postgres runs them at READ COMMITTED.                  *)
(*                                                                         *)
(* What a transaction has written and not committed is in work[r]; the     *)
(* variables balance, tx and jobs are the committed tables.  An UPDATE of  *)
(* an account or a SELECT ... FOR UPDATE of an order takes the row's lock, *)
(* waits while another transaction has it, and re-reads the row when it    *)
(* gets it: the condition of a guarded UPDATE is decided on the committed  *)
(* row at the moment the lock is taken.  COMMIT and ROLLBACK release every *)
(* lock.  When transactions wait for each other in a circle Postgres       *)
(* aborts one of them.                                                     *)
(***************************************************************************)
EXTENDS Accounting

CONSTANT NoOne          \* no request holds the lock

ASSUME LedgerAssumption == NoOne \notin Requests

VARIABLES
    balance,            \* accounts.balance_cents, committed
    tx,                 \* transactions, committed
    jobs,               \* the orders in job_queue, committed
    accountLock,        \* account -> the request that holds its row lock
    rowLock,            \* order   -> the request that holds its row lock
    op,                 \* request -> what it asks for
    pc,                 \* request -> the statement it is about to run
    work,               \* request -> what it has written and not committed
    todo,               \* request -> the keys of its deltas a batch has yet to update
    answer,             \* request -> how it ended
    placed,             \* orders announced by an order.placed event
    statusEvents,       \* <<order, status>> pairs announced to SSE/WS clients
    history             \* order -> every status it was committed with (history variable)

tables == <<balance, tx, jobs>>
events == <<placed, statusEvents>>
vars == <<balance, tx, jobs, accountLock, rowLock, op, pc, work, todo, answer,
          placed, statusEvents, history>>

NoWork == [delta |-> [a \in Accounts |-> 0], rows |-> [t \in {} |-> NoRow], jobs |-> {}]

FirstStatement == [checkout |-> "debit", batch |-> "validate", status |-> "lock"]

Init ==
    /\ balance = Opening
    /\ tx = [t \in RowIds |-> IF t \in Seeded THEN SeededRow[t] ELSE NoRow]
    /\ jobs = {}
    /\ accountLock = [a \in Accounts |-> NoOne]
    /\ rowLock = [t \in RowIds |-> NoOne]
    /\ op \in [Requests -> Ops]
    /\ pc = [r \in Requests |-> FirstStatement[op[r].kind]]
    /\ work = [r \in Requests |-> NoWork]
    /\ todo = [r \in Requests |-> {}]
    /\ answer = [r \in Requests |-> "none"]
    /\ placed = {}
    /\ statusEvents = {}
    /\ history = [t \in RowIds |-> IF t \in Seeded THEN {SeededRow[t].status} ELSE {}]

-----------------------------------------------------------------------------
(* Postgres.                                                               *)

At(r, kind, statement) == op[r].kind = kind /\ pc[r] = statement

Goto(r, statement) == pc' = [pc EXCEPT ![r] = statement]

ReleaseLocks(r) ==
    /\ accountLock' = [a \in Accounts |-> IF accountLock[a] = r THEN NoOne ELSE accountLock[a]]
    /\ rowLock' = [t \in RowIds |-> IF rowLock[t] = r THEN NoOne ELSE rowLock[t]]

\* ROLLBACK: nothing that was written stays, the request ends with `why`.
Rollback(r, why) ==
    /\ ReleaseLocks(r)
    /\ work' = [work EXCEPT ![r] = NoWork]
    /\ todo' = [todo EXCEPT ![r] = {}]
    /\ answer' = [answer EXCEPT ![r] = why]
    /\ Goto(r, "ended")
    /\ UNCHANGED <<tables, events, history, op>>

\* COMMIT: everything that was written becomes visible at once.
CommitWork(r) ==
    LET written == work[r].rows IN
    /\ balance' = [a \in Accounts |-> balance[a] + work[r].delta[a]]
    /\ tx' = [t \in RowIds |-> IF t \in DOMAIN written THEN written[t] ELSE tx[t]]
    /\ jobs' = jobs \cup work[r].jobs
    /\ history' = [t \in RowIds |-> IF t \in DOMAIN written
                                    THEN history[t] \cup {written[t].status} ELSE history[t]]
    /\ ReleaseLocks(r)
    /\ work' = [work EXCEPT ![r] = NoWork]

\* UPDATE accounts SET balance_cents = balance_cents + d WHERE id = a.
AddToBalance(r, a, d) ==
    /\ accountLock[a] \in {NoOne, r}
    /\ accountLock' = [accountLock EXCEPT ![a] = r]
    /\ work' = [work EXCEPT ![r].delta[a] = @ + d]
    /\ UNCHANGED rowLock

-----------------------------------------------------------------------------
(* checkout: debit, fx rate, INSERT order, INSERT job, COMMIT, publish.    *)

\* Mutant of Debit: the balance is not part of the UPDATE's condition.
DebitUnguarded(r) ==
    LET o == op[r] IN
    /\ At(r, "checkout", "debit")
    /\ o.acct \in Accounts
    /\ accountLock[o.acct] = NoOne
    /\ AddToBalance(r, o.acct, -o.cost)
    /\ Goto(r, "fx")
    /\ UNCHANGED <<tables, events, history, op, todo, answer>>

\* The guarded UPDATE of debitAccount: one statement checks the balance and
\* takes the row lock.
Debit(r) ==
    LET o == op[r] IN
    /\ At(r, "checkout", "debit")
    /\ o.acct \in Accounts
    /\ balance[o.acct] >= o.cost
    /\ accountLock[o.acct] = NoOne
    /\ AddToBalance(r, o.acct, -o.cost)
    /\ Goto(r, "fx")
    /\ UNCHANGED <<tables, events, history, op, todo, answer>>

\* Zero rows updated: the account is too poor, or is not there.  A row whose
\* committed balance does not match is not waited for.
DebitNothing(r) ==
    LET o == op[r] IN
    /\ At(r, "checkout", "debit")
    /\ \/ /\ o.acct \notin Accounts
          /\ Rollback(r, "account_not_found")
       \/ /\ o.acct \in Accounts
          /\ balance[o.acct] < o.cost
          /\ Rollback(r, "insufficient_funds")

ResolveFxRate(r) ==
    /\ At(r, "checkout", "fx")
    /\ op[r].acct \in Quoted
    /\ Goto(r, "insert")
    /\ UNCHANGED <<tables, events, history, op, accountLock, rowLock, work, todo, answer>>

\* Mutant of NoFxRate: the rejection is returned, not thrown, so the transaction
\* commits what it has written so far.
NoFxRateReturned(r) ==
    /\ At(r, "checkout", "fx")
    /\ op[r].acct \notin Quoted
    /\ CommitWork(r)
    /\ answer' = [answer EXCEPT ![r] = "no_fx_rate"]
    /\ Goto(r, "ended")
    /\ UNCHANGED <<events, op, todo>>

\* CheckoutRejected is thrown inside the transaction, after the debit.
NoFxRate(r) ==
    /\ At(r, "checkout", "fx")
    /\ op[r].acct \notin Quoted
    /\ Rollback(r, "no_fx_rate")

InsertOrder(r) ==
    /\ At(r, "checkout", "insert")
    /\ work' = [work EXCEPT ![r].rows = [t \in {<<r, 1>>} |-> OrderRow(op[r])]]
    /\ Goto(r, "job")
    /\ UNCHANGED <<tables, events, history, op, accountLock, rowLock, todo, answer>>

\* Mutant of InsertJob: the event goes out before COMMIT.
InsertJobAndPublish(r) ==
    /\ At(r, "checkout", "job")
    /\ work' = [work EXCEPT ![r].jobs = {<<r, 1>>}]
    /\ placed' = placed \cup {<<r, 1>>}
    /\ Goto(r, "commit")
    /\ UNCHANGED <<tables, statusEvents, history, op, accountLock, rowLock, todo, answer>>

InsertJob(r) ==
    /\ At(r, "checkout", "job")
    /\ work' = [work EXCEPT ![r].jobs = {<<r, 1>>}]
    /\ Goto(r, "commit")
    /\ UNCHANGED <<tables, events, history, op, accountLock, rowLock, todo, answer>>

\* The callback returned: COMMIT, then publish.
CommitCheckout(r) ==
    /\ At(r, "checkout", "commit")
    /\ CommitWork(r)
    /\ Goto(r, "publish")
    /\ UNCHANGED <<events, op, todo, answer>>

\* publish(order.placed) after COMMIT; when it throws, checkout throws too, and
\* the order stands all the same.
PublishPlaced(r) ==
    /\ At(r, "checkout", "publish")
    /\ \/ /\ placed' = placed \cup {<<r, 1>>}
          /\ answer' = [answer EXCEPT ![r] = "ok"]
       \/ /\ answer' = [answer EXCEPT ![r] = "publish_failed"]
          /\ UNCHANGED placed
    /\ Goto(r, "ended")
    /\ UNCHANGED <<tables, statusEvents, history, op, accountLock, rowLock, work, todo>>

-----------------------------------------------------------------------------
(* TransactionsService.create: validate, saveMany, one UPDATE per account. *)

\* The validation loop has no await in it: it is one step.  `ok` stands for the
\* ownership, currency and instrument checks of the entry.
Valid(e) == e.acct \in Accounts /\ e.ok

Validate(r) ==
    LET entries == op[r].entries IN
    /\ At(r, "batch", "validate")
    /\ \A i \in DOMAIN entries : Valid(entries[i])
    /\ todo' = [todo EXCEPT ![r] = DeltaKeys(entries)]
    /\ Goto(r, "save")
    /\ UNCHANGED <<tables, events, history, op, accountLock, rowLock, work, answer>>

\* A ProblemException out of the callback: 403, 404 or 422.
RejectBatch(r) ==
    LET entries == op[r].entries IN
    /\ \/ /\ At(r, "batch", "validate")
          /\ \E i \in DOMAIN entries : ~Valid(entries[i])
       \/ /\ At(r, "batch", "save")
          /\ \E i \in DOMAIN entries : entries[i].acct \notin Quoted
    /\ Rollback(r, "rejected")

SaveMany(r) ==
    LET entries == op[r].entries IN
    /\ At(r, "batch", "save")
    /\ \A i \in DOMAIN entries : entries[i].acct \in Quoted
    /\ work' = [work EXCEPT ![r].rows = BatchRows(r, entries)]
    /\ Goto(r, "update")
    /\ UNCHANGED <<tables, events, history, op, accountLock, rowLock, todo, answer>>

\* UPDATE the account under key i of the deltas.
UpdateKey(r, i) ==
    LET entries == op[r].entries IN
    /\ AddToBalance(r, entries[i].acct, BatchDelta(entries, entries[i].acct))
    /\ todo' = [todo EXCEPT ![r] = @ \ {i}]

\* The key the loop is at.
IsNext(r, i) == i \in todo[r] /\ \A k \in todo[r] : i <= k

\* Mutant of UpdateNext: the updates are sent in no particular order.
UpdateAny(r) ==
    /\ At(r, "batch", "update")
    /\ \E i \in todo[r] : UpdateKey(r, i)
    /\ UNCHANGED <<tables, events, history, op, pc, answer>>

\* One iteration of `for (const [id, delta] of deltas)`.
UpdateNext(r) ==
    /\ At(r, "batch", "update")
    /\ \E i \in todo[r] : IsNext(r, i) /\ UpdateKey(r, i)
    /\ UNCHANGED <<tables, events, history, op, pc, answer>>

CommitBatch(r) ==
    /\ At(r, "batch", "update")
    /\ todo[r] = {}
    /\ CommitWork(r)
    /\ answer' = [answer EXCEPT ![r] = "ok"]
    /\ Goto(r, "ended")
    /\ UNCHANGED <<events, op, todo>>

-----------------------------------------------------------------------------
(* OrdersService.changeStatus: SELECT ... FOR UPDATE OF t, UPDATE, UPDATE, *)
(* COMMIT, publish.                                                        *)

\* Mutant of LockOrder: the row is read without FOR UPDATE.
ReadOrder(r) ==
    LET o == op[r]
        row == tx[o.row] IN
    /\ At(r, "status", "lock")
    /\ row # NoRow
    /\ o.owner
    /\ row.status # o.to
    /\ work' = [work EXCEPT ![r].rows = [t \in {o.row} |-> [row EXCEPT !.status = o.to]]]
    /\ Goto(r, IF CrossesPosted(row, o.to) THEN "update" ELSE "commit")
    /\ UNCHANGED <<tables, events, history, op, accountLock, rowLock, todo, answer>>

\* The row is locked and read, and its status is overwritten.  Whether the
\* balance is corrected depends on the status that was read.
LockOrder(r) ==
    LET o == op[r]
        row == tx[o.row] IN
    /\ At(r, "status", "lock")
    /\ row # NoRow
    /\ rowLock[o.row] = NoOne
    /\ o.owner
    /\ row.status # o.to
    /\ rowLock' = [rowLock EXCEPT ![o.row] = r]
    /\ work' = [work EXCEPT ![r].rows = [t \in {o.row} |-> [row EXCEPT !.status = o.to]]]
    /\ Goto(r, IF CrossesPosted(row, o.to) THEN "update" ELSE "commit")
    /\ UNCHANGED <<tables, events, history, op, accountLock, todo, answer>>

\* Mutant of LeaveOrder: the request that has nothing to change answers without
\* ending its transaction.
LeaveOrderOpen(r) ==
    LET o == op[r] IN
    /\ At(r, "status", "lock")
    /\ tx[o.row] # NoRow
    /\ rowLock[o.row] = NoOne
    /\ o.owner
    /\ tx[o.row].status = o.to
    /\ rowLock' = [rowLock EXCEPT ![o.row] = r]
    /\ answer' = [answer EXCEPT ![r] = "ok"]
    /\ Goto(r, "ended")
    /\ UNCHANGED <<tables, events, history, op, accountLock, work, todo>>

\* 404, 403, or nothing to change: the transaction ends with nothing written.
\* The foreign and the unchanged order are waited for as well.
LeaveOrder(r) ==
    LET o == op[r] IN
    /\ At(r, "status", "lock")
    /\ \/ /\ tx[o.row] = NoRow
          /\ Rollback(r, "not_found")
       \/ /\ tx[o.row] # NoRow
          /\ rowLock[o.row] = NoOne
          /\ \/ ~o.owner /\ Rollback(r, "forbidden")
             \/ o.owner /\ tx[o.row].status = o.to /\ Rollback(r, "ok")

\* The balance correction, on the status read under the lock.
CorrectBalance(r) ==
    LET o == op[r]
        written == work[r].rows[o.row] IN
    /\ At(r, "status", "update")
    /\ AddToBalance(r, written.acct, IF o.to = "posted" THEN Booked(written) ELSE -Booked(written))
    /\ Goto(r, "commit")
    /\ UNCHANGED <<tables, events, history, op, todo, answer>>

CommitStatus(r) ==
    /\ At(r, "status", "commit")
    /\ CommitWork(r)
    /\ Goto(r, "publish")
    /\ UNCHANGED <<events, op, todo, answer>>

PublishStatus(r) ==
    /\ At(r, "status", "publish")
    /\ statusEvents' = statusEvents \cup {<<op[r].row, op[r].to>>}
    /\ answer' = [answer EXCEPT ![r] = "ok"]
    /\ Goto(r, "ended")
    /\ UNCHANGED <<tables, placed, history, op, accountLock, rowLock, work, todo>>

-----------------------------------------------------------------------------
(* Failures.                                                               *)

\* The row lock a request's next statement needs, as a set of holders.
BlockedBy(r) ==
    LET wants == CASE At(r, "checkout", "debit") /\ op[r].acct \in Accounts
                          /\ balance[op[r].acct] >= op[r].cost -> {accountLock[op[r].acct]}
                   [] At(r, "batch", "update") /\ todo[r] # {} ->
                            {accountLock[op[r].entries[i].acct] : i \in {k \in todo[r] : IsNext(r, k)}}
                   [] At(r, "status", "update") -> {accountLock[work[r].rows[op[r].row].acct]}
                   [] At(r, "status", "lock") -> {rowLock[op[r].row]}
                   [] OTHER -> {}
    IN  wants \ {NoOne, r}

\* r waits for itself: it is on a circle of requests that wait for each other.
InDeadlock(r) ==
    \E circle \in SUBSET Requests :
        /\ r \in circle
        /\ \A q \in circle : BlockedBy(q) # {}
        /\ UNION {BlockedBy(q) : q \in circle} = circle

\* deadlock_timeout: Postgres aborts one transaction of the circle with 40P01.
\* None of these handlers runs under withRetry, so the request fails.
AbortDeadlock(r) ==
    /\ InDeadlock(r)
    /\ Rollback(r, "deadlock")

\* The process or the connection dies before the request has ended.  After
\* COMMIT this loses the event and nothing else.
Crash(r) ==
    /\ pc[r] # "ended"
    /\ Rollback(r, "crashed")

Step(r) ==
    \/ Debit(r) \/ DebitNothing(r) \/ ResolveFxRate(r) \/ NoFxRate(r) \/ InsertOrder(r)
    \/ InsertJob(r) \/ CommitCheckout(r) \/ PublishPlaced(r)
    \/ Validate(r) \/ RejectBatch(r) \/ SaveMany(r) \/ UpdateNext(r) \/ CommitBatch(r)
    \/ LockOrder(r) \/ LeaveOrder(r) \/ CorrectBalance(r) \/ CommitStatus(r) \/ PublishStatus(r)
    \/ AbortDeadlock(r)

AllEnded == (\A r \in Requests : pc[r] = "ended") /\ UNCHANGED vars

Next == (\E r \in Requests : Step(r) \/ Crash(r)) \/ AllEnded

Spec == Init /\ [][Next]_vars

\* Every request's statements run as long as they are not blocked, and Postgres
\* breaks every deadlock.
FairSpec == Spec /\ \A r \in Requests : WF_vars(Step(r))

-----------------------------------------------------------------------------
\* What a row contributes to the balance of account a.
Counted(row, a) ==
    IF row # NoRow /\ row.acct = a /\ row.status = "posted" THEN Booked(row) ELSE 0

\* "Only posted rows count towards the balance" (orders.service.ts): whatever
\* requests interleave, fail or deadlock, an account's committed balance is its
\* opening balance plus what its posted rows have booked since.  A lost update, a
\* half applied batch or a correction computed from a stale status breaks this.
BalanceMatchesLedger ==
    \A a \in Accounts :
        LET counted == [t \in RowIds |-> Counted(tx[t], a)]
            opened == [t \in RowIds |-> Counted(IF t \in Seeded THEN SeededRow[t] ELSE NoRow, a)]
        IN  balance[a] - SumFunction(counted) = Opening[a] - SumFunction(opened)

\* Only checkouts ask for this account.
CheckoutOnly(a) ==
    /\ \A r \in Requests :
          CASE op[r].kind = "checkout" -> TRUE
            [] op[r].kind = "batch" -> \A i \in DOMAIN op[r].entries : op[r].entries[i].acct # a
            [] op[r].kind = "status" -> FALSE
    /\ Opening[a] >= 0

\* The set-up of demo-race.ts: every request buys one unit at this price from
\* one account, which was reset to exactly `units` of them.
IsRace(a, price, units) ==
    /\ Opening[a] = units * price
    /\ Cardinality(Requests) >= units
    /\ \A r \in Requests : op[r].kind = "checkout" /\ op[r].acct = a /\ op[r].cost = price

\* What the script asserts when all calls are back: as many successes as units,
\* nothing left and nothing below zero, an order and a job for each success.
RaceVerdict(a, units) ==
    LET succeeded == {r \in Requests : answer[r] = "ok"} IN
    /\ Cardinality(succeeded) = units
    /\ balance[a] = 0
    /\ {r \in Requests : tx[<<r, 1>>] # NoRow} = succeeded
    /\ jobs = {<<r, 1>> : r \in succeeded}

\* "No row ever goes negative, and exactly as many calls succeed as the starting
\* balance covered" (checkout.ts): an account that only checkouts draw on never
\* goes below zero, a checkout is refused only if what is left for good does not
\* cover it, and a race without failures satisfies what demo-race.ts asserts.
SpendsExactlyTheCover ==
    \A a \in Accounts : CheckoutOnly(a) =>
        /\ balance[a] >= 0
        /\ \A r \in Requests :
              op[r].kind = "checkout" /\ op[r].acct = a /\ answer[r] = "insufficient_funds"
                  => balance[a] < op[r].cost
        /\ \A price \in 1..Opening[a] :
              ( /\ IsRace(a, price, Opening[a] \div price)
                /\ \A r \in Requests : answer[r] \in {"ok", "insufficient_funds"} )
              => RaceVerdict(a, Opening[a] \div price)

\* The batches agree on an order of the accounts.
ConsistentOrders ==
    \E rank \in [Accounts -> 1..Cardinality(Accounts)] :
        \A r \in Requests : op[r].kind = "batch" =>
            LET entries == op[r].entries IN
            \A i, k \in DeltaKeys(entries) :
                i < k /\ {entries[i].acct, entries[k].acct} \subseteq Accounts
                    => rank[entries[i].acct] < rank[entries[k].acct]

\* Only batches wait in a circle, and only when their entries name the accounts
\* in conflicting orders: checkouts and status changes take at most one account
\* lock, after the order's lock, and never hold up a circle.
OnlyCrossedBatchesDeadlock ==
    \A r \in Requests : InDeadlock(r) => op[r].kind = "batch" /\ ~ConsistentOrders

\* "No consumer ever hears about an order that was rolled back" (checkout.ts),
\* "a client is never told about a status that was rolled back"
\* (orders.service.ts): what is announced was committed first.
EventsAfterCommit ==
    /\ \A t \in placed : tx[t] # NoRow /\ t \in jobs
    /\ \A e \in statusEvents : e[2] \in history[e[1]]

\* "Either all three land or none of them does" (checkout.ts), "either every
\* entries row is created, or none" (transactions.service.ts): with all its
\* statements, locks and failures, a request is one atomic step of the ledger.
AL == INSTANCE AtomicLedger WITH balance <- balance, tx <- tx, jobs <- jobs
ImplementsAtomicLedger == AL!Spec

\* Every request is answered: nobody waits for a lock for ever.
EveryRequestEnds == \A r \in Requests : <>(pc[r] = "ended")
=============================================================================
