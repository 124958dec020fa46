# A TLA+ model of invest-api

invest-api is a NestJS service on PostgreSQL and RabbitMQ that keeps investment
accounts: clients post transactions, buy instruments, change the status of
orders and read fx rates. Its hard part is what happens between two SQL
statements of two requests, or between a COMMIT and the message that announces
it. The modules here model that part statement by statement, TLC checks it on
small instances, and TLAPS proves for instances of any size every safety property
the runs check: what the worker pool, the ledger, the sessions, the retries, the
receipts pipeline, the event stream, the idempotency keys, the fx sync and cache,
the paged lists and the password rotation promise of every reachable state.

Paths such as `src/src/concurrency/worker.ts` are relative to the root of the
checkout that holds `src/` and `tla/`.

## 1. Inventory

| Component | State it keeps | Operations | Talks to | What is hard | What makes it correct |
|---|---|---|---|---|---|
| Job queue and worker pool (`concurrency/worker.ts`) | `job_queue`; per worker: claimed ids, idle counter | poll, claim with `FOR UPDATE SKIP LOCKED`, handle, COMMIT, record, give up | checkout enqueues | snapshot of a SELECT against rows that siblings lock and commit; a worker that dies | every job exactly once; nobody gives up on free work; the pool ends |
| Checkout (`concurrency/checkout.ts`) | `accounts.balance_cents`, `transactions`, `job_queue` | guarded debit, fx rate, INSERT order, INSERT job, COMMIT, publish | job queue, broker | races for one balance; a rejection after the debit; a crash between COMMIT and publish | no overspending and no needless refusal; all or nothing; no event for a rolled back order |
| Transaction batches (`transactions/`) | the same tables | validate, INSERT all rows, one UPDATE per account | accounts | lock order of the UPDATEs | all or nothing; only crossed batches deadlock |
| Order status (`orders/orders.service.ts`) | the same tables | `SELECT ... FOR UPDATE OF t`, UPDATE, balance correction, COMMIT, publish | event stream | the correction depends on the status that was read | balance = opening balance + posted rows |
| Retry (`concurrency/retry.ts`) | attempt counter | run, catch 40001 / 40P01, back off, run again, give up; the barrier of `demo-retry.ts` | any transaction | an unknown COMMIT outcome; a stale snapshot; a party that never reaches the barrier | no lost and no double update; the demo's conflict really happens |
| Sessions (`auth/`) | `refresh_tokens`, `revoked_access_tokens` | login, refresh (rotation, reuse detection), logout, access check, roles | every guarded route | refreshes, replays and logouts of one family at once; purge of the denylist; a role that is older than the demotion | one live head per family; a revocation reaches every token it can see; a logged-out token stays out; a demotion catches up with the next token |
| Broker and receipts (`broker/`, `order-receipts-consumer.ts`) | exchange, quorum queue, DLQ, `order_receipts` | publish with confirm and mandatory, deliver, INSERT, ack, reject, requeue, dead-letter | checkout publishes | lost confirms, lost acks, crashes, poison messages | one receipt per order; confirmed is lost only by giving up; giving up exactly at the limit |
| Order events (`orders/order-events.service.ts`, controller, gateway) | sequence number, replay buffer, open streams | publish, replay since Last-Event-ID, SSE, WebSocket rooms | order status | order of announcement against order of COMMIT; buffer overflow; restart | no gap, no duplicate; what a client sees last is what is stored |
| Idempotency keys (`shared/idempotency.interceptor.ts`) | map key → in flight or stored response, with a TTL | claim, replay, 409, 422, release on `finish` | every POST | a connection that closes early; expiry; restart | a retried POST has one effect |
| FX rates (`fx-rates/`) | `fx_rates`, in-memory cache | sync per currency window, chunked upsert, load cache, read | checkout, batches | stale cache, two instances, a partly failed sync | no hole in the stored history; the cache answers as the table would; only overlapping syncs put an old rate back |
| Keyset pagination (`transactions/`, `accounts/`, `shared/`) | `accounts`, `transactions` ordered by (time, id); a cursor with milliseconds in the client's hands | list a page after a cursor, get by id, create; all filtered by owner | batches insert | inserts between two pages; ties; a cursor less precise than `now()` | a walk shows each readable row once and ends |
| Password rotation and pools (`rotate.sh`, `db/`, `data-source.ts`) | role password, secret file, PgBouncer's userlist and backend, two pools | ALTER ROLE, write the secret, terminate, reload; connect, drop, close; `GET /health/db`; restart | every query | a rotation that stops half way; terminated connections; a password read once at import | after a completed rotation the health pool serves, no old backend is left, at most `DB_POOL_MAX` requests of `/health/db` fail and whoever keeps asking is served |
| Roles and ownership (`auth/guards.ts`, `auth/ownership.ts`) | — | `RolesGuard`, `assertOwner` | sessions, lists, batches | the claim is as old as the token | part of `Sessions`, `Paging` and `Ledger` |
| Currencies | a table nothing writes | one SELECT | — | — | input of the models above |
| Backup scripts, configuration, seed, i18n, Swagger | — | sequential I/O and wiring | — | — | not a protocol |

`PROJECT.json` lists every component with its sources, and every hazard at the
line where it bites with the properties that would catch it.

## 2. Modules

| Module | Models | Built on |
|---|---|---|
| `WorkQueue` | what a pool promises: jobs are added and each is finished in one step by one worker | |
| `JobQueue` | `runWorker`, `job_queue` | refines `WorkQueue` |
| `JobQueueProofs` | theorems about `JobQueue` | `JobQueue`, TLAPS |
| `Accounting` | rows, signs, deltas: the pure part of the ledger | |
| `AtomicLedger` | what a request promises: one step that does all of it or nothing | `Accounting` |
| `Ledger` | checkout, batches and status changes, statement by statement | `Accounting`, refines `AtomicLedger` |
| `LedgerProofs` | theorems about `Ledger` | `Ledger`, TLAPS |
| `Sessions` | login, refresh, reuse detection, logout, access check | |
| `SessionsProofs` | theorems about `Sessions` | `Sessions`, TLAPS |
| `Retry` | `withRetry` around a read-modify-write at REPEATABLE READ | |
| `Receipts` | `publishEvent`, the broker, the receipts consumer | |
| `ReceiptsProofs` | theorems about `Receipts` | `Receipts`, TLAPS |
| `Idempotency` | `IdempotencyInterceptor`, its store, the handler it wraps | |
| `OrderEvents` | `OrderEventsService`, the SSE stream, the WebSocket rooms and their clients | takes `changeStatus` from `Ledger` as one COMMIT and one publication |
| `OrderEventsProofs` | theorems about `OrderEvents` | `OrderEvents`, TLAPS |
| `FxRates` | `FxSyncService`, `FxRateRepository`, `FxRateCache`, `FxRatesService.findLatest` and the NBU | |
| `FxRatesProofs` | theorems about `FxRates` | `FxRates`, TLAPS |
| `Paging` | the keyset queries of accounts and transactions, their cursor, `create`, `getById`, and a client that walks the pages | |
| `Rotation` | `rotate.sh`, the `pg` pool and `/health/db`, TypeORM's pool, PgBouncer, restarts | |
| `ApiProofs` | theorems about `Paging` and `Idempotency`, what a client that asks more than once depends on | both, TLAPS |
| `DatabaseProofs` | theorems about `Retry` and `Rotation`, which both have PostgreSQL as their counterpart | both, TLAPS |
| `MC*` | the instances TLC checks | the module of the same name |

`ApiProofs` and `DatabaseProofs` extend two models each, so `Paging` and `Rotation`
put their name before `Init`, `Next`, `Spec` and `vars`. The two models share no
variable, and no theorem is about both.

Each module keeps the committed tables as variables, the rows locked and the
uncommitted writes per request (`lock`, `work`), and a program counter per
worker, request, writer or message copy. One action is one SQL statement, one
COMMIT or ROLLBACK, one call to the broker, or one stretch of JavaScript without
an `await`. Definitions keep the names of the code where there is one
(`Debit` = `debitAccount`, `SaveMany`, `Deny`, `GiveUp`...); `PROJECT.json`
gives the lines of each.

How PostgreSQL is modelled (external to `src/`, from how the code uses it):

* READ COMMITTED (`JobQueue`, `Ledger`, `Sessions`): a statement sees what was
  committed when it started. An UPDATE or a `FOR UPDATE` waits for a locked row
  and reads it again when it gets the lock; a row that was not there when the
  statement started is not seen. `SKIP LOCKED` passes over a locked row.
* REPEATABLE READ (`Retry`): reads come from the snapshot of the first
  statement, and an UPDATE of a row that changed since fails with 40001.
* A circle of waiting transactions is broken by aborting one member (40P01).
  `InDeadlock` is the circle; `AbortDeadlock`, `Deadlock` the abort.
* COMMIT publishes all writes at once and releases the locks; a lost connection
  rolls back, and during COMMIT (`Retry`) may do either.

How RabbitMQ is modelled (`Receipts`): a mandatory message that no queue is
bound for is returned before it is confirmed; a routed one is in the queue
before it is confirmed; copies that a lost consumer held are given back, and the
delivery limit makes the queue give a copy up. Whether a lost connection counts as a
delivery differs between broker versions, so `Crash` allows both. A copy that is
rejected or given up leaves the queue at once and is forwarded to the DLQ in a step
of its own (`Forward`), which may lose it: `topology.ts` declares no
`dead-letter-strategy`, so dead-lettering is at most once, as `src/README.md:2425-2427`
says and accepts.

Node (`Idempotency`, `OrderEvents`): a stretch without `await` is one step. A
response to a closed connection is discarded and emits no `finish`. A restart
loses every variable of the process and keeps the tables. Frames written to a
connection arrive in order or are lost with it.

The NBU (`FxRates`): it publishes the days of a currency in order, tomorrow's
rate possibly today, and may correct a day; `exchange_site` returns what is
published of a window in ascending order (the query asks for that order). A
rate is the number of its revision, so that "older" and "newer" can be told.

PgBouncer and the pools (`Rotation`): a new connection is accepted when its
password is the one the side it talks to holds (the role's, or the userlist's); a
connection that is open is not asked again. The `pg` pool opens a connection when
more requests wait than it has clients, TypeORM's at any time, for the rest of the
traffic. PgBouncer's own backend logs in with the userlist's password, and a client
whose query finds no backend is dropped. The container may stop, which cuts off
everything that goes through it, and starts from the seed file again. A cut
connection keeps its place in its pool until the pool notices: either a request is
given it and fails, or it is idle and the pool emits `error`, which ends the process
if nobody listens (`Listeners`).

Four simplifications: the `sed` and the SIGHUP of step 4 are one action, because no
property tells the moment between them from the one before; with `DB_HOST`, `DB_USER`
and `DB_NAME` set, `data-source.ts` takes `DB_PASSWORD` for the file and is supposed
to reach the same server as `DB_URL`, so `Restart` only leaves open which password it
gets; PgBouncer's backend stands for all of them; and a request that times out on an
overloaded or unreachable database (`connectionTimeoutMillis`) is left out, because
nothing in `Rotation` but passwords keeps a connection from being opened.

Times (`Paging`): the server's clock ticks in microseconds, several ticks are one
millisecond. A `timestamptz(3)` column rounds to the nearest one, a JavaScript
`Date` cuts off what is below one; the cursor is made from the `Date`.

What stands for data: an amount is a small integer, an account or an order a
model value, a validation outcome a flag of the entry, a token pair a number, an
event's body a membership in `Valid`. The cents are unbounded integers: the
columns are `bigint`, and the balances a request can reach are far inside it.

History variables only record what happened and guard nothing: `history`
(`Ledger`), `seen`, `loggedOut`, `began` and `asked` (`Sessions`), `applied`
(`Retry`), `claimedAt` and `claimedIn` (`Idempotency`; `claimedAt` also bounds how
long a handler runs, see below), `log`, `got`, `since`, `outdated` and `crossed`
(`OrderEvents`), `newest`, `current` and `crossed` (`FxRates`), `missed`
(`Paging`), `deliveries` (`Receipts`), `complete`, `seeded` and `failures` (`Rotation`).

The type of a variable is given beside its declaration; `TypeOK` is a definition
only where a proof uses it (`JobQueue`, `Receipts` and the modules `...Proofs`
of the others).

## 3. Runs

| Run | Instance | Question |
|---|---|---|
| `jobqueue` | 3 workers, 3 jobs, one of them enqueued while the pool runs, `MaxIdlePolls` 2 | is each job handled exactly once, does nobody give up early, does the pool end, whoever dies |
| `ledger` | 3 requests out of 13 (checkouts, batches that cross, status changes of a seeded and of a new order, rejections), 3 accounts | is each request atomic, do balances match rows, who can deadlock, what is announced |
| `sessions` | 3 requests, clock 1..2, in three scopes: refreshes and logouts of one session; logouts and calls of two sessions; refreshes, reads and writes of one session around a demotion | is rotation linear, what does a revocation reach, who is accused, does the purge of the denylist free a live token, when does a demotion bite |
| `family_dies` | the same | expected violation, see section 6 |
| `retry` | 3 writers, 2 rows, two writers crossing, two of them meeting at the barrier, 3 attempts | are updates lost or doubled, does contention make progress, does the barrier force a conflict |
| `idempotency` | 3 POSTs with one key or none and two bodies, TTL 2, clock 0..2, one restart | does a key have one effect, is a replay the right response |
| `stuck_key` | the same | expected violation, see section 6 |
| `order_events` | 4 changes of 2 orders, an SSE stream and a socket on one of them, buffer of 2, one restart | gaps, duplicates, and the last word |
| `fx_rates` | 2 instances, 2 currencies (one the NBU does not publish), 3 days, chunks of 1, a seed day in the middle, 1 correction per day | holes in the history, answers of the cache, which syncs put an old rate back |
| `receipts` | a valid event published up to twice, a poison event, 2 consumers, 1 crash, delivery limit 1 | one receipt, what of a confirmed event can be lost, when a copy is given up, bounded redelivery |
| `paging` | 2 users, 2 accounts, 3 transactions, 2 milliseconds of 2 ticks, pages of 1 or 2, batches of 2, one walk | does a walk show each readable row once, does it end |
| `rotation` | 2 rotations, each of which may stop after any step, pools of 2, 2 clients of `/health/db`, directly or through PgBouncer | what serves after a rotation, what is left of the old password, how many requests a rotation costs, is a client that keeps asking served |

The bounds are the smallest in which each hazard occurs. Three requests: a
deadlock or a lost update needs two, and the third is the bystander that a
wrong lock release or a wrong abort would hurt. Three jobs: one to be claimed,
one to be skipped, one to arrive during the scan. `MaxIdlePolls` 2 tells "the
first empty poll" from "the last". A delivery limit of 1 tells the first
failure from the last allowed one. Clock 2 with TTLs of 1 lets a token and its
denylist entry be live, expire and be purged by a later logout. Two ticks to a
millisecond are the least at which rounding and cutting off differ; three
transactions are a page, the row at its edge and one inserted between them. Two
rotations are an interrupted one and the one that repairs it, or two completed ones
of which the second meets the connections and the process of the first; two clients
and pools of two let a request fail on one cut connection while another is cut or
opened. One crash is enough for a lost ack, a copy handled twice and a delivery
beyond the limit; the theorems of section 5 are for any number. Every bound is a CONSTANT
named in a guard (`MaxLogins`, `MaxClock`, `MaxCopies`, `MaxCrashes`, `MaxRotations`) or a
parameter of the code (`MaxIdlePolls`, `MaxAttempts`, `DeliveryLimit`,
`Prefetch`, `PoolMax`). In `MCLedger` the last two requests are interchangeable and taken
in one order only; `MCIdempotency` and `MCOrderEvents` number their requests and
changes in the order they arrive, which loses nothing because they are alike. No
run uses symmetry, because most check liveness.

`Idempotency`: TTL 2 with clock 2 lets a record be live, age and expire, and a
key be claimed again; a request under way does not outlive its record (`Tick`),
because the TTL is a day. `OrderEvents`: a buffer of 2 and four changes let the
buffer drop an event that a reconnecting client has not seen. `FxRates`: chunks
of 1 let a sync fail between any two rows; three days let a hole lie before the
last stored one; one currency at a time (`Concurrency` 1) makes `mergeMap`'s
limit bite.

Deadlock checking is on in every run but `paging`, where a system without free
ids and with a client that reached the last page really stops. The final states stutter explicitly
(`Finished`, `AllEnded`, `Quiet`), so any other state without a successor is an
error. `OrderEvents`, `FxRates` and
`Rotation` are never without a successor.

### What the properties say

* `JobQueue`: `ExactlyOnce` (processed is 1 for done jobs and 0 otherwise),
  `NoEarlyReturn` (while nobody died, a worker that returned left no backlog job
  that is neither done nor held), `OneJobPerDeath` (once a worker has given
  up, no more backlog jobs are free than workers died), `ImplementsWorkQueue`, `PoolDrains` (liveness).
* `Ledger`: `BalanceMatchesLedger`, `SpendsExactlyTheCover` (no overspending,
  and a checkout is refused only for want of money that is gone for good),
  `OnlyCrossedBatchesDeadlock`, `EventsAfterCommit`, `ImplementsAtomicLedger`,
  `EveryRequestEnds` (liveness).
* `Sessions`: `UniqueHead`, `RotatesLiveToken` (action property),
  `RevocationReaches`, `NoFalseAlarm` (a replay is found only where exactly one other
  request committed a rotation of that token; one that died before COMMIT, and a
  logout, accuse nobody), `LogoutDenies` (action property),
  `DemotionCatchesUp` (no pair asked for after a demotion carries the old role, so a
  write is served after it only with a pair asked for before),
  `EveryRequestEnds` (liveness).
* `Retry`: `NoLostUpdate`, `CommittedAtMostOnce`, `ConflictsAreProgress` (each
  40001 is paid for by the commit of another writer, and none pays twice),
  `BarrierForcesConflict` (of the parties on one row at most one commits at its
  first attempt, so the demo cannot pass by luck), `EveryCallEnds` (liveness).
* `Receipts`: `OneReceiptPerOrder`, `LostOnlyByGivingUp` (an
  event `publishEvent` resolved for has its receipt, is queued or held, or was given
  up, which for an event that parses takes more than `DeliveryLimit` deliveries),
  `GivesUpAtTheLimit` (a copy is given up after that many deliveries and not later,
  lost connections aside), `EveryCopySettles` (liveness; settled is acked, in the DLQ,
  or lost on the way there).
* `Idempotency`: `OneEffectPerKey` (within a TTL and one life of the process,
  unless a handler failed after its COMMIT), `ReplayIsTruthful`;
  `ConflictIsTransient` is violated.
* `OrderEvents`: `NoGapNoDuplicate`, `LastWordIsStored`. Two things the code does
  not promise are left out of them by a history variable: a stream that comes
  back with an id of an earlier boot (`outdated`), and two changes of one order
  between COMMIT and publication at once, which may be announced in either order
  (`crossed`).
* `FxRates`: `NoHistoryGap` (which is why resuming at the last stored day is
  enough), `CacheIsAuthoritative`, `OnlyCrossedSyncsRegress` (the table keeps the
  newest revision any sync stored, unless two instances held fetched rows of the
  currency at once).
* `Paging`: `PagesAreExact` (what a walk has shown is exactly what its user may
  read one by one up to its cursor, in order, without what was inserted behind
  it), `WalkEnds` (liveness).
* `Rotation`, of a rotation that ran to its end, while PgBouncer, if it is used, has
  been running since: `RefusedForAReason` (`/health/db` can be served, and the rest of
  the application exactly if its process has the current password or still holds a
  client of PgBouncer), `NoOldBackend`, `FewProbesFail` (each 503
  of `/health/db` is a cut client of the pool, so there are at most `DB_POOL_MAX`),
  `PoolRecovers` (liveness: a client that keeps asking `/health/db` gets its 200,
  unless the process is replaced or the database disturbed again).

Every property has a mutant in `PROJECT.json`: a definition named `...` with the
comment "Mutant of ..." that changes one action as a plausible bug would, and
under which TLC finds the property violated.

## 4. Fairness

Weak fairness, per process, of the steps the process takes by itself:

* a worker's loop, a request's next statement, `withRetry`'s next step: Node
  resumes a coroutine whose promise is settled, and PostgreSQL runs a statement
  that is not blocked and grants a free lock. A deadlock is broken by the
  server, so `AbortDeadlock` is one of these steps;
* `Receipts`: a supervisor restarts the consumer (the code exits and says so),
  the broker delivers a ready copy to a connected consumer with room and
  forwards what it gives up, and a handler ends.

* `Idempotency`: a handler ends and its response is sent or discarded. This only
  serves the expected violation, which is an invariant: the counterexample does
  not depend on a process that stops;
* `Paging`: a client that was told of another page asks for it. Rows run out, as
  ids do, so a walk cannot be kept going by inserts for ever;
* `Rotation`: a client that has its answer from `/health/db` asks again. Nothing in
  the repository polls that route; the property is about the operator who follows
  `src/README.md:488-489` and curls it until it is 200. The pool opens a connection it
  is asked for, a query on an open one ends, and the event loop handles the `error`
  of a cut connection. No restart of the process is assumed: without the listener the
  process exits and the client is not answered.

No fairness for other clients, for `rotate.sh`, crashes, lost connections, the clock or publications:
they may happen at any time or never. Strong fairness is not used. For
`Receipts` the number of crashes is bounded; with unboundedly many no
redelivery protocol ends.

## 5. Proofs

`JobQueueProofs` proves for every set of jobs, every backlog, every pool and
every `MaxIdlePolls > 0`, from `JobsAssumption`, `WorkersAssumption`,
`PoolAssumption` (the pool is finite) and `MaxIdlePollsAssumption`:

* `TypeCorrect`, `ExactlyOnceHolds`, `NoEarlyReturnHolds`, `OneJobPerDeathHolds`,
  `StatsMatchTableHolds` (what workers report is what the table says);
* `Implementation`: `JobQueue` implements `WorkQueue`.

None of these is inductive by itself. `IInv` adds
`LockInv` (a locked job is pending and its holder is in the handler with that
one job: this is why COMMIT finds the job pending), `ScanInv` (a backlog job
that a scan has behind it is done or held: this is why an empty scan proves that
there is no free work), `StatsInv` (recorded ids are exactly the worker's rows,
except for the one it is about to record: this is the window between COMMIT and
`jobIds.push`), `DeathInv` (the free jobs that a scan has behind it are no more
than the dead workers: a job gets free behind a scan only by the death of its
holder, who holds one; the backlog itself may be infinite) and `LoopInv` (a running
worker is below the idle limit). Each part has its own step lemma with one case per action, `Invariance` combines
them, and `Implementation` needs only that invariant: every step maps to
`Add`, `Finish` or a stutter.

`ReceiptsProofs` proves for every set of events and orders, every number of
publications, consumers and crashes, every prefetch and delivery limit, from
`EventsAssumption`, `ConsumersAssumption` and `LimitsAssumption`: `TypeCorrect`,
`OneReceiptPerOrderHolds`, `AckedHasReceiptHolds` (the queue forgets a copy only if
its order has a receipt), `LostOnlyByGivingUpHolds`,
`GivesUpAtTheLimitHolds`. Its invariant adds `HoldInv` (only unacked copies are held
or handled, so a crash gives back nothing that was settled), `AckInv` (before the
ack is sent the receipt is committed), `LimitInv` (a copy that may be delivered
has not used up its limit), `FreshInv` (a publication under way has no copy yet),
`TakenInv` (what the broker took has a copy, for ever), `DeadInv` (a valid copy is
given up with its limit used up) and `CountInv` (the returns the broker counted and
the deliveries that happened differ by no more than the crashes and the one under
way). `InsertIssues` states
once what `ON CONFLICT DO NOTHING` does for all of them. The `receipts` run has
one order; the theorem also covers two events of one order.

`LedgerProofs` proves, from `AccountingAssumption` (finitely many accounts,
requests and seeded rows, amounts that are not negative as the DTOs demand, ids
that do not collide) and `LedgerAssumption`, and for any opening balances, any
bodies and any number of entries:

* `ImplementsAtomicLedgerHolds`: the COMMIT of a checkout, a batch or a status
  change is one `Purchase`, `Book` or `SetStatus`, and every other step, rollbacks,
  deadlocks and crashes included, is a stutter;
* `BalanceMatchesLedgerHolds`, `SpendsExactlyTheCoverHolds`,
  `EventsAfterCommitHolds`, `OnlyCrossedBatchesDeadlockHolds`.

`IInv` says of each request, by the statement it is at, what it has written, which
locks it holds, and that what it read is still true (`CheckoutInv`, `BatchInv`,
`StatusInv`, `FreshInv`, `HolderInv`). A step keeps its own request's part because
of what the statement does. It keeps the others' because of `LeftAlone`: what a
request relies on is locked by it, or is a row of its own, or only ever grows. The
balance covers the cost between debit and COMMIT because only the holder of an
account's lock changes it; that is `CheckoutInv`, and `SpendsExactlyTheCover` needs
besides that a refused cost stays out of reach (`CoverInv`) and that orders, jobs
and balance move together in a race (`RaceInv`). The absence of other deadlocks
is by minimality: a circle, each member of which waits and is waited for, contains
only batches (a checkout that holds an account does not wait, and a status change
that waits for an account holds nothing but its order, which only requests without
any lock wait for). If their entries named the accounts in one consistent order,
the member that waits for the least account would hold another one that is waited
for; it updated that one earlier, so it is less still.
`BalanceMatchesLedger` sums over rows; `SumExists` and `SumPoint` show that the
fold of the community modules adds what it should, and `BatchSum` that the rows of
a batch add up to the deltas of its UPDATEs. Both are proved by the least
counterexample (`SmallestNumber`).

`SessionsProofs` proves, from `TokensAssumption`, `RowsAssumption`,
`RequestsAssumption` and `TTLAssumption`, for any tokens, requests and TTLs:
`UniqueHeadHolds`, `RotatesLiveTokenHolds`, `RevocationReachesHolds`,
`NoFalseAlarmHolds`, `LogoutDeniesHolds`, `DemotionCatchesUpHolds`. All rest on one
fact, `LockInv`: the row that a rotation has read stays locked, hence unused and
unrevoked, until its COMMIT. `DrawnInv` makes the successor of a token unique,
`ReachInv` follows the rows of `revokeFamily` from its snapshot to its COMMIT,
`UsedInv` finds for every used token the one request that committed its rotation, `DenyInv` shows that a purge
only takes what has expired, and `RoleInv` dates the role in a pair by the request
that asked for it.

The first part of `DatabaseProofs` proves, from `WritersAssumption` (finitely many
writers), `PathAssumption` and `MaxAttemptsAssumption`: `CommittedAtMostOnceHolds`,
`NoLostUpdateHolds`, `ConflictsAreProgressHolds`, `BarrierForcesConflictHolds`.
`SnapInv` (a row that has the version of a snapshot has its value, and a locked
row has both) is why an increment of a snapshot is not lost; `PaidInv` (a writer
whose snapshot is outdated has a commit of another writer in hand that none of its
conflicts has used) is why conflicts are progress; `ArrivedInv` and `OvertakenInv`
are why a second party cannot commit at its first attempt.

Its second part proves, from `BoundsAssumption`, for any number of rotations, clients of `/health/db` and any size of
the pools, `RefusedForAReasonHolds`, `NoOldBackendHolds` and `FewProbesFailHolds`. None
is inductive, since all speak of the end of a rotation only. `RotationIInv` adds `StepDone` (how far the script is determines which of
role, file and userlist already hold the new password, whatever an interrupted
rotation left behind) and `NoOld` from the termination of the old backends on:
ALTER ROLE came first, so nothing can log in with the old password afterwards.
`OnePassword` (TypeORM's connections have the password of their process) is why a
process that connects directly and has an old password has no connection left.
`PaidFor` counts for `FewProbesFail`: while the rotation is settled, the 503's and the
cut clients that the pool still has are together no more than its places, because
nothing else fails a request and nothing cuts another client.

The first part of `ApiProofs` proves, from `IdsAssumption` (an id is a number; the
ids are finitely many, as UUIDs are), `NoneAssumption` (null is neither an id nor a
cursor), `TimeAssumption` and `LimitsAssumption`, for any rows, clients, limits and
length of a millisecond: `PagesAreExactHolds`. The invariant has two parts. `TableInv`
says that a stored time is a whole number of milliseconds (`Rounded`), so that the
cursor made from the `Date` is exactly the place of the last row. `WalkInv` says that
what a walk has passed, of the rows its query selects, is what it got or what was
inserted behind it. `PageStep` shows that a page keeps it: what is taken lies below
everything taken before, and of what is left a page takes the highest. `InsertStep`
shows that an insertion keeps it for every walk at once. `ReadableIsSelected` then
turns the `WHERE` of the list into the ownership check of `getById`. Without
`timestamptz(3)` `TableInv` is false, and that is the mutant of the run.

The second part of `ApiProofs` proves, from `KeysAssumption`, `RequestsAssumption`,
`RecordsAssumption` (the three kinds of record differ) and `BoundsAssumption`:
`OneEffectPerKeyHolds`, `ReplayIsTruthfulHolds`. `FlightInv` and `DoneInv` tie the
store to the request it stands for, `HeldInv` keeps the key of an effect taken for
a TTL, and `OneOpen` compares any two claims of a key.

`FxRatesProofs` proves, from `SeedAssumption` and `LimitsAssumption`, for any chunk
size, concurrency, number of instances, days and corrections: `NoHistoryGapHolds`,
`OnlyCrossedSyncsRegressHolds` and `CacheIsAuthoritativeHolds`. `WindowInv` and
`RowsInv` say that a window starts where the stored days end and that the rows that are left are consecutive
days from a stored one on, which every other sync, failure and restart leaves true
because no row is deleted (`Grows`); `StoredInv` and `AloneInv` say that what the
only sync of a currency has fetched is not older than what is stored. `CacheInv` is
about the series in memory: of days the table has, ascending, without a gap below the
last one unless that is a seed day. `EffectiveFacts` says what the sorted query returns and
`RightmostFacts` what the binary search finds, for every series: `Searching` is the
invariant of its loop, and `IterateFacts` shows that each pass keeps it and shortens
the rest.

`OrderEventsProofs` proves, from `WatchedAssumption` and `LimitsAssumption`, for any
orders, changes, clients, restarts and size of the replay buffer:
`NoGapNoDuplicateHolds` and `LastWordIsStoredHolds`. `LogInv` makes the buffer the end
of the log, `ClientInv` orders what a client got and what is on its wire, `CoverInv`
says that nothing is missing between (which is why `Last-Event-ID` is enough to
resume), and `StatusInv` follows the one change of an order that is under way from its
COMMIT to its announcement.

An assumption bounds no parameter of the code beyond what the code does; finiteness
is assumed where a property counts, and where a page has to have a last row. Every `IInv` was checked with TLC on the
instances of section 3 before it was proved.

Induction over data. The theorems of the library that define recursive functions and
do induction take an operator as a parameter, which the provers cannot instantiate.
What the buffer's filter (`Since`), the sorted query (`Effective`), the binary search
(`Rightmost`) and the page of a list return for every input is proved all the same, in
two steps. A recursive function is a CHOOSE, so a function with its equations has to be
shown to exist (`EffectiveIsUpTo`, `RightmostIsLoop`), and a page is one by definition
(`PageExists`). Then its properties follow by induction, stated as: a set of numbers
that holds 0 and with each number the next one holds them all (`AllNumbers`), which is
an instance of the well-foundedness of `<`. This is why those definitions are functions
on `0..n` here, and not RECURSIVE operators.

Only model-checked: liveness and everything under fairness (`PoolDrains`,
`EveryRequestEnds`, `EveryCallEnds`, `EveryCopySettles`, `WalkEnds`, `PoolRecovers`),
because the prover has no rules for ENABLED.

## 6. Findings

`family_dies` states what `src/src/auth/auth.service.ts:50-51` says, that after a
replay "the whole family dies", and what `:95-96` says of logout. TLC finds a
behaviour in which it does not: a refresh has inserted its successor and not
committed when a logout starts `revokeFamily`. The UPDATE waits for the row of
the presented token, revokes it, and never sees the successor, which was not
committed when the UPDATE started. The logout answers and the successor can be
refreshed. `RevocationReaches` states, and TLC confirms, what does hold.

`stuck_key` states what the 409 of `src/src/shared/idempotency.interceptor.ts:69`
tells a client: that a request with its key is still in flight. The key is
released by `finish` only. A client that closes its connection before the answer
leaves the record behind, and every retry gets that 409 until the TTL of 24 hours
has passed, although no request is under way.

Three smaller remarks, for which a property that holds says exactly what is true:

* `src/src/fx-rates/fx-sync.service.ts:48-49` says that two instances syncing at
  once cost "a duplicate NBU request and nothing else". An instance that fetched
  before the NBU corrected a day and stores after the other one did puts the old
  rate back. `OnlyCrossedSyncsRegress`: it takes two overlapping syncs.
* `src/rotate.sh:2` and `:74` say that the password is rotated "without restarting
  the app" and "No restart needed"; `src/src/data-source.ts:51` reads it once, at
  import. `RefusedForAReason`: the health pool needs no restart. TypeORM's pool, which
  serves everything else, is refused from then on if it connects directly, while
  `/health/db`, the check that `src/README.md:488-489` gives, answers 200; through
  PgBouncer it lives on the clients it still holds.
* `src/src/fx-rates/fx-rates.controller.ts:72-76` says that `saveMany()` reads the
  rate "straight from the database"; it goes through
  `FxRatesService.findLatest`, which asks the cache first
  (`src/src/fx-rates/fx-rates.service.ts:32`). `CacheIsAuthoritative` says when the
  two agree.

## 7. What is not modelled

* Backup and restore scripts, configuration, seed, i18n and Swagger documents:
  sequential I/O, wiring and fixtures. The auth demos send one request after the
  other; `Sessions` and `Paging` contain every such sequence. The broker demos count
  the deliveries, acks and messages of an undisturbed run, which one redelivery
  changes; `Receipts` has their publisher and consumer, not their counts.
* The currencies list: one SELECT on a table nothing writes.
* `FxRates`: cross rates, the UAH base, quotes per 100 units, HTTP cache headers.
  `OrderEvents`: more than one instance; the code says its bus is per process.
  `Idempotency`: collisions of the fingerprint. `Paging`: a cursor the server did
  not issue, which is a 400.
* Inside the modelled ones: password hashing, JWT signatures and key handling,
  request validation, problem documents, logging, the length of the backoff. They
  are pure, or only timing.
* Categories and currencies are not created or deleted while the models run.

## 8. Plan

Done: all modules of section 2 and the proofs of section 5: every safety property
of every run and the refinements of `WorkQueue` and `AtomicLedger`. Left: a composition
of `Ledger`'s checkout with `Receipts`, in which an order that stands has a receipt in
the end or its event was never published; today the two models meet in the published
event, which is an action of either.
