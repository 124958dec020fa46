------------------------------ MODULE Rotation ------------------------------
(***************************************************************************)
(* rotate.sh and the two connection pools of a running application: the    *)
(* pg pool of src/src/db/db.module.ts, which reads the secret file for     *)
(* every connection it opens and serves /health/db, and TypeORM's pool of  *)
(* src/src/data-source.ts, which serves everything else with the password  *)
(* that was read when the process started.                                 *)
(*                                                                         *)
(* Passwords are numbered in the order in which rotations generate them;   *)
(* 0 is the one of db/init.sql and of PgBouncer's seed file.  The          *)
(* application connects to Postgres directly or through PgBouncer.         *)
(***************************************************************************)
EXTENDS Naturals, FiniteSets

CONSTANTS
    MaxRotations,   \* bound: the passwords generated
    PoolMax,        \* DB_POOL_MAX
    Probes,         \* the clients of GET /health/db, one request at a time each
    None            \* no connection

ASSUME BoundsAssumption == MaxRotations \in Nat \ {0} /\ PoolMax \in Nat \ {0}
ASSUME ProbesAssumption == IsFiniteSet(Probes)
ASSUME NoneAssumption == None \notin Nat

Pools == {"pg", "typeorm"}
Slots == 1..PoolMax

VARIABLES
    via,            \* "direct" or "bouncer": where DB_URL, and DB_HOST, point
    role,           \* the password of the role in Postgres
    file,           \* the password in the secret file
    userlist,       \* the password in PgBouncer's auth file
    pooler,         \* PgBouncer is running
    script,         \* how far rotate.sh is: "idle", "altered", "written" or "terminated"
    new,            \* the last password generated
    running,        \* the process of the application has not exited
    imported,       \* the password dataSourceOptions holds
    conns,          \* pool -> slot -> the password its open connection logged in with, or None
    broken,         \* pool -> the slots whose connection was cut off, which it has yet to see
    probe,          \* client -> "waiting", or the last answer of this process: "ok",
                    \* "failed" or "none" so far
    server,         \* the password PgBouncer's backend logged in with, or None
    complete,       \* the last rotation ran to its end (history variable)
    seeded,         \* PgBouncer has started since (history variable)
    failures        \* the 503's since the rotation ran to its end (history variable)

secrets == <<role, file, userlist, new>>
app == <<running, imported, conns, broken, probe>>
history == <<complete, seeded, failures>>
rotationVars == <<via, secrets, pooler, script, app, server, history>>

NoConnection == [p \in Pools |-> [s \in Slots |-> None]]
Open(p) == {s \in Slots : conns[p][s] # None}

RotationInit ==
    /\ via \in {"direct", "bouncer"}
    /\ role = 0 /\ file = 0 /\ userlist = 0 /\ new = 0 /\ imported = 0
    /\ pooler = TRUE
    /\ script = "idle"
    /\ running = TRUE
    /\ conns = NoConnection
    /\ broken = [p \in Pools |-> {}]
    /\ probe = [q \in Probes |-> "none"]
    /\ server = None
    /\ complete = TRUE
    /\ seeded = FALSE
    /\ failures = 0

-----------------------------------------------------------------------------
(* rotate.sh, under set -e.                                                *)

Alter ==
    /\ script = "idle" /\ new < MaxRotations
    /\ new' = new + 1
    /\ role' = new'
    /\ script' = "altered"
    /\ UNCHANGED <<via, file, userlist, pooler, app, server, history>>

\* write_secret: the file is replaced by a rename.
WriteSecret ==
    /\ script = "altered"
    /\ file' = new
    /\ script' = "written"
    /\ UNCHANGED <<via, role, userlist, new, pooler, app, server, history>>

\* Every connection of the application ends, and its pools have yet to see it.
CutOff ==
    /\ broken' = [p \in Pools |-> broken[p] \cup Open(p)]
    /\ conns' = NoConnection

\* Mutant of Terminate: one connection of each pool, a busy one, is spared.
TerminateIdle ==
    /\ script = "written"
    /\ broken' = [p \in Pools |-> broken[p] \cup (Open(p) \ {1})]
    /\ conns' = [p \in Pools |-> [NoConnection[p] EXCEPT ![1] = conns[p][1]]]
    /\ server' = None
    /\ script' = "terminated"
    /\ UNCHANGED <<via, secrets, pooler, running, imported, probe, history>>

\* pg_terminate_backend of every backend of the role.  PgBouncer's clients stay
\* connected to PgBouncer.
Terminate ==
    /\ script = "written"
    /\ IF via = "direct" THEN CutOff ELSE UNCHANGED <<conns, broken>>
    /\ server' = None
    /\ script' = "terminated"
    /\ UNCHANGED <<via, secrets, pooler, running, imported, probe, history>>

\* The script has reached its last line.
Done ==
    /\ script = "terminated"
    /\ script' = "idle"
    /\ complete' = TRUE
    /\ failures' = 0
    /\ UNCHANGED <<via, role, file, new, pooler, app, server>>

\* Mutant of UpdateUserlist: three steps, as before the pooler.
LeaveUserlist == Done /\ seeded' = FALSE /\ UNCHANGED userlist

\* The line in the running container and SIGHUP; skipped when PgBouncer is not
\* running, whether the application needs it or not.
UpdateUserlist ==
    /\ Done
    /\ \/ pooler /\ userlist' = new /\ seeded' = FALSE
       \/ ~pooler /\ UNCHANGED <<userlist, seeded>>

\* A step fails, or the script is interrupted: it stops where it is.
Interrupt ==
    /\ script # "idle"
    /\ script' = "idle"
    /\ complete' = FALSE
    /\ UNCHANGED <<via, secrets, pooler, app, server, seeded, failures>>

-----------------------------------------------------------------------------
(* The pools.                                                              *)

\* Mutant of Password: the pg pool is given the password, not the function.
PasswordOfStart(p) == imported

\* The password a new connection of the pool sends.
Password(p) == IF p = "pg" THEN file ELSE imported

\* Who checks it: Postgres, or PgBouncer against its userlist.
Accepted(p) == IF via = "direct" THEN Password(p) = role ELSE pooler /\ Password(p) = userlist

\* The clients a pool believes it has.
Believed(p) == Open(p) \cup broken[p]

\* More requests wait than the pg pool has clients.
Demand == Cardinality({q \in Probes : probe[q] = "waiting"}) > Cardinality(Believed("pg"))

\* pg opens a connection for a request that finds no idle client, TypeORM for the
\* rest of the traffic, which is any.
Connect(p, s) ==
    /\ running
    /\ s \notin Believed(p)
    /\ p = "pg" => Demand
    /\ Accepted(p)
    /\ conns' = [conns EXCEPT ![p][s] = Password(p)]
    /\ UNCHANGED <<via, secrets, pooler, script, running, imported, broken, probe, server, history>>

\* idleTimeoutMillis, for a client that no request waits for.
CloseIdle(p, s) ==
    /\ running
    /\ s \in Open(p)
    /\ p = "pg" => Cardinality({q \in Probes : probe[q] = "waiting"}) < Cardinality(Believed("pg"))
    /\ conns' = [conns EXCEPT ![p][s] = None]
    /\ UNCHANGED <<via, secrets, pooler, script, running, imported, broken, probe, server, history>>

\* Mutant of Listeners: nobody listens to the 'error' of the pg pool.
NoListener == {"typeorm"}

\* The pools with an 'error' listener: db.module.ts adds one, and TypeORM's driver
\* has its own.
Listeners == {"pg", "typeorm"}

\* An idle client that was cut off: the pool removes it and emits 'error', and the
\* process exits unless someone listens.
DropBroken(p, s) ==
    /\ running
    /\ s \in broken[p]
    /\ broken' = [broken EXCEPT ![p] = @ \ {s}]
    /\ running' = (p \in Listeners)
    /\ UNCHANGED <<via, secrets, pooler, script, imported, conns, probe, server, history>>

\* A new process: data-source.ts reads the file when it is imported, or takes
\* DB_PASSWORD, if DB_HOST, DB_USER and DB_NAME are set: the password of the last
\* start, or the current one.
Restart ==
    /\ imported' \in {file, imported, role}
    /\ running' = TRUE
    /\ conns' = NoConnection
    /\ broken' = [p \in Pools |-> {}]
    /\ probe' = [q \in Probes |-> "none"]
    /\ UNCHANGED <<via, secrets, pooler, script, server, history>>

-----------------------------------------------------------------------------
(* GET /health/db: one query on the pg pool.                               *)

\* The last rotation ran to its end, and PgBouncer, if the application needs it,
\* has been running since.
Settled ==
    /\ script = "idle" /\ complete
    /\ via = "bouncer" => pooler /\ ~seeded

Ask(q) ==
    /\ running
    /\ probe[q] # "waiting"
    /\ probe' = [probe EXCEPT ![q] = "waiting"]
    /\ UNCHANGED <<via, secrets, pooler, script, running, imported, conns, broken, server, history>>

\* PgBouncer has a backend for the query or can log in for one.
Reachable == via = "bouncer" => server # None \/ userlist = role

\* The query runs on a client of the pool.
Answer(q) ==
    /\ running /\ probe[q] = "waiting"
    /\ Open("pg") # {}
    /\ Reachable
    /\ probe' = [probe EXCEPT ![q] = "ok"]
    /\ server' = IF via = "bouncer" /\ server = None THEN userlist ELSE server
    /\ UNCHANGED <<via, secrets, pooler, script, running, imported, conns, broken, history>>

\* The catch block: 503.
Fail(q) ==
    /\ running /\ probe[q] = "waiting"
    /\ probe' = [probe EXCEPT ![q] = "failed"]
    /\ failures' = IF Settled THEN failures + 1 ELSE failures
    /\ UNCHANGED <<via, secrets, pooler, script, running, imported, server, complete, seeded>>

\* The query was given a client that was cut off; the pool removes it.
FailBroken(q, s) ==
    /\ Fail(q)
    /\ s \in broken["pg"]
    /\ broken' = [broken EXCEPT !["pg"] = @ \ {s}]
    /\ UNCHANGED conns

\* A new connection is refused.
FailRefused(q) ==
    /\ Fail(q)
    /\ Demand /\ Believed("pg") # Slots
    /\ ~Accepted("pg")
    /\ UNCHANGED <<conns, broken>>

\* PgBouncer cannot log in for the query and drops the client.
FailUnserved(q, s) ==
    /\ Fail(q)
    /\ s \in Open("pg")
    /\ ~Reachable
    /\ conns' = [conns EXCEPT !["pg"][s] = None]
    /\ UNCHANGED broken

-----------------------------------------------------------------------------
(* PgBouncer, which logs in with the password of its userlist.             *)

\* For the queries of TypeORM's pool.
ServerLogin ==
    /\ via = "bouncer" /\ pooler /\ server = None /\ userlist = role
    /\ server' = userlist
    /\ UNCHANGED <<via, secrets, pooler, script, app, history>>

ServerClose ==
    /\ server # None
    /\ server' = None
    /\ UNCHANGED <<via, secrets, pooler, script, app, history>>

\* The container stops, and with it everything that goes through it.
StopBouncer ==
    /\ pooler
    /\ pooler' = FALSE
    /\ server' = None
    /\ IF via = "bouncer" THEN CutOff ELSE UNCHANGED <<conns, broken>>
    /\ UNCHANGED <<via, secrets, script, running, imported, probe, history>>

\* The container starts: the seed file is copied over the userlist.
StartBouncer ==
    /\ ~pooler
    /\ pooler' = TRUE
    /\ userlist' = 0
    /\ seeded' = TRUE
    /\ UNCHANGED <<via, role, file, new, script, app, server, complete, failures>>

-----------------------------------------------------------------------------
PoolStep(p, s) == Connect(p, s) \/ DropBroken(p, s) \/ CloseIdle(p, s)

ProbeStep(q) ==
    \/ Ask(q) \/ Answer(q) \/ FailRefused(q)
    \/ \E s \in Slots : FailBroken(q, s) \/ FailUnserved(q, s)

RotationNext ==
    \/ Alter \/ WriteSecret \/ Terminate \/ UpdateUserlist \/ Interrupt
    \/ \E p \in Pools, s \in Slots : PoolStep(p, s)
    \/ \E q \in Probes : ProbeStep(q)
    \/ Restart \/ ServerLogin \/ ServerClose \/ StopBouncer \/ StartBouncer

\* A client of /health/db asks again when it has its answer; the pool serves the
\* request, opens the connection it needs, and the event loop handles 'error'.
RotationSpec == /\ RotationInit /\ [][RotationNext]_rotationVars
                /\ \A q \in Probes : WF_rotationVars(Ask(q)) /\ WF_rotationVars(Answer(q))
                /\ WF_rotationVars(\E s \in Slots : Connect("pg", s))
                /\ \A p \in Pools, s \in Slots : WF_rotationVars(DropBroken(p, s))

-----------------------------------------------------------------------------
\* A query of the pool can be answered, on a connection that is open or a new one.
Serves(p) == (Open(p) # {} \/ Accepted(p)) /\ Reachable

\* After a rotation that ran to its end the pg pool can serve, whichever way the
\* application connects and however many rotations were interrupted before.  The
\* rest of the application can if and only if its process has the current password
\* or still holds a client of PgBouncer: TypeORM's pool keeps the password of its
\* start, so "No restart needed" (rotate.sh) is true of /health/db only.
RefusedForAReason ==
    Settled => /\ Serves("pg")
               /\ Serves("typeorm")
                    <=> imported = file \/ (via = "bouncer" /\ Open("typeorm") # {})

\* After a rotation no backend of Postgres is left that logged in with an older
\* password ("old connections are dropped", rotate.sh), which needs ALTER ROLE to
\* come before the termination.
NoOldBackend ==
    Settled => /\ via = "direct" => \A p \in Pools : \A s \in Open(p) : conns[p][s] = role
               /\ server \in {None, role}

\* What a rotation costs the clients of /health/db once it is done: each 503 is a
\* client of the pool that was cut off, so there are at most DB_POOL_MAX, however
\* many ask and whatever the connections do meanwhile.
FewProbesFail == Settled => failures <= PoolMax

\* "Database connection dropped [...] - the pool will open a new one"
\* (db.module.ts), and the README's check of a rotation, curl /health/db until it
\* is 200: a client that keeps asking after a rotation gets its 200, also when
\* every client of the pool was cut off, unless the process is replaced ("none")
\* or the database is disturbed again.
PoolRecovers ==
    \A q \in Probes : Settled /\ probe[q] = "waiting" ~> probe[q] \in {"ok", "none"} \/ ~Settled
=============================================================================
