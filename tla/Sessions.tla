------------------------------ MODULE Sessions ------------------------------
(***************************************************************************)
(* Login, refresh rotation with reuse detection, logout, the access token  *)
(* check and the roles of src/src/auth, on refresh_tokens and              *)
(* revoked_access_tokens, statement by statement at READ COMMITTED.        *)
(*                                                                         *)
(* A login or a refresh issues a pair: a refresh token, which is a row,    *)
(* and an access token, which carries its jti, its session (the family)    *)
(* and its exp.  Token t stands for both halves of the pair: row t, jti t. *)
(* A family is named after the token its login issued.                     *)
(*                                                                         *)
(* An UPDATE over a family sees the rows that were committed when it       *)
(* started, waits for the locked ones and reads each again once it has its *)
(* lock.  A row that another transaction inserts meanwhile is not seen.    *)
(* now() in SQL is the start of the transaction.                           *)
(***************************************************************************)
EXTENDS Naturals, FiniteSets

CONSTANTS
    Tokens,         \* numbered in the order they are drawn
    Unknown,        \* a refresh token that is in no row
    NoRow,          \* a row that does not exist (yet)
    Requests,       \* numbered in the order they arrive
    NoOne,          \* nobody holds the lock
    AccessTTL,      \* ACCESS_TTL_SECONDS
    RefreshTTL,     \* REFRESH_TTL_SECONDS
    MaxLogins,      \* bound: logins in a behaviour
    MaxClock        \* bound: time stops here

ASSUME TokensAssumption == Tokens \subseteq Nat /\ Unknown \notin Tokens
ASSUME RowsAssumption ==
    NoRow \notin [family : Tokens, used : BOOLEAN, revoked : BOOLEAN, expires : Nat]
ASSUME RequestsAssumption == Requests \subseteq Nat /\ NoOne \notin Requests
ASSUME TTLAssumption == {AccessTTL, RefreshTTL} \subseteq Nat \ {0} /\ {MaxLogins, MaxClock} \subseteq Nat

VARIABLES
    clock,          \* the wall clock
    row,            \* refresh_tokens, committed
    exp,            \* exp of the access token of each pair that was issued
    denylist,       \* revoked_access_tokens, committed: the jti's; expires_at is exp
    delivered,      \* the pairs some client received
    lock,           \* token -> the request that holds its row lock
    pc,             \* request -> its next statement
    token,          \* request -> the refresh token or the access token it presents
    kind,           \* request -> "refresh", "logout", or a "read" or "write" of the API
    start,          \* request -> now() of its transaction
    scan,           \* request -> the rows its revokeFamily has not visited yet
    work,           \* request -> what it has written and not committed
    answer,         \* request -> how it ended
    role,           \* users.role of the one user
    claim,          \* the role in the access token of each pair
    seen,           \* request -> the family when its revokeFamily started (history variable)
    loggedOut,      \* the jti's of committed logouts (history variable)
    began,          \* request -> users.role when it arrived (history variable)
    asked           \* pair -> users.role when it was asked for (history variable)

vars == <<clock, row, exp, denylist, delivered, lock, pc, token, kind, start, scan, work,
          answer, role, claim, seen, loggedOut, began, asked>>

\* What was issued, as committed or as signed.
pairs == <<row, exp, claim, asked>>
tables == <<pairs, denylist, delivered, loggedOut, role>>

\* What a request is, fixed when it arrives.
req == <<token, kind, began>>

Row(family, expires) ==
    [family |-> family, used |-> FALSE, revoked |-> FALSE, expires |-> expires]

NoWork == [used |-> {}, revoked |-> {}, issued |-> {}, exp |-> 0, claim |-> "member",
           denied |-> {}, purged |-> {}]

Init ==
    /\ clock = 1
    /\ row = [t \in Tokens |-> NoRow]
    /\ exp = [t \in Tokens |-> 0]
    /\ denylist = {}
    /\ delivered = {}
    /\ lock = [t \in Tokens |-> NoOne]
    /\ pc = [r \in Requests |-> "new"]
    /\ token = [r \in Requests |-> Unknown]
    /\ kind = [r \in Requests |-> "none"]
    /\ start = [r \in Requests |-> 0]
    /\ scan = [r \in Requests |-> {}]
    /\ work = [r \in Requests |-> NoWork]
    /\ answer = [r \in Requests |-> "none"]
    /\ role = "member"
    /\ claim = [t \in Tokens |-> "member"]
    /\ seen = [r \in Requests |-> {}]
    /\ loggedOut = {}
    /\ began = [r \in Requests |-> "member"]
    /\ asked = [t \in Tokens |-> "member"]

-----------------------------------------------------------------------------
(* Postgres.                                                               *)

Exists(t) == t \in Tokens /\ row[t] # NoRow

\* newRefresh() and randomUUID(): a token nobody has drawn.
Drawn(t) == row[t] # NoRow \/ \E r \in Requests : t \in work[r].issued
Fresh(t) == ~Drawn(t) /\ \A u \in Tokens : u < t => Drawn(u)

Family(f) == {t \in Tokens : row[t] # NoRow /\ row[t].family = f}

ReleaseLocks(r) == lock' = [t \in Tokens |-> IF lock[t] = r THEN NoOne ELSE lock[t]]

\* The transaction, if there is one, is over, and the request is answered.
End(r, why) ==
    /\ ReleaseLocks(r)
    /\ pc' = [pc EXCEPT ![r] = "ended"]
    /\ scan' = [scan EXCEPT ![r] = {}]
    /\ work' = [work EXCEPT ![r] = NoWork]
    /\ answer' = [answer EXCEPT ![r] = why]
    /\ start' = [start EXCEPT ![r] = 0]
    /\ UNCHANGED <<clock, req, seen>>

\* The row versions of the UPDATEs become current.
Written(r, t) ==
    [row[t] EXCEPT !.used = @ \/ t \in work[r].used, !.revoked = @ \/ t \in work[r].revoked]

-----------------------------------------------------------------------------
\* validateUser reads the role, scrypt takes its time, and login's one INSERT,
\* outside a transaction, starts a new family: the role may have been changed in
\* between.  A wrong password changes nothing, and a pair whose response is lost
\* is as good as never issued.
Login(t, read) ==
    /\ Fresh(t)
    /\ Cardinality({f \in Tokens : Family(f) # {}}) < MaxLogins
    /\ read \in {"member", role}
    /\ row' = [row EXCEPT ![t] = Row(t, clock + RefreshTTL)]
    /\ exp' = [exp EXCEPT ![t] = clock + AccessTTL]
    /\ claim' = [claim EXCEPT ![t] = read]
    /\ asked' = [asked EXCEPT ![t] = read]
    /\ delivered' = delivered \cup {t}
    /\ UNCHANGED <<clock, denylist, role, lock, pc, req, start, scan, work, answer, seen,
                   loggedOut>>

\* The user, a member so far, is made a viewer.
Demote ==
    /\ role = "member"
    /\ role' = "viewer"
    /\ UNCHANGED <<clock, pairs, denylist, delivered, loggedOut, lock, pc, req, start, scan,
                   work, answer, seen>>

-----------------------------------------------------------------------------
(* refresh.                                                                *)

\* POST /auth/refresh arrives: BEGIN.  Whoever holds a copy may present it.
Refresh(r, t) ==
    /\ pc[r] = "new"
    /\ t \in delivered \cup {Unknown}
    /\ token' = [token EXCEPT ![r] = t]
    /\ kind' = [kind EXCEPT ![r] = "refresh"]
    /\ began' = [began EXCEPT ![r] = role]
    /\ start' = [start EXCEPT ![r] = clock]
    /\ pc' = [pc EXCEPT ![r] = "lock"]
    /\ UNCHANGED <<clock, tables, lock, scan, work, answer, seen>>

\* The SELECT ... FOR UPDATE of refresh has its row, unlocked by anyone else.
Locks(r) == pc[r] = "lock" /\ Exists(token[r]) /\ lock[token[r]] = NoOne

Dead(r) == row[token[r]].revoked \/ row[token[r]].expires <= start[r]

\* Mutant of PresentInvalid: the request is answered without ending the
\* transaction that locked the row.
PresentInvalidOpen(r) ==
    /\ \/ pc[r] = "lock" /\ ~Exists(token[r]) /\ UNCHANGED lock
       \/ Locks(r) /\ Dead(r) /\ lock' = [lock EXCEPT ![token[r]] = r]
    /\ pc' = [pc EXCEPT ![r] = "ended"]
    /\ answer' = [answer EXCEPT ![r] = "invalid"]
    /\ UNCHANGED <<clock, tables, req, start, scan, work, seen>>

\* No such row, or a dead one: the transaction ends with nothing written.
PresentInvalid(r) ==
    /\ \/ pc[r] = "lock" /\ ~Exists(token[r])
       \/ Locks(r) /\ Dead(r)
    /\ End(r, "invalid")
    /\ UNCHANGED tables

\* A token that was used before is a replay.
PresentUsed(r) ==
    /\ Locks(r) /\ ~Dead(r) /\ row[token[r]].used
    /\ lock' = [lock EXCEPT ![token[r]] = r]
    /\ pc' = [pc EXCEPT ![r] = "revoke"]
    /\ UNCHANGED <<clock, tables, req, start, scan, work, answer, seen>>

\* The token is live: UPDATE used_at, then issue: INSERT of the successor n, and
\* an access token with the role `read` is signed.  Nobody sees it before COMMIT.
Rotate(r, n, read) ==
    /\ Locks(r) /\ ~Dead(r) /\ ~row[token[r]].used
    /\ Fresh(n)
    /\ work' = [work EXCEPT ![r].used = {token[r]}, ![r].issued = {n},
                            ![r].exp = clock + AccessTTL, ![r].claim = read]
    /\ pc' = [pc EXCEPT ![r] = "commit"]
    /\ UNCHANGED <<clock, tables, req, start, scan, answer, seen>>

\* Mutant of PresentLive: the SELECT does not lock the row.
PresentLiveUnlocked(r, n) == Rotate(r, n, role) /\ UNCHANGED lock

\* Mutant of PresentLive: the role is copied from the pair that is presented.
PresentLiveOldRole(r, n) ==
    Rotate(r, n, claim[token[r]]) /\ lock' = [lock EXCEPT ![token[r]] = r]

\* The row is locked, and the role is read again, not copied from the old token.
PresentLive(r, n) == Rotate(r, n, role) /\ lock' = [lock EXCEPT ![token[r]] = r]

\* COMMIT of a rotation that leaves `successor` behind and marks `used`.
Install(r, successor, used) ==
    /\ pc[r] = "commit" /\ work[r].issued # {}
    /\ row' = [t \in Tokens |-> CASE t \in work[r].issued -> successor
                                  [] t \in used -> Written(r, t)
                                  [] OTHER -> row[t]]
    /\ exp' = [t \in Tokens |-> IF t \in work[r].issued THEN work[r].exp ELSE exp[t]]
    /\ claim' = [t \in Tokens |-> IF t \in work[r].issued THEN work[r].claim ELSE claim[t]]
    /\ asked' = [t \in Tokens |-> IF t \in work[r].issued THEN began[r] ELSE asked[t]]
    /\ ReleaseLocks(r)
    /\ pc' = [pc EXCEPT ![r] = "respond"]
    /\ UNCHANGED <<clock, denylist, delivered, loggedOut, role, req, start, scan, work,
                   answer, seen>>

Successor(r) == Row(row[token[r]].family, start[r] + RefreshTTL)

\* Mutant of CommitRotation: the successor is issued and the used mark is lost.
CommitIssuedOnly(r) == Install(r, Successor(r), {})

\* Mutant of CommitRotation: the used mark is set by family, on the successor too.
CommitAllUsed(r) == Install(r, [Successor(r) EXCEPT !.used = TRUE], work[r].used)

\* COMMIT of a rotation: the used mark and the successor together.
CommitRotation(r) == Install(r, Successor(r), work[r].used)

Respond(r) ==
    /\ pc[r] = "respond"
    /\ delivered' = delivered \cup work[r].issued
    /\ End(r, "ok")
    /\ UNCHANGED <<pairs, denylist, loggedOut, role>>

-----------------------------------------------------------------------------
(* The access token check, and logout behind it.                           *)

\* A request with the access token of pair t, or with none that we signed.
Call(r, t, what) ==
    /\ pc[r] = "new"
    /\ t \in delivered \cup {Unknown}
    /\ token' = [token EXCEPT ![r] = t]
    /\ kind' = [kind EXCEPT ![r] = what]
    /\ began' = [began EXCEPT ![r] = role]
    /\ pc' = [pc EXCEPT ![r] = "verify"]
    /\ UNCHANGED <<clock, tables, lock, start, scan, work, answer, seen>>

\* passport-jwt, or verifyAsync on the WS handshake: a key is known for the
\* token, the signature is good, and it is not expired.
Authentic(t) == t \in Tokens /\ exp[t] > clock

CheckExp(r) ==
    /\ pc[r] = "verify"
    /\ Authentic(token[r])
    /\ pc' = [pc EXCEPT ![r] = "denylist"]
    /\ UNCHANGED <<clock, tables, lock, req, start, scan, work, answer, seen>>

RejectExpired(r) ==
    /\ pc[r] = "verify"
    /\ ~Authentic(token[r])
    /\ End(r, "unauthorized")
    /\ UNCHANGED tables

\* isRevoked: WHERE jti = $1 AND expires_at > now().
IsRevoked(jti) == jti \in denylist /\ exp[jti] > clock

RejectRevoked(r) ==
    /\ pc[r] = "denylist"
    /\ IsRevoked(token[r])
    /\ End(r, "unauthorized")
    /\ UNCHANGED tables

\* RolesGuard: a route marked @Roles('member') needs the role in the token.
MayDo(r) == kind[r] = "write" => claim[token[r]] = "member"

\* The guards let the request through to its handler, or answer 403.
Serve(r) ==
    /\ pc[r] = "denylist"
    /\ ~IsRevoked(token[r])
    /\ kind[r] # "logout"
    /\ End(r, IF MayDo(r) THEN "served" ELSE "forbidden")
    /\ UNCHANGED tables

\* ... which for logout is a transaction that begins with revokeFamily.
BeginLogout(r) ==
    /\ pc[r] = "denylist"
    /\ ~IsRevoked(token[r])
    /\ kind[r] = "logout"
    /\ start' = [start EXCEPT ![r] = clock]
    /\ pc' = [pc EXCEPT ![r] = "revoke"]
    /\ UNCHANGED <<clock, tables, lock, req, scan, work, answer, seen>>

-----------------------------------------------------------------------------
(* revokeFamily, for a replay and for logout.                              *)

\* Mutant of StartRevoke: only the rows that have been used are revoked.
StartRevokeUsed(r) ==
    /\ pc[r] = "revoke"
    /\ scan' = [scan EXCEPT ![r] = {t \in Family(row[token[r]].family) :
                                       ~row[t].revoked /\ row[t].used}]
    /\ pc' = [pc EXCEPT ![r] = "revoking"]
    /\ seen' = [seen EXCEPT ![r] = Family(row[token[r]].family)]
    /\ UNCHANGED <<clock, tables, lock, req, start, work, answer>>

\* The UPDATE starts: its rows are the family's unrevoked rows of this moment.
StartRevoke(r) ==
    /\ pc[r] = "revoke"
    /\ scan' = [scan EXCEPT ![r] = {t \in Family(row[token[r]].family) : ~row[t].revoked}]
    /\ pc' = [pc EXCEPT ![r] = "revoking"]
    /\ seen' = [seen EXCEPT ![r] = Family(row[token[r]].family)]
    /\ UNCHANGED <<clock, tables, lock, req, start, work, answer>>

\* One row of the UPDATE: locked, read again, written unless it is revoked by now.
RevokeRow(r, t) ==
    /\ pc[r] = "revoking"
    /\ t \in scan[r]
    /\ lock[t] \in {NoOne, r}
    /\ scan' = [scan EXCEPT ![r] = @ \ {t}]
    /\ IF row[t].revoked
       THEN UNCHANGED <<lock, work>>
       ELSE /\ lock' = [lock EXCEPT ![t] = r]
            /\ work' = [work EXCEPT ![r].revoked = @ \cup {t}]
    /\ UNCHANGED <<clock, tables, pc, req, start, answer, seen>>

Revoked(r) == pc[r] = "revoking" /\ scan[r] = {}

\* COMMIT of the revocation; only then the 401 for the replay is thrown.
CommitReuse(r) ==
    /\ Revoked(r) /\ kind[r] # "logout"
    /\ row' = [t \in Tokens |-> IF t \in work[r].revoked THEN Written(r, t) ELSE row[t]]
    /\ End(r, "reuse")
    /\ UNCHANGED <<exp, claim, asked, denylist, delivered, loggedOut, role>>

\* Mutant of Deny: the purge takes every entry but the new one.
DenyAndPurgeAll(r) ==
    /\ Revoked(r) /\ kind[r] = "logout"
    /\ \A q \in Requests \ {r} : work[q].denied # {token[r]}
    /\ work' = [work EXCEPT ![r].denied = {token[r]}, ![r].purged = denylist \ {token[r]}]
    /\ pc' = [pc EXCEPT ![r] = "commit"]
    /\ UNCHANGED <<clock, tables, lock, req, start, scan, answer, seen>>

\* INSERT of the jti, which waits for another INSERT of the same jti, and the
\* DELETE of the entries past their exp.
Deny(r) ==
    /\ Revoked(r) /\ kind[r] = "logout"
    /\ \A q \in Requests \ {r} : work[q].denied # {token[r]}
    /\ work' = [work EXCEPT ![r].denied = {token[r]},
                            ![r].purged = {j \in denylist \cup {token[r]} : exp[j] <= start[r]}]
    /\ pc' = [pc EXCEPT ![r] = "commit"]
    /\ UNCHANGED <<clock, tables, lock, req, start, scan, answer, seen>>

CommitLogout(r) ==
    /\ pc[r] = "commit" /\ work[r].denied # {}
    /\ row' = [t \in Tokens |-> IF t \in work[r].revoked THEN Written(r, t) ELSE row[t]]
    /\ denylist' = (denylist \cup work[r].denied) \ work[r].purged
    /\ loggedOut' = loggedOut \cup work[r].denied
    /\ End(r, "logged_out")
    /\ UNCHANGED <<exp, claim, asked, delivered, role>>

-----------------------------------------------------------------------------
(* Time and failures.                                                      *)

Tick ==
    /\ clock < MaxClock
    /\ clock' = clock + 1
    /\ UNCHANGED <<tables, lock, pc, req, start, scan, work, answer, seen>>

\* The requests r may be waiting for: the holder of its next row, where a scan
\* visits its rows in any order, or an INSERT of the same jti.
BlockedBy(r) ==
    CASE pc[r] = "lock" /\ Exists(token[r]) -> {lock[token[r]]} \ {NoOne}
      [] pc[r] = "revoking" /\ scan[r] # {} -> {lock[t] : t \in scan[r]} \ {NoOne, r}
      [] Revoked(r) /\ kind[r] = "logout" -> {q \in Requests \ {r} : work[q].denied = {token[r]}}
      [] OTHER -> {}

\* r is on a circle of requests that wait for each other.
InDeadlock(r) ==
    LET blocked == {q \in Requests : BlockedBy(q) # {}} IN
    /\ r \in blocked
    /\ \E circle \in SUBSET blocked : \E next \in [circle -> circle] :
           /\ r \in circle
           /\ {next[q] : q \in circle} = circle
           /\ \A q \in circle : next[q] \in BlockedBy(q)

\* Postgres aborts one transaction of a circle (40P01): a 500, nothing written.
AbortDeadlock(r) ==
    /\ InDeadlock(r)
    /\ End(r, "deadlock")
    /\ UNCHANGED tables

\* The process or the connection dies in a transaction, which is rolled back
\* ("crashed"), or after the COMMIT of a rotation and before the response is sent
\* ("unanswered").
Crash(r) ==
    /\ pc[r] \in {"lock", "commit", "respond", "revoke", "revoking"}
    /\ End(r, IF pc[r] = "respond" THEN "unanswered" ELSE "crashed")
    /\ UNCHANGED tables

Step(r) ==
    \/ PresentInvalid(r) \/ PresentUsed(r) \/ CommitRotation(r) \/ Respond(r)
    \/ \E n \in Tokens : PresentLive(r, n) \/ RevokeRow(r, n)
    \/ CheckExp(r) \/ RejectExpired(r) \/ RejectRevoked(r) \/ Serve(r) \/ BeginLogout(r)
    \/ StartRevoke(r) \/ CommitReuse(r) \/ Deny(r) \/ CommitLogout(r)
    \/ AbortDeadlock(r)

Arrive(r) ==
    /\ \A q \in Requests : q < r => pc[q] # "new"
    /\ \E t \in Tokens \cup {Unknown} :
          Refresh(r, t) \/ \E what \in {"read", "write", "logout"} : Call(r, t, what)

\* Every request is over.
AllEnded ==
    /\ \A r \in Requests : pc[r] = "ended"
    /\ UNCHANGED vars

Next ==
    \/ \E t \in Tokens, read \in {"member", "viewer"} : Login(t, read)
    \/ Demote
    \/ \E r \in Requests : Arrive(r) \/ Step(r) \/ Crash(r)
    \/ Tick
    \/ AllEnded

Spec == Init /\ [][Next]_vars

\* The statements of a request run unless they are blocked; Postgres breaks
\* every deadlock.  Nothing makes clients, time or crashes happen.
FairSpec == Spec /\ \A r \in Requests : WF_vars(Step(r))

-----------------------------------------------------------------------------
\* "Every refresh marks the presented token used and issues a successor in the
\* same family, in one COMMIT" (auth.service.ts): a family never has two tokens
\* that were not presented yet, however many refreshes of it race.
UniqueHead ==
    \A t, u \in Tokens :
        Exists(t) /\ Exists(u) /\ row[t].family = row[u].family /\ ~row[t].used /\ ~row[u].used
            => t = u

\* "FOR UPDATE serialises": no other refresh and no revocation of the presented
\* token comes between the check that found it live and the COMMIT of its
\* successor.
RotatesLiveToken ==
    [][\A r \in Requests : pc[r] = "commit" /\ pc'[r] = "respond"
          => ~row[token[r]].used /\ ~row[token[r]].revoked]_vars

\* What a replay or a logout does reach: once it is answered, each token that was
\* committed when its revokeFamily started is revoked and stays so, whatever
\* rotations and other revocations of the family ran beside it.
RevocationReaches ==
    \A r \in Requests : answer[r] \in {"reuse", "logged_out"} =>
        \A t \in seen[r] : row[t].revoked

\* The rotation of the token that q presented has committed.
Rotated(q) ==
    kind[q] = "refresh" /\ (pc[q] = "respond" \/ answer[q] \in {"ok", "unanswered"})

\* "A token that was already used is a replay" (auth.service.ts): a client is
\* accused of one only if exactly one other request has committed a rotation of
\* the token it presents.  A refresh that was rolled back by a crash or an abort
\* accuses nobody, nor does a logout; the client whose response was lost after
\* the COMMIT is accused when it tries again.
NoFalseAlarm ==
    \A r \in Requests : answer[r] = "reuse" =>
        \E q \in Requests \ {r} :
            \A p \in Requests : token[p] = token[r] /\ Rotated(p) <=> p = q

\* "Only a denylist entry for its jti stops it" (auth.service.ts): after a
\* logout has committed, its access token passes the guard no more before its
\* exp, though every later logout purges the list.
LogoutDenies ==
    [][\A r \in Requests :
          /\ pc[r] = "denylist"
          /\ pc'[r] = "revoke" \/ answer'[r] = "served"
          /\ token[r] \in loggedOut
          => exp[token[r]] <= clock]_vars

\* "A refresh is where a demotion catches up with the session" (auth.service.ts):
\* no pair that was asked for after the demotion says "member", so a write is
\* done after it only with a pair that was asked for before, until its exp.
DemotionCatchesUp ==
    /\ \A t \in delivered : asked[t] = "viewer" => claim[t] = "viewer"
    /\ \A r \in Requests : kind[r] = "write" /\ answer[r] = "served" => asked[token[r]] = "member"

\* Every request that arrived is answered: nobody waits for a lock for ever,
\* even where revocations of one family wait for each other.
EveryRequestEnds == \A r \in Requests : (pc[r] # "new") ~> (pc[r] = "ended")

\* "So the whole family dies and both have to log in again" (auth.service.ts):
\* once a replay or a logout is answered, no token of the family can be
\* refreshed.  A refresh of the family that is under way when the revocation
\* starts commits a successor the revocation does not see.
FamilyDies ==
    \A r \in Requests : answer[r] \in {"reuse", "logged_out"} =>
        \A t \in Family(row[token[r]].family) : row[t].revoked
=============================================================================
