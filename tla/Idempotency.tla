---------------------------- MODULE Idempotency -----------------------------
(***************************************************************************)
(* IdempotencyInterceptor of src/src/shared/idempotency.interceptor.ts: a  *)
(* POST with an Idempotency-Key has its effect once, and a retry is        *)
(* answered from the stored response.                                      *)
(*                                                                         *)
(* The interceptor runs in one synchronous stretch when the request        *)
(* arrives, and once more when Node emits 'finish' for the response.  In   *)
(* between, the handler runs one database transaction.  A response to a    *)
(* connection that the client has closed is discarded without a 'finish'.  *)
(* The store is a Map of the process: a restart empties it.                *)
(***************************************************************************)
EXTENDS Naturals

CONSTANTS
    Keys,           \* `${user.id}:${rawKey}`
    NoKey,          \* a request the interceptor passes by
    Bodies,         \* by fingerprint
    Requests,
    NoRecord,
    NoResponse,
    TTL,            \* TTL_MS
    MaxClock,       \* bound: time stops here
    MaxBoots        \* bound: starts of the process

ASSUME KeysAssumption == NoKey \notin Keys
ASSUME RequestsAssumption == NoResponse \notin Requests
ASSUME RecordsAssumption ==
    NoRecord \notin [state : {"in-flight"}, fingerprint : Bodies, expiresAt : Nat]
                      \cup [state : {"done"}, fingerprint : Bodies, body : Requests, expiresAt : Nat]
ASSUME BoundsAssumption == TTL \in Nat \ {0} /\ MaxClock \in Nat /\ MaxBoots \in Nat

VARIABLES
    clock,          \* Date.now()
    boot,           \* how often the process was started
    store,          \* key -> its record
    pc,             \* request -> "new", "handler", "committed", "respond" or "ended"
    key, body,      \* request -> what it carries
    open,           \* request -> its connection is open
    statusCode,     \* request -> the status of its response, once there is one
    applied,        \* request -> its transaction has committed
    replay,         \* request -> whose response it was answered with
    claimedAt,      \* request -> when it passed the interceptor (history variable)
    claimedIn       \* request -> in which boot (history variable)

vars == <<clock, boot, store, pc, key, body, open, statusCode, applied, replay, claimedAt, claimedIn>>
request == <<key, body, claimedAt, claimedIn>>

InFlight(fp) == [state |-> "in-flight", fingerprint |-> fp, expiresAt |-> clock + TTL]
Done(fp, r) == [state |-> "done", fingerprint |-> fp, body |-> r, expiresAt |-> clock + TTL]

Init ==
    /\ clock = 0
    /\ boot = 1
    /\ store = [k \in Keys |-> NoRecord]
    /\ pc = [r \in Requests |-> "new"]
    /\ key = [r \in Requests |-> NoKey]
    /\ body \in [Requests -> Bodies]
    /\ open = [r \in Requests |-> TRUE]
    /\ statusCode = [r \in Requests |-> 0]
    /\ applied = [r \in Requests |-> FALSE]
    /\ replay = [r \in Requests |-> NoResponse]
    /\ claimedAt = [r \in Requests |-> 0]
    /\ claimedIn = [r \in Requests |-> 0]

-----------------------------------------------------------------------------
(* intercept.                                                              *)

\* The record of the key, unless it has expired.
Live(k) == store[k] # NoRecord /\ store[k].expiresAt > clock

Arrives(r, k) == pc[r] = "new" /\ key' = [key EXCEPT ![r] = k]

Answer(r, code) ==
    /\ statusCode' = [statusCode EXCEPT ![r] = code]
    /\ pc' = [pc EXCEPT ![r] = "ended"]

\* No key, no user, or not a POST.
Bypass(r) ==
    /\ Arrives(r, NoKey)
    /\ pc' = [pc EXCEPT ![r] = "handler"]
    /\ UNCHANGED <<clock, boot, store, body, open, statusCode, applied, replay, claimedAt, claimedIn>>

Mismatch(r, k) ==
    /\ Arrives(r, k)
    /\ Live(k) /\ store[k].fingerprint # body[r]
    /\ Answer(r, 422)
    /\ UNCHANGED <<clock, boot, store, body, open, applied, replay, claimedAt, claimedIn>>

StillInFlight(r, k) ==
    /\ Arrives(r, k)
    /\ Live(k) /\ store[k].fingerprint = body[r] /\ store[k].state = "in-flight"
    /\ Answer(r, 409)
    /\ UNCHANGED <<clock, boot, store, body, open, applied, replay, claimedAt, claimedIn>>

\* Mutant of Replay: the fingerprint is not compared.
ReplayAnyBody(r, k) ==
    /\ Arrives(r, k)
    /\ Live(k) /\ store[k].state = "done"
    /\ replay' = [replay EXCEPT ![r] = store[k].body]
    /\ Answer(r, 201)
    /\ UNCHANGED <<clock, boot, store, body, open, applied, claimedAt, claimedIn>>

Replay(r, k) ==
    /\ Arrives(r, k)
    /\ Live(k) /\ store[k].fingerprint = body[r] /\ store[k].state = "done"
    /\ replay' = [replay EXCEPT ![r] = store[k].body]
    /\ Answer(r, 201)
    /\ UNCHANGED <<clock, boot, store, body, open, applied, claimedAt, claimedIn>>

\* The key is free: it is taken before the handler starts.
Claim(r, k) ==
    /\ Arrives(r, k)
    /\ ~Live(k)
    /\ store' = [store EXCEPT ![k] = InFlight(body[r])]
    /\ pc' = [pc EXCEPT ![r] = "handler"]
    /\ claimedAt' = [claimedAt EXCEPT ![r] = clock]
    /\ claimedIn' = [claimedIn EXCEPT ![r] = boot]
    /\ UNCHANGED <<clock, boot, body, open, statusCode, applied, replay>>

-----------------------------------------------------------------------------
(* The handler and the response.                                           *)

Commit(r) ==
    /\ pc[r] = "handler"
    /\ applied' = [applied EXCEPT ![r] = TRUE]
    /\ pc' = [pc EXCEPT ![r] = "committed"]
    /\ UNCHANGED <<clock, boot, store, request, open, statusCode, replay>>

\* A 201, whose body tap() has captured; or an error, before the transaction
\* committed or, rarely, after it.
Respond(r) ==
    /\ \/ pc[r] = "committed" /\ statusCode' = [statusCode EXCEPT ![r] = 201]
       \/ pc[r] \in {"handler", "committed"} /\ statusCode' = [statusCode EXCEPT ![r] = 500]
    /\ pc' = [pc EXCEPT ![r] = "respond"]
    /\ UNCHANGED <<clock, boot, store, request, open, applied, replay>>

\* The client gives up waiting and closes the connection.  The handler runs on.
Disconnect(r) ==
    /\ pc[r] \in {"handler", "committed", "respond"}
    /\ open[r]
    /\ open' = [open EXCEPT ![r] = FALSE]
    /\ UNCHANGED <<clock, boot, store, pc, request, statusCode, applied, replay>>

\* Mutant of Finish: a 201 releases the key like any other response.
FinishReleases(r) ==
    /\ pc[r] = "respond"
    /\ open[r]
    /\ IF key[r] = NoKey THEN UNCHANGED store ELSE store' = [store EXCEPT ![key[r]] = NoRecord]
    /\ pc' = [pc EXCEPT ![r] = "ended"]
    /\ UNCHANGED <<clock, boot, request, open, statusCode, applied, replay>>

\* 'finish': a 201 is stored for replay, anything else releases the key.
Finish(r) ==
    /\ pc[r] = "respond"
    /\ open[r]
    /\ IF key[r] = NoKey
       THEN UNCHANGED store
       ELSE store' = [store EXCEPT ![key[r]] =
                         IF statusCode[r] = 201 THEN Done(body[r], r) ELSE NoRecord]
    /\ pc' = [pc EXCEPT ![r] = "ended"]
    /\ UNCHANGED <<clock, boot, request, open, statusCode, applied, replay>>

\* The connection is closed: Node discards the response, there is no 'finish'.
Discard(r) ==
    /\ pc[r] = "respond"
    /\ ~open[r]
    /\ pc' = [pc EXCEPT ![r] = "ended"]
    /\ UNCHANGED <<clock, boot, store, request, open, statusCode, applied, replay>>

-----------------------------------------------------------------------------
(* Time and restarts.                                                      *)

UnderWay(r) == pc[r] \in {"handler", "committed", "respond"}

\* TTL_MS is a day: a request is over long before its record expires.
Tick ==
    /\ clock < MaxClock
    /\ \A r \in Requests : UnderWay(r) /\ key[r] # NoKey => clock + 1 < claimedAt[r] + TTL
    /\ clock' = clock + 1
    /\ UNCHANGED <<boot, store, pc, request, open, statusCode, applied, replay>>

\* The process dies with everything under way; a transaction that has not
\* committed is rolled back.
Restart ==
    /\ boot < MaxBoots
    /\ boot' = boot + 1
    /\ store' = [k \in Keys |-> NoRecord]
    /\ pc' = [r \in Requests |-> IF UnderWay(r) THEN "ended" ELSE pc[r]]
    /\ UNCHANGED <<clock, request, open, statusCode, applied, replay>>

Arrive(r) ==
    \/ Bypass(r)
    \/ \E k \in Keys : Mismatch(r, k) \/ StillInFlight(r, k) \/ Replay(r, k) \/ Claim(r, k)

Step(r) == Commit(r) \/ Respond(r) \/ Finish(r) \/ Discard(r)

AllEnded == (\A r \in Requests : pc[r] = "ended") /\ UNCHANGED vars

Next ==
    \/ \E r \in Requests : Arrive(r) \/ Step(r) \/ Disconnect(r)
    \/ Tick
    \/ Restart
    \/ AllEnded

Spec == Init /\ [][Next]_vars

\* A handler ends and its response is sent or discarded.
FairSpec == Spec /\ \A r \in Requests : WF_vars(Step(r))

-----------------------------------------------------------------------------
\* The claims of r and q are less than a TTL apart, in one life of the process.
SameWindow(r, q) ==
    /\ claimedIn[r] = claimedIn[q]
    /\ claimedAt[r] < claimedAt[q] + TTL
    /\ claimedAt[q] < claimedAt[r] + TTL

\* What the key is handed out for: of all the requests with one key, concurrent,
\* retried, timed out or disconnected, at most one has its effect, unless the
\* handler failed after its COMMIT (the comment in `finish` accepts that), the
\* process was restarted or the TTL has passed.
OneEffectPerKey ==
    \A r, q \in Requests :
        r # q /\ key[r] = key[q] /\ key[r] # NoKey /\ applied[r] /\ applied[q] /\ SameWindow(r, q)
            => 500 \in {statusCode[r], statusCode[q]}

\* "One key belongs to one operation": a replayed response is the response to a
\* request with the same key and the same body that took effect and succeeded.
ReplayIsTruthful ==
    \A r \in Requests : replay[r] # NoResponse =>
        LET q == replay[r] IN
        key[q] = key[r] /\ body[q] = body[r] /\ applied[q] /\ statusCode[q] = 201

\* "A request with this Idempotency-Key is still in flight - retry in a moment":
\* while a key is answered with that 409, a request that claimed it is under way.
ConflictIsTransient ==
    \A k \in Keys : Live(k) /\ store[k].state = "in-flight" =>
        \E r \in Requests : UnderWay(r) /\ key[r] = k
=============================================================================
