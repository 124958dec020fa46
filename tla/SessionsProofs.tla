--------------------------- MODULE SessionsProofs ---------------------------
(***************************************************************************)
(* Proofs about Sessions for any tokens, requests, TTLs and bounds.  What  *)
(* makes the properties true is that a row changes only by the COMMIT of   *)
(* the request that holds its lock.  The invariant adds                    *)
(*   TableInv  the tables refer to rows that exist;                        *)
(*   PhaseInv  what a request has written, at each of its statements;      *)
(*   DrawnInv  a token is issued by one request, and enters the table with *)
(*             that request's COMMIT;                                      *)
(*   LockInv   the token of a rotation is locked and live until its        *)
(*             COMMIT, and the rows of a revocation are locked until its;  *)
(*   ReachInv  what revokeFamily saw is revoked, or will be visited, or    *)
(*             will be revoked by the COMMIT;                              *)
(*   UsedInv   a used token was rotated by one request, and whoever is     *)
(*             accused has presented a used one;                           *)
(*   RoleInv   a pair asked for by a viewer says so;                       *)
(*   DenyInv   a logged out jti is listed or past its exp, and what a      *)
(*             purge takes is past its exp.                                *)
(***************************************************************************)
EXTENDS Sessions, TLAPS

Roles == {"member", "viewer"}
RowType == [family : Tokens, used : BOOLEAN, revoked : BOOLEAN, expires : Nat]
WorkType == [used : SUBSET Tokens, revoked : SUBSET Tokens, issued : SUBSET Tokens, exp : Nat,
             claim : Roles, denied : SUBSET Tokens, purged : SUBSET Tokens]
Phases == {"new", "lock", "commit", "respond", "verify", "denylist", "revoke", "revoking", "ended"}
Answers == {"none", "invalid", "ok", "unauthorized", "served", "forbidden", "reuse", "logged_out",
            "deadlock", "crashed", "unanswered"}

TypeOK ==
    /\ clock \in Nat
    /\ row \in [Tokens -> RowType \cup {NoRow}]
    /\ exp \in [Tokens -> Nat]
    /\ denylist \subseteq Tokens
    /\ delivered \subseteq Tokens
    /\ lock \in [Tokens -> Requests \cup {NoOne}]
    /\ pc \in [Requests -> Phases]
    /\ token \in [Requests -> Tokens \cup {Unknown}]
    /\ kind \in [Requests -> {"none", "refresh", "logout", "read", "write"}]
    /\ start \in [Requests -> Nat]
    /\ scan \in [Requests -> SUBSET Tokens]
    /\ work \in [Requests -> WorkType]
    /\ answer \in [Requests -> Answers]
    /\ role \in Roles
    /\ claim \in [Tokens -> Roles]
    /\ seen \in [Requests -> SUBSET Tokens]
    /\ loggedOut \subseteq Tokens
    /\ began \in [Requests -> Roles]
    /\ asked \in [Tokens -> Roles]

\* What the tables say of each other.
TableInv ==
    /\ \A t \in delivered : row[t] # NoRow
    /\ denylist \subseteq delivered
    /\ loggedOut \subseteq delivered
    /\ \A t \in Tokens : row[t] # NoRow => row[row[t].family] # NoRow

\* What a request has written where it is.
PhaseOf(r) ==
    /\ token[r] \in delivered \cup {Unknown}
    /\ pc[r] \in {"denylist", "commit", "respond", "revoke", "revoking"}
          \/ answer[r] \in {"ok", "unanswered", "served", "reuse", "logged_out"} => token[r] \in delivered
    /\ answer[r] # "none" => pc[r] = "ended"
    /\ pc[r] \notin {"commit", "respond"} => work[r].issued = {}
    /\ pc[r] # "commit" => work[r].denied = {}
    /\ pc[r] = "commit" => work[r].issued = {} \/ work[r].denied = {}
    /\ work[r].issued # {} => work[r].revoked = {} /\ work[r].used = {token[r]}
    /\ work[r].denied # {} => work[r].denied = {token[r]}
    /\ pc[r] \notin {"revoking", "commit"} => work[r].revoked = {}
    /\ work[r].issued = {} => work[r].used = {}
    /\ work[r].denied = {} => work[r].purged = {}
    /\ pc[r] # "revoking" => scan[r] = {}
    /\ pc[r] \in {"lock", "respond"} \/ work[r].issued # {} => kind[r] = "refresh"

PhaseInv == \A r \in Requests : PhaseOf(r)

DrawnInv ==
    \A r \in Requests :
        /\ pc[r] = "commit" => \A n \in work[r].issued : row[n] = NoRow
        /\ pc[r] = "respond" => \A n \in work[r].issued : row[n] # NoRow
        /\ \A n, m \in work[r].issued : n = m
        /\ \A q \in Requests \ {r} : work[r].issued \cap work[q].issued = {}

LockInv ==
    \A r \in Requests :
        /\ pc[r] = "commit" /\ work[r].issued # {} =>
              lock[token[r]] = r /\ ~row[token[r]].used /\ ~row[token[r]].revoked
        /\ \A t \in work[r].revoked : lock[t] = r /\ row[t] # NoRow

ReachInv ==
    \A r \in Requests : 
        /\ scan[r] \subseteq seen[r]
        /\ \A t \in seen[r] : row[t] # NoRow
        /\ pc[r] = "revoking" \/ work[r].denied # {} =>
              \A t \in seen[r] : row[t].revoked \/ t \in scan[r] \/ t \in work[r].revoked

\* r has found its token used, and is or was answered with 401 for a replay.
Accused(r) == (pc[r] \in {"revoke", "revoking"} /\ kind[r] # "logout") \/ answer[r] = "reuse"

UsedInv ==
    /\ \A t \in Tokens : row[t] # NoRow /\ row[t].used => \E q \in Requests : token[q] = t /\ Rotated(q)
    /\ \A r \in Requests : Accused(r) \/ Rotated(r) => row[token[r]].used
    /\ \A p, q \in Requests : Rotated(p) /\ Rotated(q) /\ token[p] = token[q] => p = q

RoleInv ==
    /\ \A t \in Tokens : asked[t] = "viewer" => claim[t] = "viewer"
    /\ \A r \in Requests :
          /\ began[r] = "viewer" => role = "viewer"
          /\ work[r].issued # {} /\ began[r] = "viewer" => work[r].claim = "viewer"
          /\ kind[r] = "write" /\ answer[r] = "served" => asked[token[r]] = "member"

DenyInv ==
    /\ \A j \in loggedOut : j \in denylist \/ exp[j] <= clock
    /\ \A r \in Requests :
          /\ start[r] <= clock
          /\ \A j \in work[r].purged : j \in delivered /\ exp[j] <= start[r]

IInv ==
    /\ TypeOK /\ TableInv /\ PhaseInv /\ DrawnInv /\ LockInv
    /\ UniqueHead /\ ReachInv /\ RevocationReaches /\ UsedInv /\ RoleInv /\ DenyInv

USE TokensAssumption, RowsAssumption, RequestsAssumption, TTLAssumption

-----------------------------------------------------------------------------
\* The initial states satisfy every part of the invariant.
LEMMA InitIInv == Init => IInv
<1> SUFFICES ASSUME Init PROVE IInv
  OBVIOUS
<1>1. TypeOK
  BY DEF Init, TypeOK, NoWork, WorkType, Roles, Phases, Answers
<1>2. TableInv /\ UniqueHead
  BY DEF Init, TableInv, UniqueHead, Exists
<1>3. PhaseInv /\ DrawnInv /\ LockInv
  BY DEF Init, NoWork, PhaseInv, PhaseOf, DrawnInv, LockInv
<1>4. ReachInv /\ RevocationReaches /\ UsedInv
  BY DEF Init, ReachInv, RevocationReaches, UsedInv, Accused, Rotated
<1>5. RoleInv /\ DenyInv
  BY DEF Init, NoWork, RoleInv, DenyInv
<1> QED
  BY <1>1, <1>2, <1>3, <1>4, <1>5 DEF IInv


\* A request that is over has written nothing.
LEMMA NoWorkType == NoWork \in WorkType
  BY DEF NoWork, WorkType, Roles

\* The fields of a request's work.
LEMMA WorkFields ==
    ASSUME TypeOK, NEW r \in Requests
    PROVE  /\ work[r].used \subseteq Tokens /\ work[r].revoked \subseteq Tokens
           /\ work[r].issued \subseteq Tokens /\ work[r].exp \in Nat /\ work[r].claim \in Roles
           /\ work[r].denied \subseteq Tokens /\ work[r].purged \subseteq Tokens
  BY DEF TypeOK, WorkType

\* What the statements of a transaction add to its work.
LEMMA WorkUpdates ==
    ASSUME NEW k \in WorkType, NEW S \in SUBSET Tokens, NEW T \in SUBSET Tokens,
           NEW e \in Nat, NEW c \in Roles
    PROVE  /\ [k EXCEPT !.used = S, !.issued = T, !.exp = e, !.claim = c] \in WorkType
           /\ [k EXCEPT !.revoked = S] \in WorkType
           /\ [k EXCEPT !.denied = S, !.purged = T] \in WorkType
  BY DEF WorkType

\* A row version that is written keeps its family and its expiry, and no mark
\* is taken back.
LEMMA WrittenRow ==
    ASSUME TypeOK, NEW r \in Requests, NEW t \in Tokens, row[t] # NoRow
    PROVE  LET new == Written(r, t) IN
           /\ new \in RowType
           /\ new.family = row[t].family
           /\ new.used <=> row[t].used \/ t \in work[r].used
           /\ new.revoked <=> row[t].revoked \/ t \in work[r].revoked
<1>1. row[t] \in RowType
  BY DEF TypeOK
<1> QED
  BY <1>1 DEF Written, RowType

\* What the COMMIT of a rotation does to the rows: the successor is new, and the
\* presented one is used.
LEMMA RotationRows ==
    ASSUME TypeOK, TableInv, PhaseInv, DrawnInv, NEW r \in Requests, CommitRotation(r)
    PROVE  \E n \in Tokens :
               /\ work[r].issued = {n} /\ row[n] = NoRow
               /\ token[r] \in Tokens /\ row[token[r]] # NoRow
               /\ Successor(r) \in RowType
               /\ row' = [row EXCEPT ![n] = Successor(r), ![token[r]] = Written(r, token[r])]
<1>1. pc[r] = "commit" /\ work[r].issued # {}
  BY DEF CommitRotation, Install
<1>2. PICK n \in Tokens : n \in work[r].issued
  BY <1>1, WorkFields
<1>3. work[r].issued = {n}
  BY <1>2 DEF DrawnInv
<1>4. row[n] = NoRow
  BY <1>1, <1>2 DEF DrawnInv
<1>5. token[r] \in Tokens /\ row[token[r]] # NoRow
  BY <1>1 DEF PhaseInv, PhaseOf, TableInv, TypeOK
<1>6. work[r].used = {token[r]}
  BY <1>1 DEF PhaseInv, PhaseOf
<1>7. Successor(r) \in RowType
  <2>1. row[token[r]].family \in Tokens
    BY <1>5 DEF TypeOK, RowType
  <2>2. start[r] + RefreshTTL \in Nat
    BY DEF TypeOK
  <2> QED
    BY <2>1, <2>2 DEF Successor, Row, RowType
<1>8. ASSUME NEW t \in Tokens
      PROVE  row'[t] = [row EXCEPT ![n] = Successor(r), ![token[r]] = Written(r, token[r])][t]
  <2>1. row \in [Tokens -> RowType \cup {NoRow}]
    BY DEF TypeOK
  <2>2. row'[t] = CASE t \in work[r].issued -> Successor(r)
                    [] t \in work[r].used -> Written(r, t)
                    [] OTHER -> row[t]
    BY DEF CommitRotation, Install
  <2>3. CASE t = n
    BY <1>3, <1>4, <1>5, <1>6, <2>1, <2>2, <2>3
  <2>4. CASE t = token[r]
    BY <1>3, <1>4, <1>5, <1>6, <2>1, <2>2, <2>4
  <2>5. CASE t # n /\ t # token[r]
    BY <1>3, <1>6, <2>1, <2>2, <2>5
  <2> QED
    BY <2>3, <2>4, <2>5
<1>9. row' = [row EXCEPT ![n] = Successor(r), ![token[r]] = Written(r, token[r])]
  <2>1. row \in [Tokens -> RowType \cup {NoRow}]
    BY DEF TypeOK
  <2>2. row' = [t \in Tokens |-> row'[t]]
    BY DEF CommitRotation, Install
  <2> QED
    BY <1>8, <2>1, <2>2
<1> QED
  BY <1>3, <1>4, <1>5, <1>7, <1>9

\* Each step keeps the types.
LEMMA TypeStep ==
    ASSUME TypeOK, TableInv, PhaseInv, DrawnInv, LockInv, [Next]_vars PROVE TypeOK'
<1> USE NoWorkType DEF tables, pairs, req
<1> USE DEF TypeOK, Phases, Answers, Roles
<1>1. ASSUME NEW t \in Tokens, NEW read \in {"member", "viewer"}, Login(t, read) PROVE TypeOK'
  <2>1. Row(t, clock + RefreshTTL) \in RowType
    BY DEF Row, RowType
  <2>2. row' \in [Tokens -> RowType \cup {NoRow}]
    BY <1>1, <2>1 DEF Login
  <2>3. exp' \in [Tokens -> Nat]
    BY <1>1 DEF Login
  <2>4. claim' \in [Tokens -> Roles] /\ asked' \in [Tokens -> Roles]
    BY <1>1 DEF Login
  <2> QED
    BY <1>1, <2>2, <2>3, <2>4 DEF Login
<1>2. CASE Demote
  BY <1>2 DEF Demote
<1>3. ASSUME NEW r \in Requests, NEW t \in Tokens \cup {Unknown}, Refresh(r, t) PROVE TypeOK'
  BY <1>3 DEF Refresh
<1>4. ASSUME NEW r \in Requests, NEW t \in Tokens \cup {Unknown}, NEW what \in {"read", "write", "logout"}, Call(r, t, what)
      PROVE  TypeOK'
  BY <1>4 DEF Call
<1>5. ASSUME NEW r \in Requests, PresentInvalid(r) PROVE TypeOK'
  BY <1>5 DEF PresentInvalid, Locks, End, ReleaseLocks
<1>6. ASSUME NEW r \in Requests, PresentUsed(r) PROVE TypeOK'
  BY <1>6 DEF PresentUsed, Locks, Dead, Exists
<1>7. ASSUME NEW r \in Requests, NEW n \in Tokens, PresentLive(r, n) PROVE TypeOK'
  <2> DEFINE new == [work[r] EXCEPT !.used = {token[r]}, !.issued = {n},
                                    !.exp = clock + AccessTTL, !.claim = role]
  <2>1. token[r] \in Tokens
    BY <1>7 DEF PresentLive, Rotate, Locks, Exists
  <2>2. new \in WorkType
    <3>1. {token[r]} \in SUBSET Tokens /\ {n} \in SUBSET Tokens /\ clock + AccessTTL \in Nat
      BY <2>1
    <3> QED
      BY <3>1, WorkUpdates
  <2>3. work' = [work EXCEPT ![r] = new]
    BY <1>7 DEF PresentLive, Rotate
  <2> HIDE DEF new
  <2>4. work' \in [Requests -> WorkType]
    BY <2>2, <2>3
  <2> QED
    BY <1>7, <2>1, <2>4 DEF PresentLive, Rotate
<1>8. ASSUME NEW r \in Requests, CommitRotation(r) PROVE TypeOK'
  <2>1. row' \in [Tokens -> RowType \cup {NoRow}]
    <3>1. PICK n \in Tokens :
               /\ Successor(r) \in RowType
               /\ token[r] \in Tokens /\ row[token[r]] # NoRow
               /\ row' = [row EXCEPT ![n] = Successor(r), ![token[r]] = Written(r, token[r])]
      BY <1>8, RotationRows
    <3>2. Written(r, token[r]) \in RowType
      BY <3>1, WrittenRow
    <3> QED
      BY <3>1, <3>2
  <2>2. exp' \in [Tokens -> Nat] /\ claim' \in [Tokens -> Roles] /\ asked' \in [Tokens -> Roles]
    BY <1>8, WorkFields DEF CommitRotation, Install
  <2> QED
    BY <1>8, <2>1, <2>2 DEF CommitRotation, Install, ReleaseLocks
<1>9. ASSUME NEW r \in Requests, Respond(r) PROVE TypeOK'
  <2>1. delivered' \subseteq Tokens
    BY <1>9, WorkFields DEF Respond
  <2> QED
    BY <1>9, <2>1 DEF Respond, End, ReleaseLocks
<1>10. ASSUME NEW r \in Requests, CheckExp(r) PROVE TypeOK'
  BY <1>10 DEF CheckExp, Authentic
<1>11. ASSUME NEW r \in Requests, RejectExpired(r) PROVE TypeOK'
  BY <1>11 DEF RejectExpired, End, ReleaseLocks
<1>12. ASSUME NEW r \in Requests, RejectRevoked(r) PROVE TypeOK'
  BY <1>12 DEF RejectRevoked, End, ReleaseLocks
<1>13. ASSUME NEW r \in Requests, Serve(r) PROVE TypeOK'
  BY <1>13 DEF Serve, End, ReleaseLocks
<1>14. ASSUME NEW r \in Requests, BeginLogout(r) PROVE TypeOK'
  BY <1>14 DEF BeginLogout
<1>15. ASSUME NEW r \in Requests, StartRevoke(r) PROVE TypeOK'
  BY <1>15 DEF StartRevoke, Family
<1>16. ASSUME NEW r \in Requests, NEW t \in Tokens, RevokeRow(r, t) PROVE TypeOK'
  <2> DEFINE new == [work[r] EXCEPT !.revoked = work[r].revoked \cup {t}]
  <2>1. new \in WorkType
    <3>1. work[r].revoked \cup {t} \in SUBSET Tokens
      BY WorkFields
    <3> QED
      BY <3>1, WorkUpdates
  <2>2. work' = work \/ work' = [work EXCEPT ![r] = new]
    BY <1>16 DEF RevokeRow
  <2> HIDE DEF new
  <2>3. work' \in [Requests -> WorkType]
    BY <2>1, <2>2
  <2> QED
    <3>1. lock' \in [Tokens -> Requests \cup {NoOne}]
      BY <1>16 DEF RevokeRow
    <3>2. scan' \in [Requests -> SUBSET Tokens]
      BY <1>16 DEF RevokeRow
    <3> QED
      BY <1>16, <2>3, <3>1, <3>2 DEF RevokeRow
<1>17. ASSUME NEW r \in Requests, CommitReuse(r) PROVE TypeOK'
  <2>1. \A t \in work[r].revoked : row[t] # NoRow
    BY DEF LockInv
  <2>2. row' \in [Tokens -> RowType \cup {NoRow}]
    BY <1>17, <2>1, WrittenRow DEF CommitReuse
  <2> QED
    BY <1>17, <2>2 DEF CommitReuse, End, ReleaseLocks
<1>18. ASSUME NEW r \in Requests, Deny(r) PROVE TypeOK'
  <2> DEFINE purge == {j \in denylist \cup {token[r]} : exp[j] <= start[r]}
             new == [work[r] EXCEPT !.denied = {token[r]}, !.purged = purge]
  <2>1. token[r] \in Tokens
    BY <1>18 DEF Deny, Revoked, PhaseInv, PhaseOf
  <2>2. purge \subseteq Tokens
    BY <2>1
  <2>3. new \in WorkType
    <3>1. {token[r]} \in SUBSET Tokens /\ purge \in SUBSET Tokens
      BY <2>1, <2>2
    <3> HIDE DEF purge
    <3> QED
      BY <3>1, WorkUpdates
  <2>4. work' = [work EXCEPT ![r] = new]
    BY <1>18 DEF Deny
  <2> HIDE DEF new
  <2>5. work' \in [Requests -> WorkType]
    BY <2>3, <2>4
  <2> QED
    BY <1>18, <2>5 DEF Deny
<1>19. ASSUME NEW r \in Requests, CommitLogout(r) PROVE TypeOK'
  <2>1. \A t \in work[r].revoked : row[t] # NoRow
    BY DEF LockInv
  <2>2. row' \in [Tokens -> RowType \cup {NoRow}]
    BY <1>19, <2>1, WrittenRow DEF CommitLogout
  <2>3. denylist' \subseteq Tokens /\ loggedOut' \subseteq Tokens
    BY <1>19, WorkFields DEF CommitLogout
  <2> QED
    BY <1>19, <2>2, <2>3 DEF CommitLogout, End, ReleaseLocks
<1>20. CASE Tick
  BY <1>20 DEF Tick
<1>21. ASSUME NEW r \in Requests, AbortDeadlock(r) PROVE TypeOK'
  BY <1>21 DEF AbortDeadlock, End, ReleaseLocks
<1>22. ASSUME NEW r \in Requests, Crash(r) PROVE TypeOK'
  BY <1>22 DEF Crash, End, ReleaseLocks
<1>23. CASE UNCHANGED vars
  BY <1>23 DEF vars
<1> HIDE DEF TypeOK, Phases, Answers, Roles
<1> QED
  BY <1>1, <1>2, <1>3, <1>4, <1>5, <1>6, <1>7, <1>8, <1>9, <1>10, <1>11, <1>12, <1>13, <1>14,
     <1>15, <1>16, <1>17, <1>18, <1>19, <1>20, <1>21, <1>22, <1>23 DEF Next, Arrive, Step,
     AllEnded

-----------------------------------------------------------------------------
(* What the writing steps leave in the work of the requests.               *)

\* A rotation: the used mark, the successor and its access token.
LEMMA LiveWork ==
    ASSUME TypeOK, NEW r \in Requests, NEW n \in Tokens, PresentLive(r, n)
    PROVE  /\ work'[r].used = {token[r]} /\ work'[r].issued = {n} /\ work'[r].claim = role
           /\ work'[r].revoked = work[r].revoked
           /\ work'[r].denied = work[r].denied /\ work'[r].purged = work[r].purged
           /\ \A q \in Requests \ {r} : work'[q] = work[q]
<1>1. work[r] \in WorkType /\ work \in [Requests -> WorkType]
  BY DEF TypeOK
<1> QED
  BY <1>1 DEF PresentLive, Rotate, WorkType

\* A logout: the jti, and what is purged.
LEMMA DenyWork ==
    ASSUME TypeOK, NEW r \in Requests, Deny(r)
    PROVE  /\ work'[r].denied = {token[r]}
           /\ work'[r].purged = {j \in denylist \cup {token[r]} : exp[j] <= start[r]}
           /\ work'[r].used = work[r].used /\ work'[r].issued = work[r].issued
           /\ work'[r].revoked = work[r].revoked /\ work'[r].claim = work[r].claim
           /\ \A q \in Requests \ {r} : work'[q] = work[q]
<1>1. work[r] \in WorkType /\ work \in [Requests -> WorkType]
  BY DEF TypeOK
<1> QED
  BY <1>1 DEF Deny, WorkType

\* A revocation: one more row, unless somebody else revoked it meanwhile.
LEMMA RevokeWork ==
    ASSUME TypeOK, NEW r \in Requests, NEW t \in Tokens, RevokeRow(r, t)
    PROVE  /\ IF row[t].revoked
              THEN work'[r].revoked = work[r].revoked /\ lock' = lock
              ELSE work'[r].revoked = work[r].revoked \cup {t} /\ lock' = [lock EXCEPT ![t] = r]
           /\ work'[r].used = work[r].used /\ work'[r].issued = work[r].issued
           /\ work'[r].denied = work[r].denied /\ work'[r].purged = work[r].purged
           /\ work'[r].claim = work[r].claim
           /\ \A q \in Requests \ {r} : work'[q] = work[q]
<1>1. work[r] \in WorkType /\ work \in [Requests -> WorkType]
  BY DEF TypeOK
<1>2. CASE row[t].revoked
  BY <1>1, <1>2 DEF RevokeRow
<1>3. CASE ~row[t].revoked
  <2>1. work' = [work EXCEPT ![r].revoked = work[r].revoked \cup {t}] /\ lock' = [lock EXCEPT ![t] = r]
    BY <1>3 DEF RevokeRow
  <2> QED
    BY <1>1, <1>3, <2>1 DEF WorkType
<1> QED
  BY <1>2, <1>3

\* A rotation leaves every other request's draft alone.
LEMMA LiveOthers ==
    ASSUME TypeOK, NEW r \in Requests, NEW n \in Tokens, PresentLive(r, n), NEW q \in Requests, q # r
    PROVE  work'[q] = work[q]
BY LiveWork

\* So does a logout.
LEMMA DenyOthers ==
    ASSUME TypeOK, NEW r \in Requests, Deny(r), NEW q \in Requests, q # r
    PROVE  work'[q] = work[q]
BY DenyWork

\* What a revocation has collected only grows.
LEMMA RevokeCollects ==
    ASSUME TypeOK, NEW r \in Requests, NEW t \in Tokens, RevokeRow(r, t)
    PROVE  work[r].revoked \subseteq work'[r].revoked /\ (row[t].revoked \/ t \in work'[r].revoked)
<1>1. IF row[t].revoked
      THEN work'[r].revoked = work[r].revoked
      ELSE work'[r].revoked = work[r].revoked \cup {t}
  BY RevokeWork
<1> QED
  BY <1>1

\* A committed row stays, in its family and with its marks, and its access token
\* stays as it was signed.
LEMMA RowStep ==
    ASSUME TypeOK, TableInv, PhaseInv, DrawnInv, LockInv, [Next]_vars,
           NEW u \in Tokens, row[u] # NoRow
    PROVE  /\ row'[u] # NoRow
           /\ row'[u].family = row[u].family
           /\ row[u].used => row'[u].used
           /\ row[u].revoked => row'[u].revoked
           /\ exp'[u] = exp[u] /\ claim'[u] = claim[u] /\ asked'[u] = asked[u]
<1> DEFINE Kept == /\ row'[u] # NoRow
                   /\ row'[u].family = row[u].family
                   /\ row[u].used => row'[u].used
                   /\ row[u].revoked => row'[u].revoked
           Signed == exp'[u] = exp[u] /\ claim'[u] = claim[u] /\ asked'[u] = asked[u]
<1> USE DEF tables, pairs
<1>0. \A r \in Requests : /\ Written(r, u) # NoRow
                          /\ Written(r, u).family = row[u].family
                          /\ row[u].used => Written(r, u).used
                          /\ row[u].revoked => Written(r, u).revoked
  <2>1. NoRow \notin RowType
    BY DEF RowType
  <2> QED
    BY <2>1, WrittenRow
<1> SUFFICES Kept /\ Signed
  OBVIOUS
<1> USE DEF Exists
<1>1. ASSUME NEW t \in Tokens, NEW read \in {"member", "viewer"}, Login(t, read)
      PROVE  Kept /\ Signed
  <2>1. t # u
    BY <1>1 DEF Login, Fresh, Drawn
  <2> QED
    BY <1>1, <2>1 DEF Login, TypeOK
<1>2. CASE Demote
  BY <1>2 DEF Demote
<1>3. ASSUME NEW r \in Requests, NEW t \in Tokens \cup {Unknown}, Refresh(r, t) PROVE Kept /\ Signed
  BY <1>3 DEF Refresh
<1>4. ASSUME NEW r \in Requests, NEW t \in Tokens \cup {Unknown}, NEW what \in {"read", "write", "logout"}, Call(r, t, what)
      PROVE  Kept /\ Signed
  BY <1>4 DEF Call
<1>5. ASSUME NEW r \in Requests, PresentInvalid(r) PROVE Kept /\ Signed
  BY <1>5 DEF PresentInvalid, Locks, End, ReleaseLocks
<1>6. ASSUME NEW r \in Requests, PresentUsed(r) PROVE Kept /\ Signed
  BY <1>6 DEF PresentUsed, Locks, Dead, Exists
<1>7. ASSUME NEW r \in Requests, NEW n \in Tokens, PresentLive(r, n) PROVE Kept /\ Signed
  BY <1>7 DEF PresentLive, Rotate, Locks, Dead, Exists
<1>8. ASSUME NEW r \in Requests, CommitRotation(r) PROVE Kept /\ Signed
  <2>1. PICK n \in Tokens :
           /\ work[r].issued = {n} /\ row[n] = NoRow
           /\ token[r] \in Tokens
           /\ row' = [row EXCEPT ![n] = Successor(r), ![token[r]] = Written(r, token[r])]
    BY <1>8, RotationRows
  <2>2. row'[u] = row[u] \/ row'[u] = Written(r, u)
    BY <2>1 DEF TypeOK
  <2>3. Signed
    BY <1>8, <2>1 DEF CommitRotation, Install
  <2> QED
    BY <1>0, <2>2, <2>3
<1>9. ASSUME NEW r \in Requests, Respond(r) PROVE Kept /\ Signed
  BY <1>9 DEF Respond, End, ReleaseLocks
<1>10. ASSUME NEW r \in Requests, CheckExp(r) PROVE Kept /\ Signed
  BY <1>10 DEF CheckExp, Authentic
<1>11. ASSUME NEW r \in Requests, RejectExpired(r) PROVE Kept /\ Signed
  BY <1>11 DEF RejectExpired, End, ReleaseLocks
<1>12. ASSUME NEW r \in Requests, RejectRevoked(r) PROVE Kept /\ Signed
  BY <1>12 DEF RejectRevoked, End, ReleaseLocks
<1>13. ASSUME NEW r \in Requests, Serve(r) PROVE Kept /\ Signed
  BY <1>13 DEF Serve, End, ReleaseLocks
<1>14. ASSUME NEW r \in Requests, BeginLogout(r) PROVE Kept /\ Signed
  BY <1>14 DEF BeginLogout
<1>15. ASSUME NEW r \in Requests, StartRevoke(r) PROVE Kept /\ Signed
  BY <1>15 DEF StartRevoke, Family
<1>16. ASSUME NEW r \in Requests, NEW t \in Tokens, RevokeRow(r, t) PROVE Kept /\ Signed
  BY <1>16 DEF RevokeRow
<1>17. ASSUME NEW r \in Requests, CommitReuse(r) PROVE Kept /\ Signed
  <2>1. row'[u] = row[u] \/ row'[u] = Written(r, u)
    BY <1>17 DEF CommitReuse
  <2> QED
    BY <1>17, <1>0, <2>1 DEF CommitReuse
<1>18. ASSUME NEW r \in Requests, Deny(r) PROVE Kept /\ Signed
  BY <1>18 DEF Deny, Revoked
<1>19. ASSUME NEW r \in Requests, CommitLogout(r) PROVE Kept /\ Signed
  <2>1. row'[u] = row[u] \/ row'[u] = Written(r, u)
    BY <1>19 DEF CommitLogout
  <2> QED
    BY <1>19, <1>0, <2>1 DEF CommitLogout
<1>20. CASE Tick
  BY <1>20 DEF Tick
<1>21. ASSUME NEW r \in Requests, AbortDeadlock(r) PROVE Kept /\ Signed
  BY <1>21 DEF AbortDeadlock, End, ReleaseLocks
<1>22. ASSUME NEW r \in Requests, Crash(r) PROVE Kept /\ Signed
  BY <1>22 DEF Crash, End, ReleaseLocks
<1>23. CASE UNCHANGED vars
  BY <1>23 DEF vars
<1> QED
  BY <1>1, <1>2, <1>3, <1>4, <1>5, <1>6, <1>7, <1>8, <1>9, <1>10, <1>11, <1>12, <1>13, <1>14,
     <1>15, <1>16, <1>17, <1>18, <1>19, <1>20, <1>21, <1>22, <1>23 DEF Next, Arrive, Step,
     AllEnded

\* A row that is new is that of a login or of a rotation, and is the only one.
LEMMA NewRow ==
    ASSUME TypeOK, TableInv, PhaseInv, DrawnInv, LockInv, [Next]_vars,
           NEW u \in Tokens, row[u] = NoRow, row'[u] # NoRow
    PROVE  /\ \A v \in Tokens \ {u} : row[v] = NoRow => row'[v] = NoRow
           /\ ~row'[u].used
           /\ \/ row'[u].family = u /\ \E read \in Roles : Login(u, read)
              \/ \E r \in Requests : CommitRotation(r) /\ work[r].issued = {u}
                                    /\ row'[u].family = row[token[r]].family
<1> DEFINE Only == (\A v \in Tokens \ {u} : row[v] = NoRow => row'[v] = NoRow) /\ ~row'[u].used
           FromLogin == row'[u].family = u /\ \E read \in Roles : Login(u, read)
           FromRotation == \E r \in Requests : CommitRotation(r) /\ work[r].issued = {u}
                                               /\ row'[u].family = row[token[r]].family
<1> USE DEF tables, pairs
<1> SUFFICES Only /\ (FromLogin \/ FromRotation)
  OBVIOUS
<1>1. ASSUME NEW t \in Tokens, NEW read \in {"member", "viewer"}, Login(t, read)
      PROVE  Only /\ (FromLogin \/ FromRotation)
  <2>1. row' = [row EXCEPT ![t] = Row(t, clock + RefreshTTL)]
    BY <1>1 DEF Login
  <2>2. t = u
    BY <2>1 DEF TypeOK
  <2>3. row'[u].family = u /\ Only
    BY <2>1, <2>2 DEF TypeOK, Row
  <2> QED
    BY <1>1, <2>2, <2>3 DEF Roles
<1>2. CASE Demote
  BY <1>2 DEF Demote
<1>3. ASSUME NEW r \in Requests, NEW t \in Tokens \cup {Unknown}, Refresh(r, t)
      PROVE  Only /\ (FromLogin \/ FromRotation)
  BY <1>3 DEF Refresh
<1>4. ASSUME NEW r \in Requests, NEW t \in Tokens \cup {Unknown}, NEW what \in {"read", "write", "logout"}, Call(r, t, what)
      PROVE  Only /\ (FromLogin \/ FromRotation)
  BY <1>4 DEF Call
<1>5. ASSUME NEW r \in Requests, PresentInvalid(r) PROVE Only /\ (FromLogin \/ FromRotation)
  BY <1>5 DEF PresentInvalid, Locks, End, ReleaseLocks
<1>6. ASSUME NEW r \in Requests, PresentUsed(r) PROVE Only /\ (FromLogin \/ FromRotation)
  BY <1>6 DEF PresentUsed, Locks, Dead, Exists
<1>7. ASSUME NEW r \in Requests, NEW n \in Tokens, PresentLive(r, n)
      PROVE  Only /\ (FromLogin \/ FromRotation)
  BY <1>7 DEF PresentLive, Rotate, Locks, Dead, Exists
<1>8. ASSUME NEW r \in Requests, CommitRotation(r) PROVE Only /\ (FromLogin \/ FromRotation)
  <2>1. PICK n \in Tokens :
           /\ work[r].issued = {n} /\ row[n] = NoRow
           /\ token[r] \in Tokens /\ row[token[r]] # NoRow
           /\ row' = [row EXCEPT ![n] = Successor(r), ![token[r]] = Written(r, token[r])]
    BY <1>8, RotationRows
  <2>2. n = u
    BY <2>1 DEF TypeOK
  <2>3. row'[u] = Successor(r)
    BY <2>1, <2>2 DEF TypeOK
  <2>4. row'[u].family = row[token[r]].family /\ Only
    BY <2>1, <2>2, <2>3 DEF Successor, Row, TypeOK
  <2> QED
    BY <1>8, <2>1, <2>2, <2>4
<1>9. ASSUME NEW r \in Requests, Respond(r) PROVE Only /\ (FromLogin \/ FromRotation)
  BY <1>9 DEF Respond, End, ReleaseLocks
<1>10. ASSUME NEW r \in Requests, CheckExp(r) PROVE Only /\ (FromLogin \/ FromRotation)
  BY <1>10 DEF CheckExp, Authentic
<1>11. ASSUME NEW r \in Requests, RejectExpired(r) PROVE Only /\ (FromLogin \/ FromRotation)
  BY <1>11 DEF RejectExpired, End, ReleaseLocks
<1>12. ASSUME NEW r \in Requests, RejectRevoked(r) PROVE Only /\ (FromLogin \/ FromRotation)
  BY <1>12 DEF RejectRevoked, End, ReleaseLocks
<1>13. ASSUME NEW r \in Requests, Serve(r) PROVE Only /\ (FromLogin \/ FromRotation)
  BY <1>13 DEF Serve, End, ReleaseLocks
<1>14. ASSUME NEW r \in Requests, BeginLogout(r) PROVE Only /\ (FromLogin \/ FromRotation)
  BY <1>14 DEF BeginLogout
<1>15. ASSUME NEW r \in Requests, StartRevoke(r) PROVE Only /\ (FromLogin \/ FromRotation)
  BY <1>15 DEF StartRevoke, Family
<1>16. ASSUME NEW r \in Requests, NEW t \in Tokens, RevokeRow(r, t)
       PROVE  Only /\ (FromLogin \/ FromRotation)
  BY <1>16 DEF RevokeRow
<1>17. ASSUME NEW r \in Requests, CommitReuse(r) PROVE Only /\ (FromLogin \/ FromRotation)
  BY <1>17 DEF CommitReuse, LockInv
<1>18. ASSUME NEW r \in Requests, Deny(r) PROVE Only /\ (FromLogin \/ FromRotation)
  BY <1>18 DEF Deny, Revoked
<1>19. ASSUME NEW r \in Requests, CommitLogout(r) PROVE Only /\ (FromLogin \/ FromRotation)
  BY <1>19 DEF CommitLogout, LockInv
<1>20. CASE Tick
  BY <1>20 DEF Tick
<1>21. ASSUME NEW r \in Requests, AbortDeadlock(r) PROVE Only /\ (FromLogin \/ FromRotation)
  BY <1>21 DEF AbortDeadlock, End, ReleaseLocks
<1>22. ASSUME NEW r \in Requests, Crash(r) PROVE Only /\ (FromLogin \/ FromRotation)
  BY <1>22 DEF Crash, End, ReleaseLocks
<1>23. CASE UNCHANGED vars
  BY <1>23 DEF vars
<1> QED
  BY <1>1, <1>2, <1>3, <1>4, <1>5, <1>6, <1>7, <1>8, <1>9, <1>10, <1>11, <1>12, <1>13, <1>14,
     <1>15, <1>16, <1>17, <1>18, <1>19, <1>20, <1>21, <1>22, <1>23 DEF Next, Arrive, Step,
     AllEnded

\* Only the holder of a row's lock changes the row, and then gives the lock up.
LEMMA RowHeld ==
    ASSUME TypeOK, TableInv, PhaseInv, DrawnInv, LockInv, [Next]_vars,
           NEW u \in Tokens, row[u] # NoRow, row'[u] # row[u]
    PROVE  \E r \in Requests : lock[u] = r /\ pc'[r] \in {"respond", "ended"}
<1> DEFINE Held == \E r \in Requests : lock[u] = r /\ pc'[r] \in {"respond", "ended"}
<1> USE DEF tables, pairs
<1> SUFFICES Held
  OBVIOUS
<1>1. ASSUME NEW t \in Tokens, NEW read \in {"member", "viewer"}, Login(t, read) PROVE Held
  BY <1>1 DEF Login, Fresh, Drawn, TypeOK
<1>2. CASE Demote
  BY <1>2 DEF Demote
<1>3. ASSUME NEW r \in Requests, NEW t \in Tokens \cup {Unknown}, Refresh(r, t) PROVE Held
  BY <1>3 DEF Refresh
<1>4. ASSUME NEW r \in Requests, NEW t \in Tokens \cup {Unknown}, NEW what \in {"read", "write", "logout"}, Call(r, t, what)
      PROVE  Held
  BY <1>4 DEF Call
<1>5. ASSUME NEW r \in Requests, PresentInvalid(r) PROVE Held
  BY <1>5 DEF PresentInvalid, Locks, End, ReleaseLocks
<1>6. ASSUME NEW r \in Requests, PresentUsed(r) PROVE Held
  BY <1>6 DEF PresentUsed, Locks, Dead, Exists
<1>7. ASSUME NEW r \in Requests, NEW n \in Tokens, PresentLive(r, n) PROVE Held
  BY <1>7 DEF PresentLive, Rotate, Locks, Dead, Exists
<1>8. ASSUME NEW r \in Requests, CommitRotation(r) PROVE Held
  <2>1. PICK n \in Tokens :
           /\ work[r].issued = {n} /\ row[n] = NoRow
           /\ row' = [row EXCEPT ![n] = Successor(r), ![token[r]] = Written(r, token[r])]
    BY <1>8, RotationRows
  <2>2. u = token[r]
    BY <2>1 DEF TypeOK
  <2>3. pc[r] = "commit" /\ pc'[r] = "respond"
    BY <1>8 DEF CommitRotation, Install, TypeOK
  <2>4. lock[u] = r
    BY <2>1, <2>2, <2>3 DEF LockInv
  <2> QED
    BY <2>3, <2>4
<1>9. ASSUME NEW r \in Requests, Respond(r) PROVE Held
  BY <1>9 DEF Respond, End, ReleaseLocks
<1>10. ASSUME NEW r \in Requests, CheckExp(r) PROVE Held
  BY <1>10 DEF CheckExp, Authentic
<1>11. ASSUME NEW r \in Requests, RejectExpired(r) PROVE Held
  BY <1>11 DEF RejectExpired, End, ReleaseLocks
<1>12. ASSUME NEW r \in Requests, RejectRevoked(r) PROVE Held
  BY <1>12 DEF RejectRevoked, End, ReleaseLocks
<1>13. ASSUME NEW r \in Requests, Serve(r) PROVE Held
  BY <1>13 DEF Serve, End, ReleaseLocks
<1>14. ASSUME NEW r \in Requests, BeginLogout(r) PROVE Held
  BY <1>14 DEF BeginLogout
<1>15. ASSUME NEW r \in Requests, StartRevoke(r) PROVE Held
  BY <1>15 DEF StartRevoke, Family
<1>16. ASSUME NEW r \in Requests, NEW t \in Tokens, RevokeRow(r, t) PROVE Held
  BY <1>16 DEF RevokeRow
<1>17. ASSUME NEW r \in Requests, CommitReuse(r) PROVE Held
  <2>1. u \in work[r].revoked /\ pc'[r] = "ended"
    BY <1>17 DEF CommitReuse, End, TypeOK
  <2> QED
    BY <2>1 DEF LockInv
<1>18. ASSUME NEW r \in Requests, Deny(r) PROVE Held
  BY <1>18 DEF Deny, Revoked
<1>19. ASSUME NEW r \in Requests, CommitLogout(r) PROVE Held
  <2>1. u \in work[r].revoked /\ pc'[r] = "ended"
    BY <1>19 DEF CommitLogout, End, TypeOK
  <2> QED
    BY <2>1 DEF LockInv
<1>20. CASE Tick
  BY <1>20 DEF Tick
<1>21. ASSUME NEW r \in Requests, AbortDeadlock(r) PROVE Held
  BY <1>21 DEF AbortDeadlock, End, ReleaseLocks
<1>22. ASSUME NEW r \in Requests, Crash(r) PROVE Held
  BY <1>22 DEF Crash, End, ReleaseLocks
<1>23. CASE UNCHANGED vars
  BY <1>23 DEF vars
<1> QED
  BY <1>1, <1>2, <1>3, <1>4, <1>5, <1>6, <1>7, <1>8, <1>9, <1>10, <1>11, <1>12, <1>13, <1>14,
     <1>15, <1>16, <1>17, <1>18, <1>19, <1>20, <1>21, <1>22, <1>23 DEF Next, Arrive, Step,
     AllEnded

\* A lock is kept until the transaction is over.
LEMMA LockKept ==
    ASSUME TypeOK, [Next]_vars, NEW q \in Requests, NEW u \in Tokens, lock[u] = q
    PROVE  lock'[u] = q \/ pc'[q] \in {"respond", "ended"}
<1> DEFINE Kept == lock'[u] = q \/ pc'[q] \in {"respond", "ended"}
<1> SUFFICES Kept
  OBVIOUS
<1> USE DEF TypeOK
<1>1. ASSUME NEW t \in Tokens, NEW read \in {"member", "viewer"}, Login(t, read) PROVE Kept
  BY <1>1 DEF Login
<1>2. CASE Demote
  BY <1>2 DEF Demote
<1>3. ASSUME NEW r \in Requests, NEW t \in Tokens \cup {Unknown}, Refresh(r, t) PROVE Kept
  BY <1>3 DEF Refresh
<1>4. ASSUME NEW r \in Requests, NEW t \in Tokens \cup {Unknown}, NEW what \in {"read", "write", "logout"}, Call(r, t, what)
      PROVE  Kept
  BY <1>4 DEF Call
<1>5. ASSUME NEW r \in Requests, PresentInvalid(r) PROVE Kept
  BY <1>5 DEF PresentInvalid, Locks, End, ReleaseLocks
<1>6. ASSUME NEW r \in Requests, PresentUsed(r) PROVE Kept
  BY <1>6 DEF PresentUsed, Locks, Dead, Exists
<1>7. ASSUME NEW r \in Requests, NEW n \in Tokens, PresentLive(r, n) PROVE Kept
  BY <1>7 DEF PresentLive, Rotate, Locks, Dead, Exists
<1>8. ASSUME NEW r \in Requests, CommitRotation(r) PROVE Kept
  BY <1>8 DEF CommitRotation, Install, ReleaseLocks
<1>9. ASSUME NEW r \in Requests, Respond(r) PROVE Kept
  BY <1>9 DEF Respond, End, ReleaseLocks
<1>10. ASSUME NEW r \in Requests, CheckExp(r) PROVE Kept
  BY <1>10 DEF CheckExp, Authentic
<1>11. ASSUME NEW r \in Requests, RejectExpired(r) PROVE Kept
  BY <1>11 DEF RejectExpired, End, ReleaseLocks
<1>12. ASSUME NEW r \in Requests, RejectRevoked(r) PROVE Kept
  BY <1>12 DEF RejectRevoked, End, ReleaseLocks
<1>13. ASSUME NEW r \in Requests, Serve(r) PROVE Kept
  BY <1>13 DEF Serve, End, ReleaseLocks
<1>14. ASSUME NEW r \in Requests, BeginLogout(r) PROVE Kept
  BY <1>14 DEF BeginLogout
<1>15. ASSUME NEW r \in Requests, StartRevoke(r) PROVE Kept
  BY <1>15 DEF StartRevoke, Family
<1>16. ASSUME NEW r \in Requests, NEW t \in Tokens, RevokeRow(r, t) PROVE Kept
  BY <1>16 DEF RevokeRow
<1>17. ASSUME NEW r \in Requests, CommitReuse(r) PROVE Kept
  BY <1>17 DEF CommitReuse, Revoked, End, ReleaseLocks
<1>18. ASSUME NEW r \in Requests, Deny(r) PROVE Kept
  BY <1>18 DEF Deny, Revoked
<1>19. ASSUME NEW r \in Requests, CommitLogout(r) PROVE Kept
  BY <1>19 DEF CommitLogout, End, ReleaseLocks
<1>20. CASE Tick
  BY <1>20 DEF Tick
<1>21. ASSUME NEW r \in Requests, AbortDeadlock(r) PROVE Kept
  BY <1>21 DEF AbortDeadlock, End, ReleaseLocks
<1>22. ASSUME NEW r \in Requests, Crash(r) PROVE Kept
  BY <1>22 DEF Crash, End, ReleaseLocks
<1>23. CASE UNCHANGED vars
  BY <1>23 DEF vars
<1> QED
  BY <1>1, <1>2, <1>3, <1>4, <1>5, <1>6, <1>7, <1>8, <1>9, <1>10, <1>11, <1>12, <1>13, <1>14,
     <1>15, <1>16, <1>17, <1>18, <1>19, <1>20, <1>21, <1>22, <1>23 DEF Next, Arrive, Step,
     AllEnded

\* Who changes what a client has and what is denied.
LEMMA ListStep ==
    ASSUME TypeOK, [Next]_vars
    PROVE  /\ \/ delivered' = delivered
              \/ \E t \in Tokens, read \in Roles : Login(t, read) /\ delivered' = delivered \cup {t}
              \/ \E r \in Requests : Respond(r) /\ delivered' = delivered \cup work[r].issued
           /\ UNCHANGED <<denylist, loggedOut>> \/ \E r \in Requests : CommitLogout(r)
<1> DEFINE Out == \/ delivered' = delivered
                  \/ \E t \in Tokens, read \in Roles : Login(t, read) /\ delivered' = delivered \cup {t}
                  \/ \E r \in Requests : Respond(r) /\ delivered' = delivered \cup work[r].issued
           In == UNCHANGED <<denylist, loggedOut>> \/ \E r \in Requests : CommitLogout(r)
<1> USE DEF tables
<1> SUFFICES Out /\ In
  OBVIOUS
<1>1. ASSUME NEW t \in Tokens, NEW read \in {"member", "viewer"}, Login(t, read) PROVE Out /\ In
  <2>1. delivered' = delivered \cup {t} /\ UNCHANGED <<denylist, loggedOut>>
    BY <1>1 DEF Login
  <2> QED
    BY <1>1, <2>1 DEF Roles
<1>2. CASE Demote
  BY <1>2 DEF Demote
<1>3. ASSUME NEW r \in Requests, NEW t \in Tokens \cup {Unknown}, Refresh(r, t) PROVE Out /\ In
  BY <1>3 DEF Refresh
<1>4. ASSUME NEW r \in Requests, NEW t \in Tokens \cup {Unknown}, NEW what \in {"read", "write", "logout"}, Call(r, t, what)
      PROVE  Out /\ In
  BY <1>4 DEF Call
<1>5. ASSUME NEW r \in Requests, PresentInvalid(r) PROVE Out /\ In
  BY <1>5 DEF PresentInvalid, Locks, End, ReleaseLocks
<1>6. ASSUME NEW r \in Requests, PresentUsed(r) PROVE Out /\ In
  BY <1>6 DEF PresentUsed, Locks, Dead, Exists
<1>7. ASSUME NEW r \in Requests, NEW n \in Tokens, PresentLive(r, n) PROVE Out /\ In
  BY <1>7 DEF PresentLive, Rotate, Locks, Dead, Exists
<1>8. ASSUME NEW r \in Requests, CommitRotation(r) PROVE Out /\ In
  BY <1>8 DEF CommitRotation, Install, ReleaseLocks
<1>9. ASSUME NEW r \in Requests, Respond(r) PROVE Out /\ In
  <2>1. delivered' = delivered \cup work[r].issued /\ UNCHANGED <<denylist, loggedOut>>
    BY <1>9 DEF Respond
  <2> QED
    BY <1>9, <2>1
<1>10. ASSUME NEW r \in Requests, CheckExp(r) PROVE Out /\ In
  BY <1>10 DEF CheckExp, Authentic
<1>11. ASSUME NEW r \in Requests, RejectExpired(r) PROVE Out /\ In
  BY <1>11 DEF RejectExpired, End, ReleaseLocks
<1>12. ASSUME NEW r \in Requests, RejectRevoked(r) PROVE Out /\ In
  BY <1>12 DEF RejectRevoked, End, ReleaseLocks
<1>13. ASSUME NEW r \in Requests, Serve(r) PROVE Out /\ In
  BY <1>13 DEF Serve, End, ReleaseLocks
<1>14. ASSUME NEW r \in Requests, BeginLogout(r) PROVE Out /\ In
  BY <1>14 DEF BeginLogout
<1>15. ASSUME NEW r \in Requests, StartRevoke(r) PROVE Out /\ In
  BY <1>15 DEF StartRevoke, Family
<1>16. ASSUME NEW r \in Requests, NEW t \in Tokens, RevokeRow(r, t) PROVE Out /\ In
  BY <1>16 DEF RevokeRow
<1>17. ASSUME NEW r \in Requests, CommitReuse(r) PROVE Out /\ In
  BY <1>17 DEF CommitReuse, Revoked, End, ReleaseLocks
<1>18. ASSUME NEW r \in Requests, Deny(r) PROVE Out /\ In
  BY <1>18 DEF Deny, Revoked
<1>19. ASSUME NEW r \in Requests, CommitLogout(r) PROVE Out /\ In
  <2>1. delivered' = delivered
    BY <1>19 DEF CommitLogout
  <2> QED
    BY <1>19, <2>1
<1>20. CASE Tick
  BY <1>20 DEF Tick
<1>21. ASSUME NEW r \in Requests, AbortDeadlock(r) PROVE Out /\ In
  BY <1>21 DEF AbortDeadlock, End, ReleaseLocks
<1>22. ASSUME NEW r \in Requests, Crash(r) PROVE Out /\ In
  BY <1>22 DEF Crash, End, ReleaseLocks
<1>23. CASE UNCHANGED vars
  BY <1>23 DEF vars
<1> QED
  BY <1>1, <1>2, <1>3, <1>4, <1>5, <1>6, <1>7, <1>8, <1>9, <1>10, <1>11, <1>12, <1>13, <1>14,
     <1>15, <1>16, <1>17, <1>18, <1>19, <1>20, <1>21, <1>22, <1>23 DEF Next, Arrive, Step,
     AllEnded

\* The tables stay consistent: rows are only added, to families that exist.
LEMMA TableStep ==
    ASSUME TypeOK, TableInv, PhaseInv, DrawnInv, LockInv, [Next]_vars
    PROVE  TableInv'
<1>1. ASSUME NEW u \in Tokens, row[u] # NoRow PROVE row'[u] # NoRow /\ row'[u].family = row[u].family
  BY <1>1, RowStep
<1>2. ASSUME NEW u \in Tokens, row'[u] # NoRow PROVE row'[row'[u].family] # NoRow
  <2>1. CASE row[u] # NoRow
    <3>1. row[u].family \in Tokens /\ row[row[u].family] # NoRow
      BY <2>1 DEF TypeOK, RowType, TableInv
    <3> QED
      BY <1>1, <2>1, <3>1
  <2>2. CASE row[u] = NoRow
    <3>1. CASE row'[u].family = u
      BY <1>2, <3>1
    <3>2. ASSUME NEW r \in Requests, CommitRotation(r), row'[u].family = row[token[r]].family
          PROVE  row'[row'[u].family] # NoRow
      <4>1. token[r] \in Tokens /\ row[token[r]] # NoRow
        BY <3>2, RotationRows
      <4>2. row[token[r]].family \in Tokens /\ row[row[token[r]].family] # NoRow
        BY <4>1 DEF TypeOK, RowType, TableInv
      <4> QED
        BY <1>1, <3>2, <4>2
    <3> QED
      BY <1>2, <2>2, <3>1, <3>2, NewRow
  <2> QED
    BY <2>1, <2>2
<1>3. ASSUME NEW u \in delivered' PROVE u \in Tokens /\ row'[u] # NoRow
  <2>1. u \in Tokens
    BY <1>3, TypeStep DEF TypeOK
  <2>2. CASE u \in delivered
    BY <1>1, <2>1, <2>2 DEF TableInv
  <2>3. CASE u \notin delivered
    <3>1. \/ \E read \in Roles : Login(u, read)
          \/ \E r \in Requests : Respond(r) /\ u \in work[r].issued
      <4>1. ASSUME NEW t \in Tokens, NEW read \in Roles, Login(t, read), delivered' = delivered \cup {t}
            PROVE  Login(u, read)
        <5>1. t = u
          BY <1>3, <2>3, <4>1
        <5> QED
          BY <4>1, <5>1
      <4>2. ASSUME NEW r \in Requests, Respond(r), delivered' = delivered \cup work[r].issued
            PROVE  u \in work[r].issued
        BY <1>3, <2>3, <4>2
      <4> QED
        BY <1>3, <2>3, <4>1, <4>2, ListStep
    <3>2. ASSUME NEW read \in Roles, Login(u, read) PROVE row'[u] # NoRow
      <4>1. row'[u] = Row(u, clock + RefreshTTL) /\ Row(u, clock + RefreshTTL) \in RowType
        BY <2>1, <3>2 DEF Login, Row, RowType, TypeOK
      <4> QED
        BY <4>1 DEF RowType
    <3>3. ASSUME NEW r \in Requests, Respond(r), u \in work[r].issued PROVE row'[u] # NoRow
      BY <1>1, <2>1, <3>3 DEF DrawnInv, Respond
    <3> QED
      BY <2>1, <3>1, <3>2, <3>3
  <2> QED
    BY <2>1, <2>2, <2>3
<1>4. denylist' \subseteq delivered' /\ loggedOut' \subseteq delivered'
  <2>1. delivered \subseteq delivered'
    BY ListStep
  <2>2. ASSUME NEW r \in Requests, CommitLogout(r)
        PROVE  denylist' \subseteq delivered /\ loggedOut' \subseteq delivered
    <3>1. work[r].denied \subseteq delivered
      BY <2>2 DEF CommitLogout, PhaseInv, PhaseOf
    <3> QED
      BY <2>2, <3>1 DEF CommitLogout, TableInv
  <2>3. UNCHANGED <<denylist, loggedOut>> \/ \E r \in Requests : CommitLogout(r)
    BY ListStep
  <2> QED
    BY <2>1, <2>2, <2>3 DEF TableInv
<1> QED
  BY <1>2, <1>3, <1>4 DEF TableInv

\* The statements of a request come in the order of the code, and what it has
\* written goes with its transaction.
LEMMA PhaseStep == ASSUME TypeOK, TableInv, PhaseInv, [Next]_vars PROVE PhaseInv'
<1> USE DEF tables, pairs, req, NoWork
<1> USE DEF TypeOK, PhaseInv, PhaseOf
<1>1. ASSUME NEW t \in Tokens, NEW read \in {"member", "viewer"}, Login(t, read) PROVE PhaseInv'
  BY <1>1 DEF Login
<1>2. CASE Demote
  BY <1>2 DEF Demote
<1>3. ASSUME NEW r \in Requests, NEW t \in Tokens \cup {Unknown}, Refresh(r, t) PROVE PhaseInv'
  BY <1>3 DEF Refresh
<1>4. ASSUME NEW r \in Requests, NEW t \in Tokens \cup {Unknown}, NEW what \in {"read", "write", "logout"}, Call(r, t, what)
      PROVE  PhaseInv'
  BY <1>4 DEF Call
<1>5. ASSUME NEW r \in Requests, PresentInvalid(r) PROVE PhaseInv'
  BY <1>5 DEF PresentInvalid, Locks, End, ReleaseLocks
<1>6. ASSUME NEW r \in Requests, PresentUsed(r) PROVE PhaseInv'
  <2>1. token[r] \in delivered /\ pc[r] = "lock" /\ pc' = [pc EXCEPT ![r] = "revoke"]
    BY <1>6 DEF PresentUsed, Locks, Exists
  <2>2. token' = token /\ kind' = kind /\ delivered' = delivered /\ answer' = answer /\ scan' = scan /\ work' = work
    BY <1>6 DEF PresentUsed
  <2> HIDE DEF TypeOK
  <2>3. \A q \in Requests : pc'[q] = IF q = r THEN "revoke" ELSE pc[q]
    BY <2>1 DEF TypeOK
  <2> QED
    BY <2>1, <2>2, <2>3
<1>7. ASSUME NEW r \in Requests, NEW n \in Tokens, PresentLive(r, n) PROVE PhaseInv'
  <2>1. pc' = [pc EXCEPT ![r] = "commit"] /\ pc[r] = "lock" /\ token[r] \in Tokens
    BY <1>7 DEF PresentLive, Rotate, Locks, Exists
  <2>2. /\ token' = token /\ kind' = kind /\ delivered' = delivered /\ answer' = answer /\ scan' = scan
    BY <1>7 DEF PresentLive, Rotate
  <2> QED
    <3> HIDE DEF TypeOK
    <3>1. ASSUME NEW q \in Requests, q # r PROVE PhaseOf(q)'
      <4>1. work'[q] = work[q] /\ scan'[q] = scan[q] /\ pc'[q] = pc[q]
        BY <1>7, <2>1, <2>2, <3>1, LiveWork DEF TypeOK
      <4>2. PhaseOf(q)
        OBVIOUS
      <4> HIDE DEF PhaseInv
      <4> QED
        BY <2>2, <4>1, <4>2
    <3>2. PhaseOf(r)'
      <4>1. pc'[r] = "commit"
        BY <2>1 DEF TypeOK
      <4> QED
        BY <1>7, <2>1, <2>2, <4>1, LiveWork
    <3> QED
      BY <3>1, <3>2
<1>8. ASSUME NEW r \in Requests, CommitRotation(r) PROVE PhaseInv'
  <2>1. /\ pc[r] = "commit" /\ work[r].issued # {} /\ pc' = [pc EXCEPT ![r] = "respond"]
        /\ UNCHANGED <<token, kind, delivered, work, answer, scan>>
    BY <1>8 DEF CommitRotation, Install
  <2>2. ASSUME NEW q \in Requests PROVE PhaseOf(q)'
    <3>1. PhaseOf(q) /\ pc'[q] = IF q = r THEN "respond" ELSE pc[q]
      BY <2>1
    <3> HIDE DEF TypeOK, PhaseInv
    <3> QED
      BY <2>1, <3>1
  <2> QED
    BY <2>2
<1>9. ASSUME NEW r \in Requests, Respond(r) PROVE PhaseInv'
  BY <1>9 DEF Respond, End, ReleaseLocks
<1>10. ASSUME NEW r \in Requests, CheckExp(r) PROVE PhaseInv'
  <2>1. /\ pc[r] = "verify" /\ pc' = [pc EXCEPT ![r] = "denylist"] /\ token[r] \in delivered
        /\ UNCHANGED <<token, kind, delivered, work, answer, scan>>
    BY <1>10 DEF CheckExp, Authentic
  <2>2. ASSUME NEW q \in Requests PROVE PhaseOf(q)'
    <3>1. PhaseOf(q) /\ pc'[q] = IF q = r THEN "denylist" ELSE pc[q]
      BY <2>1
    <3> HIDE DEF TypeOK, PhaseInv
    <3> QED
      BY <2>1, <3>1
  <2> QED
    BY <2>2
<1>11. ASSUME NEW r \in Requests, RejectExpired(r) PROVE PhaseInv'
  BY <1>11 DEF RejectExpired, End, ReleaseLocks
<1>12. ASSUME NEW r \in Requests, RejectRevoked(r) PROVE PhaseInv'
  BY <1>12 DEF RejectRevoked, End, ReleaseLocks
<1>13. ASSUME NEW r \in Requests, Serve(r) PROVE PhaseInv'
  BY <1>13 DEF Serve, End, ReleaseLocks
<1>14. ASSUME NEW r \in Requests, BeginLogout(r) PROVE PhaseInv'
  <2>1. /\ pc[r] = "denylist" /\ pc' = [pc EXCEPT ![r] = "revoke"]
        /\ UNCHANGED <<token, kind, delivered, work, answer, scan>>
    BY <1>14 DEF BeginLogout
  <2>2. ASSUME NEW q \in Requests PROVE PhaseOf(q)'
    <3>1. PhaseOf(q) /\ pc'[q] = IF q = r THEN "revoke" ELSE pc[q]
      BY <2>1
    <3> HIDE DEF TypeOK, PhaseInv
    <3> QED
      BY <2>1, <3>1
  <2> QED
    BY <2>2
<1>15. ASSUME NEW r \in Requests, StartRevoke(r) PROVE PhaseInv'
  <2>1. /\ pc[r] = "revoke" /\ pc' = [pc EXCEPT ![r] = "revoking"]
        /\ \A q \in Requests \ {r} : scan'[q] = scan[q]
        /\ UNCHANGED <<token, kind, delivered, work, answer>>
    BY <1>15 DEF StartRevoke
  <2>2. ASSUME NEW q \in Requests PROVE PhaseOf(q)'
    <3>1. PhaseOf(q) /\ pc'[q] = IF q = r THEN "revoking" ELSE pc[q]
      BY <2>1
    <3> HIDE DEF TypeOK, PhaseInv
    <3> QED
      BY <2>1, <3>1
  <2> QED
    BY <2>2
<1>16. ASSUME NEW r \in Requests, NEW t \in Tokens, RevokeRow(r, t) PROVE PhaseInv'
  <2>1. pc' = pc /\ pc[r] = "revoking" /\ \A q \in Requests \ {r} : scan'[q] = scan[q]
    BY <1>16 DEF RevokeRow
  <2>2. /\ token' = token /\ kind' = kind /\ delivered' = delivered /\ answer' = answer
    BY <1>16 DEF RevokeRow
  <2> QED
    <3> HIDE DEF TypeOK
    <3>1. ASSUME NEW q \in Requests, q # r PROVE PhaseOf(q)'
      <4>1. work'[q] = work[q] /\ scan'[q] = scan[q] /\ pc'[q] = pc[q]
        BY <1>16, <2>1, <2>2, <3>1, RevokeWork DEF TypeOK
      <4>2. PhaseOf(q)
        OBVIOUS
      <4> HIDE DEF PhaseInv
      <4> QED
        BY <2>2, <4>1, <4>2
    <3>2. PhaseOf(r)'
      <4>1. pc'[r] = "revoking"
        BY <2>1 DEF TypeOK
      <4> QED
        BY <1>16, <2>1, <2>2, <4>1, RevokeWork
    <3> QED
      BY <3>1, <3>2
<1>17. ASSUME NEW r \in Requests, CommitReuse(r) PROVE PhaseInv'
  BY <1>17 DEF CommitReuse, Revoked, End, ReleaseLocks
<1>18. ASSUME NEW r \in Requests, Deny(r) PROVE PhaseInv'
  <2>1. pc' = [pc EXCEPT ![r] = "commit"] /\ pc[r] = "revoking" /\ scan[r] = {}
    BY <1>18 DEF Deny, Revoked
  <2>2. /\ token' = token /\ kind' = kind /\ delivered' = delivered /\ answer' = answer /\ scan' = scan
    BY <1>18 DEF Deny
  <2> QED
    <3> HIDE DEF TypeOK
    <3>1. ASSUME NEW q \in Requests, q # r PROVE PhaseOf(q)'
      <4>1. work'[q] = work[q] /\ scan'[q] = scan[q] /\ pc'[q] = pc[q]
        BY <1>18, <2>1, <2>2, <3>1, DenyWork DEF TypeOK
      <4>2. PhaseOf(q)
        OBVIOUS
      <4> HIDE DEF PhaseInv
      <4> QED
        BY <2>2, <4>1, <4>2
    <3>2. PhaseOf(r)'
      <4>1. pc'[r] = "commit"
        BY <2>1 DEF TypeOK
      <4>2. /\ work'[r].denied = {token[r]} /\ work'[r].used = work[r].used
            /\ work'[r].issued = work[r].issued /\ work'[r].revoked = work[r].revoked
        <5> HIDE DEF PhaseInv
        <5> QED
          BY <1>18, DenyWork
      <4>3. PhaseOf(r)
        OBVIOUS
      <4> HIDE DEF PhaseInv
      <4> QED
        BY <2>1, <2>2, <4>1, <4>2, <4>3
    <3> QED
      BY <3>1, <3>2
<1>19. ASSUME NEW r \in Requests, CommitLogout(r) PROVE PhaseInv'
  BY <1>19 DEF CommitLogout, End, ReleaseLocks
<1>20. CASE Tick
  BY <1>20 DEF Tick
<1>21. ASSUME NEW r \in Requests, AbortDeadlock(r) PROVE PhaseInv'
  BY <1>21 DEF AbortDeadlock, End, ReleaseLocks
<1>22. ASSUME NEW r \in Requests, Crash(r) PROVE PhaseInv'
  BY <1>22 DEF Crash, End, ReleaseLocks
<1>23. CASE UNCHANGED vars
  BY <1>23 DEF vars
<1> HIDE DEF TypeOK, PhaseInv, PhaseOf
<1> QED
  BY <1>1, <1>2, <1>3, <1>4, <1>5, <1>6, <1>7, <1>8, <1>9, <1>10, <1>11, <1>12, <1>13, <1>14,
     <1>15, <1>16, <1>17, <1>18, <1>19, <1>20, <1>21, <1>22, <1>23 DEF Next, Arrive, Step,
     AllEnded

\* What a request has written changes only by its own statements.
LEMMA WorkStep ==
    ASSUME TypeOK, [Next]_vars, NEW q \in Requests
    PROVE  \/ work'[q] = work[q]
           \/ work'[q] = NoWork
           \/ \E n \in Tokens : PresentLive(q, n)
           \/ \E t \in Tokens : RevokeRow(q, t)
           \/ Deny(q)
<1> DEFINE Goal == \/ work'[q] = work[q]
                   \/ work'[q] = NoWork
                   \/ \E n \in Tokens : PresentLive(q, n)
                   \/ \E t \in Tokens : RevokeRow(q, t)
                   \/ Deny(q)
<1> SUFFICES Goal
  OBVIOUS
<1> USE DEF TypeOK
<1>1. ASSUME NEW t \in Tokens, NEW read \in {"member", "viewer"}, Login(t, read) PROVE Goal
  BY <1>1 DEF Login
<1>2. CASE Demote
  BY <1>2 DEF Demote
<1>3. ASSUME NEW r \in Requests, NEW t \in Tokens \cup {Unknown}, Refresh(r, t) PROVE Goal
  BY <1>3 DEF Refresh
<1>4. ASSUME NEW r \in Requests, NEW t \in Tokens \cup {Unknown}, NEW what \in {"read", "write", "logout"}, Call(r, t, what)
      PROVE  Goal
  BY <1>4 DEF Call
<1>5. ASSUME NEW r \in Requests, PresentInvalid(r) PROVE Goal
  BY <1>5 DEF PresentInvalid, Locks, End, ReleaseLocks
<1>6. ASSUME NEW r \in Requests, PresentUsed(r) PROVE Goal
  BY <1>6 DEF PresentUsed, Locks, Dead, Exists
<1>7. ASSUME NEW r \in Requests, NEW n \in Tokens, PresentLive(r, n) PROVE Goal
  BY <1>7, LiveWork
<1>8. ASSUME NEW r \in Requests, CommitRotation(r) PROVE Goal
  BY <1>8 DEF CommitRotation, Install, ReleaseLocks
<1>9. ASSUME NEW r \in Requests, Respond(r) PROVE Goal
  BY <1>9 DEF Respond, End, ReleaseLocks
<1>10. ASSUME NEW r \in Requests, CheckExp(r) PROVE Goal
  BY <1>10 DEF CheckExp, Authentic
<1>11. ASSUME NEW r \in Requests, RejectExpired(r) PROVE Goal
  BY <1>11 DEF RejectExpired, End, ReleaseLocks
<1>12. ASSUME NEW r \in Requests, RejectRevoked(r) PROVE Goal
  BY <1>12 DEF RejectRevoked, End, ReleaseLocks
<1>13. ASSUME NEW r \in Requests, Serve(r) PROVE Goal
  BY <1>13 DEF Serve, End, ReleaseLocks
<1>14. ASSUME NEW r \in Requests, BeginLogout(r) PROVE Goal
  BY <1>14 DEF BeginLogout
<1>15. ASSUME NEW r \in Requests, StartRevoke(r) PROVE Goal
  BY <1>15 DEF StartRevoke, Family
<1>16. ASSUME NEW r \in Requests, NEW t \in Tokens, RevokeRow(r, t) PROVE Goal
  <2>1. CASE r = q
    BY <1>16, <2>1
  <2>2. CASE r # q
    BY <1>16, <2>2, RevokeWork
  <2> QED
    BY <2>1, <2>2
<1>17. ASSUME NEW r \in Requests, CommitReuse(r) PROVE Goal
  BY <1>17 DEF CommitReuse, Revoked, End, ReleaseLocks
<1>18. ASSUME NEW r \in Requests, Deny(r) PROVE Goal
  BY <1>18, DenyWork
<1>19. ASSUME NEW r \in Requests, CommitLogout(r) PROVE Goal
  BY <1>19 DEF CommitLogout, End, ReleaseLocks
<1>20. CASE Tick
  BY <1>20 DEF Tick
<1>21. ASSUME NEW r \in Requests, AbortDeadlock(r) PROVE Goal
  BY <1>21 DEF AbortDeadlock, End, ReleaseLocks
<1>22. ASSUME NEW r \in Requests, Crash(r) PROVE Goal
  BY <1>22 DEF Crash, End, ReleaseLocks
<1>23. CASE UNCHANGED vars
  BY <1>23 DEF vars
<1> QED
  BY <1>1, <1>2, <1>3, <1>4, <1>5, <1>6, <1>7, <1>8, <1>9, <1>10, <1>11, <1>12, <1>13, <1>14,
     <1>15, <1>16, <1>17, <1>18, <1>19, <1>20, <1>21, <1>22, <1>23 DEF Next, Arrive, Step,
     AllEnded

\* A request comes to its COMMIT by a rotation or by a logout.
LEMMA CommitStep ==
    ASSUME TypeOK, PhaseInv, [Next]_vars, NEW q \in Requests, pc'[q] = "commit"
    PROVE  \/ pc[q] = "commit" /\ work'[q] = work[q] /\ token'[q] = token[q]
           \/ \E n \in Tokens : PresentLive(q, n)
           \/ Deny(q)
<1> DEFINE Goal == \/ pc[q] = "commit" /\ work'[q] = work[q] /\ token'[q] = token[q]
                   \/ \E n \in Tokens : PresentLive(q, n)
                   \/ Deny(q)
<1> USE DEF req
<1> SUFFICES Goal
  OBVIOUS
<1> USE DEF TypeOK
<1>1. ASSUME NEW t \in Tokens, NEW read \in {"member", "viewer"}, Login(t, read) PROVE Goal
  BY <1>1 DEF Login
<1>2. CASE Demote
  BY <1>2 DEF Demote
<1>3. ASSUME NEW r \in Requests, NEW t \in Tokens \cup {Unknown}, Refresh(r, t) PROVE Goal
  BY <1>3 DEF Refresh
<1>4. ASSUME NEW r \in Requests, NEW t \in Tokens \cup {Unknown}, NEW what \in {"read", "write", "logout"}, Call(r, t, what)
      PROVE  Goal
  BY <1>4 DEF Call
<1>5. ASSUME NEW r \in Requests, PresentInvalid(r) PROVE Goal
  BY <1>5 DEF PresentInvalid, Locks, End, ReleaseLocks
<1>6. ASSUME NEW r \in Requests, PresentUsed(r) PROVE Goal
  BY <1>6 DEF PresentUsed, Locks, Dead, Exists
<1>7. ASSUME NEW r \in Requests, NEW n \in Tokens, PresentLive(r, n) PROVE Goal
  <2>1. CASE r = q
    BY <1>7, <2>1
  <2>2. CASE r # q
    <3>1. pc'[q] = pc[q] /\ token' = token
      BY <1>7, <2>2 DEF PresentLive, Rotate
    <3> HIDE DEF TypeOK
    <3>2. work'[q] = work[q]
      BY <1>7, <2>2, LiveOthers
    <3> QED
      BY <3>1, <3>2
  <2> QED
    BY <2>1, <2>2
<1>8. ASSUME NEW r \in Requests, CommitRotation(r) PROVE Goal
  BY <1>8 DEF CommitRotation, Install, ReleaseLocks
<1>9. ASSUME NEW r \in Requests, Respond(r) PROVE Goal
  BY <1>9 DEF Respond, End, ReleaseLocks
<1>10. ASSUME NEW r \in Requests, CheckExp(r) PROVE Goal
  BY <1>10 DEF CheckExp, Authentic
<1>11. ASSUME NEW r \in Requests, RejectExpired(r) PROVE Goal
  BY <1>11 DEF RejectExpired, End, ReleaseLocks
<1>12. ASSUME NEW r \in Requests, RejectRevoked(r) PROVE Goal
  BY <1>12 DEF RejectRevoked, End, ReleaseLocks
<1>13. ASSUME NEW r \in Requests, Serve(r) PROVE Goal
  BY <1>13 DEF Serve, End, ReleaseLocks
<1>14. ASSUME NEW r \in Requests, BeginLogout(r) PROVE Goal
  BY <1>14 DEF BeginLogout
<1>15. ASSUME NEW r \in Requests, StartRevoke(r) PROVE Goal
  BY <1>15 DEF StartRevoke, Family
<1>16. ASSUME NEW r \in Requests, NEW t \in Tokens, RevokeRow(r, t) PROVE Goal
  BY <1>16, RevokeWork DEF RevokeRow
<1>17. ASSUME NEW r \in Requests, CommitReuse(r) PROVE Goal
  BY <1>17 DEF CommitReuse, Revoked, End, ReleaseLocks
<1>18. ASSUME NEW r \in Requests, Deny(r) PROVE Goal
  <2>1. CASE r = q
    BY <1>18, <2>1
  <2>2. CASE r # q
    <3>1. pc'[q] = pc[q] /\ token' = token
      BY <1>18, <2>2 DEF Deny
    <3> HIDE DEF TypeOK
    <3>2. work'[q] = work[q]
      BY <1>18, <2>2, DenyOthers
    <3> QED
      BY <3>1, <3>2
  <2> QED
    BY <2>1, <2>2
<1>19. ASSUME NEW r \in Requests, CommitLogout(r) PROVE Goal
  BY <1>19 DEF CommitLogout, End, ReleaseLocks
<1>20. CASE Tick
  BY <1>20 DEF Tick
<1>21. ASSUME NEW r \in Requests, AbortDeadlock(r) PROVE Goal
  BY <1>21 DEF AbortDeadlock, End, ReleaseLocks
<1>22. ASSUME NEW r \in Requests, Crash(r) PROVE Goal
  BY <1>22 DEF Crash, End, ReleaseLocks
<1>23. CASE UNCHANGED vars
  BY <1>23 DEF vars
<1> QED
  BY <1>1, <1>2, <1>3, <1>4, <1>5, <1>6, <1>7, <1>8, <1>9, <1>10, <1>11, <1>12, <1>13, <1>14,
     <1>15, <1>16, <1>17, <1>18, <1>19, <1>20, <1>21, <1>22, <1>23 DEF Next, Arrive, Step,
     AllEnded

\* A request comes to its response by the COMMIT of a rotation.
LEMMA RespondStep ==
    ASSUME TypeOK, [Next]_vars, NEW q \in Requests, pc'[q] = "respond"
    PROVE  CommitRotation(q) \/ (pc[q] = "respond" /\ work'[q] = work[q])
<1> DEFINE Goal == CommitRotation(q) \/ (pc[q] = "respond" /\ work'[q] = work[q])
<1> SUFFICES Goal
  OBVIOUS
<1> USE DEF TypeOK
<1>1. ASSUME NEW t \in Tokens, NEW read \in {"member", "viewer"}, Login(t, read) PROVE Goal
  BY <1>1 DEF Login
<1>2. CASE Demote
  BY <1>2 DEF Demote
<1>3. ASSUME NEW r \in Requests, NEW t \in Tokens \cup {Unknown}, Refresh(r, t) PROVE Goal
  BY <1>3 DEF Refresh
<1>4. ASSUME NEW r \in Requests, NEW t \in Tokens \cup {Unknown}, NEW what \in {"read", "write", "logout"}, Call(r, t, what)
      PROVE  Goal
  BY <1>4 DEF Call
<1>5. ASSUME NEW r \in Requests, PresentInvalid(r) PROVE Goal
  BY <1>5 DEF PresentInvalid, Locks, End, ReleaseLocks
<1>6. ASSUME NEW r \in Requests, PresentUsed(r) PROVE Goal
  BY <1>6 DEF PresentUsed, Locks, Dead, Exists
<1>7. ASSUME NEW r \in Requests, NEW n \in Tokens, PresentLive(r, n) PROVE Goal
  <2>1. q # r /\ pc'[q] = pc[q]
    BY <1>7 DEF PresentLive, Rotate
  <2>2. work'[q] = work[q]
    BY <1>7, <2>1, LiveWork
  <2> QED
    BY <2>1, <2>2
<1>8. ASSUME NEW r \in Requests, CommitRotation(r) PROVE Goal
  <2>1. CASE r = q
    BY <1>8, <2>1
  <2>2. CASE r # q
    BY <1>8, <2>2 DEF CommitRotation, Install
  <2> QED
    BY <2>1, <2>2
<1>9. ASSUME NEW r \in Requests, Respond(r) PROVE Goal
  BY <1>9 DEF Respond, End, ReleaseLocks
<1>10. ASSUME NEW r \in Requests, CheckExp(r) PROVE Goal
  BY <1>10 DEF CheckExp, Authentic
<1>11. ASSUME NEW r \in Requests, RejectExpired(r) PROVE Goal
  BY <1>11 DEF RejectExpired, End, ReleaseLocks
<1>12. ASSUME NEW r \in Requests, RejectRevoked(r) PROVE Goal
  BY <1>12 DEF RejectRevoked, End, ReleaseLocks
<1>13. ASSUME NEW r \in Requests, Serve(r) PROVE Goal
  BY <1>13 DEF Serve, End, ReleaseLocks
<1>14. ASSUME NEW r \in Requests, BeginLogout(r) PROVE Goal
  BY <1>14 DEF BeginLogout
<1>15. ASSUME NEW r \in Requests, StartRevoke(r) PROVE Goal
  BY <1>15 DEF StartRevoke, Family
<1>16. ASSUME NEW r \in Requests, NEW t \in Tokens, RevokeRow(r, t) PROVE Goal
  <2>1. q # r /\ pc'[q] = pc[q]
    BY <1>16 DEF RevokeRow
  <2>2. work'[q] = work[q]
    <3> HIDE DEF TypeOK
    <3> QED
      BY <1>16, <2>1, RevokeWork
  <2> QED
    BY <2>1, <2>2
<1>17. ASSUME NEW r \in Requests, CommitReuse(r) PROVE Goal
  BY <1>17 DEF CommitReuse, Revoked, End, ReleaseLocks
<1>18. ASSUME NEW r \in Requests, Deny(r) PROVE Goal
  <2>1. q # r /\ pc'[q] = pc[q]
    BY <1>18 DEF Deny
  <2>2. work'[q] = work[q]
    BY <1>18, <2>1, DenyWork
  <2> QED
    BY <2>1, <2>2
<1>19. ASSUME NEW r \in Requests, CommitLogout(r) PROVE Goal
  BY <1>19 DEF CommitLogout, End, ReleaseLocks
<1>20. CASE Tick
  BY <1>20 DEF Tick
<1>21. ASSUME NEW r \in Requests, AbortDeadlock(r) PROVE Goal
  BY <1>21 DEF AbortDeadlock, End, ReleaseLocks
<1>22. ASSUME NEW r \in Requests, Crash(r) PROVE Goal
  BY <1>22 DEF Crash, End, ReleaseLocks
<1>23. CASE UNCHANGED vars
  BY <1>23 DEF vars
<1> QED
  BY <1>1, <1>2, <1>3, <1>4, <1>5, <1>6, <1>7, <1>8, <1>9, <1>10, <1>11, <1>12, <1>13, <1>14,
     <1>15, <1>16, <1>17, <1>18, <1>19, <1>20, <1>21, <1>22, <1>23 DEF Next, Arrive, Step,
     AllEnded

\* A token is issued once: it is drawn by one request, and enters the table by
\* that request's COMMIT.
LEMMA DrawnStep ==
    ASSUME TypeOK, TableInv, PhaseInv, DrawnInv, LockInv, [Next]_vars
    PROVE  DrawnInv'
<1>1. ASSUME NEW q \in Requests
      PROVE  \/ work'[q].issued \subseteq work[q].issued
             \/ \E n \in Tokens : PresentLive(q, n) /\ work'[q].issued = {n}
  <2>1. ASSUME NEW n \in Tokens, PresentLive(q, n) PROVE work'[q].issued = {n}
    BY <2>1, LiveWork
  <2>2. ASSUME NEW t \in Tokens, RevokeRow(q, t) PROVE work'[q].issued = work[q].issued
    BY <2>2, RevokeWork
  <2>3. Deny(q) => work'[q].issued = work[q].issued
    BY DenyWork
  <2>4. NoWork.issued = {}
    BY DEF NoWork
  <2> QED
    BY <2>1, <2>2, <2>3, <2>4, WorkStep
<1>2. ASSUME NEW q \in Requests, NEW n \in Tokens, PresentLive(q, n)
      PROVE  /\ row' = row /\ row[n] = NoRow
             /\ \A p \in Requests : n \notin work[p].issued
             /\ \A p \in Requests \ {q} : work'[p] = work[p]
  BY <1>2, LiveWork DEF PresentLive, Rotate, Fresh, Drawn, tables, pairs
<1>3. ASSUME NEW q \in Requests PROVE \A n, m \in work'[q].issued : n = m
  BY <1>1 DEF DrawnInv
<1>4. ASSUME NEW q \in Requests, NEW p \in Requests, q # p
      PROVE  work'[q].issued \cap work'[p].issued = {}
  BY <1>1, <1>2, <1>4 DEF DrawnInv
<1>5. ASSUME NEW q \in Requests, pc'[q] = "commit", NEW n \in work'[q].issued
      PROVE  row'[n] = NoRow
  <2>1. CASE \E m \in Tokens : PresentLive(q, m)
    <3>1. PICK m \in Tokens : PresentLive(q, m)
      BY <2>1
    <3>2. n = m
      BY <1>5, <3>1, LiveWork
    <3> QED
      BY <1>2, <3>1, <3>2
  <2>2. CASE Deny(q)
    <3>1. row' = row /\ work'[q].issued = work[q].issued /\ work[q].issued = {}
      BY <2>2, DenyWork DEF Deny, tables, pairs, Revoked, PhaseInv, PhaseOf
    <3> QED
      BY <1>5, <3>1
  <2>3. CASE pc[q] = "commit" /\ work'[q] = work[q]
    <3>1. n \in work[q].issued /\ n \in Tokens /\ row[n] = NoRow
      BY <1>5, <2>3, WorkFields DEF DrawnInv
    <3>2. ASSUME row'[n] # NoRow PROVE FALSE
      <4>1. ASSUME NEW read \in Roles, Login(n, read) PROVE FALSE
        BY <3>1, <4>1 DEF Login, Fresh, Drawn
      <4>2. ASSUME NEW p \in Requests, CommitRotation(p), work[p].issued = {n} PROVE FALSE
        <5>1. pc'[p] = "respond"
          BY <4>2 DEF CommitRotation, Install, TypeOK
        <5>2. p # q
          BY <1>5, <5>1
        <5> QED
          BY <3>1, <4>2, <5>2 DEF DrawnInv
      <4> QED
        BY <3>1, <3>2, <4>1, <4>2, NewRow
    <3> QED
      BY <3>2
  <2> QED
    BY <1>5, <2>1, <2>2, <2>3, CommitStep
<1>6. ASSUME NEW q \in Requests, pc'[q] = "respond", NEW n \in work'[q].issued
      PROVE  row'[n] # NoRow
  <2>1. CASE CommitRotation(q)
    <3>1. work'[q] = work[q]
      BY <2>1 DEF CommitRotation, Install
    <3>2. PICK m \in Tokens :
             /\ work[q].issued = {m} /\ row[m] = NoRow
             /\ token[q] \in Tokens /\ row[token[q]] # NoRow
             /\ Successor(q) \in RowType
             /\ row' = [row EXCEPT ![m] = Successor(q), ![token[q]] = Written(q, token[q])]
      BY <2>1, RotationRows
    <3>3. n = m /\ n # token[q]
      BY <1>6, <3>1, <3>2
    <3>4. row'[n] = Successor(q)
      BY <3>2, <3>3 DEF TypeOK
    <3> QED
      BY <3>2, <3>4 DEF RowType
  <2>2. CASE pc[q] = "respond" /\ work'[q] = work[q]
    BY <1>6, <2>2, RowStep, WorkFields DEF DrawnInv
  <2> QED
    BY <1>6, <2>1, <2>2, RespondStep
<1> QED
  BY <1>3, <1>4, <1>5, <1>6 DEF DrawnInv

\* The token that is being rotated stays live, and the rows that are being
\* revoked stay locked, until the COMMIT.
LEMMA LockStep ==
    ASSUME TypeOK, TableInv, PhaseInv, DrawnInv, LockInv, ReachInv, [Next]_vars
    PROVE  LockInv'
<1>1. ASSUME NEW q \in Requests, NEW u \in Tokens, lock[u] = q, row[u] # NoRow,
             pc'[q] \notin {"respond", "ended"}
      PROVE  lock'[u] = q /\ row'[u] = row[u]
  <2>1. lock'[u] = q
    BY <1>1, LockKept
  <2>2. row'[u] = row[u]
    BY <1>1, RowHeld
  <2> QED
    BY <2>1, <2>2
<1>2. ASSUME NEW q \in Requests, pc'[q] = "commit", work'[q].issued # {}
      PROVE  lock'[token'[q]] = q /\ ~row'[token'[q]].used /\ ~row'[token'[q]].revoked
  <2>1. ASSUME NEW n \in Tokens, PresentLive(q, n)
        PROVE  lock'[token'[q]] = q /\ ~row'[token'[q]].used /\ ~row'[token'[q]].revoked
    BY <2>1 DEF PresentLive, Rotate, Locks, Exists, Dead, TypeOK, tables, pairs, req
  <2>2. Deny(q) => work'[q].issued = {}
    BY DenyWork DEF Deny, Revoked, PhaseInv, PhaseOf
  <2>3. CASE pc[q] = "commit" /\ work'[q] = work[q] /\ token'[q] = token[q]
    <3>1. token[q] \in Tokens /\ row[token[q]] # NoRow
      BY <2>3 DEF PhaseInv, PhaseOf, TableInv, TypeOK
    <3>2. lock[token[q]] = q /\ ~row[token[q]].used /\ ~row[token[q]].revoked
      BY <1>2, <2>3 DEF LockInv
    <3>3. lock'[token[q]] = q /\ row'[token[q]] = row[token[q]]
      BY <1>1, <1>2, <3>1, <3>2
    <3> QED
      BY <2>3, <3>2, <3>3
  <2> QED
    BY <1>2, <2>1, <2>2, <2>3, CommitStep
<1>3. ASSUME NEW q \in Requests, NEW t \in work'[q].revoked
      PROVE  lock'[t] = q /\ row'[t] # NoRow
  <2>1. t \in Tokens
    BY TypeStep, WorkFields DEF TypeOK, WorkType
  <2>2. CASE t \in work[q].revoked
    <3>1. lock[t] = q /\ row[t] # NoRow
      BY <2>2 DEF LockInv
    <3>2. pc'[q] \notin {"respond", "ended"}
      BY PhaseStep DEF PhaseInv, PhaseOf
    <3> QED
      BY <1>1, <2>1, <3>1, <3>2
  <2>3. CASE t \notin work[q].revoked
    <3>1. (\E n \in Tokens : PresentLive(q, n)) => work'[q].revoked = work[q].revoked
      BY LiveWork
    <3>2. Deny(q) => work'[q].revoked = work[q].revoked
      BY DenyWork
    <3>3. NoWork.revoked = {}
      BY DEF NoWork
    <3>4. PICK u \in Tokens : RevokeRow(q, u)
      BY <2>3, <3>1, <3>2, <3>3, WorkStep
    <3>5. u = t /\ lock' = [lock EXCEPT ![t] = q]
      BY <2>3, <3>4, RevokeWork
    <3>6. row' = row /\ t \in scan[q]
      BY <3>4, <3>5 DEF RevokeRow, tables, pairs
    <3> QED
      BY <2>1, <3>5, <3>6 DEF ReachInv, TypeOK
  <2> QED
    BY <2>2, <2>3
<1> QED
  BY <1>2, <1>3 DEF LockInv

\* A rotation uses the head of the family and makes its successor the head; a
\* login starts a family of its own.
LEMMA HeadStep ==
    ASSUME TypeOK, TableInv, PhaseInv, DrawnInv, LockInv, UniqueHead, [Next]_vars
    PROVE  UniqueHead'
<1>1. ASSUME NEW t \in Tokens, row[t] # NoRow, ~row'[t].used
      PROVE  ~row[t].used /\ row'[t].family = row[t].family
  BY <1>1, RowStep
<1>2. ASSUME NEW t \in Tokens, NEW u \in Tokens, row[t] = NoRow, row'[t] # NoRow, row[u] # NoRow,
             row'[t].family = row'[u].family, ~row'[u].used
      PROVE  FALSE
  <2>1. ~row[u].used /\ row'[u].family = row[u].family
    BY <1>1, <1>2
  <2>2. row'[t].family # t
    BY <1>2, <2>1 DEF TableInv
  <2>3. PICK r \in Requests : /\ CommitRotation(r) /\ work[r].issued = {t}
                             /\ row'[t].family = row[token[r]].family
    BY <1>2, <2>2, NewRow
  <2>4. PICK n \in Tokens :
             /\ work[r].issued = {n} /\ row[n] = NoRow
             /\ token[r] \in Tokens /\ row[token[r]] # NoRow
             /\ row' = [row EXCEPT ![n] = Successor(r), ![token[r]] = Written(r, token[r])]
    BY <2>3, RotationRows
  <2>5. ~row[token[r]].used
    BY <2>3 DEF CommitRotation, Install, LockInv
  <2>6. u = token[r]
    BY <1>2, <2>1, <2>3, <2>4, <2>5 DEF UniqueHead, Exists
  <2>7. row'[u] = Written(r, u)
    BY <2>4, <2>6 DEF TypeOK
  <2>8. u \in work[r].used
    BY <2>3, <2>6 DEF PhaseInv, PhaseOf
  <2> QED
    BY <1>2, <2>7, <2>8, WrittenRow
<1>3. ASSUME NEW t \in Tokens, NEW u \in Tokens, row'[t] # NoRow, row'[u] # NoRow,
             row'[t].family = row'[u].family, ~row'[t].used, ~row'[u].used
      PROVE  t = u
  <2>1. CASE row[t] # NoRow /\ row[u] # NoRow
    BY <1>1, <1>3, <2>1 DEF UniqueHead, Exists
  <2>2. CASE row[t] = NoRow /\ row[u] = NoRow
    BY <1>3, <2>2, NewRow
  <2>3. CASE row[t] = NoRow /\ row[u] # NoRow
    BY <1>2, <1>3, <2>3
  <2>4. CASE row[t] # NoRow /\ row[u] = NoRow
    BY <1>2, <1>3, <2>4
  <2> QED
    BY <2>1, <2>2, <2>3, <2>4
<1> QED
  BY <1>3 DEF UniqueHead, Exists

\* The steps of a request that say what its revokeFamily reaches.
LEMMA QuietStep ==
    ASSUME TypeOK, PhaseInv, [Next]_vars, NEW q \in Requests
    PROVE  \/ StartRevoke(q) \/ (\E t \in Tokens : RevokeRow(q, t)) \/ Deny(q)
           \/ CommitReuse(q) \/ CommitLogout(q)
           \/ /\ seen'[q] = seen[q]
              /\ scan'[q] = scan[q] \/ scan'[q] = {}
              /\ pc'[q] = "revoking" => pc[q] = "revoking" /\ scan'[q] = scan[q] /\ work'[q] = work[q]
              /\ work'[q].denied # {} => work'[q] = work[q] /\ scan'[q] = scan[q]
              /\ answer'[q] \in {"reuse", "logged_out"} => answer[q] = answer'[q]
<1> DEFINE Busy == \/ StartRevoke(q) \/ (\E t \in Tokens : RevokeRow(q, t)) \/ Deny(q)
                   \/ CommitReuse(q) \/ CommitLogout(q)
           Quiet ==
              /\ seen'[q] = seen[q]
              /\ scan'[q] = scan[q] \/ scan'[q] = {}
              /\ pc'[q] = "revoking" => pc[q] = "revoking" /\ scan'[q] = scan[q] /\ work'[q] = work[q]
              /\ work'[q].denied # {} => work'[q] = work[q] /\ scan'[q] = scan[q]
              /\ answer'[q] \in {"reuse", "logged_out"} => answer[q] = answer'[q]
<1> SUFFICES Busy \/ Quiet
  OBVIOUS
<1>0. NoWork.denied = {}
  BY DEF NoWork
<1> USE <1>0
<1> USE DEF TypeOK
<1>1. ASSUME NEW t \in Tokens, NEW read \in {"member", "viewer"}, Login(t, read) PROVE Busy \/ Quiet
  BY <1>1 DEF Login
<1>2. CASE Demote
  BY <1>2 DEF Demote
<1>3. ASSUME NEW r \in Requests, NEW t \in Tokens \cup {Unknown}, Refresh(r, t) PROVE Busy \/ Quiet
  BY <1>3 DEF Refresh
<1>4. ASSUME NEW r \in Requests, NEW t \in Tokens \cup {Unknown}, NEW what \in {"read", "write", "logout"}, Call(r, t, what)
      PROVE  Busy \/ Quiet
  BY <1>4 DEF Call
<1>5. ASSUME NEW r \in Requests, PresentInvalid(r) PROVE Busy \/ Quiet
  BY <1>5 DEF PresentInvalid, Locks, End, ReleaseLocks
<1>6. ASSUME NEW r \in Requests, PresentUsed(r) PROVE Busy \/ Quiet
  BY <1>6 DEF PresentUsed, Locks, Dead, Exists
<1>7. ASSUME NEW r \in Requests, NEW n \in Tokens, PresentLive(r, n) PROVE Busy \/ Quiet
  <2>1. seen' = seen /\ scan' = scan /\ answer' = answer /\ pc' = [pc EXCEPT ![r] = "commit"]
    BY <1>7 DEF PresentLive, Rotate
  <2>2. pc[r] = "lock"
    BY <1>7 DEF PresentLive, Rotate, Locks
  <2>3. work'[r].denied = {}
    BY <1>7, <2>2, LiveWork DEF PhaseInv, PhaseOf
  <2>4. q # r => work'[q] = work[q]
    <3> HIDE DEF TypeOK
    <3> QED
      BY <1>7, LiveOthers
  <2> QED
    BY <2>1, <2>3, <2>4
<1>8. ASSUME NEW r \in Requests, CommitRotation(r) PROVE Busy \/ Quiet
  BY <1>8 DEF CommitRotation, Install, ReleaseLocks
<1>9. ASSUME NEW r \in Requests, Respond(r) PROVE Busy \/ Quiet
  BY <1>9 DEF Respond, End, ReleaseLocks
<1>10. ASSUME NEW r \in Requests, CheckExp(r) PROVE Busy \/ Quiet
  BY <1>10 DEF CheckExp, Authentic
<1>11. ASSUME NEW r \in Requests, RejectExpired(r) PROVE Busy \/ Quiet
  BY <1>11 DEF RejectExpired, End, ReleaseLocks
<1>12. ASSUME NEW r \in Requests, RejectRevoked(r) PROVE Busy \/ Quiet
  BY <1>12 DEF RejectRevoked, End, ReleaseLocks
<1>13. ASSUME NEW r \in Requests, Serve(r) PROVE Busy \/ Quiet
  BY <1>13 DEF Serve, End, ReleaseLocks
<1>14. ASSUME NEW r \in Requests, BeginLogout(r) PROVE Busy \/ Quiet
  BY <1>14 DEF BeginLogout
<1>15. ASSUME NEW r \in Requests, StartRevoke(r) PROVE Busy \/ Quiet
  <2>1. CASE q = r
    BY <1>15, <2>1
  <2>2. CASE q # r
    BY <1>15, <2>2 DEF StartRevoke
  <2> QED
    BY <2>1, <2>2
<1>16. ASSUME NEW r \in Requests, NEW t \in Tokens, RevokeRow(r, t) PROVE Busy \/ Quiet
  <2>1. CASE q = r
    BY <1>16, <2>1
  <2>2. CASE q # r
    <3>1. work'[q] = work[q]
      BY <1>16, <2>2, RevokeWork
    <3> QED
      BY <1>16, <2>2, <3>1 DEF RevokeRow
  <2> QED
    BY <2>1, <2>2
<1>17. ASSUME NEW r \in Requests, CommitReuse(r) PROVE Busy \/ Quiet
  <2>1. CASE q = r
    BY <1>17, <2>1
  <2>2. CASE q # r
    BY <1>17, <2>2 DEF CommitReuse, End
  <2> QED
    BY <2>1, <2>2
<1>18. ASSUME NEW r \in Requests, Deny(r) PROVE Busy \/ Quiet
  <2>1. CASE q = r
    BY <1>18, <2>1
  <2>2. CASE q # r
    <3>1. work'[q] = work[q]
      <4> HIDE DEF TypeOK
      <4> QED
        BY <1>18, <2>2, DenyOthers
    <3> QED
      BY <1>18, <2>2, <3>1 DEF Deny
  <2> QED
    BY <2>1, <2>2
<1>19. ASSUME NEW r \in Requests, CommitLogout(r) PROVE Busy \/ Quiet
  <2>1. CASE q = r
    BY <1>19, <2>1
  <2>2. CASE q # r
    BY <1>19, <2>2 DEF CommitLogout, End
  <2> QED
    BY <2>1, <2>2
<1>20. CASE Tick
  BY <1>20 DEF Tick
<1>21. ASSUME NEW r \in Requests, AbortDeadlock(r) PROVE Busy \/ Quiet
  BY <1>21 DEF AbortDeadlock, End, ReleaseLocks
<1>22. ASSUME NEW r \in Requests, Crash(r) PROVE Busy \/ Quiet
  BY <1>22 DEF Crash, End, ReleaseLocks
<1>23. CASE UNCHANGED vars
  BY <1>23 DEF vars
<1> HIDE DEF TypeOK
<1> QED
  BY <1>1, <1>2, <1>3, <1>4, <1>5, <1>6, <1>7, <1>8, <1>9, <1>10, <1>11, <1>12, <1>13, <1>14,
     <1>15, <1>16, <1>17, <1>18, <1>19, <1>20, <1>21, <1>22, <1>23 DEF Next, Arrive, Step,
     AllEnded

\* Each row that revokeFamily saw is revoked, or still to be visited, or will be
\* revoked by the COMMIT.
LEMMA ReachStep ==
    ASSUME TypeOK, TableInv, PhaseInv, DrawnInv, LockInv, ReachInv, RevocationReaches, [Next]_vars
    PROVE  ReachInv' /\ RevocationReaches'
<1> DEFINE Reached(q) == \A t \in seen[q] : row[t].revoked \/ t \in scan[q] \/ t \in work[q].revoked
           Goal(q) == /\ scan'[q] \subseteq seen'[q]
                      /\ \A t \in seen'[q] : row'[t] # NoRow
                      /\ pc'[q] = "revoking" \/ work'[q].denied # {} =>
                            \A t \in seen'[q] : row'[t].revoked \/ t \in scan'[q] \/ t \in work'[q].revoked
                      /\ answer'[q] \in {"reuse", "logged_out"} => \A t \in seen'[q] : row'[t].revoked
<1>1. ASSUME NEW u \in Tokens, row[u] # NoRow
      PROVE  row'[u] # NoRow /\ (row[u].revoked => row'[u].revoked)
  BY <1>1, RowStep
<1>2. ASSUME NEW q \in Requests
      PROVE  /\ seen[q] \subseteq Tokens /\ scan[q] \subseteq seen[q]
             /\ \A t \in seen[q] : row[t] # NoRow
             /\ pc[q] = "revoking" \/ work[q].denied # {} => Reached(q)
             /\ answer[q] \in {"reuse", "logged_out"} => \A t \in seen[q] : row[t].revoked
  BY DEF TypeOK, ReachInv, RevocationReaches
<1>3. ASSUME NEW q \in Requests, answer[q] # "none" PROVE pc[q] = "ended"
  BY <1>3 DEF PhaseInv, PhaseOf
<1>4. ASSUME NEW q \in Requests PROVE Goal(q)
  <2>1. CASE StartRevoke(q)
    <3>1. /\ row' = row /\ answer' = answer /\ pc[q] = "revoke"
          /\ seen'[q] = Family(row[token[q]].family)
          /\ scan'[q] = {t \in Family(row[token[q]].family) : ~row[t].revoked}
      BY <2>1 DEF StartRevoke, tables, pairs, TypeOK
    <3>2. answer'[q] = "none"
      BY <1>3, <3>1
    <3> QED
      BY <3>1, <3>2 DEF Family
  <2>2. CASE \E t \in Tokens : RevokeRow(q, t)
    <3>1. PICK t \in Tokens : RevokeRow(q, t)
      BY <2>2
    <3>2. /\ row' = row /\ answer' = answer /\ pc[q] = "revoking" /\ seen' = seen
          /\ scan'[q] = scan[q] \ {t}
      BY <3>1 DEF RevokeRow, tables, pairs, TypeOK
    <3>3. answer'[q] = "none"
      BY <1>3, <3>2
    <3>4. work[q].revoked \subseteq work'[q].revoked /\ (row[t].revoked \/ t \in work'[q].revoked)
      BY <3>1, RevokeCollects
    <3> QED
      BY <1>2, <3>2, <3>3, <3>4
  <2>3. CASE Deny(q)
    <3>1. /\ row' = row /\ answer' = answer /\ pc[q] = "revoking" /\ seen' = seen /\ scan' = scan
      BY <2>3 DEF Deny, Revoked, tables, pairs
    <3>2. answer'[q] = "none"
      BY <1>3, <3>1
    <3>3. work'[q].revoked = work[q].revoked
      BY <2>3, DenyWork
    <3> QED
      BY <1>2, <3>1, <3>2, <3>3
  <2>4. CASE CommitReuse(q) \/ CommitLogout(q)
    <3>1. scan[q] = {} /\ Reached(q)
      <4>1. CASE CommitReuse(q)
        BY <1>2, <4>1 DEF CommitReuse, Revoked
      <4>2. CASE CommitLogout(q)
        BY <1>2, <4>2 DEF CommitLogout, PhaseInv, PhaseOf
      <4> QED
        BY <2>4, <4>1, <4>2
    <3>2. /\ seen' = seen /\ scan'[q] = {} /\ pc'[q] = "ended" /\ work'[q] = NoWork
          /\ row' = [t \in Tokens |-> IF t \in work[q].revoked THEN Written(q, t) ELSE row[t]]
      BY <2>4 DEF CommitReuse, CommitLogout, End, TypeOK
    <3>3. NoWork.denied = {}
      BY DEF NoWork
    <3>4. ASSUME NEW t \in seen[q] PROVE row'[t].revoked
      <4>1. t \in Tokens /\ row[t] # NoRow
        BY <1>2
      <4>2. CASE row[t].revoked
        BY <1>1, <4>1, <4>2
      <4>3. CASE t \in work[q].revoked
        BY <3>2, <4>1, <4>3, WrittenRow
      <4> QED
        BY <3>1, <4>2, <4>3
    <3> QED
      BY <1>1, <1>2, <3>2, <3>3, <3>4
  <2>5. CASE /\ seen'[q] = seen[q]
             /\ scan'[q] = scan[q] \/ scan'[q] = {}
             /\ pc'[q] = "revoking" => pc[q] = "revoking" /\ scan'[q] = scan[q] /\ work'[q] = work[q]
             /\ work'[q].denied # {} => work'[q] = work[q] /\ scan'[q] = scan[q]
             /\ answer'[q] \in {"reuse", "logged_out"} => answer[q] = answer'[q]
    <3>1. \A t \in seen'[q] : row'[t] # NoRow /\ (row[t].revoked => row'[t].revoked)
      BY <1>1, <1>2, <2>5
    <3> QED
      BY <1>2, <2>5, <3>1
  <2> QED
    BY <2>1, <2>2, <2>3, <2>4, <2>5, QuietStep
<1> QED
  BY <1>4 DEF ReachInv, RevocationReaches

\* A request that committed a rotation goes on to its answer, and keeps its token.
LEMMA RotatedStep ==
    ASSUME TypeOK, PhaseInv, [Next]_vars, NEW q \in Requests, Rotated(q)
    PROVE  Rotated(q)' /\ token'[q] = token[q]
<1> USE DEF req
<1> DEFINE Goal == Rotated(q)' /\ token'[q] = token[q]
<1> SUFFICES Goal
  OBVIOUS
<1> USE DEF TypeOK, PhaseInv, PhaseOf, Rotated
<1>1. ASSUME NEW t \in Tokens, NEW read \in {"member", "viewer"}, Login(t, read) PROVE Goal
  BY <1>1 DEF Login
<1>2. CASE Demote
  BY <1>2 DEF Demote
<1>3. ASSUME NEW r \in Requests, NEW t \in Tokens \cup {Unknown}, Refresh(r, t) PROVE Goal
  BY <1>3 DEF Refresh
<1>4. ASSUME NEW r \in Requests, NEW t \in Tokens \cup {Unknown}, NEW what \in {"read", "write", "logout"}, Call(r, t, what)
      PROVE  Goal
  BY <1>4 DEF Call
<1>5. ASSUME NEW r \in Requests, PresentInvalid(r) PROVE Goal
  BY <1>5 DEF PresentInvalid, Locks, End, ReleaseLocks
<1>6. ASSUME NEW r \in Requests, PresentUsed(r) PROVE Goal
  BY <1>6 DEF PresentUsed, Locks, Dead, Exists
<1>7. ASSUME NEW r \in Requests, NEW n \in Tokens, PresentLive(r, n) PROVE Goal
  BY <1>7 DEF PresentLive, Rotate, Locks, Dead, Exists
<1>8. ASSUME NEW r \in Requests, CommitRotation(r) PROVE Goal
  BY <1>8 DEF CommitRotation, Install, ReleaseLocks
<1>9. ASSUME NEW r \in Requests, Respond(r) PROVE Goal
  BY <1>9 DEF Respond, End, ReleaseLocks
<1>10. ASSUME NEW r \in Requests, CheckExp(r) PROVE Goal
  BY <1>10 DEF CheckExp, Authentic
<1>11. ASSUME NEW r \in Requests, RejectExpired(r) PROVE Goal
  BY <1>11 DEF RejectExpired, End, ReleaseLocks
<1>12. ASSUME NEW r \in Requests, RejectRevoked(r) PROVE Goal
  BY <1>12 DEF RejectRevoked, End, ReleaseLocks
<1>13. ASSUME NEW r \in Requests, Serve(r) PROVE Goal
  BY <1>13 DEF Serve, End, ReleaseLocks
<1>14. ASSUME NEW r \in Requests, BeginLogout(r) PROVE Goal
  BY <1>14 DEF BeginLogout
<1>15. ASSUME NEW r \in Requests, StartRevoke(r) PROVE Goal
  BY <1>15 DEF StartRevoke, Family
<1>16. ASSUME NEW r \in Requests, NEW t \in Tokens, RevokeRow(r, t) PROVE Goal
  BY <1>16 DEF RevokeRow
<1>17. ASSUME NEW r \in Requests, CommitReuse(r) PROVE Goal
  BY <1>17 DEF CommitReuse, Revoked, End, ReleaseLocks
<1>18. ASSUME NEW r \in Requests, Deny(r) PROVE Goal
  BY <1>18 DEF Deny, Revoked
<1>19. ASSUME NEW r \in Requests, CommitLogout(r) PROVE Goal
  BY <1>19 DEF CommitLogout, End, ReleaseLocks
<1>20. CASE Tick
  BY <1>20 DEF Tick
<1>21. ASSUME NEW r \in Requests, AbortDeadlock(r) PROVE Goal
  <2>1. BlockedBy(r) # {}
    BY <1>21 DEF AbortDeadlock, InDeadlock
  <2>2. pc[r] \in {"lock", "revoking"}
    <3> SUFFICES ASSUME pc[r] # "lock", pc[r] # "revoking" PROVE BlockedBy(r) = {}
      BY <2>1
    <3> QED
      BY DEF BlockedBy, Revoked
  <2>3. r # q
    BY <2>2
  <2> QED
    BY <1>21, <2>3 DEF AbortDeadlock, End
<1>22. ASSUME NEW r \in Requests, Crash(r) PROVE Goal
  BY <1>22 DEF Crash, End, ReleaseLocks
<1>23. CASE UNCHANGED vars
  BY <1>23 DEF vars
<1> HIDE DEF TypeOK, PhaseInv, PhaseOf, Rotated
<1> QED
  BY <1>1, <1>2, <1>3, <1>4, <1>5, <1>6, <1>7, <1>8, <1>9, <1>10, <1>11, <1>12, <1>13, <1>14,
     <1>15, <1>16, <1>17, <1>18, <1>19, <1>20, <1>21, <1>22, <1>23 DEF Next, Arrive, Step,
     AllEnded

\* A request has rotated its token from the COMMIT of the rotation on.
LEMMA NewRotation ==
    ASSUME TypeOK, PhaseInv, [Next]_vars, NEW q \in Requests, Rotated(q)'
    PROVE  token'[q] = token[q] /\ (Rotated(q) \/ CommitRotation(q))
<1> USE DEF req
<1> DEFINE Goal == token'[q] = token[q] /\ (Rotated(q) \/ CommitRotation(q))
<1> SUFFICES Goal
  OBVIOUS
<1> USE DEF TypeOK, PhaseInv, PhaseOf, Rotated
<1>1. ASSUME NEW t \in Tokens, NEW read \in {"member", "viewer"}, Login(t, read) PROVE Goal
  BY <1>1 DEF Login
<1>2. CASE Demote
  BY <1>2 DEF Demote
<1>3. ASSUME NEW r \in Requests, NEW t \in Tokens \cup {Unknown}, Refresh(r, t) PROVE Goal
  BY <1>3 DEF Refresh
<1>4. ASSUME NEW r \in Requests, NEW t \in Tokens \cup {Unknown}, NEW what \in {"read", "write", "logout"}, Call(r, t, what)
      PROVE  Goal
  BY <1>4 DEF Call
<1>5. ASSUME NEW r \in Requests, PresentInvalid(r) PROVE Goal
  BY <1>5 DEF PresentInvalid, Locks, End, ReleaseLocks
<1>6. ASSUME NEW r \in Requests, PresentUsed(r) PROVE Goal
  BY <1>6 DEF PresentUsed, Locks, Dead, Exists
<1>7. ASSUME NEW r \in Requests, NEW n \in Tokens, PresentLive(r, n) PROVE Goal
  BY <1>7 DEF PresentLive, Rotate, Locks, Dead, Exists
<1>8. ASSUME NEW r \in Requests, CommitRotation(r) PROVE Goal
  <2>1. token' = token /\ kind' = kind /\ answer' = answer /\ pc' = [pc EXCEPT ![r] = "respond"]
    BY <1>8 DEF CommitRotation, Install
  <2>2. CASE q = r
    BY <1>8, <2>1, <2>2
  <2>3. CASE q # r
    BY <2>1, <2>3
  <2> QED
    BY <2>2, <2>3
<1>9. ASSUME NEW r \in Requests, Respond(r) PROVE Goal
  BY <1>9 DEF Respond, End, ReleaseLocks
<1>10. ASSUME NEW r \in Requests, CheckExp(r) PROVE Goal
  BY <1>10 DEF CheckExp, Authentic
<1>11. ASSUME NEW r \in Requests, RejectExpired(r) PROVE Goal
  BY <1>11 DEF RejectExpired, End, ReleaseLocks
<1>12. ASSUME NEW r \in Requests, RejectRevoked(r) PROVE Goal
  BY <1>12 DEF RejectRevoked, End, ReleaseLocks
<1>13. ASSUME NEW r \in Requests, Serve(r) PROVE Goal
  BY <1>13 DEF Serve, End, ReleaseLocks
<1>14. ASSUME NEW r \in Requests, BeginLogout(r) PROVE Goal
  BY <1>14 DEF BeginLogout
<1>15. ASSUME NEW r \in Requests, StartRevoke(r) PROVE Goal
  BY <1>15 DEF StartRevoke, Family
<1>16. ASSUME NEW r \in Requests, NEW t \in Tokens, RevokeRow(r, t) PROVE Goal
  BY <1>16 DEF RevokeRow
<1>17. ASSUME NEW r \in Requests, CommitReuse(r) PROVE Goal
  BY <1>17 DEF CommitReuse, Revoked, End, ReleaseLocks
<1>18. ASSUME NEW r \in Requests, Deny(r) PROVE Goal
  BY <1>18 DEF Deny, Revoked
<1>19. ASSUME NEW r \in Requests, CommitLogout(r) PROVE Goal
  BY <1>19 DEF CommitLogout, End, ReleaseLocks
<1>20. CASE Tick
  BY <1>20 DEF Tick
<1>21. ASSUME NEW r \in Requests, AbortDeadlock(r) PROVE Goal
  BY <1>21 DEF AbortDeadlock, End, ReleaseLocks
<1>22. ASSUME NEW r \in Requests, Crash(r) PROVE Goal
  BY <1>22 DEF Crash, End, ReleaseLocks
<1>23. CASE UNCHANGED vars
  BY <1>23 DEF vars
<1> HIDE DEF TypeOK, PhaseInv, PhaseOf, Rotated
<1> QED
  BY <1>1, <1>2, <1>3, <1>4, <1>5, <1>6, <1>7, <1>8, <1>9, <1>10, <1>11, <1>12, <1>13, <1>14,
     <1>15, <1>16, <1>17, <1>18, <1>19, <1>20, <1>21, <1>22, <1>23 DEF Next, Arrive, Step,
     AllEnded

\* A row's used mark is set by the COMMIT of a rotation.
LEMMA MarkStep ==
    ASSUME TypeOK, TableInv, PhaseInv, DrawnInv, LockInv, [Next]_vars,
           NEW u \in Tokens, row[u] # NoRow, ~row[u].used, row'[u].used
    PROVE  \E r \in Requests : token'[r] = u /\ Rotated(r)'
<1> DEFINE Goal == \E r \in Requests : token'[r] = u /\ Rotated(r)'
<1> USE DEF tables, pairs
<1> SUFFICES Goal
  OBVIOUS
<1>0. ASSUME NEW r \in Requests, row'[u] = Written(r, u) PROVE work[r].issued # {}
  <2>1. u \in work[r].used
    BY <1>0, WrittenRow
  <2> QED
    BY <2>1 DEF PhaseInv, PhaseOf
<1>1. ASSUME NEW t \in Tokens, NEW read \in {"member", "viewer"}, Login(t, read) PROVE Goal
  BY <1>1 DEF Login, Fresh, Drawn, TypeOK
<1>2. CASE Demote
  BY <1>2 DEF Demote
<1>3. ASSUME NEW r \in Requests, NEW t \in Tokens \cup {Unknown}, Refresh(r, t) PROVE Goal
  BY <1>3 DEF Refresh
<1>4. ASSUME NEW r \in Requests, NEW t \in Tokens \cup {Unknown}, NEW what \in {"read", "write", "logout"}, Call(r, t, what)
      PROVE  Goal
  BY <1>4 DEF Call
<1>5. ASSUME NEW r \in Requests, PresentInvalid(r) PROVE Goal
  BY <1>5 DEF PresentInvalid, Locks, End, ReleaseLocks
<1>6. ASSUME NEW r \in Requests, PresentUsed(r) PROVE Goal
  BY <1>6 DEF PresentUsed, Locks, Dead, Exists
<1>7. ASSUME NEW r \in Requests, NEW n \in Tokens, PresentLive(r, n) PROVE Goal
  BY <1>7 DEF PresentLive, Rotate, Locks, Dead, Exists
<1>8. ASSUME NEW r \in Requests, CommitRotation(r) PROVE Goal
  <2>1. PICK n \in Tokens :
           /\ work[r].issued = {n} /\ row[n] = NoRow
           /\ row' = [row EXCEPT ![n] = Successor(r), ![token[r]] = Written(r, token[r])]
    BY <1>8, RotationRows
  <2>2. u = token[r]
    BY <2>1 DEF TypeOK
  <2>3. token' = token /\ Rotated(r)'
    BY <1>8 DEF CommitRotation, Install, TypeOK, req, Rotated, PhaseInv, PhaseOf
  <2> QED
    BY <2>2, <2>3
<1>9. ASSUME NEW r \in Requests, Respond(r) PROVE Goal
  BY <1>9 DEF Respond, End, ReleaseLocks
<1>10. ASSUME NEW r \in Requests, CheckExp(r) PROVE Goal
  BY <1>10 DEF CheckExp, Authentic
<1>11. ASSUME NEW r \in Requests, RejectExpired(r) PROVE Goal
  BY <1>11 DEF RejectExpired, End, ReleaseLocks
<1>12. ASSUME NEW r \in Requests, RejectRevoked(r) PROVE Goal
  BY <1>12 DEF RejectRevoked, End, ReleaseLocks
<1>13. ASSUME NEW r \in Requests, Serve(r) PROVE Goal
  BY <1>13 DEF Serve, End, ReleaseLocks
<1>14. ASSUME NEW r \in Requests, BeginLogout(r) PROVE Goal
  BY <1>14 DEF BeginLogout
<1>15. ASSUME NEW r \in Requests, StartRevoke(r) PROVE Goal
  BY <1>15 DEF StartRevoke, Family
<1>16. ASSUME NEW r \in Requests, NEW t \in Tokens, RevokeRow(r, t) PROVE Goal
  BY <1>16 DEF RevokeRow
<1>17. ASSUME NEW r \in Requests, CommitReuse(r) PROVE Goal
  <2>1. row'[u] = row[u] \/ row'[u] = Written(r, u)
    BY <1>17 DEF CommitReuse
  <2>2. work[r].issued = {}
    BY <1>17 DEF CommitReuse, Revoked, PhaseInv, PhaseOf
  <2> QED
    BY <1>0, <2>1, <2>2
<1>18. ASSUME NEW r \in Requests, Deny(r) PROVE Goal
  BY <1>18 DEF Deny, Revoked
<1>19. ASSUME NEW r \in Requests, CommitLogout(r) PROVE Goal
  <2>1. row'[u] = row[u] \/ row'[u] = Written(r, u)
    BY <1>19 DEF CommitLogout
  <2>2. work[r].issued = {}
    BY <1>19 DEF CommitLogout, PhaseInv, PhaseOf
  <2> QED
    BY <1>0, <2>1, <2>2
<1>20. CASE Tick
  BY <1>20 DEF Tick
<1>21. ASSUME NEW r \in Requests, AbortDeadlock(r) PROVE Goal
  BY <1>21 DEF AbortDeadlock, End, ReleaseLocks
<1>22. ASSUME NEW r \in Requests, Crash(r) PROVE Goal
  BY <1>22 DEF Crash, End, ReleaseLocks
<1>23. CASE UNCHANGED vars
  BY <1>23 DEF vars
<1> QED
  BY <1>1, <1>2, <1>3, <1>4, <1>5, <1>6, <1>7, <1>8, <1>9, <1>10, <1>11, <1>12, <1>13, <1>14,
     <1>15, <1>16, <1>17, <1>18, <1>19, <1>20, <1>21, <1>22, <1>23 DEF Next, Arrive, Step,
     AllEnded

\* The request that is accused is one that found its token used.
LEMMA AccusedStep ==
    ASSUME TypeOK, PhaseInv, [Next]_vars, NEW q \in Requests, Accused(q)'
    PROVE  /\ token'[q] = token[q]
           /\ Accused(q) \/ PresentUsed(q)
<1> DEFINE Goal == token'[q] = token[q] /\ (Accused(q) \/ PresentUsed(q))
<1> USE DEF req
<1> SUFFICES Goal
  OBVIOUS
<1> USE DEF TypeOK, PhaseInv, PhaseOf, Accused
<1>1. ASSUME NEW t \in Tokens, NEW read \in {"member", "viewer"}, Login(t, read) PROVE Goal
  BY <1>1 DEF Login
<1>2. CASE Demote
  BY <1>2 DEF Demote
<1>3. ASSUME NEW r \in Requests, NEW t \in Tokens \cup {Unknown}, Refresh(r, t) PROVE Goal
  BY <1>3 DEF Refresh
<1>4. ASSUME NEW r \in Requests, NEW t \in Tokens \cup {Unknown}, NEW what \in {"read", "write", "logout"}, Call(r, t, what)
      PROVE  Goal
  BY <1>4 DEF Call
<1>5. ASSUME NEW r \in Requests, PresentInvalid(r) PROVE Goal
  BY <1>5 DEF PresentInvalid, Locks, End, ReleaseLocks
<1>6. ASSUME NEW r \in Requests, PresentUsed(r) PROVE Goal
  <2>1. CASE q = r
    BY <1>6, <2>1 DEF PresentUsed
  <2>2. CASE q # r
    BY <1>6, <2>2 DEF PresentUsed
  <2> QED
    BY <2>1, <2>2
<1>7. ASSUME NEW r \in Requests, NEW n \in Tokens, PresentLive(r, n) PROVE Goal
  BY <1>7 DEF PresentLive, Rotate, Locks, Dead, Exists
<1>8. ASSUME NEW r \in Requests, CommitRotation(r) PROVE Goal
  BY <1>8 DEF CommitRotation, Install, ReleaseLocks
<1>9. ASSUME NEW r \in Requests, Respond(r) PROVE Goal
  BY <1>9 DEF Respond, End, ReleaseLocks
<1>10. ASSUME NEW r \in Requests, CheckExp(r) PROVE Goal
  BY <1>10 DEF CheckExp, Authentic
<1>11. ASSUME NEW r \in Requests, RejectExpired(r) PROVE Goal
  BY <1>11 DEF RejectExpired, End, ReleaseLocks
<1>12. ASSUME NEW r \in Requests, RejectRevoked(r) PROVE Goal
  BY <1>12 DEF RejectRevoked, End, ReleaseLocks
<1>13. ASSUME NEW r \in Requests, Serve(r) PROVE Goal
  BY <1>13 DEF Serve, End, ReleaseLocks
<1>14. ASSUME NEW r \in Requests, BeginLogout(r) PROVE Goal
  BY <1>14 DEF BeginLogout
<1>15. ASSUME NEW r \in Requests, StartRevoke(r) PROVE Goal
  BY <1>15 DEF StartRevoke, Family
<1>16. ASSUME NEW r \in Requests, NEW t \in Tokens, RevokeRow(r, t) PROVE Goal
  BY <1>16 DEF RevokeRow
<1>17. ASSUME NEW r \in Requests, CommitReuse(r) PROVE Goal
  BY <1>17 DEF CommitReuse, Revoked, End, ReleaseLocks
<1>18. ASSUME NEW r \in Requests, Deny(r) PROVE Goal
  BY <1>18 DEF Deny, Revoked
<1>19. ASSUME NEW r \in Requests, CommitLogout(r) PROVE Goal
  BY <1>19 DEF CommitLogout, End, ReleaseLocks
<1>20. CASE Tick
  BY <1>20 DEF Tick
<1>21. ASSUME NEW r \in Requests, AbortDeadlock(r) PROVE Goal
  BY <1>21 DEF AbortDeadlock, End, ReleaseLocks
<1>22. ASSUME NEW r \in Requests, Crash(r) PROVE Goal
  BY <1>22 DEF Crash, End, ReleaseLocks
<1>23. CASE UNCHANGED vars
  BY <1>23 DEF vars
<1> HIDE DEF TypeOK, PhaseInv, PhaseOf, Accused
<1> QED
  BY <1>1, <1>2, <1>3, <1>4, <1>5, <1>6, <1>7, <1>8, <1>9, <1>10, <1>11, <1>12, <1>13, <1>14,
     <1>15, <1>16, <1>17, <1>18, <1>19, <1>20, <1>21, <1>22, <1>23 DEF Next, Arrive, Step,
     AllEnded

\* Whoever is accused of a replay presented a token that some request rotated.
LEMMA UsedStep ==
    ASSUME TypeOK, TableInv, PhaseInv, DrawnInv, LockInv, UsedInv, [Next]_vars
    PROVE  UsedInv'
<1>1. ASSUME NEW u \in Tokens, row'[u] # NoRow, row'[u].used
      PROVE  \E q \in Requests : token'[q] = u /\ Rotated(q)'
  <2>1. row[u] # NoRow
    BY <1>1, NewRow
  <2>2. CASE row[u].used
    <3>1. PICK q \in Requests : token[q] = u /\ Rotated(q)
      BY <2>1, <2>2 DEF UsedInv
    <3> QED
      BY <3>1, RotatedStep
  <2>3. CASE ~row[u].used
    BY <1>1, <2>1, <2>3, MarkStep
  <2> QED
    BY <2>2, <2>3
<1>2. ASSUME NEW q \in Requests, Accused(q)' PROVE row'[token'[q]].used
  <2>1. token'[q] = token[q] /\ (Accused(q) \/ PresentUsed(q))
    BY <1>2, AccusedStep
  <2>2. row[token[q]].used
    BY <2>1 DEF UsedInv, PresentUsed
  <2>3. token[q] \in Tokens /\ row[token[q]] # NoRow
    <3>1. CASE PresentUsed(q)
      BY <3>1 DEF PresentUsed, Locks, Exists
    <3>2. CASE Accused(q)
      <4>1. token[q] \in delivered
        BY <3>2 DEF Accused, PhaseInv, PhaseOf
      <4> QED
        BY <4>1 DEF TableInv, TypeOK
    <3> QED
      BY <2>1, <3>1, <3>2
  <2> QED
    BY <2>1, <2>2, <2>3, RowStep
<1>3. ASSUME NEW q \in Requests, Rotated(q)' PROVE row'[token'[q]].used
  <2>1. token'[q] = token[q] /\ (Rotated(q) \/ CommitRotation(q))
    BY <1>3, NewRotation
  <2>2. CASE CommitRotation(q)
    <3>1. PICK n \in Tokens :
             /\ work[q].issued = {n} /\ row[n] = NoRow
             /\ token[q] \in Tokens /\ row[token[q]] # NoRow
             /\ row' = [row EXCEPT ![n] = Successor(q), ![token[q]] = Written(q, token[q])]
      BY <2>2, RotationRows
    <3>2. row'[token[q]] = Written(q, token[q])
      BY <3>1 DEF TypeOK
    <3>3. token[q] \in work[q].used
      BY <3>1 DEF PhaseInv, PhaseOf
    <3>4. Written(q, token[q]).used
      BY <3>1, <3>3, WrittenRow
    <3> QED
      BY <2>1, <3>2, <3>4
  <2>3. CASE Rotated(q)
    <3>1. token[q] \in delivered
      BY <2>3 DEF Rotated, PhaseInv, PhaseOf
    <3>2. token[q] \in Tokens /\ row[token[q]] # NoRow /\ row[token[q]].used
      BY <2>3, <3>1 DEF TableInv, TypeOK, UsedInv
    <3> QED
      BY <2>1, <3>2, RowStep
  <2> QED
    BY <2>1, <2>2, <2>3
<1>4. ASSUME NEW p \in Requests, NEW q \in Requests, Rotated(p)', Rotated(q)', token'[p] = token'[q],
             CommitRotation(p)
      PROVE  p = q
  <2>1. ~row[token[p]].used
    BY <1>4 DEF CommitRotation, Install, LockInv
  <2>2. token[p] = token[q] /\ (Rotated(q) \/ CommitRotation(q))
    BY <1>4, NewRotation
  <2>3. ~Rotated(q)
    BY <2>1, <2>2 DEF UsedInv
  <2>4. lock[token[p]] = p /\ lock[token[q]] = q
    BY <1>4, <2>2, <2>3 DEF CommitRotation, Install, LockInv
  <2> QED
    BY <2>2, <2>4
<1>5. ASSUME NEW p \in Requests, NEW q \in Requests, Rotated(p)', Rotated(q)', token'[p] = token'[q]
      PROVE  p = q
  <2>1. token[p] = token[q] /\ (Rotated(q) \/ CommitRotation(q)) /\ (Rotated(p) \/ CommitRotation(p))
    BY <1>5, NewRotation
  <2>2. CASE CommitRotation(p) \/ CommitRotation(q)
    BY <1>4, <1>5, <2>2
  <2>3. CASE Rotated(p) /\ Rotated(q)
    BY <2>1, <2>3 DEF UsedInv
  <2> QED
    BY <2>1, <2>2, <2>3
<1> QED
  BY <1>1, <1>2, <1>3, <1>5 DEF UsedInv

\* A pair that was asked for by a viewer says so.
LEMMA ClaimStep ==
    ASSUME TypeOK, RoleInv, [Next]_vars, NEW u \in Tokens, asked'[u] = "viewer"
    PROVE  claim'[u] = "viewer"
<1> USE DEF tables, pairs
<1> USE DEF RoleInv
<1>1. ASSUME NEW t \in Tokens, NEW read \in {"member", "viewer"}, Login(t, read)
      PROVE  claim'[u] = "viewer"
  BY <1>1 DEF Login, TypeOK
<1>2. CASE Demote
  BY <1>2 DEF Demote
<1>3. ASSUME NEW r \in Requests, NEW t \in Tokens \cup {Unknown}, Refresh(r, t)
      PROVE  claim'[u] = "viewer"
  BY <1>3 DEF Refresh
<1>4. ASSUME NEW r \in Requests, NEW t \in Tokens \cup {Unknown}, NEW what \in {"read", "write", "logout"}, Call(r, t, what)
      PROVE  claim'[u] = "viewer"
  BY <1>4 DEF Call
<1>5. ASSUME NEW r \in Requests, PresentInvalid(r) PROVE claim'[u] = "viewer"
  BY <1>5 DEF PresentInvalid, Locks, End, ReleaseLocks
<1>6. ASSUME NEW r \in Requests, PresentUsed(r) PROVE claim'[u] = "viewer"
  BY <1>6 DEF PresentUsed, Locks, Dead, Exists
<1>7. ASSUME NEW r \in Requests, NEW n \in Tokens, PresentLive(r, n) PROVE claim'[u] = "viewer"
  BY <1>7 DEF PresentLive, Rotate, Locks, Dead, Exists
<1>8. ASSUME NEW r \in Requests, CommitRotation(r) PROVE claim'[u] = "viewer"
  BY <1>8 DEF CommitRotation, Install
<1>9. ASSUME NEW r \in Requests, Respond(r) PROVE claim'[u] = "viewer"
  BY <1>9 DEF Respond, End, ReleaseLocks
<1>10. ASSUME NEW r \in Requests, CheckExp(r) PROVE claim'[u] = "viewer"
  BY <1>10 DEF CheckExp, Authentic
<1>11. ASSUME NEW r \in Requests, RejectExpired(r) PROVE claim'[u] = "viewer"
  BY <1>11 DEF RejectExpired, End, ReleaseLocks
<1>12. ASSUME NEW r \in Requests, RejectRevoked(r) PROVE claim'[u] = "viewer"
  BY <1>12 DEF RejectRevoked, End, ReleaseLocks
<1>13. ASSUME NEW r \in Requests, Serve(r) PROVE claim'[u] = "viewer"
  BY <1>13 DEF Serve, End, ReleaseLocks
<1>14. ASSUME NEW r \in Requests, BeginLogout(r) PROVE claim'[u] = "viewer"
  BY <1>14 DEF BeginLogout
<1>15. ASSUME NEW r \in Requests, StartRevoke(r) PROVE claim'[u] = "viewer"
  BY <1>15 DEF StartRevoke, Family
<1>16. ASSUME NEW r \in Requests, NEW t \in Tokens, RevokeRow(r, t) PROVE claim'[u] = "viewer"
  BY <1>16 DEF RevokeRow
<1>17. ASSUME NEW r \in Requests, CommitReuse(r) PROVE claim'[u] = "viewer"
  BY <1>17 DEF CommitReuse, Revoked, End, ReleaseLocks
<1>18. ASSUME NEW r \in Requests, Deny(r) PROVE claim'[u] = "viewer"
  BY <1>18 DEF Deny, Revoked
<1>19. ASSUME NEW r \in Requests, CommitLogout(r) PROVE claim'[u] = "viewer"
  BY <1>19 DEF CommitLogout, End, ReleaseLocks
<1>20. CASE Tick
  BY <1>20 DEF Tick
<1>21. ASSUME NEW r \in Requests, AbortDeadlock(r) PROVE claim'[u] = "viewer"
  BY <1>21 DEF AbortDeadlock, End, ReleaseLocks
<1>22. ASSUME NEW r \in Requests, Crash(r) PROVE claim'[u] = "viewer"
  BY <1>22 DEF Crash, End, ReleaseLocks
<1>23. CASE UNCHANGED vars
  BY <1>23 DEF vars
<1> QED
  BY <1>1, <1>2, <1>3, <1>4, <1>5, <1>6, <1>7, <1>8, <1>9, <1>10, <1>11, <1>12, <1>13, <1>14,
     <1>15, <1>16, <1>17, <1>18, <1>19, <1>20, <1>21, <1>22, <1>23 DEF Next, Arrive, Step,
     AllEnded

\* The role of the moment a request arrives is the user's, or was.
LEMMA BeganStep ==
    ASSUME TypeOK, RoleInv, [Next]_vars, NEW q \in Requests, began'[q] = "viewer"
    PROVE  role' = "viewer"
<1> USE DEF tables, req
<1> USE DEF RoleInv, TypeOK, Roles
<1>1. ASSUME NEW t \in Tokens, NEW read \in {"member", "viewer"}, Login(t, read)
      PROVE  role' = "viewer"
  BY <1>1 DEF Login
<1>2. CASE Demote
  BY <1>2 DEF Demote
<1>3. ASSUME NEW r \in Requests, NEW t \in Tokens \cup {Unknown}, Refresh(r, t)
      PROVE  role' = "viewer"
  BY <1>3 DEF Refresh
<1>4. ASSUME NEW r \in Requests, NEW t \in Tokens \cup {Unknown}, NEW what \in {"read", "write", "logout"}, Call(r, t, what)
      PROVE  role' = "viewer"
  BY <1>4 DEF Call
<1>5. ASSUME NEW r \in Requests, PresentInvalid(r) PROVE role' = "viewer"
  BY <1>5 DEF PresentInvalid, Locks, End, ReleaseLocks
<1>6. ASSUME NEW r \in Requests, PresentUsed(r) PROVE role' = "viewer"
  BY <1>6 DEF PresentUsed, Locks, Dead, Exists
<1>7. ASSUME NEW r \in Requests, NEW n \in Tokens, PresentLive(r, n) PROVE role' = "viewer"
  BY <1>7 DEF PresentLive, Rotate, Locks, Dead, Exists
<1>8. ASSUME NEW r \in Requests, CommitRotation(r) PROVE role' = "viewer"
  BY <1>8 DEF CommitRotation, Install, ReleaseLocks
<1>9. ASSUME NEW r \in Requests, Respond(r) PROVE role' = "viewer"
  BY <1>9 DEF Respond, End, ReleaseLocks
<1>10. ASSUME NEW r \in Requests, CheckExp(r) PROVE role' = "viewer"
  BY <1>10 DEF CheckExp, Authentic
<1>11. ASSUME NEW r \in Requests, RejectExpired(r) PROVE role' = "viewer"
  BY <1>11 DEF RejectExpired, End, ReleaseLocks
<1>12. ASSUME NEW r \in Requests, RejectRevoked(r) PROVE role' = "viewer"
  BY <1>12 DEF RejectRevoked, End, ReleaseLocks
<1>13. ASSUME NEW r \in Requests, Serve(r) PROVE role' = "viewer"
  BY <1>13 DEF Serve, End, ReleaseLocks
<1>14. ASSUME NEW r \in Requests, BeginLogout(r) PROVE role' = "viewer"
  BY <1>14 DEF BeginLogout
<1>15. ASSUME NEW r \in Requests, StartRevoke(r) PROVE role' = "viewer"
  BY <1>15 DEF StartRevoke, Family
<1>16. ASSUME NEW r \in Requests, NEW t \in Tokens, RevokeRow(r, t) PROVE role' = "viewer"
  BY <1>16 DEF RevokeRow
<1>17. ASSUME NEW r \in Requests, CommitReuse(r) PROVE role' = "viewer"
  BY <1>17 DEF CommitReuse, Revoked, End, ReleaseLocks
<1>18. ASSUME NEW r \in Requests, Deny(r) PROVE role' = "viewer"
  BY <1>18 DEF Deny, Revoked
<1>19. ASSUME NEW r \in Requests, CommitLogout(r) PROVE role' = "viewer"
  BY <1>19 DEF CommitLogout, End, ReleaseLocks
<1>20. CASE Tick
  BY <1>20 DEF Tick
<1>21. ASSUME NEW r \in Requests, AbortDeadlock(r) PROVE role' = "viewer"
  BY <1>21 DEF AbortDeadlock, End, ReleaseLocks
<1>22. ASSUME NEW r \in Requests, Crash(r) PROVE role' = "viewer"
  BY <1>22 DEF Crash, End, ReleaseLocks
<1>23. CASE UNCHANGED vars
  BY <1>23 DEF vars
<1> HIDE DEF RoleInv, TypeOK, Roles
<1> QED
  BY <1>1, <1>2, <1>3, <1>4, <1>5, <1>6, <1>7, <1>8, <1>9, <1>10, <1>11, <1>12, <1>13, <1>14,
     <1>15, <1>16, <1>17, <1>18, <1>19, <1>20, <1>21, <1>22, <1>23 DEF Next, Arrive, Step,
     AllEnded

\* A write is served with a token that says "member".
LEMMA ServedStep ==
    ASSUME TypeOK, PhaseInv, [Next]_vars, NEW q \in Requests,
           kind'[q] = "write", answer'[q] = "served"
    PROVE  /\ token'[q] = token[q] /\ kind[q] = "write"
           /\ answer[q] = "served" \/ (pc[q] = "denylist" /\ claim[token[q]] = "member")
<1> DEFINE Goal == /\ token'[q] = token[q] /\ kind[q] = "write"
                   /\ answer[q] = "served" \/ (pc[q] = "denylist" /\ claim[token[q]] = "member")
<1> USE DEF req
<1> SUFFICES Goal
  OBVIOUS
<1> USE DEF TypeOK, PhaseInv, PhaseOf, Accused
<1>1. ASSUME NEW t \in Tokens, NEW read \in {"member", "viewer"}, Login(t, read) PROVE Goal
  BY <1>1 DEF Login
<1>2. CASE Demote
  BY <1>2 DEF Demote
<1>3. ASSUME NEW r \in Requests, NEW t \in Tokens \cup {Unknown}, Refresh(r, t) PROVE Goal
  BY <1>3 DEF Refresh
<1>4. ASSUME NEW r \in Requests, NEW t \in Tokens \cup {Unknown}, NEW what \in {"read", "write", "logout"}, Call(r, t, what)
      PROVE  Goal
  BY <1>4 DEF Call
<1>5. ASSUME NEW r \in Requests, PresentInvalid(r) PROVE Goal
  BY <1>5 DEF PresentInvalid, Locks, End, ReleaseLocks
<1>6. ASSUME NEW r \in Requests, PresentUsed(r) PROVE Goal
  BY <1>6 DEF PresentUsed, Locks, Dead, Exists
<1>7. ASSUME NEW r \in Requests, NEW n \in Tokens, PresentLive(r, n) PROVE Goal
  BY <1>7 DEF PresentLive, Rotate, Locks, Dead, Exists
<1>8. ASSUME NEW r \in Requests, CommitRotation(r) PROVE Goal
  BY <1>8 DEF CommitRotation, Install, ReleaseLocks
<1>9. ASSUME NEW r \in Requests, Respond(r) PROVE Goal
  BY <1>9 DEF Respond, End, ReleaseLocks
<1>10. ASSUME NEW r \in Requests, CheckExp(r) PROVE Goal
  BY <1>10 DEF CheckExp, Authentic
<1>11. ASSUME NEW r \in Requests, RejectExpired(r) PROVE Goal
  BY <1>11 DEF RejectExpired, End, ReleaseLocks
<1>12. ASSUME NEW r \in Requests, RejectRevoked(r) PROVE Goal
  BY <1>12 DEF RejectRevoked, End, ReleaseLocks
<1>13. ASSUME NEW r \in Requests, Serve(r) PROVE Goal
  BY <1>13 DEF Serve, End, ReleaseLocks, MayDo
<1>14. ASSUME NEW r \in Requests, BeginLogout(r) PROVE Goal
  BY <1>14 DEF BeginLogout
<1>15. ASSUME NEW r \in Requests, StartRevoke(r) PROVE Goal
  BY <1>15 DEF StartRevoke, Family
<1>16. ASSUME NEW r \in Requests, NEW t \in Tokens, RevokeRow(r, t) PROVE Goal
  BY <1>16 DEF RevokeRow
<1>17. ASSUME NEW r \in Requests, CommitReuse(r) PROVE Goal
  BY <1>17 DEF CommitReuse, Revoked, End, ReleaseLocks
<1>18. ASSUME NEW r \in Requests, Deny(r) PROVE Goal
  BY <1>18 DEF Deny, Revoked
<1>19. ASSUME NEW r \in Requests, CommitLogout(r) PROVE Goal
  BY <1>19 DEF CommitLogout, End, ReleaseLocks
<1>20. CASE Tick
  BY <1>20 DEF Tick
<1>21. ASSUME NEW r \in Requests, AbortDeadlock(r) PROVE Goal
  BY <1>21 DEF AbortDeadlock, End, ReleaseLocks
<1>22. ASSUME NEW r \in Requests, Crash(r) PROVE Goal
  BY <1>22 DEF Crash, End, ReleaseLocks
<1>23. CASE UNCHANGED vars
  BY <1>23 DEF vars
<1> HIDE DEF TypeOK, PhaseInv, PhaseOf, Accused
<1> QED
  BY <1>1, <1>2, <1>3, <1>4, <1>5, <1>6, <1>7, <1>8, <1>9, <1>10, <1>11, <1>12, <1>13, <1>14,
     <1>15, <1>16, <1>17, <1>18, <1>19, <1>20, <1>21, <1>22, <1>23 DEF Next, Arrive, Step,
     AllEnded

\* What a request is, is fixed when it arrives.
LEMMA BeganFixed ==
    ASSUME TypeOK, [Next]_vars, NEW q \in Requests, pc[q] # "new"
    PROVE  began'[q] = began[q]
<1> USE DEF req
<1> USE DEF TypeOK
<1>1. ASSUME NEW t \in Tokens, NEW read \in {"member", "viewer"}, Login(t, read)
      PROVE  began'[q] = began[q]
  BY <1>1 DEF Login
<1>2. CASE Demote
  BY <1>2 DEF Demote
<1>3. ASSUME NEW r \in Requests, NEW t \in Tokens \cup {Unknown}, Refresh(r, t)
      PROVE  began'[q] = began[q]
  BY <1>3 DEF Refresh
<1>4. ASSUME NEW r \in Requests, NEW t \in Tokens \cup {Unknown}, NEW what \in {"read", "write", "logout"}, Call(r, t, what)
      PROVE  began'[q] = began[q]
  BY <1>4 DEF Call
<1>5. ASSUME NEW r \in Requests, PresentInvalid(r) PROVE began'[q] = began[q]
  BY <1>5 DEF PresentInvalid, Locks, End, ReleaseLocks
<1>6. ASSUME NEW r \in Requests, PresentUsed(r) PROVE began'[q] = began[q]
  BY <1>6 DEF PresentUsed, Locks, Dead, Exists
<1>7. ASSUME NEW r \in Requests, NEW n \in Tokens, PresentLive(r, n) PROVE began'[q] = began[q]
  BY <1>7 DEF PresentLive, Rotate, Locks, Dead, Exists
<1>8. ASSUME NEW r \in Requests, CommitRotation(r) PROVE began'[q] = began[q]
  BY <1>8 DEF CommitRotation, Install, ReleaseLocks
<1>9. ASSUME NEW r \in Requests, Respond(r) PROVE began'[q] = began[q]
  BY <1>9 DEF Respond, End, ReleaseLocks
<1>10. ASSUME NEW r \in Requests, CheckExp(r) PROVE began'[q] = began[q]
  BY <1>10 DEF CheckExp, Authentic
<1>11. ASSUME NEW r \in Requests, RejectExpired(r) PROVE began'[q] = began[q]
  BY <1>11 DEF RejectExpired, End, ReleaseLocks
<1>12. ASSUME NEW r \in Requests, RejectRevoked(r) PROVE began'[q] = began[q]
  BY <1>12 DEF RejectRevoked, End, ReleaseLocks
<1>13. ASSUME NEW r \in Requests, Serve(r) PROVE began'[q] = began[q]
  BY <1>13 DEF Serve, End, ReleaseLocks
<1>14. ASSUME NEW r \in Requests, BeginLogout(r) PROVE began'[q] = began[q]
  BY <1>14 DEF BeginLogout
<1>15. ASSUME NEW r \in Requests, StartRevoke(r) PROVE began'[q] = began[q]
  BY <1>15 DEF StartRevoke, Family
<1>16. ASSUME NEW r \in Requests, NEW t \in Tokens, RevokeRow(r, t) PROVE began'[q] = began[q]
  BY <1>16 DEF RevokeRow
<1>17. ASSUME NEW r \in Requests, CommitReuse(r) PROVE began'[q] = began[q]
  BY <1>17 DEF CommitReuse, Revoked, End, ReleaseLocks
<1>18. ASSUME NEW r \in Requests, Deny(r) PROVE began'[q] = began[q]
  BY <1>18 DEF Deny, Revoked
<1>19. ASSUME NEW r \in Requests, CommitLogout(r) PROVE began'[q] = began[q]
  BY <1>19 DEF CommitLogout, End, ReleaseLocks
<1>20. CASE Tick
  BY <1>20 DEF Tick
<1>21. ASSUME NEW r \in Requests, AbortDeadlock(r) PROVE began'[q] = began[q]
  BY <1>21 DEF AbortDeadlock, End, ReleaseLocks
<1>22. ASSUME NEW r \in Requests, Crash(r) PROVE began'[q] = began[q]
  BY <1>22 DEF Crash, End, ReleaseLocks
<1>23. CASE UNCHANGED vars
  BY <1>23 DEF vars
<1> QED
  BY <1>1, <1>2, <1>3, <1>4, <1>5, <1>6, <1>7, <1>8, <1>9, <1>10, <1>11, <1>12, <1>13, <1>14,
     <1>15, <1>16, <1>17, <1>18, <1>19, <1>20, <1>21, <1>22, <1>23 DEF Next, Arrive, Step,
     AllEnded

\* A demotion is seen by every pair that is asked for after it.
LEMMA RoleStep ==
    ASSUME TypeOK, TableInv, PhaseInv, DrawnInv, LockInv, RoleInv, [Next]_vars
    PROVE  RoleInv'
<1>1. ASSUME NEW q \in Requests, work'[q].issued # {}, began'[q] = "viewer"
      PROVE  work'[q].claim = "viewer"
  <2>1. CASE \E n \in Tokens : PresentLive(q, n)
    <3>1. work'[q].claim = role /\ role' = role
      BY <2>1, LiveWork DEF PresentLive, Rotate, tables
    <3> QED
      BY <1>1, <3>1, BeganStep
  <2>2. CASE work'[q].issued = work[q].issued /\ work'[q].claim = work[q].claim
    <3>1. pc[q] \in {"commit", "respond"}
      BY <1>1, <2>2 DEF PhaseInv, PhaseOf
    <3>2. began'[q] = began[q]
      BY <3>1, BeganFixed
    <3> QED
      BY <1>1, <2>2, <3>2 DEF RoleInv
  <2>3. ASSUME NEW t \in Tokens, RevokeRow(q, t)
        PROVE  work'[q].issued = work[q].issued /\ work'[q].claim = work[q].claim
    BY <2>3, RevokeWork
  <2>4. Deny(q) => work'[q].issued = work[q].issued /\ work'[q].claim = work[q].claim
    BY DenyWork
  <2>5. NoWork.issued = {}
    BY DEF NoWork
  <2> QED
    BY <1>1, <2>1, <2>2, <2>3, <2>4, <2>5, WorkStep
<1>2. ASSUME NEW q \in Requests, kind'[q] = "write", answer'[q] = "served"
      PROVE  asked'[token'[q]] = "member"
  <2>1. /\ token'[q] = token[q] /\ kind[q] = "write"
        /\ answer[q] = "served" \/ (pc[q] = "denylist" /\ claim[token[q]] = "member")
    BY <1>2, ServedStep
  <2>2. token[q] \in Tokens /\ row[token[q]] # NoRow
    <3>1. token[q] \in delivered
      BY <2>1 DEF PhaseInv, PhaseOf
    <3> QED
      BY <3>1 DEF TableInv, TypeOK
  <2>3. asked[token[q]] = "member"
    <3>1. asked[token[q]] \in {"member", "viewer"}
      BY <2>2 DEF TypeOK, Roles
    <3> QED
      BY <2>1, <2>2, <3>1 DEF RoleInv
  <2> QED
    BY <2>1, <2>2, <2>3, RowStep
<1> QED
  BY <1>1, <1>2, ClaimStep, BeganStep DEF RoleInv

\* Time only passes, and a transaction keeps the moment it began.
LEMMA ClockStep ==
    ASSUME TypeOK, [Next]_vars
    PROVE  /\ clock' \in Nat /\ clock <= clock'
           /\ \A q \in Requests :
                 /\ start'[q] \in {0, start[q], clock}
                 /\ start'[q] = start[q] \/ pc[q] \in {"new", "denylist"} \/ pc'[q] = "ended"
<1> DEFINE Goal ==
               /\ clock' \in Nat /\ clock <= clock'
               /\ \A q \in Requests :
                     /\ start'[q] \in {0, start[q], clock}
                     /\ start'[q] = start[q] \/ pc[q] \in {"new", "denylist"} \/ pc'[q] = "ended"
<1> SUFFICES Goal
  OBVIOUS
<1> USE DEF TypeOK
<1>1. ASSUME NEW t \in Tokens, NEW read \in {"member", "viewer"}, Login(t, read) PROVE Goal
  BY <1>1 DEF Login
<1>2. CASE Demote
  BY <1>2 DEF Demote
<1>3. ASSUME NEW r \in Requests, NEW t \in Tokens \cup {Unknown}, Refresh(r, t) PROVE Goal
  BY <1>3 DEF Refresh
<1>4. ASSUME NEW r \in Requests, NEW t \in Tokens \cup {Unknown}, NEW what \in {"read", "write", "logout"}, Call(r, t, what)
      PROVE  Goal
  BY <1>4 DEF Call
<1>5. ASSUME NEW r \in Requests, PresentInvalid(r) PROVE Goal
  BY <1>5 DEF PresentInvalid, Locks, End, ReleaseLocks
<1>6. ASSUME NEW r \in Requests, PresentUsed(r) PROVE Goal
  BY <1>6 DEF PresentUsed, Locks, Dead, Exists
<1>7. ASSUME NEW r \in Requests, NEW n \in Tokens, PresentLive(r, n) PROVE Goal
  BY <1>7 DEF PresentLive, Rotate, Locks, Dead, Exists
<1>8. ASSUME NEW r \in Requests, CommitRotation(r) PROVE Goal
  BY <1>8 DEF CommitRotation, Install, ReleaseLocks
<1>9. ASSUME NEW r \in Requests, Respond(r) PROVE Goal
  BY <1>9 DEF Respond, End, ReleaseLocks
<1>10. ASSUME NEW r \in Requests, CheckExp(r) PROVE Goal
  BY <1>10 DEF CheckExp, Authentic
<1>11. ASSUME NEW r \in Requests, RejectExpired(r) PROVE Goal
  BY <1>11 DEF RejectExpired, End, ReleaseLocks
<1>12. ASSUME NEW r \in Requests, RejectRevoked(r) PROVE Goal
  BY <1>12 DEF RejectRevoked, End, ReleaseLocks
<1>13. ASSUME NEW r \in Requests, Serve(r) PROVE Goal
  BY <1>13 DEF Serve, End, ReleaseLocks
<1>14. ASSUME NEW r \in Requests, BeginLogout(r) PROVE Goal
  BY <1>14 DEF BeginLogout
<1>15. ASSUME NEW r \in Requests, StartRevoke(r) PROVE Goal
  BY <1>15 DEF StartRevoke, Family
<1>16. ASSUME NEW r \in Requests, NEW t \in Tokens, RevokeRow(r, t) PROVE Goal
  BY <1>16 DEF RevokeRow
<1>17. ASSUME NEW r \in Requests, CommitReuse(r) PROVE Goal
  BY <1>17 DEF CommitReuse, Revoked, End, ReleaseLocks
<1>18. ASSUME NEW r \in Requests, Deny(r) PROVE Goal
  BY <1>18 DEF Deny, Revoked
<1>19. ASSUME NEW r \in Requests, CommitLogout(r) PROVE Goal
  BY <1>19 DEF CommitLogout, End, ReleaseLocks
<1>20. CASE Tick
  BY <1>20 DEF Tick
<1>21. ASSUME NEW r \in Requests, AbortDeadlock(r) PROVE Goal
  BY <1>21 DEF AbortDeadlock, End, ReleaseLocks
<1>22. ASSUME NEW r \in Requests, Crash(r) PROVE Goal
  BY <1>22 DEF Crash, End, ReleaseLocks
<1>23. CASE UNCHANGED vars
  BY <1>23 DEF vars
<1> QED
  BY <1>1, <1>2, <1>3, <1>4, <1>5, <1>6, <1>7, <1>8, <1>9, <1>10, <1>11, <1>12, <1>13, <1>14,
     <1>15, <1>16, <1>17, <1>18, <1>19, <1>20, <1>21, <1>22, <1>23 DEF Next, Arrive, Step,
     AllEnded

\* The purge takes only entries that are past their exp.
LEMMA DenyStep ==
    ASSUME TypeOK, TableInv, PhaseInv, DrawnInv, LockInv, DenyInv, [Next]_vars
    PROVE  DenyInv'
<1>1. clock \in Nat /\ clock' \in Nat /\ clock <= clock'
  BY ClockStep DEF TypeOK
<1>2. ASSUME NEW j \in delivered PROVE j \in delivered' /\ exp'[j] = exp[j] /\ exp[j] \in Nat
  <2>1. j \in Tokens /\ row[j] # NoRow
    BY DEF TableInv, TypeOK
  <2>2. j \in delivered'
    BY ListStep
  <2> QED
    BY <2>1, <2>2, RowStep DEF TypeOK
<1>3. ASSUME NEW q \in Requests PROVE start'[q] <= clock'
  <2>1. start[q] \in Nat /\ start[q] <= clock
    BY DEF TypeOK, DenyInv
  <2>2. start'[q] \in {0, start[q], clock}
    BY ClockStep
  <2> QED
    BY <1>1, <2>1, <2>2
<1>4. ASSUME NEW j \in loggedOut' PROVE j \in denylist' \/ exp'[j] <= clock'
  <2>1. CASE UNCHANGED <<denylist, loggedOut>>
    <3>1. j \in loggedOut /\ j \in delivered
      BY <2>1 DEF TableInv
    <3>2. j \in denylist \/ exp[j] <= clock
      BY <3>1 DEF DenyInv
    <3> QED
      BY <1>1, <1>2, <2>1, <3>1, <3>2
  <2>2. ASSUME NEW r \in Requests, CommitLogout(r) PROVE j \in denylist' \/ exp'[j] <= clock'
    <3>1. /\ denylist' = (denylist \cup work[r].denied) \ work[r].purged
          /\ loggedOut' = loggedOut \cup work[r].denied /\ exp' = exp
      BY <2>2 DEF CommitLogout
    <3>2. CASE j \in work[r].purged
      <4>1. start[r] \in Nat /\ start[r] <= clock /\ j \in delivered /\ exp[j] <= start[r]
        BY <3>2 DEF DenyInv, TypeOK
      <4>2. exp[j] \in Nat
        BY <1>2, <4>1
      <4> QED
        BY <1>1, <3>1, <4>1, <4>2
    <3>3. CASE j \notin work[r].purged
      <4>1. CASE j \in work[r].denied
        BY <3>1, <3>3, <4>1
      <4>2. CASE j \in loggedOut
        <5>1. j \in delivered
          BY <4>2 DEF TableInv
        <5>2. j \in denylist \/ exp[j] <= clock
          BY <4>2 DEF DenyInv
        <5> QED
          BY <1>1, <1>2, <3>1, <3>3, <5>1, <5>2
      <4> QED
        BY <3>1, <4>1, <4>2
    <3> QED
      BY <3>2, <3>3
  <2> QED
    BY <2>1, <2>2, ListStep
<1>5. ASSUME NEW q \in Requests, NEW j \in work'[q].purged
      PROVE  j \in delivered' /\ exp'[j] <= start'[q]
  <2>1. CASE Deny(q)
    <3>1. /\ j \in denylist \cup {token[q]} /\ exp[j] <= start[q]
          /\ start' = start
      BY <1>5, <2>1, DenyWork DEF Deny
    <3>2. token[q] \in delivered
      BY <2>1 DEF Deny, Revoked, PhaseInv, PhaseOf
    <3>3. j \in delivered
      BY <3>1, <3>2 DEF TableInv
    <3> QED
      BY <1>2, <3>1, <3>3
  <2>2. CASE j \in work[q].purged
    <3>1. j \in delivered /\ exp[j] <= start[q]
      BY <2>2 DEF DenyInv
    <3>2. pc[q] = "commit" /\ pc'[q] = "commit"
      BY <1>5, <2>2, PhaseStep DEF PhaseInv, PhaseOf
    <3>3. start'[q] = start[q]
      BY <3>2, ClockStep
    <3> QED
      BY <1>2, <3>1, <3>3
  <2>3. ASSUME NEW t \in Tokens, RevokeRow(q, t) PROVE work'[q].purged = work[q].purged
    BY <2>3, RevokeWork
  <2>4. (\E n \in Tokens : PresentLive(q, n)) => work'[q].purged = work[q].purged
    BY LiveWork
  <2>5. NoWork.purged = {}
    BY DEF NoWork
  <2> QED
    BY <1>5, <2>1, <2>2, <2>3, <2>4, <2>5, WorkStep
<1> QED
  BY <1>3, <1>4, <1>5 DEF DenyInv

\* The guard lets a request pass only if its jti is not on the list.
LEMMA AdmitStep ==
    ASSUME TypeOK, PhaseInv, [Next]_vars, NEW q \in Requests,
           pc[q] = "denylist", pc'[q] = "revoke" \/ answer'[q] = "served"
    PROVE  ~IsRevoked(token[q])
<1> USE DEF TypeOK, PhaseInv, PhaseOf
<1>1. ASSUME NEW t \in Tokens, NEW read \in {"member", "viewer"}, Login(t, read)
      PROVE  ~IsRevoked(token[q])
  BY <1>1 DEF Login
<1>2. CASE Demote
  BY <1>2 DEF Demote
<1>3. ASSUME NEW r \in Requests, NEW t \in Tokens \cup {Unknown}, Refresh(r, t)
      PROVE  ~IsRevoked(token[q])
  BY <1>3 DEF Refresh
<1>4. ASSUME NEW r \in Requests, NEW t \in Tokens \cup {Unknown}, NEW what \in {"read", "write", "logout"}, Call(r, t, what)
      PROVE  ~IsRevoked(token[q])
  BY <1>4 DEF Call
<1>5. ASSUME NEW r \in Requests, PresentInvalid(r) PROVE ~IsRevoked(token[q])
  BY <1>5 DEF PresentInvalid, Locks, End, ReleaseLocks
<1>6. ASSUME NEW r \in Requests, PresentUsed(r) PROVE ~IsRevoked(token[q])
  BY <1>6 DEF PresentUsed, Locks, Dead, Exists
<1>7. ASSUME NEW r \in Requests, NEW n \in Tokens, PresentLive(r, n) PROVE ~IsRevoked(token[q])
  BY <1>7 DEF PresentLive, Rotate, Locks, Dead, Exists
<1>8. ASSUME NEW r \in Requests, CommitRotation(r) PROVE ~IsRevoked(token[q])
  BY <1>8 DEF CommitRotation, Install, ReleaseLocks
<1>9. ASSUME NEW r \in Requests, Respond(r) PROVE ~IsRevoked(token[q])
  BY <1>9 DEF Respond, End, ReleaseLocks
<1>10. ASSUME NEW r \in Requests, CheckExp(r) PROVE ~IsRevoked(token[q])
  BY <1>10 DEF CheckExp, Authentic
<1>11. ASSUME NEW r \in Requests, RejectExpired(r) PROVE ~IsRevoked(token[q])
  BY <1>11 DEF RejectExpired, End, ReleaseLocks
<1>12. ASSUME NEW r \in Requests, RejectRevoked(r) PROVE ~IsRevoked(token[q])
  BY <1>12 DEF RejectRevoked, End, ReleaseLocks
<1>13. ASSUME NEW r \in Requests, Serve(r) PROVE ~IsRevoked(token[q])
  BY <1>13 DEF Serve, End, ReleaseLocks
<1>14. ASSUME NEW r \in Requests, BeginLogout(r) PROVE ~IsRevoked(token[q])
  BY <1>14 DEF BeginLogout
<1>15. ASSUME NEW r \in Requests, StartRevoke(r) PROVE ~IsRevoked(token[q])
  BY <1>15 DEF StartRevoke, Family
<1>16. ASSUME NEW r \in Requests, NEW t \in Tokens, RevokeRow(r, t) PROVE ~IsRevoked(token[q])
  BY <1>16 DEF RevokeRow
<1>17. ASSUME NEW r \in Requests, CommitReuse(r) PROVE ~IsRevoked(token[q])
  BY <1>17 DEF CommitReuse, Revoked, End, ReleaseLocks
<1>18. ASSUME NEW r \in Requests, Deny(r) PROVE ~IsRevoked(token[q])
  BY <1>18 DEF Deny, Revoked
<1>19. ASSUME NEW r \in Requests, CommitLogout(r) PROVE ~IsRevoked(token[q])
  BY <1>19 DEF CommitLogout, End, ReleaseLocks
<1>20. CASE Tick
  BY <1>20 DEF Tick
<1>21. ASSUME NEW r \in Requests, AbortDeadlock(r) PROVE ~IsRevoked(token[q])
  BY <1>21 DEF AbortDeadlock, End, ReleaseLocks
<1>22. ASSUME NEW r \in Requests, Crash(r) PROVE ~IsRevoked(token[q])
  BY <1>22 DEF Crash, End, ReleaseLocks
<1>23. CASE UNCHANGED vars
  BY <1>23 DEF vars
<1> HIDE DEF TypeOK, PhaseInv, PhaseOf
<1> QED
  BY <1>1, <1>2, <1>3, <1>4, <1>5, <1>6, <1>7, <1>8, <1>9, <1>10, <1>11, <1>12, <1>13, <1>14,
     <1>15, <1>16, <1>17, <1>18, <1>19, <1>20, <1>21, <1>22, <1>23 DEF Next, Arrive, Step,
     AllEnded

-----------------------------------------------------------------------------
\* IInv is an invariant of the specification.
THEOREM Invariance == Spec => []IInv
<1>1. Init => IInv
  BY InitIInv
<1>2. IInv /\ [Next]_vars => IInv'
  <2> SUFFICES ASSUME IInv, [Next]_vars PROVE IInv'
    OBVIOUS
  <2>1. TypeOK' /\ TableInv' /\ PhaseInv'
    BY TypeStep, TableStep, PhaseStep DEF IInv
  <2>2. DrawnInv' /\ LockInv' /\ UniqueHead'
    BY DrawnStep, LockStep, HeadStep DEF IInv
  <2>3. ReachInv' /\ RevocationReaches' /\ UsedInv'
    BY ReachStep, UsedStep DEF IInv
  <2>4. RoleInv' /\ DenyInv'
    BY RoleStep, DenyStep DEF IInv
  <2> QED
    BY <2>1, <2>2, <2>3, <2>4 DEF IInv
<1> QED
  BY <1>1, <1>2, PTL DEF Spec

\* auth.service.ts: however many refreshes of a family race, it never has two
\* tokens that were not presented yet.
THEOREM UniqueHeadHolds == Spec => []UniqueHead
<1>1. IInv => UniqueHead
  BY DEF IInv
<1> QED
  BY <1>1, Invariance, PTL

\* auth.service.ts, "FOR UPDATE serialises": the token a rotation commits a
\* successor of is unused and unrevoked at that moment.
THEOREM RotatesLiveTokenHolds == Spec => RotatesLiveToken
<1>1. IInv /\ [Next]_vars
      => [\A r \in Requests : pc[r] = "commit" /\ pc'[r] = "respond"
             => ~row[token[r]].used /\ ~row[token[r]].revoked]_vars
  <2> SUFFICES ASSUME IInv, [Next]_vars, NEW r \in Requests, pc[r] = "commit", pc'[r] = "respond"
               PROVE  ~row[token[r]].used /\ ~row[token[r]].revoked
    OBVIOUS
  <2>1. CommitRotation(r)
    BY RespondStep DEF IInv
  <2> QED
    BY <2>1 DEF IInv, LockInv, CommitRotation, Install
<1> QED
  BY <1>1, Invariance, PTL DEF Spec, RotatesLiveToken

\* auth.service.ts, revokeFamily: once a replay or a logout is answered, each
\* token of the family that was committed when its revocation started is
\* revoked, and stays so.
THEOREM RevocationReachesHolds == Spec => []RevocationReaches
<1>1. IInv => RevocationReaches
  BY DEF IInv
<1> QED
  BY <1>1, Invariance, PTL

\* auth.service.ts, refresh: whoever is accused of a replay, exactly one other
\* request has committed a rotation of the same token; what was rolled back, by a
\* crash or an abort, accuses nobody.
THEOREM NoFalseAlarmHolds == Spec => []NoFalseAlarm
<1>1. ASSUME IInv PROVE NoFalseAlarm
  <2> SUFFICES ASSUME NEW r \in Requests, answer[r] = "reuse"
               PROVE  \E q \in Requests \ {r} :
                         \A p \in Requests : token[p] = token[r] /\ Rotated(p) <=> p = q
    BY DEF NoFalseAlarm
  <2>1. row[token[r]].used
    BY <1>1 DEF IInv, UsedInv, Accused
  <2>2. token[r] \in Tokens /\ row[token[r]] # NoRow
    <3>1. token[r] \in delivered
      BY <1>1 DEF IInv, PhaseInv, PhaseOf
    <3> QED
      BY <1>1, <3>1 DEF IInv, TableInv, TypeOK
  <2>3. PICK q \in Requests : token[q] = token[r] /\ Rotated(q)
    BY <1>1, <2>1, <2>2 DEF IInv, UsedInv
  <2>4. pc[r] = "ended"
    BY <1>1 DEF IInv, PhaseInv, PhaseOf
  <2>5. q # r
    BY <2>3, <2>4 DEF Rotated
  <2>6. \A p \in Requests : token[p] = token[r] /\ Rotated(p) => p = q
    BY <1>1, <2>3 DEF IInv, UsedInv
  <2> QED
    BY <2>3, <2>5, <2>6
<1> QED
  BY <1>1, Invariance, PTL

\* auth.service.ts, logout: an access token whose logout has committed passes
\* the guard no more before its exp, though every later logout purges the list.
THEOREM LogoutDeniesHolds == Spec => LogoutDenies
<1>1. IInv /\ [Next]_vars
      => [\A r \in Requests :
             /\ pc[r] = "denylist"
             /\ pc'[r] = "revoke" \/ answer'[r] = "served"
             /\ token[r] \in loggedOut
             => exp[token[r]] <= clock]_vars
  <2> SUFFICES ASSUME IInv, [Next]_vars, NEW r \in Requests, pc[r] = "denylist",
                      pc'[r] = "revoke" \/ answer'[r] = "served", token[r] \in loggedOut
               PROVE  exp[token[r]] <= clock
    OBVIOUS
  <2>1. ~IsRevoked(token[r])
    BY AdmitStep DEF IInv
  <2>2. token[r] \in denylist \/ exp[token[r]] <= clock
    BY DEF IInv, DenyInv
  <2>3. exp[token[r]] \in Nat /\ clock \in Nat
    BY DEF IInv, TypeOK
  <2> QED
    BY <2>1, <2>2, <2>3 DEF IsRevoked
<1> QED
  BY <1>1, Invariance, PTL DEF Spec, LogoutDenies

\* auth.service.ts and guards.ts: no pair that was asked for after the
\* demotion says "member", and a write is served only with a pair that was asked
\* for before it.
THEOREM DemotionCatchesUpHolds == Spec => []DemotionCatchesUp
<1>1. IInv => DemotionCatchesUp
  BY DEF IInv, TypeOK, RoleInv, DemotionCatchesUp
<1> QED
  BY <1>1, Invariance, PTL
=============================================================================
