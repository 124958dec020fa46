---------------------------- MODULE DatabaseProofs --------------------------
(***************************************************************************)
(* Proofs about the two modules that have Postgres as their counterpart:   *)
(* Retry, for any rows, writers, paths, parties and number of attempts,    *)
(* and Rotation (in the second part), for pools of any                     *)
(* size and any number of rotations.                                       *)
(*                                                                         *)
(* The invariant of Retry adds to its properties                           *)
(*   PhaseInv    a writer whose changes are committed has returned, or was *)
(*               left with the one error that is not retried;              *)
(*   SnapInv     a row that still has the version of a snapshot has its    *)
(*               value too, and a locked row has both;                     *)
(*   PathInv     the rows of a path are those the writer holds and those   *)
(*               it has yet to update;                                     *)
(*   PaidInv     a writer whose snapshot is outdated has been paid for the *)
(*               conflict it is about to meet;                             *)
(*   ArrivedInv  a party is past the barrier only when all have arrived;   *)
(*   OvertakenInv  once a party has committed at its first attempt, the    *)
(*               others that update one of its rows have an outdated       *)
(*               snapshot of it as long as they are at their first.        *)
(***************************************************************************)
EXTENDS Retry, Rotation, FiniteSetTheorems, TLAPS

Values == [Rows -> Nat]

TypeOK ==
    /\ value \in Values
    /\ version \in Values
    /\ lock \in [Rows -> Writers \cup {NoOne}]
    /\ pc \in [Writers -> {"begin", "barrier", "write", "caught", "returned", "threw"}]
    /\ snapshot \in [Writers -> [value : Values, version : Values]]
    /\ todo \in [Writers -> Seq(Rows)]
    /\ written \in [Writers -> Values]
    /\ attempt \in [Writers -> Nat \ {0}]
    /\ error \in [Writers -> {"none", "40001", "40P01", "08006"}]
    /\ conflicts \in [Writers -> Nat]
    /\ arrived \subseteq Parties
    /\ applied \in [Writers -> {0, 1}]

PhaseInv ==
    \A w \in Writers :
        /\ pc[w] = "returned" => applied[w] = 1
        /\ applied[w] = 1 => pc[w] = "returned" \/ error[w] = "08006"
        /\ error[w] = "08006" => pc[w] \in {"caught", "threw"}
        /\ pc[w] = "caught" => error[w] # "none"

SnapshotInv ==
    \A w \in Writers, x \in Rows :
        /\ snapshot[w].version[x] <= version[x]
        /\ snapshot[w].version[x] = version[x] => snapshot[w].value[x] = value[x]

HolderInv ==
    \A x \in Rows : lock[x] # NoOne =>
        LET w == lock[x] IN
        /\ pc[w] = "write"
        /\ snapshot[w].version[x] = version[x]
        /\ written[w][x] = snapshot[w].value[x] + 1

SnapInv == SnapshotInv /\ HolderInv

InSeq(x, s) == \E i \in DOMAIN s : s[i] = x

PathInv ==
    \A w \in Writers : pc[w] \in {"barrier", "write"} =>
        \A x \in Rows : InSeq(x, Path[w]) <=> lock[x] = w \/ InSeq(x, todo[w])

\* The other writers that have committed.
Others(w) == {q \in Writers \ {w} : applied[q] > 0}

Outdated(w) == \E x \in Rows : snapshot[w].version[x] # version[x]

PaidInv ==
    \A w \in Writers :
        /\ conflicts[w] <= Cardinality(Others(w))
        /\ pc[w] \in {"barrier", "write"} /\ Outdated(w) => conflicts[w] + 1 <= Cardinality(Others(w))

ArrivedInv ==
    \A w \in Parties : attempt[w] = 1 =>
        /\ pc[w] = "begin" => w \notin arrived
        /\ pc[w] \in {"write", "returned"} \/ applied[w] = 1 => arrived = Parties
        /\ pc[w] = "barrier" => w \in arrived

OvertakenInv ==
    \A w, q \in Parties, x \in Rows :
        /\ attempt[w] = 1 /\ applied[w] = 1
        /\ q # w /\ attempt[q] = 1 /\ w \in WritersOf(x) /\ q \in WritersOf(x)
        => applied[q] = 0 /\ snapshot[q].version[x] < version[x]

IInv ==
    /\ TypeOK /\ PhaseInv /\ SnapInv /\ PathInv
    /\ NoLostUpdate /\ PaidInv /\ ArrivedInv /\ OvertakenInv

USE WritersAssumption, PathAssumption, MaxAttemptsAssumption

-----------------------------------------------------------------------------
\* The initial states satisfy every part of the invariant.
LEMMA InitIInv == Init => IInv
<1> SUFFICES ASSUME Init PROVE IInv
  OBVIOUS
<1>1. TypeOK
  BY DEF Init, TypeOK, Values
<1>2. PhaseInv /\ SnapInv /\ PathInv /\ ArrivedInv /\ OvertakenInv
  BY DEF Init, PhaseInv, SnapInv, SnapshotInv, HolderInv, PathInv, ArrivedInv, OvertakenInv
<1>3. NoLostUpdate /\ PaidInv
  <2>1. \A x \in Rows : {w \in WritersOf(x) : applied[w] > 0} = {}
    BY DEF Init, WritersOf
  <2>2. \A w \in Writers : Others(w) = {}
    BY DEF Init, Others
  <2>3. Cardinality({}) = 0
    BY FS_EmptySet
  <2>4. NoLostUpdate
    BY <2>1, <2>3 DEF Init, NoLostUpdate
  <2>5. ASSUME NEW w \in Writers
        PROVE  conflicts[w] <= Cardinality(Others(w)) /\ pc[w] = "begin"
    <3>1. Cardinality(Others(w)) = 0
      BY <2>2, <2>3
    <3>2. conflicts[w] = 0 /\ pc[w] = "begin"
      BY DEF Init
    <3> QED
      BY <3>1, <3>2
  <2>6. PaidInv
    BY <2>5 DEF PaidInv
  <2> QED
    BY <2>4, <2>6
<1> QED
  BY <1>1, <1>2, <1>3 DEF IInv

\* What is in a sequence is its head or in its tail.
LEMMA HeadOrTail ==
    ASSUME NEW s \in Seq(Rows), s # <<>>, NEW x
    PROVE  InSeq(x, s) <=> x = Head(s) \/ InSeq(x, Tail(s))
<1>1. Len(s) \in Nat \ {0} /\ Tail(s) \in Seq(Rows) /\ Len(Tail(s)) = Len(s) - 1
  OBVIOUS
<1>2. \A i \in 1..Len(Tail(s)) : Tail(s)[i] = s[i + 1]
  OBVIOUS
<1>3. ASSUME NEW i \in DOMAIN s, s[i] = x, x # Head(s) PROVE InSeq(x, Tail(s))
  <2>1. i - 1 \in 1..Len(Tail(s)) /\ Tail(s)[i - 1] = x
    BY <1>1, <1>2, <1>3
  <2> QED
    BY <1>1, <2>1 DEF InSeq
<1>4. ASSUME NEW i \in DOMAIN Tail(s), Tail(s)[i] = x PROVE InSeq(x, s)
  <2>1. i + 1 \in DOMAIN s /\ s[i + 1] = x
    BY <1>1, <1>2, <1>4
  <2> QED
    BY <2>1 DEF InSeq
<1> QED
  BY <1>1, <1>3, <1>4 DEF InSeq

\* Each step keeps the types.  A writer that installs has not done so before.
LEMMA TypeStep == ASSUME TypeOK, PhaseInv, [Next]_vars PROVE TypeOK'
<1> USE DEF TypeOK, PhaseInv
<1>1. ASSUME NEW w \in Writers, Read(w) PROVE TypeOK'
  <2>1. [value |-> value, version |-> version] \in [value : Values, version : Values]
    OBVIOUS
  <2>2. snapshot' \in [Writers -> [value : Values, version : Values]]
    BY <1>1, <2>1 DEF Read
  <2>3. todo' \in [Writers -> Seq(Rows)] /\ arrived' \subseteq Parties
    BY <1>1 DEF Read
  <2>4. pc' \in [Writers -> {"begin", "barrier", "write", "caught", "returned", "threw"}]
    BY <1>1 DEF Read
  <2> QED
    BY <1>1, <2>2, <2>3, <2>4 DEF Read, db
<1>2. ASSUME NEW w \in Writers, Pass(w) PROVE TypeOK'
  BY <1>2 DEF Pass, db
<1>3. ASSUME NEW w \in Writers, Write(w) PROVE TypeOK'
  <2> DEFINE x == Head(todo[w])
             changed == [written[w] EXCEPT ![x] = snapshot[w].value[x] + 1]
  <2>1. x \in Rows /\ Tail(todo[w]) \in Seq(Rows)
    BY <1>3 DEF Write
  <2>2. snapshot[w].value[x] + 1 \in Nat
    BY SMTT(60), <2>1 DEF Values
  <2>3. changed \in Values
    BY <2>1, <2>2 DEF Values
  <2>4. written' = [written EXCEPT ![w] = changed]
    BY <1>3 DEF Write
  <2>5. lock' = [lock EXCEPT ![x] = w] /\ todo' = [todo EXCEPT ![w] = Tail(todo[w])]
    BY <1>3 DEF Write
  <2> HIDE DEF x, changed
  <2>6. written' \in [Writers -> Values]
    BY <2>3, <2>4
  <2>7. lock' \in [Rows -> Writers \cup {NoOne}] /\ todo' \in [Writers -> Seq(Rows)]
    BY <2>1, <2>5
  <2> QED
    BY <1>3, <2>6, <2>7 DEF Write, db
<1>4. ASSUME NEW w \in Writers, Conflict(w) PROVE TypeOK'
  <2>1. conflicts' \in [Writers -> Nat] /\ lock' \in [Rows -> Writers \cup {NoOne}]
    BY <1>4 DEF Conflict, Abort, ReleaseLocks
  <2> QED
    BY <1>4, <2>1 DEF Conflict, Abort, db
<1>5. ASSUME NEW w \in Writers, Deadlock(w) PROVE TypeOK'
  BY <1>5 DEF Deadlock, Abort, ReleaseLocks, db
<1>6. ASSUME NEW w \in Writers, Commit(w) PROVE TypeOK'
  <2>1. value' \in Values /\ version' \in Values
    BY <1>6 DEF Commit, Install, Values
  <2>2. lock' \in [Rows -> Writers \cup {NoOne}]
    BY <1>6 DEF Commit, ReleaseLocks
  <2>3. applied' \in [Writers -> {0, 1}]
    <3>1. applied[w] = 0 /\ applied' = [applied EXCEPT ![w] = applied[w] + 1]
      BY <1>6 DEF Commit, Install
    <3> QED
      BY <3>1
  <2> QED
    BY <1>6, <2>1, <2>2, <2>3 DEF Commit
<1>7. ASSUME NEW w \in Writers, LoseConnection(w) PROVE TypeOK'
  <2>1. value' \in Values /\ version' \in Values
    <3>1. CASE UNCHANGED db
      BY <3>1 DEF db
    <3>2. CASE Install(w)
      BY <3>2 DEF Install, Values
    <3> QED
      BY <1>7, <3>1, <3>2 DEF LoseConnection, db
  <2>2. lock' \in [Rows -> Writers \cup {NoOne}]
    BY <1>7 DEF LoseConnection, Abort, ReleaseLocks
  <2>3. applied' \in [Writers -> {0, 1}]
    <3>1. CASE UNCHANGED applied
      BY <3>1
    <3>2. CASE pc[w] = "write" /\ Install(w)
      <4>1. applied[w] = 0 /\ applied' = [applied EXCEPT ![w] = applied[w] + 1]
        BY <3>2 DEF Install
      <4> QED
        BY <4>1
    <3> QED
      BY <1>7, <3>1, <3>2 DEF LoseConnection
  <2> QED
    BY <1>7, <2>1, <2>2, <2>3 DEF LoseConnection, Abort
<1>8. ASSUME NEW w \in Writers, Again(w) PROVE TypeOK'
  BY <1>8 DEF Again, IsRetryable, RETRYABLE_SQLSTATES, db
<1>9. ASSUME NEW w \in Writers, GiveUp(w) PROVE TypeOK'
  BY <1>9 DEF GiveUp, db
<1>10. CASE UNCHANGED vars
  BY <1>10 DEF vars
<1> QED
  BY <1>1, <1>2, <1>3, <1>4, <1>5, <1>6, <1>7, <1>8, <1>9, <1>10 DEF Next, Step, AllEnded

\* Who changes what of a writer: only its own Read takes a snapshot and brings
\* it to the writes, only its own 40001 is counted, attempts are counted by one.
LEMMA WriterStep ==
    ASSUME TypeOK, [Next]_vars, NEW q \in Writers
    PROVE  /\ attempt'[q] \in {attempt[q], attempt[q] + 1}
           /\ snapshot'[q] = snapshot[q] \/ Read(q)
           /\ conflicts'[q] = conflicts[q] \/ Conflict(q)
           /\ pc'[q] \in {"barrier", "write"} => pc[q] \in {"barrier", "write"} \/ Read(q)
<1> DEFINE Goal == /\ attempt'[q] \in {attempt[q], attempt[q] + 1}
                   /\ snapshot'[q] = snapshot[q] \/ Read(q)
                   /\ conflicts'[q] = conflicts[q] \/ Conflict(q)
                   /\ pc'[q] \in {"barrier", "write"} => pc[q] \in {"barrier", "write"} \/ Read(q)
<1> SUFFICES Goal
  OBVIOUS
<1> USE DEF TypeOK
<1>1. ASSUME NEW w \in Writers, Read(w) PROVE Goal
  <2>1. CASE q = w
    BY <1>1, <2>1 DEF Read
  <2>2. CASE q # w
    BY <1>1, <2>2 DEF Read
  <2> QED
    BY <2>1, <2>2
<1>2. ASSUME NEW w \in Writers, Pass(w) PROVE Goal
  BY <1>2 DEF Pass, db
<1>3. ASSUME NEW w \in Writers, Write(w) PROVE Goal
  BY <1>3 DEF Write, db
<1>4. ASSUME NEW w \in Writers, Conflict(w) PROVE Goal
  <2>1. CASE q = w
    BY <1>4, <2>1 DEF Conflict, Abort
  <2>2. CASE q # w
    BY <1>4, <2>2 DEF Conflict, Abort
  <2> QED
    BY <2>1, <2>2
<1>5. ASSUME NEW w \in Writers, Deadlock(w) PROVE Goal
  BY <1>5 DEF Deadlock, Abort
<1>6. ASSUME NEW w \in Writers, Commit(w) PROVE Goal
  BY <1>6 DEF Commit
<1>7. ASSUME NEW w \in Writers, LoseConnection(w) PROVE Goal
  BY <1>7 DEF LoseConnection, Abort
<1>8. ASSUME NEW w \in Writers, Again(w) PROVE Goal
  BY <1>8 DEF Again, IsRetryable, RETRYABLE_SQLSTATES, db
<1>9. ASSUME NEW w \in Writers, GiveUp(w) PROVE Goal
  BY <1>9 DEF GiveUp, db
<1>10. CASE UNCHANGED vars
  BY <1>10 DEF vars
<1> HIDE DEF TypeOK
<1> QED
  BY <1>1, <1>2, <1>3, <1>4, <1>5, <1>6, <1>7, <1>8, <1>9, <1>10 DEF Next, Step, AllEnded

\* An attempt whose changes may have been committed is the last one.
LEMMA PhaseStep == ASSUME TypeOK, PhaseInv, [Next]_vars PROVE PhaseInv'
<1> USE DEF TypeOK, PhaseInv
<1>1. ASSUME NEW w \in Writers, Read(w) PROVE PhaseInv'
  BY <1>1 DEF Read, db
<1>2. ASSUME NEW w \in Writers, Pass(w) PROVE PhaseInv'
  BY <1>2 DEF Pass, db
<1>3. ASSUME NEW w \in Writers, Write(w) PROVE PhaseInv'
  BY <1>3 DEF Write, db
<1>4. ASSUME NEW w \in Writers, Conflict(w) PROVE PhaseInv'
  BY <1>4 DEF Conflict, Abort, ReleaseLocks, db
<1>5. ASSUME NEW w \in Writers, Deadlock(w) PROVE PhaseInv'
  BY ZenonT(60), <1>5 DEF Deadlock, Abort, ReleaseLocks, db, InDeadlock, Waits
<1>6. ASSUME NEW w \in Writers, Commit(w) PROVE PhaseInv'
  BY <1>6 DEF Commit, Install, ReleaseLocks
<1>7. ASSUME NEW w \in Writers, LoseConnection(w) PROVE PhaseInv'
  BY <1>7 DEF LoseConnection, Install, Abort, ReleaseLocks, db
<1>8. ASSUME NEW w \in Writers, Again(w) PROVE PhaseInv'
  BY <1>8 DEF Again, IsRetryable, RETRYABLE_SQLSTATES, db
<1>9. ASSUME NEW w \in Writers, GiveUp(w) PROVE PhaseInv'
  BY <1>9 DEF GiveUp, db
<1>10. CASE UNCHANGED vars
  BY <1>10 DEF vars
<1> QED
  BY <1>1, <1>2, <1>3, <1>4, <1>5, <1>6, <1>7, <1>8, <1>9, <1>10 DEF Next, Step, AllEnded

\* What COMMIT does to the rows: those the writer holds have the value of its
\* snapshot, and get one more.
LEMMA InstallRows ==
    ASSUME TypeOK, SnapInv, NEW w \in Writers, Install(w), NEW x \in Rows
    PROVE  /\ lock[x] = w => value'[x] = value[x] + 1 /\ version'[x] = version[x] + 1
           /\ lock[x] # w => value'[x] = value[x] /\ version'[x] = version[x]
<1>1. ASSUME lock[x] = w PROVE written[w][x] = value[x] + 1
  <2>1. snapshot[w].version[x] = version[x] /\ written[w][x] = snapshot[w].value[x] + 1
    BY <1>1 DEF SnapInv, HolderInv
  <2>2. snapshot[w].value[x] = value[x]
    BY <2>1 DEF SnapInv, SnapshotInv
  <2> QED
    BY <2>1, <2>2
<1> QED
  BY <1>1 DEF Install

\* The versions of the rows only grow, and a value changes only with its version.
LEMMA RowStep ==
    ASSUME TypeOK, SnapInv, [Next]_vars, NEW x \in Rows
    PROVE  \/ version'[x] = version[x] /\ value'[x] = value[x]
           \/ version'[x] = version[x] + 1
<1> DEFINE Goal == \/ version'[x] = version[x] /\ value'[x] = value[x]
                   \/ version'[x] = version[x] + 1
<1>1. ASSUME NEW w \in Writers, Read(w) PROVE Goal
  BY <1>1 DEF Read, db
<1>2. ASSUME NEW w \in Writers, Pass(w) PROVE Goal
  BY <1>2 DEF Pass, db
<1>3. ASSUME NEW w \in Writers, Write(w) PROVE Goal
  BY <1>3 DEF Write, db
<1>4. ASSUME NEW w \in Writers, Conflict(w) PROVE Goal
  BY <1>4 DEF Conflict, Abort, ReleaseLocks, db
<1>5. ASSUME NEW w \in Writers, Deadlock(w) PROVE Goal
  BY <1>5 DEF Deadlock, Abort, ReleaseLocks, db
<1>6. ASSUME NEW w \in Writers, Commit(w) PROVE Goal
  BY <1>6, InstallRows DEF Commit
<1>7. ASSUME NEW w \in Writers, LoseConnection(w) PROVE Goal
  BY <1>7, InstallRows DEF LoseConnection, db
<1>8. ASSUME NEW w \in Writers, Again(w) PROVE Goal
  BY <1>8 DEF Again, IsRetryable, RETRYABLE_SQLSTATES, db
<1>9. ASSUME NEW w \in Writers, GiveUp(w) PROVE Goal
  BY <1>9 DEF GiveUp, db
<1>10. CASE UNCHANGED vars
  BY <1>10 DEF vars
<1> QED
  BY <1>1, <1>2, <1>3, <1>4, <1>5, <1>6, <1>7, <1>8, <1>9, <1>10 DEF Next, Step, AllEnded

\* Snapshots stay consistent: a row that has changed has a newer version.
LEMMA SnapshotStep == ASSUME TypeOK, SnapInv, [Next]_vars PROVE SnapshotInv'
<1>1. ASSUME NEW q \in Writers, NEW x \in Rows, snapshot'[q] = snapshot[q]
      PROVE  /\ snapshot'[q].version[x] <= version'[x]
             /\ snapshot'[q].version[x] = version'[x] => snapshot'[q].value[x] = value'[x]
  <2>1. snapshot[q].version[x] \in Nat /\ version[x] \in Nat
    BY DEF TypeOK, Values
  <2>2. /\ snapshot[q].version[x] <= version[x]
        /\ snapshot[q].version[x] = version[x] => snapshot[q].value[x] = value[x]
    BY DEF SnapInv, SnapshotInv
  <2>3. \/ version'[x] = version[x] /\ value'[x] = value[x]
        \/ version'[x] = version[x] + 1
    BY RowStep
  <2> QED
    BY <1>1, <2>1, <2>2, <2>3
<1>2. ASSUME NEW q \in Writers, NEW x \in Rows, snapshot'[q] # snapshot[q]
      PROVE  snapshot'[q].version[x] = version'[x] /\ snapshot'[q].value[x] = value'[x]
  <2>1. Read(q)
    BY <1>2, WriterStep
  <2> QED
    BY <2>1 DEF Read, db, TypeOK
<1>3. ASSUME NEW x \in Rows PROVE version'[x] \in Nat
  <2>1. version[x] \in Nat
    BY DEF TypeOK, Values
  <2> QED
    BY <2>1, RowStep
<1> QED
  BY <1>1, <1>2, <1>3 DEF SnapshotInv

\* A row is held by a writer in the middle of an attempt, and has not changed
\* since that attempt's snapshot.
LEMMA HolderStep == ASSUME TypeOK, SnapInv, [Next]_vars PROVE HolderInv'
<1> USE DEF TypeOK, SnapInv, HolderInv
<1>1. ASSUME NEW w \in Writers, Read(w) PROVE HolderInv'
  BY <1>1 DEF Read, db
<1>2. ASSUME NEW w \in Writers, Pass(w) PROVE HolderInv'
  BY <1>2 DEF Pass, db
<1>3. ASSUME NEW w \in Writers, Write(w) PROVE HolderInv'
  <2> DEFINE y == Head(todo[w])
  <2>1. y \in Rows
    BY <1>3 DEF Write
  <2>2. written'[w][y] = snapshot[w].value[y] + 1 /\ lock' = [lock EXCEPT ![y] = w]
    BY <1>3, <2>1 DEF Write, Values
  <2>3. snapshot[w].version[y] = version[y] /\ pc[w] = "write"
    BY <1>3 DEF Write
  <2>4. \A q \in Writers, x \in Rows : q # w \/ x # y => written'[q][x] = written[q][x]
    BY <1>3, <2>1 DEF Write, Values
  <2>5. pc' = pc /\ snapshot' = snapshot /\ version' = version
    BY <1>3 DEF Write, db
  <2> HIDE DEF y
  <2> QED
    BY <2>1, <2>2, <2>3, <2>4, <2>5
<1>4. ASSUME NEW w \in Writers, Conflict(w) PROVE HolderInv'
  BY <1>4 DEF Conflict, Abort, ReleaseLocks, db
<1>5. ASSUME NEW w \in Writers, Deadlock(w) PROVE HolderInv'
  BY <1>5 DEF Deadlock, Abort, ReleaseLocks, db
<1>6. ASSUME NEW w \in Writers, Commit(w) PROVE HolderInv'
  <2>1. \A x \in Rows : lock'[x] # NoOne => lock'[x] = lock[x] /\ lock[x] # w /\ version'[x] = version[x]
    BY <1>6 DEF Commit, Install, ReleaseLocks
  <2> QED
    BY <1>6, <2>1 DEF Commit
<1>7. ASSUME NEW w \in Writers, LoseConnection(w) PROVE HolderInv'
  <2>1. \A x \in Rows : lock'[x] # NoOne => lock'[x] = lock[x] /\ lock[x] # w /\ version'[x] = version[x]
    BY <1>7 DEF LoseConnection, Install, Abort, ReleaseLocks, db
  <2> QED
    BY <1>7, <2>1 DEF LoseConnection, Abort
<1>8. ASSUME NEW w \in Writers, Again(w) PROVE HolderInv'
  BY <1>8 DEF Again, IsRetryable, RETRYABLE_SQLSTATES, db
<1>9. ASSUME NEW w \in Writers, GiveUp(w) PROVE HolderInv'
  BY <1>9 DEF GiveUp, db
<1>10. CASE UNCHANGED vars
  BY <1>10 DEF vars
<1> QED
  BY <1>1, <1>2, <1>3, <1>4, <1>5, <1>6, <1>7, <1>8, <1>9, <1>10 DEF Next, Step, AllEnded

\* A writer locks the rows of its path one by one, and gives them up together.
LEMMA PathStep == ASSUME TypeOK, SnapInv, PathInv, [Next]_vars PROVE PathInv'
<1> USE DEF TypeOK, SnapInv, HolderInv, PathInv
<1>1. ASSUME NEW w \in Writers, Read(w) PROVE PathInv'
  BY SMTT(60), <1>1 DEF Read, db
<1>2. ASSUME NEW w \in Writers, Pass(w) PROVE PathInv'
  BY <1>2 DEF Pass, db
<1>3. ASSUME NEW w \in Writers, Write(w) PROVE PathInv'
  <2> DEFINE y == Head(todo[w])
  <2>1. y \in Rows /\ lock' = [lock EXCEPT ![y] = w] /\ lock[y] \in {NoOne, w}
    BY <1>3 DEF Write
  <2>2. \A x \in Rows : InSeq(x, todo[w]) <=> x = y \/ InSeq(x, Tail(todo[w]))
    BY <1>3, HeadOrTail DEF Write
  <2>3. todo' = [todo EXCEPT ![w] = Tail(todo[w])] /\ pc' = pc
    BY <1>3 DEF Write
  <2> HIDE DEF y
  <2> QED
    BY <2>1, <2>2, <2>3
<1>4. ASSUME NEW w \in Writers, Conflict(w) PROVE PathInv'
  BY <1>4 DEF Conflict, Abort, ReleaseLocks, db
<1>5. ASSUME NEW w \in Writers, Deadlock(w) PROVE PathInv'
  BY <1>5 DEF Deadlock, Abort, ReleaseLocks, db
<1>6. ASSUME NEW w \in Writers, Commit(w) PROVE PathInv'
  BY <1>6 DEF Commit, Install, ReleaseLocks
<1>7. ASSUME NEW w \in Writers, LoseConnection(w) PROVE PathInv'
  BY <1>7 DEF LoseConnection, Install, Abort, ReleaseLocks, db
<1>8. ASSUME NEW w \in Writers, Again(w) PROVE PathInv'
  BY <1>8 DEF Again, IsRetryable, RETRYABLE_SQLSTATES, db
<1>9. ASSUME NEW w \in Writers, GiveUp(w) PROVE PathInv'
  BY <1>9 DEF GiveUp, db
<1>10. CASE UNCHANGED vars
  BY <1>10 DEF vars
<1> QED
  BY <1>1, <1>2, <1>3, <1>4, <1>5, <1>6, <1>7, <1>8, <1>9, <1>10 DEF Next, Step, AllEnded

-----------------------------------------------------------------------------
\* The step in which w's changes are committed, confirmed or not.
Installs(w) == pc[w] = "write" /\ todo[w] = <<>> /\ Install(w)

\* The rows change only in such a step.
LEMMA InstallStep ==
    ASSUME TypeOK, [Next]_vars
    PROVE  \/ UNCHANGED <<value, version, applied>>
           \/ \E w \in Writers : Installs(w) /\ pc'[w] \in {"returned", "caught"}
<1> DEFINE Goal == \/ UNCHANGED <<value, version, applied>>
                   \/ \E w \in Writers : Installs(w) /\ pc'[w] \in {"returned", "caught"}
<1>1. ASSUME NEW w \in Writers, Read(w) PROVE Goal
  BY <1>1 DEF Read, db
<1>2. ASSUME NEW w \in Writers, Pass(w) PROVE Goal
  BY <1>2 DEF Pass, db
<1>3. ASSUME NEW w \in Writers, Write(w) PROVE Goal
  BY <1>3 DEF Write, db
<1>4. ASSUME NEW w \in Writers, Conflict(w) PROVE Goal
  BY <1>4 DEF Conflict, Abort, ReleaseLocks, db
<1>5. ASSUME NEW w \in Writers, Deadlock(w) PROVE Goal
  BY <1>5 DEF Deadlock, Abort, ReleaseLocks, db
<1>6. ASSUME NEW w \in Writers, Commit(w) PROVE Goal
  <2>1. Installs(w) /\ pc'[w] = "returned"
    BY <1>6 DEF Commit, Installs, TypeOK
  <2> QED
    BY <2>1
<1>7. ASSUME NEW w \in Writers, LoseConnection(w) PROVE Goal
  <2>1. pc'[w] = "caught"
    BY <1>7 DEF LoseConnection, Abort, TypeOK
  <2>2. UNCHANGED <<value, version, applied>> \/ Installs(w)
    BY <1>7 DEF LoseConnection, Installs, db
  <2> QED
    BY <2>1, <2>2
<1>8. ASSUME NEW w \in Writers, Again(w) PROVE Goal
  BY <1>8 DEF Again, IsRetryable, RETRYABLE_SQLSTATES, db
<1>9. ASSUME NEW w \in Writers, GiveUp(w) PROVE Goal
  BY <1>9 DEF GiveUp, db
<1>10. CASE UNCHANGED vars
  BY <1>10 DEF vars
<1> QED
  BY <1>1, <1>2, <1>3, <1>4, <1>5, <1>6, <1>7, <1>8, <1>9, <1>10 DEF Next, Step, AllEnded

\* A writer commits the rows of its path, all of them and no others, for the
\* first time.
LEMMA InstallPath ==
    ASSUME TypeOK, PhaseInv, PathInv, NEW w \in Writers, Installs(w)
    PROVE  /\ applied[w] = 0
           /\ applied' = [applied EXCEPT ![w] = 1]
           /\ \A x \in Rows : w \in WritersOf(x) <=> lock[x] = w
<1>1. applied[w] = 0
  BY DEF TypeOK, PhaseInv, Installs
<1>2. applied' = [applied EXCEPT ![w] = 1]
  BY <1>1 DEF Installs, Install, TypeOK
<1>3. \A x \in Rows : ~ InSeq(x, todo[w])
  BY DEF Installs, InSeq
<1>4. \A x \in Rows : w \in WritersOf(x) <=> lock[x] = w
  BY <1>3 DEF Installs, PathInv, InSeq, WritersOf
<1> QED
  BY <1>1, <1>2, <1>4

\* A commit adds one to each row of the writer's path, and the writer to those
\* that have committed.
LEMMA CountStep ==
    ASSUME TypeOK, PhaseInv, SnapInv, PathInv, NoLostUpdate, [Next]_vars
    PROVE  NoLostUpdate'
<1> DEFINE S(x) == {w \in WritersOf(x) : applied[w] > 0}
           T(x) == {w \in WritersOf(x) : applied'[w] > 0}
<1> SUFFICES ASSUME NEW x \in Rows PROVE value'[x] = Cardinality(T(x))
  BY DEF NoLostUpdate, WritersOf
<1>1. value[x] = Cardinality(S(x))
  BY DEF NoLostUpdate
<1>2. CASE UNCHANGED <<value, version, applied>>
  BY <1>1, <1>2
<1>3. ASSUME NEW w \in Writers, Installs(w) PROVE value'[x] = Cardinality(T(x))
  <2>1. /\ applied[w] = 0
        /\ applied' = [applied EXCEPT ![w] = 1]
        /\ w \in WritersOf(x) <=> lock[x] = w
    BY <1>3, InstallPath
  <2>2. /\ lock[x] = w => value'[x] = value[x] + 1
        /\ lock[x] # w => value'[x] = value[x]
    BY <1>3, InstallRows DEF Installs
  <2>3. CASE lock[x] = w
    <3>1. T(x) = S(x) \cup {w} /\ w \notin S(x)
      BY <2>1, <2>3 DEF TypeOK, WritersOf
    <3>2. IsFiniteSet(S(x))
      BY FS_Subset DEF WritersOf
    <3>3. Cardinality(T(x)) = Cardinality(S(x)) + 1
      BY <3>1, <3>2, FS_AddElement
    <3> QED
      BY <1>1, <2>2, <2>3, <3>3
  <2>4. CASE lock[x] # w
    <3>1. T(x) = S(x)
      BY <2>1, <2>4 DEF TypeOK, WritersOf
    <3> QED
      BY <1>1, <2>2, <2>4, <3>1
  <2> QED
    BY <2>3, <2>4
<1> QED
  BY <1>2, <1>3, InstallStep

\* The others that have committed only become more, by one with each commit.
LEMMA OthersStep ==
    ASSUME TypeOK, PhaseInv, PathInv, [Next]_vars, NEW w \in Writers
    PROVE  /\ Cardinality(Others(w)) \in Nat
           /\ Cardinality(Others(w)') \in Nat
           /\ Cardinality(Others(w)) <= Cardinality(Others(w)')
           /\ \A q \in Writers \ {w} : Installs(q) => Cardinality(Others(w)') = Cardinality(Others(w)) + 1
<1>1. IsFiniteSet(Others(w)) /\ IsFiniteSet(Others(w)')
  BY FS_Subset DEF Others
<1>2. Cardinality(Others(w)) \in Nat /\ Cardinality(Others(w)') \in Nat
  BY <1>1, FS_CardinalityType
<1>3. ASSUME NEW q \in Writers, Installs(q) PROVE applied[q] = 0 /\ applied' = [applied EXCEPT ![q] = 1]
  BY <1>3, InstallPath
<1>4. Others(w) \subseteq Others(w)'
  <2>1. CASE UNCHANGED <<value, version, applied>>
    BY <2>1 DEF Others
  <2>2. ASSUME NEW q \in Writers, Installs(q) PROVE Others(w) \subseteq Others(w)'
    <3>1. applied' = [applied EXCEPT ![q] = 1]
      BY <1>3, <2>2
    <3>2. \A r \in Writers : applied[r] > 0 => applied'[r] > 0
      BY <3>1 DEF TypeOK
    <3> QED
      BY <3>2 DEF Others
  <2> QED
    BY <2>1, <2>2, InstallStep
<1>5. Cardinality(Others(w)) <= Cardinality(Others(w)')
  BY <1>1, <1>4, FS_Subset
<1>6. ASSUME NEW q \in Writers \ {w}, Installs(q)
      PROVE  Cardinality(Others(w)') = Cardinality(Others(w)) + 1
  <2>1. q \notin Others(w) /\ Others(w)' = Others(w) \cup {q}
    BY <1>3, <1>6 DEF Others, TypeOK
  <2> QED
    BY <1>1, <2>1, FS_AddElement
<1> QED
  BY <1>2, <1>5, <1>6

\* A snapshot becomes outdated only when another writer commits, and the
\* conflict that follows ends the attempt.
LEMMA PaidStep ==
    ASSUME TypeOK, PhaseInv, SnapInv, PathInv, PaidInv, [Next]_vars
    PROVE  PaidInv'
<1> SUFFICES ASSUME NEW w \in Writers
             PROVE  /\ conflicts'[w] <= Cardinality(Others(w)')
                    /\ pc'[w] \in {"barrier", "write"} /\ Outdated(w)'
                          => conflicts'[w] + 1 <= Cardinality(Others(w)')
  BY DEF PaidInv
<1> DEFINE before == Cardinality(Others(w))
           after == Cardinality(Others(w)')
<1>1. /\ before \in Nat /\ after \in Nat /\ before <= after
      /\ \A q \in Writers \ {w} : Installs(q) => after = before + 1
  BY OthersStep
<1>2. /\ conflicts[w] \in Nat /\ conflicts[w] <= before
      /\ pc[w] \in {"barrier", "write"} /\ Outdated(w) => conflicts[w] + 1 <= before
  BY DEF PaidInv, TypeOK
<1> HIDE DEF before, after
<1>3. CASE Conflict(w)
  <2>1. conflicts'[w] = conflicts[w] + 1 /\ pc'[w] = "caught" /\ pc[w] = "write"
    BY <1>3 DEF Conflict, Abort, TypeOK
  <2>2. Head(todo[w]) \in Rows
    BY <1>3 DEF Conflict, TypeOK
  <2>3. Outdated(w)
    BY <1>3, <2>2 DEF Conflict, Outdated
  <2>4. conflicts'[w] <= after
    BY <1>1, <1>2, <2>1, <2>3
  <2> QED
    BY <2>1, <2>4 DEF after
<1>4. CASE ~ Conflict(w)
  <2>1. conflicts'[w] = conflicts[w]
    BY <1>4, WriterStep
  <2>2. ASSUME pc'[w] \in {"barrier", "write"}, Outdated(w)' PROVE conflicts[w] + 1 <= after
    <3>1. ~ Read(w)
      <4> SUFFICES ASSUME Read(w) PROVE ~ Outdated(w)'
        BY <2>2
      <4>1. snapshot'[w].version = version'
        BY DEF Read, db, TypeOK
      <4> QED
        BY <4>1 DEF Outdated
    <3>2. pc[w] \in {"barrier", "write"} /\ snapshot'[w] = snapshot[w]
      BY <2>2, <3>1, WriterStep
    <3>3. CASE Outdated(w)
      BY <1>1, <1>2, <3>2, <3>3
    <3>4. CASE ~ Outdated(w)
      <4>1. version' # version
        BY <2>2, <3>2, <3>4 DEF Outdated
      <4>2. PICK q \in Writers : Installs(q) /\ pc'[q] \in {"returned", "caught"}
        BY <4>1, InstallStep
      <4>3. q # w
        BY <2>2, <4>2
      <4> QED
        BY <1>1, <1>2, <4>2, <4>3
    <3> QED
      BY <3>3, <3>4
  <2>3. conflicts[w] <= after
    BY <1>1, <1>2
  <2> QED
    BY <2>1, <2>2, <2>3 DEF after
<1> QED
  BY <1>3, <1>4

\* The barrier opens when everyone is there.
LEMMA OpenedMeansAll == ASSUME TypeOK, Opened PROVE arrived = Parties
<1>1. IsFiniteSet(Parties)
  BY FS_Subset
<1>2. arrived \subseteq Parties
  BY DEF TypeOK
<1>3. /\ Cardinality(arrived) \in Nat /\ Cardinality(Parties) \in Nat
      /\ Cardinality(arrived) = Cardinality(Parties) => arrived = Parties
      /\ Cardinality(arrived) <= Cardinality(Parties)
  BY <1>1, <1>2, FS_Subset, FS_CardinalityType
<1> QED
  BY <1>3 DEF Opened

\* A party writes for the first time only when all have read.
LEMMA ArrivedStep == ASSUME TypeOK, ArrivedInv, [Next]_vars PROVE ArrivedInv'
<1> USE DEF TypeOK, ArrivedInv
<1>1. ASSUME NEW w \in Writers, Read(w) PROVE ArrivedInv'
  BY <1>1 DEF Read, db
<1>2. ASSUME NEW w \in Writers, Pass(w) PROVE ArrivedInv'
  BY <1>2, OpenedMeansAll DEF Pass, db
<1>3. ASSUME NEW w \in Writers, Write(w) PROVE ArrivedInv'
  BY <1>3 DEF Write, db
<1>4. ASSUME NEW w \in Writers, Conflict(w) PROVE ArrivedInv'
  BY <1>4 DEF Conflict, Abort, ReleaseLocks, db
<1>5. ASSUME NEW w \in Writers, Deadlock(w) PROVE ArrivedInv'
  BY <1>5 DEF Deadlock, Abort, ReleaseLocks, db, InDeadlock, Waits
<1>6. ASSUME NEW w \in Writers, Commit(w) PROVE ArrivedInv'
  BY <1>6 DEF Commit, Install, ReleaseLocks
<1>7. ASSUME NEW w \in Writers, LoseConnection(w) PROVE ArrivedInv'
  BY <1>7 DEF LoseConnection, Install, Abort, ReleaseLocks, db
<1>8. ASSUME NEW w \in Writers, Again(w) PROVE ArrivedInv'
  BY <1>8 DEF Again, IsRetryable, RETRYABLE_SQLSTATES, db
<1>9. ASSUME NEW w \in Writers, GiveUp(w) PROVE ArrivedInv'
  BY <1>9 DEF GiveUp, db
<1>10. CASE UNCHANGED vars
  BY <1>10 DEF vars
<1> QED
  BY <1>1, <1>2, <1>3, <1>4, <1>5, <1>6, <1>7, <1>8, <1>9, <1>10 DEF Next, Step, AllEnded

\* A party that commits at its first attempt overtakes the others that update
\* one of its rows: all have read before, and will not read again.
LEMMA OvertakenStep ==
    ASSUME TypeOK, PhaseInv, SnapInv, PathInv, ArrivedInv, OvertakenInv, [Next]_vars
    PROVE  OvertakenInv'
<1> SUFFICES ASSUME NEW w \in Parties, NEW q \in Parties, NEW x \in Rows,
                    attempt'[w] = 1, applied'[w] = 1, q # w, attempt'[q] = 1,
                    w \in WritersOf(x), q \in WritersOf(x)
             PROVE  applied'[q] = 0 /\ snapshot'[q].version[x] < version'[x]
  BY DEF OvertakenInv, WritersOf
<1> w \in Writers /\ q \in Writers
  OBVIOUS
<1>1. attempt[w] = 1 /\ attempt[q] = 1
  <2>1. attempt'[w] \in {attempt[w], attempt[w] + 1} /\ attempt'[q] \in {attempt[q], attempt[q] + 1}
    BY WriterStep
  <2>2. attempt[w] \in Nat \ {0} /\ attempt[q] \in Nat \ {0}
    <3>1. attempt \in [Writers -> Nat \ {0}]
      BY DEF TypeOK
    <3> QED
      BY <3>1
  <2> QED
    BY <2>1, <2>2
<1>2. version[x] \in Nat /\ snapshot[q].version[x] \in Nat /\ snapshot[w].version[x] \in Nat
  <2>1. version \in [Rows -> Nat] /\ snapshot \in [Writers -> [value : Values, version : [Rows -> Nat]]]
    BY DEF TypeOK, Values
  <2>2. snapshot[q].version \in [Rows -> Nat] /\ snapshot[w].version \in [Rows -> Nat]
    BY <2>1
  <2> QED
    BY <2>1, <2>2
<1>3. version'[x] = version[x] \/ version'[x] = version[x] + 1
  BY RowStep
<1>4. ASSUME NEW r \in Writers, Installs(r), r \in WritersOf(x)
      PROVE  snapshot[r].version[x] = version[x] /\ version'[x] = version[x] + 1
  <2>1. lock[x] = r
    BY <1>4, InstallPath
  <2>2. r # NoOne
    OBVIOUS
  <2> QED
    BY <1>4, <2>1, <2>2, InstallRows DEF SnapInv, HolderInv, Installs
<1>5. ASSUME NEW r \in Writers, applied'[r] # applied[r] PROVE Installs(r)
  <2>1. ASSUME NEW p \in Writers, Installs(p) PROVE p = r
    <3>1. applied' = [applied EXCEPT ![p] = 1]
      BY <2>1, InstallPath
    <3> QED
      BY <1>5, <3>1 DEF TypeOK
  <2> QED
    BY <1>5, <2>1, InstallStep
<1>6. ASSUME snapshot'[q] # snapshot[q] PROVE q \notin arrived
  <2>1. Read(q)
    BY <1>6, WriterStep
  <2> QED
    BY <1>1, <2>1 DEF Read, ArrivedInv
<1>7. CASE applied[w] = 1
  <2>1. applied[q] = 0 /\ snapshot[q].version[x] < version[x]
    BY <1>1, <1>7 DEF OvertakenInv
  <2>2. applied'[q] = 0
    BY <1>2, <1>4, <1>5, <2>1
  <2>3. snapshot'[q] = snapshot[q]
    BY <1>1, <1>6, <1>7 DEF ArrivedInv
  <2> QED
    BY <1>2, <1>3, <2>1, <2>2, <2>3
<1>8. CASE applied[w] # 1
  <2>1. Installs(w)
    BY <1>5, <1>8
  <2>2. snapshot[w].version[x] = version[x] /\ version'[x] = version[x] + 1
    BY <1>4, <2>1
  <2>3. applied[q] = 0
    <3>1. applied[q] # 1
      BY <1>1, <1>2, <2>2 DEF OvertakenInv
    <3> QED
      BY <3>1 DEF TypeOK
  <2>4. applied'[q] = 0
    <3>1. applied' = [applied EXCEPT ![w] = 1]
      BY <2>1, InstallPath
    <3> QED
      BY <2>3, <3>1 DEF TypeOK
  <2>5. arrived = Parties
    BY <1>1, <2>1 DEF ArrivedInv, Installs
  <2>6. snapshot'[q] = snapshot[q]
    BY <1>6, <2>5
  <2>7. snapshot[q].version[x] <= version[x]
    BY DEF SnapInv, SnapshotInv
  <2> QED
    BY <1>2, <2>2, <2>4, <2>6, <2>7
<1> QED
  BY <1>7, <1>8

\* IInv is an invariant of the specification.
THEOREM Invariance == Spec => []IInv
<1>1. Init => IInv
  BY InitIInv
<1>2. IInv /\ [Next]_vars => IInv'
  <2> SUFFICES ASSUME IInv, [Next]_vars PROVE IInv'
    OBVIOUS
  <2>1. TypeOK' /\ PhaseInv'
    BY TypeStep, PhaseStep DEF IInv
  <2>2. SnapInv' /\ PathInv'
    BY SnapshotStep, HolderStep, PathStep DEF IInv, SnapInv
  <2>3. NoLostUpdate' /\ PaidInv'
    BY CountStep, PaidStep DEF IInv
  <2>4. ArrivedInv' /\ OvertakenInv'
    BY ArrivedStep, OvertakenStep DEF IInv
  <2> QED
    BY <2>1, <2>2, <2>3, <2>4 DEF IInv
<1> QED
  BY <1>1, <1>2, PTL DEF Spec

\* retry.ts: however often withRetry runs a transaction again, its changes are
\* committed at most once, once if it returned, and not at all if it threw an
\* error that is retried.
THEOREM CommittedAtMostOnceHolds == Spec => []CommittedAtMostOnce
<1>1. IInv => CommittedAtMostOnce
  BY DEF IInv, TypeOK, PhaseInv, CommittedAtMostOnce, RETRYABLE_SQLSTATES
<1> QED
  BY <1>1, Invariance, PTL

\* demo-retry.ts: a row holds one increment for each of its writers that has
\* committed.
THEOREM NoLostUpdateHolds == Spec => []NoLostUpdate
<1>1. IInv => NoLostUpdate
  BY DEF IInv
<1> QED
  BY <1>1, Invariance, PTL

\* A writer has met no more serialization failures than others have committed.
THEOREM ConflictsAreProgressHolds == Spec => []ConflictsAreProgress
<1>1. IInv => ConflictsAreProgress
  BY DEF IInv, PaidInv, Others, ConflictsAreProgress
<1> QED
  BY <1>1, Invariance, PTL

\* demo-retry.ts: of the parties that update a row one at most commits at its
\* first attempt; so if two parties share a row, as all the demo's writers do,
\* and every call returns, the verdict is OK.
THEOREM BarrierForcesConflictHolds ==
    ASSUME NEW row \in Rows,
           NEW one \in WritersOf(row) \cap Parties,
           NEW other \in WritersOf(row) \cap Parties,
           one # other
    PROVE  Spec => []BarrierForcesConflict
<1>1. ASSUME IInv PROVE BarrierForcesConflict
  <2> USE <1>1 DEF IInv
  <2> DEFINE First(x) == {w \in WritersOf(x) \cap Parties : applied[w] > 0 /\ attempt[w] = 1}
  <2>1. ASSUME NEW x \in Rows, NEW w \in First(x), NEW q \in First(x) PROVE w = q
    <3>1. applied[w] = 1 /\ applied[q] = 1
      BY SMTT(60), <2>1 DEF TypeOK, WritersOf
    <3> QED
      BY <2>1, <3>1 DEF OvertakenInv
  <2>2. ASSUME NEW x \in Rows PROVE Cardinality(First(x)) <= 1
    <3>1. ASSUME First(x) = {} PROVE Cardinality(First(x)) = 0
      <4> HIDE DEF First
      <4> QED
        BY <3>1, FS_EmptySet
    <3>2. ASSUME NEW w \in First(x) PROVE Cardinality(First(x)) = 1
      <4>1. First(x) = {w}
        BY <2>1, <3>2
      <4> QED
        BY <4>1, FS_Singleton
    <3> HIDE DEF First
    <3> QED
      BY <3>1, <3>2
  <2>3. ASSUME \A w \in Writers : pc[w] = "returned" PROVE Verdict
    <3>1. \A w \in Writers : applied[w] = 1 /\ error[w] # "08006"
      BY <2>3 DEF PhaseInv
    <3>2. \E w \in Writers : attempt[w] > 1
      <4>1. one \in Writers /\ other \in Writers
        BY DEF WritersOf
      <4>2. ~ (attempt[one] = 1 /\ attempt[other] = 1)
        BY <2>1, <3>1, <4>1
      <4> QED
        BY <4>1, <4>2 DEF TypeOK
    <3>3. ASSUME NEW x \in Rows PROVE value[x] = Cardinality(WritersOf(x))
      <4>1. {w \in WritersOf(x) : applied[w] > 0} = WritersOf(x)
        BY <3>1 DEF WritersOf
      <4> QED
        BY <4>1 DEF NoLostUpdate
    <3>4. \A w \in Writers : error[w] \in RETRYABLE_SQLSTATES \cup {"none"}
      BY <3>1 DEF TypeOK, RETRYABLE_SQLSTATES
    <3> QED
      BY <3>2, <3>3, <3>4 DEF Verdict
  <2> QED
    BY <2>2, <2>3 DEF BarrierForcesConflict
<1> QED
  BY <1>1, Invariance, PTL

-----------------------------------------------------------------------------
(* Rotation.                                                               *)

RotationTypeOK ==
    /\ via \in {"direct", "bouncer"}
    /\ role \in Nat /\ file \in Nat /\ userlist \in Nat /\ new \in Nat /\ imported \in Nat
    /\ script \in {"idle", "altered", "written", "terminated"}
    /\ pooler \in BOOLEAN /\ running \in BOOLEAN
    /\ conns \in [Pools -> [Slots -> Nat \cup {None}]]
    /\ broken \in [Pools -> SUBSET Slots]
    /\ probe \in [Probes -> {"none", "waiting", "ok", "failed"}]
    /\ server \in Nat \cup {None}
    /\ complete \in BOOLEAN /\ seeded \in BOOLEAN
    /\ failures \in Nat

\* What each step of rotate.sh has brought into agreement.
StepDone ==
    /\ script # "idle" \/ complete => role = new
    /\ script \in {"written", "terminated"} \/ (script = "idle" /\ complete) => file = new
    /\ script = "idle" /\ complete /\ ~seeded /\ pooler => userlist = new

\* No backend of Postgres has an older password.
NoOld ==
    /\ via = "direct" => \A p \in Pools : \A s \in Slots : conns[p][s] \in {None, role}
    /\ server \in {None, role}

\* Each 503 after a rotation has used up a client that was cut off.
PaidFor == Settled => failures + Cardinality(broken["pg"]) <= PoolMax

\* TypeORM's pool has logged in with no other password than its process has.
OnePassword == \A s \in Slots : conns["typeorm"][s] \in {None, imported}

\* The inductive invariant: NoOldBackend has to hold from the termination on,
\* when the script has one more step to go.
RotationIInv ==
    /\ RotationTypeOK
    /\ StepDone
    /\ script = "terminated" \/ (script = "idle" /\ complete) => NoOld
    /\ PaidFor
    /\ OnePassword

\* A pool has at most PoolMax clients, so no more can be cut off, and one less
\* once one is removed.
LEMMA BrokenSlots ==
    ASSUME NEW S \in SUBSET Slots
    PROVE  /\ IsFiniteSet(S) /\ Cardinality(S) \in 0..PoolMax
           /\ \A s \in S : Cardinality(S \ {s}) = Cardinality(S) - 1
  <1>1. IsFiniteSet(Slots) /\ Cardinality(Slots) = PoolMax
    <2>1. 1 \in Int /\ PoolMax \in Int /\ PoolMax - 1 + 1 = PoolMax /\ ~ (1 > PoolMax)
      BY BoundsAssumption
    <2> QED BY <2>1, FS_Interval DEF Slots
  <1>2. IsFiniteSet(S) /\ Cardinality(S) <= PoolMax
    BY <1>1, FS_Subset
  <1>3. Cardinality(S) \in Nat
    BY <1>2, FS_CardinalityType
  <1>4. \A s \in S : Cardinality(S \ {s}) = Cardinality(S) - 1
    BY <1>2, FS_RemoveElement
  <1> QED BY <1>2, <1>3, <1>4, BoundsAssumption

\* The state after the first deployment satisfies the invariant.
LEMMA RotationInitInv == RotationInit => RotationIInv
  <1> SUFFICES ASSUME RotationInit PROVE RotationIInv
    OBVIOUS
  <1>1. RotationTypeOK
    BY DEF RotationInit, RotationTypeOK, NoConnection
  <1>2. StepDone
    BY DEF RotationInit, StepDone
  <1>3. NoOld
    BY DEF RotationInit, NoOld, NoConnection
  <1>4. PaidFor
    <2>1. broken["pg"] = {} /\ failures = 0
      BY DEF RotationInit, Pools
    <2>2. Cardinality(broken["pg"]) = 0
      BY <2>1, FS_EmptySet
    <2> QED BY <2>1, <2>2, BoundsAssumption DEF PaidFor
  <1>5. OnePassword
    BY DEF RotationInit, OnePassword, NoConnection, Pools
  <1> QED BY <1>1, <1>2, <1>3, <1>4, <1>5 DEF RotationIInv

\* Every step keeps the types.
LEMMA RotationTypes == ASSUME RotationTypeOK, [RotationNext]_rotationVars PROVE RotationTypeOK'
  <1> USE DEF RotationTypeOK, app, history, secrets
  <1>1. CASE Alter
    BY <1>1 DEF Alter
  <1>2. CASE WriteSecret
    BY <1>2 DEF WriteSecret
  <1>3. CASE Terminate
    BY <1>3 DEF Terminate, CutOff, Open, NoConnection
  <1>4. CASE UpdateUserlist
    BY <1>4 DEF UpdateUserlist, Done
  <1>5. CASE Interrupt
    BY <1>5 DEF Interrupt
  <1>6. ASSUME NEW p \in Pools, NEW s \in Slots, PoolStep(p, s) PROVE RotationTypeOK'
    <2>1. CASE Connect(p, s)
      BY <2>1 DEF Connect, Password
    <2>2. CASE DropBroken(p, s)
      BY <2>2 DEF DropBroken
    <2>3. CASE CloseIdle(p, s)
      BY <2>3 DEF CloseIdle
    <2> QED BY <1>6, <2>1, <2>2, <2>3 DEF PoolStep
  <1>7. CASE Restart
    BY <1>7 DEF Restart, NoConnection
  <1>8. CASE ServerLogin
    BY <1>8 DEF ServerLogin
  <1>9. CASE ServerClose
    BY <1>9 DEF ServerClose
  <1>10. CASE StopBouncer
    <2>1. conns' \in [Pools -> [Slots -> Nat \cup {None}]] /\ broken' \in [Pools -> SUBSET Slots]
      BY <1>10 DEF StopBouncer, CutOff, Open, NoConnection
    <2> QED BY <1>10, <2>1 DEF StopBouncer
  <1>11. CASE StartBouncer
    BY <1>11 DEF StartBouncer
  <1>12. ASSUME NEW q \in Probes, ProbeStep(q) PROVE RotationTypeOK'
    <2>1. CASE Ask(q)
      BY <2>1 DEF Ask
    <2>2. CASE Answer(q)
      BY <2>2 DEF Answer
    <2>3. CASE FailRefused(q)
      BY <2>3 DEF FailRefused, Fail
    <2>4. ASSUME NEW s \in Slots, FailBroken(q, s) PROVE RotationTypeOK'
      <3>1. broken' \in [Pools -> SUBSET Slots] /\ conns' = conns
        BY <2>4 DEF FailBroken, Pools
      <3> QED BY <2>4, <3>1 DEF FailBroken, Fail
    <2>5. ASSUME NEW s \in Slots, FailUnserved(q, s) PROVE RotationTypeOK'
      <3>1. conns' \in [Pools -> [Slots -> Nat \cup {None}]] /\ broken' = broken
        BY <2>5 DEF FailUnserved, Pools
      <3> QED BY <2>5, <3>1 DEF FailUnserved, Fail
    <2> QED BY <1>12, <2>1, <2>2, <2>3, <2>4, <2>5 DEF ProbeStep
  <1>13. CASE UNCHANGED rotationVars
    BY <1>13 DEF rotationVars
  <1> QED BY <1>1, <1>2, <1>3, <1>4, <1>5, <1>6, <1>7, <1>8, <1>9, <1>10, <1>11, <1>12, <1>13
          DEF RotationNext

\* A step of a pool or of a request adds at most a connection with a password that
\* was accepted.
LEMMA AppStepNoOld ==
    ASSUME RotationTypeOK, NoOld, StepDone, script = "terminated" \/ (script = "idle" /\ complete),
           \/ \E p \in Pools, s \in Slots : PoolStep(p, s)
           \/ \E q \in Probes : ProbeStep(q)
    PROVE  NoOld'
  <1> USE DEF app, history, secrets
  <1>1. ASSUME NEW p \in Pools, NEW s \in Slots, PoolStep(p, s) PROVE NoOld'
    <2>1. server' = server /\ role' = role /\ via' = via
      BY <1>1 DEF PoolStep, Connect, DropBroken, CloseIdle
    <2>2. ASSUME via = "direct", NEW q \in Pools, NEW t \in Slots PROVE conns'[q][t] \in {None, role}
      <3>1. CASE Connect(p, s)
        BY <3>1, <2>2 DEF Connect, Accepted, NoOld, RotationTypeOK
      <3>2. CASE DropBroken(p, s)
        BY <3>2, <2>2 DEF DropBroken, NoOld
      <3>3. CASE CloseIdle(p, s)
        BY <3>3, <2>2 DEF CloseIdle, NoOld, RotationTypeOK
      <3> QED BY <1>1, <3>1, <3>2, <3>3 DEF PoolStep
    <2> QED BY <2>1, <2>2 DEF NoOld
  <1>2. ASSUME NEW q \in Probes, ProbeStep(q) PROVE NoOld'
    <2>1. CASE Ask(q)
      BY <2>1 DEF Ask, NoOld
    <2>2. CASE Answer(q)
      BY <2>2 DEF Answer, Reachable, NoOld
    <2>3. CASE FailRefused(q)
      BY <2>3 DEF FailRefused, Fail, NoOld
    <2>4. ASSUME NEW s \in Slots, FailBroken(q, s) PROVE NoOld'
      BY <2>4 DEF FailBroken, Fail, NoOld
    <2>5. ASSUME NEW s \in Slots, FailUnserved(q, s) PROVE NoOld'
      BY <2>5 DEF FailUnserved, Fail, NoOld, RotationTypeOK
    <2> QED BY <1>2, <2>1, <2>2, <2>3, <2>4, <2>5 DEF ProbeStep
  <1> QED BY <1>1, <1>2

\* After a rotation that ran to its end everything that checks the password of the
\* pg pool has it.
LEMMA SettledServes ==
    ASSUME RotationTypeOK, StepDone, Settled
    PROVE  /\ Accepted("pg") /\ Reachable
           /\ imported = file <=> Accepted("typeorm")
           /\ role = file
  <1>1. role = new /\ file = new /\ (via = "bouncer" => pooler /\ userlist = new)
    BY DEF StepDone, Settled
  <1> QED BY <1>1 DEF Accepted, Password, Reachable, RotationTypeOK

\* A rotation that ends starts the count; a 503 after it uses up a broken client.
LEMMA PaidForStep == ASSUME RotationIInv, [RotationNext]_rotationVars PROVE PaidFor'
  <1> USE DEF app, history, secrets
  <1>0. /\ RotationTypeOK /\ StepDone /\ PaidFor /\ RotationTypeOK'
        /\ broken["pg"] \in SUBSET Slots /\ broken'["pg"] \in SUBSET Slots
        /\ failures \in Nat /\ failures' \in Nat /\ PoolMax \in Nat
    <2>1. RotationTypeOK /\ StepDone /\ PaidFor
      BY DEF RotationIInv
    <2>2. RotationTypeOK'
      BY <2>1, RotationTypes
    <2> QED BY <2>1, <2>2, BoundsAssumption DEF RotationTypeOK, Pools
  <1> DEFINE B == Cardinality(broken["pg"])
             C == Cardinality(broken'["pg"])
  <1>1. B \in 0..PoolMax /\ C \in 0..PoolMax
    BY <1>0, BrokenSlots
  <1> HIDE DEF B, C
  <1>2. ASSUME Settled' => Settled, C <= B, failures' = failures PROVE PaidFor'
    BY <1>0, <1>1, <1>2 DEF PaidFor, B, C
  <1>3. ASSUME ~Settled' PROVE PaidFor'
    BY <1>3 DEF PaidFor
  <1>4. CASE Alter \/ WriteSecret \/ Terminate \/ Interrupt
    <2>1. ~Settled'
      BY <1>4 DEF Alter, WriteSecret, Terminate, Interrupt, Settled
    <2> QED BY <1>3, <2>1
  <1>5. CASE UpdateUserlist
    <2>1. failures' = 0
      BY <1>5 DEF UpdateUserlist, Done
    <2> QED BY <1>1, <2>1 DEF PaidFor, C
  <1>6. ASSUME NEW p \in Pools, NEW s \in Slots, PoolStep(p, s) PROVE PaidFor'
    <2>1. failures' = failures /\ (Settled' => Settled)
      BY <1>6 DEF PoolStep, Connect, DropBroken, CloseIdle, Settled
    <2>2. C <= B
      <3>1. CASE broken' = broken
        BY <1>1, <3>1 DEF B, C
      <3>2. CASE DropBroken(p, s)
        <4>1. CASE p = "pg"
          <5>1. broken'["pg"] = broken["pg"] \ {s} /\ s \in broken["pg"]
            BY <3>2, <4>1, <1>0 DEF DropBroken, RotationTypeOK
          <5> QED BY <1>0, <1>1, <5>1, BrokenSlots DEF B, C
        <4>2. CASE p # "pg"
          <5>1. broken'["pg"] = broken["pg"]
            BY <3>2, <4>2, <1>0 DEF DropBroken, RotationTypeOK, Pools
          <5> QED BY <1>1, <5>1 DEF B, C
        <4> QED BY <4>1, <4>2
      <3> QED BY <1>6, <3>1, <3>2 DEF PoolStep, Connect, CloseIdle
    <2> QED BY <1>2, <2>1, <2>2
  <1>7. CASE Restart
    <2>1. failures' = failures /\ (Settled' => Settled)
      BY <1>7 DEF Restart, Settled
    <2>2. broken'["pg"] = {}
      BY <1>7 DEF Restart, Pools
    <2>3. C = 0
      BY <2>2, FS_EmptySet DEF C
    <2> QED BY <1>1, <1>2, <2>1, <2>3
  <1>8. CASE ServerLogin \/ ServerClose
    <2>1. failures' = failures /\ broken' = broken /\ (Settled' => Settled)
      BY <1>8 DEF ServerLogin, ServerClose, Settled
    <2> QED BY <1>1, <1>2, <2>1 DEF B, C
  <1>9. CASE StopBouncer
    <2>1. CASE via = "bouncer"
      <3>1. ~Settled'
        BY <1>9, <2>1 DEF StopBouncer, Settled
      <3> QED BY <1>3, <3>1
    <2>2. CASE via # "bouncer"
      <3>1. failures' = failures /\ broken' = broken /\ (Settled' => Settled)
        BY <1>9, <2>2 DEF StopBouncer, Settled
      <3> QED BY <1>1, <1>2, <3>1 DEF B, C
    <2> QED BY <2>1, <2>2
  <1>10. CASE StartBouncer
    <2>1. failures' = failures /\ broken' = broken /\ (Settled' => Settled)
      BY <1>10 DEF StartBouncer, Settled
    <2> QED BY <1>1, <1>2, <2>1 DEF B, C
  <1>11. ASSUME NEW q \in Probes, ProbeStep(q) PROVE PaidFor'
    <2>1. CASE Ask(q) \/ Answer(q)
      <3>1. failures' = failures /\ broken' = broken /\ (Settled' => Settled)
        BY <2>1 DEF Ask, Answer, Settled
      <3> QED BY <1>1, <1>2, <3>1 DEF B, C
    <2>2. ASSUME Fail(q) PROVE (Settled' <=> Settled) /\ (Settled => failures' = failures + 1)
      BY <2>2 DEF Fail, Settled
    <2>3. CASE FailRefused(q)
      <3>1. ~Settled
        BY <1>0, <2>3, SettledServes DEF FailRefused
      <3> QED BY <1>3, <2>2, <2>3, <3>1 DEF FailRefused
    <2>4. ASSUME NEW s \in Slots, FailUnserved(q, s) PROVE PaidFor'
      <3>1. ~Settled
        BY <1>0, <2>4, SettledServes DEF FailUnserved
      <3> QED BY <1>3, <2>2, <2>4, <3>1 DEF FailUnserved
    <2>5. ASSUME NEW s \in Slots, FailBroken(q, s) PROVE PaidFor'
      <3>1. broken'["pg"] = broken["pg"] \ {s} /\ s \in broken["pg"]
        BY <2>5, <1>0 DEF FailBroken, RotationTypeOK, Pools
      <3>2. C = B - 1
        BY <1>0, <3>1, BrokenSlots DEF B, C
      <3>3. CASE Settled
        <4>1. failures' = failures + 1 /\ failures + B <= PoolMax
          BY <1>0, <2>2, <2>5, <3>3 DEF FailBroken, PaidFor, B
        <4> QED BY <1>0, <1>1, <3>2, <4>1 DEF PaidFor, C
      <3>4. CASE ~Settled
        BY <1>3, <2>2, <2>5, <3>4 DEF FailBroken
      <3> QED BY <3>3, <3>4
    <2> QED BY <1>11, <2>1, <2>3, <2>4, <2>5 DEF ProbeStep
  <1>12. CASE UNCHANGED rotationVars
    <2>1. failures' = failures /\ broken' = broken /\ (Settled' => Settled)
      BY <1>12 DEF rotationVars, Settled
    <2> QED BY <1>1, <1>2, <2>1 DEF B, C
  <1> QED BY <1>4, <1>5, <1>6, <1>7, <1>8, <1>9, <1>10, <1>11, <1>12 DEF RotationNext

\* TypeORM's connections are cut, closed or opened with the password of the
\* process, and none outlives it.
LEMMA OnePasswordStep ==
    ASSUME RotationTypeOK, OnePassword, [RotationNext]_rotationVars PROVE OnePassword'
  <1> USE DEF app, history, secrets
  <1>1. ASSUME imported' = imported, conns' = conns PROVE OnePassword'
    BY <1>1 DEF OnePassword
  <1>2. ASSUME conns' = NoConnection PROVE OnePassword'
    BY <1>2 DEF OnePassword, NoConnection, Pools
  <1>3. CASE Alter \/ WriteSecret \/ UpdateUserlist \/ Interrupt
    BY <1>1, <1>3 DEF Alter, WriteSecret, UpdateUserlist, Done, Interrupt
  <1>4. CASE Terminate \/ StopBouncer
    BY <1>1, <1>2, <1>4 DEF Terminate, StopBouncer, CutOff
  <1>5. CASE Restart
    BY <1>2, <1>5 DEF Restart
  <1>6. CASE ServerLogin \/ ServerClose \/ StartBouncer
    BY <1>1, <1>6 DEF ServerLogin, ServerClose, StartBouncer
  <1>7. ASSUME NEW p \in Pools, NEW s \in Slots, PoolStep(p, s) PROVE OnePassword'
    <2>1. CASE Connect(p, s)
      BY <2>1 DEF Connect, Password, OnePassword, RotationTypeOK, Pools
    <2>2. CASE CloseIdle(p, s)
      BY <2>2 DEF CloseIdle, OnePassword, RotationTypeOK, Pools
    <2>3. CASE DropBroken(p, s)
      BY <1>1, <2>3 DEF DropBroken
    <2> QED BY <1>7, <2>1, <2>2, <2>3 DEF PoolStep
  <1>8. ASSUME NEW q \in Probes, ProbeStep(q) PROVE OnePassword'
    <2>1. CASE Ask(q) \/ Answer(q) \/ FailRefused(q)
      BY <1>1, <2>1 DEF Ask, Answer, FailRefused, Fail
    <2>2. ASSUME NEW s \in Slots, FailBroken(q, s) PROVE OnePassword'
      BY <1>1, <2>2 DEF FailBroken, Fail
    <2>3. ASSUME NEW s \in Slots, FailUnserved(q, s) PROVE OnePassword'
      <3>1. conns'["typeorm"] = conns["typeorm"] /\ imported' = imported
        BY <2>3 DEF FailUnserved, Fail, RotationTypeOK, Pools
      <3> QED BY <3>1 DEF OnePassword
    <2> QED BY <1>8, <2>1, <2>2, <2>3 DEF ProbeStep
  <1>9. CASE UNCHANGED rotationVars
    BY <1>1, <1>9 DEF rotationVars
  <1> QED BY <1>3, <1>4, <1>5, <1>6, <1>7, <1>8, <1>9 DEF RotationNext

\* Every step of the script, of the pools, of the requests and of PgBouncer keeps
\* the invariant.
LEMMA RotationStep == ASSUME RotationIInv, [RotationNext]_rotationVars PROVE RotationIInv'
  <1> USE DEF app, history, secrets
  <1>0. RotationTypeOK' /\ RotationTypeOK /\ StepDone /\ PaidFor' /\ OnePassword'
    BY RotationTypes, PaidForStep, OnePasswordStep DEF RotationIInv
  <1> DEFINE Guarded == script = "terminated" \/ (script = "idle" /\ complete)
  <1>1. CASE Alter
    BY <1>0, <1>1 DEF Alter, RotationIInv, StepDone
  <1>2. CASE WriteSecret
    BY <1>0, <1>2 DEF WriteSecret, RotationIInv, StepDone
  <1>3. CASE Terminate
    <2>1. StepDone'
      BY <1>0, <1>3 DEF Terminate, StepDone
    <2>2. NoOld'
      <3>1. server' = None /\ via' = via
        BY <1>3 DEF Terminate
      <3>2. via = "direct" => conns' = NoConnection
        BY <1>3 DEF Terminate, CutOff
      <3> QED BY <3>1, <3>2 DEF NoOld, NoConnection
    <2> QED BY <1>0, <2>1, <2>2 DEF RotationIInv
  <1>4. CASE UpdateUserlist
    <2>1. StepDone'
      BY <1>0, <1>4 DEF UpdateUserlist, Done, StepDone, RotationTypeOK
    <2>2. NoOld /\ UNCHANGED <<via, role, conns, server>>
      BY <1>4 DEF UpdateUserlist, Done, RotationIInv
    <2> QED BY <1>0, <2>1, <2>2 DEF RotationIInv, NoOld
  <1>5. CASE Interrupt
    BY <1>0, <1>5 DEF Interrupt, RotationIInv, StepDone
  <1>6. CASE (\E p \in Pools, s \in Slots : PoolStep(p, s)) \/ \E q \in Probes : ProbeStep(q)
    <2>1. UNCHANGED <<via, role, file, userlist, pooler, script, new, complete, seeded>>
      BY <1>6 DEF PoolStep, Connect, DropBroken, CloseIdle, ProbeStep, Ask, Answer, FailRefused,
                  FailBroken, FailUnserved, Fail
    <2>2. StepDone'
      BY <1>0, <2>1 DEF StepDone
    <2>3. Guarded => NoOld'
      BY <1>0, <1>6, AppStepNoOld DEF RotationIInv
    <2> QED BY <1>0, <2>1, <2>2, <2>3 DEF RotationIInv
  <1>7. CASE Restart
    <2>1. StepDone'
      BY <1>0, <1>7 DEF Restart, StepDone
    <2>2. NoOld => NoOld'
      BY <1>7 DEF Restart, NoOld, NoConnection
    <2> QED BY <1>0, <1>7, <2>1, <2>2 DEF RotationIInv, Restart
  <1>8. CASE ServerLogin
    BY <1>0, <1>8 DEF ServerLogin, RotationIInv, StepDone, NoOld
  <1>9. CASE ServerClose
    BY <1>0, <1>9 DEF ServerClose, RotationIInv, StepDone, NoOld
  <1>10. CASE StopBouncer
    <2>1. StepDone'
      BY <1>0, <1>10 DEF StopBouncer, StepDone
    <2>2. NoOld => NoOld'
      <3>1. server' = None /\ via' = via /\ role' = role
        BY <1>10 DEF StopBouncer
      <3>2. via = "direct" => conns' = conns
        BY <1>10 DEF StopBouncer
      <3> QED BY <3>1, <3>2 DEF NoOld
    <2>3. script' = script /\ complete' = complete
      BY <1>10 DEF StopBouncer
    <2> QED BY <1>0, <2>1, <2>2, <2>3 DEF RotationIInv
  <1>11. CASE StartBouncer
    BY <1>0, <1>11 DEF StartBouncer, RotationIInv, StepDone, NoOld
  <1>12. CASE UNCHANGED rotationVars
    BY <1>0, <1>12 DEF rotationVars, RotationIInv, StepDone, NoOld
  <1> QED BY <1>1, <1>2, <1>3, <1>4, <1>5, <1>6, <1>7, <1>8, <1>9, <1>10, <1>11, <1>12
          DEF RotationNext

\* The invariant of the rotation, for every number of rotations.
THEOREM RotationInvariant == RotationSpec => []RotationIInv
  BY RotationInitInv, RotationStep, PTL DEF RotationSpec

\* After a rotation /health/db can be served, and the rest of the application
\* if and only if its process has the current password or still holds a client of
\* PgBouncer.
THEOREM RefusedForAReasonHolds == RotationSpec => []RefusedForAReason
  <1>1. RotationIInv => RefusedForAReason
    <2> SUFFICES ASSUME RotationIInv, Settled
                 PROVE  /\ Serves("pg")
                        /\ Serves("typeorm")
                             <=> imported = file \/ (via = "bouncer" /\ Open("typeorm") # {})
      BY DEF RefusedForAReason
    <2>1. /\ Accepted("pg") /\ Reachable /\ role = file
          /\ imported = file <=> Accepted("typeorm")
      BY SettledServes DEF RotationIInv
    <2>2. via = "direct" /\ Open("typeorm") # {} => imported = file
      BY <2>1 DEF RotationIInv, NoOld, OnePassword, Settled, Open, Pools
    <2>3. via \in {"direct", "bouncer"}
      BY DEF RotationIInv, RotationTypeOK
    <2> QED BY <2>1, <2>2, <2>3 DEF Serves
  <1> QED BY <1>1, RotationInvariant, PTL

\* After a rotation no backend is left that logged in with an older password.
THEOREM NoOldBackendHolds == RotationSpec => []NoOldBackend
  <1>1. RotationIInv => NoOldBackend
    BY DEF RotationIInv, NoOldBackend, NoOld, Settled, Open
  <1> QED BY <1>1, RotationInvariant, PTL

\* For any pool and any number of clients, a completed rotation costs them at most
\* as many 503's as the pool has places.
THEOREM FewProbesFailHolds == RotationSpec => []FewProbesFail
  <1>1. RotationIInv => FewProbesFail
    <2> SUFFICES ASSUME RotationIInv, Settled PROVE failures <= PoolMax
      BY DEF FewProbesFail
    <2>1. failures + Cardinality(broken["pg"]) <= PoolMax
      BY DEF RotationIInv, PaidFor
    <2>2. broken["pg"] \in SUBSET Slots /\ failures \in Nat
      BY DEF RotationIInv, RotationTypeOK, Pools
    <2>3. Cardinality(broken["pg"]) \in 0..PoolMax
      BY <2>2, BrokenSlots
    <2> QED BY <2>1, <2>2, <2>3, BoundsAssumption
  <1> QED BY <1>1, RotationInvariant, PTL
=============================================================================
