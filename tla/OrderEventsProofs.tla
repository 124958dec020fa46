-------------------------- MODULE OrderEventsProofs -------------------------
(***************************************************************************)
(* Proofs about OrderEvents for any orders, changes, clients, buffer size  *)
(* and number of restarts.  The invariant adds to the two properties       *)
(*   LogInv      ids are places in the log, and the buffer is its end;     *)
(*   ClientInv   what a client has received and what is under way to it    *)
(*               are events of its order, by ascending id, and the id it   *)
(*               will name when it reconnects is the last one it received; *)
(*   CoverInv    nothing is missing: for a connected client up to the end  *)
(*               of the log, for a stream that was cut off up to that id;  *)
(*   StatusInv   an order no two changes have crossed at has one change    *)
(*               under way at most, to the stored status; with none under  *)
(*               way the last event of the order has that status.          *)
(* What the recursive function of Since computes is shown by induction on  *)
(* the length of the buffer, as a statement about a set of numbers.        *)
(***************************************************************************)
EXTENDS OrderEvents, SequenceTheorems, WellFoundedInduction, TLAPS

TypeOK ==
    /\ status \in [Orders -> Statuses]
    /\ pc \in [Changes -> {"new", "committed", "ended"}]
    /\ order \in [Changes -> Orders]
    /\ to \in [Changes -> Statuses]
    /\ seq \in Nat
    /\ buffer \in Seq(Events)
    /\ log \in Seq(Events)
    /\ conn \in [Clients -> {"out", "joining", "in"}]
    /\ wire \in [Clients -> Seq(Events)]
    /\ got \in [Clients -> Seq(Events)]
    /\ lastEventId \in [Clients -> Nat]
    /\ since \in [Clients -> Nat]

LogInv ==
    /\ Len(log) = seq
    /\ \A i \in 1..seq : log[i].id = i
    /\ Len(buffer) = IF seq < BufferSize THEN seq ELSE BufferSize
    /\ \A i \in 1..Len(buffer) : buffer[i] = log[seq - Len(buffer) + i]

\* Events of order o from the log l, by ascending id.
Heard(s, o, l) ==
    /\ \A k \in 1..Len(s) : s[k].id \in 1..Len(l) /\ s[k] = l[s[k].id] /\ s[k].order = o
    /\ \A i, k \in 1..Len(s) : i < k => s[i].id < s[k].id

In(e, s) == \E k \in 1..Len(s) : s[k] = e

ClientOf(c) ==
    /\ conn[c] = "joining" => c \in Sockets
    /\ conn[c] # "in" => wire[c] = <<>>
    /\ Heard(got[c], Watched[c], log)
    /\ Heard(wire[c], Watched[c], log)
    /\ got[c] # <<>> => /\ lastEventId[c] = got[c][Len(got[c])].id
                        /\ \A k \in 1..Len(wire[c]) : lastEventId[c] < wire[c][k].id

ClientInv == \A c \in Clients : ClientOf(c)

CoverOf(c) ==
    /\ conn[c] = "in" =>
          \A i \in 1..seq : log[i].order = Watched[c] /\ i > since[c] =>
              In(log[i], got[c]) \/ In(log[i], wire[c])
    /\ c \in Streams /\ (conn[c] = "in" \/ got[c] # <<>>) => since[c] = 0 \/ since[c] + BufferSize <= seq
    /\ c \in Streams /\ got[c] # <<>> =>
          \A i \in 1..seq : log[i].order = Watched[c] /\ i > since[c] /\ i <= lastEventId[c] =>
              In(log[i], got[c])

CoverInv == \A c \in Clients \ outdated : CoverOf(c)

\* The last event of o, if there is one, has status s.
LastIs(o, s) ==
    \A i \in 1..seq :
        log[i].order = o /\ (\A k \in 1..seq : k > i => log[k].order # o) => log[i].status = s

StatusOf(o) ==
    /\ UnderWay(o) = {} => LastIs(o, status[o])
    /\ \A q \in UnderWay(o) : to[q] = status[o]
    /\ \A q, p \in UnderWay(o) : q = p

StatusInv == \A o \in Orders \ crossed : StatusOf(o)

IInv == TypeOK /\ LogInv /\ ClientInv /\ CoverInv /\ StatusInv

USE WatchedAssumption, LimitsAssumption

-----------------------------------------------------------------------------
(* Sequences of events.                                                    *)

\* Append, place by place.
LEMMA Appended ==
    ASSUME NEW s \in Seq(Events), NEW e \in Events
    PROVE  /\ Append(s, e) \in Seq(Events) /\ Len(Append(s, e)) = Len(s) + 1 /\ Len(s) \in Nat
           /\ \A k \in 1..Len(s) : Append(s, e)[k] = s[k]
           /\ Append(s, e)[Len(s) + 1] = e
           /\ Append(s, e) # <<>>
<1>1. Append(s, e) \in Seq(Events) /\ Len(Append(s, e)) = Len(s) + 1 /\ Len(s) \in Nat
  OBVIOUS
<1>2. Len(Append(s, e)) # Len(<<>>)
  BY <1>1
<1> QED
  BY <1>1, <1>2

\* Head and Tail, place by place.
LEMMA Taken ==
    ASSUME NEW s \in Seq(Events), s # <<>>
    PROVE  /\ Head(s) = s[1] /\ Head(s) \in Events /\ Tail(s) \in Seq(Events)
           /\ Len(s) \in Nat /\ Len(s) >= 1 /\ Len(Tail(s)) = Len(s) - 1
           /\ \A k \in 1..Len(s) - 1 : Tail(s)[k] = s[k + 1]
  OBVIOUS

\* Induction, as a statement about a set of numbers.
LEMMA AllNumbers ==
    ASSUME NEW S, 0 \in S, \A n \in Nat : n \in S => n + 1 \in S
    PROVE  Nat \subseteq S
<1> DEFINE Less == OpToRel(<, Nat)
           Left == {n \in Nat : n \notin S}
<1> SUFFICES ASSUME Left # {} PROVE FALSE
  OBVIOUS
<1>1. PICK m \in Left : \A n \in Left : <<n, m>> \notin Less
  <2>1. IsWellFoundedOn(Less, Nat)
    BY NatLessThanWellFounded
  <2>2. Left \subseteq Nat
    OBVIOUS
  <2> HIDE DEF Less, Left
  <2> QED
    BY <2>1, <2>2, WFMin
<1>2. Less = {p \in Nat \X Nat : p[1] < p[2]}
  BY Zenon DEF OpToRel
<1>3. m \in Nat /\ m \notin S /\ m # 0
  OBVIOUS
<1>4. m - 1 \in Nat /\ m - 1 < m /\ (m - 1) + 1 = m
  BY <1>3
<1>5. m - 1 \in S
  <2>1. <<m - 1, m>> \in Less
    BY <1>2, <1>3, <1>4
  <2> QED
    BY <1>1, <1>4, <2>1
<1> QED
  BY <1>3, <1>4, <1>5

-----------------------------------------------------------------------------
(* Since.                                                                  *)

\* The equation of the recursive function in Since, up to n.
Wanted(e, o, lastId) == e.order = o /\ e.id > lastId

KeptBy(f, n, o, lastId) ==
    f = [i \in 0..n |-> IF i = 0 THEN <<>>
                        ELSE IF buffer[i].order = o /\ buffer[i].id > lastId
                             THEN Append(f[i - 1], buffer[i]) ELSE f[i - 1]]

\* The equation has a solution.
LEMMA KeptExists ==
    ASSUME buffer \in Seq(Events), NEW o, NEW lastId
    PROVE  \E f : KeptBy(f, Len(buffer), o, lastId)
<1> DEFINE S == {n \in Nat : \E f : KeptBy(f, n, o, lastId)}
<1>1. 0 \in S
  <2>1. KeptBy([i \in 0..0 |-> <<>>], 0, o, lastId)
    BY DEF KeptBy
  <2> QED
    BY <2>1
<1>2. ASSUME NEW n \in Nat, n \in S PROVE n + 1 \in S
  <2>1. PICK f : KeptBy(f, n, o, lastId)
    BY <1>2
  <2> DEFINE last == IF buffer[n + 1].order = o /\ buffer[n + 1].id > lastId
                     THEN Append(f[n], buffer[n + 1]) ELSE f[n]
             g == [i \in 0..(n + 1) |-> IF i = n + 1 THEN last ELSE f[i]]
  <2>2. \A i \in 0..n : g[i] = f[i]
    OBVIOUS
  <2>3. ASSUME NEW i \in 0..(n + 1)
        PROVE  g[i] = IF i = 0 THEN <<>>
                      ELSE IF buffer[i].order = o /\ buffer[i].id > lastId
                           THEN Append(g[i - 1], buffer[i]) ELSE g[i - 1]
    <3>1. CASE i = n + 1
      <4>1. g[i] = last /\ g[i - 1] = f[n] /\ i # 0
        BY <3>1, <2>2
      <4> QED
        BY <3>1, <4>1
    <3>2. CASE i \in 0..n
      <4>1. g[i] = f[i] /\ (i # 0 => g[i - 1] = f[i - 1])
        BY <3>2, <2>2
      <4>2. f[i] = IF i = 0 THEN <<>>
                   ELSE IF buffer[i].order = o /\ buffer[i].id > lastId
                        THEN Append(f[i - 1], buffer[i]) ELSE f[i - 1]
        <5> HIDE DEF g, last
        <5> QED
          BY <3>2, <2>1 DEF KeptBy
      <4> HIDE DEF g, last
      <4> QED
        BY <4>1, <4>2
    <3> QED
      BY <3>1, <3>2
  <2>4. KeptBy(g, n + 1, o, lastId)
    <3>1. g = [i \in 0..(n + 1) |-> g[i]]
      OBVIOUS
    <3> HIDE DEF g
    <3> QED
      BY <2>3, <3>1 DEF KeptBy
  <2> HIDE DEF g
  <2> QED
    BY <2>4
<1>3. Len(buffer) \in Nat
  OBVIOUS
<1> HIDE DEF S
<1>4. Len(buffer) \in S
  BY <1>1, <1>2, <1>3, AllNumbers
<1> QED
  BY <1>4 DEF S

\* Since is the last value of a solution.
LEMMA SinceIsKept ==
    ASSUME buffer \in Seq(Events), NEW o, NEW lastId
    PROVE  \E f : KeptBy(f, Len(buffer), o, lastId) /\ Since(o, lastId) = f[Len(buffer)]
<1> DEFINE f == CHOOSE f : KeptBy(f, Len(buffer), o, lastId)
<1>1. KeptBy(f, Len(buffer), o, lastId)
  BY Zenon, KeptExists
<1>2. Since(o, lastId) = f[Len(buffer)]
  BY DEF Since, KeptBy
<1> HIDE DEF f
<1> QED
  BY <1>1, <1>2

\* Since returns the wanted events of the buffer, all of them, in their order.
LEMMA SinceSelects ==
    ASSUME buffer \in Seq(Events), NEW o, NEW lastId,
           \A i, k \in 1..Len(buffer) : i < k => buffer[i].id < buffer[k].id
    PROVE  /\ Since(o, lastId) \in Seq(Events)
           /\ \A k \in 1..Len(Since(o, lastId)) :
                 Wanted(Since(o, lastId)[k], o, lastId) /\ In(Since(o, lastId)[k], buffer)
           /\ \A i \in 1..Len(buffer) :
                 Wanted(buffer[i], o, lastId) => In(buffer[i], Since(o, lastId))
           /\ \A i, k \in 1..Len(Since(o, lastId)) :
                 i < k => Since(o, lastId)[i].id < Since(o, lastId)[k].id
<1>1. PICK f : KeptBy(f, Len(buffer), o, lastId) /\ Since(o, lastId) = f[Len(buffer)]
  BY SinceIsKept
<1> DEFINE Good(n) ==
        /\ f[n] \in Seq(Events)
        /\ \A k \in 1..Len(f[n]) :
              Wanted(f[n][k], o, lastId) /\ \E i \in 1..n : f[n][k] = buffer[i]
        /\ \A i \in 1..n : Wanted(buffer[i], o, lastId) => \E k \in 1..Len(f[n]) : f[n][k] = buffer[i]
        /\ \A i, k \in 1..Len(f[n]) : i < k => f[n][i].id < f[n][k].id
    S == {n \in Nat : n <= Len(buffer) => Good(n)}
<1>2. Len(buffer) \in Nat
  OBVIOUS
<1>3. 0 \in S
  <2>1. f[0] = <<>>
    BY <1>1, <1>2 DEF KeptBy
  <2>2. <<>> \in Seq(Events) /\ Len(<<>>) = 0 /\ \A k : k \notin 1..0
    OBVIOUS
  <2>3. Good(0)
    BY <2>1, <2>2
  <2> HIDE DEF Good
  <2> QED
    BY <2>3
<1>4. ASSUME NEW n \in Nat, n \in S, n + 1 <= Len(buffer) PROVE Good(n + 1)
  <2> DEFINE e == buffer[n + 1]
             s == f[n]
  <2>1. Good(n) /\ e \in Events /\ n + 1 \in 1..Len(buffer)
    <3> HIDE DEF Good
    <3>1. n <= Len(buffer) /\ n + 1 \in 1..Len(buffer)
      BY <1>2, <1>4
    <3> QED
      BY <1>4, <3>1
  <2>2. f[n + 1] = IF Wanted(e, o, lastId) THEN Append(s, e) ELSE s
    <3> HIDE DEF Good
    <3>1. n + 1 \in 0..Len(buffer) /\ n + 1 # 0 /\ (n + 1) - 1 = n
      BY <1>2, <2>1
    <3>2. f[n + 1] = IF n + 1 = 0 THEN <<>>
                     ELSE IF buffer[n + 1].order = o /\ buffer[n + 1].id > lastId
                          THEN Append(f[(n + 1) - 1], buffer[n + 1]) ELSE f[(n + 1) - 1]
      BY <1>1, <3>1 DEF KeptBy
    <3> QED
      BY <3>1, <3>2 DEF Wanted
  <2>3. CASE Wanted(e, o, lastId)
    <3>1. f[n + 1] = Append(s, e)
      BY <2>2, <2>3
    <3>2. /\ Append(s, e) \in Seq(Events) /\ Len(Append(s, e)) = Len(s) + 1 /\ Len(s) \in Nat
          /\ \A k \in 1..Len(s) : Append(s, e)[k] = s[k]
          /\ Append(s, e)[Len(s) + 1] = e
      BY <2>1, Appended
    <3>3. ASSUME NEW k \in 1..Len(s) + 1
          PROVE  /\ Wanted(Append(s, e)[k], o, lastId)
                 /\ \E i \in 1..n + 1 : Append(s, e)[k] = buffer[i]
      <4>1. CASE k = Len(s) + 1
        BY <2>3, <3>2, <4>1
      <4>2. CASE k \in 1..Len(s)
        <5>1. PICK i \in 1..n : s[k] = buffer[i]
          BY <2>1, <4>2
        <5>2. i \in 1..n + 1 /\ Append(s, e)[k] = s[k]
          BY <3>2, <4>2
        <5> QED
          BY <2>1, <4>2, <5>1, <5>2
      <4> QED
        BY <3>2, <4>1, <4>2
    <3>4. ASSUME NEW i \in 1..n + 1, Wanted(buffer[i], o, lastId)
          PROVE  \E k \in 1..Len(s) + 1 : Append(s, e)[k] = buffer[i]
      <4>1. CASE i = n + 1
        BY <3>2, <4>1
      <4>2. CASE i \in 1..n
        <5>1. PICK k \in 1..Len(s) : s[k] = buffer[i]
          BY <2>1, <3>4, <4>2
        <5>2. k \in 1..Len(s) + 1 /\ Append(s, e)[k] = s[k]
          BY <3>2
        <5> QED
          BY <5>1, <5>2
      <4> QED
        BY <4>1, <4>2
    <3>5. ASSUME NEW i \in 1..Len(s) + 1, NEW k \in 1..Len(s) + 1, i < k
          PROVE  Append(s, e)[i].id < Append(s, e)[k].id
      <4>1. i \in 1..Len(s) /\ Append(s, e)[i] = s[i]
        BY <3>2, <3>5
      <4>2. CASE k \in 1..Len(s)
        BY <2>1, <3>2, <3>5, <4>1, <4>2
      <4>3. CASE k = Len(s) + 1
        <5>1. PICK m \in 1..n : s[i] = buffer[m]
          BY <2>1, <4>1
        <5>2. m \in 1..Len(buffer) /\ m < n + 1
          BY <1>2, <1>4
        <5>3. buffer[m].id < buffer[n + 1].id
          BY <2>1, <5>2
        <5> QED
          BY <3>2, <4>1, <4>3, <5>1, <5>3
      <4> QED
        BY <3>2, <4>2, <4>3
    <3> DEFINE t == Append(s, e)
    <3>6. /\ t \in Seq(Events) /\ Len(t) = Len(s) + 1
          /\ \A k \in 1..Len(s) + 1 : Wanted(t[k], o, lastId) /\ \E i \in 1..n + 1 : t[k] = buffer[i]
          /\ \A i \in 1..n + 1 :
                Wanted(buffer[i], o, lastId) => \E k \in 1..Len(s) + 1 : t[k] = buffer[i]
          /\ \A i, k \in 1..Len(s) + 1 : i < k => t[i].id < t[k].id
      <4> HIDE DEF e, s
      <4> QED
        BY <3>2, <3>3, <3>4, <3>5
    <3>7. f[n + 1] = t
      BY <3>1
    <3> HIDE DEF e, s, t
    <3> QED
      BY Zenon, <3>6, <3>7
  <2>4. CASE ~Wanted(e, o, lastId)
    <3>1. f[n + 1] = s
      BY <2>2, <2>4
    <3>2. ASSUME NEW i \in 1..n + 1, Wanted(buffer[i], o, lastId) PROVE i \in 1..n
      BY <2>4, <3>2
    <3>3. 1..n \subseteq 1..n + 1
      OBVIOUS
    <3> QED
      BY <2>1, <3>1, <3>2, <3>3
  <2> QED
    BY <2>3, <2>4
<1>5. Good(Len(buffer))
  <2>1. ASSUME NEW n \in Nat, n \in S PROVE n + 1 \in S
    <3> HIDE DEF Good
    <3>1. n + 1 \in Nat
      OBVIOUS
    <3> QED
      BY <1>4, <2>1, <3>1
  <2> HIDE DEF S
  <2>2. Len(buffer) \in S
    BY <1>2, <1>3, <2>1, AllNumbers
  <2> QED
    BY <1>2, <2>2 DEF S
<1> QED
  BY <1>1, <1>5 DEF In

-----------------------------------------------------------------------------
(* The steps.                                                              *)


\* The buffer holds ascending ids, so Since returns what it is meant to.
LEMMA Replayed ==
    ASSUME TypeOK, LogInv, NEW c \in Clients
    PROVE  LET s == Since(Watched[c], lastEventId[c]) IN
           /\ s \in Seq(Events)
           /\ \A k \in 1..Len(s) : Wanted(s[k], Watched[c], lastEventId[c]) /\ In(s[k], buffer)
           /\ \A i \in 1..Len(buffer) : Wanted(buffer[i], Watched[c], lastEventId[c]) => In(buffer[i], s)
           /\ \A i, k \in 1..Len(s) : i < k => s[i].id < s[k].id
<1>1. buffer \in Seq(Events) /\ Len(buffer) \in Nat /\ seq \in Nat /\ Len(buffer) <= seq
  BY DEF TypeOK, LogInv
<1>2. ASSUME NEW i \in 1..Len(buffer)
      PROVE  seq - Len(buffer) + i \in 1..seq /\ buffer[i].id = seq - Len(buffer) + i
  BY <1>1 DEF LogInv
<1>3. \A i, k \in 1..Len(buffer) : i < k => buffer[i].id < buffer[k].id
  BY <1>1, <1>2
<1> QED
  BY <1>1, <1>3, SinceSelects

\* The event a change publishes.
LEMMA Published ==
    ASSUME TypeOK, NEW q \in Changes, Publish(q)
    PROVE  LET e == Event(seq + 1, order[q], to[q]) IN
           /\ e \in Events /\ e.id = seq + 1 /\ e.order = order[q] /\ e.status = to[q]
           /\ seq' = seq + 1 /\ log' = Append(log, e)
           /\ wire' = [c \in Clients |-> IF conn[c] = "in" /\ Watched[c] = order[q]
                                         THEN Append(wire[c], e) ELSE wire[c]]
<1> DEFINE e == Event(seq + 1, order[q], to[q])
<1>1. seq \in Nat /\ order[q] \in Orders /\ to[q] \in Statuses
  BY DEF TypeOK
<1>2. e \in Events /\ e.id = seq + 1 /\ e.order = order[q] /\ e.status = to[q]
  BY <1>1 DEF Event, Events
<1> HIDE DEF e
<1>3. seq' = seq + 1 /\ log' = Append(log, e) /\ FanOut(e)
  BY DEF Publish, e
<1> QED
  BY <1>2, <1>3 DEF FanOut, e

\* Each step keeps the types.
LEMMA TypeStep == ASSUME TypeOK, LogInv, [Next]_vars PROVE TypeOK'
<1> USE DEF TypeOK
<1>1. ASSUME NEW q \in Changes, Commit(q) PROVE TypeOK'
  BY <1>1 DEF Commit, bus, clients
<1>2. ASSUME NEW q \in Changes, Leave(q) PROVE TypeOK'
  BY <1>2 DEF Leave, bus, clients
<1>3. ASSUME NEW q \in Changes, Publish(q) PROVE TypeOK'
  <2> DEFINE e == Event(seq + 1, order[q], to[q])
  <2> HIDE DEF TypeOK
  <2>1. /\ e \in Events /\ seq' = seq + 1 /\ log' = Append(log, e)
        /\ wire' = [c \in Clients |-> IF conn[c] = "in" /\ Watched[c] = order[q]
                                      THEN Append(wire[c], e) ELSE wire[c]]
    BY <1>3, Published
  <2>2. /\ UNCHANGED <<status, order, to, conn, lastEventId, got, since>>
        /\ pc' = [pc EXCEPT ![q] = "ended"]
        /\ buffer' = IF Len(Append(buffer, e)) > BufferSize THEN Tail(Append(buffer, e)) ELSE Append(buffer, e)
    BY <1>3 DEF Publish
  <2> HIDE DEF e
  <2>3. Append(buffer, e) \in Seq(Events) /\ Append(buffer, e) # <<>> /\ log' \in Seq(Events)
    <3>1. buffer \in Seq(Events) /\ log \in Seq(Events)
      BY DEF TypeOK
    <3> QED
      BY <2>1, <3>1, Appended
  <2>4. buffer' \in Seq(Events)
    BY <2>2, <2>3, Taken
  <2>5. wire' \in [Clients -> Seq(Events)]
    <3>1. ASSUME NEW c \in Clients PROVE Append(wire[c], e) \in Seq(Events) /\ wire[c] \in Seq(Events)
      BY <2>1 DEF TypeOK
    <3> QED
      BY <2>1, <3>1
  <2> QED
    BY <2>1, <2>2, <2>3, <2>4, <2>5 DEF TypeOK
<1>4. ASSUME NEW c \in Clients, OpenStream(c) PROVE TypeOK'
  <2> DEFINE s == Since(Watched[c], lastEventId[c])
  <2>1. s \in Seq(Events)
    <3> HIDE DEF TypeOK
    <3> QED
      BY Replayed
  <2>2. wire' = [wire EXCEPT ![c] = s]
    BY <1>4 DEF OpenStream
  <2> HIDE DEF s
  <2>3. wire' \in [Clients -> Seq(Events)]
    BY <2>1, <2>2
  <2>4. since' \in [Clients -> Nat]
    BY <1>4 DEF OpenStream
  <2> QED
    BY <1>4, <2>3, <2>4 DEF OpenStream, bus, changes
<1>5. ASSUME NEW c \in Clients, BeginJoin(c) PROVE TypeOK'
  BY <1>5 DEF BeginJoin, bus, changes
<1>6. ASSUME NEW c \in Clients, EndJoin(c) PROVE TypeOK'
  BY <1>6 DEF EndJoin, bus, changes
<1>7. ASSUME NEW c \in Clients, Receive(c) PROVE TypeOK'
  <2>1. Head(wire[c]) \in Events /\ Tail(wire[c]) \in Seq(Events) /\ Head(wire[c]).id \in Nat
    <3>1. wire[c] \in Seq(Events) /\ wire[c] # <<>>
      BY <1>7 DEF Receive
    <3>2. \A e \in Events : e.id \in Nat
      BY DEF Events
    <3> QED
      BY <3>1, <3>2, Taken
  <2>2. got' \in [Clients -> Seq(Events)]
    BY <1>7, <2>1 DEF Receive
  <2>3. wire' \in [Clients -> Seq(Events)] /\ lastEventId' \in [Clients -> Nat]
    BY <1>7, <2>1 DEF Receive
  <2> QED
    BY <1>7, <2>2, <2>3 DEF Receive, bus, changes
<1>8. ASSUME NEW c \in Clients, Disconnect(c) PROVE TypeOK'
  BY <1>8 DEF Disconnect, bus, changes
<1>9. CASE Restart
  BY <1>9 DEF Restart
<1>10. CASE UNCHANGED vars
  BY <1>10 DEF vars
<1> HIDE DEF TypeOK
<1> QED
  BY <1>1, <1>2, <1>3, <1>4, <1>5, <1>6, <1>7, <1>8, <1>9, <1>10 DEF Next

\* The log and the buffer change in two ways.
LEMMA BusStep ==
    ASSUME [Next]_vars
    PROVE  \/ UNCHANGED <<seq, log, buffer>>
           \/ \E q \in Changes : Publish(q)
           \/ Restart
  BY DEF Next, Commit, Leave, OpenStream, BeginJoin, EndJoin, Receive, Disconnect, bus, clients, changes, vars

\* The buffer stays the end of the log.
LEMMA LogStep == ASSUME TypeOK, LogInv, [Next]_vars PROVE LogInv'
<1>1. CASE UNCHANGED <<seq, log, buffer>>
  BY <1>1 DEF LogInv
<1>2. ASSUME NEW q \in Changes, Publish(q) PROVE LogInv'
  <2> DEFINE e == Event(seq + 1, order[q], to[q])
             longer == Append(buffer, e)
  <2>1. e \in Events /\ e.id = seq + 1 /\ seq' = seq + 1 /\ log' = Append(log, e)
    BY <1>2, Published
  <2>2. buffer' = IF Len(longer) > BufferSize THEN Tail(longer) ELSE longer
    BY <1>2 DEF Publish
  <2> HIDE DEF e
  <2>3. /\ buffer \in Seq(Events) /\ log \in Seq(Events) /\ seq \in Nat /\ Len(log) = seq
        /\ Len(buffer) \in Nat /\ Len(buffer) <= seq
    BY DEF TypeOK, LogInv
  <2>4. /\ Len(log') = seq' /\ log'[seq + 1] = e
        /\ \A i \in 1..seq : log'[i] = log[i]
    BY <2>1, <2>3, Appended
  <2>5. \A i \in 1..seq' : log'[i].id = i
    <3>1. ASSUME NEW i \in 1..seq' PROVE log'[i].id = i
      <4>1. CASE i = seq + 1
        BY <2>1, <2>4, <4>1
      <4>2. CASE i \in 1..seq
        BY <2>4, <4>2 DEF LogInv
      <4> QED
        BY <2>1, <2>3, <4>1, <4>2
    <3> QED
      BY <3>1
  <2>6. /\ longer \in Seq(Events) /\ longer # <<>> /\ Len(longer) = Len(buffer) + 1
        /\ \A k \in 1..Len(buffer) : longer[k] = buffer[k]
        /\ longer[Len(buffer) + 1] = e
    BY <2>1, <2>3, Appended
  <2>7. \A k \in 1..Len(buffer) + 1 : longer[k] = log'[seq - Len(buffer) + k]
    <3>1. ASSUME NEW k \in 1..Len(buffer) + 1 PROVE longer[k] = log'[seq - Len(buffer) + k]
      <4>1. CASE k = Len(buffer) + 1
        <5>1. seq - Len(buffer) + k = seq + 1
          BY <2>3, <4>1
        <5> QED
          BY <2>4, <2>6, <4>1, <5>1
      <4>2. CASE k \in 1..Len(buffer)
        <5>1. seq - Len(buffer) + k \in 1..seq
          BY <2>3, <4>2
        <5>2. buffer[k] = log[seq - Len(buffer) + k]
          BY <4>2 DEF LogInv
        <5> QED
          BY <2>4, <2>6, <4>2, <5>1, <5>2
      <4> QED
        BY <2>3, <4>1, <4>2
    <3> QED
      BY <3>1
  <2> HIDE DEF longer
  <2>8. Len(buffer) = IF seq < BufferSize THEN seq ELSE BufferSize
    BY DEF LogInv
  <2>9. CASE Len(longer) > BufferSize
    <3>1. Len(buffer) = BufferSize /\ seq >= BufferSize
      BY <2>3, <2>6, <2>8, <2>9
    <3>2. buffer' = Tail(longer)
      BY <2>2, <2>9
    <3>3. Len(buffer') = Len(buffer) /\ \A k \in 1..Len(buffer) : buffer'[k] = longer[k + 1]
      BY <2>3, <2>6, <3>2, Taken
    <3>4. ASSUME NEW k \in 1..Len(buffer) PROVE buffer'[k] = log'[seq' - Len(buffer') + k]
      <4>1. k + 1 \in 1..Len(buffer) + 1 /\ seq - Len(buffer) + (k + 1) = seq' - Len(buffer') + k
        BY <2>1, <2>3, <3>3
      <4> QED
        BY <2>7, <3>3, <4>1
    <3>5. Len(buffer') = IF seq' < BufferSize THEN seq' ELSE BufferSize
      BY <2>1, <2>3, <3>1, <3>3
    <3>6. \A k \in 1..Len(buffer') : buffer'[k] = log'[seq' - Len(buffer') + k]
      BY <3>3, <3>4
    <3> QED
      BY <2>4, <2>5, <3>5, <3>6 DEF LogInv
  <2>10. CASE ~(Len(longer) > BufferSize)
    <3>1. Len(buffer) = seq /\ seq < BufferSize
      BY <2>3, <2>6, <2>8, <2>10
    <3>2. buffer' = longer /\ Len(buffer') = seq + 1
      BY <2>2, <2>6, <2>10, <3>1
    <3>3. ASSUME NEW k \in 1..seq + 1 PROVE buffer'[k] = log'[seq' - Len(buffer') + k]
      BY <2>1, <2>3, <2>7, <3>1, <3>2
    <3> QED
      BY <2>1, <2>3, <2>4, <2>5, <3>1, <3>2, <3>3 DEF LogInv
  <2> QED
    BY <2>9, <2>10
<1>3. CASE Restart
  <2>1. seq' = 0 /\ log' = <<>> /\ buffer' = <<>>
    BY <1>3 DEF Restart
  <2> QED
    BY <2>1 DEF LogInv
<1> QED
  BY <1>1, <1>2, <1>3, BusStep

-----------------------------------------------------------------------------
(* What clients have heard.                                                *)

\* Nothing heard is lost when the log grows.
LEMMA HeardGrows ==
    ASSUME NEW l \in Seq(Events), NEW e \in Events, NEW s \in Seq(Events), NEW o, Heard(s, o, l)
    PROVE  Heard(s, o, Append(l, e))
<1>1. Len(Append(l, e)) = Len(l) + 1 /\ Len(l) \in Nat /\ \A k \in 1..Len(l) : Append(l, e)[k] = l[k]
  BY Appended
<1>2. ASSUME NEW k \in 1..Len(s)
      PROVE  s[k].id \in 1..Len(Append(l, e)) /\ s[k] = Append(l, e)[s[k].id] /\ s[k].order = o
  <2>1. s[k].id \in 1..Len(l) /\ s[k] = l[s[k].id] /\ s[k].order = o
    BY DEF Heard
  <2>2. s[k].id \in 1..Len(Append(l, e))
    BY <1>1, <2>1
  <2> QED
    BY <1>1, <2>1, <2>2
<1> QED
  BY <1>2 DEF Heard

\* The event that makes the log grow comes after everything heard.
LEMMA HeardNext ==
    ASSUME NEW l \in Seq(Events), NEW e \in Events, NEW s \in Seq(Events), NEW o, Heard(s, o, l),
           e.id = Len(l) + 1, e.order = o
    PROVE  Heard(Append(s, e), o, Append(l, e))
<1>1. /\ Len(Append(l, e)) = Len(l) + 1 /\ Len(l) \in Nat
      /\ Append(l, e)[Len(l) + 1] = e
  BY Appended
<1>2. /\ Append(s, e) \in Seq(Events) /\ Len(Append(s, e)) = Len(s) + 1 /\ Len(s) \in Nat
      /\ \A k \in 1..Len(s) : Append(s, e)[k] = s[k]
      /\ Append(s, e)[Len(s) + 1] = e
  BY Appended
<1>3. Heard(s, o, Append(l, e))
  BY HeardGrows
<1>4. ASSUME NEW k \in 1..Len(s) + 1
      PROVE  /\ Append(s, e)[k].id \in 1..Len(Append(l, e))
             /\ Append(s, e)[k] = Append(l, e)[Append(s, e)[k].id]
             /\ Append(s, e)[k].order = o
  <2>1. CASE k = Len(s) + 1
    BY <1>1, <1>2, <2>1
  <2>2. CASE k \in 1..Len(s)
    BY <1>2, <1>3, <2>2 DEF Heard
  <2> QED
    BY <1>2, <2>1, <2>2
<1>5. ASSUME NEW i \in 1..Len(s) + 1, NEW k \in 1..Len(s) + 1, i < k
      PROVE  Append(s, e)[i].id < Append(s, e)[k].id
  <2>1. i \in 1..Len(s) /\ Append(s, e)[i] = s[i]
    BY <1>2, <1>5
  <2>2. s[i].id \in 1..Len(l)
    BY <2>1 DEF Heard
  <2>3. CASE k = Len(s) + 1
    BY <1>1, <1>2, <2>1, <2>2, <2>3
  <2>4. CASE k \in 1..Len(s)
    BY <1>2, <1>5, <2>1, <2>4 DEF Heard
  <2> QED
    BY <1>2, <2>3, <2>4
<1> QED
  BY <1>2, <1>4, <1>5 DEF Heard

\* The frame that is received comes after everything received before.
LEMMA HeardMoves ==
    ASSUME NEW l, NEW s \in Seq(Events), NEW t \in Seq(Events), NEW o, Heard(s, o, l), Heard(t, o, l),
           t # <<>>, \A i \in 1..Len(s) : s[i].id < t[1].id
    PROVE  Heard(Append(s, t[1]), o, l) /\ Heard(Tail(t), o, l)
<1> DEFINE e == t[1]
<1>1. /\ e \in Events /\ Tail(t) \in Seq(Events) /\ Len(t) \in Nat /\ Len(t) >= 1
      /\ Len(Tail(t)) = Len(t) - 1 /\ \A k \in 1..Len(t) - 1 : Tail(t)[k] = t[k + 1]
  BY Taken
<1>2. e.id \in 1..Len(l) /\ e = l[e.id] /\ e.order = o
  BY <1>1 DEF Heard
<1>3. \A i \in 1..Len(s) : s[i].id < e.id
  OBVIOUS
<1> HIDE DEF e
<1>4. /\ Len(Append(s, e)) = Len(s) + 1 /\ Len(s) \in Nat
      /\ \A k \in 1..Len(s) : Append(s, e)[k] = s[k]
      /\ Append(s, e)[Len(s) + 1] = e
  BY <1>1, Appended
<1>5. ASSUME NEW k \in 1..Len(s) + 1
      PROVE  /\ Append(s, e)[k].id \in 1..Len(l)
             /\ Append(s, e)[k] = l[Append(s, e)[k].id]
             /\ Append(s, e)[k].order = o
  <2>1. CASE k = Len(s) + 1
    BY <1>2, <1>4, <2>1
  <2>2. CASE k \in 1..Len(s)
    BY <1>4, <2>2 DEF Heard
  <2> QED
    BY <1>4, <2>1, <2>2
<1>6. ASSUME NEW i \in 1..Len(s) + 1, NEW k \in 1..Len(s) + 1, i < k
      PROVE  Append(s, e)[i].id < Append(s, e)[k].id
  <2>1. i \in 1..Len(s) /\ Append(s, e)[i] = s[i]
    BY <1>4, <1>6
  <2>2. CASE k = Len(s) + 1
    BY <1>3, <1>4, <2>1, <2>2
  <2>3. CASE k \in 1..Len(s)
    BY <1>4, <1>6, <2>1, <2>3 DEF Heard
  <2> QED
    BY <1>4, <2>2, <2>3
<1>7. Heard(Append(s, e), o, l)
  BY <1>4, <1>5, <1>6 DEF Heard
<1>8. Heard(Tail(t), o, l)
  <2>1. ASSUME NEW k \in 1..Len(t) - 1
        PROVE  k + 1 \in 1..Len(t) /\ Tail(t)[k] = t[k + 1]
    BY <1>1
  <2>2. ASSUME NEW k \in 1..Len(t) - 1
        PROVE  Tail(t)[k].id \in 1..Len(l) /\ Tail(t)[k] = l[Tail(t)[k].id] /\ Tail(t)[k].order = o
    BY <2>1 DEF Heard
  <2>3. ASSUME NEW i \in 1..Len(t) - 1, NEW k \in 1..Len(t) - 1, i < k
        PROVE  Tail(t)[i].id < Tail(t)[k].id
    <3>1. i + 1 < k + 1
      BY <1>1, <2>3
    <3> QED
      BY <2>1, <3>1 DEF Heard
  <2> QED
    BY <1>1, <2>2, <2>3 DEF Heard
<1> QED
  BY <1>7, <1>8 DEF e

\* What is heard stays heard, in order, whoever moves; a client that reconnects
\* is sent nothing that it has received.
LEMMA ClientStep ==
    ASSUME TypeOK, TypeOK', LogInv, ClientInv, [Next]_vars, NEW d \in Clients
    PROVE  ClientOf(d)'
<1>0. /\ ClientOf(d) /\ got[d] \in Seq(Events) /\ wire[d] \in Seq(Events) /\ log \in Seq(Events)
      /\ Len(log) = seq /\ seq \in Nat /\ lastEventId[d] \in Nat
  BY DEF ClientInv, TypeOK, LogInv
<1> DEFINE Same == /\ conn'[d] = conn[d] /\ wire'[d] = wire[d] /\ got'[d] = got[d]
                   /\ lastEventId'[d] = lastEventId[d] /\ log' = log
<1>s. Same => ClientOf(d)'
  BY <1>0 DEF ClientOf
<1>1. ASSUME NEW q \in Changes, Commit(q) PROVE ClientOf(d)'
  BY <1>1, <1>s DEF Commit, bus, clients
<1>2. ASSUME NEW q \in Changes, Leave(q) PROVE ClientOf(d)'
  BY <1>2, <1>s DEF Leave, bus, clients
<1>3. ASSUME NEW q \in Changes, Publish(q) PROVE ClientOf(d)'
  <2> DEFINE e == Event(seq + 1, order[q], to[q])
  <2>1. /\ e \in Events /\ e.id = seq + 1 /\ e.order = order[q] /\ log' = Append(log, e)
        /\ wire' = [c \in Clients |-> IF conn[c] = "in" /\ Watched[c] = order[q]
                                      THEN Append(wire[c], e) ELSE wire[c]]
    BY <1>3, Published
  <2>2. conn' = conn /\ got' = got /\ lastEventId' = lastEventId
    BY <1>3 DEF Publish
  <2> HIDE DEF e
  <2>3. Heard(got[d], Watched[d], log') /\ Heard(wire[d], Watched[d], log')
    BY <1>0, <2>1, HeardGrows DEF ClientOf
  <2>4. CASE conn[d] = "in" /\ Watched[d] = order[q]
    <3>1. wire'[d] = Append(wire[d], e)
      BY <2>1, <2>4
    <3>2. Heard(wire'[d], Watched[d], log')
      <4>1. Heard(wire[d], Watched[d], log) /\ e.id = Len(log) + 1 /\ e.order = Watched[d]
        BY <1>0, <2>1, <2>4 DEF ClientOf
      <4> QED
        BY <1>0, <2>1, <3>1, <4>1, HeardNext
    <3>3. ASSUME got[d] # <<>>, NEW k \in 1..Len(wire'[d]) PROVE lastEventId[d] < wire'[d][k].id
      <4>1. lastEventId[d] = got[d][Len(got[d])].id /\ Len(got[d]) \in 1..Len(got[d])
        BY <1>0, <3>3 DEF ClientOf
      <4>2. lastEventId[d] \in 1..seq
        BY <1>0, <4>1 DEF ClientOf, Heard
      <4>3. /\ Len(wire'[d]) = Len(wire[d]) + 1 /\ Len(wire[d]) \in Nat
            /\ \A i \in 1..Len(wire[d]) : wire'[d][i] = wire[d][i]
            /\ wire'[d][Len(wire[d]) + 1] = e
        BY <1>0, <2>1, <3>1, Appended
      <4>4. CASE k = Len(wire[d]) + 1
        BY <1>0, <2>1, <4>2, <4>3, <4>4
      <4>5. CASE k \in 1..Len(wire[d])
        BY <1>0, <3>3, <4>3, <4>5 DEF ClientOf
      <4> QED
        BY <3>3, <4>3, <4>4, <4>5
    <3> QED
      BY <1>0, <2>2, <2>3, <2>4, <3>2, <3>3 DEF ClientOf
  <2>5. CASE ~(conn[d] = "in" /\ Watched[d] = order[q])
    <3>1. wire'[d] = wire[d]
      BY <2>1, <2>5
    <3> QED
      BY <1>0, <2>2, <2>3, <3>1 DEF ClientOf
  <2> QED
    BY <2>4, <2>5
<1>4. ASSUME NEW c \in Clients, OpenStream(c) PROVE ClientOf(d)'
  <2>1. CASE d # c
    <3>1. Same
      BY <1>4, <2>1 DEF OpenStream, bus, changes, TypeOK
    <3> QED
      BY <3>1, <1>s
  <2>2. CASE d = c
    <3> DEFINE s == Since(Watched[d], lastEventId[d])
    <3>1. /\ s \in Seq(Events)
          /\ \A k \in 1..Len(s) : Wanted(s[k], Watched[d], lastEventId[d]) /\ In(s[k], buffer)
          /\ \A i, k \in 1..Len(s) : i < k => s[i].id < s[k].id
      BY Replayed
    <3>2. wire'[d] = s /\ conn'[d] = "in" /\ got' = got /\ lastEventId' = lastEventId /\ log' = log
      BY <1>4, <2>2 DEF OpenStream, bus, changes, TypeOK
    <3> HIDE DEF s
    <3>3. ASSUME NEW k \in 1..Len(s)
          PROVE  s[k].id \in 1..Len(log) /\ s[k] = log[s[k].id] /\ s[k].order = Watched[d]
      <4>1. PICK i \in 1..Len(buffer) : s[k] = buffer[i]
        BY <3>1 DEF In
      <4>2. Len(buffer) \in Nat /\ Len(buffer) <= seq /\ buffer[i] = log[seq - Len(buffer) + i]
        <5>1. buffer \in Seq(Events)
          BY DEF TypeOK
        <5> QED
          BY <1>0, <5>1 DEF LogInv
      <4>3. seq - Len(buffer) + i \in 1..seq
        BY <1>0, <4>2
      <4>4. log[seq - Len(buffer) + i].id = seq - Len(buffer) + i
        BY <4>3 DEF LogInv
      <4> QED
        BY <1>0, <3>1, <4>1, <4>2, <4>3, <4>4 DEF Wanted
    <3>4. Heard(s, Watched[d], log)
      BY <3>1, <3>3 DEF Heard
    <3>5. \A k \in 1..Len(s) : lastEventId[d] < s[k].id
      <4>1. ASSUME NEW k \in 1..Len(s) PROVE lastEventId[d] < s[k].id
        <5>1. s[k].id > lastEventId[d] /\ s[k].id \in 1..Len(log)
          BY <3>1, <3>3 DEF Wanted
        <5> QED
          BY <1>0, <5>1
      <4> QED
        BY <4>1
    <3> QED
      BY <1>0, <3>2, <3>4, <3>5 DEF ClientOf
  <2> QED
    BY <2>1, <2>2
<1>5. ASSUME NEW c \in Clients, BeginJoin(c) PROVE ClientOf(d)'
  <2>1. /\ wire' = wire /\ got' = got /\ lastEventId' = lastEventId /\ log' = log
        /\ conn'[d] = conn[d] \/ (conn'[d] = "joining" /\ d \in Sockets /\ conn[d] = "out")
    BY <1>5 DEF BeginJoin, bus, changes, TypeOK
  <2> QED
    BY <1>0, <2>1 DEF ClientOf
<1>6. ASSUME NEW c \in Clients, EndJoin(c) PROVE ClientOf(d)'
  <2>1. /\ wire' = wire /\ got' = got /\ lastEventId' = lastEventId /\ log' = log
        /\ conn'[d] = conn[d] \/ (conn[d] = "joining" /\ conn'[d] \in {"in", "out"})
    BY <1>6 DEF EndJoin, bus, changes, TypeOK
  <2> QED
    BY <1>0, <2>1 DEF ClientOf
<1>7. ASSUME NEW c \in Clients, Receive(c) PROVE ClientOf(d)'
  <2>1. CASE d # c
    <3>1. Same
      BY <1>7, <2>1 DEF Receive, bus, changes, TypeOK
    <3> QED
      BY <3>1, <1>s
  <2>2. CASE d = c
    <3>1. /\ wire[d] # <<>> /\ conn'[d] = conn[d] /\ log' = log
          /\ got'[d] = Append(got[d], Head(wire[d])) /\ wire'[d] = Tail(wire[d])
          /\ lastEventId'[d] = Head(wire[d]).id
      BY <1>7, <2>2 DEF Receive, bus, changes, TypeOK
    <3>2. /\ Head(wire[d]) = wire[d][1] /\ wire[d][1] \in Events
          /\ Len(wire[d]) \in Nat /\ Len(wire[d]) >= 1 /\ Len(Tail(wire[d])) = Len(wire[d]) - 1
          /\ \A k \in 1..Len(wire[d]) - 1 : Tail(wire[d])[k] = wire[d][k + 1]
      BY <1>0, <3>1, Taken
    <3>3. ASSUME NEW i \in 1..Len(got[d]) PROVE got[d][i].id < wire[d][1].id
      <4>1. Len(got[d]) \in 1..Len(got[d]) /\ got[d] # <<>>
        BY <1>0
      <4>2. /\ got[d][Len(got[d])].id = lastEventId[d] /\ lastEventId[d] < wire[d][1].id
            /\ i = Len(got[d]) \/ got[d][i].id < got[d][Len(got[d])].id
        BY <1>0, <3>2, <4>1 DEF ClientOf, Heard
      <4>3. got[d][i].id \in Nat /\ wire[d][1].id \in Nat
        BY <1>0, <3>2 DEF ClientOf, Heard
      <4> QED
        BY <1>0, <4>2, <4>3
    <3>4. Heard(got'[d], Watched[d], log) /\ Heard(wire'[d], Watched[d], log)
      <4>1. Heard(got[d], Watched[d], log) /\ Heard(wire[d], Watched[d], log)
        BY <1>0 DEF ClientOf
      <4>2. Heard(Append(got[d], wire[d][1]), Watched[d], log) /\ Heard(Tail(wire[d]), Watched[d], log)
        BY <1>0, <3>1, <3>3, <4>1, HeardMoves
      <4> QED
        BY <3>1, <3>2, <4>2
    <3>5. got'[d][Len(got'[d])] = wire[d][1]
      BY <1>0, <3>1, <3>2, Appended
    <3>6. ASSUME NEW k \in 1..Len(wire'[d]) PROVE wire[d][1].id < wire'[d][k].id
      <4>1. k + 1 \in 1..Len(wire[d]) /\ 1 \in 1..Len(wire[d]) /\ 1 < k + 1 /\ wire'[d][k] = wire[d][k + 1]
        BY <3>1, <3>2
      <4> QED
        BY <1>0, <4>1 DEF ClientOf, Heard
    <3>7. conn[d] = "in"
      BY <1>0, <3>1 DEF ClientOf
    <3> QED
      BY <3>1, <3>2, <3>4, <3>5, <3>6, <3>7 DEF ClientOf
  <2> QED
    BY <2>1, <2>2
<1>8. ASSUME NEW c \in Clients, Disconnect(c) PROVE ClientOf(d)'
  <2>1. CASE d # c
    <3>1. Same
      BY <1>8, <2>1 DEF Disconnect, bus, changes, TypeOK
    <3> QED
      BY <3>1, <1>s
  <2>2. CASE d = c
    <3>1. /\ got' = got /\ lastEventId' = lastEventId /\ log' = log
          /\ conn'[d] = "out" /\ wire'[d] = <<>>
      BY <1>8, <2>2 DEF Disconnect, bus, changes, TypeOK
    <3> QED
      BY <1>0, <3>1 DEF ClientOf, Heard
  <2> QED
    BY <2>1, <2>2
<1>9. CASE Restart
  <2>1. conn'[d] = "out" /\ wire'[d] = <<>> /\ got'[d] = <<>>
    BY <1>9 DEF Restart
  <2> QED
    BY <2>1 DEF ClientOf, Heard
<1>10. CASE UNCHANGED vars
  BY <1>10, <1>s DEF vars
<1> QED
  BY <1>1, <1>2, <1>3, <1>4, <1>5, <1>6, <1>7, <1>8, <1>9, <1>10 DEF Next

\* No event is missing.  A stream that comes back is sent what the buffer holds
\* after the id it names; what it had received reaches up to that id.
LEMMA CoverStep ==
    ASSUME TypeOK, TypeOK', LogInv, ClientInv, CoverInv, [Next]_vars, NEW d \in Clients \ outdated'
    PROVE  CoverOf(d)'
<1>0. /\ ClientOf(d) /\ got[d] \in Seq(Events) /\ wire[d] \in Seq(Events) /\ log \in Seq(Events)
      /\ Len(log) = seq /\ seq \in Nat /\ lastEventId[d] \in Nat /\ since[d] \in Nat /\ BufferSize \in Nat
  BY DEF ClientInv, TypeOK, LogInv
<1> DEFINE Same == /\ conn'[d] = conn[d] /\ wire'[d] = wire[d] /\ got'[d] = got[d]
                   /\ lastEventId'[d] = lastEventId[d] /\ since'[d] = since[d]
                   /\ log' = log /\ seq' = seq /\ outdated' = outdated
<1>s. Same => CoverOf(d)'
  BY DEF CoverInv, CoverOf
<1>1. ASSUME NEW q \in Changes, Commit(q) PROVE CoverOf(d)'
  BY <1>1, <1>s DEF Commit, bus, clients
<1>2. ASSUME NEW q \in Changes, Leave(q) PROVE CoverOf(d)'
  BY <1>2, <1>s DEF Leave, bus, clients
<1>3. ASSUME NEW q \in Changes, Publish(q) PROVE CoverOf(d)'
  <2> DEFINE e == Event(seq + 1, order[q], to[q])
  <2>1. /\ e \in Events /\ e.id = seq + 1 /\ e.order = order[q] /\ log' = Append(log, e) /\ seq' = seq + 1
        /\ wire' = [c \in Clients |-> IF conn[c] = "in" /\ Watched[c] = order[q]
                                      THEN Append(wire[c], e) ELSE wire[c]]
    BY <1>3, Published
  <2>2. conn' = conn /\ got' = got /\ lastEventId' = lastEventId /\ since' = since /\ outdated' = outdated
    BY <1>3 DEF Publish
  <2> HIDE DEF e
  <2>3. CoverOf(d)
    BY <2>2 DEF CoverInv
  <2>4. log'[seq + 1] = e /\ \A i \in 1..seq : log'[i] = log[i]
    BY <1>0, <2>1, Appended
  <2>5. ASSUME NEW x, In(x, wire[d]) PROVE In(x, wire'[d])
    <3>1. PICK k \in 1..Len(wire[d]) : wire[d][k] = x
      BY <2>5 DEF In
    <3>2. wire'[d] = wire[d] \/ wire'[d] = Append(wire[d], e)
      BY <2>1
    <3>3. k \in 1..Len(wire'[d]) /\ wire'[d][k] = x
      BY <1>0, <2>1, <3>1, <3>2, Appended
    <3> QED
      BY <3>3 DEF In
  <2>6. ASSUME conn[d] = "in", NEW i \in 1..seq', log'[i].order = Watched[d], i > since[d]
        PROVE  In(log'[i], got[d]) \/ In(log'[i], wire'[d])
    <3>1. CASE i = seq + 1
      <4>1. wire'[d] = Append(wire[d], e) /\ log'[i] = e
        BY <2>1, <2>4, <2>6, <3>1
      <4>2. Len(wire'[d]) = Len(wire[d]) + 1 /\ Len(wire[d]) \in Nat /\ wire'[d][Len(wire[d]) + 1] = e
        BY <1>0, <2>1, <4>1, Appended
      <4>3. Len(wire[d]) + 1 \in 1..Len(wire'[d])
        BY <4>2
      <4> QED
        BY <4>1, <4>2, <4>3 DEF In
    <3>2. CASE i \in 1..seq
      <4>1. In(log[i], got[d]) \/ In(log[i], wire[d])
        BY <2>3, <2>4, <2>6, <3>2 DEF CoverOf
      <4> QED
        BY <2>4, <2>5, <3>2, <4>1
    <3> QED
      BY <1>0, <2>1, <3>1, <3>2
  <2>7. ASSUME got[d] # <<>> PROVE lastEventId[d] <= seq
    <3>1. lastEventId[d] = got[d][Len(got[d])].id /\ Len(got[d]) \in 1..Len(got[d])
      BY <1>0, <2>7 DEF ClientOf
    <3>2. lastEventId[d] \in 1..seq
      BY <1>0, <3>1 DEF ClientOf, Heard
    <3> QED
      BY <1>0, <3>2
  <2>8. ASSUME d \in Streams, got[d] # <<>>, NEW i \in 1..seq', log'[i].order = Watched[d],
               i > since[d], i <= lastEventId[d]
        PROVE  In(log'[i], got[d])
    <3>1. i \in 1..seq
      BY <1>0, <2>1, <2>7, <2>8
    <3> QED
      BY <2>3, <2>4, <2>8, <3>1 DEF CoverOf
  <2>9. d \in Streams /\ (conn[d] = "in" \/ got[d] # <<>>) => since[d] = 0 \/ since[d] + BufferSize <= seq'
    BY <1>0, <2>1, <2>3 DEF CoverOf
  <2> QED
    BY <2>2, <2>6, <2>8, <2>9 DEF CoverOf
<1>4. ASSUME NEW c \in Clients, OpenStream(c) PROVE CoverOf(d)'
  <2>0. log' = log /\ seq' = seq /\ got' = got /\ lastEventId' = lastEventId /\ outdated \subseteq outdated'
    BY <1>4 DEF OpenStream, bus, changes
  <2>1. CASE d # c
    <3>1. conn'[d] = conn[d] /\ wire'[d] = wire[d] /\ since'[d] = since[d]
      BY <1>4, <2>1 DEF OpenStream, TypeOK
    <3> QED
      BY <2>0, <3>1 DEF CoverInv, CoverOf
  <2>2. CASE d = c
    <3> DEFINE s == Since(Watched[d], lastEventId[d])
    <3>1. /\ s \in Seq(Events)
          /\ \A i \in 1..Len(buffer) : Wanted(buffer[i], Watched[d], lastEventId[d]) => In(buffer[i], s)
      BY Replayed
    <3>2. /\ wire'[d] = s /\ d \in Streams
          /\ since'[d] = IF seq > BufferSize THEN seq - BufferSize ELSE 0
      BY <1>4, <2>2 DEF OpenStream, TypeOK
    <3>3. lastEventId[d] > 0 /\ got[d] = <<>> => d \in outdated'
      BY <1>4, <2>2 DEF OpenStream
    <3> HIDE DEF s
    <3>4. CoverOf(d)
      BY <2>0 DEF CoverInv
    <3>5. got[d] # <<>> => since[d] <= since'[d]
      BY <1>0, <3>2, <3>4 DEF CoverOf
    <3>6. since'[d] = 0 \/ since'[d] + BufferSize <= seq
      BY <1>0, <3>2
    <3>7. ASSUME NEW i \in 1..seq, log[i].order = Watched[d], i > since'[d]
          PROVE  In(log[i], got[d]) \/ In(log[i], s)
      <4>1. CASE got[d] # <<>> /\ i <= lastEventId[d]
        BY <1>0, <3>2, <3>4, <3>5, <3>7, <4>1 DEF CoverOf
      <4>2. CASE ~(got[d] # <<>> /\ i <= lastEventId[d])
        <5>1. i > lastEventId[d]
          BY <1>0, <3>3, <4>2
        <5>2. Len(buffer) = IF seq < BufferSize THEN seq ELSE BufferSize
          BY DEF LogInv
        <5>3. i - (seq - Len(buffer)) \in 1..Len(buffer) /\ seq - Len(buffer) + (i - (seq - Len(buffer))) = i
          BY <1>0, <3>2, <3>7, <5>2
        <5>4. buffer[i - (seq - Len(buffer))] = log[i]
          BY <5>3 DEF LogInv
        <5>5. log[i].id = i
          BY DEF LogInv
        <5>6. In(log[i], s)
          BY <3>1, <3>7, <5>1, <5>3, <5>4, <5>5 DEF Wanted
        <5> QED
          BY <5>6
      <4> QED
        BY <4>1, <4>2
    <3>8. ASSUME got[d] # <<>>, NEW i \in 1..seq, log[i].order = Watched[d], i > since'[d], i <= lastEventId[d]
          PROVE  In(log[i], got[d])
      BY <1>0, <3>2, <3>4, <3>5, <3>8 DEF CoverOf
    <3> QED
      BY <2>0, <3>2, <3>6, <3>7, <3>8 DEF CoverOf
  <2> QED
    BY <2>1, <2>2
<1>5. ASSUME NEW c \in Clients, BeginJoin(c) PROVE CoverOf(d)'
  <2>1. /\ wire' = wire /\ got' = got /\ lastEventId' = lastEventId /\ log' = log /\ seq' = seq
        /\ since' = since /\ outdated' = outdated
        /\ conn'[d] = conn[d] \/ conn'[d] = "joining"
    BY <1>5 DEF BeginJoin, bus, changes, TypeOK
  <2> QED
    BY <2>1 DEF CoverInv, CoverOf
<1>6. ASSUME NEW c \in Clients, EndJoin(c) PROVE CoverOf(d)'
  <2>0. /\ wire' = wire /\ got' = got /\ lastEventId' = lastEventId /\ log' = log /\ seq' = seq
        /\ outdated' = outdated
    BY <1>6 DEF EndJoin, bus, changes
  <2>1. \/ conn'[d] = conn[d] /\ since'[d] = since[d]
        \/ conn'[d] = "out" /\ since'[d] = since[d]
        \/ conn[d] = "joining" /\ since'[d] = seq
    BY <1>6 DEF EndJoin, TypeOK
  <2>2. CASE conn[d] = "joining" /\ since'[d] = seq
    <3>1. d \notin Streams
      BY <1>0, <2>2 DEF ClientOf
    <3>2. \A i \in 1..seq : ~(i > since'[d])
      BY <1>0, <2>2
    <3> QED
      BY <2>0, <3>1, <3>2 DEF CoverOf
  <2> QED
    BY <2>0, <2>1, <2>2 DEF CoverInv, CoverOf
<1>7. ASSUME NEW c \in Clients, Receive(c) PROVE CoverOf(d)'
  <2>1. CASE d # c
    <3>1. Same
      BY <1>7, <2>1 DEF Receive, bus, changes, TypeOK
    <3> QED
      BY <3>1, <1>s
  <2>2. CASE d = c
    <3>1. /\ wire[d] # <<>> /\ conn' = conn /\ log' = log /\ seq' = seq /\ since' = since /\ outdated' = outdated
          /\ got'[d] = Append(got[d], Head(wire[d])) /\ wire'[d] = Tail(wire[d])
          /\ lastEventId'[d] = Head(wire[d]).id
      BY <1>7, <2>2 DEF Receive, bus, changes, TypeOK
    <3>2. /\ Head(wire[d]) = wire[d][1] /\ wire[d][1] \in Events
          /\ Len(wire[d]) \in Nat /\ Len(wire[d]) >= 1 /\ Len(Tail(wire[d])) = Len(wire[d]) - 1
          /\ \A k \in 1..Len(wire[d]) - 1 : Tail(wire[d])[k] = wire[d][k + 1]
      BY <1>0, <3>1, Taken
    <3>3. conn[d] = "in" /\ CoverOf(d)
      BY <1>0, <3>1 DEF ClientOf, CoverInv
    <3>4. /\ Len(got'[d]) = Len(got[d]) + 1 /\ Len(got[d]) \in Nat
          /\ \A k \in 1..Len(got[d]) : got'[d][k] = got[d][k]
          /\ got'[d][Len(got[d]) + 1] = wire[d][1]
      BY <1>0, <3>1, <3>2, Appended
    <3>5. ASSUME NEW x, In(x, got[d]) PROVE In(x, got'[d])
      <4>1. PICK k \in 1..Len(got[d]) : got[d][k] = x
        BY <3>5 DEF In
      <4>2. k \in 1..Len(got'[d]) /\ got'[d][k] = x
        BY <3>4, <4>1
      <4> QED
        BY <4>2 DEF In
    <3>6. In(wire[d][1], got'[d])
      <4>1. Len(got[d]) + 1 \in 1..Len(got'[d])
        BY <3>4
      <4> QED
        BY <3>4, <4>1 DEF In
    <3>7. ASSUME NEW i \in 1..seq, log[i].order = Watched[d], i > since[d]
          PROVE  In(log[i], got'[d]) \/ (In(log[i], wire'[d]) /\ wire[d][1].id < i)
      <4>1. In(log[i], got[d]) \/ In(log[i], wire[d])
        BY <3>3, <3>7 DEF CoverOf
      <4>2. ASSUME NEW k \in 1..Len(wire[d]), wire[d][k] = log[i], k # 1
            PROVE  In(log[i], wire'[d]) /\ wire[d][1].id < i
        <5>1. k - 1 \in 1..Len(wire'[d]) /\ wire'[d][k - 1] = wire[d][k] /\ 1 < k /\ 1 \in 1..Len(wire[d])
          BY <3>1, <3>2, <4>2
        <5>2. wire[d][1].id < wire[d][k].id
          BY <1>0, <5>1 DEF ClientOf, Heard
        <5>3. wire[d][k].id = i
          BY <4>2 DEF LogInv
        <5> QED
          BY <4>2, <5>1, <5>2, <5>3 DEF In
      <4> QED
        BY <3>5, <3>6, <4>1, <4>2 DEF In
    <3>8. wire[d][1].id \in 1..seq
      BY <1>0, <3>2 DEF ClientOf, Heard
    <3>9. ASSUME NEW i \in 1..seq, log[i].order = Watched[d], i > since[d], i <= wire[d][1].id
          PROVE  In(log[i], got'[d])
      BY <1>0, <3>7, <3>8, <3>9
    <3>10. d \in Streams => since[d] = 0 \/ since[d] + BufferSize <= seq
      BY <3>3 DEF CoverOf
    <3> QED
      BY <3>1, <3>2, <3>7, <3>9, <3>10 DEF CoverOf
  <2> QED
    BY <2>1, <2>2
<1>8. ASSUME NEW c \in Clients, Disconnect(c) PROVE CoverOf(d)'
  <2>1. /\ got' = got /\ lastEventId' = lastEventId /\ log' = log /\ seq' = seq /\ since' = since
        /\ outdated' = outdated
        /\ conn'[d] = "out" \/ (conn'[d] = conn[d] /\ wire'[d] = wire[d])
    BY <1>8 DEF Disconnect, bus, changes, TypeOK
  <2> QED
    BY <2>1 DEF CoverInv, CoverOf
<1>9. CASE Restart
  <2>1. conn'[d] = "out" /\ wire'[d] = <<>> /\ got'[d] = <<>>
    BY <1>9 DEF Restart
  <2> QED
    BY <2>1 DEF CoverOf
<1>10. CASE UNCHANGED vars
  BY <1>10, <1>s DEF vars
<1> QED
  BY <1>1, <1>2, <1>3, <1>4, <1>5, <1>6, <1>7, <1>8, <1>9, <1>10 DEF Next

\* The changes of an order that are under way move only with its own changes.
LEMMA StatusStep ==
    ASSUME TypeOK, TypeOK', LogInv, StatusInv, [Next]_vars, NEW o \in Orders \ crossed'
    PROVE  StatusOf(o)'
<1>0. seq \in Nat /\ log \in Seq(Events) /\ Len(log) = seq
  BY DEF TypeOK, LogInv
<1> DEFINE Same == /\ UnderWay(o)' = UnderWay(o) /\ status'[o] = status[o] /\ to' = to
                   /\ log' = log /\ seq' = seq /\ o \notin crossed
<1>s. Same => StatusOf(o)'
  BY DEF StatusInv, StatusOf, LastIs
<1>1. ASSUME NEW q \in Changes, Commit(q) PROVE StatusOf(o)'
  <2>1. /\ pc[q] = "new" /\ pc' = [pc EXCEPT ![q] = "committed"] /\ order' = order /\ to' = to
        /\ status' = [status EXCEPT ![order[q]] = to[q]] /\ log' = log /\ seq' = seq
        /\ crossed' = IF UnderWay(order[q]) = {} THEN crossed \ {order[q]} ELSE crossed \cup {order[q]}
    BY <1>1 DEF Commit, bus, clients
  <2>2. pc'[q] = "committed" /\ \A p \in Changes : p # q => pc'[p] = pc[p]
    BY <2>1 DEF TypeOK
  <2>3. CASE o # order[q]
    <3>1. UnderWay(o)' = UnderWay(o)
      BY <2>1, <2>2, <2>3 DEF UnderWay
    <3>2. status'[o] = status[o] /\ o \notin crossed
      BY <2>1, <2>3 DEF TypeOK
    <3> QED
      BY <1>s, <2>1, <3>1, <3>2
  <2>4. CASE o = order[q]
    <3>1. UnderWay(o) = {}
      BY <2>1, <2>4
    <3>2. UnderWay(o)' = {q}
      BY <2>1, <2>2, <2>4, <3>1 DEF UnderWay
    <3>3. status'[o] = to[q]
      BY <2>1, <2>4 DEF TypeOK
    <3> QED
      BY <2>1, <3>2, <3>3 DEF StatusOf
  <2> QED
    BY <2>3, <2>4
<1>2. ASSUME NEW q \in Changes, Leave(q) PROVE StatusOf(o)'
  <2>1. /\ pc[q] = "new" /\ pc' = [pc EXCEPT ![q] = "ended"] /\ order' = order /\ to' = to
        /\ status' = status /\ log' = log /\ seq' = seq /\ crossed' = crossed
    BY <1>2 DEF Leave, bus, clients
  <2>2. \A p \in Changes : pc'[p] = "committed" <=> pc[p] = "committed"
    BY <2>1 DEF TypeOK
  <2>3. UnderWay(o)' = UnderWay(o)
    BY <2>1, <2>2 DEF UnderWay
  <2> QED
    BY <1>s, <2>1, <2>3
<1>3. ASSUME NEW q \in Changes, Publish(q) PROVE StatusOf(o)'
  <2> DEFINE e == Event(seq + 1, order[q], to[q])
  <2>1. /\ e \in Events /\ e.order = order[q] /\ e.status = to[q]
        /\ log' = Append(log, e) /\ seq' = seq + 1
    BY <1>3, Published
  <2>2. /\ pc[q] = "committed" /\ pc' = [pc EXCEPT ![q] = "ended"] /\ order' = order /\ to' = to
        /\ status' = status /\ crossed' = crossed
    BY <1>3 DEF Publish
  <2> HIDE DEF e
  <2>3. pc'[q] = "ended" /\ \A p \in Changes : p # q => pc'[p] = pc[p]
    BY <2>2 DEF TypeOK
  <2>4. log'[seq + 1] = e /\ \A i \in 1..seq : log'[i] = log[i]
    BY <1>0, <2>1, Appended
  <2>5. StatusOf(o)
    BY <2>2 DEF StatusInv
  <2>6. CASE o = order[q]
    <3>1. q \in UnderWay(o)
      BY <2>2, <2>6 DEF UnderWay
    <3>2. to[q] = status[o] /\ UnderWay(o)' = {}
      <4>1. \A p \in UnderWay(o) : p = q
        BY <2>5, <3>1 DEF StatusOf
      <4> QED
        BY <2>2, <2>3, <2>5, <3>1, <4>1 DEF StatusOf, UnderWay
    <3>3. ASSUME NEW i \in 1..seq', \A k \in 1..seq' : k > i => log'[k].order # o PROVE i = seq + 1
      <4>1. seq + 1 \in 1..seq' /\ log'[seq + 1].order = o
        BY <1>0, <2>1, <2>4, <2>6
      <4> QED
        BY <1>0, <2>1, <3>3, <4>1
    <3>4. LastIs(o, status[o])'
      BY <2>1, <2>2, <2>4, <3>2, <3>3 DEF LastIs
    <3> QED
      BY <3>2, <3>4 DEF StatusOf
  <2>7. CASE o # order[q]
    <3>1. UnderWay(o)' = UnderWay(o)
      BY <2>2, <2>3, <2>7 DEF UnderWay
    <3>2. ASSUME LastIs(o, status[o]) PROVE LastIs(o, status[o])'
      <4>1. ASSUME NEW i \in 1..seq', log'[i].order = o,
                   \A k \in 1..seq' : k > i => log'[k].order # o
            PROVE  log'[i].status = status[o]
        <5>1. i \in 1..seq
          BY <1>0, <2>1, <2>4, <2>7, <4>1
        <5>2. ASSUME NEW k \in 1..seq, k > i PROVE log[k].order # o
          <6>1. k \in 1..seq'
            BY <1>0, <2>1
          <6> QED
            BY <2>4, <4>1, <5>2, <6>1
        <5> QED
          BY <2>4, <3>2, <4>1, <5>1, <5>2 DEF LastIs
      <4> QED
        BY <2>2, <4>1 DEF LastIs
    <3> QED
      BY <2>2, <2>5, <3>1, <3>2 DEF StatusOf
  <2> QED
    BY <2>6, <2>7
<1>4. ASSUME NEW c \in Clients, OpenStream(c) PROVE StatusOf(o)'
  BY <1>4, <1>s DEF OpenStream, bus, changes, UnderWay
<1>5. ASSUME NEW c \in Clients, BeginJoin(c) PROVE StatusOf(o)'
  BY <1>5, <1>s DEF BeginJoin, bus, changes, UnderWay
<1>6. ASSUME NEW c \in Clients, EndJoin(c) PROVE StatusOf(o)'
  BY <1>6, <1>s DEF EndJoin, bus, changes, UnderWay
<1>7. ASSUME NEW c \in Clients, Receive(c) PROVE StatusOf(o)'
  BY <1>7, <1>s DEF Receive, bus, changes, UnderWay
<1>8. ASSUME NEW c \in Clients, Disconnect(c) PROVE StatusOf(o)'
  BY <1>8, <1>s DEF Disconnect, bus, changes, UnderWay
<1>9. CASE Restart
  <2>1. /\ pc' = [q \in Changes |-> IF pc[q] = "committed" THEN "ended" ELSE pc[q]]
        /\ order' = order /\ seq' = 0
    BY <1>9 DEF Restart
  <2>2. UnderWay(o)' = {}
    BY <2>1 DEF UnderWay
  <2>3. \A i : i \notin 1..seq'
    BY <2>1
  <2> QED
    BY <2>2, <2>3 DEF StatusOf, LastIs
<1>10. CASE UNCHANGED vars
  BY <1>10, <1>s DEF vars, UnderWay
<1> QED
  BY <1>1, <1>2, <1>3, <1>4, <1>5, <1>6, <1>7, <1>8, <1>9, <1>10 DEF Next

-----------------------------------------------------------------------------
(* The invariant and the two properties.                                   *)

\* The first boot: nothing is logged, nobody is connected, nothing is under way.
LEMMA InitIInv ==
    Init => IInv
<1> SUFFICES ASSUME Init PROVE IInv
  OBVIOUS
<1>1. TypeOK
  BY DEF Init, TypeOK
<1>2. LogInv
  BY DEF Init, LogInv
<1>3. ClientInv
  BY DEF Init, ClientInv, ClientOf, Heard
<1>4. CoverInv
  BY DEF Init, CoverInv, CoverOf
<1>5. StatusInv
  BY DEF Init, StatusInv, StatusOf, LastIs, UnderWay
<1> QED
  BY <1>1, <1>2, <1>3, <1>4, <1>5 DEF IInv

\* The inductive invariant holds in every boot, whatever the clients, the network
\* and the changes do.
THEOREM Invariance ==
    Spec => []IInv
<1>1. ASSUME IInv, [Next]_vars PROVE IInv'
  <2>0. TypeOK /\ LogInv /\ ClientInv /\ CoverInv /\ StatusInv
    BY <1>1 DEF IInv
  <2>1. TypeOK'
    BY <1>1, <2>0, TypeStep
  <2>2. LogInv'
    BY <1>1, <2>0, <2>1, LogStep
  <2>3. ClientInv'
    BY <1>1, <2>0, <2>1, ClientStep DEF ClientInv
  <2>4. CoverInv'
    BY <1>1, <2>0, <2>1, CoverStep DEF CoverInv
  <2>5. StatusInv'
    BY <1>1, <2>0, <2>1, StatusStep DEF StatusInv
  <2> QED
    BY <2>1, <2>2, <2>3, <2>4, <2>5 DEF IInv
<1> QED
  BY <1>1, InitIInv, PTL DEF Spec

\* What was received and what is under way, as one sequence.
LEMMA SentPlaces ==
    ASSUME TypeOK, NEW c \in Clients
    PROVE  /\ got[c] \in Seq(Events) /\ wire[c] \in Seq(Events) /\ Sent(c) \in Seq(Events)
           /\ Len(got[c]) \in Nat /\ Len(wire[c]) \in Nat
           /\ DOMAIN Sent(c) = 1..Len(got[c]) + Len(wire[c])
           /\ \A k \in 1..Len(got[c]) : Sent(c)[k] = got[c][k]
           /\ \A k \in 1..Len(wire[c]) : Sent(c)[Len(got[c]) + k] = wire[c][k]
<1>1. got[c] \in Seq(Events) /\ wire[c] \in Seq(Events)
  BY DEF TypeOK
<1>2. Len(got[c]) \in Nat /\ Len(wire[c]) \in Nat /\ Sent(c) \in Seq(Events)
      /\ Len(Sent(c)) = Len(got[c]) + Len(wire[c])
  BY <1>1 DEF Sent
<1>3. DOMAIN Sent(c) = 1..Len(Sent(c))
  BY <1>2
<1>4. \A i \in 1..Len(got[c]) + Len(wire[c]) :
          Sent(c)[i] = IF i <= Len(got[c]) THEN got[c][i] ELSE wire[c][i - Len(got[c])]
  BY <1>1, ConcatProperties DEF Sent
<1> DEFINE g == Len(got[c])
           w == Len(wire[c])
<1>5. g \in Nat /\ w \in Nat /\ \A i \in 1..g + w : Sent(c)[i] = IF i <= g THEN got[c][i] ELSE wire[c][i - g]
  BY <1>2, <1>4
<1>6. (\A k \in 1..g : Sent(c)[k] = got[c][k]) /\ \A k \in 1..w : Sent(c)[g + k] = wire[c][k]
  <2> HIDE DEF g, w
  <2>1. ASSUME NEW k \in 1..g PROVE Sent(c)[k] = got[c][k]
    <3>1. k \in 1..g + w /\ k <= g
      BY <1>5
    <3> QED
      BY <1>5, <3>1
  <2>2. ASSUME NEW k \in 1..w PROVE Sent(c)[g + k] = wire[c][k]
    <3>1. g + k \in 1..g + w /\ ~(g + k <= g) /\ (g + k) - g = k
      BY <1>5
    <3> QED
      BY <1>5, <3>1
  <2> QED
    BY <2>1, <2>2
<1> QED
  BY <1>1, <1>2, <1>3, <1>6

\* However often it reconnects, a client is sent the events of its order by
\* ascending id, none twice and none missing but those the replay buffer had
\* dropped (OrdersController.events, OrderEventsService.since).
THEOREM NoGapNoDuplicateHolds ==
    Spec => []NoGapNoDuplicate
<1>1. ASSUME IInv PROVE NoGapNoDuplicate
  <2> SUFFICES ASSUME NEW c \in Clients, conn[c] = "in", c \notin outdated
               PROVE  /\ \A i, k \in DOMAIN Sent(c) : i < k => Sent(c)[i].id < Sent(c)[k].id
                      /\ \A e \in {log[i] : i \in DOMAIN log} :
                            e.order = Watched[c] /\ e.id > since[c] => \E i \in DOMAIN Sent(c) : Sent(c)[i] = e
    BY DEF NoGapNoDuplicate
  <2> DEFINE g == Len(got[c])
             w == Len(wire[c])
  <2>0. TypeOK /\ LogInv /\ ClientOf(c) /\ CoverOf(c)
    BY <1>1 DEF IInv, ClientInv, CoverInv
  <2>1. /\ g \in Nat /\ w \in Nat /\ DOMAIN Sent(c) = 1..g + w
        /\ \A k \in 1..g : Sent(c)[k] = got[c][k]
        /\ \A k \in 1..w : Sent(c)[g + k] = wire[c][k]
        /\ got[c] \in Seq(Events) /\ wire[c] \in Seq(Events)
    BY <2>0, SentPlaces
  <2>2. /\ \A k \in 1..g : got[c][k].id \in Nat
        /\ \A k \in 1..w : wire[c][k].id \in Nat
        /\ \A i, k \in 1..g : i < k => got[c][i].id < got[c][k].id
        /\ \A i, k \in 1..w : i < k => wire[c][i].id < wire[c][k].id
    <3>1. \A x \in Events : x.id \in Nat
      BY DEF Events
    <3>2. (\A k \in 1..g : got[c][k] \in Events) /\ \A k \in 1..w : wire[c][k] \in Events
      BY <2>1
    <3> QED
      BY <2>0, <3>1, <3>2 DEF ClientOf, Heard
  <2>3. ASSUME NEW i \in 1..g, NEW k \in 1..w PROVE got[c][i].id < wire[c][k].id
    <3>1. got[c] # <<>> /\ g \in 1..g
      BY <2>1
    <3>2. got[c][g].id = lastEventId[c] /\ lastEventId[c] < wire[c][k].id
      BY <2>0, <3>1 DEF ClientOf
    <3>3. i = g \/ got[c][i].id < got[c][g].id
      BY <2>1, <2>2, <3>1
    <3> QED
      BY <2>2, <3>1, <3>2, <3>3
  <2> HIDE DEF g, w
  <2>4. ASSUME NEW i \in 1..g + w, NEW k \in 1..g + w, i < k
        PROVE  Sent(c)[i].id < Sent(c)[k].id
    <3>1. CASE k \in 1..g
      <4>1. i \in 1..g
        BY <2>1, <2>4, <3>1
      <4> QED
        BY <2>1, <2>2, <2>4, <3>1, <4>1
    <3>2. CASE i \in 1..g /\ k \notin 1..g
      <4>1. k - g \in 1..w /\ g + (k - g) = k
        BY <2>1, <3>2
      <4>2. Sent(c)[k] = wire[c][k - g]
        BY <2>1, <4>1
      <4> QED
        BY <2>1, <2>3, <3>2, <4>1, <4>2
    <3>3. CASE i \notin 1..g /\ k \notin 1..g
      <4>1. /\ k - g \in 1..w /\ g + (k - g) = k /\ i - g \in 1..w /\ g + (i - g) = i /\ i - g < k - g
        BY <2>1, <2>4, <3>3
      <4>2. Sent(c)[k] = wire[c][k - g] /\ Sent(c)[i] = wire[c][i - g]
        BY <2>1, <4>1
      <4> QED
        BY <2>2, <4>1, <4>2
    <3> QED
      BY <3>1, <3>2, <3>3
  <2>5. ASSUME NEW n \in DOMAIN log, log[n].order = Watched[c], log[n].id > since[c]
        PROVE  \E i \in DOMAIN Sent(c) : Sent(c)[i] = log[n]
    <3>1. n \in 1..seq /\ log[n].id = n
      BY <2>0 DEF TypeOK, LogInv
    <3>2. In(log[n], got[c]) \/ In(log[n], wire[c])
      BY <2>0, <2>5, <3>1 DEF CoverOf
    <3>3. CASE In(log[n], got[c])
      <4>1. PICK k \in 1..g : got[c][k] = log[n]
        BY <3>3 DEF In, g
      <4>2. k \in DOMAIN Sent(c) /\ Sent(c)[k] = log[n]
        BY <2>1, <4>1
      <4> QED
        BY <4>2
    <3>4. CASE In(log[n], wire[c])
      <4>1. PICK k \in 1..w : wire[c][k] = log[n]
        BY <3>4 DEF In, w
      <4>2. g + k \in DOMAIN Sent(c) /\ Sent(c)[g + k] = log[n]
        BY <2>1, <4>1
      <4> QED
        BY <4>2
    <3> QED
      BY <3>2, <3>3, <3>4
  <2> QED
    BY <2>1, <2>4, <2>5
<1> QED
  BY <1>1, Invariance, PTL

\* A client that has received the last event of its order shows the status that
\* is stored, when no change is under way and no two had crossed
\* (OrdersService.changeStatus publishes after COMMIT, outside the row lock).
THEOREM LastWordIsStoredHolds ==
    Spec => []LastWordIsStored
<1>1. ASSUME IInv PROVE LastWordIsStored
  <2> SUFFICES ASSUME NEW c \in Clients, UnderWay(Watched[c]) = {}, Watched[c] \notin crossed, UpToDate(c)
               PROVE  got[c][Len(got[c])].status = status[Watched[c]]
    BY DEF LastWordIsStored
  <2>0. TypeOK /\ LogInv /\ ClientOf(c) /\ StatusOf(Watched[c]) /\ Watched[c] \in Orders
    BY <1>1 DEF IInv, ClientInv, StatusInv
  <2>1. /\ got[c] \in Seq(Events) /\ DOMAIN got[c] = 1..Len(got[c]) /\ Len(got[c]) \in Nat
        /\ log \in Seq(Events) /\ DOMAIN log = 1..seq /\ seq \in Nat /\ Len(log) = seq
    BY <2>0 DEF TypeOK, LogInv
  <2>2. PICK i \in 1..seq : /\ \E k \in 1..Len(got[c]) : got[c][k] = log[i]
                            /\ \A k \in 1..seq : k > i => log[k].order # Watched[c]
    BY <2>1 DEF UpToDate
  <2>3. PICK k \in 1..Len(got[c]) : got[c][k] = log[i]
    BY <2>2
  <2> DEFINE n == Len(got[c])
             m == got[c][n].id
  <2>4. n \in 1..n /\ m \in 1..seq /\ got[c][n] = log[m] /\ log[m].order = Watched[c]
    BY <2>0, <2>1 DEF ClientOf, Heard
  <2>5. log[i].id = i /\ log[i].order = Watched[c]
    BY <2>0, <2>1, <2>3 DEF LogInv, ClientOf, Heard
  <2>6. k = n \/ got[c][k].id < m
    <3>1. \A j \in 1..n : j < n => got[c][j].id < got[c][n].id
      BY <2>0, <2>4 DEF ClientOf, Heard
    <3>2. k = n \/ k < n
      BY <2>1
    <3> QED
      BY <3>1, <3>2
  <2>7. m = i
    <3> HIDE DEF m
    <3>1. ~(m > i)
      BY <2>2, <2>4
    <3>2. k = n => m = i
      BY <2>3, <2>5 DEF m
    <3> QED
      BY <2>3, <2>4, <2>5, <2>6, <3>1, <3>2
  <2>8. log[i].status = status[Watched[c]]
    BY <2>0, <2>2, <2>5 DEF StatusOf, LastIs
  <2> QED
    BY <2>4, <2>7, <2>8
<1> QED
  BY <1>1, Invariance, PTL
=============================================================================
