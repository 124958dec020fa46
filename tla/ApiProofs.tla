------------------------------ MODULE ApiProofs ------------------------------
(***************************************************************************)
(* Proofs about the two promises a client of the API depends on when it    *)
(* asks more than once: that the pages of a list fit together (Paging, for *)
(* any accounts, transactions, limits, walks and length of a millisecond), *)
(* and that a retried POST has one effect (Idempotency, in the second      *)
(* part, for any keys, bodies, requests, TTL and number of restarts).      *)
(*                                                                         *)
(* A page is CHOSEN by what is true of it, so the first thing to prove is  *)
(* that there is one: PageExists, by induction on the limit, with the      *)
(* highest of the rows that are left.  The invariant of Paging adds        *)
(*   TableInv  ids are unique, transactions have their account, and stored *)
(*             times are whole milliseconds, so that the Date of a cursor  *)
(*             is the time of its row;                                     *)
(*   WalkInv   the cursor of a walk is the place of its last item, every   *)
(*             item is selected and passed, and every selected row that is *)
(*             passed is an item or was inserted behind the cursor.        *)
(*                                                                         *)
(* The invariant of Idempotency adds                                       *)
(*   ClaimInv  what a request has done so far, and that one under way was  *)
(*             claimed in this life of the process, less than a TTL ago;   *)
(*   FlightInv a key is in flight for the one request under way with it;   *)
(*   DoneInv   a stored response is that of a request which took effect;   *)
(*   HeldInv   an effect that stands keeps its key taken for a TTL;        *)
(*   OneOpen   of two claims of a key within a TTL at least one is over    *)
(*             and without an effect that stands.                          *)
(***************************************************************************)
EXTENDS Paging, Idempotency, SequenceTheorems, FiniteSetTheorems, TLAPS

Account == [id : AccountIds, owner : Users, at : Nat]
Transaction == [id : TransactionIds, account : AccountIds, at : Nat]
Row == Account \cup Transaction
Cursor == [at : Nat, id : Nat]

PagingTypeOK ==
    /\ accounts \subseteq Account
    /\ transactions \subseteq Transaction
    /\ walk \in [Walks -> [pc : {"idle", "open", "done", "refused"}, query : Queries \cup {None},
                           cursor : Cursor \cup {None}, items : Seq(Row)]]
    /\ missed \in [Walks -> SUBSET Row]

TableInv ==
    /\ \A a, b \in accounts : a.id = b.id => a = b
    /\ \A t, s \in transactions : t.id = s.id => t = s
    /\ \A t \in transactions : AccountExists(t.account)
    /\ \A r \in accounts \cup transactions : ToDate(r.at) = r.at

RowsOf(list) == IF list = "accounts" THEN accounts ELSE transactions

\* The place of a row in the order of a list.
Place(r) == [at |-> r.at, id |-> r.id]

Listing(w) ==
    LET q == walk[w].query
        items == walk[w].items IN
    /\ q \in Queries
    /\ \A m, n \in 1..Len(items) : m < n => Below(items[n], items[m])
    /\ walk[w].pc = "open" =>
          walk[w].cursor = IF items = <<>> THEN None ELSE Place(items[Len(items)])
    /\ missed[w] \subseteq RowsOf(q.list)
    /\ \A r \in missed[w] : Passed(w, r) /\ r \notin ToSet(items)
    /\ \A r \in ToSet(items) : r \in Selected(q) /\ Passed(w, r)
    /\ \A r \in Selected(q) : Passed(w, r) => r \in ToSet(items) \cup missed[w]

WalkOf(w) ==
    /\ walk[w].pc = "idle" => walk[w].cursor = None /\ walk[w].items = <<>> /\ missed[w] = {}
    /\ walk[w].pc \in {"open", "done"} => Listing(w)

WalkInv == \A w \in Walks : WalkOf(w)

PagingIInv == PagingTypeOK /\ TableInv /\ WalkInv

USE IdsAssumption, NoneAssumption, TimeAssumption, LimitsAssumption

-----------------------------------------------------------------------------
(* The order of the lists.                                                 *)

\* Something with a time and an id that can be compared.
Placed(r) == r.at \in Nat /\ r.id \in Nat

\* (at, id) < (c, cid) is a strict order, total where no two places are the same.
LEMMA BelowOrder ==
    ASSUME NEW r, NEW s, Placed(r), Placed(s)
    PROVE  /\ ~Below(r, r)
           /\ Below(r, s) => ~Below(s, r)
           /\ r.at # s.at \/ r.id # s.id => Below(r, s) \/ Below(s, r)
  BY DEF Placed, Below

\* It is transitive.
LEMMA BelowTransitive ==
    ASSUME NEW r, NEW s, NEW t, Placed(r), Placed(s), Placed(t), Below(r, s), Below(s, t)
    PROVE  Below(r, t)
  BY DEF Placed, Below

\* Rows in different places.
Ordered(R) ==
    /\ \A r \in R : Placed(r)
    /\ \A r, s \in R : r.at = s.at /\ r.id = s.id => r = s

\* Induction, as a statement about a set of numbers.
LEMMA AllNumbers ==
    ASSUME NEW S, 0 \in S, \A n \in Nat : n \in S => n + 1 \in S
    PROVE  Nat \subseteq S
<1> DEFINE Less == OpToRel(<, Nat)
           Left == {n \in Nat : n \notin S}
<1> SUFFICES ASSUME Left # {} PROVE FALSE
  OBVIOUS
<1>1. PICK m \in Left : \A n \in Left : <<n, m>> \notin Less
  <2>1. IsWellFoundedOn(Less, Nat)
    BY NatLessThanWellFounded
  <2>2. Left \subseteq Nat
    OBVIOUS
  <2> HIDE DEF Less, Left
  <2> QED
    BY <2>1, <2>2, WFMin
<1>2. Less = {p \in Nat \X Nat : p[1] < p[2]}
  BY Zenon DEF OpToRel
<1>3. m \in Nat /\ m \notin S /\ m # 0
  OBVIOUS
<1>4. m - 1 \in Nat /\ m - 1 < m /\ (m - 1) + 1 = m
  BY <1>3
<1>5. m - 1 \in S
  <2>1. <<m - 1, m>> \in Less
    BY <1>2, <1>3, <1>4
  <2> QED
    BY <1>1, <1>4, <2>1
<1> QED
  BY <1>3, <1>4, <1>5

\* Finitely many rows have a highest one.
LEMMA Highest ==
    ASSUME NEW R, Ordered(R), NEW T \in SUBSET R, IsFiniteSet(T), T # {}
    PROVE  \E h \in T : \A r \in T \ {h} : Below(r, h)
<1> DEFINE Good(U) == \E h \in U : \A r \in U \ {h} : Below(r, h)
           S == {n \in Nat : \A U \in SUBSET R : IsFiniteSet(U) /\ Cardinality(U) = n + 1 => Good(U)}
<1>1. 0 \in S
  <2>1. ASSUME NEW U \in SUBSET R, IsFiniteSet(U), Cardinality(U) = 0 + 1 PROVE Good(U)
    <3>1. PICK x : U = {x}
      <4>1. Cardinality(U) = 1
        BY <2>1
      <4> QED
        BY <2>1, <4>1, FS_Singleton
    <3> QED
      BY <3>1
  <2> HIDE DEF Good
  <2> QED
    BY <2>1
<1>2. ASSUME NEW n \in Nat, n \in S PROVE n + 1 \in S
  <2>1. ASSUME NEW U \in SUBSET R, IsFiniteSet(U), Cardinality(U) = (n + 1) + 1 PROVE Good(U)
    <3>1. PICK x \in U : TRUE
      <4>1. U # {}
        BY <2>1, FS_EmptySet
      <4> QED
        BY <4>1
    <3>2. IsFiniteSet(U \ {x}) /\ Cardinality(U \ {x}) = n + 1 /\ U \ {x} \in SUBSET R
      BY <2>1, <3>1, FS_RemoveElement
    <3>3. Good(U \ {x})
      <4> HIDE DEF Good
      <4> QED
        BY <1>2, <3>2
    <3>4. PICK h \in U \ {x} : \A r \in (U \ {x}) \ {h} : Below(r, h)
      BY <3>3
    <3>5. x \in R /\ h \in R /\ x # h /\ Placed(x) /\ Placed(h)
      BY <3>1, <3>4 DEF Ordered
    <3>6. Below(x, h) \/ Below(h, x)
      <4>1. x.at # h.at \/ x.id # h.id
        BY <3>5 DEF Ordered
      <4> QED
        BY <3>5, <4>1, BelowOrder
    <3>7. CASE Below(x, h)
      BY <3>4, <3>7
    <3>8. CASE Below(h, x)
      <4>1. ASSUME NEW r \in U \ {x} PROVE Below(r, x)
        <5>1. CASE r = h
          BY <3>8, <5>1
        <5>2. CASE r # h
          <6>1. Below(r, h) /\ Placed(r)
            BY <3>4, <5>2 DEF Ordered
          <6> QED
            BY <3>5, <3>8, <6>1, BelowTransitive
        <5> QED
          BY <5>1, <5>2
      <4> QED
        BY <3>1, <4>1
    <3> QED
      BY <3>6, <3>7, <3>8
  <2>2. n + 1 \in Nat
    OBVIOUS
  <2> HIDE DEF Good
  <2> QED
    BY <2>1, <2>2
<1>3. Cardinality(T) \in Nat /\ Cardinality(T) # 0
  BY FS_CardinalityType, FS_EmptySet
<1>4. Cardinality(T) - 1 \in Nat /\ (Cardinality(T) - 1) + 1 = Cardinality(T)
  BY <1>3
<1>5. Cardinality(T) - 1 \in S
  <2> HIDE DEF S
  <2> QED
    BY <1>1, <1>2, <1>4, AllNumbers
<1>6. Good(T)
  <2> HIDE DEF Good
  <2> QED
    BY <1>4, <1>5
<1> QED
  BY <1>6

-----------------------------------------------------------------------------
(* findPage.                                                               *)

IsPage(page, R, limit) ==
    /\ \A m, n \in DOMAIN page : m < n => Below(page[n], page[m])
    /\ \A r \in R \ ToSet(page) : Len(page) = limit /\ \A n \in 1..limit : Below(r, page[n])

Pages(R, limit) == UNION {[1..n -> R] : n \in 0..limit}

\* The functions on 1..n are sequences.
LEMMA PageIsSeq ==
    ASSUME NEW R, NEW limit \in Nat, NEW page \in Pages(R, limit)
    PROVE  page \in Seq(R) /\ Len(page) \in 0..limit /\ DOMAIN page = 1..Len(page)
<1>1. PICK n \in 0..limit : page \in [1..n -> R]
  BY DEF Pages
<1>2. n \in Nat /\ n <= limit
  BY <1>1
<1>3. page \in Seq(R)
  BY <1>1, <1>2, SeqDef
<1>4. Len(page) = n
  BY <1>1, <1>2, <1>3
<1> QED
  BY <1>1, <1>3, <1>4

\* However many rows are asked for, there is a page of them.
LEMMA PageExists ==
    ASSUME NEW R, IsFiniteSet(R), Ordered(R), NEW limit \in Nat
    PROVE  \E page \in Pages(R, limit) : IsPage(page, R, limit)
<1> DEFINE S == {n \in Nat : \E page \in Pages(R, n) : IsPage(page, R, n)}
<1>1. 0 \in S
  <2> DEFINE none == [k \in 1..0 |-> {}]
  <2>1. none \in [1..0 -> R] /\ 0 \in 0..0
    OBVIOUS
  <2>2. none \in Pages(R, 0)
    <3> HIDE DEF none
    <3> QED
      BY <2>1 DEF Pages
  <2>3. Len(none) = 0 /\ DOMAIN none = 1..0
    <3>1. Len(none) \in 0..0 /\ DOMAIN none = 1..Len(none)
      <4> HIDE DEF none
      <4> QED
        BY <2>2, PageIsSeq
    <3> HIDE DEF none
    <3> QED
      BY <3>1
  <2>4. \A k : k \notin 1..0
    OBVIOUS
  <2> HIDE DEF none
  <2>5. IsPage(none, R, 0)
    BY <2>3, <2>4 DEF IsPage
  <2> QED
    BY <2>2, <2>5
<1>2. ASSUME NEW n \in Nat, n \in S PROVE n + 1 \in S
  <2>1. PICK p \in Pages(R, n) : IsPage(p, R, n)
    BY <1>2
  <2>2. p \in Seq(R) /\ Len(p) \in 0..n /\ DOMAIN p = 1..Len(p)
    BY <2>1, PageIsSeq
  <2> SUFFICES ASSUME TRUE PROVE \E page \in Pages(R, n + 1) : IsPage(page, R, n + 1)
    <3> HIDE DEF Pages, IsPage
    <3>1. n + 1 \in Nat
      OBVIOUS
    <3> QED
      BY <3>1
  <2> HIDE DEF S
  <2> DEFINE rest == R \ ToSet(p)
  <2>3. CASE rest = {}
    <3>1. p \in Pages(R, n + 1)
      <4>1. PICK k \in 0..n : p \in [1..k -> R]
        BY <2>1 DEF Pages
      <4>2. k \in 0..n + 1
        BY <4>1
      <4> QED
        BY <4>1, <4>2 DEF Pages
    <3>2. IsPage(p, R, n + 1)
      BY <2>1, <2>3 DEF IsPage
    <3> QED
      BY <3>1, <3>2
  <2>4. CASE rest # {}
    <3>1. PICK h \in rest : \A r \in rest \ {h} : Below(r, h)
      <4>1. rest \in SUBSET R /\ IsFiniteSet(rest)
        BY FS_Subset
      <4> HIDE DEF rest
      <4> QED
        BY <2>4, <4>1, Highest
    <3>2. Len(p) = n /\ \A r \in rest : \A k \in 1..n : Below(r, p[k])
      BY <2>1, <2>4 DEF IsPage
    <3> DEFINE page == [k \in 1..n + 1 |-> IF k = n + 1 THEN h ELSE p[k]]
    <3>3. h \in R /\ (\A k \in 1..n : p[k] \in R) /\ DOMAIN p = 1..n
      BY <2>2, <3>1, <3>2
    <3>4. page \in [1..n + 1 -> R]
      BY <3>3
    <3>5. page \in Pages(R, n + 1)
      <4> HIDE DEF page
      <4>1. n + 1 \in 0..n + 1
        OBVIOUS
      <4> QED
        BY <3>4, <4>1 DEF Pages
    <3>6. /\ DOMAIN page = 1..n + 1 /\ page[n + 1] = h /\ \A k \in 1..n : page[k] = p[k]
      OBVIOUS
    <3> HIDE DEF page, rest
    <3>7. Len(page) = n + 1
      <4>1. page \in Seq(R) /\ Len(page) \in 0..n + 1 /\ DOMAIN page = 1..Len(page)
        BY <3>5, PageIsSeq
      <4> QED
        BY <3>6, <4>1
    <3>8. ASSUME NEW j \in 1..n + 1, NEW k \in 1..n + 1, j < k PROVE Below(page[k], page[j])
      <4>1. j \in 1..n
        BY <3>8
      <4>2. CASE k = n + 1
        BY <3>1, <3>2, <3>6, <4>1, <4>2
      <4>3. CASE k \in 1..n
        BY <2>1, <3>3, <3>6, <3>8, <4>1, <4>3 DEF IsPage
      <4> QED
        BY <4>2, <4>3
    <3>9. ASSUME NEW r \in R \ ToSet(page), NEW k \in 1..n + 1 PROVE Below(r, page[k])
      <4>1. r # h /\ r \in rest
        <5>1. \A i \in 1..n + 1 : r # page[i]
          BY <3>6, <3>9 DEF ToSet
        <5>2. r # h
          BY <3>6, <5>1
        <5>3. ASSUME NEW i \in 1..n PROVE r # p[i]
          <6>1. i \in 1..n + 1
            OBVIOUS
          <6> QED
            BY <3>6, <5>1, <6>1
        <5> QED
          BY <3>3, <5>2, <5>3 DEF ToSet, rest
      <4>2. CASE k = n + 1
        BY <3>1, <3>6, <4>1, <4>2
      <4>3. CASE k \in 1..n
        BY <3>2, <3>6, <4>1, <4>3
      <4> QED
        BY <4>2, <4>3
    <3>10. IsPage(page, R, n + 1)
      BY <3>6, <3>7, <3>8, <3>9 DEF IsPage
    <3> QED
      BY <3>5, <3>10
  <2> QED
    BY <2>3, <2>4
<1>3. limit \in S
  <2> HIDE DEF S
  <2> QED
    BY <1>1, <1>2, AllNumbers
<1> QED
  BY <1>3

-----------------------------------------------------------------------------
(* The tables.                                                             *)

\* Times are stored with milliseconds, so that the Date made of one is exact.
LEMMA Rounded ==
    ASSUME NEW t \in Nat
    PROVE  ToDate(t) \in Nat /\ Column(t) \in Nat /\ ToDate(Column(t)) = Column(t)
<1>1. ASSUME NEW x \in Nat PROVE x \div Millisecond \in Nat /\ (x * Millisecond) \div Millisecond = x
  OBVIOUS
<1>2. Millisecond \div 2 \in Nat
  OBVIOUS
<1> DEFINE n == (t + Millisecond \div 2) \div Millisecond
<1>3. n \in Nat /\ t \div Millisecond \in Nat
  <2>1. t + Millisecond \div 2 \in Nat
    BY <1>2
  <2> QED
    BY <1>1, <2>1
<1>4. Column(t) = n * Millisecond /\ ToDate(t) = (t \div Millisecond) * Millisecond
  BY DEF Column, ToDate
<1> HIDE DEF n
<1>5. Column(t) \in Nat /\ ToDate(t) \in Nat
  BY <1>3, <1>4
<1>6. ToDate(Column(t)) = ((n * Millisecond) \div Millisecond) * Millisecond
  BY <1>4 DEF ToDate
<1> QED
  BY <1>1, <1>3, <1>4, <1>5, <1>6

\* The rows of a list are finitely many and in different places.
LEMMA ListFacts ==
    ASSUME PagingTypeOK, TableInv, NEW q \in Queries
    PROVE  /\ Selected(q) \subseteq RowsOf(q.list) /\ RowsOf(q.list) \subseteq Row
           /\ IsFiniteSet(Selected(q)) /\ Ordered(Selected(q))
           /\ \A r \in Selected(q) : ToDate(r.at) = r.at
<1>1. /\ \A a \in accounts : a.id \in AccountIds /\ a.at \in Nat
      /\ \A t \in transactions : t.id \in TransactionIds /\ t.at \in Nat
  BY DEF PagingTypeOK, Account, Transaction
<1>2. IsFiniteSet(accounts)
  <2> DEFINE f == [a \in accounts |-> a.id]
  <2>1. f \in Injection(accounts, AccountIds)
    BY <1>1 DEF Injection, IsInjective, TableInv
  <2> HIDE DEF f
  <2> QED
    BY <2>1, FS_Injection
<1>3. IsFiniteSet(transactions)
  <2> DEFINE f == [t \in transactions |-> t.id]
  <2>1. f \in Injection(transactions, TransactionIds)
    BY <1>1 DEF Injection, IsInjective, TableInv
  <2> HIDE DEF f
  <2> QED
    BY <2>1, FS_Injection
<1>4. IsFiniteSet(RowsOf(q.list)) /\ RowsOf(q.list) \subseteq accounts \cup transactions
  BY <1>2, <1>3 DEF RowsOf
<1>5. Selected(q) \in SUBSET RowsOf(q.list)
  BY DEF Selected, RowsOf
<1>6. IsFiniteSet(Selected(q))
  BY <1>4, <1>5, FS_Subset
<1>7. Ordered(Selected(q))
  <2>1. \A r \in RowsOf(q.list) : Placed(r)
    BY <1>1 DEF RowsOf, Placed
  <2>2. \A r, s \in RowsOf(q.list) : r.id = s.id => r = s
    BY DEF RowsOf, TableInv
  <2> QED
    BY <1>5, <2>1, <2>2 DEF Ordered
<1>8. RowsOf(q.list) \subseteq Row
  BY <1>4 DEF PagingTypeOK, Row
<1> QED
  BY <1>4, <1>5, <1>6, <1>7, <1>8 DEF TableInv

\* Rows and cursors can be compared.
LEMMA RowsArePlaced ==
    (\A r \in Row : Placed(r)) /\ \A c \in Cursor : Placed(c)
  BY DEF Row, Account, Transaction, Placed, Cursor

\* What findPage returns: the highest rows behind the cursor.
LEMMA FindPageFacts ==
    ASSUME PagingTypeOK, TableInv, NEW q \in Queries, NEW cursor, NEW limit \in Nat
    PROVE  LET R == {r \in Selected(q) : cursor # None => Below(r, cursor)}
               page == FindPage(q, cursor, limit) IN
           /\ page \in Seq(R) /\ Len(page) \in 0..limit /\ DOMAIN page = 1..Len(page)
           /\ IsPage(page, R, limit)
<1> DEFINE R == {r \in Selected(q) : cursor # None => Below(r, cursor)}
           page == FindPage(q, cursor, limit)
<1>1. page = CHOOSE p \in Pages(R, limit) : IsPage(p, R, limit)
  BY DEF FindPage, Pages, IsPage
<1>2. \E p \in Pages(R, limit) : IsPage(p, R, limit)
  <2>1. R \in SUBSET Selected(q) /\ IsFiniteSet(Selected(q)) /\ Ordered(Selected(q))
    BY ListFacts
  <2>2. IsFiniteSet(R)
    BY <2>1, FS_Subset
  <2>3. Ordered(R)
    BY <2>1 DEF Ordered
  <2> HIDE DEF R
  <2> QED
    BY <2>2, <2>3, PageExists
<1> HIDE DEF R, page
<1>3. page \in Pages(R, limit) /\ IsPage(page, R, limit)
  BY Zenon, <1>1, <1>2
<1>4. page \in Seq(R) /\ Len(page) \in 0..limit /\ DOMAIN page = 1..Len(page)
  BY <1>3, PageIsSeq
<1> QED
  BY <1>3, <1>4 DEF R, page

-----------------------------------------------------------------------------
(* The steps.                                                              *)

\* What a page does to its walk.
LEMMA PageTaken ==
    ASSUME PagingTypeOK, NEW w \in Walks, NEW limit \in Limits, GetPage(w, limit)
    PROVE  LET page == FindPage(walk[w].query, walk[w].cursor, limit)
               next == NextCursor(page, limit) IN
           /\ walk[w].pc = "open"
           /\ walk' \in [Walks -> {walk'[v] : v \in Walks}]
           /\ \A v \in Walks \ {w} : walk'[v] = walk[v]
           /\ walk'[w] = [pc |-> IF next = None THEN "done" ELSE "open", query |-> walk[w].query,
                          cursor |-> next, items |-> walk[w].items \o page]
           /\ accounts' = accounts /\ transactions' = transactions /\ missed' = missed
<1> DEFINE page == FindPage(walk[w].query, walk[w].cursor, limit)
           next == NextCursor(page, limit)
<1>1. /\ walk[w].pc = "open"
      /\ walk' = [walk EXCEPT ![w].items = walk[w].items \o page,
                              ![w].cursor = next,
                              ![w].pc = IF next = None THEN "done" ELSE "open"]
      /\ accounts' = accounts /\ transactions' = transactions /\ missed' = missed
  BY DEF GetPage
<1> HIDE DEF page, next
<1>2. walk[w] \in [pc : {"idle", "open", "done", "refused"}, query : Queries \cup {None},
                   cursor : Cursor \cup {None}, items : Seq(Row)]
  BY DEF PagingTypeOK
<1>3. /\ walk'[w] = [walk[w] EXCEPT !.items = walk[w].items \o page,
                                    !.cursor = next,
                                    !.pc = IF next = None THEN "done" ELSE "open"]
      /\ \A v \in Walks \ {w} : walk'[v] = walk[v]
      /\ walk' \in [Walks -> {walk'[v] : v \in Walks}]
  BY <1>1 DEF PagingTypeOK
<1>4. walk'[w] = [pc |-> IF next = None THEN "done" ELSE "open", query |-> walk[w].query,
                  cursor |-> next, items |-> walk[w].items \o page]
  BY <1>2, <1>3
<1> QED
  BY <1>1, <1>3, <1>4 DEF page, next

\* A page, when its walk is what the invariant says: rows it has not passed, and
\* the cursor is the place of the last one.
LEMMA PageOfWalk ==
    ASSUME PagingTypeOK, TableInv, WalkInv, NEW w \in Walks, NEW limit \in Limits, GetPage(w, limit)
    PROVE  LET q == walk[w].query
               page == FindPage(q, walk[w].cursor, limit)
               next == NextCursor(page, limit)
               R == {r \in Selected(q) : ~Passed(w, r)} IN
           /\ Listing(w) /\ limit \in Nat \ {0} /\ R \subseteq Row
           /\ page \in Seq(R) /\ Len(page) \in 0..limit /\ DOMAIN page = 1..Len(page)
           /\ IsPage(page, R, limit)
           /\ Len(page) # limit => next = None
           /\ Len(page) = limit => next = Place(page[limit]) /\ next \in Cursor /\ next # None
<1> DEFINE q == walk[w].query
           page == FindPage(q, walk[w].cursor, limit)
           next == NextCursor(page, limit)
           R == {r \in Selected(q) : ~Passed(w, r)}
           B == {r \in Selected(q) : walk[w].cursor # None => Below(r, walk[w].cursor)}
<1>1. walk[w].pc = "open" /\ limit \in Nat \ {0}
  BY DEF GetPage
<1>2. Listing(w) /\ q \in Queries
  BY <1>1 DEF WalkInv, WalkOf, Listing
<1>3. R = B
  BY <1>1 DEF Passed
<1>4. page \in Seq(B) /\ Len(page) \in 0..limit /\ DOMAIN page = 1..Len(page) /\ IsPage(page, B, limit)
  BY <1>1, <1>2, FindPageFacts
<1>5. R \subseteq Selected(q) /\ R \subseteq Row /\ \A r \in R : ToDate(r.at) = r.at
  BY <1>2, ListFacts
<1>6. next = IF Len(page) = limit THEN [at |-> ToDate(Last(page).at), id |-> Last(page).id] ELSE None
  BY DEF NextCursor
<1> HIDE DEF R, B, page, next
<1>7. ASSUME Len(page) = limit PROVE next = Place(page[limit]) /\ next \in Cursor /\ next # None
  <2>1. page[limit] \in R
    BY <1>1, <1>3, <1>4, <1>7
  <2>2. next = Place(page[limit])
    BY <1>5, <1>6, <1>7, <2>1 DEF Last, Place
  <2>3. Placed(page[limit])
    BY <1>5, <2>1, RowsArePlaced
  <2>4. next \in Cursor
    BY <2>2, <2>3 DEF Placed, Place, Cursor
  <2> QED
    BY <2>2, <2>4 DEF Cursor
<1> QED
  BY <1>1, <1>2, <1>3, <1>4, <1>5, <1>6, <1>7 DEF R, page, next

\* assertOwner and the 404 before it.
LEMMA AccessFacts ==
    ASSUME NEW u, NEW account
    PROVE  Access(u, account) = "200" <=> AccountExists(account) /\ AccountOf(account).owner = u
<1>1. CASE ~AccountExists(account)
  BY <1>1 DEF Access
<1>2. CASE AccountExists(account) /\ AccountOf(account).owner # u
  BY <1>2 DEF Access
<1>3. CASE AccountExists(account) /\ AccountOf(account).owner = u
  BY <1>3 DEF Access
<1> QED
  BY <1>1, <1>2, <1>3


\* What an insertion adds to the table.
LEMMA InsertedRows ==
    /\ \A u \in Users, id \in AccountIds, t \in 0..Ticks :
          LET r == [id |-> id, owner |-> u, at |-> Column(ToDate(t))] IN
          r \in Account /\ ToDate(r.at) = r.at
    /\ \A account \in AccountIds, id \in TransactionIds, t \in 0..Ticks :
          /\ LET r == [id |-> id, account |-> account, at |-> Column(ToDate(t))] IN
             r \in Transaction /\ ToDate(r.at) = r.at
          /\ LET r == [id |-> id, account |-> account, at |-> Column(t)] IN
             r \in Transaction /\ ToDate(r.at) = r.at
<1>1. ASSUME NEW t \in 0..Ticks
      PROVE  /\ Column(t) \in Nat /\ ToDate(Column(t)) = Column(t)
             /\ Column(ToDate(t)) \in Nat /\ ToDate(Column(ToDate(t))) = Column(ToDate(t))
  <2>1. t \in Nat
    OBVIOUS
  <2>2. ToDate(t) \in Nat
    BY <2>1, Rounded
  <2> QED
    BY <2>1, <2>2, Rounded
<1> QED
  BY <1>1 DEF Account, Transaction

\* What an insertion leaves of the walks' types.
LEMMA InsertedTypes ==
    ASSUME PagingTypeOK, NEW list, NEW new, new \subseteq Row, Inserted(list, new)
    PROVE  missed' \in [Walks -> SUBSET Row]
  BY DEF PagingTypeOK, Inserted

\* Every step keeps the types.
LEMMA PagingTypeStep ==
    ASSUME PagingTypeOK, TableInv, WalkInv, [PagingNext]_pagingVars
    PROVE  PagingTypeOK'
<1>1. ASSUME NEW w \in Walks, NEW q \in Queries, Begin(w, q) PROVE PagingTypeOK'
  <2>1. walk' = [walk EXCEPT ![w].pc = "open", ![w].query = q]
    BY <1>1 DEF Begin
  <2>2. walk' \in [Walks -> [pc : {"idle", "open", "done", "refused"}, query : Queries \cup {None},
                             cursor : Cursor \cup {None}, items : Seq(Row)]]
    <3> DEFINE Walk == [pc : {"idle", "open", "done", "refused"}, query : Queries \cup {None},
                        cursor : Cursor \cup {None}, items : Seq(Row)]
    <3>1. walk \in [Walks -> Walk]
      BY DEF PagingTypeOK
    <3>2. \A x \in Walk : [x EXCEPT !.pc = "open", !.query = q] \in Walk
      OBVIOUS
    <3>3. walk' = [walk EXCEPT ![w] = [walk[w] EXCEPT !.pc = "open", !.query = q]]
      BY <2>1, <3>1
    <3> HIDE DEF Walk
    <3>4. walk' \in [Walks -> Walk]
      BY <3>1, <3>2, <3>3
    <3> QED
      BY <3>4 DEF Walk
  <2> QED
    BY <1>1, <2>2 DEF Begin, PagingTypeOK
<1>2. ASSUME NEW w \in Walks, RefusePage(w) PROVE PagingTypeOK'
  <2>1. walk' = [walk EXCEPT ![w].pc = "refused"]
    BY <1>2 DEF RefusePage
  <2>2. walk' \in [Walks -> [pc : {"idle", "open", "done", "refused"}, query : Queries \cup {None},
                             cursor : Cursor \cup {None}, items : Seq(Row)]]
    <3> DEFINE Walk == [pc : {"idle", "open", "done", "refused"}, query : Queries \cup {None},
                        cursor : Cursor \cup {None}, items : Seq(Row)]
    <3>1. walk \in [Walks -> Walk]
      BY DEF PagingTypeOK
    <3>2. \A x \in Walk : [x EXCEPT !.pc = "refused"] \in Walk
      OBVIOUS
    <3>3. walk' = [walk EXCEPT ![w] = [walk[w] EXCEPT !.pc = "refused"]]
      BY <2>1, <3>1
    <3> HIDE DEF Walk
    <3>4. walk' \in [Walks -> Walk]
      BY <3>1, <3>2, <3>3
    <3> QED
      BY <3>4 DEF Walk
  <2> QED
    BY <1>2, <2>2 DEF RefusePage, PagingTypeOK
<1>3. ASSUME NEW w \in Walks, NEW limit \in Limits, GetPage(w, limit) PROVE PagingTypeOK'
  <2> DEFINE page == FindPage(walk[w].query, walk[w].cursor, limit)
             next == NextCursor(page, limit)
             R == {r \in Selected(walk[w].query) : ~Passed(w, r)}
  <2>1. /\ walk' \in [Walks -> {walk'[v] : v \in Walks}]
        /\ \A v \in Walks \ {w} : walk'[v] = walk[v]
        /\ walk'[w] = [pc |-> IF next = None THEN "done" ELSE "open", query |-> walk[w].query,
                       cursor |-> next, items |-> walk[w].items \o page]
        /\ accounts' = accounts /\ transactions' = transactions /\ missed' = missed
    BY <1>3, PageTaken
  <2>2. R \subseteq Row /\ page \in Seq(R) /\ next \in Cursor \cup {None}
    BY <1>3, PageOfWalk
  <2> HIDE DEF page, next, R
  <2>3. page \in Seq(Row)
    BY <2>2, SeqMonotonic
  <2>4. walk[w].items \in Seq(Row) /\ walk[w].query \in Queries \cup {None}
    BY DEF PagingTypeOK
  <2>5. walk[w].items \o page \in Seq(Row)
    BY <2>3, <2>4, ConcatProperties
  <2>6. walk'[w] \in [pc : {"idle", "open", "done", "refused"}, query : Queries \cup {None},
                      cursor : Cursor \cup {None}, items : Seq(Row)]
    BY <2>1, <2>2, <2>4, <2>5
  <2>7. walk' \in [Walks -> [pc : {"idle", "open", "done", "refused"}, query : Queries \cup {None},
                             cursor : Cursor \cup {None}, items : Seq(Row)]]
    BY <2>1, <2>6 DEF PagingTypeOK
  <2> QED
    BY <2>1, <2>7 DEF PagingTypeOK
<1>4. ASSUME NEW u \in Users, NEW id \in AccountIds, NEW t \in 0..Ticks, CreateAccount(u, id, t)
      PROVE  PagingTypeOK'
  <2>1. /\ accounts' = accounts \cup {[id |-> id, owner |-> u, at |-> Column(ToDate(t))]}
        /\ Inserted("accounts", accounts' \ accounts) /\ transactions' = transactions /\ walk' = walk
    BY <1>4 DEF CreateAccount
  <2>2. accounts' \subseteq Account
    BY <2>1, InsertedRows DEF PagingTypeOK
  <2>3. missed' \in [Walks -> SUBSET Row]
    BY <2>1, <2>2, InsertedTypes DEF Row
  <2> QED
    BY <2>1, <2>2, <2>3 DEF PagingTypeOK
<1>5. ASSUME NEW u \in Users, NEW ids \in SUBSET UnusedIds, NEW entry \in [ids -> [account : AccountIds, at : 0..Ticks]], CreateBatch(u, ids, entry)
      PROVE  PagingTypeOK'
  <2>1. /\ transactions' = transactions \cup
              {[id |-> id, account |-> entry[id].account, at |-> Column(ToDate(entry[id].at))] : id \in ids}
        /\ Inserted("transactions", transactions' \ transactions) /\ accounts' = accounts /\ walk' = walk
    BY <1>5 DEF CreateBatch
  <2>2. transactions' \subseteq Transaction
    <3>1. ASSUME NEW id \in ids
          PROVE  [id |-> id, account |-> entry[id].account, at |-> Column(ToDate(entry[id].at))] \in Transaction
      <4>1. id \in TransactionIds /\ entry[id].account \in AccountIds /\ entry[id].at \in 0..Ticks
        BY <1>5 DEF UnusedIds
      <4> QED
        BY <4>1, InsertedRows
    <3> QED
      BY <2>1, <3>1 DEF PagingTypeOK
  <2>3. missed' \in [Walks -> SUBSET Row]
    BY <2>1, <2>2, InsertedTypes DEF Row
  <2> QED
    BY <2>1, <2>2, <2>3 DEF PagingTypeOK
<1>6. ASSUME NEW account \in AccountIds, NEW id \in UnusedIds, NEW t \in 0..Ticks, Checkout(account, id, t)
      PROVE  PagingTypeOK'
  <2>1. /\ transactions' = transactions \cup {[id |-> id, account |-> account, at |-> Column(t)]}
        /\ Inserted("transactions", transactions' \ transactions) /\ accounts' = accounts /\ walk' = walk
    BY <1>6 DEF Checkout
  <2>2. transactions' \subseteq Transaction
    <3>1. id \in TransactionIds
      BY DEF UnusedIds
    <3>2. [id |-> id, account |-> account, at |-> Column(t)] \in Transaction
      BY <3>1, InsertedRows
    <3> QED
      BY <2>1, <3>2 DEF PagingTypeOK
  <2>3. missed' \in [Walks -> SUBSET Row]
    BY <2>1, <2>2, InsertedTypes DEF Row
  <2> QED
    BY <2>1, <2>2, <2>3 DEF PagingTypeOK
<1>7. CASE UNCHANGED pagingVars
  BY <1>7 DEF pagingVars, PagingTypeOK
<1> QED
  BY <1>1, <1>2, <1>3, <1>4, <1>5, <1>6, <1>7 DEF PagingNext, Insert

\* Ids stay unique, accounts of transactions stay, and times are of milliseconds.
LEMMA TableStep ==
    ASSUME PagingTypeOK, PagingTypeOK', TableInv, WalkInv, [PagingNext]_pagingVars
    PROVE  TableInv'
<1>s. accounts' = accounts /\ transactions' = transactions => TableInv'
  BY DEF TableInv, AccountExists
<1>1. ASSUME NEW w \in Walks, NEW q \in Queries, Begin(w, q) PROVE TableInv'
  BY <1>1, <1>s DEF Begin
<1>2. ASSUME NEW w \in Walks, RefusePage(w) PROVE TableInv'
  BY <1>2, <1>s DEF RefusePage
<1>3. ASSUME NEW w \in Walks, NEW limit \in Limits, GetPage(w, limit) PROVE TableInv'
  BY <1>3, <1>s DEF GetPage
<1>4. ASSUME NEW u \in Users, NEW id \in AccountIds, NEW t \in 0..Ticks, CreateAccount(u, id, t)
      PROVE  TableInv'
  <2> DEFINE x == [id |-> id, owner |-> u, at |-> Column(ToDate(t))]
  <2>1. accounts' = accounts \cup {x} /\ transactions' = transactions /\ ~AccountExists(id)
    BY <1>4 DEF CreateAccount
  <2>2. x.id = id /\ ToDate(x.at) = x.at
    BY InsertedRows
  <2> HIDE DEF x
  <2>3. \A a \in accounts : a.id # x.id
    BY <2>1, <2>2 DEF AccountExists
  <2> QED
    BY <2>1, <2>2, <2>3 DEF TableInv, AccountExists
<1>5. ASSUME NEW u \in Users, NEW ids \in SUBSET UnusedIds, NEW entry \in [ids -> [account : AccountIds, at : 0..Ticks]], CreateBatch(u, ids, entry)
      PROVE  TableInv'
  <2> DEFINE X(k) == [id |-> k, account |-> entry[k].account, at |-> Column(ToDate(entry[k].at))]
  <2>1. /\ transactions' = transactions \cup {X(k) : k \in ids} /\ accounts' = accounts
        /\ \A k \in ids : Access(u, entry[k].account) = "200"
    BY <1>5 DEF CreateBatch
  <2>2. ASSUME NEW k \in ids
        PROVE  /\ X(k).id = k /\ ToDate(X(k).at) = X(k).at /\ AccountExists(X(k).account)
               /\ \A s \in transactions : s.id # k
    <3>1. k \in TransactionIds /\ entry[k].account \in AccountIds /\ entry[k].at \in 0..Ticks
          /\ \A s \in transactions : s.id # k
      BY <1>5 DEF UnusedIds
    <3>2. AccountExists(entry[k].account)
      BY <2>1, AccessFacts
    <3> QED
      BY <3>1, <3>2, InsertedRows
  <2> HIDE DEF X
  <2>3. \A s, r \in transactions' : s.id = r.id => s = r
    BY <2>1, <2>2 DEF TableInv
  <2> QED
    BY <2>1, <2>2, <2>3 DEF TableInv, AccountExists
<1>6. ASSUME NEW account \in AccountIds, NEW id \in UnusedIds, NEW t \in 0..Ticks, Checkout(account, id, t)
      PROVE  TableInv'
  <2> DEFINE x == [id |-> id, account |-> account, at |-> Column(t)]
  <2>1. accounts' = accounts /\ transactions' = transactions \cup {x} /\ AccountExists(account)
    BY <1>6 DEF Checkout
  <2>2. x.id = id /\ x.account = account /\ ToDate(x.at) = x.at
    BY InsertedRows DEF UnusedIds
  <2>3. \A s \in transactions : s.id # x.id
    BY DEF UnusedIds
  <2> HIDE DEF x
  <2> QED
    BY <2>1, <2>2, <2>3 DEF TableInv, AccountExists
<1>7. CASE UNCHANGED pagingVars
  BY <1>7, <1>s DEF pagingVars
<1> QED
  BY <1>1, <1>2, <1>3, <1>4, <1>5, <1>6, <1>7 DEF PagingNext, Insert

\* The members of two sequences, one after the other.
LEMMA Joined ==
    ASSUME NEW S, NEW s \in Seq(S), NEW t \in Seq(S)
    PROVE  /\ s \o t \in Seq(S) /\ Len(s \o t) = Len(s) + Len(t) /\ Len(s) \in Nat /\ Len(t) \in Nat
           /\ \A k \in 1..Len(s) : (s \o t)[k] = s[k]
           /\ \A k \in 1..Len(t) : (s \o t)[Len(s) + k] = t[k]
           /\ ToSet(s \o t) = ToSet(s) \cup ToSet(t)
<1> DEFINE m == Len(s)
           n == Len(t)
           u == s \o t
<1>1. m \in Nat /\ n \in Nat /\ DOMAIN s = 1..m /\ DOMAIN t = 1..n
  OBVIOUS
<1>2. /\ u \in Seq(S) /\ Len(u) = m + n
      /\ \A i \in 1..m + n : u[i] = IF i <= m THEN s[i] ELSE t[i - m]
  BY ConcatProperties
<1>3. DOMAIN u = 1..m + n
  <2>1. DOMAIN u = 1..Len(u)
    <3> HIDE DEF u
    <3> QED
      BY <1>2
  <2> QED
    BY <1>2, <2>1
<1> HIDE DEF m, n, u
<1>4. ASSUME NEW k \in 1..m PROVE k \in 1..m + n /\ u[k] = s[k]
  <2>1. k \in 1..m + n /\ k <= m
    BY <1>1
  <2> QED
    BY <1>2, <2>1
<1>5. ASSUME NEW k \in 1..n PROVE m + k \in 1..m + n /\ u[m + k] = t[k]
  <2>1. m + k \in 1..m + n /\ ~(m + k <= m) /\ (m + k) - m = k
    BY <1>1
  <2> QED
    BY <1>2, <2>1
<1>6. ASSUME NEW i \in 1..m + n PROVE u[i] \in ToSet(s) \cup ToSet(t)
  <2>1. CASE i <= m
    <3>1. i \in 1..m /\ u[i] = s[i]
      BY <1>1, <1>2, <2>1
    <3> QED
      BY <1>1, <3>1 DEF ToSet
  <2>2. CASE ~(i <= m)
    <3>1. i - m \in 1..n /\ u[i] = t[i - m]
      BY <1>1, <1>2, <2>2
    <3> QED
      BY <1>1, <3>1 DEF ToSet
  <2> QED
    BY <2>1, <2>2
<1>7. ToSet(u) = ToSet(s) \cup ToSet(t)
  <2>1. ASSUME NEW x \in ToSet(u) PROVE x \in ToSet(s) \cup ToSet(t)
    <3>1. PICK i \in 1..m + n : x = u[i]
      BY <1>3 DEF ToSet
    <3> QED
      BY <1>6, <3>1
  <2>2. ASSUME NEW x \in ToSet(s) PROVE x \in ToSet(u)
    <3>1. PICK k \in 1..m : x = s[k]
      BY <1>1 DEF ToSet
    <3>2. k \in DOMAIN u /\ u[k] = x
      BY <1>3, <1>4, <3>1
    <3> QED
      BY <3>2 DEF ToSet
  <2>3. ASSUME NEW x \in ToSet(t) PROVE x \in ToSet(u)
    <3>1. PICK k \in 1..n : x = t[k]
      BY <1>1 DEF ToSet
    <3>2. m + k \in DOMAIN u /\ u[m + k] = x
      BY <1>3, <1>5, <3>1
    <3> QED
      BY <3>2 DEF ToSet
  <2> QED
    BY <2>1, <2>2, <2>3
<1> QED
  BY <1>1, <1>2, <1>4, <1>5, <1>7 DEF m, n, u

\* A page continues the walk: what it returns lies behind what was passed, and
\* nothing is left in between.
LEMMA PageStep ==
    ASSUME PagingTypeOK, PagingTypeOK', TableInv, WalkInv, NEW w \in Walks, NEW limit \in Limits, GetPage(w, limit)
    PROVE  Listing(w)'
<1> DEFINE q == walk[w].query
           items == walk[w].items
           cursor == walk[w].cursor
           page == FindPage(q, cursor, limit)
           next == NextCursor(page, limit)
           R == {r \in Selected(q) : ~Passed(w, r)}
<1>1. /\ walk[w].pc = "open"
      /\ walk'[w] = [pc |-> IF next = None THEN "done" ELSE "open", query |-> q,
                     cursor |-> next, items |-> items \o page]
      /\ accounts' = accounts /\ transactions' = transactions /\ missed' = missed
  BY PageTaken
<1>Q. /\ walk[w].query' = q /\ Selected(walk[w].query)' = Selected(q)
      /\ RowsOf(walk[w].query.list)' = RowsOf(q.list)
  <2> HIDE DEF page, next
  <2>1. walk[w].query' = q
    BY <1>1
  <2> QED
    BY <1>1, <2>1 DEF Selected, RowsOf
<1>2. /\ Listing(w) /\ limit \in Nat \ {0} /\ R \subseteq Row
      /\ page \in Seq(R) /\ Len(page) \in 0..limit /\ DOMAIN page = 1..Len(page)
      /\ IsPage(page, R, limit)
      /\ Len(page) # limit => next = None
      /\ Len(page) = limit => next = Place(page[limit]) /\ next \in Cursor /\ next # None
  BY PageOfWalk
<1>3. items \in Seq(Row) /\ Len(items) \in Nat /\ DOMAIN items = 1..Len(items)
  BY DEF PagingTypeOK
<1>4. /\ q \in Queries
      /\ \A m, n \in 1..Len(items) : m < n => Below(items[n], items[m])
      /\ cursor = IF items = <<>> THEN None ELSE Place(items[Len(items)])
      /\ missed[w] \subseteq RowsOf(q.list)
      /\ \A r \in missed[w] : Passed(w, r) /\ r \notin ToSet(items)
      /\ \A r \in ToSet(items) : r \in Selected(q) /\ Passed(w, r)
      /\ \A r \in Selected(q) : Passed(w, r) => r \in ToSet(items) \cup missed[w]
  BY <1>1, <1>2 DEF Listing
<1>5. Selected(q) \subseteq Row /\ missed[w] \subseteq Row /\ (\A r \in Row : Placed(r))
  BY <1>4, ListFacts, RowsArePlaced
<1>6. \A r : Passed(w, r) <=> cursor # None /\ ~Below(r, cursor)
  BY <1>1 DEF Passed
<1>7. /\ walk'[w].pc = (IF next = None THEN "done" ELSE "open") /\ walk'[w].query = q
      /\ walk'[w].cursor = next /\ walk'[w].items = items \o page
  <2> HIDE DEF q, items, cursor, page, next, R
  <2> QED
    BY <1>1
<1>8. \A r : Passed(w, r)' <=> next = None \/ ~Below(r, next)
  BY <1>7 DEF Passed
<1>R. \A r \in R : r \in Selected(q) /\ ~Passed(w, r)
  OBVIOUS
<1>S. \A r \in Selected(q) : Passed(w, r) \/ r \in R
  OBVIOUS
<1>C. cursor # None => Placed(cursor) /\ items # <<>>
  <2>1. cursor \in Cursor \cup {None}
    BY DEF PagingTypeOK
  <2> QED
    BY <1>4, <2>1, RowsArePlaced
<1> HIDE DEF q, items, cursor, page, next, R
<1>9. next # None => Len(page) = limit /\ next = Place(page[limit]) /\ limit \in 1..Len(page)
  <2>1. limit \in 1..limit
    <3>1. limit \in Nat /\ limit # 0
      BY <1>2
    <3> QED
      BY <3>1
  <2> QED
    BY <1>2, <2>1
<1>10. /\ page \in Seq(Row) /\ \A k \in 1..Len(page) : page[k] \in R
  <2>1. page \in Seq(R) /\ R \subseteq Row /\ DOMAIN page = 1..Len(page)
    BY <1>2
  <2>2. page \in Seq(Row)
    BY <2>1, SeqMonotonic
  <2>3. \A k \in 1..Len(page) : page[k] \in R
    BY <2>1, ElementOfSeq
  <2> QED
    BY <2>1, <2>2, <2>3
<1>11. /\ items \o page \in Seq(Row) /\ Len(items \o page) = Len(items) + Len(page) /\ Len(page) \in Nat
       /\ \A k \in 1..Len(items) : (items \o page)[k] = items[k]
       /\ \A k \in 1..Len(page) : (items \o page)[Len(items) + k] = page[k]
       /\ ToSet(items \o page) = ToSet(items) \cup ToSet(page)
  BY <1>3, <1>10, Joined
<1>12. ToSet(page) \subseteq R /\ \A k \in 1..Len(page) : page[k] \in ToSet(page)
  BY <1>2, <1>10 DEF ToSet
\* What is behind the cursor is below every item.
<1>13. ASSUME NEW r \in R, NEW k \in 1..Len(items) PROVE Below(r, items[k])
  <2>1. items[k] \in Row /\ Placed(items[k]) /\ Placed(r)
    <3>1. items[k] \in Row
      BY <1>3, ElementOfSeq
    <3>2. r \in Row
      BY <1>2
    <3> QED
      BY <1>5, <3>1, <3>2
  <2>2. items # <<>> /\ Len(items) \in 1..Len(items)
    BY <1>3
  <2>3. cursor = Place(items[Len(items)]) /\ cursor # None
    <3>1. items[k] \in ToSet(items)
      BY <1>3 DEF ToSet
    <3> QED
      BY <1>4, <1>6, <2>2, <3>1
  <2>4. Below(r, cursor)
    BY <1>6, <1>R, <2>3
  <2>5. Below(r, items[Len(items)])
    BY <2>3, <2>4 DEF Below, Place
  <2>6. CASE k = Len(items)
    BY <2>5, <2>6
  <2>7. CASE k # Len(items)
    <3>1. Below(items[Len(items)], items[k])
      <4>1. k < Len(items)
        <5> DEFINE g == Len(items)
        <5>1. g \in Nat /\ k \in 1..g /\ k # g
          BY <1>3, <2>7
        <5> HIDE DEF g
        <5> QED
          BY <5>1 DEF g
      <4> QED
        BY <1>4, <2>2, <4>1
    <3>2. Placed(items[Len(items)])
      BY <1>3, <1>5, <2>2
    <3> QED
      BY <2>1, <2>5, <3>1, <3>2, BelowTransitive
  <2> QED
    BY <2>6, <2>7
<1>14. ASSUME NEW m \in 1..Len(items \o page), NEW n \in 1..Len(items \o page), m < n
       PROVE  Below((items \o page)[n], (items \o page)[m])
  <2> DEFINE g == Len(items)
             p == Len(page)
  <2>0. g \in Nat /\ p \in Nat /\ m \in 1..g + p /\ n \in 1..g + p
    BY <1>3, <1>11
  <2>1. CASE n \in 1..g
    <3>1. m \in 1..g
      BY <1>14, <2>0, <2>1
    <3> QED
      BY <1>4, <1>11, <1>14, <2>1, <3>1
  <2>2. CASE n \notin 1..g /\ m \in 1..g
    <3> HIDE DEF g, p
    <3>1. n - g \in 1..p /\ g + (n - g) = n
      BY <2>0, <2>2
    <3>2. (items \o page)[n] = page[n - g] /\ page[n - g] \in R
      BY <1>10, <1>11, <3>1 DEF g, p
    <3>3. (items \o page)[m] = items[m]
      BY <1>11, <2>2 DEF g
    <3> QED
      BY <1>13, <2>2, <3>2, <3>3 DEF g
  <2>3. CASE n \notin 1..g /\ m \notin 1..g
    <3> HIDE DEF g, p
    <3>1. n - g \in 1..p /\ g + (n - g) = n /\ m - g \in 1..p /\ g + (m - g) = m /\ m - g < n - g
      BY <1>14, <2>0, <2>3
    <3>2. (items \o page)[n] = page[n - g] /\ (items \o page)[m] = page[m - g]
      BY <1>11, <3>1 DEF g, p
    <3>3. Below(page[n - g], page[m - g])
      BY <1>2, <3>1 DEF IsPage, p
    <3> QED
      BY <3>2, <3>3
  <2> QED
    BY <2>1, <2>2, <2>3
\* What was passed stays passed.
<1>15. ASSUME NEW r \in Row, Passed(w, r) PROVE Passed(w, r)'
  <2>1. CASE next = None
    BY <1>8, <2>1
  <2>2. CASE next # None
    <3>1. Len(page) = limit /\ next = Place(page[limit]) /\ limit \in 1..Len(page)
      BY <1>9, <2>2
    <3>2. page[limit] \in R /\ cursor # None
      BY <1>6, <1>10, <1>15, <3>1
    <3>3. Below(page[limit], cursor) /\ ~Below(r, cursor)
      BY <1>6, <1>15, <1>R, <3>2
    <3>4. Placed(page[limit]) /\ Placed(r) /\ Placed(cursor)
      BY <1>2, <1>5, <1>C, <3>2
    <3>5. ~Below(r, page[limit])
      BY <3>3, <3>4, BelowTransitive
    <3>6. ~Below(r, next)
      BY <3>1, <3>5 DEF Below, Place
    <3> QED
      BY <1>8, <3>6
  <2> QED
    BY <2>1, <2>2
\* Of the rest exactly the page is passed.
<1>16. ASSUME NEW r \in R PROVE r \in ToSet(page) <=> Passed(w, r)'
  <2>1. CASE next = None
    <3>1. Len(page) # limit
      BY <1>2, <2>1
    <3>2. r \in ToSet(page)
      BY <1>2, <3>1 DEF IsPage
    <3> QED
      BY <1>8, <2>1, <3>2
  <2>2. CASE next # None
    <3>1. Len(page) = limit /\ next = Place(page[limit]) /\ limit \in 1..Len(page)
      BY <1>9, <2>2
    <3>2. Passed(w, r)' <=> ~Below(r, page[limit])
      BY <1>8, <2>2, <3>1 DEF Below, Place
    <3>3. CASE r \in ToSet(page)
      <4>1. PICK k \in 1..Len(page) : r = page[k]
        BY <1>2, <3>3 DEF ToSet
      <4>2. Placed(r) /\ Placed(page[limit])
        BY <1>2, <1>5, <1>10, <3>1
      <4>3. k = limit \/ Below(page[limit], page[k])
        <5>1. k = limit \/ k < limit
          BY <1>2, <3>1
        <5> QED
          BY <1>2, <3>1, <5>1 DEF IsPage
      <4>4. ~Below(r, page[limit])
        BY <4>1, <4>2, <4>3, BelowOrder
      <4> QED
        BY <3>2, <3>3, <4>4
    <3>4. CASE r \notin ToSet(page)
      <4>1. Below(r, page[limit])
        BY <1>2, <3>1, <3>4 DEF IsPage
      <4> QED
        BY <3>2, <3>4, <4>1
    <3> QED
      BY <3>3, <3>4
  <2> QED
    BY <2>1, <2>2
<1>17. ASSUME walk'[w].pc = "open"
       PROVE  next = IF items \o page = <<>> THEN None ELSE Place((items \o page)[Len(items \o page)])
  <2>1. Len(page) = limit /\ next = Place(page[limit]) /\ limit \in 1..Len(page)
    <3>1. next # None
      BY <1>7, <1>17
    <3> QED
      BY <1>9, <3>1
  <2>2. (items \o page)[Len(items \o page)] = page[limit] /\ Len(items \o page) # 0
    BY <1>3, <1>11, <2>1
  <2>3. items \o page # <<>>
    BY <2>2
  <2> QED
    BY <2>1, <2>2, <2>3
<1>18. ASSUME NEW r \in missed[w] PROVE Passed(w, r)' /\ r \notin ToSet(items \o page)
  <2>1. Passed(w, r) /\ r \in Row /\ r \notin ToSet(items)
    BY <1>4, <1>5
  <2>2. r \notin R
    BY <1>R, <2>1
  <2> QED
    BY <1>11, <1>12, <1>15, <2>1, <2>2
<1>19. ASSUME NEW r \in ToSet(items \o page) PROVE r \in Selected(q) /\ Passed(w, r)'
  <2>1. CASE r \in ToSet(items)
    BY <1>4, <1>5, <1>15, <2>1
  <2>2. CASE r \in ToSet(page)
    BY <1>12, <1>16, <1>R, <2>2
  <2> QED
    BY <1>11, <2>1, <2>2
<1>20. ASSUME NEW r \in Selected(q), Passed(w, r)' PROVE r \in ToSet(items \o page) \cup missed[w]
  <2>1. CASE Passed(w, r)
    BY <1>4, <1>11, <2>1
  <2>2. CASE r \in R
    BY <1>11, <1>16, <1>20, <2>2
  <2> QED
    BY <1>S, <2>1, <2>2
<1> QED
  <2>1. /\ walk[w].query' \in Queries /\ missed[w]' = missed[w]
        /\ missed[w]' \subseteq RowsOf(walk[w].query.list)'
    BY <1>1, <1>4, <1>Q
  <2>2. \A m, n \in 1..Len(walk[w].items)' : m < n => Below(walk[w].items[n], walk[w].items[m])'
    BY <1>7, <1>14
  <2>3. walk[w].pc' = "open" =>
           walk[w].cursor' = IF walk[w].items' = <<>> THEN None ELSE Place(walk[w].items[Len(walk[w].items)])'
    BY <1>7, <1>17
  <2> QED
    BY <1>7, <1>18, <1>19, <1>20, <1>Q, <2>1, <2>2, <2>3 DEF Listing

\* A walk that is left alone, with its tables.
LEMMA SameWalk ==
    ASSUME NEW v \in Walks, WalkOf(v), walk'[v] = walk[v], missed' = missed,
           accounts' = accounts, transactions' = transactions
    PROVE  WalkOf(v)'
  BY DEF WalkOf, Listing, Passed, Selected, RowsOf

\* A walk while rows are added to a table: what lies behind its cursor is still to
\* come, and the rest of the new rows of its list are missed.
LEMMA InsertStep ==
    ASSUME NEW v \in Walks, NEW list, NEW new, PagingTypeOK, TableInv, WalkOf(v), walk' = walk, Inserted(list, new),
           walk[v].query \in Queries =>
             LET more == IF walk[v].query.list = list THEN new ELSE {} IN
             /\ Selected(walk[v].query) \subseteq Selected(walk[v].query)'
             /\ Selected(walk[v].query)' \subseteq Selected(walk[v].query) \cup more
             /\ RowsOf(walk[v].query.list) \cup more \subseteq RowsOf(walk[v].query.list)'
             /\ more \cap RowsOf(walk[v].query.list) = {}
    PROVE  WalkOf(v)'
<1> DEFINE q == walk[v].query
           items == walk[v].items
           fresh == {r \in new : walk[v].pc # "idle" /\ q.list = list /\ Passed(v, r)}
<1>1. missed'[v] = missed[v] \cup fresh
  BY DEF Inserted
<1>2. CASE walk[v].pc \notin {"open", "done"}
  <2>1. walk[v].pc = "idle" => fresh = {}
    OBVIOUS
  <2> HIDE DEF fresh
  <2> QED
    BY <1>1, <1>2, <2>1 DEF WalkOf
<1>3. CASE walk[v].pc \in {"open", "done"}
  <2>1. /\ q \in Queries
        /\ \A m, n \in 1..Len(items) : m < n => Below(items[n], items[m])
        /\ walk[v].pc = "open" =>
              walk[v].cursor = IF items = <<>> THEN None ELSE Place(items[Len(items)])
        /\ missed[v] \subseteq RowsOf(q.list)
        /\ \A r \in missed[v] : Passed(v, r) /\ r \notin ToSet(items)
        /\ \A r \in ToSet(items) : r \in Selected(q) /\ Passed(v, r)
        /\ \A r \in Selected(q) : Passed(v, r) => r \in ToSet(items) \cup missed[v]
    BY <1>3 DEF WalkOf, Listing
  <2>2. \A r : Passed(v, r)' <=> Passed(v, r)
    BY DEF Passed
  <2>3. Selected(q) \subseteq RowsOf(q.list)
    BY <2>1, ListFacts
  <2>4. ASSUME NEW r \in fresh
        PROVE  Passed(v, r) /\ r \in RowsOf(walk[v].query.list)' /\ r \notin ToSet(items)
    <3>1. q.list = list /\ r \in new /\ Passed(v, r)
      BY <2>4
    <3>2. r \in RowsOf(walk[v].query.list)' /\ r \notin RowsOf(q.list)
      BY <2>1, <3>1
    <3> QED
      BY <2>1, <2>3, <3>1, <3>2
  <2>5. ASSUME NEW r \in Selected(walk[v].query)', Passed(v, r)
        PROVE  r \in ToSet(items) \cup missed[v] \cup fresh
    <3>1. CASE r \in Selected(q)
      BY <2>1, <2>5, <3>1
    <3>2. CASE r \notin Selected(q)
      <4>1. q.list = list /\ r \in new
        BY <2>1, <2>5, <3>2
      <4> QED
        BY <1>3, <2>5, <4>1
    <3> QED
      BY <3>1, <3>2
  <2>6. /\ \A r \in Selected(q) : r \in Selected(walk[v].query)'
        /\ \A r \in RowsOf(q.list) : r \in RowsOf(walk[v].query.list)'
    BY <2>1
  <2>7. /\ walk[v].query' = q /\ walk[v].items' = items /\ walk[v].pc' = walk[v].pc
        /\ walk[v].cursor' = walk[v].cursor
    OBVIOUS
  <2> HIDE DEF fresh, q, items
  <2>8. walk[v].query' \in Queries /\ missed[v]' \subseteq RowsOf(walk[v].query.list)'
    BY <1>1, <2>1, <2>4, <2>6, <2>7
  <2>9. \A r \in missed[v]' : Passed(v, r)' /\ r \notin ToSet(items)
    BY <1>1, <2>1, <2>2, <2>4
  <2>10. \A r \in ToSet(items) : r \in Selected(walk[v].query)' /\ Passed(v, r)'
    BY <2>1, <2>2, <2>6
  <2>11. \A r \in Selected(walk[v].query)' : Passed(v, r)' => r \in ToSet(items) \cup missed[v]'
    BY <1>1, <2>2, <2>5
  <2>12. Listing(v)'
    BY <2>1, <2>7, <2>8, <2>9, <2>10, <2>11 DEF Listing
  <2> QED
    BY <1>3, <2>7, <2>12 DEF WalkOf
<1> QED
  BY <1>2, <1>3

\* A new account has no transactions yet.
LEMMA AccountInserted ==
    ASSUME PagingTypeOK, TableInv, WalkInv, walk' = walk, transactions' = transactions,
           NEW x, accounts' = accounts \cup {x}, ~AccountExists(x.id),
           Inserted("accounts", accounts' \ accounts)
    PROVE  WalkInv'
<1> SUFFICES ASSUME NEW v \in Walks PROVE WalkOf(v)'
  BY DEF WalkInv
<1> DEFINE q == walk[v].query
           new == accounts' \ accounts
<1>1. ASSUME q \in Queries, q.list = "accounts"
      PROVE  /\ Selected(q) \subseteq Selected(walk[v].query)'
             /\ Selected(walk[v].query)' \subseteq Selected(q) \cup new
             /\ RowsOf(q.list) \cup new \subseteq RowsOf(walk[v].query.list)'
             /\ new \cap RowsOf(q.list) = {}
  BY <1>1 DEF Selected, RowsOf
<1>2. ASSUME q \in Queries, q.list # "accounts"
      PROVE  Selected(walk[v].query)' = Selected(q) /\ RowsOf(walk[v].query.list)' = RowsOf(q.list)
  <2>1. \A t \in transactions : t.account # x.id
    BY DEF TableInv, AccountExists
  <2>2. \A t \in transactions : (\E a \in accounts' : a.id = t.account /\ a.owner = q.user)
                                  <=> (\E a \in accounts : a.id = t.account /\ a.owner = q.user)
    BY <2>1
  <2>3. Selected(q) = {t \in transactions : /\ \E a \in accounts : a.id = t.account /\ a.owner = q.user
                                            /\ q.account # None => t.account = q.account}
    BY <1>2 DEF Selected
  <2>4. Selected(walk[v].query)'
          = {t \in transactions : /\ \E a \in accounts' : a.id = t.account /\ a.owner = q.user
                                  /\ q.account # None => t.account = q.account}
    BY <1>2 DEF Selected
  <2>5. RowsOf(walk[v].query.list)' = RowsOf(q.list)
    BY <1>2 DEF RowsOf
  <2> QED
    BY <2>2, <2>3, <2>4, <2>5
<1>3. WalkOf(v)
  BY DEF WalkInv
<1> HIDE DEF new
<1>4. walk[v].query \in Queries =>
        LET more == IF walk[v].query.list = "accounts" THEN new ELSE {} IN
        /\ Selected(walk[v].query) \subseteq Selected(walk[v].query)'
        /\ Selected(walk[v].query)' \subseteq Selected(walk[v].query) \cup more
        /\ RowsOf(walk[v].query.list) \cup more \subseteq RowsOf(walk[v].query.list)'
        /\ more \cap RowsOf(walk[v].query.list) = {}
  BY <1>1, <1>2
<1>5. Inserted("accounts", new)
  BY DEF new
<1> QED
  BY <1>3, <1>4, <1>5, InsertStep

\* Orders and batches.
LEMMA TransactionsInserted ==
    ASSUME PagingTypeOK, TableInv, WalkInv, walk' = walk, accounts' = accounts, transactions \subseteq transactions',
           Inserted("transactions", transactions' \ transactions)
    PROVE  WalkInv'
<1> SUFFICES ASSUME NEW v \in Walks PROVE WalkOf(v)'
  BY DEF WalkInv
<1> DEFINE q == walk[v].query
           new == transactions' \ transactions
<1>1. ASSUME q \in Queries, q.list = "transactions"
      PROVE  /\ Selected(q) \subseteq Selected(walk[v].query)'
             /\ Selected(walk[v].query)' \subseteq Selected(q) \cup new
             /\ RowsOf(q.list) \cup new \subseteq RowsOf(walk[v].query.list)'
             /\ new \cap RowsOf(q.list) = {}
  BY <1>1 DEF Selected, RowsOf
<1>2. ASSUME q \in Queries, q.list # "transactions"
      PROVE  Selected(walk[v].query)' = Selected(q) /\ RowsOf(walk[v].query.list)' = RowsOf(q.list)
  <2>1. q.list = "accounts"
    BY <1>2 DEF Queries
  <2> QED
    BY <2>1 DEF Selected, RowsOf
<1>3. WalkOf(v)
  BY DEF WalkInv
<1> HIDE DEF new
<1>4. walk[v].query \in Queries =>
        LET more == IF walk[v].query.list = "transactions" THEN new ELSE {} IN
        /\ Selected(walk[v].query) \subseteq Selected(walk[v].query)'
        /\ Selected(walk[v].query)' \subseteq Selected(walk[v].query) \cup more
        /\ RowsOf(walk[v].query.list) \cup more \subseteq RowsOf(walk[v].query.list)'
        /\ more \cap RowsOf(walk[v].query.list) = {}
  BY <1>1, <1>2
<1>5. Inserted("transactions", new)
  BY DEF new
<1> QED
  BY <1>3, <1>4, <1>5, InsertStep

\* What the walks have got stays exact.
LEMMA WalkStep ==
    ASSUME PagingTypeOK, PagingTypeOK', TableInv, WalkInv, [PagingNext]_pagingVars
    PROVE  WalkInv'
<1>1. ASSUME NEW w \in Walks, NEW q \in Queries, Begin(w, q) PROVE WalkInv'
  <2>1. /\ accounts' = accounts /\ transactions' = transactions /\ missed' = missed
        /\ walk[w].pc = "idle" /\ \A v \in Walks \ {w} : walk'[v] = walk[v]
        /\ walk'[w].pc = "open" /\ walk'[w].query = q
        /\ walk'[w].cursor = walk[w].cursor /\ walk'[w].items = walk[w].items
    BY <1>1 DEF Begin, PagingTypeOK
  <2>2. walk[w].cursor = None /\ walk[w].items = <<>> /\ missed[w] = {}
    BY <2>1 DEF WalkInv, WalkOf
  <2>3. ToSet(<<>>) = {} /\ Len(<<>>) = 0 /\ 1..0 = {}
    BY DEF ToSet
  <2>4. \A r : ~Passed(w, r)'
    BY <2>1, <2>2 DEF Passed
  <2>5. Listing(w)'
    BY <2>1, <2>2, <2>3, <2>4 DEF Listing
  <2>6. WalkOf(w)'
    BY <2>1, <2>5 DEF WalkOf
  <2>7. ASSUME NEW v \in Walks \ {w} PROVE WalkOf(v)'
    BY <2>1, <2>7, SameWalk DEF WalkInv
  <2> QED
    BY <2>6, <2>7 DEF WalkInv
<1>2. ASSUME NEW w \in Walks, RefusePage(w) PROVE WalkInv'
  <2>1. /\ accounts' = accounts /\ transactions' = transactions /\ missed' = missed
        /\ walk'[w].pc = "refused" /\ \A v \in Walks \ {w} : walk'[v] = walk[v]
    BY <1>2 DEF RefusePage, PagingTypeOK
  <2>2. WalkOf(w)'
    BY <2>1 DEF WalkOf
  <2>3. ASSUME NEW v \in Walks \ {w} PROVE WalkOf(v)'
    BY <2>1, <2>3, SameWalk DEF WalkInv
  <2> QED
    BY <2>2, <2>3 DEF WalkInv
<1>3. ASSUME NEW w \in Walks, NEW limit \in Limits, GetPage(w, limit) PROVE WalkInv'
  <2>1. /\ accounts' = accounts /\ transactions' = transactions /\ missed' = missed
        /\ walk'[w].pc \in {"open", "done"} /\ \A v \in Walks \ {w} : walk'[v] = walk[v]
    <3> DEFINE page == FindPage(walk[w].query, walk[w].cursor, limit)
               next == NextCursor(page, limit)
    <3>1. /\ \A v \in Walks \ {w} : walk'[v] = walk[v]
          /\ walk'[w] = [pc |-> IF next = None THEN "done" ELSE "open", query |-> walk[w].query,
                         cursor |-> next, items |-> walk[w].items \o page]
          /\ accounts' = accounts /\ transactions' = transactions /\ missed' = missed
      BY <1>3, PageTaken
    <3> HIDE DEF page, next
    <3> QED
      BY <3>1
  <2>2. WalkOf(w)'
    BY <1>3, <2>1, PageStep DEF WalkOf
  <2>3. ASSUME NEW v \in Walks \ {w} PROVE WalkOf(v)'
    BY <2>1, <2>3, SameWalk DEF WalkInv
  <2> QED
    BY <2>2, <2>3 DEF WalkInv
<1>4. ASSUME NEW u \in Users, NEW id \in AccountIds, NEW t \in 0..Ticks, CreateAccount(u, id, t)
      PROVE  WalkInv'
  <2> DEFINE x == [id |-> id, owner |-> u, at |-> Column(ToDate(t))]
  <2>1. /\ accounts' = accounts \cup {x} /\ ~AccountExists(x.id) /\ transactions' = transactions
        /\ walk' = walk /\ Inserted("accounts", accounts' \ accounts)
    BY <1>4 DEF CreateAccount
  <2> HIDE DEF x
  <2> QED
    BY <2>1, AccountInserted
<1>5. ASSUME NEW u \in Users, NEW ids \in SUBSET UnusedIds, NEW entry \in [ids -> [account : AccountIds, at : 0..Ticks]], CreateBatch(u, ids, entry)
      PROVE  WalkInv'
  <2>1. /\ transactions \subseteq transactions' /\ accounts' = accounts /\ walk' = walk
        /\ Inserted("transactions", transactions' \ transactions)
    BY <1>5 DEF CreateBatch
  <2> QED
    BY <2>1, TransactionsInserted
<1>6. ASSUME NEW account \in AccountIds, NEW id \in UnusedIds, NEW t \in 0..Ticks, Checkout(account, id, t)
      PROVE  WalkInv'
  <2>1. /\ transactions \subseteq transactions' /\ accounts' = accounts /\ walk' = walk
        /\ Inserted("transactions", transactions' \ transactions)
    BY <1>6 DEF Checkout
  <2> QED
    BY <2>1, TransactionsInserted
<1>7. CASE UNCHANGED pagingVars
  <2>1. accounts' = accounts /\ transactions' = transactions /\ missed' = missed /\ walk' = walk
    BY <1>7 DEF pagingVars
  <2>2. ASSUME NEW v \in Walks PROVE WalkOf(v)'
    BY <2>1, <2>2, SameWalk DEF WalkInv
  <2> QED
    BY <2>2 DEF WalkInv
<1> QED
  BY <1>1, <1>2, <1>3, <1>4, <1>5, <1>6, <1>7 DEF PagingNext, Insert

-----------------------------------------------------------------------------
(* The theorems.                                                           *)

\* Nothing is stored and no walk has begun.
LEMMA PagingInitInv == PagingInit => PagingIInv
<1> SUFFICES ASSUME PagingInit PROVE PagingIInv
  OBVIOUS
<1>1. PagingTypeOK
  <2>1. <<>> \in Seq(Row)
    OBVIOUS
  <2> QED
    BY <2>1 DEF PagingInit, PagingTypeOK
<1>2. TableInv
  BY DEF PagingInit, TableInv
<1>3. WalkInv
  BY DEF PagingInit, WalkInv, WalkOf
<1> QED
  BY <1>1, <1>2, <1>3 DEF PagingIInv

\* The state of lists and walks is what the invariant says: ids are unique, times
\* survive the cursor's conversion, and every walk has what it passed.
THEOREM PagingInvariant == PagingSpec => []PagingIInv
<1>1. PagingIInv /\ [PagingNext]_pagingVars => PagingIInv'
  <2> SUFFICES ASSUME PagingIInv, [PagingNext]_pagingVars PROVE PagingIInv'
    OBVIOUS
  <2>1. PagingTypeOK'
    BY PagingTypeStep DEF PagingIInv
  <2>2. TableInv'
    BY <2>1, TableStep DEF PagingIInv
  <2>3. WalkInv'
    BY <2>1, WalkStep DEF PagingIInv
  <2> QED
    BY <2>1, <2>2, <2>3 DEF PagingIInv
<1> QED
  BY <1>1, PagingInitInv, PTL DEF PagingSpec

\* The WHERE of a list and assertOwner of getById agree.
LEMMA ReadableIsSelected ==
    ASSUME PagingTypeOK, TableInv, NEW q \in Queries
    PROVE  Readable(q) = Selected(q)
<1>1. ASSUME NEW a \in accounts PROVE AccountExists(a.id) /\ AccountOf(a.id) = a
  <2>1. \E b \in accounts : b.id = a.id
    OBVIOUS
  <2>2. AccountOf(a.id) \in accounts /\ AccountOf(a.id).id = a.id
    BY <2>1 DEF AccountOf
  <2> QED
    BY <2>1, <2>2 DEF AccountExists, TableInv
<1>2. CASE q.list = "accounts"
  <2>1. \A a \in accounts : GetAccount(q.user, a.id) = "200" <=> a.owner = q.user
    BY <1>1, AccessFacts DEF GetAccount
  <2> QED
    BY <1>2, <2>1 DEF Readable, Selected
<1>3. CASE q.list # "accounts"
  <2>1. ASSUME NEW t \in transactions
        PROVE  GetTransaction(q.user, t.id) = "200"
                 <=> \E a \in accounts : a.id = t.account /\ a.owner = q.user
    <3> DEFINE s == CHOOSE s \in transactions : s.id = t.id
    <3>1. s \in transactions /\ s.id = t.id
      OBVIOUS
    <3>2. s = t
      <4> HIDE DEF s
      <4> QED
        BY <3>1 DEF TableInv
    <3>3. GetTransaction(q.user, t.id) = Access(q.user, s.account)
      BY DEF GetTransaction
    <3> HIDE DEF s
    <3>4. GetTransaction(q.user, t.id) = Access(q.user, t.account)
      BY <3>2, <3>3
    <3>5. PICK a \in accounts : a.id = t.account
      BY DEF TableInv, AccountExists
    <3>6. AccountExists(t.account) /\ AccountOf(t.account) = a
      BY <1>1, <3>5
    <3>7. Access(q.user, t.account) = "200" <=> a.owner = q.user
      BY <3>6, AccessFacts
    <3>8. \A b \in accounts : b.id = t.account => b = a
      BY <3>5 DEF TableInv
    <3> QED
      BY <3>4, <3>5, <3>7, <3>8
  <2>2. \A t \in transactions : q.account \in {None, t.account} <=> (q.account # None => t.account = q.account)
    OBVIOUS
  <2> QED
    BY <1>3, <2>1, <2>2 DEF Readable, Selected
<1> QED
  BY <1>2, <1>3

\* PagesAreExact: following next_cursor returns every row the user may read, and
\* no other, once and in order, and lacks only what was inserted behind it; for
\* any number of rows, clients and limits and any length of a millisecond.
THEOREM PagesAreExactHolds == PagingSpec => []PagesAreExact
<1>1. PagingIInv => PagesAreExact
  <2> SUFFICES ASSUME PagingIInv, NEW w \in Walks, walk[w].pc \in {"open", "done"}
               PROVE  LET items == walk[w].items IN
                      /\ \A m, n \in DOMAIN items : m < n => Below(items[n], items[m])
                      /\ ToSet(items) \cap missed[w] = {}
                      /\ {r \in Readable(walk[w].query) : Passed(w, r)}
                            = ToSet(items) \cup (missed[w] \cap Readable(walk[w].query))
    BY DEF PagesAreExact
  <2> DEFINE q == walk[w].query
             items == walk[w].items
  <2>1. /\ q \in Queries
        /\ \A m, n \in 1..Len(items) : m < n => Below(items[n], items[m])
        /\ \A r \in missed[w] : Passed(w, r) /\ r \notin ToSet(items)
        /\ \A r \in ToSet(items) : r \in Selected(q) /\ Passed(w, r)
        /\ \A r \in Selected(q) : Passed(w, r) => r \in ToSet(items) \cup missed[w]
    BY DEF PagingIInv, WalkInv, WalkOf, Listing
  <2>2. DOMAIN items = 1..Len(items)
    BY DEF PagingIInv, PagingTypeOK
  <2>3. Readable(q) = Selected(q)
    BY <2>1, ReadableIsSelected DEF PagingIInv
  <2>4. ToSet(items) \cap missed[w] = {}
    BY <2>1
  <2>5. {r \in Readable(q) : Passed(w, r)} = ToSet(items) \cup (missed[w] \cap Readable(q))
    <3> HIDE DEF q, items
    <3> QED
      BY <2>1, <2>3
  <2> QED
    BY <2>1, <2>2, <2>4, <2>5
<1> QED
  BY <1>1, PagingInvariant, PTL

-----------------------------------------------------------------------------
(***************************************************************************)
(* Idempotency keys.                                                       *)
(***************************************************************************)
FlightRecord == [state : {"in-flight"}, fingerprint : Bodies, expiresAt : Nat]
DoneRecord == [state : {"done"}, fingerprint : Bodies, body : Requests, expiresAt : Nat]

IdemTypeOK ==
    /\ clock \in Nat
    /\ boot \in Nat \ {0}
    /\ store \in [Keys -> FlightRecord \cup DoneRecord \cup {NoRecord}]
    /\ pc \in [Requests -> {"new", "handler", "committed", "respond", "ended"}]
    /\ key \in [Requests -> Keys \cup {NoKey}]
    /\ body \in [Requests -> Bodies]
    /\ open \in [Requests -> BOOLEAN]
    /\ statusCode \in [Requests -> {0, 201, 409, 422, 500}]
    /\ applied \in [Requests -> BOOLEAN]
    /\ replay \in [Requests -> Requests \cup {NoResponse}]
    /\ claimedAt \in [Requests -> Nat]
    /\ claimedIn \in [Requests -> Nat]

Claimed(r) == key[r] # NoKey /\ claimedIn[r] > 0

ClaimInv ==
    \A r \in Requests :
        /\ claimedAt[r] <= clock /\ claimedIn[r] <= boot
        /\ pc[r] = "new" => key[r] = NoKey /\ ~applied[r] /\ statusCode[r] = 0
        /\ pc[r] = "committed" => applied[r]
        /\ pc[r] = "respond" => statusCode[r] = 500 \/ (statusCode[r] = 201 /\ applied[r])
        /\ key[r] # NoKey /\ (applied[r] \/ UnderWay(r)) => Claimed(r)
        /\ key[r] # NoKey /\ UnderWay(r) => claimedIn[r] = boot /\ clock < claimedAt[r] + TTL

FlightInv ==
    /\ \A r \in Requests : UnderWay(r) /\ key[r] # NoKey =>
           LET record == store[key[r]] IN
           /\ record \in FlightRecord
           /\ record.expiresAt = claimedAt[r] + TTL
    /\ \A r, q \in Requests :
           UnderWay(r) /\ UnderWay(q) /\ key[r] = key[q] /\ key[r] # NoKey => r = q

\* The request q took effect and succeeded, with this key and this body.
Succeeded(q, k, b) ==
    /\ q \in Requests
    /\ pc[q] = "ended" /\ key[q] = k /\ body[q] = b /\ applied[q] /\ statusCode[q] = 201

DoneInv ==
    /\ \A k \in Keys : store[k] \in DoneRecord =>
           Succeeded(store[k].body, k, store[k].fingerprint)
    /\ \A r \in Requests : replay[r] # NoResponse =>
           pc[r] = "ended" /\ Succeeded(replay[r], key[r], body[r])

\* The request has, or may still have, an effect that stands.
Effective(r) == UnderWay(r) \/ (applied[r] /\ statusCode[r] # 500)

HeldInv ==
    \A r \in Requests :
        Claimed(r) /\ Effective(r) /\ claimedIn[r] = boot /\ clock < claimedAt[r] + TTL =>
            store[key[r]] # NoRecord /\ store[key[r]].expiresAt >= claimedAt[r] + TTL

OneOpen ==
    \A r, q \in Requests :
        r # q /\ key[r] = key[q] /\ Claimed(r) /\ Claimed(q) /\ SameWindow(r, q)
            => ~Effective(r) \/ ~Effective(q)

IdemIInv == IdemTypeOK /\ ClaimInv /\ FlightInv /\ DoneInv /\ HeldInv /\ OneOpen

USE KeysAssumption, RequestsAssumption, RecordsAssumption, BoundsAssumption

-----------------------------------------------------------------------------
\* The initial states satisfy every part of the invariant.
LEMMA IdemInit == Init => IdemIInv
<1> SUFFICES ASSUME Init PROVE IdemIInv
  OBVIOUS
<1>1. IdemTypeOK
  BY DEF Init, IdemTypeOK
<1>2. ClaimInv /\ FlightInv
  BY DEF Init, ClaimInv, FlightInv, UnderWay, Claimed
<1>3. DoneInv
  BY DEF Init, DoneInv, FlightRecord, DoneRecord
<1>4. HeldInv /\ OneOpen
  BY DEF Init, HeldInv, OneOpen, Claimed
<1> QED
  BY <1>1, <1>2, <1>3, <1>4 DEF IdemIInv

\* Each step keeps the types.
LEMMA IdemTypeStep ==
    ASSUME IdemTypeOK, [Next]_vars PROVE IdemTypeOK'
<1> USE DEF IdemTypeOK, FlightRecord, DoneRecord
<1>1. ASSUME NEW r \in Requests, Bypass(r) PROVE IdemTypeOK'
  BY <1>1 DEF Bypass, Arrives
<1>2. ASSUME NEW r \in Requests, NEW k \in Keys, Mismatch(r, k) PROVE IdemTypeOK'
  BY <1>2 DEF Mismatch, Arrives, Answer
<1>3. ASSUME NEW r \in Requests, NEW k \in Keys, StillInFlight(r, k) PROVE IdemTypeOK'
  BY <1>3 DEF StillInFlight, Arrives, Answer
<1>4. ASSUME NEW r \in Requests, NEW k \in Keys, Replay(r, k) PROVE IdemTypeOK'
  BY <1>4 DEF Replay, Arrives, Answer, Live
<1>5. ASSUME NEW r \in Requests, NEW k \in Keys, Claim(r, k) PROVE IdemTypeOK'
  BY <1>5 DEF Claim, Arrives, InFlight
<1>6. ASSUME NEW r \in Requests, Commit(r) PROVE IdemTypeOK'
  BY <1>6 DEF Commit, request
<1>7. ASSUME NEW r \in Requests, Respond(r) PROVE IdemTypeOK'
  BY <1>7 DEF Respond, request
<1>8. ASSUME NEW r \in Requests, Disconnect(r) PROVE IdemTypeOK'
  BY <1>8 DEF Disconnect, request
<1>9. ASSUME NEW r \in Requests, Finish(r) PROVE IdemTypeOK'
  BY <1>9 DEF Finish, request, Done
<1>10. ASSUME NEW r \in Requests, Discard(r) PROVE IdemTypeOK'
  BY <1>10 DEF Discard, request
<1>11. CASE Tick
  BY <1>11 DEF Tick, request
<1>12. CASE Restart
  BY <1>12 DEF Restart, request
<1>13. CASE UNCHANGED vars
  BY <1>13 DEF vars
<1> QED
  BY <1>1, <1>2, <1>3, <1>4, <1>5, <1>6, <1>7, <1>8, <1>9, <1>10, <1>11, <1>12, <1>13 DEF
     Next, Arrive, Step, AllEnded

\* A request is under way only in the life of the process that claimed its key, and
\* not longer than its record lives.
LEMMA ClaimStep ==
    ASSUME IdemTypeOK, ClaimInv, [Next]_vars PROVE ClaimInv'
<1> USE DEF IdemTypeOK, ClaimInv, Claimed, UnderWay
<1>1. ASSUME NEW r \in Requests, Bypass(r) PROVE ClaimInv'
  BY <1>1 DEF Bypass, Arrives
<1>2. ASSUME NEW r \in Requests, NEW k \in Keys, Mismatch(r, k) PROVE ClaimInv'
  BY <1>2 DEF Mismatch, Arrives, Answer
<1>3. ASSUME NEW r \in Requests, NEW k \in Keys, StillInFlight(r, k) PROVE ClaimInv'
  BY <1>3 DEF StillInFlight, Arrives, Answer
<1>4. ASSUME NEW r \in Requests, NEW k \in Keys, Replay(r, k) PROVE ClaimInv'
  BY <1>4 DEF Replay, Arrives, Answer, Live
<1>5. ASSUME NEW r \in Requests, NEW k \in Keys, Claim(r, k) PROVE ClaimInv'
  BY <1>5 DEF Claim, Arrives, InFlight
<1>6. ASSUME NEW r \in Requests, Commit(r) PROVE ClaimInv'
  BY <1>6 DEF Commit, request
<1>7. ASSUME NEW r \in Requests, Respond(r) PROVE ClaimInv'
  BY <1>7 DEF Respond, request
<1>8. ASSUME NEW r \in Requests, Disconnect(r) PROVE ClaimInv'
  BY <1>8 DEF Disconnect, request
<1>9. ASSUME NEW r \in Requests, Finish(r) PROVE ClaimInv'
  BY <1>9 DEF Finish, request, Done
<1>10. ASSUME NEW r \in Requests, Discard(r) PROVE ClaimInv'
  BY <1>10 DEF Discard, request
<1>11. CASE Tick
  BY <1>11 DEF Tick, request
<1>12. CASE Restart
  BY <1>12 DEF Restart, request
<1>13. CASE UNCHANGED vars
  BY <1>13 DEF vars
<1> QED
  BY <1>1, <1>2, <1>3, <1>4, <1>5, <1>6, <1>7, <1>8, <1>9, <1>10, <1>11, <1>12, <1>13 DEF
     Next, Arrive, Step, AllEnded

\* A key is taken only when its record has expired, and while a request is under
\* way its record has not.
LEMMA FlightStep ==
    ASSUME IdemTypeOK, ClaimInv, FlightInv, [Next]_vars PROVE FlightInv'
<1> USE DEF IdemTypeOK, ClaimInv, FlightInv, UnderWay, FlightRecord, DoneRecord
<1>1. ASSUME NEW r \in Requests, Bypass(r) PROVE FlightInv'
  BY <1>1 DEF Bypass, Arrives
<1>2. ASSUME NEW r \in Requests, NEW k \in Keys, Mismatch(r, k) PROVE FlightInv'
  BY <1>2 DEF Mismatch, Arrives, Answer
<1>3. ASSUME NEW r \in Requests, NEW k \in Keys, StillInFlight(r, k) PROVE FlightInv'
  BY <1>3 DEF StillInFlight, Arrives, Answer
<1>4. ASSUME NEW r \in Requests, NEW k \in Keys, Replay(r, k) PROVE FlightInv'
  BY <1>4 DEF Replay, Arrives, Answer, Live
<1>5. ASSUME NEW r \in Requests, NEW k \in Keys, Claim(r, k) PROVE FlightInv'
  <2>1. \A q \in Requests : UnderWay(q) => key[q] # k
    BY <1>5 DEF Claim, Live
  <2>2. store'[k] \in FlightRecord /\ store'[k].expiresAt = clock + TTL /\ claimedAt'[r] = clock
    BY <1>5 DEF Claim, InFlight
  <2>3. ASSUME NEW q \in Requests, q # r, UnderWay(q)', key'[q] # NoKey
        PROVE  UnderWay(q) /\ key'[q] = key[q] /\ store'[key[q]] = store[key[q]]
               /\ claimedAt'[q] = claimedAt[q]
    BY <1>5, <2>1, <2>3 DEF Claim, Arrives
  <2> QED
    BY <1>5, <2>1, <2>2, <2>3 DEF Claim, Arrives
<1>6. ASSUME NEW r \in Requests, Commit(r) PROVE FlightInv'
  BY <1>6 DEF Commit, request
<1>7. ASSUME NEW r \in Requests, Respond(r) PROVE FlightInv'
  BY <1>7 DEF Respond, request
<1>8. ASSUME NEW r \in Requests, Disconnect(r) PROVE FlightInv'
  BY <1>8 DEF Disconnect, request
<1>9. ASSUME NEW r \in Requests, Finish(r) PROVE FlightInv'
  BY <1>9 DEF Finish, request, Done
<1>10. ASSUME NEW r \in Requests, Discard(r) PROVE FlightInv'
  BY <1>10 DEF Discard, request
<1>11. CASE Tick
  BY <1>11 DEF Tick, request
<1>12. CASE Restart
  BY <1>12 DEF Restart, request
<1>13. CASE UNCHANGED vars
  BY <1>13 DEF vars
<1> QED
  BY <1>1, <1>2, <1>3, <1>4, <1>5, <1>6, <1>7, <1>8, <1>9, <1>10, <1>11, <1>12, <1>13 DEF
     Next, Arrive, Step, AllEnded

\* What is stored, and what is replayed, is the response of a request that is over.
LEMMA DoneStep ==
    ASSUME IdemTypeOK, ClaimInv, FlightInv, DoneInv, [Next]_vars PROVE DoneInv'
<1> USE DEF IdemTypeOK, ClaimInv, DoneInv, Succeeded, UnderWay, FlightRecord, DoneRecord
<1>1. ASSUME NEW r \in Requests, Bypass(r) PROVE DoneInv'
  BY <1>1 DEF Bypass, Arrives
<1>2. ASSUME NEW r \in Requests, NEW k \in Keys, Mismatch(r, k) PROVE DoneInv'
  BY <1>2 DEF Mismatch, Arrives, Answer
<1>3. ASSUME NEW r \in Requests, NEW k \in Keys, StillInFlight(r, k) PROVE DoneInv'
  BY <1>3 DEF StillInFlight, Arrives, Answer
<1>4. ASSUME NEW r \in Requests, NEW k \in Keys, Replay(r, k) PROVE DoneInv'
  BY <1>4 DEF Replay, Arrives, Answer, Live
<1>5. ASSUME NEW r \in Requests, NEW k \in Keys, Claim(r, k) PROVE DoneInv'
  BY <1>5 DEF Claim, Arrives, InFlight
<1>6. ASSUME NEW r \in Requests, Commit(r) PROVE DoneInv'
  BY <1>6 DEF Commit, request
<1>7. ASSUME NEW r \in Requests, Respond(r) PROVE DoneInv'
  BY <1>7 DEF Respond, request
<1>8. ASSUME NEW r \in Requests, Disconnect(r) PROVE DoneInv'
  BY <1>8 DEF Disconnect, request
<1>9. ASSUME NEW r \in Requests, Finish(r) PROVE DoneInv'
  BY <1>9 DEF Finish, request, Done
<1>10. ASSUME NEW r \in Requests, Discard(r) PROVE DoneInv'
  BY <1>10 DEF Discard, request
<1>11. CASE Tick
  BY <1>11 DEF Tick, request
<1>12. CASE Restart
  BY <1>12 DEF Restart, request
<1>13. CASE UNCHANGED vars
  BY <1>13 DEF vars
<1> QED
  BY ZenonT(60), <1>1, <1>2, <1>3, <1>4, <1>5, <1>6, <1>7, <1>8, <1>9, <1>10, <1>11, <1>12,
     <1>13 DEF Next, Arrive, Step, AllEnded

\* Only the request that holds a key releases it, and not after an effect that stands.
LEMMA HeldStep ==
    ASSUME IdemTypeOK, ClaimInv, FlightInv, HeldInv, OneOpen, [Next]_vars PROVE HeldInv'
<1> USE DEF IdemTypeOK, ClaimInv, HeldInv, Effective, Claimed, UnderWay, FlightRecord, DoneRecord
<1>1. ASSUME NEW r \in Requests, Bypass(r) PROVE HeldInv'
  BY <1>1 DEF Bypass, Arrives
<1>2. ASSUME NEW r \in Requests, NEW k \in Keys, Mismatch(r, k) PROVE HeldInv'
  BY <1>2 DEF Mismatch, Arrives, Answer
<1>3. ASSUME NEW r \in Requests, NEW k \in Keys, StillInFlight(r, k) PROVE HeldInv'
  BY <1>3 DEF StillInFlight, Arrives, Answer
<1>4. ASSUME NEW r \in Requests, NEW k \in Keys, Replay(r, k) PROVE HeldInv'
  BY <1>4 DEF Replay, Arrives, Answer, Live
<1>5. ASSUME NEW r \in Requests, NEW k \in Keys, Claim(r, k) PROVE HeldInv'
  BY <1>5 DEF Claim, Arrives, InFlight
<1>6. ASSUME NEW r \in Requests, Commit(r) PROVE HeldInv'
  BY <1>6 DEF Commit, request
<1>7. ASSUME NEW r \in Requests, Respond(r) PROVE HeldInv'
  BY <1>7 DEF Respond, request
<1>8. ASSUME NEW r \in Requests, Disconnect(r) PROVE HeldInv'
  BY <1>8 DEF Disconnect, request
<1>9. ASSUME NEW r \in Requests, Finish(r) PROVE HeldInv'
  <2> SUFFICES ASSUME NEW q \in Requests, (Claimed(q) /\ Effective(q) /\ claimedIn[q] = boot)',
                      clock < claimedAt[q] + TTL
               PROVE  store'[key[q]] # NoRecord /\ store'[key[q]].expiresAt >= claimedAt[q] + TTL
    BY <1>9 DEF Finish, request
  <2>1. Claimed(q) /\ Effective(q) /\ claimedIn[q] = boot /\ key[q] \in Keys
    BY <1>9 DEF Finish, request
  <2>2. CASE key[r] # key[q]
    BY <1>9, <2>1, <2>2 DEF Finish
  <2>3. CASE key[r] = key[q]
    <3>1. q = r
      <4> SUFFICES ASSUME q # r PROVE FALSE
        OBVIOUS
      <4>1. Claimed(r) /\ UnderWay(r) /\ claimedIn[r] = boot /\ clock < claimedAt[r] + TTL
        BY <1>9, <2>1, <2>3 DEF Finish
      <4>2. SameWindow(r, q)
        BY <2>1, <4>1 DEF SameWindow
      <4> QED
        BY <2>1, <2>3, <4>1, <4>2 DEF OneOpen
    <3>2. statusCode[r] = 201
      BY <1>9, <2>1, <3>1 DEF Finish, request
    <3>3. store'[key[q]] = Done(body[r], r)
      BY <1>9, <2>1, <2>3, <3>2 DEF Finish
    <3>4. Done(body[r], r) \in DoneRecord /\ Done(body[r], r).expiresAt = clock + TTL
      BY DEF Done
    <3> QED
      BY <3>3, <3>4
  <2> QED
    BY <2>2, <2>3
<1>10. ASSUME NEW r \in Requests, Discard(r) PROVE HeldInv'
  BY <1>10 DEF Discard, request
<1>11. CASE Tick
  BY <1>11 DEF Tick, request
<1>12. CASE Restart
  BY <1>12 DEF Restart, request
<1>13. CASE UNCHANGED vars
  BY <1>13 DEF vars
<1> QED
  BY <1>1, <1>2, <1>3, <1>4, <1>5, <1>6, <1>7, <1>8, <1>9, <1>10, <1>11, <1>12, <1>13 DEF
     Next, Arrive, Step, AllEnded

\* A key is not taken a second time while an effect of it stands and may be seen.
LEMMA OpenStep ==
    ASSUME IdemTypeOK, ClaimInv, FlightInv, HeldInv, OneOpen, [Next]_vars PROVE OneOpen'
<1> USE DEF IdemTypeOK, ClaimInv, OneOpen, SameWindow, Effective, Claimed, UnderWay
<1>1. ASSUME NEW r \in Requests, Bypass(r) PROVE OneOpen'
  BY <1>1 DEF Bypass, Arrives
<1>2. ASSUME NEW r \in Requests, NEW k \in Keys, Mismatch(r, k) PROVE OneOpen'
  BY <1>2 DEF Mismatch, Arrives, Answer
<1>3. ASSUME NEW r \in Requests, NEW k \in Keys, StillInFlight(r, k) PROVE OneOpen'
  BY <1>3 DEF StillInFlight, Arrives, Answer
<1>4. ASSUME NEW r \in Requests, NEW k \in Keys, Replay(r, k) PROVE OneOpen'
  BY <1>4 DEF Replay, Arrives, Answer, Live
<1>5. ASSUME NEW r \in Requests, NEW k \in Keys, Claim(r, k) PROVE OneOpen'
  <2>1. \A q \in Requests : q # r =>
            /\ Claimed(q)' = Claimed(q) /\ Effective(q)' = Effective(q)
            /\ key'[q] = key[q] /\ claimedAt'[q] = claimedAt[q] /\ claimedIn'[q] = claimedIn[q]
    BY <1>5 DEF Claim, Arrives
  <2>2. key'[r] = k /\ claimedAt'[r] = clock /\ claimedIn'[r] = boot
    BY <1>5 DEF Claim, Arrives
  <2>3. ASSUME NEW q \in Requests, q # r, key[q] = k, Claimed(q), claimedIn[q] = boot,
               clock < claimedAt[q] + TTL
        PROVE  ~Effective(q)
    BY <1>5, <2>3 DEF Claim, Live, HeldInv, FlightRecord, DoneRecord
  <2> QED
    BY <2>1, <2>2, <2>3
<1>6. ASSUME NEW r \in Requests, Commit(r) PROVE OneOpen'
  BY <1>6 DEF Commit, request
<1>7. ASSUME NEW r \in Requests, Respond(r) PROVE OneOpen'
  BY <1>7 DEF Respond, request
<1>8. ASSUME NEW r \in Requests, Disconnect(r) PROVE OneOpen'
  BY <1>8 DEF Disconnect, request
<1>9. ASSUME NEW r \in Requests, Finish(r) PROVE OneOpen'
  BY <1>9 DEF Finish, request, Done
<1>10. ASSUME NEW r \in Requests, Discard(r) PROVE OneOpen'
  BY <1>10 DEF Discard, request
<1>11. CASE Tick
  BY <1>11 DEF Tick, request
<1>12. CASE Restart
  BY <1>12 DEF Restart, request
<1>13. CASE UNCHANGED vars
  BY <1>13 DEF vars
<1> QED
  BY <1>1, <1>2, <1>3, <1>4, <1>5, <1>6, <1>7, <1>8, <1>9, <1>10, <1>11, <1>12, <1>13 DEF
     Next, Arrive, Step, AllEnded

\* The parts together are inductive.
THEOREM IdempotencyInvariant == Spec => []IdemIInv
<1>1. IdemIInv /\ [Next]_vars => IdemIInv'
  BY IdemTypeStep, ClaimStep, FlightStep, DoneStep, HeldStep, OpenStep DEF IdemIInv
<1> QED
  BY <1>1, IdemInit, PTL DEF Spec

-----------------------------------------------------------------------------
\* A key has one effect per TTL and life of the process, however its requests are
\* retried, raced or disconnected, unless a handler failed after its COMMIT.
THEOREM OneEffectPerKeyHolds == Spec => []OneEffectPerKey
<1>1. IdemIInv => OneEffectPerKey
  BY DEF IdemIInv, IdemTypeOK, ClaimInv, OneOpen, OneEffectPerKey, Claimed, Effective
<1> QED
  BY <1>1, IdempotencyInvariant, PTL

\* A replayed response belongs to a request with the same key and body that took
\* effect and succeeded.
THEOREM ReplayIsTruthfulHolds == Spec => []ReplayIsTruthful
<1>1. IdemIInv => ReplayIsTruthful
  BY DEF IdemIInv, DoneInv, Succeeded, ReplayIsTruthful
<1> QED
  BY <1>1, IdempotencyInvariant, PTL
=============================================================================
