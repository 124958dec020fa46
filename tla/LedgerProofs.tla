---------------------------- MODULE LedgerProofs ----------------------------
(***************************************************************************)
(* Proofs about Ledger for any finite sets of accounts, requests and       *)
(* seeded rows, any opening balances and any bodies.  The invariant says   *)
(* of every request, by the statement it is at,                            *)
(*   CheckoutInv, BatchInv, StatusInv   what it has written, which locks   *)
(*               it holds, and that what it read under them is still the   *)
(*               committed state;                                          *)
(*   FreshInv    that its rows are not there before it commits;            *)
(*   HolderInv   that it holds a lock only in the statements after it took *)
(*               it;                                                       *)
(*   AnswerInv   that its answer agrees with its order;                    *)
(* and of the accounts                                                     *)
(*   CoverInv    that checkouts alone never overdraw one, and what they    *)
(*               were refused is still not covered;                        *)
(*   RaceInv     that in a race orders, jobs and balance move together.    *)
(* A step keeps the part of its own request because of what the statement  *)
(* does, and the parts of the others because it leaves them alone: what a  *)
(* request relies on is locked by it or only ever grows (LeftAlone).       *)
(***************************************************************************)
EXTENDS Ledger, FiniteSetTheorems, WellFoundedInduction, TLAPS

Answers == {"none", "ok", "account_not_found", "insufficient_funds", "no_fx_rate", "publish_failed",
            "rejected", "not_found", "forbidden", "deadlock", "crashed"}

Statements == {"debit", "fx", "insert", "job", "commit", "publish", "validate", "save", "update",
               "lock", "ended"}

\* What a transaction may have written.
RowMaps == UNION {[S -> Rows] : S \in SUBSET RowIds}
Works == [delta : [Accounts -> Int], rows : RowMaps, jobs : SUBSET RowIds]

TypeOK ==
    /\ balance \in [Accounts -> Int]
    /\ tx \in [RowIds -> Rows \cup {NoRow}]
    /\ jobs \in SUBSET RowIds
    /\ accountLock \in [Accounts -> Requests \cup {NoOne}]
    /\ rowLock \in [RowIds -> Requests \cup {NoOne}]
    /\ op \in [Requests -> Ops]
    /\ pc \in [Requests -> Statements]
    /\ work \in [Requests -> Works]
    /\ todo \in [Requests -> SUBSET Nat]
    /\ answer \in [Requests -> Answers]
    /\ placed \in SUBSET RowIds
    /\ statusEvents \in SUBSET (RowIds \X Statuses)
    /\ history \in [RowIds -> SUBSET Statuses]

\* The statements of a checkout between its debit and its COMMIT.
Paid == {"fx", "insert", "job", "commit"}

Zero == [a \in Accounts |-> 0]

\* The order a checkout or a status change has written.
OneRow(t, row) == [u \in {t} |-> row]

\* A checkout that has debited its account holds the account's lock, and the
\* committed balance still covers the cost; it has written exactly what the
\* statements it has run write.
CheckoutInv(q) == LET o == op[q] IN op[q].kind = "checkout" =>
    /\ pc[q] \in Paid \cup {"debit", "publish", "ended"}
    /\ pc[q] \in Paid => o.acct \in Accounts /\ accountLock[o.acct] = q /\ balance[o.acct] >= o.cost
    /\ pc[q] \in Paid \ {"fx"} => o.acct \in Quoted
    /\ work[q].delta = IF pc[q] \in Paid
                       THEN [a \in Accounts |-> IF a = o.acct THEN -o.cost ELSE 0] ELSE Zero
    /\ work[q].rows = IF pc[q] \in {"job", "commit"} THEN OneRow(<<q, 1>>, OrderRow(o)) ELSE NoWork.rows
    /\ work[q].jobs = IF pc[q] = "commit" THEN {<<q, 1>>} ELSE {}
    /\ pc[q] = "publish" => tx[<<q, 1>>] # NoRow /\ <<q, 1>> \in jobs

\* The accounts a batch has updated: those of the keys it has passed.
Updated(q, a) == \E i \in DeltaKeys(op[q].entries) \ todo[q] : op[q].entries[i].acct = a

\* A batch takes its keys in order, holds the lock of every account it has
\* updated, and has booked there exactly the sum of its entries.
BatchInv(q) == LET entries == op[q].entries IN op[q].kind = "batch" =>
    /\ pc[q] \in {"validate", "save", "update", "ended"}
    /\ pc[q] \in {"save", "update"} => \A i \in DOMAIN entries : entries[i].acct \in Accounts
    /\ pc[q] = "save" => todo[q] = DeltaKeys(entries)
    /\ pc[q] = "update" =>
          /\ \A i \in DOMAIN entries : entries[i].acct \in Quoted
          /\ todo[q] \subseteq DeltaKeys(entries)
          /\ \A i \in DeltaKeys(entries) \ todo[q], k \in todo[q] : i < k
          /\ \A a \in Accounts : Updated(q, a) => accountLock[a] = q
    /\ work[q].delta = IF pc[q] = "update"
                       THEN [a \in Accounts |-> IF Updated(q, a) THEN BatchDelta(entries, a) ELSE 0]
                       ELSE Zero
    /\ work[q].rows = IF pc[q] = "update" THEN BatchRows(q, entries) ELSE NoWork.rows
    /\ work[q].jobs = {}

\* A status change that has read its order holds the order's lock, so what it
\* has read is still the committed row.
StatusInv(q) == LET o == op[q] row == tx[op[q].row] IN op[q].kind = "status" =>
    /\ pc[q] \in {"lock", "update", "commit", "publish", "ended"}
    /\ pc[q] \in {"update", "commit"} =>
          /\ row # NoRow
          /\ rowLock[o.row] = q
          /\ row.status # o.to
    /\ pc[q] = "update" => CrossesPosted(row, o.to)
    /\ pc[q] = "commit" /\ CrossesPosted(row, o.to) => accountLock[row.acct] = q
    /\ work[q].delta = IF pc[q] = "commit"
                       THEN [a \in Accounts |-> IF a = row.acct THEN StatusDelta(row, o.to) ELSE 0]
                       ELSE Zero
    /\ work[q].rows = IF pc[q] \in {"update", "commit"}
                      THEN OneRow(o.row, [row EXCEPT !.status = o.to]) ELSE NoWork.rows
    /\ work[q].jobs = {}
    /\ pc[q] = "publish" => o.to \in history[o.row]

\* The rows of a request are not there before it commits.
FreshInv(q) ==
    pc[q] \notin {"publish", "ended"} /\ op[q].kind # "status"
        => \A i \in 1..MaxEntries : tx[<<q, i>>] = NoRow

\* Who holds a lock has taken it and has not ended its transaction.
HolderInv(q) ==
    /\ \A a \in Accounts : accountLock[a] = q =>
          CASE op[q].kind = "checkout" -> pc[q] \in Paid /\ a = op[q].acct
            [] op[q].kind = "batch" -> pc[q] = "update" /\ Updated(q, a)
            [] op[q].kind = "status" -> pc[q] = "commit"
    /\ \A t \in RowIds : rowLock[t] = q =>
          op[q].kind = "status" /\ pc[q] \in {"update", "commit"} /\ t = op[q].row

RequestInv(q) == CheckoutInv(q) /\ BatchInv(q) /\ StatusInv(q) /\ FreshInv(q) /\ HolderInv(q)

\* How a checkout ended: with its order, or without.
AnswerInv(q) ==
    op[q].kind = "checkout" =>
        /\ answer[q] = "ok" => tx[<<q, 1>>] # NoRow
        /\ answer[q] = "insufficient_funds" => pc[q] = "ended" /\ tx[<<q, 1>>] = NoRow

\* An account that only checkouts draw on is never overdrawn, and what was
\* refused stays out of reach.
CoverInv ==
    \A a \in Accounts : CheckoutOnly(a) =>
        /\ balance[a] >= 0
        /\ \A r \in Requests :
              op[r].kind = "checkout" /\ op[r].acct = a /\ answer[r] = "insufficient_funds"
                  => balance[a] < op[r].cost

Ordered == {r \in Requests : tx[<<r, 1>>] # NoRow}

\* In a race every order stands for one price taken from the account, and for
\* one job.
RaceInv ==
    \A a \in Accounts, price \in Nat :
        (\A r \in Requests : op[r].kind = "checkout" /\ op[r].acct = a /\ op[r].cost = price) =>
            /\ balance[a] = Opening[a] - Cardinality(Ordered) * price
            /\ jobs = {<<r, 1>> : r \in Ordered}

IInv ==
    /\ TypeOK
    /\ \A q \in Requests : RequestInv(q)
    /\ EventsAfterCommit
    /\ \A q \in Requests : AnswerInv(q)
    /\ CoverInv
    /\ RaceInv

\* A set of numbers has a least one: the only induction these proofs need.
LEMMA SmallestNumber ==
    ASSUME NEW T, T \subseteq Nat, T # {}
    PROVE  \E m \in T : \A n \in T : m <= n
<1> DEFINE Less == OpToRel(<, Nat)
<1>1. PICK m \in T : \A n \in T : <<n, m>> \notin Less
  <2>1. IsWellFoundedOn(Less, Nat)
    BY NatLessThanWellFounded
  <2> HIDE DEF Less
  <2> QED BY <2>1, WFMin
<1>2. Less = {p \in Nat \X Nat : p[1] < p[2]}
  BY Zenon DEF OpToRel
<1>3. ASSUME NEW n \in T PROVE m <= n
  <2> HIDE DEF Less
  <2>1. <<n, m>> \notin {p \in Nat \X Nat : p[1] < p[2]}
    BY <1>1, <1>2
  <2> QED BY <2>1
<1> QED BY <1>3

\* BatchDelta adds up the entries of one account, one after the other.
EntryTerm(entries, a, n) ==
    IF entries[n].acct = a THEN SIGN[entries[n].type] * entries[n].cents ELSE 0

\* BatchDelta is the last of the sums over the prefixes of the entries.
LEMMA BatchDeltaPrefixes ==
    ASSUME NEW entries, Len(entries) \in Nat, DOMAIN entries = 1..Len(entries), NEW a,
           \A i \in DOMAIN entries : entries[i].type \in DOMAIN SIGN /\ entries[i].cents \in Nat
    PROVE  /\ \A n \in 1..Len(entries) : EntryTerm(entries, a, n) \in Int
           /\ \E s : /\ s[0] = 0
                     /\ \A n \in 0..Len(entries) : s[n] \in Int
                     /\ \A n \in 1..Len(entries) : s[n] = s[n - 1] + EntryTerm(entries, a, n)
                     /\ BatchDelta(entries, a) = s[Len(entries)]
<1> DEFINE N == Len(entries)
           Term(n) == IF entries[n].acct = a THEN SIGN[entries[n].type] * entries[n].cents ELSE 0
           IsSum(s, m) == s = [n \in 0..m |-> IF n = 0 THEN 0 ELSE s[n - 1] + Term(n)]
<1>1. \A n \in 1..N : Term(n) \in Int
  BY DEF SIGN
<1> HIDE DEF Term, N
<1>n. N \in Nat
  BY DEF N
<1>2. \A m \in 0..N : \E s : IsSum(s, m)
  <2> DEFINE T == {m \in 0..N : ~ \E s : IsSum(s, m)}
  <2>1. SUFFICES ASSUME T # {} PROVE FALSE
    OBVIOUS
  <2>2. PICK m \in T : \A n \in T : m <= n
    <3>1. T \subseteq Nat
      BY <1>n
    <3> HIDE DEF T
    <3> QED BY <2>1, <3>1, SmallestNumber
  <2>3. CASE m = 0
    <3> DEFINE z == [n \in 0..0 |-> 0]
    <3>1. z = [n \in 0..0 |-> IF n = 0 THEN 0 ELSE z[n - 1] + Term(n)]
      OBVIOUS
    <3>2. IsSum(z, m)
      BY <3>1, <2>3
    <3> QED BY <3>2
  <2>4. CASE m # 0
    <3>1. m - 1 \in 0..N /\ ~(m <= m - 1)
      BY <2>4, <1>n
    <3>2. PICK s : IsSum(s, m - 1)
      <4>1. m - 1 \notin T
        <5> HIDE DEF T
        <5> QED BY <3>1, <2>2
      <4> HIDE DEF IsSum
      <4> QED BY <3>1, <4>1
    <3> DEFINE z == [n \in 0..m |-> IF n = m THEN s[m - 1] + Term(m) ELSE s[n]]
    <3>3. ASSUME NEW n \in 0..m PROVE z[n] = IF n = 0 THEN 0 ELSE z[n - 1] + Term(n)
      BY <3>2, <2>4, <1>n
    <3>4. z = [n \in 0..m |-> IF n = 0 THEN 0 ELSE z[n - 1] + Term(n)]
      BY <3>3
    <3>5. IsSum(z, m)
      BY <3>4
    <3> QED BY <3>5
  <2> QED BY <2>3, <2>4
<1> DEFINE s == CHOOSE f : IsSum(f, N)
<1>3. IsSum(s, N)
  <2> HIDE DEF IsSum
  <2>1. N \in 0..N
    BY <1>n
  <2>2. \E f : IsSum(f, N)
    BY <1>2, <2>1
  <2> QED BY <2>2
<1>4. BatchDelta(entries, a) = s[N]
  BY Zenon DEF BatchDelta, N, Term
<1> HIDE DEF s
<1>5. s = [n \in 0..N |-> IF n = 0 THEN 0 ELSE s[n - 1] + Term(n)]
  BY <1>3
<1>6. \A n \in 0..N : s[n] \in Int
  <2> DEFINE T == {n \in 0..N : s[n] \notin Int}
  <2>1. SUFFICES ASSUME T # {} PROVE FALSE
    OBVIOUS
  <2>2. PICK m \in T : \A n \in T : m <= n
    <3>1. T \subseteq Nat
      BY <1>n
    <3> HIDE DEF T
    <3> QED BY <2>1, <3>1, SmallestNumber
  <2>3. m # 0
    BY <2>2, <1>5, <1>n
  <2>4. s[m - 1] \in Int
    BY <2>2, <2>3, <1>n
  <2>5. s[m] = s[m - 1] + Term(m)
    BY <1>5, <2>3, <1>n
  <2> QED BY <2>2, <2>3, <2>4, <2>5, <1>1, <1>n
<1>7. s[0] = 0 /\ \A n \in 1..N : s[n] = s[n - 1] + Term(n)
  BY <1>5, <1>n
<1>8. \A n \in 1..N : Term(n) = EntryTerm(entries, a, n)
  BY DEF Term, EntryTerm
<1> QED BY <1>1, <1>4, <1>6, <1>7, <1>8 DEF N

\* A batch books nothing on an account it does not name.
LEMMA BatchDeltaValue ==
    ASSUME NEW entries, Len(entries) \in Nat, DOMAIN entries = 1..Len(entries), NEW a,
           \A i \in DOMAIN entries : entries[i].type \in DOMAIN SIGN /\ entries[i].cents \in Nat
    PROVE  /\ BatchDelta(entries, a) \in Int
           /\ (\A i \in DOMAIN entries : entries[i].acct # a) => BatchDelta(entries, a) = 0
<1> DEFINE N == Len(entries)
<1>n. N \in Nat
  OBVIOUS
<1>1. PICK s : /\ s[0] = 0
               /\ \A n \in 0..N : s[n] \in Int
               /\ \A n \in 1..N : s[n] = s[n - 1] + EntryTerm(entries, a, n)
               /\ BatchDelta(entries, a) = s[N]
  BY BatchDeltaPrefixes
<1>2. ASSUME \A i \in DOMAIN entries : entries[i].acct # a PROVE s[N] = 0
  <2>1. \A n \in 1..N : EntryTerm(entries, a, n) = 0
    BY <1>2 DEF EntryTerm
  <2> DEFINE T == {n \in 0..N : s[n] # 0}
  <2>2. T = {}
    <3>1. SUFFICES ASSUME T # {} PROVE FALSE
      OBVIOUS
    <3>2. PICK m \in T : \A n \in T : m <= n
      <4>1. T \subseteq Nat
        BY <1>n
      <4> HIDE DEF T
      <4> QED BY <3>1, <4>1, SmallestNumber
    <3>3. m # 0
      BY <1>1, <3>2
    <3>4. m \in 1..N /\ m - 1 \in 0..N /\ s[m - 1] = 0
      BY <1>n, <3>2, <3>3
    <3>5. s[m] = s[m - 1] + 0
      BY <1>1, <2>1, <3>4
    <3> QED BY <3>2, <3>4, <3>5
  <2> QED BY <1>n, <2>2
<1> QED BY <1>n, <1>1, <1>2

\* A property of the subsets of a finite set that fails fails for a smallest one.
LEMMA SmallestSubset ==
    ASSUME NEW S, IsFiniteSet(S), NEW B \in SUBSET (SUBSET S), B # {}
    PROVE  \E T \in B : \A x \in T : T \ {x} \notin B
<1>1. ASSUME NEW T \in SUBSET S PROVE IsFiniteSet(T) /\ Cardinality(T) \in Nat
  BY FS_Subset, FS_CardinalityType
<1> DEFINE sizes == {Cardinality(T) : T \in B}
<1>2. sizes \subseteq Nat /\ sizes # {}
  BY <1>1
<1>3. PICK m \in sizes : \A n \in sizes : m <= n
  <2> HIDE DEF sizes
  <2> QED BY <1>2, SmallestNumber
<1>4. PICK T \in B : Cardinality(T) = m
  OBVIOUS
<1>5. ASSUME NEW x \in T, T \ {x} \in B PROVE FALSE
  <2>1. IsFiniteSet(T) /\ Cardinality(T) \in Nat
    BY <1>1
  <2>2. Cardinality(T \ {x}) = Cardinality(T) - 1
    BY <2>1, FS_RemoveElement
  <2>3. m <= Cardinality(T \ {x})
    BY <1>3, <1>5
  <2> QED BY <1>4, <2>1, <2>2, <2>3
<1> QED BY <1>4, <1>5

PickOne(T) == CHOOSE x \in T : TRUE

\* What adding up one set after the other means.
IsSumOf(sum, f, S) ==
    /\ sum \in [SUBSET S -> Int]
    /\ sum[{}] = 0
    /\ \A T \in SUBSET S : T # {} => sum[T] = f[PickOne(T)] + sum[T \ {PickOne(T)}]

\* SumFunction over a finite set is what adding the values one by one gives.
LEMMA SumExists ==
    ASSUME NEW S, IsFiniteSet(S), NEW f \in [S -> Int]
    PROVE  \E sum : IsSumOf(sum, f, S) /\ SumFunction(f) = sum[S]
<1> DEFINE Level(k) == {T \in SUBSET S : Cardinality(T) <= k}
           Val(h, T) == IF T = {} THEN 0 ELSE f[PickOne(T)] + h[T \ {PickOne(T)}]
           Partial(h, k) == h = [T \in Level(k) |-> Val(h, T)]
           Full(h) == h = [T \in SUBSET S |-> Val(h, T)]
<1>1. ASSUME NEW T \in SUBSET S PROVE IsFiniteSet(T) /\ Cardinality(T) \in Nat /\ Cardinality(T) <= Cardinality(S)
  BY FS_Subset, FS_CardinalityType
<1>2. ASSUME NEW T \in SUBSET S, T # {}
      PROVE  /\ PickOne(T) \in T
             /\ T \ {PickOne(T)} \in SUBSET S
             /\ Cardinality(T \ {PickOne(T)}) = Cardinality(T) - 1
             /\ Cardinality(T) # 0
  <2>1. PickOne(T) \in T
    BY <1>2 DEF PickOne
  <2>2. Cardinality(T \ {PickOne(T)}) = Cardinality(T) - 1
    BY <1>1, <2>1, FS_RemoveElement
  <2>3. Cardinality(T) # 0
    BY <1>1, <1>2, FS_EmptySet
  <2> QED BY <2>1, <2>2, <2>3
<1>3. \A k \in Nat : \E h : Partial(h, k)
  <2> DEFINE B == {k \in Nat : ~ \E h : Partial(h, k)}
  <2>1. SUFFICES ASSUME B # {} PROVE FALSE
    OBVIOUS
  <2>2. PICK m \in B : \A n \in B : m <= n
    <3>1. B \subseteq Nat
      OBVIOUS
    <3> HIDE DEF B
    <3> QED BY <2>1, <3>1, SmallestNumber
  <2>3. CASE m = 0
    <3> DEFINE z == [T \in Level(m) |-> 0]
    <3>1. ASSUME NEW T \in Level(m) PROVE T = {}
      <4>1. T \in SUBSET S /\ Cardinality(T) \in Nat /\ Cardinality(T) <= 0
        BY <1>1, <2>3
      <4>2. Cardinality(T) = 0 /\ IsFiniteSet(T)
        BY <1>1, <4>1
      <4> QED BY <4>2, FS_EmptySet
    <3>2. z = [T \in Level(m) |-> Val(z, T)]
      <4> HIDE DEF Level
      <4>1. ASSUME NEW T \in Level(m) PROVE Val(z, T) = 0
        BY <3>1
      <4> HIDE DEF Val
      <4> QED BY <4>1
    <3>3. Partial(z, m)
      BY <3>2
    <3> QED BY <3>3
  <2>4. CASE m # 0
    <3>1. m - 1 \in Nat /\ ~(m <= m - 1)
      BY <2>4
    <3>2. PICK h : Partial(h, m - 1)
      <4>1. m - 1 \notin B
        <5> HIDE DEF B
        <5> QED BY <3>1, <2>2
      <4> HIDE DEF Partial
      <4> QED BY <3>1, <4>1
    <3> DEFINE z == [T \in Level(m) |-> Val(h, T)]
    <3>3. ASSUME NEW T \in Level(m - 1) PROVE T \in Level(m) /\ z[T] = h[T]
      <4>1. T \in Level(m)
        BY <1>1, <3>1
      <4>2. h[T] = Val(h, T)
        <5> HIDE DEF Val, Level
        <5> QED BY <3>2
      <4> HIDE DEF Val, Level
      <4> QED BY <4>1, <4>2
    <3>4. ASSUME NEW T \in Level(m) PROVE Val(h, T) = Val(z, T)
      <4>1. CASE T = {}
        BY <4>1
      <4>2. CASE T # {}
        <5>1. T \ {PickOne(T)} \in Level(m - 1)
          BY <1>1, <1>2, <4>2
        <5>2. z[T \ {PickOne(T)}] = h[T \ {PickOne(T)}]
          BY <3>3, <5>1
        <5> HIDE DEF z
        <5> QED BY <5>2
      <4> QED BY <4>1, <4>2
    <3>5. z = [T \in Level(m) |-> Val(z, T)]
      <4>1. z = [T \in Level(m) |-> Val(h, T)]
        OBVIOUS
      <4> HIDE DEF z, Val, Level
      <4> QED BY <3>4, <4>1
    <3>6. Partial(z, m)
      BY <3>5
    <3> QED BY <3>6
  <2> QED BY <2>3, <2>4
<1>4. \E h : Full(h)
  <2>1. Cardinality(S) \in Nat /\ Level(Cardinality(S)) = SUBSET S
    BY <1>1
  <2>2. PICK h : Partial(h, Cardinality(S))
    BY <1>3, <2>1
  <2>3. Full(h)
    <3> HIDE DEF Val, Level
    <3> QED BY <2>1, <2>2
  <2> HIDE DEF Full
  <2> QED BY <2>3
<1> DEFINE sum == CHOOSE h : Full(h)
<1>5. Full(sum)
  <2> HIDE DEF Full
  <2> QED BY <1>4
<1>6. SumFunction(f) = sum[S]
  <2>1. DOMAIN f = S
    OBVIOUS
  <2> QED BY <2>1, Zenon DEF SumFunction, SumFunctionOnSet, FoldFunctionOnSet, MapThenFoldSet, PickOne
<1> HIDE DEF sum
<1>7. \A T \in SUBSET S : sum[T] = Val(sum, T)
  <2> HIDE DEF Val
  <2> QED BY <1>5
<1>8. \A T \in SUBSET S : sum[T] \in Int
  <2> DEFINE B == {T \in SUBSET S : sum[T] \notin Int}
  <2>1. SUFFICES ASSUME B # {} PROVE FALSE
    OBVIOUS
  <2>2. PICK T \in B : \A x \in T : T \ {x} \notin B
    <3>1. B \in SUBSET (SUBSET S)
      OBVIOUS
    <3> HIDE DEF B
    <3> QED BY <2>1, <3>1, SmallestSubset
  <2>3. T # {}
    BY <1>7, <2>2
  <2>4. sum[T \ {PickOne(T)}] \in Int /\ f[PickOne(T)] \in Int
    BY <1>2, <2>2, <2>3
  <2>5. sum[T] = f[PickOne(T)] + sum[T \ {PickOne(T)}]
    BY <1>7, <2>3
  <2> QED BY <2>2, <2>4, <2>5
<1>9. sum \in [SUBSET S -> Int]
  <2>1. sum = [T \in SUBSET S |-> Val(sum, T)]
    BY <1>5
  <2> HIDE DEF Val
  <2>2. sum = [T \in SUBSET S |-> sum[T]]
    BY <1>7, <2>1
  <2> QED BY <1>8, <2>2
<1>10. IsSumOf(sum, f, S)
  BY <1>7, <1>9 DEF IsSumOf
<1> QED BY <1>6, <1>10

\* Changing one summand changes the sum by the difference.
LEMMA SumPoint ==
    ASSUME NEW S, IsFiniteSet(S), NEW f \in [S -> Int], NEW g \in [S -> Int], NEW t \in S,
           \A u \in S : u # t => g[u] = f[u]
    PROVE  SumFunction(f) \in Int /\ SumFunction(g) = SumFunction(f) - f[t] + g[t]
<1>1. PICK sf : IsSumOf(sf, f, S) /\ SumFunction(f) = sf[S]
  BY SumExists
<1>2. PICK sg : IsSumOf(sg, g, S) /\ SumFunction(g) = sg[S]
  BY SumExists
<1> DEFINE Right(T) == sg[T] = IF t \in T THEN sf[T] - f[t] + g[t] ELSE sf[T]
           B == {T \in SUBSET S : ~Right(T)}
<1>3. B = {}
  <2>1. SUFFICES ASSUME B # {} PROVE FALSE
    OBVIOUS
  <2>2. PICK T \in B : \A x \in T : T \ {x} \notin B
    <3>1. B \in SUBSET (SUBSET S)
      OBVIOUS
    <3> HIDE DEF B
    <3> QED BY <2>1, <3>1, SmallestSubset
  <2>3. T # {}
    BY <1>1, <1>2, <2>2 DEF IsSumOf
  <2> DEFINE x == PickOne(T)
  <2>4. x \in T
    BY <2>3 DEF PickOne
  <2>5. Right(T \ {x}) /\ T \in SUBSET S /\ ~Right(T)
    <3>1. T \ {x} \in SUBSET S
      BY <2>2
    <3> QED BY <2>2, <2>4, <3>1
  <2>6. sf[T] = f[x] + sf[T \ {x}] /\ sg[T] = g[x] + sg[T \ {x}]
    BY <1>1, <1>2, <2>3, <2>5 DEF IsSumOf
  <2>7. sf[T \ {x}] \in Int /\ sg[T \ {x}] \in Int /\ f[x] \in Int /\ g[x] \in Int /\ f[t] \in Int /\ g[t] \in Int
    BY <1>1, <1>2, <2>4, <2>5 DEF IsSumOf
  <2> HIDE DEF x
  <2>8. CASE x = t
    <3>1. sg[T \ {x}] = sf[T \ {x}]
      BY <2>5, <2>8
    <3> QED BY <2>4, <2>5, <2>6, <2>7, <2>8, <3>1
  <2>9. CASE x # t
    <3>1. g[x] = f[x]
      BY <2>4, <2>5, <2>9
    <3>2. CASE t \in T
      <4>1. sg[T \ {x}] = sf[T \ {x}] - f[t] + g[t]
        BY <2>5, <2>9, <3>2
      <4>2. sg[T] = sf[T] - f[t] + g[t]
        BY <2>6, <2>7, <3>1, <4>1
      <4> QED BY <2>5, <3>2, <4>2
    <3>3. CASE t \notin T
      BY <2>5, <2>6, <3>1, <3>3
    <3> QED BY <3>2, <3>3
  <2> QED BY <2>8, <2>9
<1>4. Right(S)
  BY <1>3
<1> QED BY <1>1, <1>2, <1>4 DEF IsSumOf

-----------------------------------------------------------------------------
(* Types.                                                                  *)

\* What is known of a request's body.
LEMMA OpTypes ==
    ASSUME TypeOK, NEW r \in Requests
    PROVE  /\ op[r] \in Ops
           /\ op[r].kind \in {"checkout", "batch", "status"}
           /\ op[r].kind = "checkout" => op[r].cost \in Nat
           /\ op[r].kind = "batch" =>
                /\ DOMAIN op[r].entries = 1..Len(op[r].entries)
                /\ Len(op[r].entries) \in 1..MaxEntries
                /\ \A i \in DOMAIN op[r].entries :
                      op[r].entries[i].type \in DOMAIN SIGN /\ op[r].entries[i].cents \in Nat
           /\ op[r].kind = "status" => op[r].row \in RowIds /\ op[r].to \in Statuses
<1>1. op[r] \in Ops
  BY DEF TypeOK
<1>2. op[r].kind \in {"checkout", "batch", "status"} /\ TypedOp(op[r])
  BY <1>1, AccountingAssumption
<1> QED BY <1>1, <1>2 DEF TypedOp

\* The sum a batch books on an account.
LEMMA BatchSums ==
    ASSUME TypeOK, NEW r \in Requests, op[r].kind = "batch", NEW a
    PROVE  /\ BatchDelta(op[r].entries, a) \in Int
           /\ (\A i \in DOMAIN op[r].entries : op[r].entries[i].acct # a)
                 => BatchDelta(op[r].entries, a) = 0
<1>1. MaxEntries \in Nat
  BY AccountingAssumption
<1>2. /\ Len(op[r].entries) \in Nat
      /\ DOMAIN op[r].entries = 1..Len(op[r].entries)
      /\ \A i \in DOMAIN op[r].entries :
            op[r].entries[i].type \in DOMAIN SIGN /\ op[r].entries[i].cents \in Nat
  BY <1>1, OpTypes
<1> QED BY <1>2, BatchDeltaValue

\* The i-th row of a request is not one of the seed's.
LEMMA RowIdOf ==
    ASSUME NEW r \in Requests, NEW i \in 1..MaxEntries
    PROVE  <<r, i>> \in RowIds /\ <<r, i>> \notin Seeded
BY AccountingAssumption DEF RowIds

\* The order of a checkout is the first row of its request.
LEMMA FirstRow ==
    ASSUME NEW r \in Requests
    PROVE  1 \in 1..MaxEntries /\ <<r, 1>> \in RowIds /\ <<r, 1>> \notin Seeded
<1>1. 1 \in 1..MaxEntries
  BY AccountingAssumption
<1> QED BY <1>1, RowIdOf

\* One written row, as part of a transaction's work.
LEMMA OneRowType ==
    ASSUME NEW t \in RowIds, NEW row \in Rows
    PROVE  OneRow(t, row) \in RowMaps
<1>1. OneRow(t, row) \in [{t} -> Rows] /\ {t} \in SUBSET RowIds
  BY DEF OneRow
<1> QED BY <1>1 DEF RowMaps

\* A row has the fields it is made with.
LEMMA RowFields ==
    ASSUME NEW acct \in Accounts, NEW type \in DOMAIN SIGN, NEW cents \in Nat, NEW status \in Statuses
    PROVE  /\ Row(acct, type, cents, status) \in Rows
           /\ Row(acct, type, cents, status).acct = acct
           /\ Row(acct, type, cents, status).status = status
BY DEF Row, Rows

\* The order a checkout inserts is a row.
LEMMA OrderRowType ==
    ASSUME TypeOK, NEW r \in Requests, op[r].kind = "checkout", op[r].acct \in Accounts
    PROVE  OrderRow(op[r]) \in Rows /\ OneRow(<<r, 1>>, OrderRow(op[r])) \in RowMaps
<1>1. op[r].cost \in Nat
  BY OpTypes
<1>2. "buy" \in DOMAIN SIGN /\ "posted" \in Statuses
  BY DEF SIGN, Statuses
<1>3. OrderRow(op[r]) \in Rows
  BY <1>1, <1>2, RowFields DEF OrderRow
<1> QED BY <1>3, FirstRow, OneRowType

\* The rows of a batch are its own, one for each entry.
LEMMA BatchRowsType ==
    ASSUME TypeOK, NEW r \in Requests, op[r].kind = "batch",
           \A i \in DOMAIN op[r].entries : op[r].entries[i].acct \in Accounts
    PROVE  /\ BatchRows(r, op[r].entries) \in RowMaps
           /\ DOMAIN BatchRows(r, op[r].entries) = {r} \X DOMAIN op[r].entries
           /\ DOMAIN BatchRows(r, op[r].entries) \subseteq RowIds
           /\ DOMAIN op[r].entries \subseteq 1..MaxEntries
<1> DEFINE entries == op[r].entries
           D == {r} \X DOMAIN entries
           R(t) == Row(entries[t[2]].acct, entries[t[2]].type, entries[t[2]].cents, "posted")
<1>0. MaxEntries \in Nat
  BY AccountingAssumption
<1>1. DOMAIN entries \subseteq 1..MaxEntries
  BY <1>0, OpTypes
<1>2. D \subseteq RowIds
  BY <1>1 DEF RowIds
<1>3. "posted" \in Statuses
  BY DEF Statuses
<1>4. ASSUME NEW t \in D PROVE R(t) \in Rows
  <2>1. t[2] \in DOMAIN entries
    OBVIOUS
  <2>2. /\ entries[t[2]].acct \in Accounts
        /\ entries[t[2]].type \in DOMAIN SIGN
        /\ entries[t[2]].cents \in Nat
    BY <2>1, OpTypes
  <2> QED BY <2>2, <1>3, RowFields
<1>5. BatchRows(r, entries) = [t \in D |-> R(t)]
  BY Zenon DEF BatchRows
<1> HIDE DEF D, R
<1>6. BatchRows(r, entries) \in [D -> Rows]
  BY <1>4, <1>5
<1>7. BatchRows(r, entries) \in RowMaps
  BY <1>6, <1>2 DEF RowMaps
<1> QED BY <1>1, <1>2, <1>5, <1>7 DEF D

\* What each way of writing does to the work of the transactions.
LEMMA AddDelta ==
    ASSUME TypeOK, NEW r \in Requests, NEW a \in Accounts, NEW d \in Int, AddToBalance(r, a, d)
    PROVE  /\ work' \in [Requests -> Works]
           /\ work'[r].delta
                = [b \in Accounts |-> IF b = a THEN work[r].delta[b] + d ELSE work[r].delta[b]]
           /\ work'[r].rows = work[r].rows /\ work'[r].jobs = work[r].jobs
           /\ \A q \in Requests : q # r => work'[q] = work[q]
<1> DEFINE D == [b \in Accounts |-> IF b = a THEN work[r].delta[b] + d ELSE work[r].delta[b]]
<1>1. work \in [Requests -> Works]
  BY DEF TypeOK
<1>2. work[r] \in Works
  BY <1>1
<1>3. /\ work[r] = [delta |-> work[r].delta, rows |-> work[r].rows, jobs |-> work[r].jobs]
      /\ work[r].delta \in [Accounts -> Int]
      /\ work[r].rows \in RowMaps
      /\ work[r].jobs \in SUBSET RowIds
  BY <1>2 DEF Works
<1>4. [work[r].delta EXCEPT ![a] = @ + d] = D /\ D \in [Accounts -> Int]
  BY <1>3
<1>5. work' = [work EXCEPT ![r] = [work[r] EXCEPT !.delta = [work[r].delta EXCEPT ![a] = @ + d]]]
  BY DEF AddToBalance
<1> HIDE DEF D
<1>6. work' = [work EXCEPT ![r] = [work[r] EXCEPT !.delta = D]]
  BY <1>4, <1>5
<1> DEFINE w == [delta |-> D, rows |-> work[r].rows, jobs |-> work[r].jobs]
<1>7. [work[r] EXCEPT !.delta = D] = w
  BY <1>3
<1>8. w \in Works
  BY <1>3, <1>4 DEF Works
<1>9. w.delta = D /\ w.rows = work[r].rows /\ w.jobs = work[r].jobs
  OBVIOUS
<1> HIDE DEF w
<1>10. work' = [work EXCEPT ![r] = w]
  BY <1>6, <1>7
<1>11. work' \in [Requests -> Works] /\ work'[r] = w /\ \A q \in Requests : q # r => work'[q] = work[q]
  BY <1>1, <1>8, <1>10
<1> QED BY <1>9, <1>11 DEF D

\* A statement that writes rows changes nothing else of the work in progress.
LEMMA SetRows ==
    ASSUME TypeOK, NEW r \in Requests, NEW R \in RowMaps, work' = [work EXCEPT ![r].rows = R]
    PROVE  /\ work' \in [Requests -> Works]
           /\ work'[r].delta = work[r].delta /\ work'[r].rows = R /\ work'[r].jobs = work[r].jobs
           /\ \A q \in Requests : q # r => work'[q] = work[q]
<1>1. work \in [Requests -> Works]
  BY DEF TypeOK
<1>2. work[r] \in Works
  BY <1>1
<1> DEFINE w == [delta |-> work[r].delta, rows |-> R, jobs |-> work[r].jobs]
<1>3. [work[r] EXCEPT !.rows = R] = w /\ w \in Works
  BY <1>2 DEF Works
<1>4. w.delta = work[r].delta /\ w.rows = R /\ w.jobs = work[r].jobs
  OBVIOUS
<1> HIDE DEF w
<1>5. work' = [work EXCEPT ![r] = w]
  BY <1>3
<1>6. work' \in [Requests -> Works] /\ work'[r] = w /\ \A q \in Requests : q # r => work'[q] = work[q]
  BY <1>1, <1>3, <1>5
<1> QED BY <1>4, <1>6

\* A statement that writes a job changes nothing else of the work in progress.
LEMMA SetJobs ==
    ASSUME TypeOK, NEW r \in Requests, NEW J \in SUBSET RowIds, work' = [work EXCEPT ![r].jobs = J]
    PROVE  /\ work' \in [Requests -> Works]
           /\ work'[r].delta = work[r].delta /\ work'[r].rows = work[r].rows /\ work'[r].jobs = J
           /\ \A q \in Requests : q # r => work'[q] = work[q]
<1>1. work \in [Requests -> Works]
  BY DEF TypeOK
<1>2. work[r] \in Works
  BY <1>1
<1> DEFINE w == [delta |-> work[r].delta, rows |-> work[r].rows, jobs |-> J]
<1>3. [work[r] EXCEPT !.jobs = J] = w /\ w \in Works
  BY <1>2 DEF Works
<1>4. w.delta = work[r].delta /\ w.rows = work[r].rows /\ w.jobs = J
  OBVIOUS
<1> HIDE DEF w
<1>5. work' = [work EXCEPT ![r] = w]
  BY <1>3
<1>6. work' \in [Requests -> Works] /\ work'[r] = w /\ \A q \in Requests : q # r => work'[q] = work[q]
  BY <1>1, <1>3, <1>5
<1> QED BY <1>4, <1>6

\* A transaction that has not begun, or was rolled back, has written nothing.
LEMMA NoWorkFields ==
    /\ NoWork \in Works
    /\ NoWork.delta = Zero
    /\ NoWork.jobs = {}
    /\ DOMAIN NoWork.rows = {}
<1> DEFINE none == [t \in {} |-> NoRow]
<1>1. none \in [{} -> Rows] /\ {} \in SUBSET RowIds /\ DOMAIN none = {}
  OBVIOUS
<1>2. none \in RowMaps
  BY <1>1 DEF RowMaps
<1>3. Zero \in [Accounts -> Int]
  BY DEF Zero
<1>4. NoWork = [delta |-> Zero, rows |-> none, jobs |-> {}]
  BY DEF NoWork, Zero
<1> HIDE DEF none
<1> QED BY <1>1, <1>2, <1>3, <1>4 DEF Works

\* What a transaction has written goes as a whole, and only its own.
LEMMA ClearWork ==
    ASSUME TypeOK, NEW r \in Requests, work' = [work EXCEPT ![r] = NoWork]
    PROVE  /\ work' \in [Requests -> Works]
           /\ work'[r] = NoWork
           /\ \A q \in Requests : q # r => work'[q] = work[q]
BY NoWorkFields DEF TypeOK

\* A new status changes neither the account nor the amount of a row.
LEMMA RowUpdated ==
    ASSUME NEW row \in Rows, NEW to \in Statuses
    PROVE  LET new == [row EXCEPT !.status = to] IN
           /\ new \in Rows
           /\ new.acct = row.acct /\ new.acct \in Accounts
           /\ new.status = to
           /\ Booked(new) = Booked(row) /\ Booked(row) \in Int
<1>1. [row EXCEPT !.status = to]
        = [acct |-> row.acct, type |-> row.type, cents |-> row.cents, status |-> to]
  BY DEF Rows
<1>2. /\ row.acct \in Accounts /\ row.type \in DOMAIN SIGN /\ row.cents \in Nat
  BY DEF Rows
<1>3. SIGN[row.type] \in Int
  BY <1>2 DEF SIGN
<1>4. Booked(row) \in Int
  BY <1>2, <1>3 DEF Booked
<1> QED BY <1>1, <1>2, <1>4 DEF Rows, Booked

\* COMMIT and ROLLBACK give up the locks of the request and of no other.
LEMMA Released ==
    ASSUME TypeOK, NEW r \in Requests, ReleaseLocks(r)
    PROVE  /\ accountLock' \in [Accounts -> Requests \cup {NoOne}]
           /\ rowLock' \in [RowIds -> Requests \cup {NoOne}]
           /\ \A a \in Accounts : accountLock'[a] # r
           /\ \A t \in RowIds : rowLock'[t] # r
           /\ \A q \in Requests : q # r =>
                /\ \A a \in Accounts : accountLock'[a] = q <=> accountLock[a] = q
                /\ \A t \in RowIds : rowLock'[t] = q <=> rowLock[t] = q
<1>1. NoOne \notin Requests
  BY LedgerAssumption
<1>2. accountLock \in [Accounts -> Requests \cup {NoOne}] /\ rowLock \in [RowIds -> Requests \cup {NoOne}]
  BY DEF TypeOK
<1> QED BY <1>1, <1>2 DEF ReleaseLocks

\* An UPDATE takes one account's lock, which nobody else has.
LEMMA Added ==
    ASSUME TypeOK, NEW r \in Requests, NEW a \in Accounts, NEW d \in Int, AddToBalance(r, a, d)
    PROVE  /\ accountLock' \in [Accounts -> Requests \cup {NoOne}]
           /\ \A b \in Accounts : accountLock'[b] = r <=> b = a \/ accountLock[b] = r
           /\ \A q \in Requests : q # r =>
                \A b \in Accounts : accountLock'[b] = q <=> accountLock[b] = q
           /\ rowLock' = rowLock
           /\ work' \in [Requests -> Works]
           /\ work'[r].delta
                = [b \in Accounts |-> IF b = a THEN work[r].delta[b] + d ELSE work[r].delta[b]]
           /\ work'[r].rows = work[r].rows /\ work'[r].jobs = work[r].jobs
           /\ \A q \in Requests : q # r => work'[q] = work[q]
<1>1. NoOne \notin Requests
  BY LedgerAssumption
<1>2. accountLock \in [Accounts -> Requests \cup {NoOne}]
  BY DEF TypeOK
<1>3. /\ accountLock[a] \in {NoOne, r} /\ accountLock' = [accountLock EXCEPT ![a] = r]
      /\ rowLock' = rowLock
  BY DEF AddToBalance
<1>4. /\ accountLock' \in [Accounts -> Requests \cup {NoOne}]
      /\ \A b \in Accounts : accountLock'[b] = r <=> b = a \/ accountLock[b] = r
      /\ \A q \in Requests : q # r =>
           \A b \in Accounts : accountLock'[b] = q <=> accountLock[b] = q
  BY <1>1, <1>2, <1>3
<1> QED BY <1>3, <1>4, AddDelta

\* COMMIT publishes what was written.
LEMMA Committed ==
    ASSUME TypeOK, NEW r \in Requests, CommitWork(r)
    PROVE  /\ balance' \in [Accounts -> Int]
           /\ \A a \in Accounts : balance'[a] = balance[a] + work[r].delta[a]
           /\ tx' \in [RowIds -> Rows \cup {NoRow}]
           /\ \A t \in RowIds : t \in DOMAIN work[r].rows =>
                tx'[t] = work[r].rows[t] /\ tx'[t] # NoRow /\ tx'[t].status \in history'[t]
           /\ \A t \in RowIds : t \notin DOMAIN work[r].rows => tx'[t] = tx[t]
           /\ jobs' = jobs \cup work[r].jobs /\ jobs' \in SUBSET RowIds
           /\ history' \in [RowIds -> SUBSET Statuses]
           /\ \A t \in RowIds : history[t] \subseteq history'[t]
           /\ ReleaseLocks(r)
           /\ work' = [work EXCEPT ![r] = NoWork]
<1> DEFINE written == work[r].rows
<1>1. /\ work[r].delta \in [Accounts -> Int]
      /\ written \in RowMaps
      /\ work[r].jobs \in SUBSET RowIds
  BY DEF TypeOK, Works
<1>2. \A t \in DOMAIN written : written[t] \in Rows
  BY <1>1 DEF RowMaps
<1>3. \A t \in DOMAIN written : written[t] # NoRow /\ written[t].status \in Statuses
  BY <1>2, AccountingAssumption DEF Rows
<1>4. /\ balance' = [a \in Accounts |-> balance[a] + work[r].delta[a]]
      /\ tx' = [t \in RowIds |-> IF t \in DOMAIN written THEN written[t] ELSE tx[t]]
      /\ jobs' = jobs \cup work[r].jobs
      /\ history' = [t \in RowIds |-> IF t \in DOMAIN written
                                      THEN history[t] \cup {written[t].status} ELSE history[t]]
      /\ ReleaseLocks(r)
      /\ work' = [work EXCEPT ![r] = NoWork]
  BY DEF CommitWork
<1>5. /\ balance \in [Accounts -> Int] /\ tx \in [RowIds -> Rows \cup {NoRow}]
      /\ jobs \in SUBSET RowIds /\ history \in [RowIds -> SUBSET Statuses]
  BY DEF TypeOK
<1> HIDE DEF written
<1>6. balance' \in [Accounts -> Int] /\ \A a \in Accounts : balance'[a] = balance[a] + work[r].delta[a]
  BY <1>1, <1>4, <1>5
<1>7. /\ tx' \in [RowIds -> Rows \cup {NoRow}]
      /\ \A t \in RowIds : t \notin DOMAIN written => tx'[t] = tx[t]
      /\ \A t \in RowIds : t \in DOMAIN written => tx'[t] = written[t] /\ tx'[t] # NoRow
  BY <1>2, <1>3, <1>4, <1>5
<1>8. /\ history' \in [RowIds -> SUBSET Statuses]
      /\ \A t \in RowIds : history[t] \subseteq history'[t]
      /\ \A t \in RowIds : t \in DOMAIN written => written[t].status \in history'[t]
  BY <1>3, <1>4, <1>5
<1> QED BY <1>1, <1>4, <1>5, <1>6, <1>7, <1>8 DEF written

\* Every way out of a transaction that is not COMMIT.
RolledBack(r) == \E why \in Answers : Rollback(r, why)

\* A rollback ends its request and touches no other.
LEMMA RollbackTypes ==
    ASSUME TypeOK, NEW r \in Requests, RolledBack(r)
    PROVE  /\ TypeOK'
           /\ pc'[r] = "ended" /\ work'[r] = NoWork
           /\ \A q \in Requests : q # r => pc'[q] = pc[q] /\ work'[q] = work[q] /\ todo'[q] = todo[q] /\ answer'[q] = answer[q]
<1>1. PICK why \in Answers : Rollback(r, why)
  BY DEF RolledBack
<1>2. ReleaseLocks(r) /\ work' = [work EXCEPT ![r] = NoWork]
  BY <1>1 DEF Rollback
<1>3. "ended" \in Statements
  BY DEF Statements
<1>4. /\ todo' = [todo EXCEPT ![r] = {}]
      /\ answer' = [answer EXCEPT ![r] = why]
      /\ pc' = [pc EXCEPT ![r] = "ended"]
  BY <1>1 DEF Rollback, Goto
<1>5. todo' \in [Requests -> SUBSET Nat] /\ answer' \in [Requests -> Answers] /\ pc' \in [Requests -> Statements]
  BY <1>3, <1>4 DEF TypeOK
<1>6. /\ pc'[r] = "ended"
      /\ \A q \in Requests : q # r => pc'[q] = pc[q] /\ todo'[q] = todo[q] /\ answer'[q] = answer[q]
  BY <1>4 DEF TypeOK
<1>7. UNCHANGED <<balance, tx, jobs, placed, statusEvents, history, op>>
  BY <1>1 DEF Rollback, tables, events
<1>8. TypeOK'
  BY <1>2, <1>5, <1>7, Released, ClearWork DEF TypeOK
<1> QED BY <1>2, <1>6, <1>8, ClearWork

\* The steps that end a transaction without COMMIT.
LEMMA RollbackSteps ==
    ASSUME NEW r,
           DebitNothing(r) \/ NoFxRate(r) \/ RejectBatch(r) \/ LeaveOrder(r) \/ AbortDeadlock(r) \/ Crash(r)
    PROVE  RolledBack(r)
BY DEF DebitNothing, NoFxRate, RejectBatch, LeaveOrder, AbortDeadlock, Crash, RolledBack, Answers

\* debitAccount adds -cost to the balance of the account it has locked.
LEMMA DebitDelta ==
    ASSUME TypeOK, NEW r \in Requests, Debit(r)
    PROVE  /\ op[r].kind = "checkout" /\ op[r].acct \in Accounts /\ -op[r].cost \in Int
           /\ AddToBalance(r, op[r].acct, -op[r].cost)
<1>1. op[r].kind = "checkout" /\ op[r].acct \in Accounts /\ AddToBalance(r, op[r].acct, -op[r].cost)
  BY DEF Debit, At
<1>2. op[r].cost \in Nat
  BY <1>1, OpTypes
<1> QED BY <1>1, <1>2

\* The next UPDATE of a batch is of the least key that is left, by the batch's whole delta.
LEMMA UpdateDelta ==
    ASSUME TypeOK, NEW r \in Requests, BatchInv(r), UpdateNext(r)
    PROVE  \E i \in todo[r] :
             LET a == op[r].entries[i].acct
                 d == BatchDelta(op[r].entries, a)
             IN  /\ IsNext(r, i)
                 /\ i \in DeltaKeys(op[r].entries)
                 /\ a \in Accounts
                 /\ d \in Int
                 /\ AddToBalance(r, a, d)
                 /\ todo' = [todo EXCEPT ![r] = @ \ {i}]
<1>1. At(r, "batch", "update")
  BY DEF UpdateNext
<1>2. PICK i \in todo[r] : IsNext(r, i) /\ UpdateKey(r, i)
  BY DEF UpdateNext
<1> DEFINE a == op[r].entries[i].acct
           d == BatchDelta(op[r].entries, a)
<1>3. AddToBalance(r, a, d) /\ todo' = [todo EXCEPT ![r] = @ \ {i}]
  BY <1>2 DEF UpdateKey
<1>4. i \in DeltaKeys(op[r].entries) /\ \A k \in DOMAIN op[r].entries : op[r].entries[k].acct \in Accounts
  BY <1>1, <1>2 DEF BatchInv, At
<1>5. a \in Accounts
  BY <1>4 DEF DeltaKeys
<1>6. d \in Int
  BY <1>1, BatchSums DEF At
<1> QED BY <1>2, <1>3, <1>4, <1>5, <1>6

\* changeStatus corrects the balance of the order's account by StatusDelta.
LEMMA CorrectDelta ==
    ASSUME TypeOK, NEW r \in Requests, StatusInv(r), CorrectBalance(r)
    PROVE  LET row == tx[op[r].row]
               d == StatusDelta(row, op[r].to)
           IN  /\ op[r].kind = "status" /\ pc[r] = "update"
               /\ row \in Rows /\ row # NoRow /\ op[r].row \in RowIds
               /\ row.acct \in Accounts
               /\ d \in Int
               /\ AddToBalance(r, row.acct, d)
<1> DEFINE row == tx[op[r].row]
           d == StatusDelta(row, op[r].to)
           written == work[r].rows[op[r].row]
<1>1. op[r].kind = "status" /\ pc[r] = "update"
  BY DEF CorrectBalance, At
<1>2. op[r].row \in RowIds /\ op[r].to \in Statuses
  BY <1>1, OpTypes
<1>3. row \in Rows /\ row # NoRow /\ CrossesPosted(row, op[r].to)
  BY <1>1, <1>2 DEF StatusInv, TypeOK
<1>4. written = [row EXCEPT !.status = op[r].to]
  BY <1>1 DEF StatusInv, OneRow
<1>5. written.acct = row.acct /\ row.acct \in Accounts /\ Booked(written) = Booked(row) /\ Booked(row) \in Int
  BY <1>2, <1>3, <1>4, RowUpdated
<1>6. d = (IF op[r].to = "posted" THEN Booked(written) ELSE -Booked(written)) /\ d \in Int
  BY <1>3, <1>5 DEF StatusDelta, CrossesPosted
<1>7. AddToBalance(r, written.acct, IF op[r].to = "posted" THEN Booked(written) ELSE -Booked(written))
  BY DEF CorrectBalance
<1> HIDE DEF d, written, row
<1>8. AddToBalance(r, row.acct, d)
  BY <1>5, <1>6, <1>7
<1> QED BY <1>1, <1>2, <1>3, <1>5, <1>6, <1>8 DEF d, row

\* SELECT ... FOR UPDATE of changeStatus: the row that is read is the row that is locked.
LEMMA LockedRow ==
    ASSUME TypeOK, NEW r \in Requests, LockOrder(r)
    PROVE  LET row == tx[op[r].row]
               new == [row EXCEPT !.status = op[r].to]
           IN  /\ op[r].kind = "status" /\ op[r].row \in RowIds /\ op[r].to \in Statuses
               /\ row \in Rows /\ row # NoRow
               /\ OneRow(op[r].row, new) \in RowMaps
               /\ work' = [work EXCEPT ![r].rows = OneRow(op[r].row, new)]
               /\ rowLock' = [rowLock EXCEPT ![op[r].row] = r]
               /\ rowLock[op[r].row] = NoOne
<1>1. op[r].kind = "status" /\ tx[op[r].row] # NoRow
  BY DEF LockOrder, At
<1>2. op[r].row \in RowIds /\ op[r].to \in Statuses
  BY <1>1, OpTypes
<1>3. tx[op[r].row] \in Rows
  BY <1>1, <1>2 DEF TypeOK
<1>4. [tx[op[r].row] EXCEPT !.status = op[r].to] \in Rows
  BY <1>2, <1>3, RowUpdated
<1>5. OneRow(op[r].row, [tx[op[r].row] EXCEPT !.status = op[r].to]) \in RowMaps
  BY <1>2, <1>4, OneRowType
<1> QED BY <1>1, <1>2, <1>3, <1>5 DEF LockOrder, OneRow


\* Every step keeps the types.
LEMMA TypeStep ==
    ASSUME TypeOK, \A q \in Requests : RequestInv(q), [Next]_vars
    PROVE  TypeOK'
<1>0. {"fx", "insert", "job", "commit", "publish", "ended", "save", "update"} \subseteq Statements
  BY DEF Statements
<1>00. {"ok", "publish_failed"} \subseteq Answers
  BY DEF Answers
<1>1. ASSUME NEW r \in Requests, Debit(r) PROVE TypeOK'
  <2>1. /\ pc' = [pc EXCEPT ![r] = "fx"]
        /\ UNCHANGED <<balance, tx, jobs, placed, statusEvents, history, op, todo, answer>>
    BY <1>1 DEF Debit, Goto, tables, events
  <2> DEFINE d == -op[r].cost
  <2>2. op[r].acct \in Accounts /\ d \in Int /\ AddToBalance(r, op[r].acct, d)
    BY <1>1, DebitDelta
  <2> HIDE DEF d
  <2> QED BY <2>1, <2>2, <1>0, Added DEF TypeOK
<1>2. ASSUME NEW r \in Requests, DebitNothing(r) PROVE TypeOK'
  BY <1>2, RollbackSteps, RollbackTypes
<1>3. ASSUME NEW r \in Requests, ResolveFxRate(r) PROVE TypeOK'
  BY <1>3, <1>0 DEF ResolveFxRate, Goto, tables, events, TypeOK
<1>4. ASSUME NEW r \in Requests, NoFxRate(r) PROVE TypeOK'
  BY <1>4, RollbackSteps, RollbackTypes
<1>5. ASSUME NEW r \in Requests, InsertOrder(r) PROVE TypeOK'
  <2>1. op[r].kind = "checkout" /\ op[r].acct \in Accounts
    BY <1>5 DEF InsertOrder, At, RequestInv, CheckoutInv, Paid
  <2>2. work' = [work EXCEPT ![r].rows = OneRow(<<r, 1>>, OrderRow(op[r]))]
    BY <1>5 DEF InsertOrder, OneRow
  <2>3. /\ pc' = [pc EXCEPT ![r] = "job"]
        /\ UNCHANGED <<balance, tx, jobs, placed, statusEvents, history, op, accountLock, rowLock, todo, answer>>
    BY <1>5 DEF InsertOrder, Goto, tables, events
  <2>4. work' \in [Requests -> Works]
    BY <2>1, <2>2, OrderRowType, SetRows
  <2> QED BY <2>3, <2>4, <1>0 DEF TypeOK
<1>6. ASSUME NEW r \in Requests, InsertJob(r) PROVE TypeOK'
  <2>1. work' = [work EXCEPT ![r].jobs = {<<r, 1>>}]
    BY <1>6 DEF InsertJob
  <2>2. work' \in [Requests -> Works]
    <3>1. {<<r, 1>>} \in SUBSET RowIds
      BY FirstRow
    <3> QED BY <2>1, <3>1, SetJobs
  <2> QED BY <1>6, <2>2, <1>0 DEF InsertJob, Goto, tables, events, TypeOK
<1>7. ASSUME NEW r \in Requests, CommitCheckout(r) PROVE TypeOK'
  <2>1. CommitWork(r) /\ pc' = [pc EXCEPT ![r] = "publish"] /\ UNCHANGED <<placed, statusEvents, op, todo, answer>>
    BY <1>7 DEF CommitCheckout, Goto, events
  <2> QED BY <2>1, <1>0, Committed, Released, ClearWork DEF TypeOK
<1>8. ASSUME NEW r \in Requests, PublishPlaced(r) PROVE TypeOK'
  <2>1. /\ pc' = [pc EXCEPT ![r] = "ended"]
        /\ UNCHANGED <<balance, tx, jobs, statusEvents, history, op, accountLock, rowLock, work, todo>>
    BY <1>8 DEF PublishPlaced, Goto, tables
  <2>2. placed' \in SUBSET RowIds /\ answer' \in [Requests -> Answers]
    BY <1>8, <1>00, FirstRow DEF PublishPlaced, TypeOK
  <2> QED BY <2>1, <2>2, <1>0 DEF TypeOK
<1>9. ASSUME NEW r \in Requests, Validate(r) PROVE TypeOK'
  <2>1. DeltaKeys(op[r].entries) \subseteq Nat
    BY <1>9, OpTypes DEF Validate, At, DeltaKeys
  <2> QED BY <1>9, <2>1, <1>0 DEF Validate, Goto, tables, events, TypeOK
<1>10. ASSUME NEW r \in Requests, RejectBatch(r) PROVE TypeOK'
  BY <1>10, RollbackSteps, RollbackTypes
<1>11. ASSUME NEW r \in Requests, SaveMany(r) PROVE TypeOK'
  <2>1. op[r].kind = "batch" /\ \A i \in DOMAIN op[r].entries : op[r].entries[i].acct \in Accounts
    BY <1>11 DEF SaveMany, At, RequestInv, BatchInv
  <2>2. work' = [work EXCEPT ![r].rows = BatchRows(r, op[r].entries)]
    BY <1>11 DEF SaveMany
  <2>3. /\ pc' = [pc EXCEPT ![r] = "update"]
        /\ UNCHANGED <<balance, tx, jobs, placed, statusEvents, history, op, accountLock, rowLock, todo, answer>>
    BY <1>11 DEF SaveMany, Goto, tables, events
  <2>4. work' \in [Requests -> Works]
    BY <2>1, <2>2, BatchRowsType, SetRows
  <2> QED BY <2>3, <2>4, <1>0 DEF TypeOK
<1>12. ASSUME NEW r \in Requests, UpdateNext(r) PROVE TypeOK'
  <2>0. BatchInv(r)
    BY DEF RequestInv
  <2> DEFINE A(i) == op[r].entries[i].acct
             D(i) == BatchDelta(op[r].entries, A(i))
  <2>1. PICK i \in todo[r] :
          /\ A(i) \in Accounts /\ D(i) \in Int /\ AddToBalance(r, A(i), D(i))
          /\ todo' = [todo EXCEPT ![r] = @ \ {i}]
    BY <1>12, <2>0, UpdateDelta
  <2> HIDE DEF A, D
  <2>2. UNCHANGED <<balance, tx, jobs, placed, statusEvents, history, op, pc, answer>>
    BY <1>12 DEF UpdateNext, tables, events
  <2>3. work' \in [Requests -> Works]
    BY <2>1, Added
  <2>4. accountLock' \in [Accounts -> Requests \cup {NoOne}] /\ rowLock' = rowLock
    BY <2>1, Added
  <2>5. todo' \in [Requests -> SUBSET Nat]
    BY <2>1 DEF TypeOK
  <2> QED BY <2>2, <2>3, <2>4, <2>5 DEF TypeOK
<1>13. ASSUME NEW r \in Requests, CommitBatch(r) PROVE TypeOK'
  <2>1. /\ CommitWork(r) /\ pc' = [pc EXCEPT ![r] = "ended"] /\ answer' = [answer EXCEPT ![r] = "ok"]
        /\ UNCHANGED <<placed, statusEvents, op, todo>>
    BY <1>13 DEF CommitBatch, Goto, events
  <2> QED BY <2>1, <1>0, <1>00, Committed, Released, ClearWork DEF TypeOK
<1>14. ASSUME NEW r \in Requests, LockOrder(r) PROVE TypeOK'
  <2>1. /\ pc' \in [Requests -> Statements]
        /\ UNCHANGED <<balance, tx, jobs, placed, statusEvents, history, op, accountLock, todo, answer>>
    BY <1>14, <1>0 DEF LockOrder, Goto, tables, events, TypeOK
  <2>2. work' \in [Requests -> Works]
    <3> DEFINE R == OneRow(op[r].row, [tx[op[r].row] EXCEPT !.status = op[r].to])
    <3>1. R \in RowMaps /\ work' = [work EXCEPT ![r].rows = R]
      BY <1>14, LockedRow
    <3> HIDE DEF R
    <3> QED
      BY <3>1, SetRows
  <2>3. rowLock' \in [RowIds -> Requests \cup {NoOne}]
    <3>1. rowLock' = [rowLock EXCEPT ![op[r].row] = r]
      BY <1>14 DEF LockOrder
    <3> QED BY <3>1 DEF TypeOK
  <2> QED BY <2>1, <2>2, <2>3 DEF TypeOK
<1>15. ASSUME NEW r \in Requests, LeaveOrder(r) PROVE TypeOK'
  BY <1>15, RollbackSteps, RollbackTypes
<1>16. ASSUME NEW r \in Requests, CorrectBalance(r) PROVE TypeOK'
  <2>0. StatusInv(r)
    BY DEF RequestInv
  <2>1. /\ pc' = [pc EXCEPT ![r] = "commit"]
        /\ UNCHANGED <<balance, tx, jobs, placed, statusEvents, history, op, todo, answer>>
    BY <1>16 DEF CorrectBalance, Goto, tables, events
  <2> DEFINE a == tx[op[r].row].acct
             d == StatusDelta(tx[op[r].row], op[r].to)
  <2>2. a \in Accounts /\ d \in Int /\ AddToBalance(r, a, d)
    BY <1>16, <2>0, CorrectDelta
  <2> HIDE DEF a, d
  <2> QED BY <2>1, <2>2, <1>0, Added DEF TypeOK
<1>17. ASSUME NEW r \in Requests, CommitStatus(r) PROVE TypeOK'
  <2>1. CommitWork(r) /\ pc' = [pc EXCEPT ![r] = "publish"] /\ UNCHANGED <<placed, statusEvents, op, todo, answer>>
    BY <1>17 DEF CommitStatus, Goto, events
  <2> QED BY <2>1, <1>0, Committed, Released, ClearWork DEF TypeOK
<1>18. ASSUME NEW r \in Requests, PublishStatus(r) PROVE TypeOK'
  <2>1. op[r].kind = "status" /\ statusEvents' = statusEvents \cup {<<op[r].row, op[r].to>>}
    BY <1>18 DEF PublishStatus, At
  <2>2. <<op[r].row, op[r].to>> \in RowIds \X Statuses
    BY <2>1, OpTypes
  <2>3. /\ pc' = [pc EXCEPT ![r] = "ended"] /\ answer' = [answer EXCEPT ![r] = "ok"]
        /\ UNCHANGED <<balance, tx, jobs, placed, history, op, accountLock, rowLock, work, todo>>
    BY <1>18 DEF PublishStatus, Goto, tables
  <2> QED BY <2>1, <2>2, <2>3, <1>0, <1>00 DEF TypeOK
<1>19. ASSUME NEW r \in Requests, AbortDeadlock(r) PROVE TypeOK'
  BY <1>19, RollbackSteps, RollbackTypes
<1>20. ASSUME NEW r \in Requests, Crash(r) PROVE TypeOK'
  BY <1>20, RollbackSteps, RollbackTypes
<1>21. CASE UNCHANGED vars
  BY <1>21 DEF vars, TypeOK
<1> QED
  BY <1>1, <1>2, <1>3, <1>4, <1>5, <1>6, <1>7, <1>8, <1>9, <1>10, <1>11, <1>12, <1>13, <1>14,
     <1>15, <1>16, <1>17, <1>18, <1>19, <1>20, <1>21 DEF Next, Step, AllEnded

-----------------------------------------------------------------------------
(* A step of one request and the other requests.                           *)

\* What a request may rely on while the others move: its own state and locks,
\* the balance of an account and the order it has locked, and that no other
\* request writes its rows.
LeftAlone(q) ==
    /\ op'[q] = op[q] /\ pc'[q] = pc[q] /\ work'[q] = work[q] /\ todo'[q] = todo[q]
    /\ answer'[q] = answer[q]
    /\ \A a \in Accounts : accountLock'[a] = q <=> accountLock[a] = q
    /\ \A t \in RowIds : rowLock'[t] = q <=> rowLock[t] = q
    /\ \A a \in Accounts : accountLock[a] = q => balance'[a] = balance[a]
    /\ \A t \in RowIds : rowLock[t] = q /\ tx[t] # NoRow => tx'[t] = tx[t]
    /\ \A i \in 1..MaxEntries : tx[<<q, i>>] = NoRow => tx'[<<q, i>>] = NoRow

\* Nothing that was committed is taken back.
Grows ==
    /\ \A t \in RowIds : tx[t] # NoRow => tx'[t] # NoRow
    /\ jobs \subseteq jobs'
    /\ \A t \in RowIds : history[t] \subseteq history'[t]

\* What is booked is booked under the account's lock.
LEMMA BookedUnderLock ==
    ASSUME TypeOK, NEW r \in Requests, RequestInv(r), NEW a \in Accounts, work[r].delta[a] # 0
    PROVE  accountLock[a] = r
<1>1. op[r].kind \in {"checkout", "batch", "status"}
  BY OpTypes
<1>2. CASE op[r].kind = "checkout"
  BY <1>2 DEF RequestInv, CheckoutInv, Zero
<1>3. CASE op[r].kind = "batch"
  BY <1>3 DEF RequestInv, BatchInv, Zero
<1>4. CASE op[r].kind = "status"
  <2> DEFINE row == tx[op[r].row]
  <2>1. pc[r] = "commit" /\ a = row.acct /\ StatusDelta(row, op[r].to) # 0
    BY <1>4 DEF RequestInv, StatusInv, Zero
  <2>2. CrossesPosted(row, op[r].to)
    BY <2>1 DEF StatusDelta, CrossesPosted
  <2> QED BY <1>4, <2>1, <2>2 DEF RequestInv, StatusInv
<1> QED BY <1>1, <1>2, <1>3, <1>4

\* A request writes rows of its own that are not there yet, or the order it has
\* locked.
LEMMA WrittenRows ==
    ASSUME TypeOK, NEW r \in Requests, RequestInv(r), NEW t \in DOMAIN work[r].rows
    PROVE  \/ tx[t] = NoRow /\ \E i \in 1..MaxEntries : t = <<r, i>>
           \/ t \in RowIds /\ tx[t] # NoRow /\ rowLock[t] = r
<1>1. op[r].kind \in {"checkout", "batch", "status"}
  BY OpTypes
<1>2. CASE op[r].kind = "checkout"
  <2>1. pc[r] \in {"job", "commit"} /\ work[r].rows = OneRow(<<r, 1>>, OrderRow(op[r]))
    BY <1>2, NoWorkFields DEF RequestInv, CheckoutInv
  <2>2. t = <<r, 1>>
    BY <2>1 DEF OneRow
  <2>3. 1 \in 1..MaxEntries
    BY FirstRow
  <2> QED BY <1>2, <2>1, <2>2, <2>3 DEF RequestInv, FreshInv
<1>3. CASE op[r].kind = "batch"
  <2>1. /\ pc[r] = "update" /\ work[r].rows = BatchRows(r, op[r].entries)
        /\ \A i \in DOMAIN op[r].entries : op[r].entries[i].acct \in Accounts
    BY <1>3, NoWorkFields DEF RequestInv, BatchInv
  <2>2. t \in {r} \X DOMAIN op[r].entries /\ DOMAIN op[r].entries \subseteq 1..MaxEntries
    BY <1>3, <2>1, BatchRowsType
  <2>3. PICK i \in 1..MaxEntries : t = <<r, i>>
    BY <2>2
  <2> QED BY <1>3, <2>1, <2>3 DEF RequestInv, FreshInv
<1>4. CASE op[r].kind = "status"
  <2>1. pc[r] \in {"update", "commit"}
    BY <1>4, NoWorkFields DEF RequestInv, StatusInv
  <2>2. t = op[r].row
    BY <1>4, <2>1 DEF RequestInv, StatusInv, OneRow
  <2> QED BY <1>4, <2>1, <2>2, OpTypes DEF RequestInv, StatusInv
<1> QED BY <1>1, <1>2, <1>3, <1>4

\* COMMIT of one request, seen by another.
LEMMA CommitLeavesAlone ==
    ASSUME TypeOK, NEW r \in Requests, NEW q \in Requests, q # r, RequestInv(r), CommitWork(r)
    PROVE  /\ \A a \in Accounts : accountLock'[a] = q <=> accountLock[a] = q
           /\ \A t \in RowIds : rowLock'[t] = q <=> rowLock[t] = q
           /\ \A a \in Accounts : accountLock[a] = q => balance'[a] = balance[a]
           /\ \A t \in RowIds : rowLock[t] = q /\ tx[t] # NoRow => tx'[t] = tx[t]
           /\ \A i \in 1..MaxEntries : tx[<<q, i>>] = NoRow => tx'[<<q, i>>] = NoRow
           /\ work'[q] = work[q]
<1>0. ReleaseLocks(r) /\ work' = [work EXCEPT ![r] = NoWork]
  BY Committed
<1>1. /\ \A a \in Accounts : accountLock'[a] = q <=> accountLock[a] = q
      /\ \A t \in RowIds : rowLock'[t] = q <=> rowLock[t] = q
  BY <1>0, Released
<1>2. ASSUME NEW a \in Accounts, accountLock[a] = q PROVE balance'[a] = balance[a]
  <2>1. balance'[a] = balance[a] + work[r].delta[a] /\ balance[a] \in Int
    BY Committed DEF TypeOK
  <2>2. work[r].delta[a] = 0
    BY <1>2, BookedUnderLock
  <2> QED BY <2>1, <2>2
<1>3. ASSUME NEW t \in RowIds, rowLock[t] = q, tx[t] # NoRow PROVE tx'[t] = tx[t]
  <2>1. t \notin DOMAIN work[r].rows
    BY <1>3, WrittenRows
  <2> QED BY <2>1, Committed
<1>4. ASSUME NEW i \in 1..MaxEntries, tx[<<q, i>>] = NoRow PROVE tx'[<<q, i>>] = NoRow
  <2>1. <<q, i>> \in RowIds
    BY RowIdOf
  <2>2. <<q, i>> \notin DOMAIN work[r].rows
    BY <1>4, WrittenRows
  <2> QED BY <1>4, <2>1, <2>2, Committed
<1>5. work'[q] = work[q]
  BY <1>0, ClearWork
<1> QED BY <1>1, <1>2, <1>3, <1>4, <1>5

\* COMMIT adds rows, jobs and statuses, and removes none.
LEMMA CommitGrows ==
    ASSUME TypeOK, NEW r \in Requests, CommitWork(r)
    PROVE  Grows
BY Committed DEF Grows

\* The step of one request leaves every other request alone.
LEMMA Undisturbed ==
    ASSUME TypeOK, NEW r \in Requests, RequestInv(r), Step(r) \/ Crash(r), NEW q \in Requests, q # r
    PROVE  LeftAlone(q)
<1>a. /\ pc \in [Requests -> Statements] /\ answer \in [Requests -> Answers]
      /\ work \in [Requests -> Works] /\ todo \in [Requests -> SUBSET Nat]
  BY DEF TypeOK
<1>1. CASE RolledBack(r)
  <2>1. PICK why \in Answers : Rollback(r, why)
    BY <1>1 DEF RolledBack
  <2>2. ReleaseLocks(r) /\ UNCHANGED <<balance, tx, op>>
    BY <2>1 DEF Rollback, tables
  <2> QED BY <1>1, <2>2, RollbackTypes, Released DEF LeftAlone
<1>2. CASE CommitCheckout(r) \/ CommitBatch(r) \/ CommitStatus(r)
  <2>1. CommitWork(r) /\ op' = op /\ todo' = todo
    BY <1>2 DEF CommitCheckout, CommitBatch, CommitStatus
  <2>2. pc'[q] = pc[q] /\ answer'[q] = answer[q]
    BY <1>2, <1>a DEF CommitCheckout, CommitBatch, CommitStatus, Goto
  <2> QED BY <2>1, <2>2, CommitLeavesAlone DEF LeftAlone
<1>3. CASE Debit(r) \/ CorrectBalance(r) \/ UpdateNext(r)
  <2>1. PICK a \in Accounts, d \in Int : AddToBalance(r, a, d)
    <3>1. CASE Debit(r)
      BY <3>1, DebitDelta
    <3>2. CASE CorrectBalance(r)
      BY <3>2, CorrectDelta DEF RequestInv
    <3>3. CASE UpdateNext(r)
      BY <3>3, UpdateDelta DEF RequestInv
    <3> QED BY <1>3, <3>1, <3>2, <3>3
  <2>2. UNCHANGED <<balance, tx, op>>
    BY <1>3 DEF Debit, CorrectBalance, UpdateNext, tables
  <2>3. pc'[q] = pc[q] /\ answer'[q] = answer[q] /\ todo'[q] = todo[q]
    BY <1>3, <1>a DEF Debit, CorrectBalance, UpdateNext, UpdateKey, Goto
  <2>4. /\ \A p \in Requests : p # r =>
              \A b \in Accounts : accountLock'[b] = p <=> accountLock[b] = p
        /\ rowLock' = rowLock
        /\ \A p \in Requests : p # r => work'[p] = work[p]
    BY <2>1, Added
  <2> QED BY <2>2, <2>3, <2>4 DEF LeftAlone
<1>4. CASE InsertOrder(r) \/ InsertJob(r) \/ SaveMany(r)
  <2>1. UNCHANGED <<balance, tx, op, accountLock, rowLock>>
    BY <1>4 DEF InsertOrder, InsertJob, SaveMany, tables
  <2>2. pc'[q] = pc[q] /\ answer'[q] = answer[q] /\ todo'[q] = todo[q] /\ work'[q] = work[q]
    BY <1>4, <1>a DEF InsertOrder, InsertJob, SaveMany, Goto
  <2> QED BY <2>1, <2>2 DEF LeftAlone
<1>5. CASE ResolveFxRate(r) \/ Validate(r) \/ PublishPlaced(r) \/ PublishStatus(r)
  <2>1. UNCHANGED <<balance, tx, op, accountLock, rowLock, work>>
    BY <1>5 DEF ResolveFxRate, Validate, PublishPlaced, PublishStatus, tables
  <2>2. pc'[q] = pc[q] /\ answer'[q] = answer[q] /\ todo'[q] = todo[q]
    BY <1>5, <1>a DEF ResolveFxRate, Validate, PublishPlaced, PublishStatus, Goto
  <2> QED BY <2>1, <2>2 DEF LeftAlone
<1>6. CASE LockOrder(r)
  <2>1. UNCHANGED <<balance, tx, op, accountLock, todo, answer>>
    BY <1>6 DEF LockOrder, tables
  <2>2. pc'[q] = pc[q] /\ work'[q] = work[q]
    BY <1>6, <1>a DEF LockOrder, Goto
  <2>3. \A t \in RowIds : rowLock'[t] = q <=> rowLock[t] = q
    <3>1. rowLock' = [rowLock EXCEPT ![op[r].row] = r] /\ rowLock[op[r].row] = NoOne
      BY <1>6 DEF LockOrder
    <3> QED BY <3>1, LedgerAssumption DEF TypeOK
  <2> QED BY <2>1, <2>2, <2>3 DEF LeftAlone
<1> QED
  BY <1>1, <1>2, <1>3, <1>4, <1>5, <1>6, RollbackSteps DEF Step

\* Committed data is never taken back.
LEMMA OnlyGrows ==
    ASSUME TypeOK, NEW r \in Requests, Step(r) \/ Crash(r)
    PROVE  Grows
<1>1. CASE CommitCheckout(r) \/ CommitBatch(r) \/ CommitStatus(r)
  <2>1. CommitWork(r)
    BY <1>1 DEF CommitCheckout, CommitBatch, CommitStatus
  <2> QED BY <2>1, CommitGrows
<1>2. CASE RolledBack(r)
  BY <1>2 DEF RolledBack, Rollback, tables, Grows
<1>3. CASE ~(CommitCheckout(r) \/ CommitBatch(r) \/ CommitStatus(r) \/ RolledBack(r))
  <2>1. UNCHANGED <<tx, jobs, history>>
    BY <1>3, RollbackSteps DEF Step, Debit, ResolveFxRate, InsertOrder, InsertJob, PublishPlaced,
       Validate, SaveMany, UpdateNext, LockOrder, CorrectBalance, PublishStatus, tables
  <2> QED BY <2>1 DEF Grows
<1> QED BY <1>1, <1>2, <1>3

\* So what was known of another request stays true.
LEMMA OthersKeep ==
    ASSUME TypeOK, NEW q \in Requests, RequestInv(q), LeftAlone(q), Grows
    PROVE  RequestInv(q)'
<1> DEFINE o == op[q]
<1>0. op'[q] = op[q] /\ pc'[q] = pc[q] /\ work'[q] = work[q] /\ todo'[q] = todo[q]
  BY DEF LeftAlone
<1>1. CheckoutInv(q)'
  <2>1. pc[q] = "publish" /\ o.kind = "checkout" => tx'[<<q, 1>>] # NoRow /\ <<q, 1>> \in jobs'
    BY FirstRow DEF RequestInv, CheckoutInv, Grows
  <2>2. pc[q] \in Paid /\ o.kind = "checkout" =>
          o.acct \in Accounts /\ accountLock'[o.acct] = q /\ balance'[o.acct] >= o.cost
    BY DEF RequestInv, CheckoutInv, LeftAlone
  <2> QED BY <1>0, <2>1, <2>2 DEF RequestInv, CheckoutInv
<1>2. BatchInv(q)'
  <2>1. \A a \in Accounts : Updated(q, a)' = Updated(q, a)
    BY <1>0 DEF Updated
  <2> QED BY <1>0, <2>1 DEF RequestInv, BatchInv, LeftAlone
<1>3. StatusInv(q)'
  <2>1. CASE o.kind = "status" /\ pc[q] \in {"update", "commit"}
    <3>1. o.row \in RowIds /\ rowLock[o.row] = q /\ tx[o.row] # NoRow
      BY <2>1, OpTypes DEF RequestInv, StatusInv
    <3>2. tx'[o.row] = tx[o.row] /\ rowLock'[o.row] = q
      BY <3>1 DEF LeftAlone
    <3>3. tx[o.row].acct \in Accounts
      BY <3>1 DEF TypeOK, Rows
    <3>4. accountLock'[tx[o.row].acct] = q <=> accountLock[tx[o.row].acct] = q
      BY <3>3 DEF LeftAlone
    <3> QED BY <1>0, <2>1, <3>2, <3>4 DEF RequestInv, StatusInv
  <2>2. CASE o.kind = "status" /\ pc[q] \notin {"update", "commit"}
    <3>1. pc[q] = "publish" => o.to \in history'[o.row]
      BY <2>2, OpTypes DEF RequestInv, StatusInv, Grows
    <3> QED BY <1>0, <2>2, <3>1 DEF RequestInv, StatusInv
  <2>3. CASE o.kind # "status"
    BY <1>0, <2>3 DEF StatusInv
  <2> QED BY <2>1, <2>2, <2>3
<1>4. FreshInv(q)'
  BY <1>0 DEF RequestInv, FreshInv, LeftAlone
<1>5. HolderInv(q)'
  <2>1. \A a \in Accounts : Updated(q, a)' = Updated(q, a)
    BY <1>0 DEF Updated
  <2> QED BY <1>0, <2>1 DEF RequestInv, HolderInv, LeftAlone
<1> QED BY <1>1, <1>2, <1>3, <1>4, <1>5 DEF RequestInv

-----------------------------------------------------------------------------
(* A step of one request and its own state.                                *)

\* A request that has ended its transaction holds nothing and has written
\* nothing.
LEMMA EndedKeeps ==
    ASSUME TypeOK, NEW r \in Requests, op' = op, pc'[r] = "ended", work'[r] = NoWork,
           \A a \in Accounts : accountLock'[a] # r, \A t \in RowIds : rowLock'[t] # r
    PROVE  RequestInv(r)'
<1>1. CheckoutInv(r)' /\ BatchInv(r)' /\ StatusInv(r)'
  BY NoWorkFields DEF CheckoutInv, BatchInv, StatusInv, Paid
<1>2. FreshInv(r)' /\ HolderInv(r)'
  BY DEF FreshInv, HolderInv
<1> QED BY <1>1, <1>2 DEF RequestInv

\* A request that was rolled back claims nothing any more.
LEMMA RollbackKeeps ==
    ASSUME TypeOK, NEW r \in Requests, RolledBack(r)
    PROVE  RequestInv(r)'
<1>1. ReleaseLocks(r) /\ op' = op
  BY DEF RolledBack, Rollback
<1> QED BY <1>1, RollbackTypes, Released, EndedKeeps

\* A statement of a checkout keeps what is not about checkouts.
LEMMA CheckoutStepKeeps ==
    ASSUME TypeOK, NEW r \in Requests, RequestInv(r), op[r].kind = "checkout",
           op' = op, UNCHANGED <<tx, rowLock, balance>>,
           CheckoutInv(r)', pc[r] \notin {"publish", "ended"},
           \A a \in Accounts : accountLock'[a] = r => pc'[r] \in Paid /\ a = op[r].acct
    PROVE  RequestInv(r)'
BY DEF RequestInv, BatchInv, StatusInv, FreshInv, HolderInv

\* Each statement of a checkout keeps the invariant of its own request.
LEMMA CheckoutKeeps ==
    ASSUME TypeOK, NEW r \in Requests, RequestInv(r),
           \/ Debit(r) \/ ResolveFxRate(r) \/ InsertOrder(r) \/ InsertJob(r)
           \/ CommitCheckout(r) \/ PublishPlaced(r)
    PROVE  RequestInv(r)'
<1> DEFINE o == op[r]
<1>a. op[r].kind = "checkout" /\ op' = op
  BY DEF Debit, ResolveFxRate, InsertOrder, InsertJob, CommitCheckout, PublishPlaced, At
<1>b. pc \in [Requests -> Statements] /\ op[r].cost \in Nat
  BY <1>a, OpTypes DEF TypeOK
<1>1. CASE Debit(r)
  <2> DEFINE d == -o.cost
  <2>1. o.acct \in Accounts /\ d \in Int /\ AddToBalance(r, o.acct, d)
    BY <1>1, DebitDelta
  <2>2. /\ pc[r] = "debit" /\ pc'[r] = "fx" /\ balance[o.acct] >= o.cost
        /\ UNCHANGED <<balance, tx, jobs, history>>
    BY <1>1, <1>b DEF Debit, At, Goto, tables
  <2>3. work[r].delta = Zero /\ work[r].rows = NoWork.rows /\ work[r].jobs = {}
    BY <1>a, <2>2 DEF RequestInv, CheckoutInv, Paid
  <2>4. /\ \A b \in Accounts : accountLock'[b] = r <=> b = o.acct \/ accountLock[b] = r
        /\ rowLock' = rowLock
        /\ work'[r].delta = [b \in Accounts |-> IF b = o.acct THEN work[r].delta[b] + d ELSE work[r].delta[b]]
        /\ work'[r].rows = work[r].rows /\ work'[r].jobs = work[r].jobs
    <3> HIDE DEF d
    <3> QED BY <2>1, Added
  <2>5. work'[r].delta = [b \in Accounts |-> IF b = o.acct THEN -o.cost ELSE 0]
    BY <2>1, <2>3, <2>4 DEF Zero
  <2>6. \A b \in Accounts : accountLock[b] # r
    BY <1>a, <2>2 DEF RequestInv, HolderInv, Paid
  <2>7. CheckoutInv(r)'
    BY <1>a, <2>1, <2>2, <2>3, <2>4, <2>5 DEF CheckoutInv, Paid
  <2> QED BY <1>a, <2>2, <2>4, <2>6, <2>7, CheckoutStepKeeps DEF Paid
<1>2. CASE ResolveFxRate(r)
  <2>1. /\ pc[r] = "fx" /\ pc'[r] = "insert" /\ o.acct \in Quoted
        /\ UNCHANGED <<balance, tx, jobs, history, accountLock, rowLock, work>>
    BY <1>2, <1>b DEF ResolveFxRate, At, Goto, tables
  <2>2. CheckoutInv(r)'
    BY <1>a, <2>1 DEF RequestInv, CheckoutInv, Paid
  <2>3. \A a \in Accounts : accountLock'[a] = r => pc'[r] \in Paid /\ a = op[r].acct
    BY <1>a, <2>1 DEF RequestInv, HolderInv, Paid
  <2> QED BY <1>a, <2>1, <2>2, <2>3, CheckoutStepKeeps
<1>3. CASE InsertOrder(r)
  <2>1. /\ pc[r] = "insert" /\ pc'[r] = "job"
        /\ UNCHANGED <<balance, tx, jobs, history, accountLock, rowLock>>
    BY <1>3, <1>b DEF InsertOrder, At, Goto, tables
  <2>2. work' = [work EXCEPT ![r].rows = OneRow(<<r, 1>>, OrderRow(op[r]))]
    BY <1>3 DEF InsertOrder, OneRow
  <2>3. op[r].acct \in Accounts
    BY <1>a, <2>1 DEF RequestInv, CheckoutInv, Paid
  <2>4. /\ work'[r].delta = work[r].delta /\ work'[r].rows = OneRow(<<r, 1>>, OrderRow(op[r]))
        /\ work'[r].jobs = work[r].jobs
    BY <1>a, <2>2, <2>3, OrderRowType, SetRows
  <2>5. CheckoutInv(r)'
    BY <1>a, <2>1, <2>4 DEF RequestInv, CheckoutInv, Paid
  <2>6. \A a \in Accounts : accountLock'[a] = r => pc'[r] \in Paid /\ a = op[r].acct
    BY <1>a, <2>1 DEF RequestInv, HolderInv, Paid
  <2> QED BY <1>a, <2>1, <2>5, <2>6, CheckoutStepKeeps
<1>4. CASE InsertJob(r)
  <2>1. /\ pc[r] = "job" /\ pc'[r] = "commit" /\ work' = [work EXCEPT ![r].jobs = {<<r, 1>>}]
        /\ UNCHANGED <<balance, tx, jobs, history, accountLock, rowLock>>
    BY <1>4, <1>b DEF InsertJob, At, Goto, tables
  <2>2. {<<r, 1>>} \in SUBSET RowIds
    BY FirstRow
  <2>4. /\ work'[r].delta = work[r].delta /\ work'[r].rows = work[r].rows
        /\ work'[r].jobs = {<<r, 1>>}
    BY <2>1, <2>2, SetJobs
  <2>5. CheckoutInv(r)'
    BY <1>a, <2>1, <2>4 DEF RequestInv, CheckoutInv, Paid
  <2>6. \A a \in Accounts : accountLock'[a] = r => pc'[r] \in Paid /\ a = op[r].acct
    BY <1>a, <2>1 DEF RequestInv, HolderInv, Paid
  <2> QED BY <1>a, <2>1, <2>5, <2>6, CheckoutStepKeeps
<1>5. CASE CommitCheckout(r)
  <2>1. pc[r] = "commit" /\ pc'[r] = "publish" /\ CommitWork(r)
    BY <1>5, <1>b DEF CommitCheckout, At, Goto
  <2>2. ReleaseLocks(r) /\ work'[r] = NoWork
    BY <2>1, Committed, ClearWork
  <2>3. work[r].rows = OneRow(<<r, 1>>, OrderRow(op[r])) /\ work[r].jobs = {<<r, 1>>}
    BY <1>a, <2>1 DEF RequestInv, CheckoutInv
  <2>4. <<r, 1>> \in DOMAIN work[r].rows
    BY <2>3 DEF OneRow
  <2>5. tx'[<<r, 1>>] # NoRow /\ <<r, 1>> \in jobs'
    BY <2>1, <2>3, <2>4, FirstRow, Committed
  <2>6. CheckoutInv(r)'
    BY <1>a, <2>1, <2>2, <2>5, NoWorkFields DEF CheckoutInv, Paid
  <2>7. BatchInv(r)' /\ StatusInv(r)' /\ FreshInv(r)' /\ HolderInv(r)'
    BY <1>a, <2>1, <2>2, Released DEF BatchInv, StatusInv, FreshInv, HolderInv
  <2> QED BY <2>6, <2>7 DEF RequestInv
<1>6. CASE PublishPlaced(r)
  <2>1. pc[r] = "publish" /\ pc'[r] = "ended" /\ UNCHANGED <<accountLock, rowLock, work>>
    BY <1>6, <1>b DEF PublishPlaced, At, Goto
  <2>2. work[r].delta = Zero /\ work[r].rows = NoWork.rows /\ work[r].jobs = {}
    BY <1>a, <2>1 DEF RequestInv, CheckoutInv, Paid
  <2>3. (\A a \in Accounts : accountLock[a] # r) /\ (\A t \in RowIds : rowLock[t] # r)
    BY <1>a, <2>1 DEF RequestInv, HolderInv, Paid
  <2>4. CheckoutInv(r)'
    BY <1>a, <2>1, <2>2 DEF CheckoutInv, Paid
  <2>7. BatchInv(r)' /\ StatusInv(r)' /\ FreshInv(r)' /\ HolderInv(r)'
    BY <1>a, <2>1, <2>3 DEF BatchInv, StatusInv, FreshInv, HolderInv
  <2> QED BY <2>4, <2>7 DEF RequestInv
<1> QED BY <1>1, <1>2, <1>3, <1>4, <1>5, <1>6

\* Two keys of the deltas are keys of two accounts.
LEMMA KeysDistinct ==
    ASSUME TypeOK, NEW r \in Requests, op[r].kind = "batch",
           NEW i \in DeltaKeys(op[r].entries), NEW k \in DeltaKeys(op[r].entries),
           op[r].entries[i].acct = op[r].entries[k].acct
    PROVE  i = k
<1>1. i \in Nat /\ k \in Nat
  BY OpTypes DEF DeltaKeys
<1>2. i <= k /\ k <= i
  BY DEF DeltaKeys
<1> QED BY <1>1, <1>2

\* An UPDATE moves one account from those to update to those updated.
LEMMA UpdateMoves ==
    ASSUME TypeOK, NEW r \in Requests, op[r].kind = "batch", op' = op,
           todo[r] \subseteq DeltaKeys(op[r].entries), NEW i \in todo[r],
           todo' = [todo EXCEPT ![r] = @ \ {i}]
    PROVE  /\ todo'[r] = todo[r] \ {i}
           /\ \A a : Updated(r, a)' <=> Updated(r, a) \/ a = op[r].entries[i].acct
           /\ ~Updated(r, op[r].entries[i].acct)
<1>1. todo'[r] = todo[r] \ {i}
  BY DEF TypeOK
<1>2. DeltaKeys(op[r].entries) \ todo'[r] = (DeltaKeys(op[r].entries) \ todo[r]) \cup {i}
  BY <1>1
<1>3. \A a : Updated(r, a)' <=> Updated(r, a) \/ a = op[r].entries[i].acct
  BY <1>2 DEF Updated
<1>4. ~Updated(r, op[r].entries[i].acct)
  BY KeysDistinct DEF Updated
<1> QED BY <1>1, <1>3, <1>4

\* Each statement of a batch keeps the invariant of its own request.
LEMMA BatchKeeps ==
    ASSUME TypeOK, NEW r \in Requests, RequestInv(r),
           Validate(r) \/ SaveMany(r) \/ UpdateNext(r) \/ CommitBatch(r)
    PROVE  RequestInv(r)'
<1> DEFINE entries == op[r].entries
<1>a. op[r].kind = "batch" /\ op' = op
  BY DEF Validate, SaveMany, UpdateNext, CommitBatch, At
<1>b. pc \in [Requests -> Statements] /\ todo \in [Requests -> SUBSET Nat]
  BY DEF TypeOK
<1>c. CheckoutInv(r)' /\ StatusInv(r)'
  BY <1>a DEF CheckoutInv, StatusInv
<1>1. CASE Validate(r)
  <2>1. /\ pc[r] = "validate" /\ pc'[r] = "save" /\ todo'[r] = DeltaKeys(entries)
        /\ \A i \in DOMAIN entries : entries[i].acct \in Accounts
        /\ UNCHANGED <<tx, accountLock, rowLock, work>>
    BY <1>1, <1>b DEF Validate, Valid, At, Goto, tables
  <2>2. BatchInv(r)'
    BY <1>a, <2>1 DEF RequestInv, BatchInv
  <2>3. FreshInv(r)' /\ HolderInv(r)'
    BY <1>a, <2>1 DEF RequestInv, FreshInv, HolderInv
  <2> QED BY <1>c, <2>2, <2>3 DEF RequestInv
<1>2. CASE SaveMany(r)
  <2>1. /\ pc[r] = "save" /\ pc'[r] = "update" /\ \A i \in DOMAIN entries : entries[i].acct \in Quoted
        /\ work' = [work EXCEPT ![r].rows = BatchRows(r, entries)]
        /\ UNCHANGED <<tx, accountLock, rowLock, todo>>
    BY <1>2, <1>b DEF SaveMany, At, Goto, tables
  <2>2. /\ todo[r] = DeltaKeys(entries) /\ work[r].delta = Zero /\ work[r].jobs = {}
        /\ \A i \in DOMAIN entries : entries[i].acct \in Accounts
    BY <1>a, <2>1 DEF RequestInv, BatchInv
  <2>3. work'[r].delta = Zero /\ work'[r].rows = BatchRows(r, entries) /\ work'[r].jobs = {}
    BY <1>a, <2>1, <2>2, BatchRowsType, SetRows
  <2>4. \A a : ~Updated(r, a)'
    BY <1>a, <2>1, <2>2 DEF Updated
  <2>5. work'[r].delta = [a \in Accounts |-> IF Updated(r, a)' THEN BatchDelta(entries, a) ELSE 0]
    BY <2>3, <2>4 DEF Zero
  <2>6. BatchInv(r)'
    BY <1>a, <2>1, <2>2, <2>3, <2>4, <2>5 DEF BatchInv
  <2>7. FreshInv(r)' /\ HolderInv(r)'
    BY <1>a, <2>1 DEF RequestInv, FreshInv, HolderInv
  <2> QED BY <1>c, <2>6, <2>7 DEF RequestInv
<1>3. CASE UpdateNext(r)
  <2>0. BatchInv(r) /\ pc[r] = "update"
    BY <1>3 DEF RequestInv, UpdateNext, At
  <2> DEFINE A(i) == entries[i].acct
             D(i) == BatchDelta(entries, A(i))
  <2>1. PICK i \in todo[r] :
          /\ IsNext(r, i) /\ i \in DeltaKeys(entries)
          /\ A(i) \in Accounts /\ D(i) \in Int /\ AddToBalance(r, A(i), D(i))
          /\ todo' = [todo EXCEPT ![r] = @ \ {i}]
    BY <1>3, <2>0, UpdateDelta
  <2>2. UNCHANGED <<tx, pc>>
    BY <1>3 DEF UpdateNext, tables
  <2>3. /\ todo[r] \subseteq DeltaKeys(entries)
        /\ \A j \in DeltaKeys(entries) \ todo[r], k \in todo[r] : j < k
        /\ \A a \in Accounts : Updated(r, a) => accountLock[a] = r
        /\ work[r].delta = [a \in Accounts |-> IF Updated(r, a) THEN BatchDelta(entries, a) ELSE 0]
        /\ work[r].rows = BatchRows(r, entries) /\ work[r].jobs = {}
        /\ \A j \in DOMAIN entries : entries[j].acct \in Accounts
        /\ \A j \in DOMAIN entries : entries[j].acct \in Quoted
    BY <1>a, <2>0 DEF BatchInv
  <2>4. /\ todo'[r] = todo[r] \ {i}
        /\ \A a : Updated(r, a)' <=> Updated(r, a) \/ a = A(i)
        /\ ~Updated(r, A(i))
    BY <1>a, <2>1, <2>3, UpdateMoves
  <2>5. /\ \A b \in Accounts : accountLock'[b] = r <=> b = A(i) \/ accountLock[b] = r
        /\ rowLock' = rowLock
        /\ work'[r].delta = [b \in Accounts |-> IF b = A(i) THEN work[r].delta[b] + D(i) ELSE work[r].delta[b]]
        /\ work'[r].rows = work[r].rows /\ work'[r].jobs = work[r].jobs
    <3> HIDE DEF A, D
    <3> QED BY <2>1, Added
  <2>6. work'[r].delta = [a \in Accounts |-> IF Updated(r, a)' THEN BatchDelta(entries, a) ELSE 0]
    <3>1. ASSUME NEW b \in Accounts
          PROVE (IF b = A(i) THEN work[r].delta[b] + D(i) ELSE work[r].delta[b])
                  = (IF Updated(r, b)' THEN BatchDelta(entries, b) ELSE 0)
      BY <2>1, <2>3, <2>4
    <3> QED BY <2>5, <3>1
  <2>7. \A j \in DeltaKeys(entries) \ todo'[r], k \in todo'[r] : j < k
    <3> SUFFICES ASSUME NEW j \in DeltaKeys(entries) \ todo'[r], NEW k \in todo'[r] PROVE j < k
      OBVIOUS
    <3>1. CASE j = i
      <4>1. i \in Nat /\ k \in Nat /\ i <= k /\ i # k
        BY <1>b, <2>1, <2>4, <3>1 DEF IsNext
      <4> QED BY <3>1, <4>1
    <3>2. CASE j # i
      BY <2>3, <2>4, <3>2
    <3> QED BY <3>1, <3>2
  <2>8. \A a \in Accounts : accountLock'[a] = r <=> Updated(r, a)'
    <3>1. \A a \in Accounts : accountLock[a] = r => Updated(r, a)
      BY <1>a DEF RequestInv, HolderInv
    <3> QED BY <2>3, <2>4, <2>5, <3>1
  <2>9. BatchInv(r)'
    <3>1. todo'[r] \subseteq DeltaKeys(entries)
      BY <2>3, <2>4
    <3> QED BY <1>a, <2>0, <2>2, <2>3, <2>5, <2>6, <2>7, <2>8, <3>1 DEF BatchInv
  <2>10. FreshInv(r)' /\ HolderInv(r)'
    BY <1>a, <2>0, <2>2, <2>5, <2>8 DEF RequestInv, FreshInv, HolderInv
  <2> QED BY <1>c, <2>9, <2>10 DEF RequestInv
<1>4. CASE CommitBatch(r)
  <2>1. CommitWork(r) /\ pc'[r] = "ended"
    BY <1>4, <1>b DEF CommitBatch, Goto
  <2>2. ReleaseLocks(r) /\ work'[r] = NoWork
    BY <2>1, Committed, ClearWork
  <2> QED BY <1>a, <2>1, <2>2, Released, EndedKeeps
<1> QED BY <1>1, <1>2, <1>3, <1>4

\* Each statement of a status change keeps the invariant of its own request.
LEMMA StatusKeeps ==
    ASSUME TypeOK, NEW r \in Requests, RequestInv(r),
           LockOrder(r) \/ CorrectBalance(r) \/ CommitStatus(r) \/ PublishStatus(r)
    PROVE  RequestInv(r)'
<1> DEFINE o == op[r]
           row == tx[op[r].row]
<1>a. op[r].kind = "status" /\ op' = op
  BY DEF LockOrder, CorrectBalance, CommitStatus, PublishStatus, At
<1>b. /\ pc \in [Requests -> Statements] /\ rowLock \in [RowIds -> Requests \cup {NoOne}]
      /\ o.row \in RowIds /\ o.to \in Statuses
  BY <1>a, OpTypes DEF TypeOK
<1>c. CheckoutInv(r)' /\ BatchInv(r)' /\ FreshInv(r)'
  BY <1>a DEF CheckoutInv, BatchInv, FreshInv
<1>1. CASE LockOrder(r)
  <2> DEFINE new == [row EXCEPT !.status = o.to]
  <2>1. /\ pc[r] = "lock" /\ row.status # o.to /\ row # NoRow
        /\ pc'[r] = (IF CrossesPosted(row, o.to) THEN "update" ELSE "commit")
        /\ UNCHANGED <<tx, accountLock, history>>
    BY <1>1, <1>b DEF LockOrder, At, Goto, tables
  <2>2. OneRow(o.row, new) \in RowMaps /\ work' = [work EXCEPT ![r].rows = OneRow(o.row, new)]
    BY <1>1, LockedRow
  <2>3. rowLock' = [rowLock EXCEPT ![o.row] = r]
    BY <1>1 DEF LockOrder
  <2>4. work[r].delta = Zero /\ work[r].jobs = {}
    BY <1>a, <2>1 DEF RequestInv, StatusInv
  <2>5. work'[r].delta = Zero /\ work'[r].rows = OneRow(o.row, new) /\ work'[r].jobs = {}
    <3> HIDE DEF new
    <3> QED BY <2>2, <2>4, SetRows
  <2>6. ~CrossesPosted(row, o.to) => StatusDelta(row, o.to) = 0
    BY DEF CrossesPosted, StatusDelta
  <2>7. ~CrossesPosted(row, o.to) =>
          work'[r].delta = [a \in Accounts |-> IF a = row.acct THEN StatusDelta(row, o.to) ELSE 0]
    BY <2>5, <2>6 DEF Zero
  <2>8. rowLock'[o.row] = r /\ \A t \in RowIds : t # o.row => rowLock'[t] = rowLock[t]
    BY <1>b, <2>3
  <2>9. (\A a \in Accounts : accountLock[a] # r) /\ (\A t \in RowIds : rowLock[t] # r)
    BY <1>a, <2>1 DEF RequestInv, HolderInv
  <2>10. StatusInv(r)'
    <3> HIDE DEF new
    <3>1. CASE CrossesPosted(row, o.to)
      BY <1>a, <2>1, <2>5, <2>8, <3>1 DEF StatusInv, new
    <3>2. CASE ~CrossesPosted(row, o.to)
      BY <1>a, <2>1, <2>5, <2>7, <2>8, <3>2 DEF StatusInv, new
    <3> QED BY <3>1, <3>2
  <2>11. HolderInv(r)'
    BY <1>a, <2>1, <2>8, <2>9 DEF HolderInv
  <2> QED BY <1>c, <2>10, <2>11 DEF RequestInv
<1>2. CASE CorrectBalance(r)
  <2>0. StatusInv(r)
    BY DEF RequestInv
  <2> DEFINE a == row.acct
             d == StatusDelta(row, o.to)
  <2>1. /\ pc[r] = "update" /\ row # NoRow /\ a \in Accounts /\ d \in Int /\ AddToBalance(r, a, d)
    BY <1>2, <2>0, CorrectDelta
  <2>2. pc'[r] = "commit" /\ UNCHANGED <<tx, history>>
    BY <1>2, <1>b DEF CorrectBalance, Goto, tables
  <2>3. /\ rowLock[o.row] = r /\ row.status # o.to /\ work[r].delta = Zero /\ work[r].jobs = {}
        /\ work[r].rows = OneRow(o.row, [row EXCEPT !.status = o.to])
    BY <1>a, <2>1, <2>0 DEF StatusInv
  <2>4. /\ \A b \in Accounts : accountLock'[b] = r <=> b = a \/ accountLock[b] = r
        /\ rowLock' = rowLock
        /\ work'[r].delta = [b \in Accounts |-> IF b = a THEN work[r].delta[b] + d ELSE work[r].delta[b]]
        /\ work'[r].rows = work[r].rows /\ work'[r].jobs = work[r].jobs
    <3> HIDE DEF a, d
    <3> QED BY <2>1, Added
  <2>5. work'[r].delta = [b \in Accounts |-> IF b = a THEN d ELSE 0]
    <3> HIDE DEF a, d
    <3> QED BY <2>1, <2>3, <2>4 DEF Zero
  <2>6. StatusInv(r)'
    BY <1>a, <2>1, <2>2, <2>3, <2>4, <2>5 DEF StatusInv
  <2>7. HolderInv(r)'
    BY <1>a, <2>1, <2>2, <2>4 DEF RequestInv, HolderInv
  <2> QED BY <1>c, <2>6, <2>7 DEF RequestInv
<1>3. CASE CommitStatus(r)
  <2>1. CommitWork(r) /\ pc[r] = "commit" /\ pc'[r] = "publish"
    BY <1>3, <1>b DEF CommitStatus, At, Goto
  <2>2. ReleaseLocks(r) /\ work'[r] = NoWork
    BY <2>1, Committed, ClearWork
  <2>3. row # NoRow /\ work[r].rows = OneRow(o.row, [row EXCEPT !.status = o.to])
    BY <1>a, <2>1 DEF RequestInv, StatusInv
  <2>4. o.row \in DOMAIN work[r].rows /\ work[r].rows[o.row] = [row EXCEPT !.status = o.to]
    BY <2>3 DEF OneRow
  <2>5. row \in Rows
    BY <1>b, <2>3 DEF TypeOK
  <2>6. work[r].rows[o.row].status = o.to
    BY <1>b, <2>4, <2>5, RowUpdated
  <2>7. o.to \in history'[o.row]
    BY <1>b, <2>1, <2>4, <2>6, Committed
  <2>8. StatusInv(r)'
    BY <1>a, <2>1, <2>2, <2>7, NoWorkFields DEF StatusInv
  <2>9. HolderInv(r)'
    BY <2>2, Released DEF HolderInv
  <2> QED BY <1>c, <2>8, <2>9 DEF RequestInv
<1>4. CASE PublishStatus(r)
  <2>1. pc[r] = "publish" /\ pc'[r] = "ended" /\ UNCHANGED <<accountLock, rowLock, work>>
    BY <1>4, <1>b DEF PublishStatus, At, Goto
  <2>2. StatusInv(r)'
    BY <1>a, <2>1 DEF RequestInv, StatusInv
  <2>3. HolderInv(r)'
    BY <1>a, <2>1 DEF RequestInv, HolderInv
  <2> QED BY <1>c, <2>2, <2>3 DEF RequestInv
<1> QED BY <1>1, <1>2, <1>3, <1>4

\* Every step of every request keeps what is known of all of them.
LEMMA RequestStep ==
    ASSUME TypeOK, \A q \in Requests : RequestInv(q), NEW r \in Requests, Step(r) \/ Crash(r),
           NEW q \in Requests
    PROVE  RequestInv(q)'
<1>1. RequestInv(r) /\ RequestInv(q)
  OBVIOUS
<1>2. CASE q # r
  BY <1>1, <1>2, Undisturbed, OnlyGrows, OthersKeep
<1>3. CASE q = r
  <2>1. RequestInv(r)'
    BY <1>1, RollbackSteps, RollbackKeeps, CheckoutKeeps, BatchKeeps, StatusKeeps DEF Step
  <2> QED BY <1>3, <2>1
<1> QED BY <1>2, <1>3

-----------------------------------------------------------------------------
(* Events, answers, and what an account covers.                            *)

\* An event is published by a request that has committed.
LEMMA EventsStep ==
    ASSUME TypeOK, \A q \in Requests : RequestInv(q), EventsAfterCommit,
           NEW r \in Requests, Step(r) \/ Crash(r)
    PROVE  EventsAfterCommit'
<1>0. Grows
  BY OnlyGrows
<1>1. (\A t \in placed : tx[t] # NoRow /\ t \in jobs) => \A t \in placed : tx'[t] # NoRow /\ t \in jobs'
  BY <1>0 DEF Grows, TypeOK
<1>2. (\A e \in statusEvents : e[2] \in history[e[1]]) => \A e \in statusEvents : e[2] \in history'[e[1]]
  BY <1>0 DEF Grows, TypeOK
<1>3. CASE PublishPlaced(r)
  <2>1. tx[<<r, 1>>] # NoRow /\ <<r, 1>> \in jobs
    BY <1>3 DEF PublishPlaced, At, RequestInv, CheckoutInv
  <2>2. placed' \subseteq placed \cup {<<r, 1>>} /\ UNCHANGED <<tx, jobs, statusEvents, history>>
    BY <1>3 DEF PublishPlaced, tables
  <2> QED BY <2>1, <2>2 DEF EventsAfterCommit
<1>4. CASE PublishStatus(r)
  <2>1. op[r].to \in history[op[r].row]
    BY <1>4 DEF PublishStatus, At, RequestInv, StatusInv
  <2>2. statusEvents' = statusEvents \cup {<<op[r].row, op[r].to>>} /\ UNCHANGED <<tx, jobs, placed, history>>
    BY <1>4 DEF PublishStatus, tables
  <2> QED BY <2>1, <2>2 DEF EventsAfterCommit
<1>5. CASE ~(PublishPlaced(r) \/ PublishStatus(r))
  <2>1. UNCHANGED <<placed, statusEvents>>
    <3>1. CASE RolledBack(r)
      BY <3>1 DEF RolledBack, Rollback, events
    <3>2. CASE ~RolledBack(r)
      BY <1>5, <3>2, RollbackSteps DEF Step, Debit, ResolveFxRate, InsertOrder, InsertJob,
         CommitCheckout, Validate, SaveMany, UpdateNext, CommitBatch, LockOrder, CorrectBalance,
         CommitStatus, events
    <3> QED BY <3>1, <3>2
  <2> QED BY <1>1, <1>2, <2>1 DEF EventsAfterCommit
<1> QED BY <1>3, <1>4, <1>5

\* Only a debit that finds too little answers insufficient_funds, and only a
\* published checkout answers ok.
LEMMA AnswerChanges ==
    ASSUME TypeOK, NEW r \in Requests, op[r].kind = "checkout", Step(r) \/ Crash(r)
    PROVE  \/ answer'[r] = answer[r] /\ pc[r] # "ended"
           \/ answer'[r] \notin {"ok", "insufficient_funds"}
           \/ answer'[r] = "ok" /\ pc[r] = "publish" /\ UNCHANGED tx
           \/ /\ answer'[r] = "insufficient_funds" /\ pc[r] = "debit" /\ pc'[r] = "ended"
              /\ UNCHANGED <<tx, balance>>
              /\ op[r].acct \in Accounts => balance[op[r].acct] < op[r].cost
<1>0. answer \in [Requests -> Answers] /\ pc \in [Requests -> Statements]
  BY DEF TypeOK
<1>1. CASE DebitNothing(r)
  BY <1>0, <1>1 DEF DebitNothing, Rollback, At, Goto, tables
<1>2. CASE NoFxRate(r) \/ RejectBatch(r) \/ LeaveOrder(r) \/ AbortDeadlock(r) \/ Crash(r)
  BY <1>0, <1>2 DEF NoFxRate, RejectBatch, LeaveOrder, AbortDeadlock, Crash, Rollback, At
<1>3. CASE PublishPlaced(r)
  BY <1>0, <1>3 DEF PublishPlaced, At, tables
<1>4. CASE CommitBatch(r) \/ PublishStatus(r)
  BY <1>4 DEF CommitBatch, PublishStatus, At
<1>5. CASE \/ Debit(r) \/ ResolveFxRate(r) \/ InsertOrder(r) \/ InsertJob(r) \/ CommitCheckout(r)
           \/ Validate(r) \/ SaveMany(r) \/ UpdateNext(r) \/ LockOrder(r) \/ CorrectBalance(r)
           \/ CommitStatus(r)
  BY <1>5 DEF Debit, ResolveFxRate, InsertOrder, InsertJob, CommitCheckout, Validate, SaveMany,
     UpdateNext, LockOrder, CorrectBalance, CommitStatus, At
<1> QED BY <1>1, <1>2, <1>3, <1>4, <1>5 DEF Step

\* A checkout answers ok only with its order committed, and refuses only without.
LEMMA AnswerStep ==
    ASSUME TypeOK, \A q \in Requests : RequestInv(q) /\ AnswerInv(q),
           NEW r \in Requests, Step(r) \/ Crash(r), NEW q \in Requests
    PROVE  AnswerInv(q)'
<1>0. Grows /\ 1 \in 1..MaxEntries /\ <<q, 1>> \in RowIds /\ RequestInv(r)
  BY OnlyGrows, FirstRow
<1>1. CASE q # r
  <2>1. LeftAlone(q)
    BY <1>0, <1>1, Undisturbed
  <2> QED BY <1>0, <2>1 DEF AnswerInv, LeftAlone, Grows
<1>2. CASE q = r /\ op[r].kind = "checkout"
  <2>1. answer[r] = "insufficient_funds" => pc[r] = "ended"
    BY <1>2 DEF AnswerInv
  <2>2. pc[r] = "publish" => tx[<<r, 1>>] # NoRow
    BY <1>2 DEF RequestInv, CheckoutInv
  <2>3. pc[r] = "debit" => tx[<<r, 1>>] = NoRow
    BY <1>0, <1>2 DEF RequestInv, FreshInv
  <2>4. answer[r] = "ok" => tx'[<<r, 1>>] # NoRow
    BY <1>0, <1>2 DEF AnswerInv, Grows
  <2> QED BY <1>2, <2>1, <2>2, <2>3, <2>4, AnswerChanges DEF AnswerInv
<1>3. CASE q = r /\ op[r].kind # "checkout"
  <2>1. op' = op
    <3>1. CASE RolledBack(r)
      BY <3>1 DEF RolledBack, Rollback
    <3>2. CASE ~RolledBack(r)
      BY <3>2, RollbackSteps DEF Step, Debit, ResolveFxRate, InsertOrder, InsertJob,
         CommitCheckout, PublishPlaced, Validate, SaveMany, UpdateNext, CommitBatch, LockOrder,
         CorrectBalance, CommitStatus, PublishStatus
    <3> QED BY <3>1, <3>2
  <2> QED BY <1>3, <2>1 DEF AnswerInv
<1> QED BY <1>1, <1>2, <1>3

\* Only COMMIT changes the tables.
LEMMA OnlyCommitWrites ==
    ASSUME NEW r, Step(r) \/ Crash(r)
    PROVE  /\ op' = op
           /\ \/ UNCHANGED <<balance, tx, jobs>>
              \/ CommitCheckout(r) \/ CommitBatch(r) \/ CommitStatus(r)
<1>1. CASE RolledBack(r)
  BY <1>1 DEF RolledBack, Rollback, tables
<1>2. CASE ~RolledBack(r)
  BY <1>2, RollbackSteps DEF Step, Debit, ResolveFxRate, InsertOrder, InsertJob,
     CommitCheckout, PublishPlaced, Validate, SaveMany, UpdateNext, CommitBatch, LockOrder,
     CorrectBalance, CommitStatus, PublishStatus, tables
<1> QED BY <1>1, <1>2

\* An account that only checkouts draw on is drawn on, within what it covers.
LEMMA CommitCovered ==
    ASSUME TypeOK, NEW r \in Requests, RequestInv(r), NEW a \in Accounts, CheckoutOnly(a),
           balance[a] >= 0,
           CommitCheckout(r) \/ CommitBatch(r) \/ CommitStatus(r)
    PROVE  balance'[a] >= 0 /\ balance'[a] <= balance[a]
<1>1. CommitWork(r)
  BY DEF CommitCheckout, CommitBatch, CommitStatus
<1>2. balance'[a] = balance[a] + work[r].delta[a] /\ balance[a] \in Int
  BY <1>1, Committed DEF TypeOK
<1>3. CASE CommitCheckout(r)
  <2>1. op[r].kind = "checkout" /\ pc[r] = "commit"
    BY <1>3 DEF CommitCheckout, At
  <2>2. op[r].cost \in Nat
    BY <2>1, OpTypes
  <2>3. /\ work[r].delta[a] = (IF a = op[r].acct THEN -op[r].cost ELSE 0)
        /\ balance[op[r].acct] >= op[r].cost
    BY <2>1 DEF RequestInv, CheckoutInv, Paid
  <2> QED BY <1>2, <2>2, <2>3
<1>4. CASE CommitBatch(r)
  <2>1. op[r].kind = "batch" /\ pc[r] = "update"
    BY <1>4 DEF CommitBatch, At
  <2>2. \A i \in DOMAIN op[r].entries : op[r].entries[i].acct # a
    BY <2>1 DEF CheckoutOnly
  <2>3. BatchDelta(op[r].entries, a) = 0
    BY <2>1, <2>2, BatchSums
  <2>4. work[r].delta[a] = 0
    BY <2>1, <2>3 DEF RequestInv, BatchInv
  <2> QED BY <1>2, <2>4
<1>5. CASE CommitStatus(r)
  BY <1>5 DEF CommitStatus, At, CheckoutOnly
<1> QED BY <1>3, <1>4, <1>5

\* A debit finds its account covered, and a refused cost stays out of reach because the
\* balance of such an account never grows.
LEMMA CoverStep ==
    ASSUME TypeOK, TypeOK', \A q \in Requests : RequestInv(q), CoverInv,
           NEW r \in Requests, Step(r) \/ Crash(r)
    PROVE  CoverInv'
<1> SUFFICES ASSUME NEW a \in Accounts, CheckoutOnly(a)'
             PROVE  /\ balance'[a] >= 0
                    /\ \A q \in Requests :
                          op'[q].kind = "checkout" /\ op'[q].acct = a /\ answer'[q] = "insufficient_funds"
                            => balance'[a] < op'[q].cost
  BY DEF CoverInv
<1>0. op' = op
  BY OnlyCommitWrites
<1>1. CheckoutOnly(a)
  BY <1>0 DEF CheckoutOnly
<1>2. /\ balance[a] >= 0 /\ balance[a] \in Int /\ balance'[a] \in Int
      /\ \A q \in Requests :
            op[q].kind = "checkout" /\ op[q].acct = a /\ answer[q] = "insufficient_funds"
              => balance[a] < op[q].cost
  BY <1>1 DEF CoverInv, TypeOK
<1>3. balance'[a] >= 0 /\ balance'[a] <= balance[a]
  BY <1>1, <1>2, OnlyCommitWrites, CommitCovered
<1>4. ASSUME NEW q \in Requests, op[q].kind = "checkout", op[q].acct = a, answer'[q] = "insufficient_funds"
      PROVE  balance'[a] < op[q].cost
  <2>0. op[q].cost \in Nat
    BY <1>4, OpTypes
  <2>1. CASE answer[q] = "insufficient_funds"
    BY <1>2, <1>3, <1>4, <2>0, <2>1
  <2>2. CASE answer[q] # "insufficient_funds"
    <3>1. q = r
      <4>1. RequestInv(r) /\ (q # r => LeftAlone(q))
        BY Undisturbed
      <4> QED BY <1>4, <2>2, <4>1 DEF LeftAlone
    <3>2. balance' = balance /\ balance[a] < op[q].cost
      BY <1>4, <2>2, <3>1, AnswerChanges
    <3> QED BY <3>2
  <2> QED BY <2>1, <2>2
<1> QED BY <1>0, <1>3, <1>4

\* A checkout that commits adds one order, one job, and takes its price.
LEMMA RaceStep ==
    ASSUME TypeOK, \A q \in Requests : RequestInv(q), RaceInv,
           NEW r \in Requests, Step(r) \/ Crash(r)
    PROVE  RaceInv'
<1> SUFFICES ASSUME NEW a \in Accounts, NEW price \in Nat,
                    \A q \in Requests : op[q].kind = "checkout" /\ op[q].acct = a /\ op[q].cost = price
             PROVE  /\ balance'[a] = Opening[a] - Cardinality(Ordered') * price
                    /\ jobs' = {<<q, 1>> : q \in Ordered'}
  BY OnlyCommitWrites DEF RaceInv
<1>1. /\ balance[a] = Opening[a] - Cardinality(Ordered) * price
      /\ jobs = {<<q, 1>> : q \in Ordered}
  BY DEF RaceInv
<1>2. CASE UNCHANGED <<balance, tx, jobs>>
  <2>1. Ordered' = Ordered
    BY <1>2 DEF Ordered
  <2> QED BY <1>1, <1>2, <2>1
<1>3. CASE CommitCheckout(r)
  <2>0. CommitWork(r) /\ pc[r] = "commit" /\ op[r].kind = "checkout" /\ RequestInv(r)
    BY <1>3 DEF CommitCheckout, At
  <2>1. /\ work[r].rows = OneRow(<<r, 1>>, OrderRow(op[r])) /\ work[r].jobs = {<<r, 1>>}
        /\ work[r].delta[a] = -price
    BY <2>0 DEF RequestInv, CheckoutInv, Paid
  <2>2. DOMAIN work[r].rows = {<<r, 1>>}
    BY <2>1 DEF OneRow
  <2>3. tx'[<<r, 1>>] # NoRow /\ \A q \in Requests : q # r => tx'[<<q, 1>>] = tx[<<q, 1>>]
    <3>1. <<r, 1>> \in RowIds
      BY FirstRow
    <3>2. ASSUME NEW q \in Requests, q # r PROVE tx'[<<q, 1>>] = tx[<<q, 1>>]
      <4>1. <<q, 1>> \in RowIds /\ <<q, 1>> \notin DOMAIN work[r].rows
        BY <2>2, <3>2, FirstRow
      <4> QED BY <2>0, <4>1, Committed
    <3> QED BY <2>0, <2>2, <3>1, <3>2, Committed
  <2>4. Ordered' = Ordered \cup {r}
    BY <2>3 DEF Ordered
  <2>5. r \notin Ordered
    BY <2>0, FirstRow DEF RequestInv, FreshInv, Ordered
  <2>6. IsFiniteSet(Ordered)
    BY AccountingAssumption, FS_Subset DEF Ordered
  <2>7. Cardinality(Ordered') = Cardinality(Ordered) + 1 /\ Cardinality(Ordered) \in Nat
    BY <2>4, <2>5, <2>6, FS_AddElement, FS_CardinalityType
  <2>8. balance'[a] = balance[a] + work[r].delta[a] /\ jobs' = jobs \cup {<<r, 1>>}
    BY <2>0, <2>1, Committed
  <2>9. Opening[a] \in Int
    BY AccountingAssumption
  <2>10. (Cardinality(Ordered) + 1) * price = Cardinality(Ordered) * price + price
    <3> DEFINE n == Cardinality(Ordered)
    <3>1. n \in Nat
      BY <2>7
    <3> HIDE DEF n
    <3>2. (n + 1) * price = n * price + price
      BY <3>1
    <3> QED BY <3>2 DEF n
  <2>11. Cardinality(Ordered) * price \in Int
    BY <2>7
  <2>12. balance'[a] = Opening[a] - Cardinality(Ordered') * price
    BY <1>1, <2>1, <2>7, <2>8, <2>9, <2>10, <2>11
  <2>13. jobs' = {<<q, 1>> : q \in Ordered'}
    BY <1>1, <2>4, <2>8
  <2> QED BY <2>12, <2>13
<1>4. CASE CommitBatch(r) \/ CommitStatus(r)
  BY <1>4 DEF CommitBatch, CommitStatus, At
<1> QED BY <1>2, <1>3, <1>4, OnlyCommitWrites

-----------------------------------------------------------------------------
(* The inductive invariant.                                                *)

\* The seeded ledger satisfies the invariant.
LEMMA InitEstablishes ==
    ASSUME Init
    PROVE  IInv
<1>1. TypeOK
  <2>1. op \in [Requests -> Ops] /\ \A r \in Requests : op[r].kind \in {"checkout", "batch", "status"}
    BY AccountingAssumption DEF Init
  <2>2. pc \in [Requests -> Statements]
    BY <2>1 DEF Init, FirstStatement, Statements
  <2>3. work \in [Requests -> Works]
    BY NoWorkFields DEF Init
  <2>4. \A t \in Seeded : SeededRow[t] \in Rows /\ SeededRow[t].status \in Statuses
    BY AccountingAssumption DEF Rows
  <2>5. tx \in [RowIds -> Rows \cup {NoRow}] /\ history \in [RowIds -> SUBSET Statuses]
    BY <2>4 DEF Init
  <2>6. "none" \in Answers
    BY DEF Answers
  <2>7. balance \in [Accounts -> Int]
    BY AccountingAssumption DEF Init
  <2>8. answer \in [Requests -> Answers]
    BY <2>6 DEF Init
  <2> QED BY <2>1, <2>2, <2>3, <2>5, <2>7, <2>8 DEF Init, TypeOK
<1>2. \A q \in Requests, i \in 1..MaxEntries : tx[<<q, i>>] = NoRow
  BY RowIdOf DEF Init
<1>3. ASSUME NEW q \in Requests PROVE RequestInv(q)
  <2>1. /\ work[q] = NoWork
        /\ pc[q] = FirstStatement[op[q].kind]
        /\ \A a \in Accounts : accountLock[a] # q
        /\ \A t \in RowIds : rowLock[t] # q
    BY LedgerAssumption DEF Init
  <2>2. CheckoutInv(q) /\ BatchInv(q) /\ StatusInv(q)
    BY <2>1, NoWorkFields DEF CheckoutInv, BatchInv, StatusInv, FirstStatement, Paid
  <2>3. FreshInv(q) /\ HolderInv(q)
    BY <1>2, <2>1 DEF FreshInv, HolderInv
  <2> QED BY <2>2, <2>3 DEF RequestInv
<1>4. EventsAfterCommit
  BY DEF Init, EventsAfterCommit
<1>5. \A q \in Requests : AnswerInv(q)
  BY DEF Init, AnswerInv
<1>6. CoverInv
  BY AccountingAssumption DEF Init, CoverInv, CheckoutOnly
<1>7. RaceInv
  <2>1. Ordered = {}
    BY <1>2, FirstRow DEF Ordered
  <2>2. Cardinality(Ordered) = 0
    BY <2>1, FS_EmptySet
  <2>3. \A a \in Accounts : Opening[a] \in Int
    BY AccountingAssumption
  <2> QED BY <2>1, <2>2, <2>3 DEF Init, RaceInv
<1> QED BY <1>1, <1>3, <1>4, <1>5, <1>6, <1>7 DEF IInv

\* Every step keeps the invariant: its own request's part, and the parts of the others
\* because it leaves them what they rely on.
LEMMA StepPreserves ==
    ASSUME IInv, [Next]_vars
    PROVE  IInv'
<1>0. TypeOK'
  BY TypeStep DEF IInv
<1>1. ASSUME NEW r \in Requests, Step(r) \/ Crash(r) PROVE IInv'
  <2>1. \A q \in Requests : RequestInv(q)'
    BY <1>1, RequestStep DEF IInv
  <2>2. \A q \in Requests : AnswerInv(q)'
    BY <1>1, AnswerStep DEF IInv
  <2> QED BY <1>0, <1>1, <2>1, <2>2, EventsStep, CoverStep, RaceStep DEF IInv
<1>2. CASE UNCHANGED vars
  <2> USE <1>2 DEF vars
  <2>1. ASSUME NEW q \in Requests PROVE RequestInv(q)'
    <3>1. RequestInv(q) /\ (\A a \in Accounts : Updated(q, a)' = Updated(q, a))
      BY DEF IInv, Updated
    <3> QED BY ZenonT(60), <3>1 DEF RequestInv, CheckoutInv, BatchInv, StatusInv, FreshInv, HolderInv
  <2>2. \A q \in Requests : AnswerInv(q)'
    BY DEF IInv, AnswerInv
  <2>3. EventsAfterCommit'
    BY DEF IInv, EventsAfterCommit
  <2>4. \A a \in Accounts : CheckoutOnly(a)' = CheckoutOnly(a)
    BY DEF CheckoutOnly
  <2>5. CoverInv'
    BY <2>4 DEF IInv, CoverInv
  <2>6. RaceInv'
    BY DEF IInv, RaceInv, Ordered
  <2> QED BY <1>0, <2>1, <2>2, <2>3, <2>5, <2>6 DEF IInv
<1> QED BY <1>1, <1>2 DEF Next, AllEnded

\* All of the above holds of every reachable state of the ledger, with any number
\* of accounts, requests and entries.
THEOREM Invariance == Spec => []IInv
<1>1. Init => IInv
  BY InitEstablishes
<1>2. IInv /\ [Next]_vars => IInv'
  BY StepPreserves
<1> QED BY <1>1, <1>2, PTL DEF Spec

\* No order and no status is announced that was not committed first: neither the
\* broker (checkout.ts) nor an SSE or WebSocket client (orders.service.ts) hears of
\* something that was rolled back.
THEOREM EventsAfterCommitHolds == Spec => []EventsAfterCommit
<1>1. IInv => EventsAfterCommit
  BY DEF IInv
<1> QED BY <1>1, Invariance, PTL

\* Comparing multiples of a price compares the numbers of units.
LEMMA Units ==
    ASSUME NEW u \in Int, NEW n \in Int, NEW p \in Nat \ {0}
    PROVE  /\ u * p - n * p >= 0 => u >= n
           /\ u * p - n * p < p => u <= n
<1>1. ASSUME u < n PROVE u * p - n * p < 0
  <2>1. PICK k \in Nat \ {0} : n = u + k
    <3>1. n - u \in Nat \ {0} /\ n = u + (n - u)
      BY <1>1
    <3> QED BY <3>1
  <2>2. n * p = u * p + k * p
    BY <2>1
  <2>3. k * p > 0 /\ k * p \in Int /\ u * p \in Int
    BY <2>1
  <2> QED BY <2>2, <2>3
<1>2. ASSUME u > n PROVE u * p - n * p >= p
  <2>1. PICK k \in Nat : u = n + 1 + k
    <3>1. u - n - 1 \in Nat /\ u = n + 1 + (u - n - 1)
      BY <1>2
    <3> QED BY <3>1
  <2>2. u * p = n * p + p + k * p
    BY <2>1
  <2>3. k * p >= 0 /\ k * p \in Int /\ n * p \in Int
    BY <2>1
  <2> QED BY <2>2, <2>3
<1>3. u * p - n * p \in Int
  OBVIOUS
<1> DEFINE x == u * p - n * p
<1> QED
  <2>1. x \in Int /\ (u < n => x < 0) /\ (u > n => x >= p)
    BY <1>1, <1>2, <1>3
  <2> HIDE DEF x
  <2>2. (x >= 0 => u >= n) /\ (x < p => u <= n)
    BY <2>1
  <2> QED BY <2>2 DEF x

\* "No row ever goes negative, and exactly as many calls succeed as the starting
\* balance covered" (checkout.ts): for any number of racing requests, any price and
\* any opening balance, with every failure the model has.
THEOREM SpendsExactlyTheCoverHolds == Spec => []SpendsExactlyTheCover
<1>1. ASSUME IInv PROVE SpendsExactlyTheCover
  <2> SUFFICES ASSUME NEW a \in Accounts, CheckoutOnly(a),
                      NEW price \in 1..Opening[a], IsRace(a, price, Opening[a] \div price),
                      \A r \in Requests : answer[r] \in {"ok", "insufficient_funds"}
               PROVE  RaceVerdict(a, Opening[a] \div price)
    BY <1>1 DEF IInv, CoverInv, SpendsExactlyTheCover
  <2> DEFINE u == Opening[a] \div price
             n == Cardinality(Ordered)
             succeeded == {r \in Requests : answer[r] = "ok"}
  <2>0. Opening[a] \in Int /\ price \in Nat \ {0} /\ u \in Int
    <3>1. Opening[a] \in Int
      BY AccountingAssumption
    <3>2. price \in Nat \ {0}
      BY <3>1
    <3> QED BY <3>1, <3>2
  <2>1. \A r \in Requests : op[r].kind = "checkout" /\ op[r].acct = a /\ op[r].cost = price
    BY DEF IsRace
  <2>2. Ordered = succeeded
    BY <1>1, <2>1 DEF IInv, AnswerInv, Ordered
  <2>3. IsFiniteSet(Ordered) /\ n \in Nat
    BY AccountingAssumption, FS_Subset, FS_CardinalityType DEF Ordered
  <2>4. balance[a] = Opening[a] - n * price /\ jobs = {<<r, 1>> : r \in Ordered}
    BY <1>1, <2>0, <2>1 DEF IInv, RaceInv
  <2>5. Opening[a] = u * price /\ Cardinality(Requests) >= u
    BY DEF IsRace
  <2>6. balance[a] >= 0
    BY <1>1 DEF IInv, CoverInv
  <2>7. u >= n
    <3> HIDE DEF u, n
    <3> QED BY <2>0, <2>3, <2>4, <2>5, <2>6, Units
  <2>8. u = n
    <3>1. CASE \E r \in Requests : answer[r] = "insufficient_funds"
      <4>1. balance[a] < price
        BY <1>1, <2>1, <3>1 DEF IInv, CoverInv
      <4> HIDE DEF u, n
      <4>2. u <= n
        BY <2>0, <2>3, <2>4, <2>5, <4>1, Units
      <4> QED BY <2>0, <2>3, <2>7, <4>2
    <3>2. CASE \A r \in Requests : answer[r] = "ok"
      <4>1. Ordered = Requests
        BY <2>2, <3>2
      <4> HIDE DEF u
      <4> QED BY <2>0, <2>3, <2>5, <2>7, <4>1
    <3> QED BY <3>1, <3>2
  <2>9. balance[a] = 0
    <3> HIDE DEF u, n
    <3>1. u * price \in Int
      BY <2>0
    <3> QED BY <2>4, <2>5, <2>8, <3>1
  <2> QED BY <2>2, <2>4, <2>8, <2>9 DEF RaceVerdict, Ordered
<1> QED BY <1>1, Invariance, PTL

-----------------------------------------------------------------------------
(* Deadlocks.                                                              *)

\* Who waits for p, and for which of its locks.
LEMMA Blocking ==
    ASSUME TypeOK, NEW q \in Requests, RequestInv(q), NEW p \in BlockedBy(q)
    PROVE  \/ op[q].kind = "checkout" /\ pc[q] = "debit" /\ \E a \in Accounts : accountLock[a] = p
           \/ /\ op[q].kind = "batch" /\ pc[q] = "update"
              /\ \E i \in todo[q] : IsNext(q, i) /\ accountLock[op[q].entries[i].acct] = p
           \/ op[q].kind = "status" /\ pc[q] = "update" /\ \E a \in Accounts : accountLock[a] = p
           \/ op[q].kind = "status" /\ pc[q] = "lock" /\ \E t \in RowIds : rowLock[t] = p
<1>1. CASE At(q, "checkout", "debit")
  BY <1>1 DEF BlockedBy, At
<1>2. CASE At(q, "batch", "update")
  BY <1>2 DEF BlockedBy, At
<1>3. CASE At(q, "status", "update")
  <2> DEFINE row == tx[op[q].row]
             written == work[q].rows[op[q].row]
  <2>1. op[q].row \in RowIds /\ op[q].to \in Statuses
    BY <1>3, OpTypes DEF At
  <2>2. row \in Rows /\ written = [row EXCEPT !.status = op[q].to]
    BY <1>3, <2>1 DEF RequestInv, StatusInv, At, OneRow, TypeOK
  <2>3. written.acct \in Accounts
    BY <2>1, <2>2, RowUpdated
  <2>4. accountLock[written.acct] = p
    BY <1>3 DEF BlockedBy, At
  <2> QED BY <1>3, <2>3, <2>4 DEF At
<1>4. CASE At(q, "status", "lock")
  BY <1>4, OpTypes DEF BlockedBy, At
<1> QED BY <1>1, <1>2, <1>3, <1>4 DEF BlockedBy

\* A circle is made of batches that have updated some accounts and wait for others.
LEMMA CircleOfBatches ==
    ASSUME TypeOK, \A q \in Requests : RequestInv(q), NEW circle \in SUBSET Requests,
           \A q \in circle : BlockedBy(q) # {},
           UNION {BlockedBy(q) : q \in circle} = circle,
           NEW q \in circle
    PROVE  op[q].kind = "batch" /\ pc[q] = "update"
<1> DEFINE Holds(p) == (\E a \in Accounts : accountLock[a] = p) \/ (\E t \in RowIds : rowLock[t] = p)
<1>1. ASSUME NEW p \in circle
      PROVE  /\ \E w \in circle : p \in BlockedBy(w)
             /\ \/ op[p].kind = "batch" /\ pc[p] = "update"
                \/ op[p].kind = "status" /\ pc[p] = "update"
  <2>1. PICK w \in circle : p \in BlockedBy(w)
    OBVIOUS
  <2>2. PICK b \in BlockedBy(p) : TRUE
    OBVIOUS
  <2>3. RequestInv(w) /\ RequestInv(p) /\ w \in Requests /\ p \in Requests
    OBVIOUS
  <2>4. op[w].kind = "batch" /\ pc[w] = "update" => \A i \in todo[w] : op[w].entries[i].acct \in Accounts
    BY <2>3 DEF RequestInv, BatchInv, DeltaKeys
  <2>5. Holds(p)
    BY <2>1, <2>3, <2>4, Blocking
  <2>6. /\ op[p].kind = "checkout" => pc[p] \in Paid
        /\ op[p].kind = "batch" => pc[p] = "update"
        /\ op[p].kind = "status" => pc[p] \in {"update", "commit"}
    BY <2>3, <2>5 DEF RequestInv, HolderInv
  <2>7. \/ op[p].kind = "checkout" /\ pc[p] = "debit"
        \/ op[p].kind = "batch" /\ pc[p] = "update"
        \/ op[p].kind = "status" /\ pc[p] \in {"update", "lock"}
    BY <2>2, <2>3, Blocking
  <2> QED BY <2>1, <2>6, <2>7 DEF Paid
<1>2. CASE op[q].kind = "status"
  <2>1. PICK w \in circle : q \in BlockedBy(w)
    BY <1>1
  <2>2. RequestInv(w) /\ RequestInv(q) /\ w \in Requests /\ q \in Requests
    OBVIOUS
  <2>3. pc[q] = "update" /\ pc[w] = "update"
    BY <1>1, <1>2
  <2>4. op[w].kind = "batch" /\ pc[w] = "update" => \A i \in todo[w] : op[w].entries[i].acct \in Accounts
    BY <2>2 DEF RequestInv, BatchInv, DeltaKeys
  <2>5. \E a \in Accounts : accountLock[a] = q
    BY <2>1, <2>2, <2>3, <2>4, Blocking
  <2>6. pc[q] = "commit"
    BY <1>2, <2>2, <2>5 DEF RequestInv, HolderInv
  <2> QED BY <2>3, <2>6
<1> QED BY <1>1, <1>2

\* The UPDATEs of `for (const [id, delta] of deltas)` (transactions.service.ts) are
\* the only ones that hold one account and wait for another: a circle of waiting
\* requests consists of batches whose entries name the accounts in conflicting
\* orders.
THEOREM OnlyCrossedBatchesDeadlockHolds == Spec => []OnlyCrossedBatchesDeadlock
<1>1. ASSUME IInv PROVE OnlyCrossedBatchesDeadlock
  <2> SUFFICES ASSUME NEW r \in Requests, InDeadlock(r)
               PROVE  op[r].kind = "batch" /\ ~ConsistentOrders
    BY DEF OnlyCrossedBatchesDeadlock
  <2>0. TypeOK /\ \A q \in Requests : RequestInv(q)
    BY <1>1 DEF IInv
  <2>1. PICK circle \in SUBSET Requests :
          /\ r \in circle
          /\ \A q \in circle : BlockedBy(q) # {}
          /\ UNION {BlockedBy(q) : q \in circle} = circle
    BY DEF InDeadlock
  <2>2. \A q \in circle : op[q].kind = "batch" /\ pc[q] = "update"
    BY <2>0, <2>1, CircleOfBatches
  <2>3. SUFFICES ASSUME ConsistentOrders PROVE FALSE
    BY <2>1, <2>2
  <2>4. PICK rank \in [Accounts -> 1..Cardinality(Accounts)] :
          \A q \in Requests : op[q].kind = "batch" =>
            \A i, k \in DeltaKeys(op[q].entries) :
                i < k /\ {op[q].entries[i].acct, op[q].entries[k].acct} \subseteq Accounts
                    => rank[op[q].entries[i].acct] < rank[op[q].entries[k].acct]
    BY <2>3 DEF ConsistentOrders
  <2>5. \A a \in Accounts : rank[a] \in Nat
    <3>1. Cardinality(Accounts) \in Nat
      BY AccountingAssumption, FS_CardinalityType
    <3> QED BY <2>4, <3>1
  <2> DEFINE A(q, i) == op[q].entries[i].acct
             Wanted == {n \in Nat : \E q \in circle : \E i \in todo[q] : IsNext(q, i) /\ n = rank[A(q, i)]}
  <2>6. ASSUME NEW q \in circle
        PROVE  \E i \in todo[q] : IsNext(q, i)
    <3>1. PICK b \in BlockedBy(q) : TRUE
      BY <2>1
    <3> QED BY <2>0, <2>2, <3>1, Blocking
  <2>7. ASSUME NEW q \in circle
        PROVE  /\ todo[q] \subseteq DeltaKeys(op[q].entries)
               /\ \A i \in DeltaKeys(op[q].entries) : A(q, i) \in Accounts
               /\ \A i \in DeltaKeys(op[q].entries) \ todo[q], k \in todo[q] : i < k
    <3>1. RequestInv(q) /\ op[q].kind = "batch" /\ pc[q] = "update"
      BY <2>0, <2>2
    <3> QED BY <3>1 DEF RequestInv, BatchInv, DeltaKeys
  <2>8. Wanted # {}
    <3>1. PICK i \in todo[r] : IsNext(r, i)
      BY <2>1, <2>6
    <3>2. A(r, i) \in Accounts
      BY <2>1, <2>7
    <3>3. rank[A(r, i)] \in Wanted
      BY <2>1, <2>5, <3>1, <3>2
    <3> QED BY <3>3
  <2>9. PICK m \in Wanted : \A n \in Wanted : m <= n
    <3>1. Wanted \subseteq Nat
      OBVIOUS
    <3> HIDE DEF Wanted
    <3> QED BY <2>8, <3>1, SmallestNumber
  <2>q. PICK q \in circle : \E i \in todo[q] : IsNext(q, i) /\ m = rank[A(q, i)]
    BY <2>9
  <2>10. PICK i \in todo[q] : IsNext(q, i) /\ m = rank[A(q, i)]
    BY <2>q
  <2>11. PICK w \in circle : q \in BlockedBy(w)
    BY <2>1
  <2>12. PICK k \in todo[w] : IsNext(w, k) /\ accountLock[A(w, k)] = q
    BY <2>0, <2>2, <2>11, Blocking
  <2>13. A(w, k) \in Accounts
    BY <2>7
  <2>14. Updated(q, A(w, k))
    <3>1. RequestInv(q) /\ op[q].kind = "batch"
      BY <2>0, <2>2
    <3> QED BY <2>12, <2>13, <3>1 DEF RequestInv, HolderInv
  <2>15. PICK j \in DeltaKeys(op[q].entries) \ todo[q] : A(q, j) = A(w, k)
    BY <2>14 DEF Updated
  <2>16. rank[A(q, j)] < rank[A(q, i)]
    <3>1. j < i /\ A(q, j) \in Accounts /\ A(q, i) \in Accounts /\ i \in DeltaKeys(op[q].entries)
      BY <2>7, <2>10, <2>15
    <3> QED BY <2>2, <2>4, <3>1
  <2>17. rank[A(w, k)] \in Wanted
    BY <2>5, <2>12, <2>13
  <2>18. m <= rank[A(w, k)] /\ rank[A(w, k)] < m /\ m \in Nat /\ rank[A(w, k)] \in Nat
    <3>1. m \in Nat
      BY <2>9
    <3> HIDE DEF Wanted
    <3> QED BY <2>5, <2>9, <2>10, <2>13, <2>15, <2>16, <2>17, <3>1
  <2> QED BY <2>18
<1> QED BY <1>1, Invariance, PTL

-----------------------------------------------------------------------------
(* The refinement.                                                         *)

\* Every account a batch names has its key.
LEMMA KeyExists ==
    ASSUME TypeOK, NEW r \in Requests, op[r].kind = "batch", NEW i \in DOMAIN op[r].entries
    PROVE  \E k \in DeltaKeys(op[r].entries) : op[r].entries[k].acct = op[r].entries[i].acct
<1> DEFINE same == {k \in DOMAIN op[r].entries : op[r].entries[k].acct = op[r].entries[i].acct}
<1>1. same \subseteq Nat /\ same # {}
  BY OpTypes
<1>2. PICK m \in same : \A n \in same : m <= n
  <2> HIDE DEF same
  <2> QED BY <1>1, SmallestNumber
<1> QED BY <1>2 DEF DeltaKeys

\* AtomicLedger speaks of the same rows and sums.
LEMMA SameVocabulary ==
    /\ AL!RowIds = RowIds
    /\ \A o : AL!OrderRow(o) = OrderRow(o)
    /\ \A r, entries : AL!BatchRows(r, entries) = BatchRows(r, entries)
    /\ \A entries, a : AL!BatchDelta(entries, a) = BatchDelta(entries, a)
    /\ \A row, to : AL!StatusDelta(row, to) = StatusDelta(row, to)
<1>1. AL!RowIds = RowIds
  BY DEF AL!RowIds, RowIds
<1>2. \A o : AL!OrderRow(o) = OrderRow(o)
  BY DEF AL!OrderRow, OrderRow, AL!Row, Row
<1>3. \A r, entries : AL!BatchRows(r, entries) = BatchRows(r, entries)
  BY DEF AL!BatchRows, BatchRows, AL!Row, Row
<1>4. AL!SIGN = SIGN
  BY DEF AL!SIGN, SIGN
<1>5. \A entries, a : AL!BatchDelta(entries, a) = BatchDelta(entries, a)
  BY ZenonT(60), <1>4 DEF AL!BatchDelta, BatchDelta
<1>6. \A row : AL!Booked(row) = Booked(row)
  BY <1>4 DEF AL!Booked, Booked
<1>7. \A row, to : AL!StatusDelta(row, to) = StatusDelta(row, to)
  BY <1>6 DEF AL!StatusDelta, StatusDelta
<1> QED BY <1>1, <1>2, <1>3, <1>5, <1>7

\* The COMMIT of a checkout is one Purchase of the atomic ledger.
LEMMA CheckoutIsPurchase ==
    ASSUME TypeOK, NEW r \in Requests, RequestInv(r), CommitCheckout(r)
    PROVE  AL!Purchase(r, op[r])
<1> DEFINE o == op[r]
<1>0. CommitWork(r) /\ pc[r] = "commit" /\ o.kind = "checkout"
  BY DEF CommitCheckout, At
<1>1. /\ work[r].rows = OneRow(<<r, 1>>, OrderRow(o)) /\ work[r].jobs = {<<r, 1>>}
      /\ \A a \in Accounts : work[r].delta[a] = IF a = o.acct THEN -o.cost ELSE 0
      /\ o.acct \in Accounts /\ o.acct \in Quoted /\ balance[o.acct] >= o.cost
  BY <1>0 DEF RequestInv, CheckoutInv, Paid
<1>2. tx[<<r, 1>>] = NoRow
  BY <1>0, FirstRow DEF RequestInv, FreshInv
<1>3. DOMAIN work[r].rows = {<<r, 1>>} /\ work[r].rows[<<r, 1>>] = OrderRow(o)
  BY <1>1 DEF OneRow
<1>4. o.cost \in Nat /\ balance \in [Accounts -> Int] /\ tx \in [RowIds -> Rows \cup {NoRow}]
  BY <1>0, OpTypes DEF TypeOK
<1>5. balance' = [balance EXCEPT ![o.acct] = @ - o.cost]
  <2>1. balance' \in [Accounts -> Int] /\ \A a \in Accounts : balance'[a] = balance[a] + work[r].delta[a]
    BY <1>0, Committed
  <2> QED BY <1>1, <1>4, <2>1
<1>6. tx' = [tx EXCEPT ![<<r, 1>>] = OrderRow(o)]
  <2>1. /\ tx' \in [RowIds -> Rows \cup {NoRow}]
        /\ \A t \in RowIds : t \in DOMAIN work[r].rows => tx'[t] = work[r].rows[t]
        /\ \A t \in RowIds : t \notin DOMAIN work[r].rows => tx'[t] = tx[t]
    BY <1>0, Committed
  <2>2. \A t \in RowIds : tx'[t] = IF t = <<r, 1>> THEN OrderRow(o) ELSE tx[t]
    BY <1>3, <2>1
  <2> DEFINE id == <<r, 1>>
             new == OrderRow(o)
  <2> HIDE DEF id, new
  <2>3. tx' = [tx EXCEPT ![id] = new]
    BY <1>4, <2>1, <2>2 DEF id, new
  <2> QED BY <2>3 DEF id, new
<1>7. jobs' = jobs \cup {<<r, 1>>}
  BY <1>0, <1>1, Committed
<1> QED BY <1>0, <1>1, <1>2, <1>5, <1>6, <1>7, SameVocabulary DEF AL!Purchase

\* The COMMIT of a batch is one Book of the atomic ledger.
LEMMA BatchIsBook ==
    ASSUME TypeOK, NEW r \in Requests, RequestInv(r), CommitBatch(r)
    PROVE  AL!Book(r, op[r])
<1> DEFINE entries == op[r].entries
           rows == BatchRows(r, entries)
<1>0. CommitWork(r) /\ pc[r] = "update" /\ op[r].kind = "batch" /\ todo[r] = {}
  BY DEF CommitBatch, At
<1>1. /\ work[r].rows = rows /\ work[r].jobs = {}
      /\ work[r].delta = [a \in Accounts |-> IF Updated(r, a) THEN BatchDelta(entries, a) ELSE 0]
      /\ \A i \in DOMAIN entries : entries[i].acct \in Quoted
      /\ \A i \in DOMAIN entries : entries[i].acct \in Accounts
  BY <1>0 DEF RequestInv, BatchInv
<1>2. \A i \in DOMAIN entries : tx[<<r, i>>] = NoRow
  BY <1>0, <1>1, BatchRowsType DEF RequestInv, FreshInv
<1>3. ASSUME NEW a \in Accounts PROVE work[r].delta[a] = BatchDelta(entries, a)
  <2>1. CASE Updated(r, a)
    BY <1>1, <2>1
  <2>2. CASE ~Updated(r, a)
    <3>1. \A i \in DOMAIN entries : entries[i].acct # a
      BY <1>0, <2>2, KeyExists DEF Updated
    <3>2. BatchDelta(entries, a) = 0
      BY <1>0, <3>1, BatchSums
    <3> QED BY <1>1, <2>2, <3>2
  <2> QED BY <2>1, <2>2
<1>4. balance' = [a \in Accounts |-> balance[a] + BatchDelta(entries, a)]
  <2>1. balance' = [a \in Accounts |-> balance[a] + work[r].delta[a]]
    BY <1>0 DEF CommitWork
  <2> QED BY <1>3, <2>1
<1>5. tx' = [t \in RowIds |-> IF t \in DOMAIN rows THEN rows[t] ELSE tx[t]]
  <2> HIDE DEF rows
  <2> QED BY <1>0, <1>1 DEF CommitWork
<1>6. jobs' = jobs
  BY <1>0, <1>1, Committed
<1> QED BY <1>0, <1>1, <1>2, <1>4, <1>5, <1>6, SameVocabulary DEF AL!Book

\* The COMMIT of a status change is one SetStatus of the atomic ledger.
LEMMA StatusIsSetStatus ==
    ASSUME TypeOK, NEW r \in Requests, RequestInv(r), CommitStatus(r)
    PROVE  AL!SetStatus(op[r])
<1> DEFINE o == op[r]
           row == tx[op[r].row]
           new == [row EXCEPT !.status = o.to]
           d == StatusDelta(row, o.to)
<1>0. CommitWork(r) /\ pc[r] = "commit" /\ o.kind = "status"
  BY DEF CommitStatus, At
<1>1. /\ row # NoRow /\ work[r].rows = OneRow(o.row, new) /\ work[r].jobs = {}
      /\ \A a \in Accounts : work[r].delta[a] = IF a = row.acct THEN d ELSE 0
  BY <1>0 DEF RequestInv, StatusInv
<1>2. o.row \in RowIds /\ o.to \in Statuses
  BY <1>0, OpTypes
<1>3. row \in Rows /\ balance \in [Accounts -> Int] /\ tx \in [RowIds -> Rows \cup {NoRow}]
  BY <1>1, <1>2 DEF TypeOK
<1>4. row.acct \in Accounts /\ Booked(row) \in Int
  BY <1>2, <1>3, RowUpdated
<1>5. d \in Int
  BY <1>4 DEF StatusDelta
<1>6. balance' = [balance EXCEPT ![row.acct] = @ + d]
  <2>1. balance' \in [Accounts -> Int] /\ \A a \in Accounts : balance'[a] = balance[a] + work[r].delta[a]
    BY <1>0, Committed
  <2> HIDE DEF row, d
  <2> QED BY <1>1, <1>3, <1>4, <1>5, <2>1
<1>7. tx' = [tx EXCEPT ![o.row].status = o.to]
  <2>1. /\ tx' \in [RowIds -> Rows \cup {NoRow}]
        /\ \A t \in RowIds : t \in DOMAIN work[r].rows => tx'[t] = work[r].rows[t]
        /\ \A t \in RowIds : t \notin DOMAIN work[r].rows => tx'[t] = tx[t]
    BY <1>0, Committed
  <2>2. DOMAIN work[r].rows = {o.row} /\ work[r].rows[o.row] = new
    BY <1>1 DEF OneRow
  <2>3. \A t \in RowIds : tx'[t] = IF t = o.row THEN new ELSE tx[t]
    BY <2>1, <2>2
  <2>4. tx' = [tx EXCEPT ![o.row] = new]
    <3> HIDE DEF new
    <3> QED BY <1>2, <1>3, <2>1, <2>3
  <2> QED BY <2>4
<1>8. jobs' = jobs
  BY <1>0, <1>1, Committed
<1> QED BY <1>0, <1>1, <1>6, <1>7, <1>8, SameVocabulary DEF AL!SetStatus

\* "Either all three land or none of them does" (checkout.ts), "either every entries
\* row is created, or none" (transactions.service.ts): the statements, locks,
\* rollbacks, deadlocks and crashes of any number of requests amount to a ledger on
\* which each request acts in one step or not at all.
THEOREM ImplementsAtomicLedgerHolds == Spec => ImplementsAtomicLedger
<1>1. Init => AL!Init
  BY SameVocabulary DEF Init, AL!Init
<1>2. IInv /\ [Next]_vars => [AL!Next]_(AL!alVars)
  <2> SUFFICES ASSUME IInv, [Next]_vars PROVE [AL!Next]_(AL!alVars)
    OBVIOUS
  <2>1. ASSUME NEW r \in Requests, Step(r) \/ Crash(r) PROVE [AL!Next]_(AL!alVars)
    <3>0. TypeOK /\ RequestInv(r) /\ op[r] \in Ops
      BY OpTypes DEF IInv
    <3>1. CASE UNCHANGED <<balance, tx, jobs>>
      BY <3>1 DEF AL!alVars
    <3>2. CASE CommitCheckout(r)
      BY <3>0, <3>2, CheckoutIsPurchase DEF AL!Next
    <3>3. CASE CommitBatch(r)
      BY <3>0, <3>3, BatchIsBook DEF AL!Next
    <3>4. CASE CommitStatus(r)
      BY <3>0, <3>4, StatusIsSetStatus DEF AL!Next
    <3> QED BY <2>1, <3>1, <3>2, <3>3, <3>4, OnlyCommitWrites
  <2>2. CASE UNCHANGED vars
    BY <2>2 DEF vars, AL!alVars
  <2> QED BY <2>1, <2>2 DEF Next, AllEnded
<1> QED BY <1>1, <1>2, Invariance, PTL DEF Spec, ImplementsAtomicLedger, AL!Spec

-----------------------------------------------------------------------------
(* The balance and the rows.                                               *)

\* What every row contributes to account a.
Contributions(a) == [t \in RowIds |-> Counted(tx[t], a)]

\* There are finitely many rows to add up.
LEMMA RowIdsFinite == IsFiniteSet(RowIds)
<1>1. IsFiniteSet(1..MaxEntries)
  <2>1. MaxEntries \in Nat /\ 1 \in Int /\ MaxEntries \in Int
    BY AccountingAssumption
  <2> QED BY <2>1, FS_Interval
<1>2. IsFiniteSet(Requests \X (1..MaxEntries))
  BY <1>1, AccountingAssumption, FS_Product
<1> QED BY <1>2, AccountingAssumption, FS_Union DEF RowIds

\* A row counts with an integer amount.
LEMMA CountedType ==
    ASSUME NEW row \in Rows \cup {NoRow}, NEW a
    PROVE  Counted(row, a) \in Int
<1>1. CASE row \in Rows
  <2>1. SIGN[row.type] \in Int /\ row.cents \in Nat
    BY <1>1 DEF Rows, SIGN
  <2>2. Booked(row) \in Int
    BY <2>1 DEF Booked
  <2> QED BY <2>2 DEF Counted
<1>2. CASE row = NoRow
  BY <1>2 DEF Counted
<1> QED BY <1>1, <1>2

\* Every row contributes an integer to an account.
LEMMA ContributionsType ==
    ASSUME NEW a, NEW rows \in [RowIds -> Rows \cup {NoRow}]
    PROVE  [t \in RowIds |-> Counted(rows[t], a)] \in [RowIds -> Int]
BY CountedType

\* COMMIT of one row changes the sum by what the row's contribution changes.
LEMMA OneRowSum ==
    ASSUME TypeOK, TypeOK', NEW a, NEW t \in RowIds,
           \A u \in RowIds : u # t => tx'[u] = tx[u]
    PROVE  /\ SumFunction(Contributions(a)) \in Int
           /\ SumFunction(Contributions(a)')
                = SumFunction(Contributions(a)) - Counted(tx[t], a) + Counted(tx'[t], a)
<1> DEFINE f == Contributions(a)
           g == Contributions(a)'
<1>1. f \in [RowIds -> Int] /\ g \in [RowIds -> Int]
  BY ZenonT(60), ContributionsType DEF Contributions, TypeOK
<1>2. f[t] = Counted(tx[t], a) /\ g[t] = Counted(tx'[t], a) /\ \A u \in RowIds : u # t => g[u] = f[u]
  BY DEF Contributions
<1> HIDE DEF f, g
<1>3. SumFunction(f) \in Int /\ SumFunction(g) = SumFunction(f) - f[t] + g[t]
  BY <1>1, <1>2, RowIdsFinite, SumPoint
<1> QED BY <1>2, <1>3 DEF f, g

\* The order of a checkout adds its cost, negated, to what the rows book.
LEMMA CheckoutSum ==
    ASSUME TypeOK, TypeOK', NEW r \in Requests, RequestInv(r), CommitCheckout(r), NEW a \in Accounts
    PROVE  /\ SumFunction(Contributions(a)) \in Int
           /\ SumFunction(Contributions(a)') = SumFunction(Contributions(a)) + work[r].delta[a]
<1> DEFINE o == op[r]
<1>0. CommitWork(r) /\ pc[r] = "commit" /\ o.kind = "checkout"
  BY DEF CommitCheckout, At
<1>1. /\ work[r].rows = OneRow(<<r, 1>>, OrderRow(o))
      /\ work[r].delta[a] = IF a = o.acct THEN -o.cost ELSE 0
      /\ o.acct \in Accounts
  BY <1>0 DEF RequestInv, CheckoutInv, Paid
<1>2. tx[<<r, 1>>] = NoRow /\ <<r, 1>> \in RowIds
  BY <1>0, FirstRow DEF RequestInv, FreshInv
<1>3. DOMAIN work[r].rows = {<<r, 1>>} /\ work[r].rows[<<r, 1>>] = OrderRow(o)
  BY <1>1 DEF OneRow
<1>4. tx'[<<r, 1>>] = OrderRow(o) /\ \A u \in RowIds : u # <<r, 1>> => tx'[u] = tx[u]
  BY <1>0, <1>2, <1>3, Committed
<1>5. OrderRow(o) \in Rows /\ OrderRow(o) # NoRow /\ o.cost \in Nat
  BY <1>0, <1>1, OrderRowType, OpTypes, AccountingAssumption
<1>6. Counted(OrderRow(o), a) = IF a = o.acct THEN -o.cost ELSE 0
  <2>1. /\ OrderRow(o).acct = o.acct /\ OrderRow(o).status = "posted"
        /\ OrderRow(o).type = "buy" /\ OrderRow(o).cents = o.cost
    BY DEF OrderRow, Row
  <2>2. SIGN["buy"] = -1
    BY DEF SIGN
  <2>3. Booked(OrderRow(o)) = -o.cost
    BY <1>5, <2>1, <2>2 DEF Booked
  <2> QED BY <1>5, <2>1, <2>3 DEF Counted
<1>7. Counted(tx[<<r, 1>>], a) = 0
  BY <1>2 DEF Counted
<1>8. /\ SumFunction(Contributions(a)) \in Int
      /\ SumFunction(Contributions(a)')
           = SumFunction(Contributions(a)) - Counted(tx[<<r, 1>>], a) + Counted(tx'[<<r, 1>>], a)
  BY <1>2, <1>4, OneRowSum
<1>9. work[r].delta[a] \in Int
  BY <1>1, <1>5
<1> QED BY <1>1, <1>4, <1>6, <1>7, <1>8, <1>9

\* A status change moves what the rows book by StatusDelta.
LEMMA StatusSum ==
    ASSUME TypeOK, TypeOK', NEW r \in Requests, RequestInv(r), CommitStatus(r), NEW a \in Accounts
    PROVE  /\ SumFunction(Contributions(a)) \in Int
           /\ SumFunction(Contributions(a)') = SumFunction(Contributions(a)) + work[r].delta[a]
<1> DEFINE o == op[r]
           row == tx[op[r].row]
           new == [row EXCEPT !.status = o.to]
<1>0. CommitWork(r) /\ pc[r] = "commit" /\ o.kind = "status"
  BY DEF CommitStatus, At
<1>1. /\ row # NoRow /\ work[r].rows = OneRow(o.row, new)
      /\ work[r].delta[a] = IF a = row.acct THEN StatusDelta(row, o.to) ELSE 0
  BY <1>0 DEF RequestInv, StatusInv
<1>2. o.row \in RowIds /\ o.to \in Statuses
  BY <1>0, OpTypes
<1>3. row \in Rows
  BY <1>1, <1>2 DEF TypeOK
<1>4. /\ new \in Rows /\ new.acct = row.acct /\ new.status = o.to
      /\ Booked(new) = Booked(row) /\ Booked(row) \in Int
  BY <1>2, <1>3, RowUpdated
<1>5. DOMAIN work[r].rows = {o.row} /\ work[r].rows[o.row] = new
  BY <1>1 DEF OneRow
<1>6. tx'[o.row] = new /\ \A u \in RowIds : u # o.row => tx'[u] = tx[u]
  <2> HIDE DEF new
  <2> QED BY <1>0, <1>2, <1>5, Committed
<1>7. new # NoRow
  BY <1>4, AccountingAssumption
<1> HIDE DEF new, row
<1>8. Counted(new, a) = Counted(row, a) + work[r].delta[a] /\ Counted(row, a) \in Int
      /\ work[r].delta[a] \in Int
  <2>1. Counted(row, a) = IF row.acct = a /\ row.status = "posted" THEN Booked(row) ELSE 0
    BY <1>1 DEF Counted
  <2>2. Counted(new, a) = IF row.acct = a /\ o.to = "posted" THEN Booked(row) ELSE 0
    BY <1>4, <1>7 DEF Counted
  <2>3. CASE row.acct = a
    BY <1>1, <1>4, <2>1, <2>2, <2>3 DEF StatusDelta
  <2>4. CASE row.acct # a
    BY <1>1, <2>1, <2>2, <2>4
  <2> QED BY <2>3, <2>4
<1>9. /\ SumFunction(Contributions(a)) \in Int
      /\ SumFunction(Contributions(a)')
           = SumFunction(Contributions(a)) - Counted(row, a) + Counted(new, a)
  BY <1>2, <1>6, OneRowSum DEF row
<1> QED BY <1>8, <1>9

\* The rows of a batch add up to the deltas of its UPDATEs.
LEMMA BatchSum ==
    ASSUME TypeOK, TypeOK', NEW r \in Requests, RequestInv(r), CommitBatch(r), NEW a \in Accounts
    PROVE  /\ SumFunction(Contributions(a)) \in Int
           /\ SumFunction(Contributions(a)') = SumFunction(Contributions(a)) + BatchDelta(op[r].entries, a)
<1> DEFINE entries == op[r].entries
           N == Len(entries)
           F(m) == [t \in RowIds |-> IF \E i \in 1..m : t = <<r, i>>
                                     THEN Counted(tx'[t], a) ELSE Counted(tx[t], a)]
<1>0. CommitWork(r) /\ pc[r] = "update" /\ op[r].kind = "batch"
  BY DEF CommitBatch, At
<1>1. /\ work[r].rows = BatchRows(r, entries)
      /\ \A i \in DOMAIN entries : entries[i].acct \in Accounts
  BY <1>0 DEF RequestInv, BatchInv
<1>2. /\ MaxEntries \in Nat /\ N \in Nat /\ N <= MaxEntries /\ DOMAIN entries = 1..N
      /\ \A i \in 1..N : entries[i].type \in DOMAIN SIGN /\ entries[i].cents \in Nat
  BY <1>0, OpTypes, AccountingAssumption
<1>3. DOMAIN work[r].rows = {r} \X (1..N)
  BY <1>0, <1>1, <1>2, BatchRowsType
<1>4. ASSUME NEW i \in 1..N
      PROVE  /\ <<r, i>> \in RowIds /\ <<r, i>> \in DOMAIN work[r].rows
             /\ Counted(tx[<<r, i>>], a) = 0
             /\ Counted(tx'[<<r, i>>], a) = EntryTerm(entries, a, i)
  <2>0. i \in 1..MaxEntries /\ i \in DOMAIN entries
    BY <1>2
  <2>1. <<r, i>> \in RowIds /\ <<r, i>> \in DOMAIN work[r].rows
    BY <1>3, <2>0, RowIdOf
  <2>2. tx[<<r, i>>] = NoRow
    BY <1>0, <2>0 DEF RequestInv, FreshInv
  <2> DEFINE row == Row(entries[i].acct, entries[i].type, entries[i].cents, "posted")
  <2>3. tx'[<<r, i>>] = row /\ tx'[<<r, i>>] # NoRow
    <3>1. work[r].rows[<<r, i>>] = row
      BY <1>1, <2>0 DEF BatchRows
    <3> HIDE DEF row
    <3> QED BY <1>0, <2>1, <3>1, Committed
  <2>4. /\ row.acct = entries[i].acct /\ row.type = entries[i].type
        /\ row.cents = entries[i].cents /\ row.status = "posted"
    BY DEF Row
  <2>5. Counted(tx'[<<r, i>>], a) = EntryTerm(entries, a, i)
    <3> HIDE DEF row
    <3> QED BY <2>3, <2>4 DEF Counted, EntryTerm, Booked
  <2> QED BY <2>1, <2>2, <2>5 DEF Counted
<1>5. \A t \in RowIds : t \notin {r} \X (1..N) => tx'[t] = tx[t]
  BY <1>0, <1>3, Committed
<1>6. F(0) = Contributions(a) /\ F(N) = Contributions(a)'
  <2>1. F(0) = Contributions(a)
    BY DEF Contributions
  <2>2. ASSUME NEW t \in RowIds
        PROVE  (IF \E i \in 1..N : t = <<r, i>> THEN Counted(tx'[t], a) ELSE Counted(tx[t], a))
                 = Counted(tx'[t], a)
    BY <1>5
  <2>3. F(N) = [t \in RowIds |-> Counted(tx'[t], a)]
    BY <2>2
  <2> QED BY <2>1, <2>3 DEF Contributions
<1>7. ASSUME NEW m \in 0..N PROVE F(m) \in [RowIds -> Int]
  <2>1. \A t \in RowIds : Counted(tx[t], a) \in Int /\ Counted(tx'[t], a) \in Int
    BY CountedType DEF TypeOK
  <2> QED BY <2>1
<1>8. PICK s : /\ s[0] = 0
               /\ \A n \in 0..N : s[n] \in Int
               /\ \A n \in 1..N : s[n] = s[n - 1] + EntryTerm(entries, a, n)
               /\ BatchDelta(entries, a) = s[N]
  BY <1>2, BatchDeltaPrefixes
<1>9. \A n \in 1..N : EntryTerm(entries, a, n) \in Int
  BY <1>2, BatchDeltaPrefixes
<1> DEFINE S(m) == SumFunction(F(m))
<1>10. ASSUME NEW m \in 1..N
       PROVE  S(m - 1) \in Int /\ S(m) = S(m - 1) + EntryTerm(entries, a, m)
  <2> DEFINE f == F(m - 1)
             g == F(m)
             id == <<r, m>>
  <2>0. m - 1 \in 0..N /\ m \in 0..N
    BY <1>2
  <2>1. f \in [RowIds -> Int] /\ g \in [RowIds -> Int]
    BY <1>7, <2>0
  <2>2. id \in RowIds
    BY <1>4
  <2>3. f[id] = 0 /\ g[id] = EntryTerm(entries, a, m)
    <3>1. ~ \E i \in 1..(m - 1) : id = <<r, i>>
      BY <1>2
    <3>2. \E i \in 1..m : id = <<r, i>>
      BY <1>2
    <3>3. f[id] = Counted(tx[id], a) /\ g[id] = Counted(tx'[id], a)
      BY <2>2, <3>1, <3>2
    <3> QED BY <1>4, <3>3
  <2>4. ASSUME NEW u \in RowIds, u # id PROVE g[u] = f[u]
    <3>1. (\E i \in 1..(m - 1) : u = <<r, i>>) <=> (\E i \in 1..m : u = <<r, i>>)
      BY <1>2, <2>4
    <3> QED BY <3>1
  <2> HIDE DEF f, g, id
  <2>5. SumFunction(f) \in Int /\ SumFunction(g) = SumFunction(f) - f[id] + g[id]
    BY <2>1, <2>2, <2>4, RowIdsFinite, SumPoint
  <2>6. SumFunction(g) = SumFunction(f) + EntryTerm(entries, a, m)
    BY <1>9, <2>3, <2>5
  <2> QED BY <2>5, <2>6 DEF f, g
<1>11. S(0) \in Int
  <2>1. F(0) \in [RowIds -> Int] /\ <<r, 1>> \in RowIds
    BY <1>2, <1>7, FirstRow
  <2> HIDE DEF F
  <2> QED BY <2>1, RowIdsFinite, SumPoint
<1> HIDE DEF S, F
<1>12. \A m \in 0..N : S(m) = S(0) + s[m]
  <2> DEFINE B == {m \in 0..N : S(m) # S(0) + s[m]}
  <2>1. SUFFICES ASSUME B # {} PROVE FALSE
    OBVIOUS
  <2>2. PICK m \in B : \A n \in B : m <= n
    <3>1. B \subseteq Nat
      BY <1>2
    <3> HIDE DEF B
    <3> QED BY <2>1, <3>1, SmallestNumber
  <2>3. m \in 0..N /\ S(m) # S(0) + s[m]
    BY <2>2
  <2>4. m # 0
    BY <1>8, <1>11, <2>3
  <2>5. m \in 1..N /\ m - 1 \in 0..N /\ ~(m <= m - 1)
    BY <1>2, <2>3, <2>4
  <2>6. S(m - 1) = S(0) + s[m - 1]
    BY <2>2, <2>5
  <2>7. S(m) = S(m - 1) + EntryTerm(entries, a, m) /\ s[m] = s[m - 1] + EntryTerm(entries, a, m)
    BY <1>8, <1>10, <2>5
  <2>8. s[m - 1] \in Int /\ EntryTerm(entries, a, m) \in Int
    BY <1>8, <1>9, <2>5
  <2> QED BY <1>11, <2>3, <2>6, <2>7, <2>8
<1>13. S(N) = S(0) + s[N]
  BY <1>2, <1>12
<1>14. S(0) = SumFunction(Contributions(a)) /\ S(N) = SumFunction(Contributions(a)')
  BY <1>6 DEF S
<1> QED BY <1>8, <1>11, <1>13, <1>14

\* A COMMIT changes balances and rows by the same amounts, and nothing else changes either.
LEMMA BalanceStep ==
    ASSUME IInv, IInv', BalanceMatchesLedger, [Next]_vars
    PROVE  BalanceMatchesLedger'
<1> DEFINE opened(a) == [t \in RowIds |-> Counted(IF t \in Seeded THEN SeededRow[t] ELSE NoRow, a)]
<1>1. SUFFICES ASSUME NEW a \in Accounts
               PROVE  balance'[a] - SumFunction(Contributions(a)') = Opening[a] - SumFunction(opened(a))
  BY DEF BalanceMatchesLedger, Contributions
<1>2. balance[a] - SumFunction(Contributions(a)) = Opening[a] - SumFunction(opened(a))
  BY DEF BalanceMatchesLedger, Contributions
<1> HIDE DEF opened
<1>3. CASE UNCHANGED <<balance, tx>>
  <2>1. Contributions(a)' = Contributions(a)
    BY <1>3 DEF Contributions
  <2> QED BY <1>2, <1>3, <2>1
<1>4. ASSUME NEW r \in Requests, CommitCheckout(r) \/ CommitBatch(r) \/ CommitStatus(r)
      PROVE  balance'[a] - SumFunction(Contributions(a)') = Opening[a] - SumFunction(opened(a))
  <2>0. TypeOK /\ TypeOK' /\ RequestInv(r)
    BY DEF IInv
  <2>1. CommitWork(r)
    BY <1>4 DEF CommitCheckout, CommitBatch, CommitStatus
  <2>2. balance'[a] = balance[a] + work[r].delta[a] /\ balance[a] \in Int /\ balance'[a] \in Int
    BY <2>0, <2>1, Committed DEF TypeOK
  <2>3. work[r].delta[a] \in Int
    BY <2>0 DEF TypeOK, Works
  <2>4. /\ SumFunction(Contributions(a)) \in Int
        /\ SumFunction(Contributions(a)') = SumFunction(Contributions(a)) + work[r].delta[a]
    <3>1. CASE CommitCheckout(r)
      BY <2>0, <3>1, CheckoutSum
    <3>2. CASE CommitStatus(r)
      BY <2>0, <3>2, StatusSum
    <3>3. CASE CommitBatch(r)
      <4>1. work[r].delta[a] = BatchDelta(op[r].entries, a)
        <5>0. pc[r] = "update" /\ op[r].kind = "batch" /\ todo[r] = {}
          BY <3>3 DEF CommitBatch, At
        <5>1. work[r].delta[a] = IF Updated(r, a) THEN BatchDelta(op[r].entries, a) ELSE 0
          BY <2>0, <5>0 DEF RequestInv, BatchInv
        <5>2. ASSUME ~Updated(r, a) PROVE BatchDelta(op[r].entries, a) = 0
          <6>1. \A i \in DOMAIN op[r].entries : op[r].entries[i].acct # a
            BY <2>0, <5>0, <5>2, KeyExists DEF Updated
          <6> QED BY <2>0, <5>0, <6>1, BatchSums
        <5> QED BY <5>1, <5>2
      <4> QED BY <2>0, <3>3, <4>1, BatchSum
    <3> QED BY <1>4, <3>1, <3>2, <3>3
  <2> DEFINE x == SumFunction(Contributions(a))
             y == SumFunction(Contributions(a)')
  <2>5. x \in Int /\ y = x + work[r].delta[a] /\ balance[a] - x = Opening[a] - SumFunction(opened(a))
    BY <1>2, <2>4
  <2> HIDE DEF x, y
  <2>6. balance'[a] - y = balance[a] - x
    BY <2>2, <2>3, <2>5
  <2> QED BY <2>5, <2>6 DEF y
<1>5. UNCHANGED <<balance, tx>> \/ \E r \in Requests : CommitCheckout(r) \/ CommitBatch(r) \/ CommitStatus(r)
  BY OnlyCommitWrites DEF Next, AllEnded, vars
<1> QED BY <1>3, <1>4, <1>5

\* "Only posted rows count towards the balance" (orders.service.ts): at every moment
\* the committed balance of every account is its opening balance plus what its
\* posted rows book, whatever requests run, fail, deadlock or crash.
THEOREM BalanceMatchesLedgerHolds == Spec => []BalanceMatchesLedger
<1>1. Init => BalanceMatchesLedger
  <2> SUFFICES ASSUME Init, NEW a \in Accounts
               PROVE  balance[a] - SumFunction([t \in RowIds |-> Counted(tx[t], a)])
                        = Opening[a] - SumFunction([t \in RowIds |->
                            Counted(IF t \in Seeded THEN SeededRow[t] ELSE NoRow, a)])
    BY DEF BalanceMatchesLedger
  <2>1. \A t \in RowIds : tx[t] = IF t \in Seeded THEN SeededRow[t] ELSE NoRow
    BY DEF Init
  <2>2. [t \in RowIds |-> Counted(tx[t], a)]
          = [t \in RowIds |-> Counted(IF t \in Seeded THEN SeededRow[t] ELSE NoRow, a)]
    BY <2>1
  <2>3. balance[a] = Opening[a]
    BY DEF Init
  <2> QED BY <2>2, <2>3
<1>2. IInv /\ IInv' /\ BalanceMatchesLedger /\ [Next]_vars => BalanceMatchesLedger'
  BY BalanceStep
<1> QED BY <1>1, <1>2, Invariance, PTL DEF Spec
=============================================================================
