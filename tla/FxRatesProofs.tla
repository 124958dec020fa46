---------------------------- MODULE FxRatesProofs ---------------------------
(***************************************************************************)
(* Proofs about FxRates for any currencies, instances, days, seed days,    *)
(* chunk size, concurrency and number of corrections.  The invariant adds  *)
(* to NoHistoryGap and OnlyCrossedSyncsRegress                             *)
(*   StoredInv   a stored rate was published, and the NBU may have         *)
(*               corrected it since but not withdrawn it;                  *)
(*   WindowInv   every day before the window of a sync is stored: the day  *)
(*               it starts at is the last stored one, or the first of all, *)
(*               and no row is ever deleted;                               *)
(*   RowsInv     the rows an instance has yet to store are of consecutive  *)
(*               days, every day before the first of them is stored, and   *)
(*               the NBU did publish them;                                 *)
(*   AloneInv    of a currency no two syncs have crossed at, one instance  *)
(*               at most has rows to store, and none of them is older than *)
(*               the revision the table holds of its day.                  *)
(* CacheInv, on top of it, is about the caches: the series in memory are   *)
(* of dates the table has, ascending and, below the last, without a gap.   *)
(* With what the sorted query and the binary search return for every       *)
(* input, shown by induction, it gives CacheIsAuthoritative.               *)
(***************************************************************************)
EXTENDS FxRates, SequenceTheorems, WellFoundedInduction, TLAPS

FetchedRow == [day : Days, rate : Nat \ {0}]

Phases == {"down", "boot", "sync", "load", "serving"}

TypeOK ==
    /\ today \in Days
    /\ nbu \in [Currencies -> Seq(Nat \ {0})]
    /\ \A c \in Currencies : Len(nbu[c]) <= LastDay
    /\ fx \in [Currencies -> [Days -> Nat]]
    /\ newest \in [Currencies -> [Days -> Nat]]
    /\ crossed \subseteq Currencies
    /\ pc \in [Instances -> Phases]
    /\ window \in [Instances -> [from : [Currencies -> Days], to : Nat]]
    /\ task \in [Instances -> [Currencies -> {"none", "upsert", "done"}]]
    /\ rows \in [Instances -> [Currencies -> Seq(FetchedRow)]]

\* A rate of a day is a published one, or was before the NBU corrected it.
PublishedRate(c, d, rate) == d \in DOMAIN nbu[c] /\ rate <= nbu[c][d]

StoredInv ==
    \A c \in Currencies, d \in Days : fx[c][d] > 0 => PublishedRate(c, d, fx[c][d])

StoredBefore(c, first) == \A d \in Days : d < first => fx[c][d] > 0

WindowInv ==
    \A i \in Instances, c \in Currencies : StoredBefore(c, window[i].from[c])

\* Fetched rows: consecutive days, attached to what is stored, and published.
Attached(c, s) ==
    /\ \A n \in DOMAIN s : s[n].day = s[1].day + n - 1
    /\ s # <<>> => StoredBefore(c, s[1].day)
    /\ \A n \in DOMAIN s : PublishedRate(c, s[n].day, s[n].rate)

RowsInv ==
    \A i \in Instances, c \in Currencies :
        /\ Attached(c, rows[i][c])
        /\ task[i][c] = "upsert" <=> rows[i][c] # <<>>

\* No row of s is older than what is stored of its day.
NotOlder(c, s) == \A n \in DOMAIN s : fx[c][s[n].day] <= s[n].rate

AloneInv ==
    \A c \in Currencies \ crossed :
        /\ \A i, j \in Instances : task[i][c] = "upsert" /\ task[j][c] = "upsert" => i = j
        /\ \A i \in Instances : NotOlder(c, rows[i][c])

IInv ==
    /\ TypeOK
    /\ NoHistoryGap
    /\ StoredInv
    /\ WindowInv
    /\ RowsInv
    /\ AloneInv
    /\ OnlyCrossedSyncsRegress

RateRow == [day : Days, rate : Nat, source : {"nbu", "seed"}]

Dates(c) == Stored(c) \cup SeedDays

\* Rows of dates the table has, ascending, without a gap before the last unless
\* that one is a seed day.
Series(c, s) ==
    /\ \A k \in 1..Len(s) : s[k].day \in Dates(c)
    /\ \A j, k \in 1..Len(s) : j < k => s[j].day < s[k].day
    /\ s # <<>> /\ s[Len(s)].day \notin SeedDays =>
          \A d \in Days : d <= s[Len(s)].day => \E k \in 1..Len(s) : s[k].day = d

CacheInv ==
    /\ cache \in [Instances -> [Currencies -> Seq(RateRow)]]
    /\ \A i \in Instances, c \in Currencies :
          /\ Series(c, cache[i][c])
          /\ i \in current => cache[i][c] = Effective(c)

-----------------------------------------------------------------------------
(* The operators of the model.                                             *)

\* Max of two numbers.
LEMMA MaxTwo ==
    ASSUME NEW a \in Nat, NEW b \in Nat
    PROVE  Max({a, b}) = IF a >= b THEN a ELSE b
<1> DEFINE m == IF a >= b THEN a ELSE b
<1>1. m \in {a, b} /\ \A y \in {a, b} : m >= y
  OBVIOUS
<1>2. ASSUME NEW x \in {a, b}, \A y \in {a, b} : x >= y PROVE x = m
  BY <1>2
<1> HIDE DEF m
<1>3. Max({a, b}) = m
  BY <1>1, <1>2 DEF Max
<1> QED BY <1>3 DEF m

\* Min of two numbers.
LEMMA MinTwo ==
    ASSUME NEW a \in Nat, NEW b \in Nat
    PROVE  Min({a, b}) = IF a <= b THEN a ELSE b
<1> DEFINE m == IF a <= b THEN a ELSE b
<1>1. m \in {a, b} /\ \A y \in {a, b} : m <= y
  OBVIOUS
<1>2. ASSUME NEW x \in {a, b}, \A y \in {a, b} : x <= y PROVE x = m
  BY <1>2
<1> HIDE DEF m
<1>3. Min({a, b}) = m
  BY <1>1, <1>2 DEF Min
<1> QED BY <1>3 DEF m

\* Days that are stored have a last one.
LEMMA LastOfDays ==
    ASSUME NEW S, S \subseteq Days, S # {}
    PROVE  Max(S) \in S /\ \A d \in S : Max(S) >= d
<1> DEFINE Less == OpToRel(<, Nat)
           Left == {n \in Nat : LastDay - n \in S}
<1>0. LastDay \in Nat /\ Days = 1..LastDay
  BY LimitsAssumption DEF Days
<1>1. PICK d \in S : TRUE
  OBVIOUS
<1>2. d \in 1..LastDay
  BY <1>0, <1>1
<1>3. LastDay - d \in Left
  BY <1>0, <1>2
<1>4. PICK m \in Left : \A n \in Left : <<n, m>> \notin Less
  <2>1. IsWellFoundedOn(Less, Nat)
    BY NatLessThanWellFounded
  <2>2. Left \subseteq Nat /\ Left # {}
    BY <1>3
  <2> HIDE DEF Less, Left
  <2> QED BY <2>1, <2>2, WFMin
<1>5. Less = {p \in Nat \X Nat : p[1] < p[2]}
  BY Zenon DEF OpToRel
<1>6. ASSUME NEW n \in Left PROVE m <= n
  <2>1. <<n, m>> \notin {p \in Nat \X Nat : p[1] < p[2]}
    BY <1>4, <1>5
  <2>2. n \in Nat /\ m \in Nat
    OBVIOUS
  <2> HIDE DEF Less, Left
  <2> QED BY <2>1, <2>2
<1>7. LastDay - m \in S /\ \A e \in S : LastDay - m >= e
  <2>1. ASSUME NEW e \in S PROVE LastDay - m >= e
    <3>1. e \in 1..LastDay
      BY <1>0
    <3>2. LastDay - e \in Left
      BY <1>0, <3>1
    <3>3. m <= LastDay - e /\ m \in Nat
      BY <3>2, <1>6
    <3> QED BY <3>1, <3>3, <1>0
  <2> QED BY <2>1
<1>8. \E x \in S : \A e \in S : x >= e
  BY <1>7
<1> QED BY <1>8 DEF Max

\* Every day before the one a sync starts at is stored.
LEMMA LastDateFacts ==
    ASSUME NEW c \in Currencies, TypeOK, NoHistoryGap
    PROVE  LastDate(c) \in Days /\ StoredBefore(c, LastDate(c))
<1>0. LastDay \in Nat /\ LastDay >= 1 /\ Days = 1..LastDay
  BY LimitsAssumption DEF Days
<1>1. CASE Stored(c) = {}
  BY <1>0, <1>1 DEF LastDate, StoredBefore
<1>2. CASE Stored(c) # {}
  <2>1. LastDate(c) \in Stored(c)
    <3>1. Stored(c) \subseteq Days
      BY DEF Stored
    <3> QED BY <3>1, <1>2, LastOfDays DEF LastDate
  <2>2. LastDate(c) \in Days /\ fx[c][LastDate(c)] > 0
    BY <2>1 DEF Stored
  <2> QED BY <2>2 DEF StoredBefore, NoHistoryGap
<1> QED BY <1>1, <1>2

\* The rows an instance fetches continue what is stored, and are as new as it is.
LEMMA FetchedFacts ==
    ASSUME NEW i \in Instances, NEW c \in Currencies, TypeOK, StoredInv, WindowInv
    PROVE  /\ Fetched(i, c) \in Seq(FetchedRow)
           /\ Attached(c, Fetched(i, c))
           /\ NotOlder(c, Fetched(i, c))
<1> DEFINE first == window[i].from[c]
           to == window[i].to
           published == Len(nbu[c])
           last == Min({to, published})
           size == IF last < first THEN 0 ELSE last + 1 - first
           s == [n \in 1..size |-> [day |-> first + n - 1, rate |-> nbu[c][first + n - 1]]]
<1>0. LastDay \in Nat /\ Days = 1..LastDay
  BY LimitsAssumption DEF Days
<1>1. first \in Days /\ to \in Nat
  BY DEF TypeOK
<1>2. nbu[c] \in Seq(Nat \ {0}) /\ published \in Nat /\ published <= LastDay
  BY DEF TypeOK
<1>3. fx[c] \in [Days -> Nat]
  BY DEF TypeOK
<1>4. StoredBefore(c, first)
  BY DEF WindowInv
<1>5. last \in Nat /\ last <= published
  <2> HIDE DEF to, published
  <2>1. last = IF to <= published THEN to ELSE published
    BY <1>1, <1>2, MinTwo
  <2> HIDE DEF last
  <2> QED BY <1>1, <1>2, <2>1
<1>6. Fetched(i, c) = s
  BY DEF Fetched
<1> HIDE DEF first, to, published, last
<1>7. size \in Nat
  BY <1>0, <1>1, <1>5
<1>8. ASSUME NEW n \in 1..size
      PROVE  /\ n \in Nat /\ n >= 1
             /\ first + n - 1 \in Days /\ first + n - 1 \in DOMAIN nbu[c]
             /\ nbu[c][first + n - 1] \in Nat \ {0}
             /\ s[n] = [day |-> first + n - 1, rate |-> nbu[c][first + n - 1]]
  <2>1. n \in Nat /\ n >= 1 /\ size >= 1 /\ n <= size
    BY <1>7
  <2>2. ~(last < first) /\ size = last + 1 - first
    BY <2>1
  <2>3. first + n - 1 \in 1..published
    BY <1>0, <1>1, <1>2, <1>5, <2>1, <2>2
  <2>4. 1..published = DOMAIN nbu[c]
    BY <1>2 DEF published
  <2>5. first + n - 1 \in Days
    BY <1>0, <1>2, <2>3
  <2> QED BY <1>2, <2>1, <2>3, <2>4, <2>5
<1>9. DOMAIN s = 1..size
  OBVIOUS
<1> HIDE DEF size
<1>10. ASSUME NEW n \in 1..size PROVE s[n] \in FetchedRow
  <2>1. s[n] = [day |-> first + n - 1, rate |-> nbu[c][first + n - 1]]
    BY <1>8
  <2> HIDE DEF s
  <2> QED BY <1>8, <2>1 DEF FetchedRow
<1>11. s \in Seq(FetchedRow)
  BY <1>7, <1>10
<1>12. \A n \in 1..size : s[n].day = first + n - 1 /\ s[n].rate = nbu[c][first + n - 1]
  OBVIOUS
<1> HIDE DEF s
<1>13. Attached(c, s)
  <2>1. \A n \in DOMAIN s : s[n].day = s[1].day + n - 1
    <3> TAKE n \in DOMAIN s
    <3>1. n \in 1..size /\ 1 \in 1..size
      BY <1>7, <1>9
    <3>2. s[1].day = first
      BY <3>1, <1>12, <1>1, <1>0
    <3> QED BY <3>1, <3>2, <1>12
  <2>2. ASSUME s # <<>> PROVE StoredBefore(c, s[1].day)
    <3>1. Len(s) # 0 /\ Len(s) \in Nat /\ DOMAIN s = 1..Len(s)
      BY <2>2, <1>11
    <3>2. 1 \in 1..size
      <4>1. 1 \in 1..Len(s)
        BY <3>1
      <4> QED BY <3>1, <4>1, <1>9
    <3>3. s[1].day = first
      BY <3>2, <1>12, <1>1, <1>0
    <3> QED BY <3>3, <1>4
  <2>3. \A n \in DOMAIN s : PublishedRate(c, s[n].day, s[n].rate)
    BY <1>8, <1>9, <1>12 DEF PublishedRate
  <2> QED BY <2>1, <2>2, <2>3 DEF Attached
<1>14. NotOlder(c, s)
  <2>1. ASSUME NEW n \in 1..size PROVE fx[c][s[n].day] <= s[n].rate
    <3> DEFINE d == first + n - 1
    <3>1. d \in Days /\ s[n].day = d /\ s[n].rate = nbu[c][d] /\ nbu[c][d] \in Nat \ {0}
      BY <1>8, <1>12
    <3> HIDE DEF d
    <3>2. fx[c][d] \in Nat
      BY <1>3, <3>1
    <3>3. fx[c][d] > 0 => fx[c][d] <= nbu[c][d]
      BY <3>1 DEF StoredInv, PublishedRate
    <3> QED BY <3>1, <3>2, <3>3
  <2> QED BY <2>1, <1>9 DEF NotOlder
<1> QED BY <1>6, <1>11, <1>13, <1>14

\* What one statement of upsertMany does with the first k rows of an instance.
StoresFirst(i, c, k) ==
    LET s == rows[i][c]
        InChunk(d) == s[1].day <= d /\ d < s[1].day + k
        Rate(d) == s[d - s[1].day + 1].rate IN
    /\ fx' = [fx EXCEPT ![c] = fx'[c]]
    /\ newest' = [newest EXCEPT ![c] = newest'[c]]
    /\ fx'[c] \in [Days -> Nat]
    /\ newest'[c] \in [Days -> Nat]
    /\ \A d \in Days : InChunk(d) =>
          /\ d - s[1].day + 1 \in 1..k
          /\ fx'[c][d] = Rate(d)
          /\ newest'[c][d] = IF newest[c][d] >= Rate(d) THEN newest[c][d] ELSE Rate(d)
    /\ \A d \in Days : ~InChunk(d) => fx'[c][d] = fx[c][d] /\ newest'[c][d] = newest[c][d]
    /\ rows' = [rows EXCEPT ![i][c] = rows'[i][c]]
    /\ rows'[i][c] \in Seq(FetchedRow)
    /\ DOMAIN rows'[i][c] = 1..(Len(s) - k)
    /\ \A n \in 1..(Len(s) - k) : rows'[i][c][n] = s[n + k]

\* The rows before a step that stores the first k of them, k at least one.
LEMMA ChunkFacts ==
    ASSUME NEW i \in Instances, NEW c \in Currencies, TypeOK, RowsInv, UpsertChunk(i, c)
    PROVE  \E k \in 1..Len(rows[i][c]) : StoresFirst(i, c, k)
<1> DEFINE s == rows[i][c]
           first == s[1].day
           k == Min({Chunk, Len(s)})
           t == SubSeq(s, 1, k)
           InChunk(d) == first <= d /\ d < first + k
           Rate(d) == s[d - first + 1].rate
<1>0. LastDay \in Nat /\ Days = 1..LastDay /\ Chunk \in Nat /\ Chunk >= 1
  BY LimitsAssumption DEF Days
<1>1. s \in Seq(FetchedRow)
  BY DEF TypeOK
<1>2. s # <<>> /\ Attached(c, s)
  BY DEF RowsInv, UpsertChunk
<1>3. Upsert(c, t) /\ rows' = [rows EXCEPT ![i][c] = SubSeq(@, k + 1, Len(s))]
  BY DEF UpsertChunk
<1>4. rows'[i][c] = SubSeq(s, k + 1, Len(s))
  BY <1>3 DEF TypeOK
<1>5. rows' = [rows EXCEPT ![i][c] = rows'[i][c]]
  BY <1>3, <1>4
<1> HIDE DEF s
<1>6. Len(s) \in Nat /\ Len(s) >= 1 /\ DOMAIN s = 1..Len(s)
  BY <1>1, <1>2
<1>7. k \in 1..Len(s)
  <2>1. k = IF Chunk <= Len(s) THEN Chunk ELSE Len(s)
    BY <1>0, <1>6, MinTwo
  <2>2. Len(s) \in Nat /\ Len(s) >= 1
    BY <1>6
  <2> HIDE DEF k
  <2> QED BY <1>0, <2>1, <2>2
<1> HIDE DEF k
<1>8. k \in Nat /\ k >= 1 /\ k <= Len(s)
  BY <1>6, <1>7
<1>9. \A n \in 1..Len(s) : s[n] \in FetchedRow /\ s[n].day \in Days /\ s[n].rate \in Nat
  <2> TAKE n \in 1..Len(s)
  <2>1. s[n] \in FetchedRow
    BY <1>1, <1>6
  <2> QED BY <2>1 DEF FetchedRow
<1>10. first \in Days /\ \A n \in 1..Len(s) : s[n].day = first + n - 1
  BY <1>2, <1>6, <1>9 DEF Attached
<1>11. /\ t \in Seq(FetchedRow)
       /\ DOMAIN t = 1..k
       /\ \A n \in 1..k : t[n] = s[n]
  <2>1. \A n \in 1..k : s[n] \in FetchedRow
    BY <1>8, <1>6, <1>9
  <2>2. /\ t \in Seq(FetchedRow)
        /\ Len(t) = IF 1 <= k THEN k - 1 + 1 ELSE 0
        /\ \A n \in 1..k - 1 + 1 : t[n] = s[1 + n - 1]
    BY <1>8, <2>1, SubSeqProperties, SMTT(30)
  <2> HIDE DEF t
  <2>3. DOMAIN t = 1..Len(t) /\ Len(t) = k
    BY <1>8, <2>2
  <2> QED BY <1>8, <2>2, <2>3
<1>12. /\ rows'[i][c] \in Seq(FetchedRow)
       /\ DOMAIN rows'[i][c] = 1..(Len(s) - k)
       /\ \A n \in 1..(Len(s) - k) : rows'[i][c][n] = s[n + k]
  <2> DEFINE u == SubSeq(s, k + 1, Len(s))
  <2>1. \A n \in (k + 1)..Len(s) : s[n] \in FetchedRow
    BY <1>8, <1>6, <1>9
  <2>2. /\ u \in Seq(FetchedRow)
        /\ Len(u) = IF k + 1 <= Len(s) THEN Len(s) - (k + 1) + 1 ELSE 0
        /\ \A n \in 1..Len(s) - (k + 1) + 1 : u[n] = s[(k + 1) + n - 1]
    BY <1>8, <1>6, <2>1, SubSeqProperties, SMTT(30)
  <2> HIDE DEF u
  <2>3. Len(s) \in Nat
    BY <1>6
  <2>4. Len(u) = Len(s) - k
    BY <1>8, <2>2, <2>3
  <2>5. DOMAIN u = 1..(Len(s) - k)
    BY <2>2, <2>4
  <2>6. ASSUME NEW n \in 1..(Len(s) - k) PROVE u[n] = s[n + k]
    <3>1. n \in 1..Len(s) - (k + 1) + 1 /\ (k + 1) + n - 1 = n + k
      BY <1>8, <2>3
    <3> QED BY <2>2, <3>1
  <2> QED BY <1>4, <2>2, <2>5, <2>6 DEF u
<1> HIDE DEF t
<1>13. ASSUME NEW f, NEW d \in Days
       PROVE  /\ InChunk(d) => d - first + 1 \in 1..k /\ Overwrite(f, t)[d] = Rate(d) /\ Rate(d) \in Nat
              /\ ~InChunk(d) => Overwrite(f, t)[d] = f[d]
  <2> DEFINE At(n) == n \in DOMAIN t /\ t[n].day = d
  <2>1. first \in Nat /\ d \in Nat
    BY <1>0, <1>10
  <2>2. ASSUME NEW n PROVE At(n) <=> n \in 1..k /\ first + n - 1 = d
    BY <1>11, <1>10, <1>8, <1>6
  <2>3. Overwrite(f, t)[d] = IF \E n \in DOMAIN t : t[n].day = d
                             THEN t[CHOOSE n \in DOMAIN t : t[n].day = d].rate ELSE f[d]
    BY DEF Overwrite
  <2>4. CASE InChunk(d)
    <3> DEFINE m == d - first + 1
               p == CHOOSE n \in DOMAIN t : t[n].day = d
    <3>1. m \in 1..k /\ first + m - 1 = d
      BY <2>1, <2>4, <1>8
    <3>2. At(m)
      BY <2>2, <3>1
    <3>3. At(p)
      BY <3>2
    <3>4. p \in 1..k /\ first + p - 1 = d
      BY <2>2, <3>3
    <3> HIDE DEF p
    <3>5. p = m
      BY <2>1, <3>1, <3>4, <1>8
    <3>6. Overwrite(f, t)[d] = t[p].rate
      BY <2>3, <3>2 DEF p
    <3>7. t[m] = s[m] /\ s[m].rate \in Nat
      BY <3>1, <1>11, <1>9, <1>8, <1>6
    <3> QED BY <3>1, <3>5, <3>6, <3>7, <2>4
  <2>5. CASE ~InChunk(d)
    <3>1. ASSUME NEW n, At(n) PROVE FALSE
      BY <2>2, <3>1, <2>5, <2>1, <1>8
    <3> QED BY <2>3, <3>1, <2>5
  <2> QED BY <2>4, <2>5
<1> HIDE DEF first
<1>14. /\ fx' = [fx EXCEPT ![c] = Overwrite(fx[c], t)]
       /\ newest' = [newest EXCEPT ![c] =
                        [d \in Days |-> Max({newest[c][d], Overwrite(newest[c], t)[d]})]]
  BY <1>3, Zenon DEF Upsert
<1>15. /\ fx[c] \in [Days -> Nat] /\ newest[c] \in [Days -> Nat]
       /\ c \in DOMAIN fx /\ c \in DOMAIN newest
  BY DEF TypeOK
<1>16. /\ fx'[c] = Overwrite(fx[c], t)
       /\ newest'[c] = [d \in Days |-> Max({newest[c][d], Overwrite(newest[c], t)[d]})]
  BY <1>14, <1>15
<1>17. fx' = [fx EXCEPT ![c] = fx'[c]] /\ newest' = [newest EXCEPT ![c] = newest'[c]]
  BY <1>14, <1>16
<1>18. ASSUME NEW d \in Days
       PROVE  /\ fx'[c][d] \in Nat /\ newest'[c][d] \in Nat
              /\ InChunk(d) => /\ d - first + 1 \in 1..k
                               /\ fx'[c][d] = Rate(d)
                               /\ newest'[c][d] = IF newest[c][d] >= Rate(d) THEN newest[c][d]
                                                  ELSE Rate(d)
              /\ ~InChunk(d) => fx'[c][d] = fx[c][d] /\ newest'[c][d] = newest[c][d]
  <2> DEFINE o == Overwrite(newest[c], t)[d]
  <2>1. newest'[c][d] = Max({newest[c][d], o})
    BY <1>16
  <2>2. newest[c][d] \in Nat /\ fx[c][d] \in Nat
    BY <1>15
  <2>3. CASE InChunk(d)
    <3>1. o = Rate(d) /\ o \in Nat /\ fx'[c][d] = Rate(d) /\ d - first + 1 \in 1..k
      BY <2>3, <1>13, <1>16
    <3>2. newest'[c][d] = IF newest[c][d] >= o THEN newest[c][d] ELSE o
      <4> HIDE DEF o
      <4> QED BY <2>1, <2>2, <3>1, MaxTwo
    <3> HIDE DEF o, Rate
    <3> QED BY <3>1, <3>2, <2>2, <2>3
  <2>4. CASE ~InChunk(d)
    <3>1. o = newest[c][d] /\ fx'[c][d] = fx[c][d]
      BY <2>4, <1>13, <1>16
    <3>2. newest'[c][d] = IF newest[c][d] >= o THEN newest[c][d] ELSE o
      <4> HIDE DEF o
      <4> QED BY <2>1, <2>2, <3>1, MaxTwo
    <3> HIDE DEF o
    <3> QED BY <3>1, <3>2, <2>2, <2>4
  <2> QED BY <2>3, <2>4
<1>19. fx'[c] \in [Days -> Nat] /\ newest'[c] \in [Days -> Nat]
  <2>1. fx'[c] = [d \in Days |-> fx'[c][d]]
    BY <1>16 DEF Overwrite
  <2>2. newest'[c] = [d \in Days |-> newest'[c][d]]
    BY <1>16
  <2> QED BY <2>1, <2>2, <1>18
<1>20. StoresFirst(i, c, k)
  BY <1>5, <1>12, <1>17, <1>18, <1>19 DEF StoresFirst, s, first
<1> QED BY <1>7, <1>20 DEF s

-----------------------------------------------------------------------------
(* What no step takes back: a stored day stays stored, and a published     *)
(* rate stays published.                                                   *)

Grows ==
    /\ \A c \in Currencies, d \in Days : fx[c][d] > 0 => fx'[c][d] > 0
    /\ \A c \in Currencies, d \in Days, rate \in Nat :
          PublishedRate(c, d, rate) => PublishedRate(c, d, rate)'


\* Every step keeps the types.
LEMMA TypeCorrect == IInv /\ [Next]_vars => TypeOK'
<1> SUFFICES ASSUME IInv, [Next]_vars PROVE TypeOK'
  OBVIOUS
<1>a. TypeOK
  BY DEF IInv
<1>b. LastDay \in Nat /\ LastDay >= 1 /\ Days = 1..LastDay
  BY LimitsAssumption DEF Days
<1>c. 1 \in Days
  BY <1>b
<1>1. ASSUME NEW i \in Instances, Start(i) PROVE TypeOK'
  BY <1>1, <1>a DEF TypeOK, Phases, Start, world, table
<1>2. ASSUME NEW i \in Instances, StartSync(i) PROVE TypeOK'
  <2>1. [from |-> [k \in Currencies |-> LastDate(k)], to |-> today + 1]
            \in [from : [Currencies -> Days], to : Nat]
    <3>1. \A k \in Currencies : LastDate(k) \in Days
      BY LastDateFacts DEF IInv
    <3>2. today + 1 \in Nat
      BY <1>a, <1>b DEF TypeOK
    <3> QED BY <3>1, <3>2
  <2>2. window' \in [Instances -> [from : [Currencies -> Days], to : Nat]]
    BY <1>2, <1>a, <2>1 DEF TypeOK, StartSync
  <2>3. pc' \in [Instances -> Phases]
    BY <1>2, <1>a DEF TypeOK, StartSync, Phases
  <2> QED BY <1>2, <1>a, <2>2, <2>3 DEF TypeOK, StartSync, world, table
<1>3. ASSUME NEW i \in Instances, SkipSync(i) PROVE TypeOK'
  BY <1>3, <1>a DEF TypeOK, Phases, SkipSync, world, table
<1>4. ASSUME NEW i \in Instances, EndSync(i) PROVE TypeOK'
  <2>1. window' \in [Instances -> [from : [Currencies -> Days], to : Nat]]
    BY <1>4, <1>a, <1>c DEF TypeOK, EndSync, NoWindow
  <2>2. task' \in [Instances -> [Currencies -> {"none", "upsert", "done"}]]
    BY <1>4, <1>a DEF TypeOK, EndSync, NoTask
  <2>3. pc' \in [Instances -> Phases]
    BY <1>4, <1>a DEF TypeOK, EndSync, Phases
  <2> QED BY <1>4, <1>a, <2>1, <2>2, <2>3 DEF TypeOK, EndSync, world, table
<1>5. ASSUME NEW i \in Instances, Load(i) PROVE TypeOK'
  BY <1>5, <1>a DEF TypeOK, Phases, Load, world, table
<1>6. ASSUME NEW i \in Instances, Stop(i) PROVE TypeOK'
  <2>1. window' \in [Instances -> [from : [Currencies -> Days], to : Nat]]
    BY <1>6, <1>a, <1>c DEF TypeOK, Stop, NoWindow
  <2>2. task' \in [Instances -> [Currencies -> {"none", "upsert", "done"}]]
    BY <1>6, <1>a DEF TypeOK, Stop, NoTask
  <2>3. pc' \in [Instances -> Phases]
    BY <1>6, <1>a DEF TypeOK, Stop, Phases
  <2>4. rows' \in [Instances -> [Currencies -> Seq(FetchedRow)]]
    BY <1>6, <1>a DEF TypeOK, Stop, NoSeries
  <2> QED BY <1>6, <1>a, <2>1, <2>2, <2>3, <2>4 DEF TypeOK, Stop, world, table
<1>7. ASSUME NEW i \in Instances, NEW c \in Currencies, Fetch(i, c) PROVE TypeOK'
  <2>1. rows' \in [Instances -> [Currencies -> Seq(FetchedRow)]]
    <3>1. Fetched(i, c) \in Seq(FetchedRow)
      BY FetchedFacts DEF IInv
    <3> QED BY <1>7, <1>a, <3>1 DEF TypeOK, Fetch
  <2>2. task' \in [Instances -> [Currencies -> {"none", "upsert", "done"}]]
    BY <1>7, <1>a DEF TypeOK, Fetch
  <2>3. crossed' \subseteq Currencies
    BY <1>7, <1>a DEF TypeOK, Fetch
  <2> QED BY <1>7, <1>a, <2>1, <2>2, <2>3 DEF TypeOK, Fetch, world
<1>8. ASSUME NEW i \in Instances, NEW c \in Currencies, FetchFails(i, c) PROVE TypeOK'
  <2>1. task' \in [Instances -> [Currencies -> {"none", "upsert", "done"}]]
    BY <1>8, <1>a DEF TypeOK, FetchFails
  <2> QED BY <1>8, <1>a, <2>1 DEF TypeOK, FetchFails, world, table
<1>9. ASSUME NEW i \in Instances, NEW c \in Currencies, UpsertChunk(i, c) PROVE TypeOK'
  <2>1. PICK k \in 1..Len(rows[i][c]) : StoresFirst(i, c, k)
    BY <1>9, ChunkFacts DEF IInv
  <2>2. rows' \in [Instances -> [Currencies -> Seq(FetchedRow)]]
    <3>1. rows' = [rows EXCEPT ![i][c] = rows'[i][c]] /\ rows'[i][c] \in Seq(FetchedRow)
      BY <2>1 DEF StoresFirst
    <3>2. rows' = [rows EXCEPT ![i] = [rows[i] EXCEPT ![c] = rows'[i][c]]]
      BY <3>1
    <3>3. rows[i] \in [Currencies -> Seq(FetchedRow)]
      BY <1>a DEF TypeOK
    <3> DEFINE t == [rows[i] EXCEPT ![c] = rows'[i][c]]
    <3>4. t \in [Currencies -> Seq(FetchedRow)]
      BY <3>1, <3>3
    <3> HIDE DEF t
    <3>5. rows' = [rows EXCEPT ![i] = t]
      BY <3>2 DEF t
    <3> QED BY <3>4, <3>5, <1>a DEF TypeOK
  <2>3. fx' \in [Currencies -> [Days -> Nat]]
    <3>1. fx' = [fx EXCEPT ![c] = fx'[c]] /\ fx'[c] \in [Days -> Nat]
      BY <2>1 DEF StoresFirst
    <3> QED BY <3>1, <1>a DEF TypeOK
  <2>4. newest' \in [Currencies -> [Days -> Nat]]
    <3>1. newest' = [newest EXCEPT ![c] = newest'[c]] /\ newest'[c] \in [Days -> Nat]
      BY <2>1 DEF StoresFirst
    <3> QED BY <3>1, <1>a DEF TypeOK
  <2>5. task' \in [Instances -> [Currencies -> {"none", "upsert", "done"}]]
    BY <1>9, <1>a DEF TypeOK, UpsertChunk
  <2>6. UNCHANGED <<today, nbu, crossed, pc, window>>
    BY <1>9 DEF UpsertChunk, Upsert, world
  <2> QED BY <1>a, <2>2, <2>3, <2>4, <2>5, <2>6 DEF TypeOK
<1>10. ASSUME NEW i \in Instances, NEW c \in Currencies, UpsertFails(i, c) PROVE TypeOK'
  <2>1. task' \in [Instances -> [Currencies -> {"none", "upsert", "done"}]]
    BY <1>10, <1>a DEF TypeOK, UpsertFails
  <2>2. rows' \in [Instances -> [Currencies -> Seq(FetchedRow)]]
    BY <1>10, <1>a DEF TypeOK, UpsertFails
  <2> QED BY <1>10, <1>a, <2>1, <2>2 DEF TypeOK, UpsertFails, world, table
<1>11. ASSUME NEW c \in Currencies, PublishRate(c) PROVE TypeOK'
  <2>1. nbu[c] \in Seq(Nat \ {0}) /\ Len(nbu[c]) < Min({today + 1, LastDay}) /\ today \in Nat
    BY <1>11, <1>a, <1>b DEF TypeOK, PublishRate
  <2>2. Min({today + 1, LastDay}) = IF today + 1 <= LastDay THEN today + 1 ELSE LastDay
    BY <2>1, <1>b, MinTwo
  <2>3. Len(nbu[c]) + 1 <= LastDay
    BY <2>1, <2>2, <1>b
  <2>4. Append(nbu[c], 1) \in Seq(Nat \ {0}) /\ Len(Append(nbu[c], 1)) <= LastDay
    BY <2>1, <2>3
  <2>5. nbu' = [nbu EXCEPT ![c] = Append(nbu[c], 1)]
    BY <1>11 DEF PublishRate
  <2>6. nbu' \in [Currencies -> Seq(Nat \ {0})] /\ \A k \in Currencies : Len(nbu'[k]) <= LastDay
    BY <2>4, <2>5, <1>a DEF TypeOK
  <2> QED BY <1>11, <1>a, <2>6 DEF TypeOK, PublishRate, table
<1>12. ASSUME NEW c \in Currencies, CorrectRate(c) PROVE TypeOK'
  <2>1. PICK d \in DOMAIN nbu[c] : nbu' = [nbu EXCEPT ![c][d] = @ + 1]
    BY <1>12 DEF CorrectRate
  <2>2. nbu[c] \in Seq(Nat \ {0}) /\ nbu[c][d] \in Nat \ {0}
    BY <1>a, <2>1 DEF TypeOK
  <2>3. nbu' = [nbu EXCEPT ![c] = [nbu[c] EXCEPT ![d] = nbu[c][d] + 1]]
    BY <2>1
  <2> DEFINE t == [nbu[c] EXCEPT ![d] = nbu[c][d] + 1]
  <2>4. t \in Seq(Nat \ {0}) /\ Len(t) = Len(nbu[c])
    BY <2>2
  <2> HIDE DEF t
  <2>5. nbu' \in [Currencies -> Seq(Nat \ {0})] /\ \A k \in Currencies : Len(nbu'[k]) <= LastDay
    BY <2>3, <2>4, <1>a DEF TypeOK, t
  <2> QED BY <1>12, <1>a, <2>5 DEF TypeOK, CorrectRate, table
<1>13. CASE NextDay
  <2>1. today' \in Days
    BY <1>13, <1>a, <1>b DEF TypeOK, NextDay
  <2> QED BY <1>13, <1>a, <2>1 DEF TypeOK, NextDay, table
<1>14. CASE UNCHANGED vars
  BY <1>14, <1>a DEF TypeOK, vars
<1> QED
  BY <1>1, <1>2, <1>3, <1>4, <1>5, <1>6, <1>7, <1>8, <1>9, <1>10, <1>11, <1>12, <1>13, <1>14 DEF
     Next, Sync

\* No step removes a stored day or withdraws a published rate.
LEMMA StepGrows == IInv /\ [Next]_vars => Grows
<1> SUFFICES ASSUME IInv, [Next]_vars PROVE Grows
  OBVIOUS
<1>a. TypeOK
  BY DEF IInv
<1> USE DEF Grows, PublishedRate
<1>1. ASSUME NEW i \in Instances, Start(i) PROVE Grows
  BY <1>1 DEF Start, world, table
<1>2. ASSUME NEW i \in Instances, StartSync(i) PROVE Grows
  BY <1>2 DEF StartSync, world, table
<1>3. ASSUME NEW i \in Instances, SkipSync(i) PROVE Grows
  BY <1>3 DEF SkipSync, world, table
<1>4. ASSUME NEW i \in Instances, EndSync(i) PROVE Grows
  BY <1>4 DEF EndSync, world, table
<1>5. ASSUME NEW i \in Instances, Load(i) PROVE Grows
  BY <1>5 DEF Load, world, table
<1>6. ASSUME NEW i \in Instances, Stop(i) PROVE Grows
  BY <1>6 DEF Stop, world, table
<1>7. ASSUME NEW i \in Instances, NEW c \in Currencies, Fetch(i, c) PROVE Grows
  BY <1>7 DEF Fetch, world
<1>8. ASSUME NEW i \in Instances, NEW c \in Currencies, FetchFails(i, c) PROVE Grows
  BY <1>8 DEF FetchFails, world, table
<1>9. ASSUME NEW i \in Instances, NEW c \in Currencies, UpsertChunk(i, c) PROVE Grows
  <2>1. PICK k \in 1..Len(rows[i][c]) : StoresFirst(i, c, k)
    BY <1>9, ChunkFacts DEF IInv
  <2>2. UNCHANGED nbu
    BY <1>9 DEF UpsertChunk, world
  <2>3. ASSUME NEW b \in Currencies, NEW d \in Days, fx[b][d] > 0 PROVE fx'[b][d] > 0
    <3>1. CASE b # c
      <4>1. fx'[b] = fx[b]
        BY <2>1, <3>1, <1>a DEF StoresFirst, TypeOK
      <4> QED BY <4>1, <2>3
    <3>2. CASE b = c
      <4> DEFINE s == rows[i][c]
                 n == d - s[1].day + 1
      <4>1. CASE s[1].day <= d /\ d < s[1].day + k
        <5>1. n \in 1..k /\ fx'[c][d] = s[n].rate
          BY <2>1, <4>1 DEF StoresFirst
        <5>2. s \in Seq(FetchedRow)
          BY <1>a DEF TypeOK
        <5> HIDE DEF n
        <5>3. s[n] \in FetchedRow
          BY <5>1, <5>2, <2>1
        <5>4. s[n].rate > 0
          BY <5>3 DEF FetchedRow
        <5> QED BY <5>1, <5>4, <3>2
      <4>2. CASE ~(s[1].day <= d /\ d < s[1].day + k)
        BY <2>1, <4>2, <3>2, <2>3 DEF StoresFirst
      <4> QED BY <4>1, <4>2
    <3> QED BY <3>1, <3>2
  <2> QED BY <2>2, <2>3
<1>10. ASSUME NEW i \in Instances, NEW c \in Currencies, UpsertFails(i, c) PROVE Grows
  BY <1>10 DEF UpsertFails, world, table
<1>11. ASSUME NEW c \in Currencies, PublishRate(c) PROVE Grows
  <2>1. nbu[c] \in Seq(Nat \ {0}) /\ nbu' = [nbu EXCEPT ![c] = Append(nbu[c], 1)] /\ UNCHANGED fx
    BY <1>11, <1>a DEF TypeOK, PublishRate, table
  <2>2. ASSUME NEW d \in DOMAIN nbu[c]
        PROVE  d \in DOMAIN nbu'[c] /\ nbu'[c][d] = nbu[c][d]
    <3>1. nbu'[c] = Append(nbu[c], 1)
      BY <2>1, <1>a DEF TypeOK
    <3> QED BY <2>1, <3>1
  <2>3. \A b \in Currencies : b # c => nbu'[b] = nbu[b]
    BY <2>1, <1>a DEF TypeOK
  <2> QED BY <2>1, <2>2, <2>3
<1>12. ASSUME NEW c \in Currencies, CorrectRate(c) PROVE Grows
  <2>1. PICK e \in DOMAIN nbu[c] : nbu' = [nbu EXCEPT ![c][e] = @ + 1]
    BY <1>12 DEF CorrectRate
  <2>2. nbu[c] \in Seq(Nat \ {0}) /\ UNCHANGED fx
    BY <1>12, <1>a DEF TypeOK, CorrectRate, table
  <2>3. nbu'[c] = [nbu[c] EXCEPT ![e] = nbu[c][e] + 1]
    BY <2>1, <1>a DEF TypeOK
  <2>4. \A b \in Currencies : b # c => nbu'[b] = nbu[b]
    BY <2>1, <1>a DEF TypeOK
  <2>5. ASSUME NEW d \in DOMAIN nbu[c], NEW rate \in Nat, rate <= nbu[c][d]
        PROVE  d \in DOMAIN nbu'[c] /\ rate <= nbu'[c][d]
    <3>1. nbu[c][d] \in Nat
      BY <2>2
    <3>2. nbu'[c][d] = IF d = e THEN nbu[c][d] + 1 ELSE nbu[c][d]
      BY <2>3
    <3> QED BY <3>1, <3>2, <2>3, <2>5
  <2> QED BY <2>2, <2>4, <2>5
<1>13. CASE NextDay
  BY <1>13 DEF NextDay, table
<1>14. CASE UNCHANGED vars
  BY <1>14 DEF vars
<1> QED
  BY <1>1, <1>2, <1>3, <1>4, <1>5, <1>6, <1>7, <1>8, <1>9, <1>10, <1>11, <1>12, <1>13, <1>14 DEF
     Next, Sync
\* What a chunk changes: the days of its rows, and the rows of its instance.
LEMMA ChunkFrame ==
    ASSUME NEW i \in Instances, NEW c \in Currencies, NEW k, StoresFirst(i, c, k), TypeOK
    PROVE  /\ \A b \in Currencies : b # c => fx'[b] = fx[b] /\ newest'[b] = newest[b]
           /\ \A j \in Instances, b \in Currencies : j # i \/ b # c => rows'[j][b] = rows[j][b]
<1>1. /\ fx' = [fx EXCEPT ![c] = fx'[c]]
      /\ newest' = [newest EXCEPT ![c] = newest'[c]]
      /\ rows' = [rows EXCEPT ![i][c] = rows'[i][c]]
  BY DEF StoresFirst
<1>2. \A b \in Currencies : b # c => fx'[b] = fx[b] /\ newest'[b] = newest[b]
  BY <1>1 DEF TypeOK
<1>3. rows' = [rows EXCEPT ![i] = [rows[i] EXCEPT ![c] = rows'[i][c]]]
  BY <1>1
<1>4. rows'[i] = [rows[i] EXCEPT ![c] = rows'[i][c]] /\ \A j \in Instances : j # i => rows'[j] = rows[j]
  BY <1>3 DEF TypeOK
<1>5. \A b \in Currencies : b # c => rows'[i][b] = rows[i][b]
  BY <1>4 DEF TypeOK
<1> QED BY <1>2, <1>4, <1>5

\* The rows an instance holds, with their types and places.
LEMMA HeldRows ==
    ASSUME NEW i \in Instances, NEW c \in Currencies, TypeOK, RowsInv
    PROVE  LET s == rows[i][c] IN
           /\ s \in Seq(FetchedRow) /\ Len(s) \in Nat /\ DOMAIN s = 1..Len(s)
           /\ \A n \in 1..Len(s) :
                 /\ s[n].day \in Days /\ s[n].day \in Nat /\ s[n].rate \in Nat /\ s[n].rate > 0
                 /\ s[n].day = s[1].day + n - 1
                 /\ PublishedRate(c, s[n].day, s[n].rate)
           /\ s # <<>> => 1 \in 1..Len(s) /\ StoredBefore(c, s[1].day)
<1> DEFINE s == rows[i][c]
<1>1. s \in Seq(FetchedRow) /\ Attached(c, s)
  BY DEF TypeOK, RowsInv
<1> HIDE DEF s
<1>2. Len(s) \in Nat /\ DOMAIN s = 1..Len(s)
  BY <1>1
<1>3. ASSUME NEW n \in 1..Len(s)
      PROVE  s[n].day \in Days /\ s[n].day \in Nat /\ s[n].rate \in Nat /\ s[n].rate > 0
  <2>1. s[n] \in FetchedRow
    BY <1>1, <1>2
  <2>2. s[n].day \in Days /\ s[n].rate \in Nat /\ s[n].rate > 0
    BY <2>1 DEF FetchedRow
  <2>3. Days \subseteq Nat
    BY LimitsAssumption DEF Days
  <2> QED BY <2>2, <2>3
<1>4. \A n \in 1..Len(s) : s[n].day = s[1].day + n - 1 /\ PublishedRate(c, s[n].day, s[n].rate)
  BY <1>1, <1>2 DEF Attached
<1>5. ASSUME s # <<>> PROVE 1 \in 1..Len(s) /\ StoredBefore(c, s[1].day)
  <2>1. Len(s) # 0
    BY <1>1, <1>5
  <2>2. 1 \in 1..Len(s)
    BY <1>2, <2>1
  <2> QED BY <2>2, <1>1, <1>5 DEF Attached
<1> QED BY <1>1, <1>2, <1>3, <1>4, <1>5 DEF s

\* A chunk is of consecutive days that continue what is stored, so it leaves no gap.
LEMMA HistoryStep == IInv /\ [Next]_vars => NoHistoryGap'
<1> SUFFICES ASSUME IInv, [Next]_vars PROVE NoHistoryGap'
  OBVIOUS
<1>a. TypeOK /\ NoHistoryGap /\ RowsInv
  BY DEF IInv
<1>b. Grows
  BY StepGrows
<1>1. ASSUME NEW i \in Instances, Start(i) PROVE NoHistoryGap'
  BY <1>1, <1>a DEF Start, table, NoHistoryGap
<1>2. ASSUME NEW i \in Instances, StartSync(i) PROVE NoHistoryGap'
  BY <1>2, <1>a DEF StartSync, table, NoHistoryGap
<1>3. ASSUME NEW i \in Instances, SkipSync(i) PROVE NoHistoryGap'
  BY <1>3, <1>a DEF SkipSync, table, NoHistoryGap
<1>4. ASSUME NEW i \in Instances, EndSync(i) PROVE NoHistoryGap'
  BY <1>4, <1>a DEF EndSync, table, NoHistoryGap
<1>5. ASSUME NEW i \in Instances, Load(i) PROVE NoHistoryGap'
  BY <1>5, <1>a DEF Load, table, NoHistoryGap
<1>6. ASSUME NEW i \in Instances, Stop(i) PROVE NoHistoryGap'
  BY <1>6, <1>a DEF Stop, table, NoHistoryGap
<1>7. ASSUME NEW i \in Instances, NEW c \in Currencies, Fetch(i, c) PROVE NoHistoryGap'
  BY <1>7, <1>a DEF Fetch, NoHistoryGap
<1>8. ASSUME NEW i \in Instances, NEW c \in Currencies, FetchFails(i, c) PROVE NoHistoryGap'
  BY <1>8, <1>a DEF FetchFails, table, NoHistoryGap
<1>9. ASSUME NEW i \in Instances, NEW c \in Currencies, UpsertChunk(i, c) PROVE NoHistoryGap'
  <2> DEFINE s == rows[i][c]
             first == s[1].day
  <2>1. PICK k \in 1..Len(s) : StoresFirst(i, c, k)
    BY <1>9, <1>a, ChunkFacts
  <2>2. s # <<>>
    BY <1>9, <1>a DEF UpsertChunk, RowsInv
  <2>3. /\ Len(s) \in Nat /\ first \in Nat
        /\ \A n \in 1..Len(s) : s[n].rate > 0
        /\ StoredBefore(c, first)
    BY <1>a, <2>2, HeldRows
  <2>4. k \in Nat /\ k >= 1 /\ k <= Len(s)
    BY <2>1, <2>3
  <2>5. Days \subseteq Nat
    BY LimitsAssumption DEF Days
  <2> SUFFICES ASSUME NEW b \in Currencies, NEW d \in Days, NEW e \in Days, d < e, fx'[b][e] > 0
               PROVE  fx'[b][d] > 0
    BY DEF NoHistoryGap
  <2>6. CASE b # c
    <3>1. fx'[b] = fx[b]
      BY <2>1, <2>6, <1>a, ChunkFrame
    <3> QED BY <3>1, <1>a DEF NoHistoryGap
  <2>7. CASE b = c /\ first <= e /\ e < first + k
    <3>1. CASE d < first
      <4>1. fx[c][d] > 0
        BY <3>1, <2>3 DEF StoredBefore
      <4> QED BY <4>1, <2>7, <1>b DEF Grows
    <3>2. CASE ~(d < first)
      <4> DEFINE n == d - first + 1
      <4>1. first <= d /\ d < first + k
        BY <3>2, <2>7, <2>3, <2>4, <2>5
      <4>2. n \in 1..k /\ fx'[c][d] = s[n].rate
        BY <2>1, <4>1 DEF StoresFirst
      <4> HIDE DEF n
      <4>3. n \in 1..Len(s)
        BY <4>2, <2>3, <2>4
      <4>4. s[n].rate > 0
        BY <4>3, <2>3
      <4> QED BY <4>2, <4>4, <2>7
    <3> QED BY <3>1, <3>2
  <2>8. CASE b = c /\ ~(first <= e /\ e < first + k)
    <3>1. fx'[c][e] = fx[c][e]
      BY <2>1, <2>8 DEF StoresFirst
    <3>2. fx[c][d] > 0
      BY <3>1, <2>8, <1>a DEF NoHistoryGap
    <3> QED BY <3>2, <2>8, <1>b DEF Grows
  <2> QED BY <2>6, <2>7, <2>8
<1>10. ASSUME NEW i \in Instances, NEW c \in Currencies, UpsertFails(i, c) PROVE NoHistoryGap'
  BY <1>10, <1>a DEF UpsertFails, table, NoHistoryGap
<1>11. ASSUME NEW c \in Currencies, PublishRate(c) PROVE NoHistoryGap'
  BY <1>11, <1>a DEF PublishRate, table, NoHistoryGap
<1>12. ASSUME NEW c \in Currencies, CorrectRate(c) PROVE NoHistoryGap'
  BY <1>12, <1>a DEF CorrectRate, table, NoHistoryGap
<1>13. CASE NextDay
  BY <1>13, <1>a DEF NextDay, table, NoHistoryGap
<1>14. CASE UNCHANGED vars
  BY <1>14, <1>a DEF vars, NoHistoryGap
<1> QED
  BY <1>1, <1>2, <1>3, <1>4, <1>5, <1>6, <1>7, <1>8, <1>9, <1>10, <1>11, <1>12, <1>13, <1>14 DEF
     Next, Sync

\* Steps that leave the table alone leave StoredInv true.
LEMMA StoredStays ==
    ASSUME TypeOK, StoredInv, Grows, UNCHANGED fx
    PROVE  StoredInv'
<1> SUFFICES ASSUME NEW c \in Currencies, NEW d \in Days, fx[c][d] > 0
             PROVE  PublishedRate(c, d, fx[c][d])'
  BY DEF StoredInv
<1>1. fx[c][d] \in Nat
  BY DEF TypeOK
<1>2. PublishedRate(c, d, fx[c][d])
  BY DEF StoredInv
<1> QED BY <1>1, <1>2 DEF Grows, PublishedRate

\* A chunk stores rates that the NBU has published.
LEMMA StoredStep == IInv /\ [Next]_vars => StoredInv'
<1> SUFFICES ASSUME IInv, [Next]_vars PROVE StoredInv'
  OBVIOUS
<1>a. TypeOK /\ StoredInv /\ RowsInv
  BY DEF IInv
<1>b. Grows
  BY StepGrows
<1>1. ASSUME NEW i \in Instances, Start(i) PROVE StoredInv'
  BY <1>1, <1>a, <1>b, StoredStays DEF Start, table
<1>2. ASSUME NEW i \in Instances, StartSync(i) PROVE StoredInv'
  BY <1>2, <1>a, <1>b, StoredStays DEF StartSync, table
<1>3. ASSUME NEW i \in Instances, SkipSync(i) PROVE StoredInv'
  BY <1>3, <1>a, <1>b, StoredStays DEF SkipSync, table
<1>4. ASSUME NEW i \in Instances, EndSync(i) PROVE StoredInv'
  BY <1>4, <1>a, <1>b, StoredStays DEF EndSync, table
<1>5. ASSUME NEW i \in Instances, Load(i) PROVE StoredInv'
  BY <1>5, <1>a, <1>b, StoredStays DEF Load, table
<1>6. ASSUME NEW i \in Instances, Stop(i) PROVE StoredInv'
  BY <1>6, <1>a, <1>b, StoredStays DEF Stop, table
<1>7. ASSUME NEW i \in Instances, NEW c \in Currencies, Fetch(i, c) PROVE StoredInv'
  BY <1>7, <1>a, <1>b, StoredStays DEF Fetch
<1>8. ASSUME NEW i \in Instances, NEW c \in Currencies, FetchFails(i, c) PROVE StoredInv'
  BY <1>8, <1>a, <1>b, StoredStays DEF FetchFails, table
<1>9. ASSUME NEW i \in Instances, NEW c \in Currencies, UpsertChunk(i, c) PROVE StoredInv'
  <2> DEFINE s == rows[i][c]
             first == s[1].day
  <2>1. PICK k \in 1..Len(s) : StoresFirst(i, c, k)
    BY <1>9, <1>a, ChunkFacts
  <2>2. s # <<>> /\ UNCHANGED nbu
    BY <1>9, <1>a DEF UpsertChunk, RowsInv, world
  <2>3. /\ Len(s) \in Nat /\ first \in Nat
        /\ \A n \in 1..Len(s) : s[n].day = first + n - 1 /\ PublishedRate(c, s[n].day, s[n].rate)
    BY <1>a, <2>2, HeldRows
  <2>4. k \in Nat /\ k >= 1 /\ k <= Len(s)
    BY <2>1, <2>3
  <2>5. Days \subseteq Nat
    BY LimitsAssumption DEF Days
  <2> SUFFICES ASSUME NEW b \in Currencies, NEW d \in Days, fx'[b][d] > 0
               PROVE  PublishedRate(b, d, fx[b][d])'
    BY DEF StoredInv
  <2>6. CASE b # c
    <3>1. fx'[b] = fx[b]
      BY <2>1, <2>6, <1>a, ChunkFrame
    <3> QED BY <3>1, <2>2, <1>a DEF StoredInv, PublishedRate
  <2>7. CASE b = c /\ first <= d /\ d < first + k
    <3> DEFINE n == d - first + 1
    <3>1. n \in 1..k /\ fx'[c][d] = s[n].rate
      BY <2>1, <2>7 DEF StoresFirst
    <3>2. n \in 1..Len(s) /\ first + n - 1 = d
      <4>1. first \in Nat /\ Len(s) \in Nat /\ d \in Nat
        BY <2>3, <2>5
      <4> HIDE DEF first, s
      <4> QED BY <3>1, <4>1, <2>4
    <3> HIDE DEF n
    <3>3. PublishedRate(c, d, s[n].rate)
      BY <3>2, <2>3
    <3> QED BY <3>1, <3>3, <2>2, <2>7 DEF PublishedRate
  <2>8. CASE b = c /\ ~(first <= d /\ d < first + k)
    <3>1. fx'[c][d] = fx[c][d]
      BY <2>1, <2>8 DEF StoresFirst
    <3> QED BY <3>1, <2>8, <2>2, <1>a DEF StoredInv, PublishedRate
  <2> QED BY <2>6, <2>7, <2>8
<1>10. ASSUME NEW i \in Instances, NEW c \in Currencies, UpsertFails(i, c) PROVE StoredInv'
  BY <1>10, <1>a, <1>b, StoredStays DEF UpsertFails, table
<1>11. ASSUME NEW c \in Currencies, PublishRate(c) PROVE StoredInv'
  BY <1>11, <1>a, <1>b, StoredStays DEF PublishRate, table
<1>12. ASSUME NEW c \in Currencies, CorrectRate(c) PROVE StoredInv'
  BY <1>12, <1>a, <1>b, StoredStays DEF CorrectRate, table
<1>13. CASE NextDay
  BY <1>13, <1>a, <1>b, StoredStays DEF NextDay, table
<1>14. CASE UNCHANGED vars
  BY <1>14, <1>a, <1>b, StoredStays DEF vars
<1> QED
  BY <1>1, <1>2, <1>3, <1>4, <1>5, <1>6, <1>7, <1>8, <1>9, <1>10, <1>11, <1>12, <1>13, <1>14 DEF
     Next, Sync

\* A window starts where the stored days end, and they stay stored.
LEMMA WindowStep == IInv /\ [Next]_vars => WindowInv'
<1> SUFFICES ASSUME IInv, [Next]_vars, NEW j \in Instances, NEW b \in Currencies
             PROVE  StoredBefore(b, window[j].from[b])'
  BY DEF WindowInv
<1>a. TypeOK /\ NoHistoryGap /\ StoredBefore(b, window[j].from[b])
  BY DEF IInv, WindowInv
<1>b. Grows
  BY StepGrows
<1>c. ASSUME window'[j].from[b] = window[j].from[b]
      PROVE  StoredBefore(b, window[j].from[b])'
  BY <1>a, <1>b, <1>c DEF StoredBefore, Grows
<1>d. ASSUME window'[j] = NoWindow PROVE StoredBefore(b, window[j].from[b])'
  <2>1. window'[j].from[b] = 1
    BY <1>d DEF NoWindow
  <2>2. Days = 1..LastDay /\ LastDay \in Nat
    BY LimitsAssumption DEF Days
  <2> QED BY <2>1, <2>2 DEF StoredBefore
<1>e. window \in [Instances -> [from : [Currencies -> Days], to : Nat]]
  BY <1>a DEF TypeOK
<1>1. ASSUME NEW i \in Instances, Start(i) PROVE StoredBefore(b, window[j].from[b])'
  BY <1>1, <1>c DEF Start
<1>2. ASSUME NEW i \in Instances, StartSync(i) PROVE StoredBefore(b, window[j].from[b])'
  <2>1. CASE j = i
    <3>1. window'[j].from[b] = LastDate(b) /\ UNCHANGED fx
      BY <1>2, <2>1, <1>e DEF StartSync, table
    <3>2. StoredBefore(b, LastDate(b))
      BY <1>a, LastDateFacts
    <3> QED BY <3>1, <3>2 DEF StoredBefore
  <2>2. CASE j # i
    <3>1. window'[j] = window[j]
      BY <1>2, <2>2, <1>e DEF StartSync
    <3> QED BY <3>1, <1>c
  <2> QED BY <2>1, <2>2
<1>3. ASSUME NEW i \in Instances, SkipSync(i) PROVE StoredBefore(b, window[j].from[b])'
  BY <1>3, <1>c DEF SkipSync
<1>4. ASSUME NEW i \in Instances, EndSync(i) PROVE StoredBefore(b, window[j].from[b])'
  <2>1. window'[j] = IF j = i THEN NoWindow ELSE window[j]
    BY <1>4, <1>e DEF EndSync
  <2> QED BY <2>1, <1>c, <1>d
<1>5. ASSUME NEW i \in Instances, Load(i) PROVE StoredBefore(b, window[j].from[b])'
  BY <1>5, <1>c DEF Load
<1>6. ASSUME NEW i \in Instances, Stop(i) PROVE StoredBefore(b, window[j].from[b])'
  <2>1. window'[j] = IF j = i THEN NoWindow ELSE window[j]
    BY <1>6, <1>e DEF Stop
  <2> QED BY <2>1, <1>c, <1>d
<1>7. ASSUME NEW i \in Instances, NEW c \in Currencies, Fetch(i, c)
      PROVE  StoredBefore(b, window[j].from[b])'
  BY <1>7, <1>c DEF Fetch
<1>8. ASSUME NEW i \in Instances, NEW c \in Currencies, FetchFails(i, c)
      PROVE  StoredBefore(b, window[j].from[b])'
  BY <1>8, <1>c DEF FetchFails
<1>9. ASSUME NEW i \in Instances, NEW c \in Currencies, UpsertChunk(i, c)
      PROVE  StoredBefore(b, window[j].from[b])'
  BY <1>9, <1>c DEF UpsertChunk
<1>10. ASSUME NEW i \in Instances, NEW c \in Currencies, UpsertFails(i, c)
       PROVE  StoredBefore(b, window[j].from[b])'
  BY <1>10, <1>c DEF UpsertFails
<1>11. ASSUME NEW c \in Currencies, PublishRate(c) PROVE StoredBefore(b, window[j].from[b])'
  BY <1>11, <1>c DEF PublishRate
<1>12. ASSUME NEW c \in Currencies, CorrectRate(c) PROVE StoredBefore(b, window[j].from[b])'
  BY <1>12, <1>c DEF CorrectRate
<1>13. CASE NextDay
  BY <1>13, <1>c DEF NextDay
<1>14. CASE UNCHANGED vars
  BY <1>14, <1>c DEF vars
<1> QED
  BY <1>1, <1>2, <1>3, <1>4, <1>5, <1>6, <1>7, <1>8, <1>9, <1>10, <1>11, <1>12, <1>13, <1>14 DEF
     Next, Sync
\* A row left to an instance stays attached to what is stored and published.
LEMMA AttachedStays ==
    ASSUME NEW j \in Instances, NEW b \in Currencies, TypeOK, RowsInv, Grows,
           rows'[j][b] = rows[j][b]
    PROVE  Attached(b, rows[j][b])'
<1> DEFINE s == rows[j][b]
<1>1. /\ DOMAIN s = 1..Len(s)
      /\ \A n \in 1..Len(s) : /\ s[n].day \in Days /\ s[n].rate \in Nat
                              /\ s[n].day = s[1].day + n - 1
                              /\ PublishedRate(b, s[n].day, s[n].rate)
      /\ s # <<>> => StoredBefore(b, s[1].day)
  BY HeldRows
<1>2. rows'[j][b] = s
  OBVIOUS
<1> HIDE DEF s
<1>3. \A n \in DOMAIN s : PublishedRate(b, s[n].day, s[n].rate)'
  <2> TAKE n \in DOMAIN s
  <2>1. s[n].day \in Days /\ s[n].rate \in Nat /\ PublishedRate(b, s[n].day, s[n].rate)
    BY <1>1
  <2>2. s[n].day \in DOMAIN nbu'[b] /\ s[n].rate <= nbu'[b][s[n].day]
    BY <2>1 DEF Grows, PublishedRate
  <2>3. s' = s
    BY <1>2 DEF s
  <2> QED BY <2>2, <2>3 DEF PublishedRate
<1>4. s # <<>> => \A d \in Days : d < s[1].day => fx'[b][d] > 0
  BY <1>1 DEF StoredBefore, Grows
<1>5. s' = s
  BY <1>2 DEF s
<1> QED BY <1>1, <1>2, <1>3, <1>4, <1>5 DEF Attached, StoredBefore, PublishedRate

\* A chunk takes the first of an instance's rows, and what is left continues it.
LEMMA RowsStep == IInv /\ [Next]_vars => RowsInv'
<1> DEFINE Goal(j, b) == /\ Attached(b, rows[j][b])
                         /\ task[j][b] = "upsert" <=> rows[j][b] # <<>>
<1> SUFFICES ASSUME IInv, [Next]_vars, NEW j \in Instances, NEW b \in Currencies
             PROVE  Goal(j, b)'
  BY DEF RowsInv
<1>a. /\ TypeOK /\ StoredInv /\ WindowInv /\ RowsInv
      /\ task[j][b] = "upsert" <=> rows[j][b] # <<>>
  BY DEF IInv, RowsInv
<1>b. Grows
  BY StepGrows
<1>c. ASSUME rows'[j][b] = rows[j][b], task'[j][b] = "upsert" <=> task[j][b] = "upsert"
      PROVE  Goal(j, b)'
  <2>1. Attached(b, rows[j][b])'
    BY <1>a, <1>b, <1>c, AttachedStays
  <2> QED BY <2>1, <1>a, <1>c
<1>d. ASSUME rows'[j][b] = <<>>, task'[j][b] # "upsert" PROVE Goal(j, b)'
  <2>1. Attached(b, rows[j][b])'
    BY <1>d DEF Attached
  <2> QED BY <2>1, <1>d
<1>e. /\ task \in [Instances -> [Currencies -> {"none", "upsert", "done"}]]
      /\ rows \in [Instances -> [Currencies -> Seq(FetchedRow)]]
  BY <1>a DEF TypeOK
<1> HIDE DEF Goal
<1>1. ASSUME NEW i \in Instances, Start(i) PROVE Goal(j, b)'
  BY <1>1, <1>c DEF Start
<1>2. ASSUME NEW i \in Instances, StartSync(i) PROVE Goal(j, b)'
  BY <1>2, <1>c DEF StartSync
<1>3. ASSUME NEW i \in Instances, SkipSync(i) PROVE Goal(j, b)'
  BY <1>3, <1>c DEF SkipSync
<1>4. ASSUME NEW i \in Instances, EndSync(i) PROVE Goal(j, b)'
  <2>1. UNCHANGED rows /\ task'[j] = IF j = i THEN NoTask ELSE task[j]
    BY <1>4, <1>e DEF EndSync
  <2>2. j = i => task[j][b] = "done"
    BY <1>4 DEF EndSync
  <2>3. task'[j][b] = "upsert" <=> task[j][b] = "upsert"
    BY <2>1, <2>2 DEF NoTask
  <2> QED BY <2>1, <2>3, <1>c
<1>5. ASSUME NEW i \in Instances, Load(i) PROVE Goal(j, b)'
  BY <1>5, <1>c DEF Load
<1>6. ASSUME NEW i \in Instances, Stop(i) PROVE Goal(j, b)'
  <2>1. CASE j = i
    <3>1. task'[j] = NoTask /\ rows'[j] = NoSeries
      BY <1>6, <2>1, <1>e DEF Stop
    <3>2. task'[j][b] = "none" /\ rows'[j][b] = <<>>
      BY <3>1 DEF NoTask, NoSeries
    <3> QED BY <3>2, <1>d
  <2>2. CASE j # i
    <3>1. task'[j] = task[j] /\ rows'[j] = rows[j]
      BY <1>6, <2>2, <1>e DEF Stop
    <3> QED BY <3>1, <1>c
  <2> QED BY <2>1, <2>2
<1>7. ASSUME NEW i \in Instances, NEW c \in Currencies, Fetch(i, c) PROVE Goal(j, b)'
  <2>1. CASE j = i /\ b = c
    <3>1. /\ rows'[j][b] = Fetched(j, b)
          /\ task'[j][b] = IF Fetched(j, b) = <<>> THEN "done" ELSE "upsert"
      BY <1>7, <2>1, <1>e DEF Fetch
    <3>2. Attached(b, Fetched(j, b))
      BY <1>a, FetchedFacts
    <3>3. UNCHANGED <<fx, nbu>>
      BY <1>7 DEF Fetch, world
    <3> DEFINE s == Fetched(j, b)
    <3> HIDE DEF s
    <3>4. rows'[j][b] = s /\ Attached(b, s)
      BY <3>1, <3>2 DEF s
    <3>5. Attached(b, rows[j][b])'
      BY <3>3, <3>4 DEF Attached, StoredBefore, PublishedRate
    <3> QED BY <3>1, <3>5 DEF Goal
  <2>2. CASE ~(j = i /\ b = c)
    <3>1. rows'[j][b] = rows[j][b] /\ task'[j][b] = task[j][b]
      BY <1>7, <2>2, <1>e DEF Fetch
    <3> QED BY <3>1, <1>c
  <2> QED BY <2>1, <2>2
<1>8. ASSUME NEW i \in Instances, NEW c \in Currencies, FetchFails(i, c) PROVE Goal(j, b)'
  <2>1. rows'[j][b] = rows[j][b] /\ (task'[j][b] = "upsert" <=> task[j][b] = "upsert")
    BY <1>8, <1>e DEF FetchFails, MayStart
  <2> QED BY <2>1, <1>c
<1>9. ASSUME NEW i \in Instances, NEW c \in Currencies, UpsertChunk(i, c) PROVE Goal(j, b)'
  <2>1. PICK k \in 1..Len(rows[i][c]) : StoresFirst(i, c, k)
    BY <1>9, <1>a, ChunkFacts
  <2>2. CASE ~(j = i /\ b = c)
    <3>1. rows'[j][b] = rows[j][b]
      BY <2>1, <2>2, <1>a, ChunkFrame
    <3>2. task'[j][b] = task[j][b]
      BY <1>9, <2>2, <1>e DEF UpsertChunk
    <3> QED BY <3>1, <3>2, <1>c
  <2>3. CASE j = i /\ b = c
    <3> DEFINE s == rows[i][c]
               u == rows'[i][c]
    <3>1. s # <<>> /\ UNCHANGED nbu
      BY <1>9, <1>a DEF UpsertChunk, RowsInv, world
    <3>2. /\ s \in Seq(FetchedRow) /\ Len(s) \in Nat /\ 1 \in 1..Len(s)
          /\ \A n \in 1..Len(s) : /\ s[n].day \in Days /\ s[n].day \in Nat /\ s[n].rate > 0
                                  /\ s[n].day = s[1].day + n - 1
                                  /\ PublishedRate(c, s[n].day, s[n].rate)
          /\ StoredBefore(c, s[1].day)
      BY <1>a, <3>1, HeldRows
    <3>3. /\ DOMAIN u = 1..(Len(s) - k) /\ u \in Seq(FetchedRow)
          /\ \A n \in 1..(Len(s) - k) : u[n] = s[n + k]
      BY <2>1 DEF StoresFirst
    <3>4. k \in Nat /\ k >= 1 /\ k <= Len(s) /\ Len(s) \in Nat /\ s[1].day \in Nat
      BY <2>1, <3>2
    <3>5. ASSUME NEW n \in 1..(Len(s) - k)
          PROVE  /\ n \in Nat /\ n + k \in 1..Len(s) /\ 1 \in 1..(Len(s) - k)
                 /\ u[n].day = s[1].day + (n + k) - 1
                 /\ PublishedRate(c, u[n].day, u[n].rate)
      <4>1. n \in Nat /\ n + k \in 1..Len(s) /\ 1 \in 1..(Len(s) - k)
        <5> HIDE DEF s, u
        <5> QED BY <3>4
      <4>2. u[n] = s[n + k]
        BY <3>3
      <4> QED BY <4>1, <4>2, <3>2
    <3>6. ASSUME NEW n \in DOMAIN u PROVE u[n].day = u[1].day + n - 1
      <4>1. n \in 1..(Len(s) - k)
        BY <3>3
      <4>2. n \in Nat /\ 1 \in 1..(Len(s) - k) /\ u[n].day = s[1].day + (n + k) - 1
        BY <4>1, <3>5
      <4>3. u[1].day = s[1].day + (1 + k) - 1
        BY <4>2, <3>5
      <4> DEFINE first == s[1].day
      <4>4. first \in Nat /\ k \in Nat
        BY <3>4
      <4>5. u[n].day = first + (n + k) - 1 /\ u[1].day = first + (1 + k) - 1
        BY <4>2, <4>3
      <4> HIDE DEF first, s, u
      <4> QED BY <4>2, <4>4, <4>5
    <3>7. ASSUME u # <<>> PROVE \A d \in Days : d < u[1].day => fx'[c][d] > 0
      <4>1. Len(u) \in Nat /\ Len(u) # 0 /\ DOMAIN u = 1..Len(u)
        BY <3>3, <3>7
      <4>2. 1 \in DOMAIN u
        BY <4>1
      <4>3. u[1].day = s[1].day + (1 + k) - 1
        BY <4>2, <3>3, <3>5
      <4> TAKE d \in Days
      <4> HAVE d < u[1].day
      <4>4. d \in Nat
        BY LimitsAssumption DEF Days
      <4>5. CASE d < s[1].day
        BY <4>5, <3>2, <1>b DEF StoredBefore, Grows
      <4>6. CASE ~(d < s[1].day)
        <5> DEFINE n == d - s[1].day + 1
        <5>1. s[1].day <= d /\ d < s[1].day + k
          <6> DEFINE first == s[1].day
                     next == u[1].day
          <6>1. first \in Nat /\ k \in Nat /\ next = first + (1 + k) - 1 /\ d < next /\ ~(d < first)
            BY <3>4, <4>3, <4>6
          <6> HIDE DEF first, next
          <6>2. first <= d /\ d < first + k
            BY <6>1, <4>4
          <6> QED BY <6>2 DEF first
        <5>2. n \in 1..k /\ fx'[c][d] = s[n].rate
          BY <2>1, <5>1 DEF StoresFirst
        <5> HIDE DEF n
        <5>3. n \in 1..Len(s)
          <6> HIDE DEF s
          <6> QED BY <5>2, <3>4
        <5>4. s[n].rate > 0
          BY <5>3, <3>2
        <5> QED BY <5>2, <5>4
      <4> QED BY <4>5, <4>6
    <3>8. \A n \in DOMAIN u : PublishedRate(c, u[n].day, u[n].rate)
      BY <3>3, <3>5
    <3>9. Attached(c, rows[i][c])'
      <4>1. \A n \in DOMAIN u : u[n].day \in DOMAIN nbu'[c] /\ u[n].rate <= nbu'[c][u[n].day]
        BY <3>8, <3>1 DEF PublishedRate
      <4> QED BY <3>6, <3>7, <4>1 DEF Attached, StoredBefore, PublishedRate
    <3>10. task'[i][c] = "upsert" <=> u # <<>>
      <4> DEFINE size == Min({Chunk, Len(s)})
      <4>1. task'[i][c] = IF Len(s) = size THEN "done" ELSE "upsert"
        BY <1>9, <1>e DEF UpsertChunk
      <4>2. u = SubSeq(s, size + 1, Len(s))
        BY <1>9, <1>e DEF UpsertChunk
      <4>3. size \in Nat /\ size <= Len(s)
        <5>1. Chunk \in Nat
          BY LimitsAssumption
        <5>2. size = IF Chunk <= Len(s) THEN Chunk ELSE Len(s)
          BY <5>1, <3>2, MinTwo
        <5>3. Len(s) \in Nat
          BY <3>2
        <5> HIDE DEF size, s
        <5> QED BY <5>1, <5>2, <5>3
      <4> HIDE DEF size
      <4>4. Len(u) = Len(s) - size
        <5>1. s \in Seq(FetchedRow) /\ Len(s) \in Nat
          BY <3>2
        <5> HIDE DEF s, u
        <5>2. \A n \in (size + 1)..Len(s) : s[n] \in FetchedRow
          BY <5>1, <4>3
        <5>3. Len(u) = IF size + 1 <= Len(s) THEN Len(s) - (size + 1) + 1 ELSE 0
          BY <5>1, <5>2, <4>2, <4>3, SubSeqProperties
        <5> QED BY <5>1, <5>3, <4>3
      <4>5. u = <<>> <=> Len(u) = 0
        BY <3>3
      <4>6. Len(s) \in Nat
        BY <3>2
      <4> HIDE DEF s, u
      <4>7. u = <<>> <=> Len(s) = size
        BY <4>3, <4>4, <4>5, <4>6
      <4> QED BY <4>1, <4>7 DEF s, u
    <3> QED BY <3>9, <3>10, <2>3 DEF Goal
  <2> QED BY <2>2, <2>3
<1>10. ASSUME NEW i \in Instances, NEW c \in Currencies, UpsertFails(i, c) PROVE Goal(j, b)'
  <2>1. CASE j = i /\ b = c
    <3>1. rows'[j][b] = <<>> /\ task'[j][b] = "done"
      BY <1>10, <2>1, <1>e DEF UpsertFails
    <3> QED BY <3>1, <1>d
  <2>2. CASE ~(j = i /\ b = c)
    <3>1. rows'[j][b] = rows[j][b] /\ task'[j][b] = task[j][b]
      BY <1>10, <2>2, <1>e DEF UpsertFails
    <3> QED BY <3>1, <1>c
  <2> QED BY <2>1, <2>2
<1>11. ASSUME NEW c \in Currencies, PublishRate(c) PROVE Goal(j, b)'
  BY <1>11, <1>c DEF PublishRate
<1>12. ASSUME NEW c \in Currencies, CorrectRate(c) PROVE Goal(j, b)'
  BY <1>12, <1>c DEF CorrectRate
<1>13. CASE NextDay
  BY <1>13, <1>c DEF NextDay
<1>14. CASE UNCHANGED vars
  BY <1>14, <1>c DEF vars
<1> QED
  BY <1>1, <1>2, <1>3, <1>4, <1>5, <1>6, <1>7, <1>8, <1>9, <1>10, <1>11, <1>12, <1>13, <1>14 DEF
     Next, Sync
\* A currency no two syncs have crossed at: one instance at most has rows of
\* it to store, none of them outdated, and the table has the newest revisions.
Alone(b) ==
    /\ \A i, j \in Instances : task[i][b] = "upsert" /\ task[j][b] = "upsert" => i = j
    /\ \A i \in Instances : NotOlder(b, rows[i][b])
    /\ \A d \in Days : fx[b][d] = newest[b][d]

\* The only instance with rows of a currency fetched them when the table held nothing newer,
\* and nobody has stored any since.
LEMMA AloneStep == IInv /\ [Next]_vars => (AloneInv /\ OnlyCrossedSyncsRegress)'
<1> SUFFICES ASSUME IInv, [Next]_vars, NEW b \in Currencies, b \notin crossed' PROVE Alone(b)'
  BY DEF AloneInv, OnlyCrossedSyncsRegress, Alone
<1>a. TypeOK /\ StoredInv /\ WindowInv /\ RowsInv
  BY DEF IInv
<1>b. ASSUME b \notin crossed PROVE Alone(b)
  BY <1>b DEF IInv, AloneInv, OnlyCrossedSyncsRegress, Alone
<1>c. ASSUME b \notin crossed, fx'[b] = fx[b], newest'[b] = newest[b],
             \A j \in Instances : /\ task'[j][b] = "upsert" => task[j][b] = "upsert"
                                  /\ rows'[j][b] = rows[j][b] \/ rows'[j][b] = <<>>
      PROVE  Alone(b)'
  <2>1. Alone(b)
    BY <1>b, <1>c
  <2>2. \A i, j \in Instances : task'[i][b] = "upsert" /\ task'[j][b] = "upsert" => i = j
    BY <2>1, <1>c DEF Alone
  <2>3. ASSUME NEW j \in Instances PROVE NotOlder(b, rows[j][b])'
    <3>1. CASE rows'[j][b] = <<>>
      BY <3>1 DEF NotOlder
    <3>2. CASE rows'[j][b] = rows[j][b]
      BY <2>1, <3>2, <1>c DEF NotOlder, Alone
    <3> QED BY <3>1, <3>2, <1>c
  <2>4. \A d \in Days : fx'[b][d] = newest'[b][d]
    BY <2>1, <1>c DEF Alone
  <2> QED BY <2>2, <2>3, <2>4 DEF Alone
<1>e. /\ task \in [Instances -> [Currencies -> {"none", "upsert", "done"}]]
      /\ rows \in [Instances -> [Currencies -> Seq(FetchedRow)]]
  BY <1>a DEF TypeOK
<1>1. ASSUME NEW i \in Instances, Start(i) PROVE Alone(b)'
  BY <1>1, <1>c DEF Start, table
<1>2. ASSUME NEW i \in Instances, StartSync(i) PROVE Alone(b)'
  BY <1>2, <1>c DEF StartSync, table
<1>3. ASSUME NEW i \in Instances, SkipSync(i) PROVE Alone(b)'
  BY <1>3, <1>c DEF SkipSync, table
<1>4. ASSUME NEW i \in Instances, EndSync(i) PROVE Alone(b)'
  <2>1. \A j \in Instances : task'[j] = IF j = i THEN NoTask ELSE task[j]
    BY <1>4, <1>e DEF EndSync
  <2>2. \A j \in Instances : task'[j][b] = "upsert" => task[j][b] = "upsert"
    BY <2>1 DEF NoTask
  <2>3. UNCHANGED <<fx, newest, crossed, rows>>
    BY <1>4 DEF EndSync, table
  <2> QED BY <2>2, <2>3, <1>c
<1>5. ASSUME NEW i \in Instances, Load(i) PROVE Alone(b)'
  BY <1>5, <1>c DEF Load, table
<1>6. ASSUME NEW i \in Instances, Stop(i) PROVE Alone(b)'
  <2>1. \A j \in Instances : /\ task'[j] = IF j = i THEN NoTask ELSE task[j]
                             /\ rows'[j] = IF j = i THEN NoSeries ELSE rows[j]
    BY <1>6, <1>e DEF Stop
  <2>2. \A j \in Instances : /\ task'[j][b] = "upsert" => task[j][b] = "upsert"
                             /\ rows'[j][b] = rows[j][b] \/ rows'[j][b] = <<>>
    BY <2>1 DEF NoTask, NoSeries
  <2>3. UNCHANGED <<fx, newest, crossed>>
    BY <1>6 DEF Stop, table
  <2> QED BY <2>2, <2>3, <1>c
<1>7. ASSUME NEW i \in Instances, NEW c \in Currencies, Fetch(i, c) PROVE Alone(b)'
  <2>1. b \notin crossed /\ UNCHANGED <<fx, newest>>
    BY <1>7 DEF Fetch
  <2>2. CASE b # c
    <3>1. \A j \in Instances : rows'[j][b] = rows[j][b] /\ task'[j][b] = task[j][b]
      BY <1>7, <2>2, <1>e DEF Fetch
    <3> QED BY <2>1, <3>1, <1>c
  <2>3. CASE b = c
    <3>1. \A j \in Instances : j # i => task[j][b] # "upsert"
      BY <1>7, <2>3 DEF Fetch
    <3>2. \A j \in Instances : j # i => rows'[j][b] = rows[j][b] /\ task'[j][b] = task[j][b]
      BY <1>7, <1>e DEF Fetch
    <3>3. rows'[i][b] = Fetched(i, b)
      BY <1>7, <2>3, <1>e DEF Fetch
    <3>4. Alone(b)
      BY <2>1, <1>b
    <3>5. \A j, k \in Instances : task'[j][b] = "upsert" /\ task'[k][b] = "upsert" => j = k
      BY <3>1, <3>2
    <3>6. ASSUME NEW j \in Instances PROVE NotOlder(b, rows[j][b])'
      <4>1. CASE j = i
        <5> DEFINE s == Fetched(i, b)
        <5>1. NotOlder(b, s)
          BY <1>a, FetchedFacts
        <5> HIDE DEF s
        <5>2. rows'[j][b] = s
          BY <3>3, <4>1 DEF s
        <5> QED BY <5>1, <5>2, <2>1 DEF NotOlder
      <4>2. CASE j # i
        BY <4>2, <3>2, <3>4, <2>1 DEF NotOlder, Alone
      <4> QED BY <4>1, <4>2
    <3>7. \A d \in Days : fx'[b][d] = newest'[b][d]
      BY <3>4, <2>1 DEF Alone
    <3> QED BY <3>5, <3>6, <3>7 DEF Alone
  <2> QED BY <2>2, <2>3
<1>8. ASSUME NEW i \in Instances, NEW c \in Currencies, FetchFails(i, c) PROVE Alone(b)'
  <2>1. \A j \in Instances : /\ task'[j][b] = "upsert" => task[j][b] = "upsert"
                             /\ rows'[j][b] = rows[j][b]
    BY <1>8, <1>e DEF FetchFails
  <2>2. UNCHANGED <<fx, newest, crossed>>
    BY <1>8 DEF FetchFails, table
  <2> QED BY <2>1, <2>2, <1>c
<1>9. ASSUME NEW i \in Instances, NEW c \in Currencies, UpsertChunk(i, c) PROVE Alone(b)'
  <2>1. PICK k \in 1..Len(rows[i][c]) : StoresFirst(i, c, k)
    BY <1>9, <1>a, ChunkFacts
  <2>2. b \notin crossed
    BY <1>9 DEF UpsertChunk, Upsert
  <2>3. \A j \in Instances : task'[j][b] = "upsert" => task[j][b] = "upsert"
    BY <1>9, <1>e DEF UpsertChunk
  <2>4. CASE b # c
    <3>1. fx'[b] = fx[b] /\ newest'[b] = newest[b] /\ \A j \in Instances : rows'[j][b] = rows[j][b]
      BY <2>1, <2>4, <1>a, ChunkFrame
    <3> QED BY <2>2, <2>3, <3>1, <1>c
  <2>5. CASE b = c
    <3> DEFINE s == rows[i][b]
               first == s[1].day
    <3>1. Alone(b)
      BY <2>2, <1>b
    <3>2. s # <<>> /\ task[i][b] = "upsert"
      BY <1>9, <2>5, <1>a DEF UpsertChunk, RowsInv
    <3>3. /\ Len(s) \in Nat /\ first \in Nat /\ DOMAIN s = 1..Len(s)
          /\ \A n \in 1..Len(s) : /\ s[n].day \in Days /\ s[n].rate \in Nat
                                  /\ s[n].day = first + n - 1
      BY <1>a, <3>2, HeldRows
    <3>4. k \in Nat /\ k >= 1 /\ k <= Len(s)
      BY <2>1, <2>5, <3>3
    <3>5. \A j, m \in Instances : task'[j][b] = "upsert" /\ task'[m][b] = "upsert" => j = m
      BY <2>3, <3>1 DEF Alone
    <3>6. ASSUME NEW d \in Days PROVE fx'[b][d] = newest'[b][d]
      <4>1. CASE first <= d /\ d < first + k
        <5> DEFINE n == d - first + 1
        <5>1. /\ n \in 1..k /\ fx'[b][d] = s[n].rate
              /\ newest'[b][d] = IF newest[b][d] >= s[n].rate THEN newest[b][d] ELSE s[n].rate
          BY <2>1, <2>5, <4>1 DEF StoresFirst
        <5>2. n \in 1..Len(s) /\ first + n - 1 = d
          <6>1. first \in Nat /\ Len(s) \in Nat /\ d \in Nat
            BY <3>3, LimitsAssumption DEF Days
          <6> HIDE DEF s, first
          <6> QED BY <5>1, <6>1, <3>4
        <5> HIDE DEF n
        <5>3. s[n].day = d /\ s[n].rate \in Nat
          BY <5>2, <3>3
        <5>4. fx[b][d] <= s[n].rate
          BY <5>2, <5>3, <3>1, <3>3 DEF Alone, NotOlder
        <5>5. newest[b][d] <= s[n].rate /\ newest[b][d] \in Nat
          BY <5>4, <3>1, <1>a DEF Alone, TypeOK
        <5> QED BY <5>1, <5>3, <5>5
      <4>2. CASE ~(first <= d /\ d < first + k)
        <5>1. fx'[b][d] = fx[b][d] /\ newest'[b][d] = newest[b][d]
          BY <2>1, <2>5, <4>2 DEF StoresFirst
        <5> QED BY <5>1, <3>1 DEF Alone
      <4> QED BY <4>1, <4>2
    <3>7. ASSUME NEW j \in Instances PROVE NotOlder(b, rows[j][b])'
      <4>1. CASE j # i
        <5>1. rows'[j][b] = rows[j][b]
          BY <2>1, <4>1, <1>a, ChunkFrame
        <5>2. task[j][b] # "upsert"
          BY <3>1, <3>2, <4>1 DEF Alone
        <5>3. rows'[j][b] = <<>>
          BY <5>1, <5>2, <1>a DEF RowsInv
        <5> QED BY <5>3 DEF NotOlder
      <4>2. CASE j = i
        <5> DEFINE u == rows'[i][b]
        <5>1. DOMAIN u = 1..(Len(s) - k) /\ \A n \in 1..(Len(s) - k) : u[n] = s[n + k]
          BY <2>1, <2>5 DEF StoresFirst
        <5>2. ASSUME NEW n \in 1..(Len(s) - k) PROVE fx'[b][u[n].day] <= u[n].rate
          <6>1. n \in Nat /\ n >= 1 /\ n + k \in 1..Len(s)
            <7>1. Len(s) \in Nat
              BY <3>3
            <7> HIDE DEF s, first, u
            <7> QED BY <3>4, <7>1
          <6>2. u[n] = s[n + k] /\ s[n + k].day \in Days /\ s[n + k].day = first + (n + k) - 1
            BY <5>1, <6>1, <3>3
          <6> DEFINE e == s[n + k].day
          <6>3. ~(first <= e /\ e < first + k)
            <7>1. first \in Nat /\ e = first + (n + k) - 1
              BY <3>3, <6>2
            <7> HIDE DEF first, s, u, e
            <7> QED BY <7>1, <6>1, <3>4
          <6>4. fx'[b][e] = fx[b][e]
            BY <2>1, <2>5, <6>2, <6>3 DEF StoresFirst
          <6>5. fx[b][e] <= s[n + k].rate
            BY <6>1, <3>1, <3>3 DEF Alone, NotOlder
          <6> QED BY <6>2, <6>4, <6>5
        <5> QED BY <5>1, <5>2, <4>2 DEF NotOlder
      <4> QED BY <4>1, <4>2
    <3> QED BY <3>5, <3>6, <3>7 DEF Alone
  <2> QED BY <2>4, <2>5
<1>10. ASSUME NEW i \in Instances, NEW c \in Currencies, UpsertFails(i, c) PROVE Alone(b)'
  <2>1. \A j \in Instances : /\ task'[j][b] = "upsert" => task[j][b] = "upsert"
                             /\ rows'[j][b] = rows[j][b] \/ rows'[j][b] = <<>>
    BY <1>10, <1>e DEF UpsertFails
  <2>2. UNCHANGED <<fx, newest, crossed>>
    BY <1>10 DEF UpsertFails, table
  <2> QED BY <2>1, <2>2, <1>c
<1>11. ASSUME NEW c \in Currencies, PublishRate(c) PROVE Alone(b)'
  BY <1>11, <1>c DEF PublishRate, table
<1>12. ASSUME NEW c \in Currencies, CorrectRate(c) PROVE Alone(b)'
  BY <1>12, <1>c DEF CorrectRate, table
<1>13. CASE NextDay
  BY <1>13, <1>c DEF NextDay, table
<1>14. CASE UNCHANGED vars
  BY <1>14, <1>c DEF vars
<1> QED
  BY <1>1, <1>2, <1>3, <1>4, <1>5, <1>6, <1>7, <1>8, <1>9, <1>10, <1>11, <1>12, <1>13, <1>14 DEF
     Next, Sync

\* The empty table satisfies the invariant.
LEMMA InitCorrect == Init => IInv
<1> SUFFICES ASSUME Init PROVE IInv
  OBVIOUS
<1>0. LastDay \in Nat /\ LastDay >= 1 /\ Days = 1..LastDay
  BY LimitsAssumption DEF Days
<1>1. TypeOK
  <2>1. NoWindow \in [from : [Currencies -> Days], to : Nat]
    BY <1>0 DEF NoWindow
  <2>2. \A c \in Currencies : nbu[c] = <<>> /\ <<>> \in Seq(Nat \ {0}) /\ Len(nbu[c]) <= LastDay
    BY <1>0 DEF Init
  <2>3. nbu \in [Currencies -> Seq(Nat \ {0})]
    BY <2>2 DEF Init
  <2>4. fx \in [Currencies -> [Days -> Nat]] /\ newest \in [Currencies -> [Days -> Nat]]
    BY DEF Init
  <2>5. rows \in [Instances -> [Currencies -> Seq(FetchedRow)]]
    BY DEF Init, NoSeries
  <2>6. task \in [Instances -> [Currencies -> {"none", "upsert", "done"}]]
    BY DEF Init, NoTask
  <2>7. window \in [Instances -> [from : [Currencies -> Days], to : Nat]]
    BY <2>1 DEF Init
  <2>8. today \in Days /\ pc \in [Instances -> Phases] /\ crossed \subseteq Currencies
    BY <1>0 DEF Init, Phases
  <2> QED BY <2>2, <2>3, <2>4, <2>5, <2>6, <2>7, <2>8 DEF TypeOK
<1>2. \A c \in Currencies, d \in Days : fx[c][d] = 0 /\ newest[c][d] = 0
  BY DEF Init
<1>3. NoHistoryGap /\ StoredInv /\ OnlyCrossedSyncsRegress
  BY <1>2 DEF NoHistoryGap, StoredInv, OnlyCrossedSyncsRegress
<1>4. WindowInv
  <2>1. \A i \in Instances, c \in Currencies : window[i].from[c] = 1
    BY DEF Init, NoWindow
  <2> QED BY <2>1, <1>0 DEF WindowInv, StoredBefore
<1>5. \A i \in Instances, c \in Currencies : rows[i][c] = <<>> /\ task[i][c] = "none"
  BY DEF Init, NoSeries, NoTask
<1>6. RowsInv /\ AloneInv
  BY <1>5 DEF RowsInv, AloneInv, Attached, NotOlder
<1> QED BY <1>1, <1>3, <1>4, <1>6 DEF IInv

\* The inductive invariant: what a sync has fetched continues what the table
\* holds, and so does what it has yet to fetch, whatever the other instances,
\* failures, restarts and corrections do in between.
THEOREM Invariance == Spec => []IInv
<1>1. Init => IInv
  BY InitCorrect
<1>2. IInv /\ [Next]_vars => IInv'
  <2> SUFFICES ASSUME IInv, [Next]_vars PROVE IInv'
    OBVIOUS
  <2> QED
    BY TypeCorrect, HistoryStep, StoredStep, WindowStep, RowsStep, AloneStep DEF IInv
<1> QED BY <1>1, <1>2, PTL DEF Spec

\* findLastDates: no day before the last stored one is missing, so resuming at
\* MAX(rate_date) loses nothing, for any chunk size, number of instances and
\* point at which a fetch, a chunk or a process fails.
THEOREM NoHistoryGapHolds == Spec => []NoHistoryGap
<1>1. IInv => NoHistoryGap
  BY DEF IInv
<1> QED BY Invariance, <1>1, PTL

\* The upsert without a cross-instance lock loses a newer revision only of a
\* currency of which two instances held fetched rows at once.
THEOREM OnlyCrossedSyncsRegressHolds == Spec => []OnlyCrossedSyncsRegress
<1>1. IInv => OnlyCrossedSyncsRegress
  BY DEF IInv
<1> QED BY Invariance, <1>1, PTL

-----------------------------------------------------------------------------
(* findAllEffective and the binary search.  Each is a recursive function   *)
(* of a number; that its equation has a solution, and what the solution    *)
(* is, is shown by induction as a statement about a set of numbers.        *)

\* Induction, as a statement about a set of numbers.
LEMMA AllNumbers ==
    ASSUME NEW S, 0 \in S, \A n \in Nat : n \in S => n + 1 \in S
    PROVE  Nat \subseteq S
<1> DEFINE Less == OpToRel(<, Nat)
           Left == {n \in Nat : n \notin S}
<1> SUFFICES ASSUME Left # {} PROVE FALSE
  OBVIOUS
<1>1. PICK m \in Left : \A n \in Left : <<n, m>> \notin Less
  <2>1. IsWellFoundedOn(Less, Nat)
    BY NatLessThanWellFounded
  <2>2. Left \subseteq Nat
    OBVIOUS
  <2> HIDE DEF Less, Left
  <2> QED BY <2>1, <2>2, WFMin
<1>2. Less = {p \in Nat \X Nat : p[1] < p[2]}
  BY Zenon DEF OpToRel
<1>3. m \in Nat /\ m \notin S /\ m # 0
  OBVIOUS
<1>4. m - 1 \in Nat /\ m - 1 < m /\ (m - 1) + 1 = m
  BY <1>3
<1>5. m - 1 \in S
  <2>1. <<m - 1, m>> \in Less
    BY <1>2, <1>3, <1>4
  <2> QED BY <1>1, <1>4, <2>1
<1> QED BY <1>3, <1>4, <1>5

\* The equation of the recursive function in Effective, up to day n.
UpToBy(f, n, c) ==
    f = [d \in 0..n |-> IF d = 0 THEN <<>>
                        ELSE IF d \in Stored(c) \cup SeedDays THEN Append(f[d - 1], Row(c, d))
                        ELSE f[d - 1]]

\* Effective is the last value of a solution.
LEMMA EffectiveIsUpTo ==
    ASSUME NEW c
    PROVE  \E f : UpToBy(f, LastDay, c) /\ Effective(c) = f[LastDay]
<1> DEFINE S == {n \in Nat : \E f : UpToBy(f, n, c)}
<1>1. 0 \in S
  <2>1. UpToBy([i \in 0..0 |-> <<>>], 0, c)
    BY DEF UpToBy
  <2> QED BY <2>1
<1>2. ASSUME NEW n \in Nat, n \in S PROVE n + 1 \in S
  <2>1. PICK f : UpToBy(f, n, c)
    BY <1>2
  <2> DEFINE last == IF n + 1 \in Stored(c) \cup SeedDays THEN Append(f[n], Row(c, n + 1)) ELSE f[n]
             g == [d \in 0..(n + 1) |-> IF d = n + 1 THEN last ELSE f[d]]
  <2>2. \A d \in 0..n : g[d] = f[d]
    OBVIOUS
  <2>3. ASSUME NEW d \in 0..(n + 1)
        PROVE  g[d] = IF d = 0 THEN <<>>
                      ELSE IF d \in Stored(c) \cup SeedDays THEN Append(g[d - 1], Row(c, d))
                      ELSE g[d - 1]
    <3>1. CASE d = n + 1
      <4>1. g[d] = last /\ g[d - 1] = f[n] /\ d # 0
        BY <3>1, <2>2
      <4> QED BY <3>1, <4>1
    <3>2. CASE d \in 0..n
      <4>1. g[d] = f[d] /\ (d # 0 => g[d - 1] = f[d - 1])
        BY <3>2, <2>2
      <4>2. f[d] = IF d = 0 THEN <<>>
                   ELSE IF d \in Stored(c) \cup SeedDays THEN Append(f[d - 1], Row(c, d))
                   ELSE f[d - 1]
        <5> HIDE DEF g, last
        <5> QED BY <3>2, <2>1 DEF UpToBy
      <4> HIDE DEF g, last
      <4> QED BY <4>1, <4>2
    <3> QED BY <3>1, <3>2
  <2>4. UpToBy(g, n + 1, c)
    <3>1. g = [d \in 0..(n + 1) |-> g[d]]
      OBVIOUS
    <3> HIDE DEF g
    <3> QED BY <2>3, <3>1 DEF UpToBy
  <2> HIDE DEF g
  <2> QED BY <2>4
<1>3. LastDay \in S
  <2> HIDE DEF S
  <2>1. LastDay \in Nat
    BY LimitsAssumption
  <2> QED BY <1>1, <1>2, <2>1, AllNumbers
<1> DEFINE f == CHOOSE f : UpToBy(f, LastDay, c)
<1>4. UpToBy(f, LastDay, c)
  <2>1. \E h : UpToBy(h, LastDay, c)
    BY <1>3
  <2> HIDE DEF S
  <2> QED BY Zenon, <2>1
<1>5. Effective(c) = f[LastDay]
  BY DEF Effective, UpToBy
<1> HIDE DEF f
<1> QED BY <1>4, <1>5

\* findAllEffective returns one row for each date, dates ascending.
LEMMA EffectiveFacts ==
    ASSUME TypeOK, NEW c \in Currencies
    PROVE  LET s == Effective(c) IN
           /\ s \in Seq(RateRow)
           /\ \A k \in 1..Len(s) : s[k].day \in Dates(c) /\ s[k] = Row(c, s[k].day)
           /\ \A d \in Dates(c) : \E k \in 1..Len(s) : s[k].day = d
           /\ \A j, k \in 1..Len(s) : j < k => s[j].day < s[k].day
<1>0. LastDay \in Nat /\ Days = 1..LastDay /\ Dates(c) \subseteq Days /\ SeedDays \subseteq Days
  BY LimitsAssumption, SeedAssumption DEF Days, Dates, Stored
<1>r. ASSUME NEW d \in Days PROVE Row(c, d) \in RateRow /\ Row(c, d).day = d
  BY DEF Row, RateRow, TypeOK
<1>1. PICK f : UpToBy(f, LastDay, c) /\ Effective(c) = f[LastDay]
  BY EffectiveIsUpTo
<1> DEFINE Good(t, n) ==
        /\ t \in Seq(RateRow)
        /\ \A k \in 1..Len(t) : t[k].day \in Dates(c) /\ t[k].day <= n /\ t[k] = Row(c, t[k].day)
        /\ \A d \in Dates(c) : d <= n => \E k \in 1..Len(t) : t[k].day = d
        /\ \A j, k \in 1..Len(t) : j < k => t[j].day < t[k].day
    S == {n \in Nat : n <= LastDay => Good(f[n], n)}
<1>2. 0 \in S
  <2>1. f[0] = <<>>
    BY <1>1, <1>0 DEF UpToBy
  <2>2. <<>> \in Seq(RateRow) /\ Len(<<>>) = 0 /\ \A k : k \notin 1..0
    OBVIOUS
  <2>3. \A d \in Dates(c) : ~(d <= 0)
    BY <1>0
  <2>4. Good(<<>>, 0)
    BY <2>2, <2>3
  <2> HIDE DEF Good
  <2> QED BY <2>1, <2>4
<1>3. ASSUME NEW n \in Nat, NEW t, Good(t, n), n + 1 \in Dates(c)
      PROVE  Good(Append(t, Row(c, n + 1)), n + 1)
  <2> DEFINE r == Row(c, n + 1)
             u == Append(t, r)
  <2>1. r \in RateRow /\ r.day = n + 1 /\ t \in Seq(RateRow)
    BY <1>0, <1>r, <1>3
  <2>2. /\ u \in Seq(RateRow) /\ Len(u) = Len(t) + 1 /\ Len(t) \in Nat
        /\ (\A k \in 1..Len(t) : u[k] = t[k]) /\ u[Len(t) + 1] = r
    <3> HIDE DEF r
    <3> QED BY <2>1
  <2>3. /\ \A k \in 1..Len(t) : /\ t[k].day \in Dates(c) /\ t[k].day \in Nat /\ t[k].day <= n
                                /\ t[k] = Row(c, t[k].day)
        /\ \A d \in Dates(c) : d <= n => \E k \in 1..Len(t) : t[k].day = d
        /\ \A j, k \in 1..Len(t) : j < k => t[j].day < t[k].day
    BY <1>0, <1>3
  <2> HIDE DEF r, u, Good
  <2>4. ASSUME NEW k \in 1..Len(t) + 1
        PROVE  u[k].day \in Dates(c) /\ u[k].day <= n + 1 /\ u[k] = Row(c, u[k].day)
    <3>1. CASE k = Len(t) + 1
      BY <1>3, <2>1, <2>2, <3>1 DEF r
    <3>2. CASE k \in 1..Len(t)
      BY <2>2, <2>3, <3>2
    <3> QED BY <2>2, <3>1, <3>2
  <2>5. ASSUME NEW d \in Dates(c), d <= n + 1 PROVE \E k \in 1..Len(t) + 1 : u[k].day = d
    <3>1. CASE d = n + 1
      BY <2>1, <2>2, <3>1
    <3>2. CASE d <= n
      <4>1. PICK k \in 1..Len(t) : t[k].day = d
        BY <2>3, <3>2
      <4>2. k \in 1..Len(t) + 1 /\ u[k] = t[k]
        BY <2>2
      <4> QED BY <4>1, <4>2
    <3> QED BY <1>0, <2>5, <3>1, <3>2
  <2>6. ASSUME NEW j \in 1..Len(t) + 1, NEW k \in 1..Len(t) + 1, j < k
        PROVE  u[j].day < u[k].day
    <3>1. j \in 1..Len(t) /\ u[j] = t[j]
      BY <2>2, <2>6
    <3>2. CASE k \in 1..Len(t)
      BY <2>2, <2>3, <2>6, <3>1, <3>2
    <3>3. CASE k = Len(t) + 1
      BY <2>1, <2>2, <2>3, <3>1, <3>3
    <3> QED BY <2>2, <3>2, <3>3
  <2>7. Good(u, n + 1)
    BY <2>2, <2>4, <2>5, <2>6 DEF Good
  <2> QED BY <2>7 DEF u, r
<1>4. ASSUME NEW n \in Nat, n \in S PROVE n + 1 \in S
  <2> SUFFICES ASSUME n + 1 <= LastDay PROVE Good(f[n + 1], n + 1)
    <3> HIDE DEF Good
    <3>1. n + 1 \in Nat
      OBVIOUS
    <3> QED BY <3>1
  <2>1. Good(f[n], n)
    <3> HIDE DEF Good
    <3>1. n <= LastDay
      BY <1>0
    <3> QED BY <1>4, <3>1
  <2>2. f[n + 1] = IF n + 1 \in Dates(c) THEN Append(f[n], Row(c, n + 1)) ELSE f[n]
    <3> HIDE DEF Good, S
    <3>1. n + 1 \in 0..LastDay /\ n + 1 # 0 /\ (n + 1) - 1 = n
      BY <1>0
    <3>2. f[n + 1] = IF n + 1 = 0 THEN <<>>
                     ELSE IF n + 1 \in Stored(c) \cup SeedDays THEN Append(f[(n + 1) - 1], Row(c, n + 1))
                     ELSE f[(n + 1) - 1]
      BY <1>1, <3>1 DEF UpToBy
    <3> QED BY <3>1, <3>2 DEF Dates
  <2>3. CASE n + 1 \in Dates(c)
    <3> HIDE DEF Good, S
    <3> QED BY <1>3, <2>1, <2>2, <2>3
  <2>4. CASE n + 1 \notin Dates(c)
    <3>1. f[n + 1] = f[n]
      BY <2>2, <2>4
    <3>2. \A d \in Dates(c) : d <= n + 1 => d <= n
      BY <1>0, <2>4
    <3>3. \A d \in Dates(c) : d <= n => d <= n + 1
      BY <1>0
    <3> QED BY <2>1, <3>1, <3>2, <3>3
  <2> QED BY <2>3, <2>4
<1>5. Good(Effective(c), LastDay)
  <2> HIDE DEF S
  <2>1. LastDay \in S
    BY <1>0, <1>2, <1>4, AllNumbers
  <2> HIDE DEF Good
  <2> QED BY <1>0, <1>1, <2>1 DEF S
<1>6. \A d \in Dates(c) : d <= LastDay
  BY <1>0
<1> QED BY <1>5, <1>6

\* One iteration of the search, and the equation of the recursive function in
\* Rightmost up to n iterations.
Iterate(series, on, s) ==
    LET mid == (s.lo + s.hi) \div 2
    IN  IF s.lo > s.hi THEN s
        ELSE IF series[mid].day <= on THEN [lo |-> mid + 1, hi |-> s.hi, found |-> mid]
        ELSE [lo |-> s.lo, hi |-> mid - 1, found |-> s.found]

LoopBy(f, n, series, on) ==
    f = [i \in 0..n |-> IF i = 0 THEN [lo |-> 1, hi |-> Len(series), found |-> 0]
                        ELSE Iterate(series, on, f[i - 1])]

\* Rightmost is what the last value of a solution has found.
LEMMA RightmostIsLoop ==
    ASSUME NEW series, NEW on, Len(series) \in Nat
    PROVE  \E f : LoopBy(f, Len(series), series, on) /\ Rightmost(series, on) = f[Len(series)].found
<1> DEFINE first == [lo |-> 1, hi |-> Len(series), found |-> 0]
           S == {n \in Nat : \E f : LoopBy(f, n, series, on)}
<1>1. 0 \in S
  <2>1. LoopBy([i \in 0..0 |-> first], 0, series, on)
    BY DEF LoopBy
  <2> QED BY <2>1
<1>2. ASSUME NEW n \in Nat, n \in S PROVE n + 1 \in S
  <2>1. PICK f : LoopBy(f, n, series, on)
    BY <1>2
  <2> DEFINE last == Iterate(series, on, f[n])
             g == [i \in 0..(n + 1) |-> IF i = n + 1 THEN last ELSE f[i]]
  <2>2. \A i \in 0..n : g[i] = f[i]
    OBVIOUS
  <2>3. ASSUME NEW i \in 0..(n + 1)
        PROVE  g[i] = IF i = 0 THEN first ELSE Iterate(series, on, g[i - 1])
    <3>1. CASE i = n + 1
      <4>1. g[i] = last /\ g[i - 1] = f[n] /\ i # 0
        BY <3>1, <2>2
      <4> QED BY <3>1, <4>1
    <3>2. CASE i \in 0..n
      <4>1. g[i] = f[i] /\ (i # 0 => g[i - 1] = f[i - 1])
        BY <3>2, <2>2
      <4>2. f[i] = IF i = 0 THEN first ELSE Iterate(series, on, f[i - 1])
        <5> HIDE DEF g, last
        <5> QED BY <3>2, <2>1 DEF LoopBy
      <4> HIDE DEF g, last
      <4> QED BY <4>1, <4>2
    <3> QED BY <3>1, <3>2
  <2>4. LoopBy(g, n + 1, series, on)
    <3>1. g = [i \in 0..(n + 1) |-> g[i]]
      OBVIOUS
    <3> HIDE DEF g
    <3> QED BY <2>3, <3>1 DEF LoopBy
  <2> HIDE DEF g
  <2> QED BY <2>4
<1>3. Len(series) \in S
  <2> HIDE DEF S
  <2> QED BY <1>1, <1>2, AllNumbers
<1> DEFINE f == CHOOSE f : LoopBy(f, Len(series), series, on)
<1>4. LoopBy(f, Len(series), series, on)
  <2>1. \E h : LoopBy(h, Len(series), series, on)
    BY <1>3
  <2> HIDE DEF S
  <2> QED BY Zenon, <2>1
<1>5. Rightmost(series, on) = f[Len(series)].found
  BY DEF Rightmost, LoopBy, Iterate
<1> HIDE DEF f
<1> QED BY <1>4, <1>5

\* The middle of two places lies between them.
LEMMA Middle ==
    ASSUME NEW a \in Nat, NEW b \in Nat, a <= b
    PROVE  (a + b) \div 2 \in Nat /\ a <= (a + b) \div 2 /\ (a + b) \div 2 <= b
  OBVIOUS

\* What holds between two iterations: what lies before lo is not after `on`, what
\* lies behind hi is, and lo - 1 was found.
Searching(series, on, s) ==
    /\ s.lo \in Nat /\ s.hi \in Nat /\ s.found \in Nat
    /\ 1 <= s.lo /\ s.lo <= s.hi + 1 /\ s.hi <= Len(series) /\ s.found = s.lo - 1
    /\ \A k \in 1..Len(series) : /\ k < s.lo => series[k].day <= on
                                 /\ s.hi < k => series[k].day > on

\* An iteration halves what is left, or there is nothing left.
LEMMA IterateFacts ==
    ASSUME NEW series \in Seq(RateRow), NEW on \in Nat, NEW s,
           \A j, k \in 1..Len(series) : j < k => series[j].day < series[k].day,
           Searching(series, on, s)
    PROVE  LET t == Iterate(series, on, s) IN
           /\ Searching(series, on, t)
           /\ t.lo > t.hi \/ t.hi - t.lo < s.hi - s.lo
<1> DEFINE mid == (s.lo + s.hi) \div 2
           t == Iterate(series, on, s)
<1>0. /\ Len(series) \in Nat /\ s.lo \in Nat /\ s.hi \in Nat /\ s.found \in Nat
      /\ 1 <= s.lo /\ s.lo <= s.hi + 1 /\ s.hi <= Len(series) /\ s.found = s.lo - 1
      /\ \A k \in 1..Len(series) : /\ k < s.lo => series[k].day <= on
                                   /\ s.hi < k => series[k].day > on
  BY DEF Searching
<1>d. \A k \in 1..Len(series) : series[k].day \in Nat
  <2>1. \A r \in RateRow : r.day \in Nat
    BY LimitsAssumption DEF RateRow, Days
  <2> QED BY <2>1
<1>1. CASE s.lo > s.hi
  <2>1. t = s
    BY <1>1 DEF Iterate
  <2> QED BY <1>1, <2>1
<1>2. CASE ~(s.lo > s.hi)
  <2>1. mid \in Nat /\ s.lo <= mid /\ mid <= s.hi
    BY <1>0, <1>2, Middle
  <2>2. mid \in 1..Len(series)
    <3> HIDE DEF mid
    <3> QED BY <1>0, <2>1
  <2>3. CASE series[mid].day <= on
    <3>1. t = [lo |-> mid + 1, hi |-> s.hi, found |-> mid]
      BY <1>2, <2>3 DEF Iterate
    <3> HIDE DEF mid, t
    <3>2. t.lo = mid + 1 /\ t.hi = s.hi /\ t.found = mid
      BY <3>1
    <3>3. ASSUME NEW k \in 1..Len(series), k < mid + 1 PROVE series[k].day <= on
      <4>1. k = mid \/ series[k].day < series[mid].day
        BY <1>0, <2>1, <2>2, <3>3
      <4>2. series[k].day \in Nat /\ series[mid].day \in Nat
        BY <1>d, <2>2
      <4> QED BY <2>3, <4>1, <4>2
    <3>4. Searching(series, on, t)
      BY <1>0, <2>1, <3>2, <3>3 DEF Searching
    <3>5. t.hi - t.lo < s.hi - s.lo
      BY <1>0, <2>1, <3>2
    <3> QED BY <3>4, <3>5 DEF t
  <2>4. CASE ~(series[mid].day <= on)
    <3>1. t = [lo |-> s.lo, hi |-> mid - 1, found |-> s.found]
      BY <1>2, <2>4 DEF Iterate
    <3> HIDE DEF mid, t
    <3>2. t.lo = s.lo /\ t.hi = mid - 1 /\ t.found = s.found
      BY <3>1
    <3>3. ASSUME NEW k \in 1..Len(series), mid - 1 < k PROVE series[k].day > on
      <4>1. k = mid \/ series[mid].day < series[k].day
        BY <1>0, <2>1, <2>2, <3>3
      <4>2. series[k].day \in Nat /\ series[mid].day \in Nat
        BY <1>d, <2>2
      <4> QED BY <2>4, <4>1, <4>2
    <3>4. Searching(series, on, t)
      BY <1>0, <2>1, <3>2, <3>3 DEF Searching
    <3>5. t.hi - t.lo < s.hi - s.lo
      BY <1>0, <2>1, <3>2
    <3> QED BY <3>4, <3>5 DEF t
  <2> QED BY <2>3, <2>4
<1> QED BY <1>1, <1>2

\* The search ends within Len(series) iterations, and finds the last place whose
\* day is not after `on`.
LEMMA RightmostFacts ==
    ASSUME NEW series \in Seq(RateRow), NEW on \in Nat,
           \A j, k \in 1..Len(series) : j < k => series[j].day < series[k].day
    PROVE  /\ Rightmost(series, on) \in 0..Len(series)
           /\ \A k \in 1..Len(series) : k <= Rightmost(series, on) <=> series[k].day <= on
<1> DEFINE N == Len(series)
<1>0. N \in Nat
  OBVIOUS
<1>d. \A k \in 1..N : series[k].day \in Nat
  <2>1. \A r \in RateRow : r.day \in Nat
    BY LimitsAssumption DEF RateRow, Days
  <2> QED BY <2>1
<1>1. PICK f : LoopBy(f, N, series, on) /\ Rightmost(series, on) = f[N].found
  BY <1>0, RightmostIsLoop
<1> DEFINE Good(n) == Searching(series, on, f[n]) /\ (f[n].lo > f[n].hi \/ f[n].hi - f[n].lo < N - n)
           S == {n \in Nat : n <= N => Good(n)}
<1>2. 0 \in S
  <2>1. f[0] = [lo |-> 1, hi |-> N, found |-> 0]
    BY <1>0, <1>1 DEF LoopBy
  <2>2. f[0].lo = 1 /\ f[0].hi = N /\ f[0].found = 0
    BY <2>1
  <2>3. Good(0)
    <3> HIDE DEF N
    <3>1. Searching(series, on, f[0])
      BY <1>0, <2>2 DEF Searching, N
    <3>2. f[0].hi - f[0].lo < N - 0
      BY <1>0, <2>2
    <3> QED BY <3>1, <3>2
  <2> HIDE DEF Good
  <2> QED BY <2>3
<1>3. ASSUME NEW n \in Nat, n \in S PROVE n + 1 \in S
  <2> SUFFICES ASSUME n + 1 <= N PROVE Good(n + 1)
    <3> HIDE DEF Good
    <3>1. n + 1 \in Nat
      OBVIOUS
    <3> QED BY <3>1
  <2>1. Good(n)
    <3> HIDE DEF Good, N
    <3>1. n <= N
      BY <1>0
    <3> QED BY <1>3, <3>1
  <2>2. f[n + 1] = Iterate(series, on, f[n])
    <3> HIDE DEF Good, S, N
    <3>1. n + 1 \in 0..N /\ n + 1 # 0 /\ (n + 1) - 1 = n
      BY <1>0
    <3>2. f[n + 1] = IF n + 1 = 0 THEN [lo |-> 1, hi |-> Len(series), found |-> 0]
                     ELSE Iterate(series, on, f[(n + 1) - 1])
      BY <1>1, <3>1 DEF LoopBy
    <3> QED BY <3>1, <3>2
  <2>3. /\ Searching(series, on, f[n + 1])
        /\ f[n + 1].lo > f[n + 1].hi \/ f[n + 1].hi - f[n + 1].lo < f[n].hi - f[n].lo
    BY <2>1, <2>2, IterateFacts
  <2>4. CASE f[n].lo > f[n].hi
    <3>1. f[n + 1] = f[n]
      BY <2>2, <2>4 DEF Iterate
    <3> QED BY <2>3, <2>4, <3>1
  <2>5. CASE ~(f[n].lo > f[n].hi)
    <3>1. f[n].hi - f[n].lo < N - n
      BY <2>1, <2>5
    <3>2. /\ f[n].lo \in Nat /\ f[n].hi \in Nat /\ f[n + 1].lo \in Nat /\ f[n + 1].hi \in Nat
      BY <2>1, <2>3 DEF Searching
    <3> HIDE DEF N
    <3> DEFINE left == f[n].hi - f[n].lo
               rest == f[n + 1].hi - f[n + 1].lo
    <3>3. left \in Int /\ rest \in Int /\ left < N - n /\ (f[n + 1].lo > f[n + 1].hi \/ rest < left)
      <4>1. left \in Int /\ rest \in Int
        BY <3>2
      <4> QED BY Zenon, <2>3, <3>1, <4>1
    <3>4. f[n + 1].lo > f[n + 1].hi \/ rest < N - (n + 1)
      <4> HIDE DEF left, rest
      <4> QED BY <1>0, <3>3
    <3> QED BY <2>3, <3>4
  <2> QED BY <2>4, <2>5
<1>4. Good(N)
  <2> HIDE DEF S, Good, N
  <2>1. N \in S
    BY <1>0, <1>2, <1>3, AllNumbers
  <2> QED BY <1>0, <2>1 DEF S
<1> DEFINE r == Rightmost(series, on)
<1>5. /\ r \in Nat /\ r <= N
      /\ \A k \in 1..N : (k <= r => series[k].day <= on) /\ (r < k => series[k].day > on)
  <2> DEFINE s == f[N]
  <2>1. /\ s.lo \in Nat /\ s.hi \in Nat /\ s.found \in Nat
        /\ 1 <= s.lo /\ s.lo <= s.hi + 1 /\ s.hi <= N /\ s.found = s.lo - 1
        /\ \A k \in 1..N : /\ k < s.lo => series[k].day <= on
                           /\ s.hi < k => series[k].day > on
    BY <1>4 DEF Searching
  <2>2. s.lo > s.hi \/ s.hi - s.lo < N - N
    BY <1>4
  <2>3. r = s.found
    BY <1>1
  <2> HIDE DEF N, s, r
  <2>4. s.lo = s.hi + 1 /\ r = s.hi
    <3>1. s.lo \in Nat /\ s.hi \in Nat /\ s.lo <= s.hi + 1 /\ N \in Nat
      BY <1>0, <2>1
    <3>2. ~(s.hi - s.lo < N - N) \/ s.hi < s.lo
      BY <3>1
    <3>3. s.lo = s.hi + 1
      BY <2>2, <3>1, <3>2
    <3> QED BY <2>1, <2>3, <3>1, <3>3
  <2>5. ASSUME NEW k \in 1..N
        PROVE  (k <= r => series[k].day <= on) /\ (r < k => series[k].day > on)
    <3>1. (k < s.lo => series[k].day <= on) /\ (s.hi < k => series[k].day > on)
      BY <2>1
    <3>2. k <= r => k < s.lo
      BY <1>0, <2>1, <2>4
    <3> QED BY <2>4, <3>1, <3>2
  <2> QED BY <2>1, <2>4, <2>5
<1> HIDE DEF r, N
<1>6. \A k \in 1..N : k <= r <=> series[k].day <= on
  BY <1>0, <1>5, <1>d
<1> QED BY <1>0, <1>5, <1>6 DEF r, N

-----------------------------------------------------------------------------
(* The caches.                                                             *)

\* What a load brings into memory.
LEMMA LoadedSeries ==
    ASSUME IInv, NEW c \in Currencies
    PROVE  Effective(c) \in Seq(RateRow) /\ Series(c, Effective(c))
<1> DEFINE s == Effective(c)
<1>1. /\ s \in Seq(RateRow)
      /\ \A k \in 1..Len(s) : s[k].day \in Dates(c)
      /\ \A d \in Dates(c) : \E k \in 1..Len(s) : s[k].day = d
      /\ \A j, k \in 1..Len(s) : j < k => s[j].day < s[k].day
  BY EffectiveFacts DEF IInv
<1> HIDE DEF s
<1>2. ASSUME s # <<>>, s[Len(s)].day \notin SeedDays, NEW d \in Days, d <= s[Len(s)].day
      PROVE  d \in Dates(c)
  <2>1. Len(s) \in 1..Len(s)
    BY <1>1, <1>2
  <2>2. s[Len(s)].day \in Stored(c)
    BY <1>1, <1>2, <2>1 DEF Dates
  <2>3. s[Len(s)].day \in Days /\ fx[c][s[Len(s)].day] > 0
    BY <2>2 DEF Stored
  <2>4. d = s[Len(s)].day \/ d < s[Len(s)].day
    BY <1>2, <2>3, LimitsAssumption DEF Days
  <2>5. fx[c][d] > 0
    BY <2>3, <2>4 DEF IInv, NoHistoryGap
  <2> QED BY <2>5 DEF Dates, Stored
<1>3. Series(c, s)
  BY <1>1, <1>2 DEF Series
<1> QED BY <1>1, <1>3 DEF s

\* Only a load fills a cache; a cache that counts as current was loaded from the
\* table as it is.
LEMMA CacheStep == IInv /\ CacheInv /\ [Next]_vars => CacheInv'
<1> SUFFICES ASSUME IInv, CacheInv, [Next]_vars PROVE CacheInv'
  OBVIOUS
<1>a. cache \in [Instances -> [Currencies -> Seq(RateRow)]]
  BY DEF CacheInv
<1>b. ASSUME NEW j \in Instances, NEW b \in Currencies, cache'[j][b] = cache[j][b]
      PROVE  Series(b, cache[j][b])'
  <2>1. Series(b, cache[j][b])
    BY DEF CacheInv
  <2> DEFINE s == cache[j][b]
  <2>2. ASSUME NEW t, Series(b, t)
        PROVE  /\ \A k \in 1..Len(t) : t[k].day \in Dates(b)'
               /\ \A i, k \in 1..Len(t) : i < k => t[i].day < t[k].day
               /\ t # <<>> /\ t[Len(t)].day \notin SeedDays =>
                     \A d \in Days : d <= t[Len(t)].day => \E k \in 1..Len(t) : t[k].day = d
    <3>1. Dates(b) \subseteq Dates(b)'
      <4>1. \A d \in Days : fx[b][d] > 0 => fx'[b][d] > 0
        BY StepGrows DEF Grows
      <4> QED BY <4>1 DEF Dates, Stored
    <3> QED BY <2>2, <3>1 DEF Series
  <2> QED BY <1>b, <2>1, <2>2 DEF Series
<1>c. ASSUME cache' = cache, current' \subseteq current, current' = {} \/ fx' = fx PROVE CacheInv'
  <2>1. ASSUME NEW j \in Instances, NEW b \in Currencies
        PROVE  Series(b, cache[j][b])' /\ (j \in current' => cache'[j][b] = Effective(b)')
    <3>1. Series(b, cache[j][b])'
      BY <1>b, <1>c
    <3>2. ASSUME j \in current' PROVE cache'[j][b] = Effective(b)'
      <4>1. fx' = fx /\ j \in current
        BY <1>c, <3>2
      <4>2. Effective(b)' = Effective(b)
        BY <4>1 DEF Effective, Stored, Row
      <4> QED BY <1>c, <4>1, <4>2 DEF CacheInv
    <3> QED BY <3>1, <3>2
  <2> QED BY <1>a, <1>c, <2>1 DEF CacheInv
<1>1. ASSUME NEW i \in Instances, Start(i) PROVE CacheInv'
  BY <1>1, <1>c DEF Start, table
<1>2. ASSUME NEW i \in Instances, StartSync(i) PROVE CacheInv'
  BY <1>2, <1>c DEF StartSync, table
<1>3. ASSUME NEW i \in Instances, SkipSync(i) PROVE CacheInv'
  BY <1>3, <1>c DEF SkipSync, table
<1>4. ASSUME NEW i \in Instances, EndSync(i) PROVE CacheInv'
  BY <1>4, <1>c DEF EndSync, table
<1>5. ASSUME NEW i \in Instances, Load(i) PROVE CacheInv'
  <2>1. fx' = fx
    BY <1>5 DEF Load, table
  <2>2. CASE UNCHANGED <<cache, current>>
    BY <1>c, <2>1, <2>2
  <2>3. CASE /\ cache' = [cache EXCEPT ![i] = [c \in Currencies |-> Effective(c)]]
             /\ current' = current \cup {i}
    <3>1. \A b \in Currencies : cache'[i][b] = Effective(b) /\ Effective(b)' = Effective(b)
      <4>1. cache'[i] = [c \in Currencies |-> Effective(c)]
        BY <1>a, <2>3
      <4>2. ASSUME NEW b \in Currencies PROVE Effective(b)' = Effective(b)
        BY <2>1 DEF Effective, Stored, Row
      <4> QED BY <4>1, <4>2
    <3>2. \A b \in Currencies : Effective(b) \in Seq(RateRow) /\ Series(b, Effective(b))
      BY LoadedSeries
    <3>3. cache' \in [Instances -> [Currencies -> Seq(RateRow)]]
      <4>1. [c \in Currencies |-> Effective(c)] \in [Currencies -> Seq(RateRow)]
        BY <3>2
      <4> QED BY <1>a, <2>3, <4>1
    <3>4. ASSUME NEW j \in Instances, NEW b \in Currencies
          PROVE  Series(b, cache[j][b])' /\ (j \in current' => cache'[j][b] = Effective(b)')
      <4>1. CASE j = i
        <5>1. Series(b, cache'[j][b])
          BY <3>1, <3>2, <4>1
        <5>2. Series(b, cache[j][b])'
          BY <2>1, <5>1 DEF Series, Dates, Stored
        <5> QED BY <3>1, <4>1, <5>2
      <4>2. CASE j # i
        <5>1. cache'[j] = cache[j] /\ (j \in current' => j \in current)
          BY <1>a, <2>3, <4>2
        <5>2. Series(b, cache[j][b])'
          BY <1>b, <5>1
        <5> QED BY <3>1, <5>1, <5>2 DEF CacheInv
      <4> QED BY <4>1, <4>2
    <3> QED BY <3>3, <3>4 DEF CacheInv
  <2> QED BY <1>5, <2>2, <2>3 DEF Load
<1>6. ASSUME NEW i \in Instances, Stop(i) PROVE CacheInv'
  <2>1. fx' = fx /\ cache' = [cache EXCEPT ![i] = NoSeries] /\ current' = current \ {i}
    BY <1>6 DEF Stop, table
  <2>2. cache' \in [Instances -> [Currencies -> Seq(RateRow)]]
    <3>1. NoSeries \in [Currencies -> Seq(RateRow)]
      BY DEF NoSeries
    <3> QED BY <1>a, <2>1, <3>1
  <2>3. ASSUME NEW j \in Instances, NEW b \in Currencies
        PROVE  Series(b, cache[j][b])' /\ (j \in current' => cache'[j][b] = Effective(b)')
    <3>1. CASE j = i
      <4>1. cache'[j][b] = <<>> /\ j \notin current'
        BY <1>a, <2>1, <3>1 DEF NoSeries
      <4> QED BY <4>1 DEF Series
    <3>2. CASE j # i
      <4>1. cache'[j] = cache[j] /\ (j \in current' => j \in current)
        BY <1>a, <2>1, <3>2
      <4>2. Series(b, cache[j][b])'
        BY <1>b, <4>1
      <4>3. Effective(b)' = Effective(b)
        BY <2>1 DEF Effective, Stored, Row
      <4> QED BY <4>1, <4>2, <4>3 DEF CacheInv
    <3> QED BY <3>1, <3>2
  <2> QED BY <2>2, <2>3 DEF CacheInv
<1>7. ASSUME NEW i \in Instances, NEW c \in Currencies, Fetch(i, c) PROVE CacheInv'
  BY <1>7, <1>c DEF Fetch
<1>8. ASSUME NEW i \in Instances, NEW c \in Currencies, FetchFails(i, c) PROVE CacheInv'
  BY <1>8, <1>c DEF FetchFails, table
<1>9. ASSUME NEW i \in Instances, NEW c \in Currencies, UpsertChunk(i, c) PROVE CacheInv'
  <2>1. cache' = cache /\ current' = IF fx' = fx THEN current ELSE {}
    BY <1>9 DEF UpsertChunk, Upsert
  <2> QED BY <1>c, <2>1
<1>10. ASSUME NEW i \in Instances, NEW c \in Currencies, UpsertFails(i, c) PROVE CacheInv'
  BY <1>10, <1>c DEF UpsertFails, table
<1>11. ASSUME NEW c \in Currencies, PublishRate(c) PROVE CacheInv'
  BY <1>11, <1>c DEF PublishRate, table
<1>12. ASSUME NEW c \in Currencies, CorrectRate(c) PROVE CacheInv'
  BY <1>12, <1>c DEF CorrectRate, table
<1>13. CASE NextDay
  BY <1>13, <1>c DEF NextDay, table
<1>14. CASE UNCHANGED vars
  BY <1>14, <1>c DEF vars
<1> QED
  BY <1>1, <1>2, <1>3, <1>4, <1>5, <1>6, <1>7, <1>8, <1>9, <1>10, <1>11, <1>12, <1>13, <1>14 DEF
     Next, Sync

\* What the instances hold in memory, whatever is synced, restarted or corrected
\* meanwhile: dates of the table, ascending, without a gap before the last.
THEOREM CacheInvariance == Spec => []CacheInv
<1>1. Init => CacheInv
  <2> SUFFICES ASSUME Init PROVE CacheInv
    OBVIOUS
  <2>1. cache \in [Instances -> [Currencies -> Seq(RateRow)]] /\ current = {}
    BY DEF Init, NoSeries
  <2>2. \A i \in Instances, c \in Currencies : cache[i][c] = <<>>
    BY DEF Init, NoSeries
  <2> QED BY <2>1, <2>2 DEF CacheInv, Series
<1> QED BY <1>1, CacheStep, Invariance, PTL DEF Spec

\* The row findLatest takes from the table.
LEMMA LatestRow ==
    ASSUME NEW c \in Currencies, NEW on \in Days, NEW d \in Dates(c), d <= on,
           \A e \in Dates(c) : e <= on => e <= d
    PROVE  DbLatest(c, on) = Row(c, d)
<1> DEFINE dates == {e \in Stored(c) \cup SeedDays : e <= on}
<1>0. dates \subseteq Days /\ Days \subseteq Nat
  <2>1. LastDay \in Nat /\ Days = 1..LastDay
    BY LimitsAssumption DEF Days
  <2>2. Days \subseteq Nat
    BY <2>1
  <2> QED BY <2>2, SeedAssumption DEF Stored
<1>1. d \in dates /\ \A e \in dates : e <= d
  BY DEF Dates
<1>2. Max(dates) \in dates /\ Max(dates) >= d
  <2> HIDE DEF dates
  <2> QED BY <1>0, <1>1, LastOfDays
<1>3. Max(dates) = d
  <2> HIDE DEF dates
  <2>1. Max(dates) <= d /\ Max(dates) \in Nat /\ d \in Nat
    BY <1>0, <1>1, <1>2
  <2> QED BY <1>2, <2>1
<1> QED BY <1>1, <1>3 DEF DbLatest

\* findLatest of the cache and of the service: an instance whose cache holds the
\* table as it is answers every date as the table would, and an outdated cache
\* answers, from the last seed day on, for no other day than the table.
THEOREM CacheIsAuthoritativeHolds == Spec => []CacheIsAuthoritative
<1>1. ASSUME IInv, CacheInv PROVE CacheIsAuthoritative
  <2> SUFFICES ASSUME NEW i \in Instances, NEW c \in Currencies, NEW d \in Days
               PROVE  /\ i \in current => FindLatest(i, c, d) = DbLatest(c, d)
                      /\ (\A s \in SeedDays : s <= d) /\ DbLatest(c, d) # NoRate =>
                            FindLatest(i, c, d).day = DbLatest(c, d).day
    BY DEF CacheIsAuthoritative
  <2> DEFINE s == cache[i][c]
             r == Rightmost(s, d)
  <2>0. /\ s \in Seq(RateRow) /\ Len(s) \in Nat /\ Series(c, s)
        /\ i \in current => s = Effective(c)
    BY <1>1 DEF CacheInv
  <2>d. d \in Nat /\ Days \subseteq Nat /\ Dates(c) \subseteq Days
    <3>1. LastDay \in Nat /\ Days = 1..LastDay
      BY LimitsAssumption DEF Days
    <3>2. Days \subseteq Nat
      BY <3>1
    <3> QED BY <3>2, SeedAssumption DEF Dates, Stored
  <2>1. CASE CacheLatest(s, d) = NoRate
    <3>1. FindLatest(i, c, d) = DbLatest(c, d)
      BY <2>1 DEF FindLatest
    <3> QED BY <3>1
  <2>2. CASE CacheLatest(s, d) # NoRate
    <3>1. s # <<>> /\ ~(d > s[Len(s)].day) /\ r # 0 /\ FindLatest(i, c, d) = s[r]
      BY <2>2 DEF FindLatest, CacheLatest, Last
    <3>2. r \in 0..Len(s) /\ \A k \in 1..Len(s) : k <= r <=> s[k].day <= d
      BY <2>0, <2>d, RightmostFacts DEF Series
    <3> HIDE DEF r, s
    <3>3. /\ r \in 1..Len(s) /\ Len(s) \in 1..Len(s) /\ s[r].day <= d
          /\ s[r].day \in Dates(c) /\ s[r].day \in Nat /\ s[Len(s)].day \in Nat
      <4>1. r \in 1..Len(s)
        BY <2>0, <3>1, <3>2
      <4>2. Len(s) \in 1..Len(s)
        BY <2>0, <4>1
      <4>3. \A k \in 1..Len(s) : s[k].day \in Dates(c) /\ s[k].day \in Nat
        BY <2>0, <2>d DEF Series
      <4>4. s[r].day <= d
        BY <2>0, <3>2, <4>1
      <4> QED BY <4>1, <4>2, <4>3, <4>4
    <3>4. ASSUME NEW k \in 1..Len(s), s[k].day <= d PROVE s[k].day <= s[r].day
      <4>1. k = r \/ s[k].day < s[r].day
        BY <2>0, <3>2, <3>3, <3>4 DEF Series
      <4>2. s[k].day \in Nat
        BY <2>0, <2>d DEF Series
      <4> QED BY <3>3, <4>1, <4>2
    <3>5. ASSUME i \in current PROVE FindLatest(i, c, d) = DbLatest(c, d)
      <4>1. /\ s[r] = Row(c, s[r].day)
            /\ \A e \in Dates(c) : \E k \in 1..Len(s) : s[k].day = e
        BY <1>1, <2>0, <3>3, <3>5, EffectiveFacts DEF IInv
      <4>2. \A e \in Dates(c) : e <= d => e <= s[r].day
        BY <3>4, <4>1
      <4>3. DbLatest(c, d) = Row(c, s[r].day)
        BY <3>3, <4>2, LatestRow
      <4> QED BY <3>1, <4>1, <4>3
    <3>6. ASSUME \A e \in SeedDays : e <= d PROVE FindLatest(i, c, d).day = DbLatest(c, d).day
      <4>1. \E k \in 1..Len(s) : s[k].day = d
        <5>1. CASE s[Len(s)].day \in SeedDays
          BY <2>d, <3>1, <3>3, <3>6, <5>1
        <5>2. CASE s[Len(s)].day \notin SeedDays
          BY <2>0, <2>d, <3>1, <3>3, <5>2 DEF Series
        <5> QED BY <5>1, <5>2
      <4>2. s[r].day = d
        <5>1. d <= s[r].day
          BY <2>d, <3>4, <4>1
        <5> QED BY <2>d, <3>3, <5>1
      <4>3. DbLatest(c, d) = Row(c, d)
        <5>1. d \in Dates(c)
          BY <3>3, <4>2
        <5>2. d <= d
          BY <2>d
        <5> QED BY <5>1, <5>2, LatestRow
      <4>4. Row(c, d).day = d
        BY DEF Row
      <4> QED BY <3>1, <4>2, <4>3, <4>4
    <3> QED BY <3>5, <3>6
  <2> QED BY <2>1, <2>2
<1> QED BY <1>1, Invariance, CacheInvariance, PTL
=============================================================================
