------------------------------- MODULE FxRates ------------------------------
(***************************************************************************)
(* The fx rates of src/src/fx-rates: instances of the application that     *)
(* start at any time, each of which syncs the table fx_rate with the NBU   *)
(* (FxSyncService), loads it into memory (FxRateCache) and then looks      *)
(* rates up (FxRatesService).                                              *)
(*                                                                         *)
(* A rate that the NBU has published for a day and corrected n times is    *)
(* its revision n + 1.  Besides the rows of source 'nbu' the table may     *)
(* hold rows of another source from the seed scripts, on SeedDays; 'nbu'   *)
(* comes first in ORDER BY source.                                         *)
(***************************************************************************)
EXTENDS Naturals, SequencesExt, FiniteSets

CONSTANTS
    Currencies,     \* the quoted currencies of the table currency (all but UAH)
    Published,      \* those of them the NBU publishes
    LastDay,        \* bound: days are 1..LastDay, FX_BACKFILL_FROM is day 1
    SeedDays,       \* the days the seed scripts wrote a rate for
    Instances,      \* the instances of the application
    Chunk,          \* UPSERT_CHUNK
    Concurrency,    \* currencies an instance syncs at once
    MaxRevision,    \* bound: revisions of one rate
    NoRate          \* undefined

Days == 1..LastDay

ASSUME SeedAssumption == SeedDays \subseteq Days /\ Published \subseteq Currencies
ASSUME LimitsAssumption == {LastDay, Chunk, Concurrency, MaxRevision} \subseteq Nat \ {0}

VARIABLES
    today,
    nbu,            \* currency -> the revision of each day the NBU has published
    fx,             \* currency -> day -> the revision stored under source 'nbu', 0 for none
    newest,         \* currency -> day -> the newest revision a sync asked to store (history variable)
    crossed,        \* currencies two instances held fetched rows of at once (history variable)
    pc,             \* instance -> "down", "boot", "sync", "load" or "serving"
    window,         \* instance -> the first day to fetch per currency, and the last
    task,           \* instance -> currency -> "none", "upsert" or "done"
    rows,           \* instance -> currency -> the fetched rows it has yet to store
    cache,          \* instance -> currency -> its series
    current         \* instances that loaded the table as it is now (history variable)

vars == <<today, nbu, fx, newest, crossed, pc, window, task, rows, cache, current>>
world == <<today, nbu>>
table == <<fx, newest, crossed>>

NoSeries == [c \in Currencies |-> <<>>]
NoTask == [c \in Currencies |-> "none"]
NoWindow == [from |-> [c \in Currencies |-> 1], to |-> 1]

Init ==
    /\ today = 1
    /\ nbu = [c \in Currencies |-> <<>>]
    /\ fx = [c \in Currencies |-> [d \in Days |-> 0]]
    /\ newest = fx
    /\ crossed = {}
    /\ pc = [i \in Instances |-> "down"]
    /\ window = [i \in Instances |-> NoWindow]
    /\ task = [i \in Instances |-> NoTask]
    /\ rows = [i \in Instances |-> NoSeries]
    /\ cache = [i \in Instances |-> NoSeries]
    /\ current = {}

-----------------------------------------------------------------------------
(* FxRateRepository.                                                       *)

Stored(c) == {d \in Days : fx[c][d] > 0}

\* MAX(rate_date) for source 'nbu', or FX_BACKFILL_FROM.
LastDate(c) == IF Stored(c) = {} THEN 1 ELSE Max(Stored(c))

\* The row that ORDER BY source puts first, for a day that has one.
Row(c, d) ==
    IF fx[c][d] > 0 THEN [day |-> d, rate |-> fx[c][d], source |-> "nbu"]
    ELSE [day |-> d, rate |-> 0, source |-> "seed"]

\* findAllEffective: one row per date, dates ascending.
Effective(c) ==
    LET upTo[d \in 0..LastDay] ==
            IF d = 0 THEN <<>>
            ELSE IF d \in Stored(c) \cup SeedDays THEN Append(upTo[d - 1], Row(c, d))
            ELSE upTo[d - 1]
    IN  upTo[LastDay]

\* findLatest: WHERE rate_date <= on ORDER BY rate_date DESC, source ASC.
DbLatest(c, on) ==
    LET dates == {d \in Stored(c) \cup SeedDays : d <= on}
    IN  IF dates = {} THEN NoRate ELSE Row(c, Max(dates))

-----------------------------------------------------------------------------
(* FxRateCache and FxRatesService.                                         *)

\* Mutant of Rightmost: a row of the very date is not taken.
RightmostBefore(series, on) ==
    LET loop[n \in 0..Len(series)] ==
            IF n = 0 THEN [lo |-> 1, hi |-> Len(series), found |-> 0]
            ELSE LET s == loop[n - 1]
                     mid == (s.lo + s.hi) \div 2
                 IN  IF s.lo > s.hi THEN s
                     ELSE IF series[mid].day < on THEN [lo |-> mid + 1, hi |-> s.hi, found |-> mid]
                     ELSE [lo |-> s.lo, hi |-> mid - 1, found |-> s.found]
    IN  loop[Len(series)].found

\* The binary search: the last place whose day is not after `on`, 0 for none.
\* loop[n] is what n iterations leave; Len(series) of them are enough.
Rightmost(series, on) ==
    LET loop[n \in 0..Len(series)] ==
            IF n = 0 THEN [lo |-> 1, hi |-> Len(series), found |-> 0]
            ELSE LET s == loop[n - 1]
                     mid == (s.lo + s.hi) \div 2
                 IN  IF s.lo > s.hi THEN s
                     ELSE IF series[mid].day <= on THEN [lo |-> mid + 1, hi |-> s.hi, found |-> mid]
                     ELSE [lo |-> s.lo, hi |-> mid - 1, found |-> s.found]
    IN  loop[Len(series)].found

\* NoRate stands for "ask the database".
CacheLatest(series, on) ==
    IF series = <<>> \/ on > Last(series).day \/ Rightmost(series, on) = 0
    THEN NoRate ELSE series[Rightmost(series, on)]

\* What a lookup by instance i answers: memory first, then the database.
FindLatest(i, c, on) ==
    LET cached == CacheLatest(cache[i][c], on)
    IN  IF cached # NoRate THEN cached ELSE DbLatest(c, on)

-----------------------------------------------------------------------------
(* FxSyncService.                                                          *)

Start(i) ==
    /\ pc[i] = "down"
    /\ pc' = [pc EXCEPT ![i] = "boot"]
    /\ UNCHANGED <<world, table, window, task, rows, cache, current>>

\* sync: from each currency's last stored day through tomorrow.
StartSync(i) ==
    /\ pc[i] = "boot"
    /\ window' = [window EXCEPT ![i] = [from |-> [c \in Currencies |-> LastDate(c)], to |-> today + 1]]
    /\ pc' = [pc EXCEPT ![i] = "sync"]
    /\ UNCHANGED <<world, table, task, rows, cache, current>>

\* FX_SYNC_ON_START=0, or the queries that start the sync fail.
SkipSync(i) ==
    /\ pc[i] = "boot"
    /\ pc' = [pc EXCEPT ![i] = "load"]
    /\ UNCHANGED <<world, table, window, task, rows, cache, current>>

MayStart(i, c) ==
    /\ pc[i] = "sync"
    /\ task[i][c] = "none"
    /\ Cardinality({k \in Currencies : task[i][k] = "upsert"}) < Concurrency

\* The NBU answers with what it has published of the window, dates ascending.
Fetched(i, c) ==
    LET first == window[i].from[c]
        last == Min({window[i].to, Len(nbu[c])})
    IN  [n \in 1..(IF last < first THEN 0 ELSE last + 1 - first) |->
            [day |-> first + n - 1, rate |-> nbu[c][first + n - 1]]]

Fetch(i, c) ==
    /\ MayStart(i, c)
    /\ rows' = [rows EXCEPT ![i][c] = Fetched(i, c)]
    /\ task' = [task EXCEPT ![i][c] = IF Fetched(i, c) = <<>> THEN "done" ELSE "upsert"]
    /\ crossed' = IF \E j \in Instances \ {i} : task[j][c] = "upsert" THEN crossed \cup {c} ELSE crossed
    /\ UNCHANGED <<world, fx, newest, pc, window, cache, current>>

\* A timeout, an HTTP error or a body that does not parse ends this currency.
FetchFails(i, c) ==
    /\ MayStart(i, c)
    /\ task' = [task EXCEPT ![i][c] = "done"]
    /\ UNCHANGED <<world, table, pc, window, rows, cache, current>>

\* The rates f with those of the rows s, which are of different days, in their places.
Overwrite(f, s) ==
    [d \in Days |-> IF \E n \in DOMAIN s : s[n].day = d
                   THEN s[CHOOSE n \in DOMAIN s : s[n].day = d].rate ELSE f[d]]

\* Mutant of Upsert: ON CONFLICT DO NOTHING.
UpsertIgnore(c, s) ==
    /\ fx' = [fx EXCEPT ![c] = [d \in Days |-> IF @[d] > 0 THEN @[d] ELSE Overwrite(@, s)[d]]]
    /\ newest' = [newest EXCEPT ![c] = [d \in Days |-> Max({@[d], Overwrite(@, s)[d]})]]
    /\ current' = IF fx' = fx THEN current ELSE {}
    /\ UNCHANGED crossed

\* INSERT ... ON CONFLICT DO UPDATE of the rows s: the last writer wins.
Upsert(c, s) ==
    /\ fx' = [fx EXCEPT ![c] = Overwrite(@, s)]
    /\ newest' = [newest EXCEPT ![c] = [d \in Days |-> Max({@[d], Overwrite(@, s)[d]})]]
    /\ current' = IF fx' = fx THEN current ELSE {}
    /\ UNCHANGED crossed

\* Mutant of UpsertChunk: the newest rows first.
UpsertLastChunk(i, c) ==
    LET n == Len(rows[i][c])
        keep == IF n > Chunk THEN n - Chunk ELSE 0 IN
    /\ task[i][c] = "upsert"
    /\ Upsert(c, SubSeq(rows[i][c], keep + 1, n))
    /\ rows' = [rows EXCEPT ![i][c] = SubSeq(@, 1, keep)]
    /\ task' = [task EXCEPT ![i][c] = IF keep = 0 THEN "done" ELSE "upsert"]
    /\ UNCHANGED <<world, pc, window, cache>>

\* One iteration of upsertMany: a statement, and a COMMIT, of its own.
UpsertChunk(i, c) ==
    LET n == Len(rows[i][c])
        size == Min({Chunk, n}) IN
    /\ task[i][c] = "upsert"
    /\ Upsert(c, SubSeq(rows[i][c], 1, size))
    /\ rows' = [rows EXCEPT ![i][c] = SubSeq(@, size + 1, n)]
    /\ task' = [task EXCEPT ![i][c] = IF n = size THEN "done" ELSE "upsert"]
    /\ UNCHANGED <<world, pc, window, cache>>

\* The database refuses a chunk: the rest of this currency is given up.
UpsertFails(i, c) ==
    /\ task[i][c] = "upsert"
    /\ rows' = [rows EXCEPT ![i][c] = <<>>]
    /\ task' = [task EXCEPT ![i][c] = "done"]
    /\ UNCHANGED <<world, table, pc, window, cache, current>>

EndSync(i) ==
    /\ pc[i] = "sync"
    /\ \A c \in Currencies : task[i][c] = "done"
    /\ task' = [task EXCEPT ![i] = NoTask]
    /\ window' = [window EXCEPT ![i] = NoWindow]
    /\ pc' = [pc EXCEPT ![i] = "load"]
    /\ UNCHANGED <<world, table, rows, cache, current>>

\* One query, one Map swap; or the query fails and the cache stays empty.
Load(i) ==
    /\ pc[i] = "load"
    /\ \/ /\ cache' = [cache EXCEPT ![i] = [c \in Currencies |-> Effective(c)]]
          /\ current' = current \cup {i}
       \/ UNCHANGED <<cache, current>>
    /\ pc' = [pc EXCEPT ![i] = "serving"]
    /\ UNCHANGED <<world, table, window, task, rows>>

\* The process ends, for whatever reason, wherever it is.
Stop(i) ==
    /\ pc[i] # "down"
    /\ pc' = [pc EXCEPT ![i] = "down"]
    /\ window' = [window EXCEPT ![i] = NoWindow]
    /\ task' = [task EXCEPT ![i] = NoTask]
    /\ rows' = [rows EXCEPT ![i] = NoSeries]
    /\ cache' = [cache EXCEPT ![i] = NoSeries]
    /\ current' = current \ {i}
    /\ UNCHANGED <<world, table>>

-----------------------------------------------------------------------------
(* The NBU and the calendar.                                               *)

\* A rate for every day, in order, and tomorrow's today.
PublishRate(c) ==
    /\ c \in Published
    /\ Len(nbu[c]) < Min({today + 1, LastDay})
    /\ nbu' = [nbu EXCEPT ![c] = Append(@, 1)]
    /\ UNCHANGED <<today, table, pc, window, task, rows, cache, current>>

CorrectRate(c) ==
    /\ \E d \in DOMAIN nbu[c] : nbu[c][d] < MaxRevision /\ nbu' = [nbu EXCEPT ![c][d] = @ + 1]
    /\ UNCHANGED <<today, table, pc, window, task, rows, cache, current>>

NextDay ==
    /\ today < LastDay
    /\ today' = today + 1
    /\ UNCHANGED <<nbu, table, pc, window, task, rows, cache, current>>

Sync(i, c) == Fetch(i, c) \/ FetchFails(i, c) \/ UpsertChunk(i, c) \/ UpsertFails(i, c)

Next ==
    \/ \E i \in Instances : \/ Start(i) \/ StartSync(i) \/ SkipSync(i) \/ EndSync(i) \/ Load(i)
                            \/ Stop(i)
                            \/ \E c \in Currencies : Sync(i, c)
    \/ \E c \in Currencies : PublishRate(c) \/ CorrectRate(c)
    \/ NextDay

Spec == Init /\ [][Next]_vars

-----------------------------------------------------------------------------
\* "A restart fetches days since the last run rather than the whole history"
\* (fx-rate.repository.ts), which is enough only because no day is ever missing
\* before the last stored one, whichever chunk, sync or process failed, and
\* whatever other sources the table holds.
NoHistoryGap ==
    \A c \in Currencies : \A d, e \in Days : d < e /\ fx[c][e] > 0 => fx[c][d] > 0

\* "The cache only answers dates it can answer authoritatively", "so a
\* transaction booked today never freezes yesterday's rate" (fx-rate.cache.ts):
\* an instance whose cache holds the table as it is answers every date as the
\* table would; and an outdated cache never answers with an older day than the
\* table, for any date from the last seed day on.
CacheIsAuthoritative ==
    \A i \in Instances, c \in Currencies, d \in Days : pc[i] = "serving" =>
        LET answer == FindLatest(i, c, d)
            stored == DbLatest(c, d) IN
        /\ i \in current => answer = stored
        /\ (\A s \in SeedDays : s <= d) /\ stored # NoRate => answer.day = stored.day

\* The slower of two instances may store an answer of before a correction over the
\* corrected rate.  What holds is that the table keeps the newest revision that
\* any sync asked it to store, across failures, crashes and any number of
\* restarts, unless two instances held fetched rows of the same currency at once.
OnlyCrossedSyncsRegress ==
    \A c \in Currencies \ crossed : \A d \in Days : fx[c][d] = newest[c][d]
=============================================================================
