------------------------------- MODULE Paging -------------------------------
(***************************************************************************)
(* The paged lists GET /accounts and GET /transactions of                  *)
(* src/src/accounts and src/src/transactions: a client walks a list by     *)
(* following next_cursor, while accounts, batches and orders are inserted. *)
(*                                                                         *)
(* Time is in ticks, the microseconds of now(); a JS Date, and the cursor  *)
(* made from it, holds milliseconds.  A row's time says nothing about when *)
(* it appears: created_at is stamped before the INSERT, now() is the start *)
(* of the transaction, and booked_at may be any time the client gives.     *)
(* Ids are random UUIDs, which Postgres compares like numbers.  Rows are   *)
(* never deleted and keep their times and owners.                          *)
(***************************************************************************)
EXTENDS Naturals, SequencesExt, FiniteSets

CONSTANTS
    Users,
    AccountIds,     \* numbers
    TransactionIds, \* numbers
    Ticks,          \* bound: the last tick
    Millisecond,    \* the ticks of a millisecond
    MaxBatch,       \* entries of a batch
    Limits,         \* the limits clients ask for
    Walks,          \* the walks through a list
    None            \* null

ASSUME IdsAssumption == /\ AccountIds \subseteq Nat /\ IsFiniteSet(AccountIds)
                        /\ TransactionIds \subseteq Nat /\ IsFiniteSet(TransactionIds)
ASSUME NoneAssumption == None \notin AccountIds /\ None \notin [at : Nat, id : Nat]
ASSUME TimeAssumption == Ticks \in Nat /\ Millisecond \in Nat \ {0} /\ MaxBatch \in Nat \ {0}
ASSUME LimitsAssumption == Limits \subseteq Nat \ {0}

VARIABLES
    accounts,       \* the rows of accounts: id, owner and created_at
    transactions,   \* the rows of transactions: id, account and booked_at
    walk,           \* walk -> where it is: its query, cursor, and the items it got
    missed          \* walk -> rows inserted in a place it had passed (history variable)

pagingVars == <<accounts, transactions, walk, missed>>

Queries == [list : {"accounts"}, user : Users, account : {None}]
           \cup [list : {"transactions"}, user : Users, account : AccountIds \cup {None}]

PagingInit ==
    /\ accounts = {}
    /\ transactions = {}
    /\ walk = [w \in Walks |-> [pc |-> "idle", query |-> None, cursor |-> None, items |-> <<>>]]
    /\ missed = [w \in Walks |-> {}]

-----------------------------------------------------------------------------
(* Conversions of a time.                                                  *)

\* new Date(): the tick is cut off at the millisecond.
ToDate(t) == (t \div Millisecond) * Millisecond

\* Mutant of Column: timestamptz without a precision, as before the migration.
ColumnOfTicks(t) == t

\* timestamptz(3): Postgres rounds to the nearest millisecond.
Column(t) == ((t + Millisecond \div 2) \div Millisecond) * Millisecond

-----------------------------------------------------------------------------
(* AccountsRepository and TransactionsRepository.                          *)

AccountOf(id) == CHOOSE a \in accounts : a.id = id
AccountExists(id) == \E a \in accounts : a.id = id

\* assertOwner of the service methods, after the 404.
Access(u, account) ==
    CASE ~AccountExists(account) -> "404"
      [] AccountExists(account) /\ AccountOf(account).owner # u -> "403"
      [] OTHER -> "200"

\* getById of the two services: a transaction is owned through its account.
GetAccount(u, id) == Access(u, id)
GetTransaction(u, id) ==
    IF \A t \in transactions : t.id # id THEN "404"
    ELSE Access(u, (CHOOSE t \in transactions : t.id = id).account)

\* The row comparison (at, id) < (c, cid).
Below(r, c) == r.at < c.at \/ (r.at = c.at /\ r.id < c.id)

\* The rows a query selects: WHERE user_id, or the join with the user's accounts.
Selected(q) ==
    IF q.list = "accounts" THEN {a \in accounts : a.owner = q.user}
    ELSE {t \in transactions :
            /\ \E a \in accounts : a.id = t.account /\ a.owner = q.user
            /\ q.account # None => t.account = q.account}

\* findPage: ORDER BY at DESC, id DESC, the first `limit` rows after the cursor.
FindPage(q, cursor, limit) ==
    LET rows == {r \in Selected(q) : cursor # None => Below(r, cursor)}
    IN  CHOOSE page \in UNION {[1..n -> rows] : n \in 0..limit} :
            /\ \A m, n \in DOMAIN page : m < n => Below(page[n], page[m])
            /\ \A r \in rows \ ToSet(page) : Len(page) = limit /\ \A n \in 1..limit : Below(r, page[n])

\* encodeCursor of the last item as the client sees it; a short page is the last.
NextCursor(page, limit) ==
    IF Len(page) = limit THEN [at |-> ToDate(Last(page).at), id |-> Last(page).id] ELSE None

-----------------------------------------------------------------------------
(* The client of a list.                                                   *)

Begin(w, q) ==
    /\ walk[w].pc = "idle"
    /\ walk' = [walk EXCEPT ![w].pc = "open", ![w].query = q]
    /\ UNCHANGED <<accounts, transactions, missed>>

\* list with an account_id that is not there, or is someone else's.
RefusePage(w) ==
    LET q == walk[w].query IN
    /\ walk[w].pc = "open"
    /\ q.account # None
    /\ Access(q.user, q.account) # "200"
    /\ walk' = [walk EXCEPT ![w].pc = "refused"]
    /\ UNCHANGED <<accounts, transactions, missed>>

\* Mutant of GetPage: an empty page comes with the cursor that was sent.
GetPageEchoed(w, limit) ==
    LET q == walk[w].query
        page == FindPage(q, walk[w].cursor, limit)
        next == IF page = <<>> THEN walk[w].cursor ELSE NextCursor(page, limit) IN
    /\ walk[w].pc = "open"
    /\ q.account # None => Access(q.user, q.account) = "200"
    /\ walk' = [walk EXCEPT ![w].items = @ \o page,
                            ![w].cursor = next,
                            ![w].pc = IF next = None THEN "done" ELSE "open"]
    /\ UNCHANGED <<accounts, transactions, missed>>

\* list: one page; the client goes on until next_cursor is null.
GetPage(w, limit) ==
    LET q == walk[w].query
        page == FindPage(q, walk[w].cursor, limit)
        next == NextCursor(page, limit) IN
    /\ walk[w].pc = "open"
    /\ q.account # None => Access(q.user, q.account) = "200"
    /\ walk' = [walk EXCEPT ![w].items = @ \o page,
                            ![w].cursor = next,
                            ![w].pc = IF next = None THEN "done" ELSE "open"]
    /\ UNCHANGED <<accounts, transactions, missed>>

-----------------------------------------------------------------------------
(* Insertions.                                                             *)

Passed(w, r) ==
    \/ walk[w].pc = "done"
    \/ (walk[w].pc = "open" /\ walk[w].cursor # None /\ ~Below(r, walk[w].cursor))

\* What the walks miss of the rows that were inserted.
Inserted(list, new) ==
    missed' = [w \in Walks |->
                 missed[w] \cup {r \in new : walk[w].pc # "idle" /\ walk[w].query.list = list /\ Passed(w, r)}]

\* AccountsService.create: stamped by the service, stored later.
CreateAccount(u, id, t) ==
    /\ ~AccountExists(id)
    /\ accounts' = accounts \cup {[id |-> id, owner |-> u, at |-> Column(ToDate(t))]}
    /\ Inserted("accounts", accounts' \ accounts)
    /\ UNCHANGED <<transactions, walk>>

UnusedIds == {id \in TransactionIds : \A t \in transactions : t.id # id}

\* TransactionsService.create: all entries or none; booked_at is what the entry says.
CreateBatch(u, ids, entry) ==
    /\ \A id \in ids : Access(u, entry[id].account) = "200"
    /\ transactions' = transactions \cup
           {[id |-> id, account |-> entry[id].account, at |-> Column(ToDate(entry[id].at))] : id \in ids}
    /\ Inserted("transactions", transactions' \ transactions)
    /\ UNCHANGED <<accounts, walk>>

\* The order of a checkout: booked_at is the now() of Postgres.
Checkout(account, id, t) ==
    /\ AccountExists(account)
    /\ transactions' = transactions \cup {[id |-> id, account |-> account, at |-> Column(t)]}
    /\ Inserted("transactions", transactions' \ transactions)
    /\ UNCHANGED <<accounts, walk>>

Insert ==
    \/ \E u \in Users, id \in AccountIds, t \in 0..Ticks : CreateAccount(u, id, t)
    \/ \E u \in Users, ids \in SUBSET UnusedIds :
          /\ Cardinality(ids) \in 1..MaxBatch
          /\ \E entry \in [ids -> [account : AccountIds, at : 0..Ticks]] : CreateBatch(u, ids, entry)
    \/ \E account \in AccountIds, id \in UnusedIds, t \in 0..Ticks : Checkout(account, id, t)

PagingNext ==
    \/ \E w \in Walks : \/ \E q \in Queries : Begin(w, q)
                        \/ RefusePage(w)
                        \/ \E limit \in Limits : GetPage(w, limit)
    \/ Insert

\* A client that is told of another page asks for it.
PagingSpec == /\ PagingInit /\ [][PagingNext]_pagingVars
              /\ \A w \in Walks :
                    WF_pagingVars(RefusePage(w) \/ \E limit \in Limits : GetPage(w, limit))

-----------------------------------------------------------------------------
\* What the user may read row by row, which is what a list is to contain.
Readable(q) ==
    IF q.list = "accounts" THEN {a \in accounts : GetAccount(q.user, a.id) = "200"}
    ELSE {t \in transactions : GetTransaction(q.user, t.id) = "200" /\ q.account \in {None, t.account}}

\* A walk returns every row its user may read with getById, and no other, once
\* and in order, up to where its cursor is; the only rows it lacks are those
\* inserted behind it.  "Every row inside the same millisecond bucket is
\* skipped" is the failure the migration TimestampMillisecondPrecision is about.
PagesAreExact ==
    \A w \in Walks : walk[w].pc \in {"open", "done"} =>
        LET items == walk[w].items IN
        /\ \A m, n \in DOMAIN items : m < n => Below(items[n], items[m])
        /\ ToSet(items) \cap missed[w] = {}
        /\ {r \in Readable(walk[w].query) : Passed(w, r)}
              = ToSet(items) \cup (missed[w] \cap Readable(walk[w].query))

\* A client that follows next_cursor comes to the end, whatever is inserted.
WalkEnds == \A w \in Walks : walk[w].pc = "open" ~> walk[w].pc \in {"done", "refused"}
=============================================================================
