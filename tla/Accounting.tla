----------------------------- MODULE Accounting -----------------------------
(***************************************************************************)
(* The vocabulary of the ledger: the rows of the transactions table, the   *)
(* requests that write them, and the arithmetic that relates a row to the  *)
(* balance of its account.  AtomicLedger and Ledger are built on it.       *)
(*                                                                         *)
(* A request is a checkout (src/src/concurrency/checkout.ts), a batch of   *)
(* transactions (POST /transactions) or a status change of one order       *)
(* (PATCH /orders/:id/status).                                             *)
(***************************************************************************)
EXTENDS Integers, Sequences, FiniteSets, FiniteSetsExt

CONSTANTS
    Accounts,   \* the rows of the accounts table
    Quoted,     \* the accounts whose currency is UAH or has an fx rate
    Opening,    \* account -> balance when the model starts
    Requests,   \* the concurrent requests
    Ops,        \* what a request may ask for
    Seeded,     \* the orders that exist when the model starts
    SeededRow,  \* their rows
    MaxEntries, \* no batch has more entries than this
    NoRow       \* a row that does not exist (yet)

\* How a transaction type moves the balance.
SIGN == [type \in {"income", "transfer_in", "sell", "expense", "transfer_out", "buy"} |->
            IF type \in {"income", "transfer_in", "sell"} THEN 1 ELSE -1]

Statuses == {"pending", "posted", "failed"}

\* The i-th row request r inserts is <<r, i>>.
RowIds == (Requests \X (1..MaxEntries)) \cup Seeded

Row(acct, type, cents, status) ==
    [acct |-> acct, type |-> type, cents |-> cents, status |-> status]

Rows == [acct : Accounts, type : DOMAIN SIGN, cents : Nat, status : Statuses]

\* The amount a row books on its account when it is posted.
Booked(row) == SIGN[row.type] * row.cents

\* Only posted rows count towards the balance: what changing the status of a
\* row to `to` does to the balance.
StatusDelta(row, to) ==
    CASE row.status # "posted" /\ to = "posted" -> Booked(row)
      [] row.status = "posted" /\ to # "posted" -> -Booked(row)
      [] OTHER -> 0

CrossesPosted(row, to) == (row.status = "posted") # (to = "posted")

\* The deltas Map of TransactionsService.create.  Its keys, in the order they are
\* first set: the positions of the entries that are the first of their account.
DeltaKeys(entries) ==
    {i \in DOMAIN entries : \A k \in DOMAIN entries : entries[k].acct = entries[i].acct => i <= k}

\* The sum under one key, entry by entry.
BatchDelta(entries, a) ==
    LET sum[n \in 0..Len(entries)] ==
            IF n = 0 THEN 0
            ELSE sum[n - 1] + (IF entries[n].acct = a THEN SIGN[entries[n].type] * entries[n].cents
                                                     ELSE 0)
    IN  sum[Len(entries)]

\* The rows request r inserts for its entries: always posted.
BatchRows(r, entries) ==
    [t \in {r} \X DOMAIN entries |->
        Row(entries[t[2]].acct, entries[t[2]].type, entries[t[2]].cents, "posted")]

\* The row a checkout inserts.
OrderRow(o) == Row(o.acct, "buy", o.cost, "posted")

\* What validation lets through: the account that a request names may not exist, its
\* amounts are not negative, and a batch has one to MaxEntries entries.
TypedOp(o) ==
    CASE o.kind = "checkout" -> o.cost \in Nat
      [] o.kind = "batch" ->
            /\ DOMAIN o.entries = 1..Len(o.entries)
            /\ Len(o.entries) \in 1..MaxEntries
            /\ \A i \in DOMAIN o.entries : o.entries[i].type \in DOMAIN SIGN /\ o.entries[i].cents \in Nat
      [] o.kind = "status" -> o.row \in RowIds /\ o.to \in Statuses

ASSUME AccountingAssumption ==
    /\ Quoted \subseteq Accounts
    /\ IsFiniteSet(Accounts) /\ IsFiniteSet(Requests) /\ IsFiniteSet(Seeded)
    /\ Opening \in [Accounts -> Int]
    /\ SeededRow \in [Seeded -> Rows]
    /\ Seeded \cap (Requests \X (1..MaxEntries)) = {}
    /\ MaxEntries \in Nat \ {0}
    /\ NoRow \notin Rows
    /\ \A o \in Ops : o.kind \in {"checkout", "batch", "status"} /\ TypedOp(o)
=============================================================================
