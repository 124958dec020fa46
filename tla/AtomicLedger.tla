---------------------------- MODULE AtomicLedger ----------------------------
(***************************************************************************)
(* What the ledger promises: a request takes effect in one indivisible     *)
(* step or not at all.  A purchase needs the money to be there, and moves  *)
(* the money, writes the order and enqueues its job together; a batch      *)
(* books all its entries; a status change books or un-books one row.       *)
(* Ledger, with its statements, locks, rollbacks and crashes, implements   *)
(* this.                                                                   *)
(***************************************************************************)
EXTENDS Accounting

VARIABLES
    balance,    \* accounts.balance_cents
    tx,         \* the transactions table
    jobs        \* the orders job_queue has a receipt job for

alVars == <<balance, tx, jobs>>

Init ==
    /\ balance = Opening
    /\ tx = [t \in RowIds |-> IF t \in Seeded THEN SeededRow[t] ELSE NoRow]
    /\ jobs = {}

Purchase(r, o) ==
    /\ o.kind = "checkout"
    /\ tx[<<r, 1>>] = NoRow
    /\ o.acct \in Quoted
    /\ balance[o.acct] >= o.cost
    /\ balance' = [balance EXCEPT ![o.acct] = @ - o.cost]
    /\ tx' = [tx EXCEPT ![<<r, 1>>] = OrderRow(o)]
    /\ jobs' = jobs \cup {<<r, 1>>}

Book(r, o) ==
    /\ o.kind = "batch"
    /\ \A i \in DOMAIN o.entries : tx[<<r, i>>] = NoRow
    /\ \A i \in DOMAIN o.entries : o.entries[i].acct \in Quoted
    /\ balance' = [a \in Accounts |-> balance[a] + BatchDelta(o.entries, a)]
    /\ LET rows == BatchRows(r, o.entries) IN
       tx' = [t \in RowIds |-> IF t \in DOMAIN rows THEN rows[t] ELSE tx[t]]
    /\ UNCHANGED jobs

SetStatus(o) ==
    /\ o.kind = "status"
    /\ tx[o.row] # NoRow
    /\ balance' = [balance EXCEPT ![tx[o.row].acct] = @ + StatusDelta(tx[o.row], o.to)]
    /\ tx' = [tx EXCEPT ![o.row].status = o.to]
    /\ UNCHANGED jobs

Next == \E r \in Requests, o \in Ops : Purchase(r, o) \/ Book(r, o) \/ SetStatus(o)

Spec == Init /\ [][Next]_alVars
=============================================================================
