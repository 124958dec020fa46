------------------------------ MODULE MCLedger ------------------------------
(***************************************************************************)
(* Ledger with three concurrent requests, in the combinations of the       *)
(* requests below, on three accounts and one posted order.                 *)
(***************************************************************************)
EXTENDS Ledger

CONSTANTS a, b, c,          \* accounts; there is no fx rate for the currency of c
          nowhere,          \* an id that is no account
          r1, r2, r3,       \* requests
          s1                \* a seeded order

MCAccounts == {a, b, c}
MCQuoted == {a, b}
MCOpening == [x \in {a, b, c} |-> IF x = a THEN 2 ELSE 1]
MCRequests == {r1, r2, r3}
MCSeededRow == [t \in {s1} |-> Row(a, "buy", 1, "posted")]

Checkout(acct, cost) == [kind |-> "checkout", acct |-> acct, cost |-> cost]
Entry(acct, type, cents) == [acct |-> acct, type |-> type, cents |-> cents, ok |-> TRUE]
Batch(entries) == [kind |-> "batch", entries |-> entries]
Status(row, to, owner) == [kind |-> "status", row |-> row, to |-> to, owner |-> owner]

\* Requests that compete for a and for its orders.
Common ==
    << Checkout(a, 2), Checkout(a, 1),
       Batch(<<Entry(a, "transfer_out", 2), Entry(b, "transfer_in", 2)>>),
       Batch(<<Entry(b, "expense", 1), Entry(a, "income", 1), Entry(b, "sell", 1)>>),
       Status(s1, "failed", TRUE), Status(s1, "posted", TRUE), Status(<<r1, 1>>, "pending", TRUE) >>

\* Requests that are turned away by themselves.
Rare ==
    { Checkout(c, 1), Checkout(nowhere, 1), Status(s1, "failed", FALSE),
      Batch(<<Entry(a, "income", 1), [Entry(a, "buy", 1) EXCEPT !.ok = FALSE]>>),
      Batch(<<Entry(b, "income", 1), Entry(nowhere, "income", 1)>>), Batch(<<Entry(c, "income", 1)>>) }

MCOps == Rare \cup {Common[i] : i \in DOMAIN Common}

\* r1 asks for anything, r2 and r3 for two common requests.  Nothing tells r2
\* and r3 apart, so the order of the two does not matter.
MCInit ==
    /\ Init
    /\ \E i, k \in DOMAIN Common : i <= k /\ op[r2] = Common[i] /\ op[r3] = Common[k]

MCSpec == MCInit /\ [][Next]_vars /\ \A r \in Requests : WF_vars(Step(r))
=============================================================================
