----------------------------- MODULE MCReceipts -----------------------------
(***************************************************************************)
(* Receipts with an order event, a poison event and two consumers.         *)
(***************************************************************************)
EXTENDS Receipts

CONSTANTS e1, bad, c1, c2

MCEvents == {e1, bad}
MCMaxCopies == [e \in MCEvents |-> IF e = bad THEN 1 ELSE 2]
MCOrderOf == [e \in MCEvents |-> IF e = bad THEN "none" ELSE "order"]
=============================================================================
