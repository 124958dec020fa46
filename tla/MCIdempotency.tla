--------------------------- MODULE MCIdempotency ----------------------------
(***************************************************************************)
(* Idempotency with three requests on one key or none.                     *)
(***************************************************************************)
EXTENDS Idempotency

CONSTANTS r1, r2, r3

\* Nothing tells the requests or the bodies apart: the requests arrive in this
\* order and the first has body "x".
Order == <<r1, r2, r3>>
MCRequests == {Order[i] : i \in 1..3}
InOrder == \A i \in 1..2 : pc'[Order[i + 1]] # "new" => pc'[Order[i]] # "new"

MCSpec == Init /\ body[r1] = "x" /\ [][Next /\ InOrder]_vars /\ \A r \in Requests : WF_vars(Step(r))
=============================================================================
