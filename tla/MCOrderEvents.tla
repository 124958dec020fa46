--------------------------- MODULE MCOrderEvents ----------------------------
(***************************************************************************)
(* OrderEvents with two orders, a stream and a socket on the first, and    *)
(* four changes, of which the third may be of the other order.             *)
(***************************************************************************)
EXTENDS OrderEvents

CONSTANTS o1, o2, c1, s1

MCWatched == [c \in {c1, s1} |-> o1]
MCChanges == 1..4

\* The changes are numbered in the order they are made.
InOrder == \A q \in MCChanges \ {1} : pc'[q] # "new" => pc'[q - 1] # "new"

MCInit ==
    /\ Init
    /\ status = [o \in Orders |-> "posted"]
    /\ order \in {[q \in Changes |-> IF q = k THEN o2 ELSE o1] : k \in {3, 5}}
    /\ \A q \in Changes : to[q] = "posted" => order[q] = o1

MCSpec == MCInit /\ [][Next /\ InOrder]_vars
=============================================================================
