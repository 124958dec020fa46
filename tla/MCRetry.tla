------------------------------ MODULE MCRetry -------------------------------
(***************************************************************************)
(* Retry with three writers on two rows: two that cross, and one that      *)
(* updates one of them, so that serialization failures and deadlocks both  *)
(* happen.  The barrier is for the two that start on the same row; the     *)
(* third reads whenever it likes.                                          *)
(***************************************************************************)
EXTENDS Retry

CONSTANTS w1, w2, w3

MCWriters == {w1, w2, w3}
MCParties == {w1, w3}
MCRows == {"a", "b"}
MCPath == [w \in MCWriters |-> CASE w = w1 -> <<"a", "b">>
                                 [] w = w2 -> <<"b", "a">>
                                 [] w = w3 -> <<"a">>]
=============================================================================
