----------------------------- MODULE MCSessions -----------------------------
(***************************************************************************)
(* Sessions with three requests.  There are as many tokens as the logins   *)
(* and the refreshes of a behaviour can issue.  What the environment does  *)
(* is bounded by scope: refreshes and logouts of one session while time    *)
(* passes; logouts and calls of two sessions while time passes; refreshes, *)
(* reads and writes of one session around a demotion.                      *)
(***************************************************************************)
EXTENDS Sessions

MCRequests == 1..3
MCTokens == 1..(1 + Cardinality(MCRequests))

Kinds == {kind[r] : r \in Requests}
OneLogin == \A t \in delivered : row[t].family = 1

\* No crash, and no call without a token.
NoFault ==
    \A r \in Requests : /\ answer[r] \notin {"crashed", "unanswered"}
                        /\ pc[r] = "verify" => token[r] # Unknown

RotationScope == OneLogin /\ role = "member" /\ Kinds \subseteq {"none", "refresh", "logout"}
CallScope == role = "member" /\ NoFault /\ Kinds \subseteq {"none", "logout", "write"}
RoleScope == OneLogin /\ clock = 1 /\ NoFault /\ Kinds \subseteq {"none", "refresh", "read", "write"}

InScope == RotationScope \/ CallScope \/ RoleScope

MCSpec == Init /\ [][Next /\ InScope']_vars /\ \A r \in Requests : WF_vars(Step(r))
=============================================================================
