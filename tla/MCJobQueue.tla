----------------------------- MODULE MCJobQueue -----------------------------
(***************************************************************************)
(* JobQueue on a small pool: two jobs wait when it starts, one is enqueued *)
(* while it runs, and workers give up after MaxIdlePolls empty polls.      *)
(***************************************************************************)
EXTENDS JobQueue

CONSTANTS w1, w2, w3

MCJobs == 1..3
MCBacklog == {1, 3}
MCWorkers == {w1, w2, w3}
=============================================================================
