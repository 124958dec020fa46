----------------------------- MODULE MCRotation -----------------------------
(***************************************************************************)
(* Rotation with two rotations, each of which may be interrupted, pools    *)
(* of two connections, and two clients of /health/db.                      *)
(***************************************************************************)
EXTENDS Rotation

CONSTANTS q1, q2
=============================================================================
