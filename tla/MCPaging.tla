------------------------------ MODULE MCPaging ------------------------------
(***************************************************************************)
(* Paging with two users, two accounts and three transactions, all within  *)
(* two milliseconds of two ticks, so that ties and rounding happen.        *)
(***************************************************************************)
EXTENDS Paging
=============================================================================
