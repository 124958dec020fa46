----------------------------- MODULE MCFxRates ------------------------------
(***************************************************************************)
(* FxRates with two instances and two currencies, one of which the NBU     *)
(* does not publish.                                                       *)
(***************************************************************************)
EXTENDS FxRates

CONSTANTS i1, i2
=============================================================================
