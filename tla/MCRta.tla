-------------------------------- MODULE MCRta --------------------------------
(***************************************************************************)
(* The response time analysis of one task set for TLC, with the round      *)
(* limit of the code.                                                      *)
(***************************************************************************)
EXTENDS Rta

(* One task that leaves one unit of time in every 101. *)
AlmostFull == {<<[cost |-> 100, period |-> 101]>>}
=============================================================================
