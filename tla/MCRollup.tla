------------------------------ MODULE MCRollup ------------------------------
(* Rollup on its own. *)
EXTENDS Rollup, Cases
=============================================================================
