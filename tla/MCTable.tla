------------------------------ MODULE MCTable ------------------------------
(* TableData on its own. *)
EXTENDS TableData, Cases
=============================================================================
