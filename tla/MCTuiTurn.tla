------------------------------ MODULE MCTuiTurn ------------------------------
(* TuiTurn with small bounds. *)
EXTENDS TuiTurn
=============================================================================
