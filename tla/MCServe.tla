------------------------------ MODULE MCServe ------------------------------
(* Serve with one client more than there are slots, of whom one has turns.  *)
EXTENDS Serve

CONSTANTS c1, c2
MCPrompts == [c \in Conns |-> IF c = c1 THEN 2 ELSE 0]
=============================================================================
