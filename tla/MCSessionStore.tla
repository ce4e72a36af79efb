--------------------------- MODULE MCSessionStore ---------------------------
(* Instances of SessionStore for TLC: a terminal alone, with faults; a      *)
(* terminal beside a run of another door that rotates the same directory;   *)
(* and two terminals, the second of which may resume what the first writes. *)
EXTENDS SessionStore

CONSTANTS tui, other, serve

MCBounds ==
    {[recorders |-> {tui}, entries |-> 4, names |-> 1, faults |-> 2],
     [recorders |-> {tui, serve}, entries |-> 5, names |-> 0, faults |-> 0],
     [recorders |-> {tui, serve}, entries |-> 2, names |-> 1, faults |-> 1],
     [recorders |-> {tui, other}, entries |-> 3, names |-> 0, faults |-> 1],
     [recorders |-> {tui, other}, entries |-> 2, names |-> 1, faults |-> 0]}
=============================================================================
