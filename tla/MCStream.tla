------------------------------ MODULE MCStream ------------------------------
(* Headless over Stream: every dialect and every way of naming a call for    *)
(* the screen, and one dialect for the doors without one.                    *)
EXTENDS Headless

Door(door, tools, save, quiet) ==
    [door |-> door, tools |-> tools, save |-> save, quiet |-> quiet, reasoning |-> save]
MCWays ==
    {Door("screen", FALSE, FALSE, FALSE)} \cup
    {Door("text", t, s, t) : t \in BOOLEAN, s \in BOOLEAN} \cup
    {Door("json", t, TRUE, FALSE) : t \in BOOLEAN}
=============================================================================
