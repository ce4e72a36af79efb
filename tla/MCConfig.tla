------------------------------ MODULE MCConfig ------------------------------
(* Config with the provider defaults.toml declares and one it does not, two *)
(* programs and two logins, one from the wizard and one from a terminal.    *)
EXTENDS Config

Own == [base |-> "own", enabled |-> "no"]
MCFirstFiles == {Empty, [Empty EXCEPT !.providers["nvidia"] = Own, !.keys["app.default_model"] = "v1"]}
MCCommands ==
    {[do |-> "add", id |-> "nvidia", force |-> FALSE, verify |-> TRUE],
     [do |-> "add", id |-> "omniroute", force |-> TRUE, verify |-> FALSE],
     [do |-> "remove", id |-> "nvidia"],
     [do |-> "set", roles |-> <<"app.default_model", "app.compact_model">>, value |-> "v2"]}
MCLogins == {[id |-> "nvidia", force |-> FALSE, verify |-> TRUE], [id |-> "nvidia", force |-> TRUE, verify |-> FALSE]}
MCDoors == [l1 |-> "wizard", l2 |-> "terminal"]
MCBounds ==
    {[commands |-> 2, kills |-> 1, resets |-> 0, logins |-> 0],
     [commands |-> 1, kills |-> 1, resets |-> 0, logins |-> 1],
     [commands |-> 1, kills |-> 0, resets |-> 1, logins |-> 0],
     [commands |-> 0, kills |-> 0, resets |-> 0, logins |-> 2]}
=============================================================================
