---------------------------- MODULE MCCatalog ----------------------------
(* Catalog with a provider configured from the start and one that a login   *)
(* adds; of the first, a model, its preview and its dated twin; and an      *)
(* alias that has the name of a model of the other.                         *)
EXTENDS Catalog

NoFit == [suffix |-> FALSE, word |-> FALSE, score |-> 0]
Ends == [suffix |-> TRUE, word |-> TRUE, score |-> 150]
Within == [suffix |-> FALSE, word |-> TRUE, score |-> 120]
Near(score) == [suffix |-> FALSE, word |-> FALSE, score |-> score]

MCProviderOf == [a1 |-> "a", a1preview |-> "a", b1 |-> "b"]
MCRaw == [a1 |-> {}, a1preview |-> {}, b1 |-> {"deprecated"}]
MCDev == [a1 |-> {}, a1preview |-> {"nonchat"}, b1 |-> {}]
MCUndated == [m \in Models |-> None]
MCReleased == [a1 |-> None, a1preview |-> "a1", b1 |-> None]
MCListings == [a |-> {{"a1", "a1preview"}, {}}, b |-> {{"b1"}}]
MCPreset == [a |-> None, b |-> "b1"]
MCFit ==
    [text \in Models \cup Queries |->
        [m \in Models |->
            IF text = m THEN Ends
            ELSE IF text = "a1" /\ m = "a1preview" THEN Within
            ELSE IF text = "one" /\ m \in {"a1", "b1"} THEN Ends
            ELSE IF text = "previw" THEN (IF m = "a1preview" THEN Near(120) ELSE Near(100))
            ELSE NoFit]]
MCModelOrder == <<"a1", "a1preview", "b1">>
MCProviderOrder == <<"a", "b">>

Config(enabled, authed) == [enabled |-> enabled, authed |-> authed]
MCRules ==
    {[config |-> Config({"a"}, {"a"}), early |-> TRUE, hides |-> {"nonchat", "superseded"}, hide |-> {}, keep |-> {},
      declared |-> {}, discovers |-> {"a", "b"}, alias |-> [fav |-> "one"], default |-> "a1"],
     [config |-> Config({"a", "b"}, {"a"}), early |-> TRUE, hides |-> {"superseded", "dated"}, hide |-> {"a1"}, keep |-> {},
      declared |-> {"b1"}, discovers |-> {"a"}, alias |-> [fav |-> "a1"], default |-> None]}
    \cup {[config |-> Config(enabled, {"a"}), early |-> FALSE, hides |-> {}, hide |-> {}, keep |-> {},
           declared |-> {}, discovers |-> {"a"}, alias |-> [a1 |-> "b1"], default |-> None] :
             enabled \in {{"a"}, {"a", "b"}}}
MCSamples ==
    {[query |-> <<"x", "y">>, target |-> t, starts |-> s] :
        t \in [1 .. 3 -> {"x", "y"}] \cup {<<"x", "z", "z", "z", "z", "z", "z", "x", "y">>}, s \in {{1}, {1, 2}}}
MCBounds ==
    {[boots |-> 1, refreshes |-> 1, curations |-> 0],
     [boots |-> 2, refreshes |-> 0, curations |-> 0],
     [boots |-> 1, refreshes |-> 0, curations |-> 2]}
=============================================================================
