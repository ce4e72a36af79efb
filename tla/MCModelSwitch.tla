--------------------------- MODULE MCModelSwitch ---------------------------
(* ModelSwitch with three models of two providers, one hidden by a rule, and*)
(* a stored session of a model whose provider is gone.                      *)
EXTENDS ModelSwitch

MCProviderOf == ("large" :> "p") @@ ("small" :> "q") @@ ("hidden" :> "q")
MCWindow == ("large" :> 4) @@ ("small" :> 1) @@ ("hidden" :> 4)
MCLevels == ("large" :> <<"low", "high">>) @@ ("small" :> <<"max">>) @@ ("hidden" :> <<>>)
MCPrepares == ("large" :> {TRUE}) @@ ("small" :> {TRUE, FALSE}) @@ ("hidden" :> {FALSE})
MCCatalogs == {<<"large", "small">>, <<"large">>}
MCFilters == <<{"large", "small"}, {"small"}>>
MCQueries == {{"large", "small"}, {"small"}}
MCSessions == {[model |-> "hidden", conv |-> [active |-> <<TRUE, FALSE>>, measured |-> 3]]}
=============================================================================
