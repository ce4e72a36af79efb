--------------------------- MODULE MCConversation ---------------------------
(* Instances of Conversation for TLC: summaries that come late, compactions *)
(* at once among all commands but the switch, and the switch.               *)
EXTENDS Conversation

Setup(instant, commands, messages, compactions) ==
    [instant |-> instant, dropOnError |-> instant, commands |-> commands,
     messages |-> messages, compactions |-> compactions]
MCSetups ==
    {Setup(FALSE, {"compact", "cancel", "retry", "restart"}, 7, 2),
     Setup(TRUE, {"compact", "new", "resume", "retry", "restart"}, 6, 1),
     Setup(TRUE, {"compact", "switch", "retry", "restart"}, 6, 1)}
=============================================================================
