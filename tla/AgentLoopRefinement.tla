------------------------ MODULE AgentLoopRefinement ------------------------
(* AgentLoop implements TurnContract: the log is read off the history, and  *)
(* what is due are the calls of the batch from the index on.                *)
EXTENDS AgentLoop, TLC

IdsOf(calls) == [k \in DOMAIN calls |-> calls[k].id]

EntryOf(m) ==
    [kind |-> IF m.role = "user" THEN "words"
              ELSE IF m.role = "tool" THEN "replied"
              ELSE IF m.aborted THEN "cut" ELSE "asked",
     calls |-> IF m.role = "tool" THEN <<m.id>> ELSE IdsOf(m.calls)]

LogOf(h) == [m \in DOMAIN h |-> EntryOf(h[m])]

\* The ids of calls from position k on.
From(calls, k) == [j \in 1..(Len(calls) - k + 1) |-> calls[k + j - 1].id]

Contract == INSTANCE TurnContract WITH
    Call    <- Ids,
    Verdict <- Results \ {"running"},
    log     <- LogOf(history),
    due     <- IF InBatch THEN From(resp.calls, i) ELSE <<>>,
    verdict <- result

\* Every behaviour of the loop is one the contract allows: calls answered
\* once, in order, right behind the answer, before the next request and before
\* the turn returns.
ImplementsContract == Contract!Spec

Symmetry == Permutations(Names) \cup Permutations(Failures)
=============================================================================
