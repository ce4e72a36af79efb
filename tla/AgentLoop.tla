------------------------------ MODULE AgentLoop ------------------------------
(***************************************************************************)
(* One agent turn: runAgentTurn of src/internal/engine/agentloop.go, with  *)
(* the handshake retry of engine.go (open) and retry.go (retryAfter).      *)
(*                                                                         *)
(* The turn runs on one goroutine.  Around it the model has the user, who  *)
(* may cancel the context at any moment, the provider, which accepts or    *)
(* refuses a request and streams an answer event by event, the tool        *)
(* runner, which returns a result, a failure or a human refusal, and the   *)
(* steering hook, which may add user messages before any request.  A step  *)
(* is the code between two places where one of those can intervene.        *)
(*                                                                         *)
(* Texts are abstract.  What the loop compares is kept: a call's name and  *)
(* arguments (loop detection) and the text of a failure (futility).        *)
(***************************************************************************)
EXTENDS Integers, Sequences, FiniteSets

CONSTANTS
    Names,          \* tool names the model may ask for
    Args,           \* argument payloads, compared byte for byte
    Failures,       \* error texts of tools and of the runner
    MaxToolCalls,   \* AgentOptions.MaxToolCalls: 0 is the default, < 0 no cap
    MaxRetries,     \* Engine.maxRetries
    Budget,         \* AgentOptions.BudgetUSD in cost units, 0 disables it
    Spent,          \* AgentOptions.SpentUSD
    Costs,          \* what one provider answer may cost
    Paced,          \* AgentOptions.MinInterval > 0
    MaxBatch,       \* bound: tool calls in one answer
    MaxInjected     \* bound: steering messages injected in one turn

ASSUME CapAssumption    == MaxToolCalls \in Int
ASSUME RetryAssumption  == MaxRetries \in Nat
ASSUME BudgetAssumption == Budget \in Nat /\ Spent \in Nat /\ Costs \subseteq Nat
ASSUME ModeAssumption   == Paced \in BOOLEAN
ASSUME BoundAssumption  == MaxBatch \in Nat /\ MaxInjected \in Nat

DefaultMaxToolCalls == 25
MaxFutileAttempts   == 3

Cap == IF MaxToolCalls = 0 THEN DefaultMaxToolCalls ELSE MaxToolCalls

Sigs == Names \X Args
NoRunnerText(sig) == <<"no tool runner is bound", sig[1]>>
Texts == Failures \cup {NoRunnerText(s) : s \in Sigs}
\* A provider names every call of a turn differently: <<iteration, position>>.
Ids == Nat \X Nat
Calls == [id : Ids, sig : Sigs]

VARIABLES
    hasRunner,      \* opts.Runner # nil, the same for the whole turn
    pc,             \* where the goroutine is
    ctxDone,        \* ctx.Err() # nil
    history,        \* convo.Conversation.Messages
    attempt,        \* open's attempt counter, 0 between its calls
    iteration,      \* the loop counter
    resp,           \* what the stream of this iteration has delivered
    i,              \* index into this iteration's toolCalls
    callsThisTurn,
    last,           \* {} or {<<lastToolName, lastToolArgs>>}
    lastFailure,    \* {} or the singleton of the last failure's text
    futileRun,
    cost,           \* result.CostUSD
    ran,            \* result.Calls
    result,         \* how the turn ended, "running" until it does
    starts,         \* ids OnToolCallStart was called with
    ends,           \* ids OnToolCallEnd was called with
    late            \* requests sent after the cancellation, counted up to 2

loopVars   == <<i, callsThisTurn, last, lastFailure, futileRun>>
toolVars   == <<ran, starts, ends>>
netVars    == <<attempt, iteration, late>>
vars == <<hasRunner, pc, ctxDone, history, attempt, iteration, resp, i, callsThisTurn, last,
          lastFailure, futileRun, cost, ran, result, starts, ends, late>>

Stops    == {"budget", "cap", "loop", "denied", "futile"}
Results  == {"running", "answer", "aborted", "failed"} \cup Stops
Outcomes == {"none", "ok", "error", "cancelled", "denied", "skipped"}

Messages == [role : {"user", "assistant", "tool"}, calls : Seq(Calls),
             aborted : BOOLEAN, id : Ids, outcome : Outcomes, why : SUBSET Texts]

UserMessage == [role |-> "user", calls |-> <<>>, aborted |-> FALSE,
                id |-> <<0, 0>>, outcome |-> "none", why |-> {}]

AssistantMessage(calls, aborted) ==
    [role |-> "assistant", calls |-> calls, aborted |-> aborted,
     id |-> <<0, 0>>, outcome |-> "none", why |-> {}]

ToolMessage(id, outcome, why) ==
    [role |-> "tool", calls |-> <<>>, aborted |-> FALSE,
     id |-> id, outcome |-> outcome, why |-> why]

\* Mutant: the call the loop stopped at is forgotten.
MutNotExecuted(calls, k) ==
    [j \in 1..(Len(calls) - k) |-> ToolMessage(calls[k + j].id, "skipped", {})]

\* The synthetic replies that close the calls from position k on.
NotExecuted(calls, k) ==
    [j \in 1..(Len(calls) - k + 1) |->
        ToolMessage(calls[k + j - 1].id, "skipped", {})]

EmptyAnswer == [text |-> FALSE, thought |-> FALSE, calls |-> <<>>, err |-> FALSE]

Init ==
    /\ hasRunner \in BOOLEAN
    /\ pc = "top"
    /\ ctxDone = FALSE
    /\ history = <<UserMessage>>
    /\ attempt = 0 /\ iteration = 0
    /\ resp = EmptyAnswer
    /\ i = 1 /\ callsThisTurn = 0
    /\ last = {} /\ lastFailure = {} /\ futileRun = 0
    /\ cost = Spent
    /\ ran = 0 /\ starts = <<>> /\ ends = <<>>
    /\ late = 0
    /\ result = "running"

-----------------------------------------------------------------------------
\* The user: esc, ctrl+c or a closed client, at any point of the turn.
Cancel ==
    /\ pc # "ended"
    /\ ~ctxDone
    /\ ctxDone' = TRUE
    /\ UNCHANGED <<hasRunner, pc, history, resp, cost, result, loopVars, toolVars, netVars>>

\* Mutant: one reason for every early stop.
MutFinish(how) == /\ pc' = "ended"
                  /\ result' = IF how \in Stops THEN "stopped" ELSE how

Finish(how) == pc' = "ended" /\ result' = how

\* for iteration := 0; ; iteration++ { ctx check; OnPhase; Inject }
BeginIteration ==
    /\ pc = "top"
    /\ \/ /\ ctxDone
          /\ Finish("aborted")
          /\ UNCHANGED history
       \/ /\ ~ctxDone
          /\ pc' = "pace"
          /\ \E k \in 0..MaxInjected :
                /\ Cardinality({m \in DOMAIN history : history[m].role = "user"}) + k
                       <= 1 + MaxInjected
                /\ history' = history \o [j \in 1..k |-> UserMessage]
          /\ UNCHANGED result
    /\ UNCHANGED <<hasRunner, ctxDone, resp, cost, loopVars, toolVars, netVars>>

\* The MinInterval floor, which never delays the first request.
Pace ==
    /\ pc = "pace"
    /\ \/ /\ pc' = "open"
          /\ UNCHANGED result
       \/ /\ Paced /\ iteration > 0 /\ ctxDone
          /\ Finish("aborted")
    /\ UNCHANGED <<hasRunner, ctxDone, history, resp, cost, loopVars, toolVars, netVars>>

\* Mutant: the attempt counter starts over with every failure, and a failure
\* under a cancelled context is retried like any other.
MutOpen ==
    /\ pc = "open"
    /\ late' = IF ctxDone /\ late < 2 THEN late + 1 ELSE late
    /\ \/ pc' = "stream" /\ resp' = EmptyAnswer /\ UNCHANGED attempt
       \/ pc' = "backoff" /\ attempt' = 0 /\ UNCHANGED resp
    /\ UNCHANGED <<hasRunner, ctxDone, history, iteration, cost, result, loopVars, toolVars>>

\* e.stream(ctx, req): the handshake, its failure, and retryAfter's verdict.
Open ==
    /\ pc = "open"
    /\ late' = IF ctxDone /\ late < 2 THEN late + 1 ELSE late
    /\ \/ /\ pc' = "stream"
          /\ resp' = EmptyAnswer
          /\ attempt' = 0
          /\ UNCHANGED result
       \/ /\ ctxDone
          /\ Finish("aborted")
          /\ UNCHANGED <<resp, attempt>>
       \/ /\ ~ctxDone /\ attempt < MaxRetries
          /\ pc' = "backoff"
          /\ UNCHANGED <<resp, attempt, result>>
       \/ /\ ~ctxDone
          /\ Finish("failed")
          /\ UNCHANGED <<resp, attempt>>
    /\ UNCHANGED <<hasRunner, ctxDone, history, iteration, cost, loopVars, toolVars>>

\* select { time.After(wait) | ctx.Done() }: with both ready either one wins.
Backoff ==
    /\ pc = "backoff"
    /\ \/ /\ pc' = "open"
          /\ attempt' = attempt + 1
          /\ UNCHANGED result
       \/ /\ ctxDone
          /\ Finish("aborted")
          /\ UNCHANGED attempt
    /\ UNCHANGED <<hasRunner, ctxDone, history, iteration, resp, cost, late, loopVars, toolVars>>

-----------------------------------------------------------------------------
\* One event of the answer: reasoning, text, a complete tool call, an error.
StreamEvent ==
    /\ pc = "stream"
    /\ \/ ~resp.thought /\ resp' = [resp EXCEPT !.thought = TRUE]
       \/ ~resp.text /\ resp' = [resp EXCEPT !.text = TRUE]
       \/ ~resp.err /\ resp' = [resp EXCEPT !.err = TRUE]
       \/ /\ Len(resp.calls) < MaxBatch
          /\ \E sig \in Sigs :
                resp' = [resp EXCEPT !.calls =
                            Append(@, [id |-> <<iteration, Len(@) + 1>>, sig |-> sig])]
    /\ UNCHANGED <<hasRunner, pc, ctxDone, history, cost, result, loopVars, toolVars, netVars>>

\* What the answer leaves in history when it is complete (no message for an
\* empty answer) and when the user cut it: reasoning alone is then dropped.
Recorded(r) == IF r.thought \/ r.text \/ r.calls # <<>>
               THEN <<AssistantMessage(r.calls, FALSE)>> ELSE <<>>
RecordedPartial(r) == IF r.text \/ r.calls # <<>>
                      THEN <<AssistantMessage(r.calls, TRUE)>> ELSE <<>>

\* Mutant: the budget may be reached.
MutOverBudget(c) == Budget > 0 /\ c > Budget

OverBudget(c) == Budget > 0 /\ c >= Budget

\* The channel is closed: everything up to the loop over the tool calls.
StreamClosed ==
    /\ pc = "stream"
    /\ \E c \in Costs : cost' = cost + c
    /\ \/ /\ ctxDone
          /\ history' = history \o RecordedPartial(resp)
          /\ Finish("aborted")
          /\ UNCHANGED i
       \/ /\ ~ctxDone /\ resp.err
          /\ Finish("failed")
          /\ UNCHANGED <<history, i>>
       \/ /\ ~ctxDone /\ ~resp.err /\ resp.calls = <<>>
          /\ history' = history \o Recorded(resp)
          /\ Finish("answer")
          /\ UNCHANGED i
       \/ /\ ~ctxDone /\ ~resp.err /\ resp.calls # <<>> /\ OverBudget(cost')
          /\ history' = history \o Recorded(resp) \o NotExecuted(resp.calls, 1)
          /\ Finish("budget")
          /\ UNCHANGED i
       \/ /\ ~ctxDone /\ ~resp.err /\ resp.calls # <<>> /\ ~OverBudget(cost')
          /\ history' = history \o Recorded(resp)
          /\ i' = 1
          /\ pc' = "call"
          /\ UNCHANGED result
    /\ UNCHANGED <<hasRunner, ctxDone, resp, callsThisTurn, last, lastFailure, futileRun,
                   toolVars, netVars>>

-----------------------------------------------------------------------------
\* for i, tc := range toolCalls
Call == resp.calls[i]

\* Mutant: the closing replies begin with the call just answered.
MutClose(outcome, why) ==
    history' = history \o <<ToolMessage(Call.id, outcome, why)>>
                       \o NotExecuted(resp.calls, i)

\* The call's own reply followed by the replies that close the rest.
Close(outcome, why) ==
    history' = history \o <<ToolMessage(Call.id, outcome, why)>>
                       \o NotExecuted(resp.calls, i + 1)

\* The next call of the batch, or the next iteration after the last one.
Advance ==
    IF i < Len(resp.calls)
    THEN i' = i + 1 /\ pc' = "call" /\ UNCHANGED iteration
    ELSE i' = 1 /\ pc' = "top" /\ iteration' = iteration + 1

OverCap == Cap >= 0 /\ callsThisTurn + 1 > Cap
Looping == i = 1 /\ Call.sig \in last

\* The checks in front of a call: the cap, loop detection, the cancellation,
\* a runner that is not there.
StartCall ==
    /\ pc = "call"
    /\ callsThisTurn' = callsThisTurn + 1
    /\ \/ /\ OverCap
          /\ history' = history \o NotExecuted(resp.calls, i)
          /\ Finish("cap")
          /\ UNCHANGED <<i, iteration, last, toolVars>>
       \/ /\ ~OverCap /\ Looping
          /\ history' = history \o NotExecuted(resp.calls, i)
          /\ Finish("loop")
          /\ UNCHANGED <<i, iteration, last, toolVars>>
       \/ /\ ~OverCap /\ ~Looping
          /\ last' = {Call.sig}
          /\ starts' = Append(starts, Call.id)
          /\ \/ /\ ctxDone
                /\ Close("cancelled", {})
                /\ ends' = Append(ends, Call.id)
                /\ Finish("aborted")
                /\ UNCHANGED <<i, iteration, ran>>
             \/ /\ ~ctxDone /\ ~hasRunner
                /\ history' = Append(history, ToolMessage(Call.id, "error",
                                                 {NoRunnerText(Call.sig)}))
                /\ ends' = Append(ends, Call.id)
                /\ ran' = ran + 1
                /\ Advance
                /\ UNCHANGED result
             \/ /\ ~ctxDone /\ hasRunner
                /\ pc' = "running"
                /\ UNCHANGED <<history, i, iteration, ran, ends, result>>
    /\ UNCHANGED <<hasRunner, ctxDone, resp, cost, lastFailure, futileRun, attempt, late>>

\* opts.Runner returned a result that is not an error.
ToolSucceeds ==
    /\ pc = "running"
    /\ history' = Append(history, ToolMessage(Call.id, "ok", {}))
    /\ ends' = Append(ends, Call.id)
    /\ ran' = ran + 1
    /\ futileRun' = 0 /\ lastFailure' = {}
    /\ Advance
    /\ UNCHANGED <<hasRunner, ctxDone, resp, cost, callsThisTurn, last, result, starts,
                   attempt, late>>

\* Mutant: a new failure counts as none.
MutFutileAfter(f) == IF lastFailure = {f} THEN futileRun + 1 ELSE 0

FutileAfter(f) == IF lastFailure = {f} THEN futileRun + 1 ELSE 1

\* A tool that ran and failed, or a runner failure that is not a refusal:
\* the failure is data, until the same text has come back too often.  A
\* runner failure under a cancelled context is ToolCancelled instead, a
\* failed result is not.
ToolFails ==
    /\ pc = "running"
    /\ ends' = Append(ends, Call.id)
    /\ ran' = ran + 1
    /\ \E f \in Failures :
          /\ lastFailure' = {f}
          /\ futileRun' = FutileAfter(f)
          /\ \/ /\ FutileAfter(f) >= MaxFutileAttempts
                /\ Close("error", {f})
                /\ Finish("futile")
                /\ UNCHANGED <<i, iteration>>
             \/ /\ FutileAfter(f) < MaxFutileAttempts
                /\ history' = Append(history, ToolMessage(Call.id, "error", {f}))
                /\ Advance
                /\ UNCHANGED result
    /\ UNCHANGED <<hasRunner, ctxDone, resp, cost, callsThisTurn, last, starts,
                   attempt, late>>

\* The runner came back with an error and the context is cancelled.
ToolCancelled ==
    /\ pc = "running"
    /\ ctxDone
    /\ Close("cancelled", {})
    /\ ends' = Append(ends, Call.id)
    /\ Finish("aborted")
    /\ UNCHANGED <<hasRunner, ctxDone, resp, cost, loopVars, ran, starts, netVars>>

\* The runner reports a human's refusal: the turn ends.
ToolDenied ==
    /\ pc = "running"
    /\ ~ctxDone
    /\ Close("denied", {})
    /\ ends' = Append(ends, Call.id)
    /\ Finish("denied")
    /\ UNCHANGED <<hasRunner, ctxDone, resp, cost, loopVars, ran, starts, netVars>>

\* The turn returned; its caller does something else.
Returned == pc = "ended" /\ UNCHANGED vars

ToolReturns == ToolSucceeds \/ ToolFails \/ ToolCancelled \/ ToolDenied
Internal    == BeginIteration \/ Pace \/ Backoff \/ StartCall
External    == Open \/ StreamEvent \/ StreamClosed \/ ToolReturns

Next == Cancel \/ Internal \/ External \/ Returned

Spec == Init /\ [][Next]_vars

\* The goroutine runs; nothing outside is obliged to answer until the context
\* is cancelled, which every call of the loop is given.
FairSpec == Spec /\ WF_vars(Internal) /\ WF_vars(ctxDone /\ External)

-----------------------------------------------------------------------------
TypeOK ==
    /\ hasRunner \in BOOLEAN
    /\ pc \in {"top", "pace", "open", "backoff", "stream", "call", "running", "ended"}
    /\ ctxDone \in BOOLEAN
    /\ history \in Seq(Messages)
    /\ attempt \in Nat /\ iteration \in Nat
    /\ resp \in [text : BOOLEAN, thought : BOOLEAN, calls : Seq(Calls), err : BOOLEAN]
    /\ i \in Nat \ {0} /\ callsThisTurn \in Nat
    /\ last \in SUBSET Sigs /\ lastFailure \in SUBSET Texts /\ futileRun \in Nat
    /\ cost \in Nat /\ ran \in Nat
    /\ starts \in Seq(Ids) /\ ends \in Seq(Ids)
    /\ late \in Nat
    /\ result \in Results

InBatch == pc \in {"call", "running"}

\* The first n calls of message m have their replies right behind it, in order.
Answered(m, n) ==
    /\ m + n <= Len(history)
    /\ \A j \in 1..n : /\ history[m + j].role = "tool"
                       /\ history[m + j].id = history[m].calls[j].id

\* Whatever ends the turn or starts the next request, every call of every
\* complete assistant message has its reply behind it, in order, nothing in
\* between (the "Bug 2" of agentloop.go: an orphan poisons the session).
CallsAnswered ==
    ~InBatch => \A m \in DOMAIN history :
        history[m].role = "assistant" /\ ~history[m].aborted
            => Answered(m, Len(history[m].calls))

\* The same for every assistant message, the one a cancellation cut short
\* included: what the comment above the loop over the calls claims.
EveryExitClosesCalls ==
    pc = "ended" => \A m \in DOMAIN history :
        history[m].role = "assistant" => Answered(m, Len(history[m].calls))

\* No reply without its call: a tool message answers exactly the call whose
\* position behind the assistant message it has.
RepliesBelong ==
    \A m \in DOMAIN history : history[m].role = "tool" =>
        \E a \in 1..(m - 1) :
            /\ history[a].role = "assistant"
            /\ m - a <= Len(history[a].calls)
            /\ history[m].id = history[a].calls[m - a].id

\* No batch, retry or injected message lets a turn run more calls than the cap.
CapRespected == Cap >= 0 => Len(starts) <= Cap

\* OnToolCallStart and OnToolCallEnd alternate, once per call, for exactly the
\* calls whose reply is not one of the synthetic ones.
EventsPaired ==
    /\ starts = IF pc = "running" THEN Append(ends, Call.id) ELSE ends
    /\ \A j, k \in DOMAIN starts : starts[j] = starts[k] => j = k
    /\ \A m \in DOMAIN history : history[m].role = "tool" =>
          (history[m].outcome # "skipped" <=> \E j \in DOMAIN ends : ends[j] = history[m].id)

\* Where the history holds the result of a call that ran, or had no runner, and
\* which of them follow each other.
Executed == {m \in DOMAIN history : history[m].outcome \in {"ok", "error"}}
InRow(j, k) == j < k /\ \A n \in (j + 1)..(k - 1) : n \notin Executed
SameFailure(j, k) == history[j].outcome = "error" /\ history[k].outcome = "error"
                     /\ history[j].why = history[k].why

\* Three identical failures in a row of a runner (MaxFutileAttempts), across
\* batches and iterations, are the last thing a turn does.
FutilityStops ==
    hasRunner => \A a, b, c \in Executed :
        InRow(a, b) /\ InRow(b, c) /\ SameFailure(a, b) /\ SameFailure(b, c)
            => result = "futile" /\ \A n \in Executed : n <= c

\* The first call of an answer never runs when it repeats, byte for byte, the
\* last call of the answer before it.
RepeatNotRun ==
    \A m, n \in DOMAIN history :
        /\ m < n /\ n < Len(history)
        /\ history[m].role = "assistant" /\ history[n].role = "assistant"
        /\ history[m].calls # <<>> /\ history[n].calls # <<>>
        /\ \A k \in (m + 1)..(n - 1) : history[k].role # "assistant"
        /\ history[n + 1].outcome # "skipped"
        => history[m].calls[Len(history[m].calls)].sig # history[n].calls[1].sig

\* A refusal, a cancellation or a synthetic reply is final: only synthetic
\* replies follow it, and the turn has ended for that reason.
VerdictsFinal ==
    \A m \in DOMAIN history :
        history[m].outcome \in {"denied", "cancelled", "skipped"} =>
            /\ history[m].outcome = "denied" => result = "denied"
            /\ history[m].outcome = "cancelled" => result = "aborted"
            /\ result \in Stops \cup {"aborted"}
            /\ \A n \in (m + 1)..Len(history) : history[n].outcome = "skipped"

\* After the cancellation at most one request still leaves: the one the select
\* of a retry or of the pacing floor may let through.
OneLateRequest == late <= 1

\* Once the estimated spend has reached the budget no tool runs and no further
\* request is sent: the first request of a turn is the only one not weighed.
BudgetGate ==
    pc = "running" \/ (pc = "open" /\ iteration > 0)
        => ~(Budget > 0 /\ cost >= Budget)

\* The limits of agentloop.go hold at once, whatever the model answers: tool
\* calls, requests after a cancellation, and what the turn may spend.
WithinLimits == CapRespected /\ OneLateRequest /\ BudgetGate

\* What a turn's reader may rely on (agentloop.go:576-771): paired events, no
\* call repeated at once, three identical failures at most, nothing after a verdict.
LoopRules == EventsPaired /\ RepeatNotRun /\ FutilityStops /\ VerdictsFinal

\* Every turn ends, cancelled or not, if whatever it calls answers: retries,
\* the cap and the pacing floor are all bounded.
Termination == WF_vars(External) => <>(pc = "ended")

\* A cancelled turn ends although neither provider nor tool would answer.
CancelEndsTurn == ctxDone ~> pc = "ended"

\* RunAgentTurn returns, and for a cancelled turn nobody else has to act.
TurnEnds == Termination /\ CancelEndsTurn
=============================================================================
