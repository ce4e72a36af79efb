-------------------------- MODULE AgentLoopProofs --------------------------
(***************************************************************************)
(* Theorems about AgentLoop, for every cap, retry limit, budget, set of    *)
(* tools and bound: first the types and the limits, then the history, what *)
(* a reader of a turn may rely on, and that the turn keeps the contract    *)
(* TurnContract states.                                                    *)
(***************************************************************************)
EXTENDS AgentLoopRefinement, SequenceTheorems, TLAPS

USE CapAssumption, RetryAssumption, BudgetAssumption, ModeAssumption,
    BoundAssumption

-----------------------------------------------------------------------------
(* The operators the history is built with.                                *)

\* A function over 1..n is a sequence of length n.
LEMMA FunctionIsSeq ==
    ASSUME NEW S, NEW n \in Nat, NEW f \in [1..n -> S]
    PROVE  f \in Seq(S) /\ Len(f) = n
<1>1. f \in Seq(S)
  BY SeqDef
<1> QED
  BY <1>1, LenProperties

\* notExecuted yields one reply per call from position k on, each with the
\* id of the call it closes.
LEMMA NotExecutedShape ==
    ASSUME NEW calls \in Seq(Calls), NEW k \in 1..(Len(calls) + 1)
    PROVE  /\ NotExecuted(calls, k) \in Seq(Messages)
           /\ Len(NotExecuted(calls, k)) = Len(calls) - k + 1
           /\ \A j \in 1..(Len(calls) - k + 1) :
                 NotExecuted(calls, k)[j] = ToolMessage(calls[k + j - 1].id, "skipped", {})
<1>1. Len(calls) \in Nat
  BY LenProperties
<1>2. \A j \in 1..(Len(calls) - k + 1) : k + j - 1 \in 1..Len(calls)
  BY <1>1
<1>3. \A j \in 1..(Len(calls) - k + 1) :
         ToolMessage(calls[k + j - 1].id, "skipped", {}) \in Messages
  <2> SUFFICES ASSUME NEW j \in 1..(Len(calls) - k + 1)
               PROVE  ToolMessage(calls[k + j - 1].id, "skipped", {}) \in Messages
    OBVIOUS
  <2>1. calls[k + j - 1] \in Calls
    BY <1>2, ElementOfSeq
  <2>2. calls[k + j - 1].id \in Ids
    BY <2>1 DEF Calls
  <2>3. << >> \in Seq(Calls)
    BY EmptySeq
  <2> QED
    BY <2>2, <2>3 DEF ToolMessage, Messages, Outcomes
<1>4. Len(calls) - k + 1 \in Nat
  BY <1>1
<1>5. NotExecuted(calls, k) \in [1..(Len(calls) - k + 1) -> Messages]
  BY <1>3 DEF NotExecuted
<1>6. \A j \in 1..(Len(calls) - k + 1) :
         NotExecuted(calls, k)[j] = ToolMessage(calls[k + j - 1].id, "skipped", {})
  BY DEF NotExecuted
<1> QED
  BY <1>4, <1>5, <1>6, FunctionIsSeq

\* The replies and messages the loop appends are messages.
LEMMA MessageTypes ==
    /\ UserMessage \in Messages
    /\ \A calls \in Seq(Calls), b \in BOOLEAN : AssistantMessage(calls, b) \in Messages
    /\ \A id \in Ids, o \in Outcomes, w \in SUBSET Texts : ToolMessage(id, o, w) \in Messages
<1>1. << >> \in Seq(Calls)
  BY EmptySeq
<1>2. <<0, 0>> \in Ids
  BY DEF Ids
<1> QED
  BY <1>1, <1>2 DEF UserMessage, AssistantMessage, ToolMessage, Messages, Outcomes

\* A message of its own is a history.
LEMMA SingletonSeq == ASSUME NEW S, NEW x \in S PROVE <<x>> \in Seq(S)
  OBVIOUS

\* What an answer leaves in the history, whole or cut, is a sequence of messages.
LEMMA RecordedTypes ==
    ASSUME NEW r \in [text : BOOLEAN, thought : BOOLEAN, calls : Seq(Calls), err : BOOLEAN]
    PROVE  Recorded(r) \in Seq(Messages) /\ RecordedPartial(r) \in Seq(Messages)
<1>1. r.calls \in Seq(Calls)
  OBVIOUS
<1>2. AssistantMessage(r.calls, FALSE) \in Messages /\ AssistantMessage(r.calls, TRUE) \in Messages
  BY <1>1, MessageTypes
<1>3. <<AssistantMessage(r.calls, FALSE)>> \in Seq(Messages)
      /\ <<AssistantMessage(r.calls, TRUE)>> \in Seq(Messages)
  BY <1>2, SingletonSeq
<1> QED
  BY <1>3, EmptySeq DEF Recorded, RecordedPartial

-----------------------------------------------------------------------------
(* Type correctness.  The index of a batch in progress is part of it:      *)
(* Call is only a call while i points into the answer's calls.             *)

TypeInv == TypeOK /\ (InBatch => i \in 1..Len(resp.calls))

\* Inside a batch the call at i exists and is well typed.
LEMMA CallType ==
    ASSUME TypeInv, InBatch
    PROVE  /\ resp.calls \in Seq(Calls) /\ i \in 1..Len(resp.calls)
           /\ i + 1 \in 1..(Len(resp.calls) + 1) /\ Len(resp.calls) \in Nat
           /\ Call \in Calls /\ Call.id \in Ids /\ Call.sig \in Sigs
<1>1. resp.calls \in Seq(Calls) /\ i \in 1..Len(resp.calls)
  BY DEF TypeInv, TypeOK
<1>2. Len(resp.calls) \in Nat
  BY <1>1, LenProperties
<1>3. resp.calls[i] \in Calls
  BY <1>1, ElementOfSeq
<1> QED
  BY <1>1, <1>2, <1>3 DEF Call, Calls

\* Replying to the current call, alone or with the rest of its batch.
LEMMA ReplyTypes ==
    ASSUME TypeInv, InBatch, NEW o \in Outcomes, NEW w \in SUBSET Texts
    PROVE  /\ Append(history, ToolMessage(Call.id, o, w)) \in Seq(Messages)
           /\ history \o NotExecuted(resp.calls, i) \in Seq(Messages)
           /\ history \o <<ToolMessage(Call.id, o, w)>> \o NotExecuted(resp.calls, i + 1)
                 \in Seq(Messages)
<1>1. history \in Seq(Messages)
  BY DEF TypeInv, TypeOK
<1>2. ToolMessage(Call.id, o, w) \in Messages
  BY CallType, MessageTypes
<1>3. NotExecuted(resp.calls, i) \in Seq(Messages)
      /\ NotExecuted(resp.calls, i + 1) \in Seq(Messages)
  <2>1. i \in 1..(Len(resp.calls) + 1)
    BY CallType
  <2> QED
    BY <2>1, CallType, NotExecutedShape
<1>4. <<ToolMessage(Call.id, o, w)>> \in Seq(Messages)
  BY <1>2, SingletonSeq
<1>5. history \o <<ToolMessage(Call.id, o, w)>> \in Seq(Messages)
  BY <1>1, <1>4, ConcatProperties
<1>6. history \o NotExecuted(resp.calls, i) \in Seq(Messages)
  BY <1>1, <1>3, ConcatProperties
<1>7. history \o <<ToolMessage(Call.id, o, w)>> \o NotExecuted(resp.calls, i + 1)
         \in Seq(Messages)
  BY <1>3, <1>5, ConcatProperties
<1> QED
  BY <1>1, <1>2, <1>6, <1>7

\* Before the stream delivers anything the answer has its type.
LEMMA EmptyAnswerType ==
    EmptyAnswer \in [text : BOOLEAN, thought : BOOLEAN, calls : Seq(Calls), err : BOOLEAN]
<1>1. << >> \in Seq(Calls)
  BY EmptySeq
<1> QED
  BY <1>1 DEF EmptyAnswer

\* The turn starts with well-typed state.
LEMMA TypeInit == Init => TypeInv
<1> SUFFICES ASSUME Init PROVE TypeInv
  OBVIOUS
<1>1. history \in Seq(Messages)
  BY MessageTypes, SingletonSeq DEF Init
<1>2. starts \in Seq(Ids) /\ ends \in Seq(Ids)
  BY EmptySeq DEF Init
<1>3. resp \in [text : BOOLEAN, thought : BOOLEAN, calls : Seq(Calls), err : BOOLEAN]
  BY EmptyAnswerType DEF Init
<1>4. /\ last \in SUBSET Sigs /\ lastFailure \in SUBSET Texts
      /\ ctxDone \in BOOLEAN /\ hasRunner \in BOOLEAN
  BY DEF Init
<1>5. /\ attempt \in Nat /\ iteration \in Nat /\ i \in Nat \ {0} /\ callsThisTurn \in Nat
      /\ futileRun \in Nat /\ cost \in Nat /\ ran \in Nat /\ late \in Nat
  BY DEF Init
<1>6. pc = "top" /\ result \in Results
  BY DEF Init, Results
<1> QED
  BY <1>1, <1>2, <1>3, <1>4, <1>5, <1>6 DEF TypeInv, TypeOK, InBatch

\* Every step keeps the types and the position inside the batch.
LEMMA TypeStep == TypeInv /\ [Next]_vars => TypeInv'
<1> SUFFICES ASSUME TypeInv, [Next]_vars PROVE TypeInv'
  OBVIOUS
<1> USE DEF netVars, loopVars, toolVars
<1>1. CASE Cancel
  BY <1>1 DEF Cancel, TypeInv, TypeOK, InBatch
<1>2. CASE BeginIteration
  <2>1. history' \in Seq(Messages)
    <3>1. ASSUME NEW k \in 0..MaxInjected, history' = history \o [j \in 1..k |-> UserMessage]
          PROVE  history' \in Seq(Messages)
      <4>1. [j \in 1..k |-> UserMessage] \in Seq(Messages)
        BY MessageTypes, FunctionIsSeq
      <4> QED
        BY <3>1, <4>1, ConcatProperties DEF TypeInv, TypeOK
    <3> QED
      BY <1>2, <3>1 DEF BeginIteration, TypeInv, TypeOK
  <2> QED
    BY <1>2, <2>1 DEF BeginIteration, Finish, TypeInv, TypeOK, InBatch, Results, Stops
<1>3. CASE Pace
  BY <1>3 DEF Pace, Finish, TypeInv, TypeOK, InBatch, Results, Stops
<1>4. CASE Open
  <2>1. resp' \in [text : BOOLEAN, thought : BOOLEAN, calls : Seq(Calls), err : BOOLEAN]
    BY <1>4, EmptyAnswerType DEF Open, TypeInv, TypeOK
  <2>2. late' \in Nat
    BY <1>4 DEF Open, TypeInv, TypeOK
  <2> QED
    BY <1>4, <2>1, <2>2 DEF Open, Finish, TypeInv, TypeOK, InBatch, Results, Stops
<1>5. CASE Backoff
  BY <1>5 DEF Backoff, Finish, TypeInv, TypeOK, InBatch, Results, Stops
<1>6. CASE StreamEvent
  <2>1. resp' \in [text : BOOLEAN, thought : BOOLEAN, calls : Seq(Calls), err : BOOLEAN]
    <3>1. ASSUME NEW sig \in Sigs
          PROVE  Append(resp.calls, [id |-> <<iteration, Len(resp.calls) + 1>>, sig |-> sig])
                    \in Seq(Calls)
      <4>1. resp.calls \in Seq(Calls) /\ Len(resp.calls) \in Nat
        BY LenProperties DEF TypeInv, TypeOK
      <4>2. [id |-> <<iteration, Len(resp.calls) + 1>>, sig |-> sig] \in Calls
        BY <4>1 DEF Calls, Ids, TypeInv, TypeOK
      <4> QED
        BY <4>1, <4>2
    <3> QED
      BY <1>6, <3>1 DEF StreamEvent, TypeInv, TypeOK
  <2> QED
    BY <1>6, <2>1 DEF StreamEvent, TypeInv, TypeOK, InBatch
<1>7. CASE StreamClosed
  <2>1. cost' \in Nat
    BY <1>7 DEF StreamClosed, TypeInv, TypeOK
  <2>2. history' \in Seq(Messages)
    <3>1. history \in Seq(Messages) /\ resp.calls \in Seq(Calls)
          /\ Recorded(resp) \in Seq(Messages) /\ RecordedPartial(resp) \in Seq(Messages)
      BY RecordedTypes DEF TypeInv, TypeOK
    <3>2. NotExecuted(resp.calls, 1) \in Seq(Messages)
      <4>1. Len(resp.calls) \in Nat
        BY <3>1, LenProperties
      <4>2. 1 \in 1..(Len(resp.calls) + 1)
        BY <4>1
      <4> QED
        BY <3>1, <4>2, NotExecutedShape
    <3>3. history \o Recorded(resp) \in Seq(Messages)
          /\ history \o RecordedPartial(resp) \in Seq(Messages)
      BY <3>1, ConcatProperties
    <3>4. history \o Recorded(resp) \o NotExecuted(resp.calls, 1) \in Seq(Messages)
      BY <3>2, <3>3, ConcatProperties
    <3> QED
      BY <1>7, <3>1, <3>3, <3>4 DEF StreamClosed
  <2>3. resp.calls # << >> => 1 \in 1..Len(resp.calls)
    BY EmptySeq DEF TypeInv, TypeOK
  <2> QED
    BY <1>7, <2>1, <2>2, <2>3
       DEF StreamClosed, Finish, TypeInv, TypeOK, InBatch, Results, Stops
<1>8. CASE StartCall
  <2>1. InBatch
    BY <1>8 DEF StartCall, InBatch
  <2>2. history' \in Seq(Messages)
    <3>1. NoRunnerText(Call.sig) \in Texts
      BY <2>1, CallType DEF Texts
    <3>2. ASSUME NEW w \in SUBSET Texts, NEW o \in {"cancelled", "error"}
          PROVE  /\ Append(history, ToolMessage(Call.id, o, w)) \in Seq(Messages)
                 /\ history \o NotExecuted(resp.calls, i) \in Seq(Messages)
                 /\ history \o <<ToolMessage(Call.id, o, w)>>
                            \o NotExecuted(resp.calls, i + 1) \in Seq(Messages)
      <4>1. o \in Outcomes
        BY DEF Outcomes
      <4> QED
        BY <2>1, <4>1, ReplyTypes
    <3>3. {NoRunnerText(Call.sig)} \in SUBSET Texts /\ {} \in SUBSET Texts
      BY <3>1
    <3> QED
      BY <1>8, <3>2, <3>3 DEF StartCall, Close, TypeInv, TypeOK
  <2>3. starts' \in Seq(Ids) /\ ends' \in Seq(Ids)
    <3>1. /\ starts' = starts \/ starts' = Append(starts, Call.id)
          /\ ends' = ends \/ ends' = Append(ends, Call.id)
      BY <1>8 DEF StartCall
    <3>2. starts \in Seq(Ids) /\ ends \in Seq(Ids) /\ Call.id \in Ids
      BY <2>1, CallType DEF TypeInv, TypeOK
    <3>3. Append(starts, Call.id) \in Seq(Ids) /\ Append(ends, Call.id) \in Seq(Ids)
      BY <3>2
    <3> QED
      BY <3>1, <3>2, <3>3
  <2>4. last' \in SUBSET Sigs /\ callsThisTurn' \in Nat
    BY <1>8, <2>1, CallType DEF StartCall, TypeInv, TypeOK
  <2>5. ran' \in Nat /\ iteration' \in Nat /\ i' \in Nat \ {0}
    BY <1>8, <2>1, CallType DEF StartCall, Advance, TypeInv, TypeOK
  <2>6. /\ pc' \in {"top", "call", "running", "ended"}
        /\ result' \in Results
    BY <1>8 DEF StartCall, Advance, Finish, TypeInv, TypeOK, Results, Stops
  <2>7. (InBatch => i \in 1..Len(resp.calls))'
    BY <1>8, <2>1, CallType DEF StartCall, Advance, Finish, InBatch
  <2> QED
    BY <1>8, <2>2, <2>3, <2>4, <2>5, <2>6, <2>7 DEF StartCall, TypeInv, TypeOK
<1>9. CASE ToolReturns
  <2>1. InBatch
    BY <1>9 DEF ToolReturns, ToolSucceeds, ToolFails, ToolCancelled, ToolDenied, InBatch
  <2>2. history' \in Seq(Messages)
    <3>1. ASSUME NEW w \in SUBSET Texts, NEW o \in {"ok", "error", "cancelled", "denied"}
          PROVE  /\ Append(history, ToolMessage(Call.id, o, w)) \in Seq(Messages)
                 /\ history \o <<ToolMessage(Call.id, o, w)>>
                            \o NotExecuted(resp.calls, i + 1) \in Seq(Messages)
      <4>1. o \in Outcomes
        BY DEF Outcomes
      <4> QED
        BY <2>1, <4>1, ReplyTypes
    <3>2. {} \in SUBSET Texts /\ \A f \in Failures : {f} \in SUBSET Texts
      BY DEF Texts
    <3> QED
      BY <1>9, <3>1, <3>2
         DEF ToolReturns, ToolSucceeds, ToolFails, ToolCancelled, ToolDenied, Close
  <2>3. ends' \in Seq(Ids)
    <3>1. ends' = Append(ends, Call.id)
      BY <1>9 DEF ToolReturns, ToolSucceeds, ToolFails, ToolCancelled, ToolDenied
    <3> QED
      BY <2>1, <3>1, CallType DEF TypeInv, TypeOK
  <2>4. lastFailure' \in SUBSET Texts /\ futileRun' \in Nat
    <3>1. CASE ToolFails
      <4>1. PICK f \in Failures : lastFailure' = {f} /\ futileRun' = FutileAfter(f)
        BY <3>1 DEF ToolFails
      <4> QED
        BY <4>1 DEF FutileAfter, Texts, TypeInv, TypeOK
    <3>2. CASE ToolSucceeds \/ ToolCancelled \/ ToolDenied
      BY <3>2 DEF ToolSucceeds, ToolCancelled, ToolDenied, TypeInv, TypeOK
    <3> QED
      BY <1>9, <3>1, <3>2 DEF ToolReturns
  <2>5. Advance \/ (pc' = "ended" /\ UNCHANGED <<i, iteration>>)
    BY <1>9 DEF ToolReturns, ToolSucceeds, ToolFails, ToolCancelled, ToolDenied, Finish
  <2>6. ran' \in Nat /\ iteration' \in Nat /\ i' \in Nat \ {0}
    <3>1. ran' = ran \/ ran' = ran + 1
      BY <1>9 DEF ToolReturns, ToolSucceeds, ToolFails, ToolCancelled, ToolDenied
    <3> QED
      BY <2>5, <3>1 DEF Advance, TypeInv, TypeOK
  <2>7. pc' \in {"top", "call", "ended"} /\ result' \in Results
    BY <1>9 DEF ToolReturns, ToolSucceeds, ToolFails, ToolCancelled, ToolDenied,
                Advance, Finish, TypeInv, TypeOK, Results, Stops
  <2>8. UNCHANGED <<hasRunner, ctxDone, attempt, resp, callsThisTurn, last, cost, starts, late>>
    BY <1>9 DEF ToolReturns, ToolSucceeds, ToolFails, ToolCancelled, ToolDenied
  <2>9. (InBatch => i \in 1..Len(resp.calls))'
    BY <2>1, <2>8, <2>5, CallType DEF Advance, InBatch
  <2> QED
    BY <2>2, <2>3, <2>4, <2>6, <2>7, <2>9, <2>8 DEF TypeInv, TypeOK
<1>10. CASE Returned \/ UNCHANGED vars
  BY <1>10 DEF Returned, vars, TypeInv, TypeOK, InBatch
<1> QED
  BY <1>1, <1>2, <1>3, <1>4, <1>5, <1>6, <1>7, <1>8, <1>9, <1>10
     DEF Next, Internal, External

\* Every reachable state has the declared types, whatever the constants.
THEOREM TypeCorrect == Spec => []TypeOK
<1>1. TypeInv => TypeOK
  BY DEF TypeInv
<1> QED
  BY <1>1, TypeInit, TypeStep, PTL DEF Spec

-----------------------------------------------------------------------------
(* The cap.  callsThisTurn counts every call looked at, starts only those  *)
(* that got past the check, so the second never overtakes the first.       *)

CapInv == Len(starts) <= callsThisTurn /\ CapRespected

\* A turn never runs more calls than its cap, over any number of answers,
\* retries and injected messages.
THEOREM CapHolds == Spec => []CapRespected
<1>1. Init => CapInv
  <2> SUFFICES ASSUME Init PROVE CapInv
    OBVIOUS
  <2>1. Len(starts) = 0 /\ callsThisTurn = 0
    BY EmptySeq DEF Init
  <2> QED
    BY <2>1 DEF CapInv, CapRespected
<1>2. TypeInv /\ CapInv /\ [Next]_vars => CapInv'
  <2> SUFFICES ASSUME TypeInv, CapInv, [Next]_vars PROVE CapInv'
    OBVIOUS
  <2>1. callsThisTurn \in Nat /\ Cap \in Int /\ starts \in Seq(Ids) /\ Len(starts) \in Nat
    BY LenProperties DEF TypeInv, TypeOK, Cap, DefaultMaxToolCalls
  <2>2. CASE StartCall
    <3>1. callsThisTurn' = callsThisTurn + 1
      BY <2>2 DEF StartCall
    <3>2. CASE starts' = starts
      BY <2>1, <3>1, <3>2 DEF CapInv, CapRespected, Cap
    <3>3. CASE starts' = Append(starts, Call.id) /\ ~OverCap
      <4>1. Len(starts') = Len(starts) + 1
        BY <2>1, <3>3
      <4> QED
        BY <2>1, <3>1, <3>3, <4>1 DEF CapInv, CapRespected, OverCap, Cap
    <3> QED
      BY <2>2, <3>2, <3>3 DEF StartCall, toolVars
  <2>3. CASE ~StartCall
    <3>1. UNCHANGED <<starts, callsThisTurn>>
      BY <2>3 DEF Next, Internal, External, ToolReturns, Returned, vars, Cancel, BeginIteration,
         Pace, Open, Backoff, StreamEvent, StreamClosed, ToolSucceeds, ToolFails,
         ToolCancelled, ToolDenied, loopVars, toolVars
    <3> QED
      BY <3>1 DEF CapInv, CapRespected, Cap
  <2> QED
    BY <2>2, <2>3
<1>3. CapInv => CapRespected
  BY DEF CapInv
<1> QED
  BY <1>1, <1>2, <1>3, TypeInit, TypeStep, PTL DEF Spec

-----------------------------------------------------------------------------
(* The cancellation.  A request sent after it is the last thing before the *)
(* turn ends: a refused one aborts at once, an accepted one is drained.    *)

LateInv ==
    /\ late = 0 \/ (late = 1 /\ ctxDone /\ pc \in {"stream", "ended"})
    /\ ~ctxDone => late = 0

\* At most one request leaves after the user cancelled.
THEOREM AtMostOneLateRequest == Spec => []OneLateRequest
<1>1. Init => LateInv
  BY DEF Init, LateInv
<1>2. LateInv /\ [Next]_vars => LateInv'
  <2> SUFFICES ASSUME LateInv, [Next]_vars PROVE LateInv'
    OBVIOUS
  <2> USE DEF LateInv, netVars
  <2>1. CASE Open
    BY <2>1 DEF Open, Finish
  <2>2. CASE StreamEvent \/ StreamClosed
    BY <2>2 DEF StreamEvent, StreamClosed, Finish
  <2>3. CASE BeginIteration \/ Pace \/ Backoff \/ StartCall \/ ToolReturns
    BY <2>3 DEF BeginIteration, Pace, Backoff, StartCall, ToolReturns, ToolSucceeds,
                ToolFails, ToolCancelled, ToolDenied
  <2>4. CASE Cancel \/ Returned \/ UNCHANGED vars
    BY <2>4 DEF Cancel, Returned, vars
  <2> QED
    BY <2>1, <2>2, <2>3, <2>4 DEF Next, Internal, External
<1>3. LateInv => OneLateRequest
  BY DEF LateInv, OneLateRequest
<1> QED
  BY <1>1, <1>2, <1>3, PTL DEF Spec

-----------------------------------------------------------------------------
(* The budget.  cost changes only when an answer closes, and an answer     *)
(* that reaches the budget while asking for tools ends the turn there.     *)

BudgetInv ==
    /\ InBatch => ~OverBudget(cost)
    /\ iteration > 0 /\ pc \in {"top", "pace", "open", "backoff"} => ~OverBudget(cost)

\* No tool runs and no further request is sent once the budget is spent.
THEOREM BudgetHolds == Spec => []BudgetGate
<1>1. Init => BudgetInv
  BY DEF Init, BudgetInv, InBatch
<1>2. TypeInv /\ BudgetInv /\ [Next]_vars => BudgetInv'
  <2> SUFFICES ASSUME TypeInv, BudgetInv, [Next]_vars PROVE BudgetInv'
    OBVIOUS
  <2> USE DEF BudgetInv, netVars, OverBudget
  <2>1. CASE StreamEvent \/ StreamClosed
    BY <2>1 DEF StreamEvent, StreamClosed, Finish, InBatch
  <2>2. CASE StartCall
    BY <2>2 DEF StartCall, Advance, Finish, InBatch
  <2>3. CASE ToolReturns
    BY <2>3 DEF ToolReturns, ToolSucceeds, ToolFails, ToolCancelled, ToolDenied, Advance,
                Finish, InBatch
  <2>4. CASE BeginIteration \/ Pace \/ Open \/ Backoff
    BY <2>4 DEF BeginIteration, Pace, Open, Backoff, Finish, InBatch
  <2>5. CASE Cancel \/ Returned \/ UNCHANGED vars
    BY <2>5 DEF Cancel, Returned, vars, InBatch
  <2> QED
    BY <2>1, <2>2, <2>3, <2>4, <2>5 DEF Next, Internal, External
<1>3. BudgetInv => BudgetGate
  BY DEF BudgetInv, BudgetGate, OverBudget, InBatch
<1> QED
  BY <1>1, <1>2, <1>3, TypeInit, TypeStep, PTL DEF Spec

\* The three limits of the loop together: the cap on tool calls, the one late
\* request of a cancelled turn and the budget, whatever the model answers.
THEOREM LimitsHold == Spec => []WithinLimits
<1>1. CapRespected /\ OneLateRequest /\ BudgetGate => WithinLimits
  BY DEF WithinLimits
<1> QED
  BY <1>1, CapHolds, AtMostOneLateRequest, BudgetHolds, PTL

-----------------------------------------------------------------------------
(* The shape of the history.  Between batches every complete assistant     *)
(* message is settled; inside one, all but the last are, and the replies   *)
(* given so far are exactly the messages behind it.  The definitions take  *)
(* the history as a parameter, so that the lemmas speak of any sequence.   *)

AnsweredIn(h, m, n) ==
    /\ m + n <= Len(h)
    /\ \A j \in 1..n : h[m + j].role = "tool" /\ h[m + j].id = h[m].calls[j].id

Asks(msg) == msg.role = "assistant" /\ ~msg.aborted

\* The message at m of h replies to the call of the message at a.
Owner(h, a, m) == /\ h[a].role = "assistant"
                  /\ m - a <= Len(h[a].calls)
                  /\ h[m].id = h[a].calls[m - a].id

Owned(h) ==
    \A m \in DOMAIN h : h[m].role = "tool" => \E a \in 1..(m - 1) : Owner(h, a, m)

Settled(h) ==
    /\ Owned(h)
    /\ \A m \in DOMAIN h : Asks(h[m]) => AnsweredIn(h, m, Len(h[m].calls))

\* calls were asked for at position b of h, and the first n have replies.
Replying(h, b, calls, n) ==
    /\ Owned(h)
    /\ b \in DOMAIN h /\ n \in 0..Len(calls) /\ Len(h) = b + n
    /\ h[b] = AssistantMessage(calls, FALSE)
    /\ AnsweredIn(h, b, n)
    /\ \A m \in DOMAIN h : m # b /\ Asks(h[m]) => AnsweredIn(h, m, Len(h[m].calls))

\* e replies to calls from position k on.
RepliesTo(e, calls, k) ==
    /\ k + Len(e) - 1 <= Len(calls)
    /\ \A j \in DOMAIN e : e[j].role = "tool" /\ e[j].id = calls[k + j - 1].id

\* Lengths, domains and elements of a history that was appended to.
LEMMA ConcatFacts ==
    ASSUME NEW h \in Seq(Messages), NEW e \in Seq(Messages)
    PROVE  /\ Len(h) \in Nat /\ Len(e) \in Nat
           /\ DOMAIN h = 1..Len(h) /\ DOMAIN e = 1..Len(e)
           /\ h \o e \in Seq(Messages)
           /\ Len(h \o e) = Len(h) + Len(e)
           /\ DOMAIN (h \o e) = 1..(Len(h) + Len(e))
           /\ \A k \in 1..Len(h) : (h \o e)[k] = h[k]
           /\ \A j \in 1..Len(e) : (h \o e)[Len(h) + j] = e[j]
<1>1. Len(h) \in Nat /\ Len(e) \in Nat /\ DOMAIN h = 1..Len(h) /\ DOMAIN e = 1..Len(e)
  BY LenProperties
<1>2. h \o e \in Seq(Messages) /\ Len(h \o e) = Len(h) + Len(e)
  BY ConcatProperties
<1>3. \A k \in 1..(Len(h) + Len(e)) : (h \o e)[k] = IF k <= Len(h) THEN h[k] ELSE e[k - Len(h)]
  BY ConcatProperties
<1>4. DOMAIN (h \o e) = 1..(Len(h) + Len(e))
  BY <1>2, LenProperties
<1>5. \A k \in 1..Len(h) : (h \o e)[k] = h[k]
  BY <1>1, <1>3
<1>6. ASSUME NEW j \in 1..Len(e) PROVE (h \o e)[Len(h) + j] = e[j]
  <2>1. Len(h) + j \in 1..(Len(h) + Len(e)) /\ ~(Len(h) + j <= Len(h)) /\ Len(h) + j - Len(h) = j
    BY <1>1
  <2> QED
    BY <1>3, <2>1
<1> QED
  BY <1>1, <1>2, <1>4, <1>5, <1>6

\* Every message has a number of calls.
LEMMA CallsLength == ASSUME NEW h \in Seq(Messages), NEW m \in DOMAIN h
                     PROVE  Len(h[m].calls) \in Nat
<1>1. h[m] \in Messages
  BY ElementOfSeq, LenProperties
<1> QED
  BY <1>1, LenProperties DEF Messages

\* Appending changes nothing of what was already there.
LEMMA ExtendAnswered ==
    ASSUME NEW h \in Seq(Messages), NEW e \in Seq(Messages),
           NEW m \in DOMAIN h, NEW n \in Nat, AnsweredIn(h, m, n)
    PROVE  AnsweredIn(h \o e, m, n) /\ (h \o e)[m] = h[m]
<1>1. m \in 1..Len(h) /\ \A j \in 1..n : m + j \in 1..Len(h)
  BY ConcatFacts DEF AnsweredIn
<1> QED
  BY <1>1, ConcatFacts DEF AnsweredIn

\* The replies that were owned still are, and so are new ones that have an owner.
LEMMA ExtendOwned ==
    ASSUME NEW h \in Seq(Messages), NEW e \in Seq(Messages), Owned(h),
           \A j \in 1..Len(e) : e[j].role = "tool" =>
              \E a \in 1..Len(h) : /\ h[a].role = "assistant"
                                   /\ Len(h) + j - a <= Len(h[a].calls)
                                   /\ e[j].id = h[a].calls[Len(h) + j - a].id
    PROVE  Owned(h \o e)
<1> SUFFICES ASSUME NEW m \in DOMAIN (h \o e), (h \o e)[m].role = "tool"
             PROVE  \E a \in 1..(m - 1) : Owner(h \o e, a, m)
  BY DEF Owned
<1>1. CASE m \in 1..Len(h)
  <2>1. (h \o e)[m] = h[m] /\ m \in DOMAIN h
    BY <1>1, ConcatFacts
  <2>2. PICK a \in 1..(m - 1) : Owner(h, a, m)
    BY <2>1 DEF Owned
  <2>3. (h \o e)[a] = h[a]
    BY <1>1, ConcatFacts
  <2>4. Owner(h \o e, a, m)
    BY <2>1, <2>2, <2>3 DEF Owner
  <2> QED
    BY <2>4
<1>2. CASE m \notin 1..Len(h)
  <2>1. PICK j \in 1..Len(e) : m = Len(h) + j
    <3>1. m - Len(h) \in 1..Len(e) /\ m = Len(h) + (m - Len(h))
      BY <1>2, ConcatFacts
    <3> QED
      BY <3>1
  <2>2. (h \o e)[m] = e[j]
    BY <2>1, ConcatFacts
  <2>3. PICK a \in 1..Len(h) : /\ h[a].role = "assistant"
                               /\ Len(h) + j - a <= Len(h[a].calls)
                               /\ e[j].id = h[a].calls[Len(h) + j - a].id
    BY <2>2
  <2>4. (h \o e)[a] = h[a] /\ a \in 1..(m - 1)
    BY <2>1, ConcatFacts
  <2>5. Owner(h \o e, a, m)
    BY <2>1, <2>2, <2>3, <2>4 DEF Owner
  <2> QED
    BY <2>4, <2>5
<1> QED
  BY <1>1, <1>2

\* Messages that are neither replies nor complete answers settle nothing new.
LEMMA ExtendSettled ==
    ASSUME NEW h \in Seq(Messages), NEW e \in Seq(Messages), Settled(h),
           \A j \in 1..Len(e) : e[j].role # "tool" /\ ~Asks(e[j])
    PROVE  Settled(h \o e)
<1>1. Owned(h \o e)
  BY ExtendOwned DEF Settled
<1>2. ASSUME NEW m \in DOMAIN (h \o e), Asks((h \o e)[m])
      PROVE  AnsweredIn(h \o e, m, Len((h \o e)[m].calls))
  <2>1. m \in DOMAIN h
    <3>1. CASE m \notin 1..Len(h)
      <4>1. m - Len(h) \in 1..Len(e) /\ Len(h) + (m - Len(h)) = m
        BY <3>1, ConcatFacts
      <4> QED
        BY <1>2, <4>1, ConcatFacts
    <3> QED
      BY <3>1, ConcatFacts
  <2>2. (h \o e)[m] = h[m]
    BY <2>1, ConcatFacts
  <2>3. AnsweredIn(h, m, Len(h[m].calls))
    BY <1>2, <2>1, <2>2 DEF Settled
  <2> QED
    BY <2>1, <2>2, <2>3, CallsLength, ExtendAnswered
<1> QED
  BY <1>1, <1>2 DEF Settled

\* A complete answer opens a batch without replies.
LEMMA OpenBatch ==
    ASSUME NEW h \in Seq(Messages), NEW calls \in Seq(Calls), Settled(h)
    PROVE  /\ h \o <<AssistantMessage(calls, FALSE)>> \in Seq(Messages)
           /\ Replying(h \o <<AssistantMessage(calls, FALSE)>>, Len(h) + 1, calls, 0)
<1> DEFINE e == <<AssistantMessage(calls, FALSE)>>
           g == h \o e
<1>1. e \in Seq(Messages) /\ Len(e) = 1 /\ e[1] = AssistantMessage(calls, FALSE)
  BY MessageTypes, SingletonSeq
<1> HIDE DEF e
<1>2. \A j \in 1..Len(e) : e[j].role # "tool"
  <2>1. e[1].role # "tool"
    BY <1>1 DEF AssistantMessage
  <2>2. \A j \in 1..Len(e) : j = 1
    BY <1>1
  <2> QED
    BY <2>1, <2>2
<1>3. Owned(g)
  BY <1>1, <1>2, ExtendOwned DEF Settled
<1>4. /\ g \in Seq(Messages) /\ Len(g) = Len(h) + 1
      /\ g[Len(h) + 1] = AssistantMessage(calls, FALSE)
      /\ DOMAIN g = 1..(Len(h) + 1) /\ DOMAIN h = 1..Len(h) /\ Len(h) \in Nat
  <2>1. 1 \in 1..Len(e)
    BY <1>1
  <2>2. g[Len(h) + 1] = e[1]
    BY <1>1, <2>1, ConcatFacts
  <2>3. g \in Seq(Messages) /\ Len(g) = Len(h) + Len(e) /\ DOMAIN g = 1..(Len(h) + Len(e))
    BY <1>1, ConcatFacts
  <2>4. DOMAIN h = 1..Len(h) /\ Len(h) \in Nat
    BY LenProperties
  <2> HIDE DEF g
  <2> QED
    BY <1>1, <2>2, <2>3, <2>4
<1>5. ASSUME NEW m \in DOMAIN g, m # Len(h) + 1, Asks(g[m])
      PROVE  AnsweredIn(g, m, Len(g[m].calls))
  <2>1. m \in DOMAIN h
    BY <1>4, <1>5
  <2>2. g[m] = h[m]
    BY <1>1, <2>1, ConcatFacts
  <2>3. AnsweredIn(h, m, Len(h[m].calls))
    BY <1>5, <2>1, <2>2 DEF Settled
  <2> QED
    BY <1>1, <2>1, <2>2, <2>3, CallsLength, ExtendAnswered
<1>6. AnsweredIn(g, Len(h) + 1, 0)
  BY <1>4 DEF AnsweredIn
<1>7. Len(calls) \in Nat
  BY LenProperties
<1> HIDE DEF g
<1>8. Replying(g, Len(h) + 1, calls, 0)
  BY <1>3, <1>4, <1>5, <1>6, <1>7 DEF Replying
<1> QED
  BY <1>4, <1>8 DEF e, g

\* Replies that follow the calls in order extend what is replied.
LEMMA ExtendBatch ==
    ASSUME NEW h \in Seq(Messages), NEW e \in Seq(Messages), NEW calls \in Seq(Calls),
           NEW b, NEW n, Replying(h, b, calls, n), RepliesTo(e, calls, n + 1)
    PROVE  Replying(h \o e, b, calls, n + Len(e))
<1> DEFINE g == h \o e
<1>1. /\ g \in Seq(Messages) /\ Len(h) \in Nat /\ Len(e) \in Nat /\ Len(calls) \in Nat
      /\ DOMAIN h = 1..Len(h) /\ DOMAIN g = 1..(Len(h) + Len(e)) /\ DOMAIN e = 1..Len(e)
      /\ Len(g) = Len(h) + Len(e)
      /\ \A k \in 1..Len(h) : g[k] = h[k]
      /\ \A j \in 1..Len(e) : g[Len(h) + j] = e[j]
  BY ConcatFacts, LenProperties
<1>2. /\ b \in 1..Len(h) /\ n \in Nat /\ Len(h) = b + n /\ n <= Len(calls)
      /\ h[b] = AssistantMessage(calls, FALSE) /\ AnsweredIn(h, b, n) /\ Owned(h)
  BY <1>1 DEF Replying
<1>3. h[b].role = "assistant" /\ h[b].calls = calls
  BY <1>2 DEF AssistantMessage
<1>4. /\ n + Len(e) <= Len(calls)
      /\ \A j \in 1..Len(e) : e[j].role = "tool" /\ e[j].id = calls[n + j].id
  <2>1. \A j \in 1..Len(e) : n + 1 + j - 1 = n + j
    BY <1>1, <1>2
  <2> QED
    BY <1>1, <1>2, <2>1 DEF RepliesTo
<1>5. Owned(g)
  <2>1. ASSUME NEW j \in 1..Len(e)
        PROVE  /\ Len(h) + j - b = n + j /\ n + j <= Len(calls)
    BY <1>1, <1>2, <1>4
  <2> QED
    BY <1>2, <1>3, <1>4, <2>1, ExtendOwned
<1>6. AnsweredIn(g, b, n + Len(e))
  <2>1. ASSUME NEW j \in 1..(n + Len(e))
        PROVE  g[b + j].role = "tool" /\ g[b + j].id = calls[j].id
    <3>1. CASE j <= n
      <4>1. b + j \in 1..Len(h) /\ j \in 1..n
        BY <1>1, <1>2, <3>1
      <4> QED
        BY <1>1, <1>2, <1>3, <4>1 DEF AnsweredIn
    <3>2. CASE j > n
      <4>1. j - n \in 1..Len(e) /\ Len(h) + (j - n) = b + j /\ n + (j - n) = j
        BY <1>1, <1>2, <3>2
      <4> QED
        BY <1>1, <1>4, <4>1
    <3> QED
      BY <1>1, <1>2, <3>1, <3>2
  <2>2. g[b].calls = calls
    BY <1>1, <1>2, <1>3
  <2> QED
    BY <1>1, <1>2, <2>1, <2>2 DEF AnsweredIn
<1>7. ASSUME NEW m \in DOMAIN g, m # b, Asks(g[m])
      PROVE  AnsweredIn(g, m, Len(g[m].calls))
  <2>1. m \in DOMAIN h
    <3>1. CASE m \notin 1..Len(h)
      <4>1. m - Len(h) \in 1..Len(e) /\ Len(h) + (m - Len(h)) = m
        BY <1>1, <3>1
      <4>2. g[m].role = "tool"
        BY <1>1, <1>4, <4>1
      <4> QED
        BY <1>7, <4>2 DEF Asks
    <3> QED
      BY <1>1, <3>1
  <2>2. g[m] = h[m]
    BY <1>1, <2>1
  <2>3. AnsweredIn(h, m, Len(h[m].calls))
    BY <1>7, <2>1, <2>2 DEF Replying
  <2> QED
    BY <2>1, <2>2, <2>3, CallsLength, ExtendAnswered
<1> HIDE DEF g
<1>8. b \in DOMAIN g /\ g[b] = AssistantMessage(calls, FALSE) /\ Len(g) = b + (n + Len(e))
      /\ n + Len(e) \in 0..Len(calls)
  <2>1. b \in 1..(Len(h) + Len(e))
    BY <1>1, <1>2
  <2>2. g[b] = h[b]
    BY <1>1, <1>2
  <2>3. Len(g) = b + (n + Len(e)) /\ n + Len(e) \in 0..Len(calls)
    BY <1>1, <1>2, <1>4
  <2> QED
    BY <1>1, <1>2, <2>1, <2>2, <2>3
<1>9. Replying(g, b, calls, n + Len(e))
  BY <1>5, <1>6, <1>7, <1>8 DEF Replying
<1> QED
  BY <1>9 DEF g

\* A batch whose calls all have replies is settled.
LEMMA CloseBatch ==
    ASSUME NEW h \in Seq(Messages), NEW calls \in Seq(Calls), NEW b,
           Replying(h, b, calls, Len(calls))
    PROVE  Settled(h)
<1>1. h[b].calls = calls
  BY DEF Replying, AssistantMessage
<1> QED
  BY <1>1 DEF Replying, Settled

-----------------------------------------------------------------------------

HistoryInv == IF InBatch
              THEN Replying(history, Len(history) - (i - 1), resp.calls, i - 1)
              ELSE Settled(history)

\* One reply, alone or with the synthetic ones behind it, continues a batch.
LEMMA ReplyStep ==
    ASSUME TypeInv, HistoryInv, InBatch, NEW o \in Outcomes, NEW w \in SUBSET Texts
    PROVE  /\ Replying(Append(history, ToolMessage(Call.id, o, w)),
                       Len(history) - (i - 1), resp.calls, i)
           /\ Settled(history \o NotExecuted(resp.calls, i))
           /\ Settled(history \o <<ToolMessage(Call.id, o, w)>>
                              \o NotExecuted(resp.calls, i + 1))
<1> DEFINE b == Len(history) - (i - 1)
           e == <<ToolMessage(Call.id, o, w)>>
<1>1. /\ history \in Seq(Messages) /\ resp.calls \in Seq(Calls) /\ Len(resp.calls) \in Nat
      /\ i \in 1..Len(resp.calls) /\ i - 1 \in Nat /\ i \in 1..(Len(resp.calls) + 1)
      /\ i + 1 \in 1..(Len(resp.calls) + 1)
  <2>1. history \in Seq(Messages)
    BY DEF TypeInv, TypeOK
  <2>2. /\ resp.calls \in Seq(Calls) /\ i \in 1..Len(resp.calls) /\ Len(resp.calls) \in Nat
        /\ i + 1 \in 1..(Len(resp.calls) + 1)
    BY CallType
  <2>3. i - 1 \in Nat /\ i \in 1..(Len(resp.calls) + 1)
    BY <2>2
  <2> QED
    BY <2>1, <2>2, <2>3
<1>2. Replying(history, b, resp.calls, i - 1)
  BY DEF HistoryInv
<1>3. e \in Seq(Messages) /\ Len(e) = 1 /\ e[1] = ToolMessage(Call.id, o, w)
  BY CallType, MessageTypes, SingletonSeq
<1>4. RepliesTo(e, resp.calls, i)
  <2>1. ToolMessage(Call.id, o, w).role = "tool" /\ ToolMessage(Call.id, o, w).id = resp.calls[i].id
    BY DEF ToolMessage, Call
  <2> QED
    BY <1>1, <2>1 DEF RepliesTo
<1>5. ASSUME NEW k \in 1..(Len(resp.calls) + 1)
      PROVE  /\ RepliesTo(NotExecuted(resp.calls, k), resp.calls, k)
             /\ NotExecuted(resp.calls, k) \in Seq(Messages)
             /\ Len(NotExecuted(resp.calls, k)) = Len(resp.calls) - k + 1
  <2> DEFINE s == NotExecuted(resp.calls, k)
  <2>1. /\ s \in Seq(Messages) /\ Len(s) = Len(resp.calls) - k + 1
        /\ \A j \in 1..(Len(resp.calls) - k + 1) :
              s[j] = ToolMessage(resp.calls[k + j - 1].id, "skipped", {})
    BY <1>1, NotExecutedShape
  <2>2. DOMAIN s = 1..Len(s)
    BY <2>1, LenProperties
  <2>3. \A id : ToolMessage(id, "skipped", {}).role = "tool"
                        /\ ToolMessage(id, "skipped", {}).id = id
    BY DEF ToolMessage
  <2>4. \A j \in 1..(Len(resp.calls) - k + 1) :
           s[j].role = "tool" /\ s[j].id = resp.calls[k + j - 1].id
    <3> HIDE DEF s
    <3> QED
      BY <2>1, <2>3
  <2> HIDE DEF s
  <2>5. RepliesTo(s, resp.calls, k)
    <3>1. k + Len(s) - 1 <= Len(resp.calls)
      BY <1>1, <2>1
    <3>2. \A j \in DOMAIN s : j \in 1..(Len(resp.calls) - k + 1)
      BY <2>1, <2>2
    <3> QED
      BY <2>4, <3>1, <3>2 DEF RepliesTo
  <2> QED
    BY <2>1, <2>5 DEF s
<1>6. Replying(history \o e, b, resp.calls, i)
  <2>1. i - 1 + 1 = i
    BY <1>1
  <2>2. Replying(history \o e, b, resp.calls, i - 1 + Len(e))
    <3> HIDE DEF e, b
    <3> QED
      BY <1>1, <1>2, <1>3, <1>4, <2>1, ExtendBatch
  <2> HIDE DEF e, b
  <2> QED
    BY <1>3, <2>1, <2>2
<1>7. Settled(history \o NotExecuted(resp.calls, i))
  <2> DEFINE s == NotExecuted(resp.calls, i)
  <2>1. i - 1 + 1 = i /\ i - 1 + (Len(resp.calls) - i + 1) = Len(resp.calls)
    BY <1>1
  <2>2. s \in Seq(Messages) /\ RepliesTo(s, resp.calls, i) /\ Len(s) = Len(resp.calls) - i + 1
    BY <1>1, <1>5
  <2> HIDE DEF s, b
  <2>3. Replying(history \o s, b, resp.calls, i - 1 + Len(s))
    BY <1>1, <1>2, <2>1, <2>2, ExtendBatch
  <2>4. Replying(history \o s, b, resp.calls, Len(resp.calls))
    BY <2>1, <2>2, <2>3
  <2>5. Settled(history \o s)
    <3>1. history \o s \in Seq(Messages)
      BY <1>1, <2>2, ConcatFacts
    <3> QED
      BY <1>1, <2>4, <3>1, CloseBatch
  <2> QED
    BY <2>5 DEF s
<1>8. Settled(history \o e \o NotExecuted(resp.calls, i + 1))
  <2> DEFINE s == NotExecuted(resp.calls, i + 1)
             h == history \o e
  <2>1. i + (Len(resp.calls) - (i + 1) + 1) = Len(resp.calls)
    BY <1>1
  <2>2. s \in Seq(Messages) /\ RepliesTo(s, resp.calls, i + 1)
        /\ Len(s) = Len(resp.calls) - (i + 1) + 1
    BY <1>1, <1>5
  <2>3. h \in Seq(Messages)
    BY <1>1, <1>3, ConcatFacts
  <2>4. Replying(h, b, resp.calls, i)
    BY <1>6
  <2> HIDE DEF s, b, h
  <2>5. Replying(h \o s, b, resp.calls, i + Len(s))
    BY <1>1, <2>2, <2>3, <2>4, ExtendBatch
  <2>6. Replying(h \o s, b, resp.calls, Len(resp.calls))
    BY <2>1, <2>2, <2>5
  <2>7. Settled(h \o s)
    <3>1. h \o s \in Seq(Messages)
      BY <2>2, <2>3, ConcatFacts
    <3> QED
      BY <1>1, <2>6, <3>1, CloseBatch
  <2> QED
    BY <2>7 DEF s, h
<1>9. Append(history, ToolMessage(Call.id, o, w)) = history \o e
  BY <1>1
<1> QED
  BY <1>6, <1>7, <1>8, <1>9

\* What a complete answer leaves behind, by whether it asks for tools.
LEMMA AnswerStep ==
    ASSUME TypeInv, HistoryInv, ~InBatch
    PROVE  /\ Settled(history \o RecordedPartial(resp))
           /\ resp.calls = << >> => Settled(history \o Recorded(resp))
           /\ resp.calls # << >> =>
                 /\ Len(history \o Recorded(resp)) = Len(history) + 1
                 /\ Replying(history \o Recorded(resp), Len(history) + 1, resp.calls, 0)
                 /\ Settled(history \o Recorded(resp) \o NotExecuted(resp.calls, 1))
<1> DEFINE h == history \o <<AssistantMessage(resp.calls, FALSE)>>
<1>1. /\ history \in Seq(Messages) /\ resp.calls \in Seq(Calls) /\ Len(resp.calls) \in Nat
      /\ Len(history) \in Nat /\ Settled(history)
  BY LenProperties DEF TypeInv, TypeOK, HistoryInv
<1>2. h \in Seq(Messages) /\ Replying(h, Len(history) + 1, resp.calls, 0)
  BY <1>1, OpenBatch
<1>3. history \o << >> = history
  BY <1>1, ConcatEmptySeq
<1>4. Settled(history \o RecordedPartial(resp))
  <2> DEFINE e == <<AssistantMessage(resp.calls, TRUE)>>
  <2>1. e \in Seq(Messages) /\ Len(e) = 1 /\ e[1] = AssistantMessage(resp.calls, TRUE)
    BY <1>1, MessageTypes, SingletonSeq
  <2> HIDE DEF e
  <2>2. \A j \in 1..Len(e) : e[j].role # "tool" /\ ~Asks(e[j])
    <3>1. e[1].role # "tool" /\ ~Asks(e[1])
      BY <2>1 DEF AssistantMessage, Asks
    <3>2. \A j \in 1..Len(e) : j = 1
      BY <2>1
    <3> QED
      BY <3>1, <3>2
  <2>3. Settled(history \o e)
    BY <1>1, <2>1, <2>2, ExtendSettled
  <2> QED
    BY <1>1, <1>3, <2>3 DEF RecordedPartial, e
<1>5. ASSUME resp.calls = << >>
      PROVE  Settled(history \o Recorded(resp))
  <2>1. Settled(h)
    <3>1. Len(resp.calls) = 0
      BY <1>5
    <3> HIDE DEF h
    <3> QED
      BY <1>1, <1>2, <3>1, CloseBatch
  <2> QED
    BY <1>1, <1>3, <2>1 DEF Recorded
<1>6. ASSUME resp.calls # << >>
      PROVE  /\ Len(history \o Recorded(resp)) = Len(history) + 1
             /\ Replying(history \o Recorded(resp), Len(history) + 1, resp.calls, 0)
             /\ Settled(history \o Recorded(resp) \o NotExecuted(resp.calls, 1))
  <2>1. history \o Recorded(resp) = h
    BY <1>6 DEF Recorded
  <2>2. Len(h) = Len(history) + 1
    <3> HIDE DEF h
    <3> QED
      BY <1>1, <1>2 DEF Replying
  <2> DEFINE s == NotExecuted(resp.calls, 1)
  <2>3. /\ s \in Seq(Messages) /\ Len(s) = Len(resp.calls) - 1 + 1
        /\ \A j \in 1..(Len(resp.calls) - 1 + 1) :
              s[j] = ToolMessage(resp.calls[1 + j - 1].id, "skipped", {})
    <3>1. 1 \in 1..(Len(resp.calls) + 1)
      BY <1>1
    <3> QED
      BY <1>1, <3>1, NotExecutedShape
  <2>4. DOMAIN s = 1..Len(s)
    BY <2>3, LenProperties
  <2>5. \A id : ToolMessage(id, "skipped", {}).role = "tool"
                /\ ToolMessage(id, "skipped", {}).id = id
    BY DEF ToolMessage
  <2> HIDE DEF s, h
  <2>6. RepliesTo(s, resp.calls, 0 + 1)
    BY <1>1, <2>3, <2>4, <2>5 DEF RepliesTo
  <2>7. Replying(h \o s, Len(history) + 1, resp.calls, 0 + Len(s))
    BY <1>1, <1>2, <2>3, <2>6, ExtendBatch
  <2>8. 0 + Len(s) = Len(resp.calls)
    BY <1>1, <2>3
  <2>9. Settled(h \o s)
    <3>1. h \o s \in Seq(Messages)
      BY <1>2, <2>3, ConcatFacts
    <3>2. Replying(h \o s, Len(history) + 1, resp.calls, Len(resp.calls))
      BY <2>7, <2>8
    <3> QED
      BY <1>1, <3>1, <3>2, CloseBatch
  <2> QED
    BY <1>2, <2>1, <2>2, <2>9 DEF s
<1> QED
  BY <1>4, <1>5, <1>6

\* The history of the user's question alone has the shape.
LEMMA HistoryInit == Init => HistoryInv
<1> SUFFICES ASSUME Init PROVE HistoryInv
  OBVIOUS
<1>1. ~InBatch
  BY DEF Init, InBatch
<1>2. history = <<UserMessage>> /\ Len(history) = 1 /\ DOMAIN history = {1}
  BY DEF Init
<1>3. history[1].role = "user"
  BY <1>2 DEF UserMessage
<1> QED
  BY <1>1, <1>2, <1>3 DEF HistoryInv, Settled, Owned, Asks

\* Every step keeps the shape: one case per action.
LEMMA HistoryStep == TypeInv /\ HistoryInv /\ [Next]_vars => HistoryInv'
<1> SUFFICES ASSUME TypeInv, HistoryInv, [Next]_vars PROVE HistoryInv'
  OBVIOUS
<1> USE DEF netVars, loopVars, toolVars
<1>1. CASE UNCHANGED <<history, i, resp>> /\ (InBatch' <=> InBatch)
  BY <1>1 DEF HistoryInv
<1>2. CASE ~InBatch /\ ~InBatch' /\ UNCHANGED history
  BY <1>2 DEF HistoryInv
<1>3. CASE Cancel \/ Returned \/ UNCHANGED vars
  BY <1>1, <1>3 DEF Cancel, Returned, vars, InBatch
<1>4. CASE Pace \/ Open \/ Backoff \/ StreamEvent
  BY <1>2, <1>4 DEF Pace, Open, Backoff, StreamEvent, Finish, InBatch
<1>5. CASE BeginIteration
  <2>1. ~InBatch /\ ~InBatch'
    BY <1>5 DEF BeginIteration, Finish, InBatch
  <2>2. CASE UNCHANGED history
    BY <1>2, <2>1, <2>2
  <2>3. ASSUME NEW k \in 0..MaxInjected, history' = history \o [j \in 1..k |-> UserMessage]
        PROVE  Settled(history')
    <3> DEFINE e == [j \in 1..k |-> UserMessage]
    <3>1. e \in Seq(Messages) /\ Len(e) = k
      BY MessageTypes, FunctionIsSeq
    <3>2. \A j \in 1..Len(e) : e[j].role # "tool" /\ ~Asks(e[j])
      BY <3>1 DEF UserMessage, Asks
    <3>3. history \in Seq(Messages) /\ Settled(history)
      BY <2>1 DEF TypeInv, TypeOK, HistoryInv
    <3> HIDE DEF e
    <3>4. Settled(history \o e)
      BY <3>1, <3>2, <3>3, ExtendSettled
    <3> QED
      BY <2>3, <3>4 DEF e
  <2> QED
    BY <1>5, <2>1, <2>2, <2>3 DEF BeginIteration, HistoryInv
<1>6. CASE StreamClosed
  <2>1. ~InBatch
    BY <1>6 DEF StreamClosed, InBatch
  <2>2. CASE ~InBatch'
    <3>1. Settled(history')
      BY <1>6, <2>1, <2>2, AnswerStep DEF StreamClosed, InBatch, HistoryInv
    <3> QED
      BY <2>2, <3>1 DEF HistoryInv
  <2>3. CASE InBatch'
    <3>1. /\ resp.calls # << >> /\ history' = history \o Recorded(resp) /\ i' = 1
          /\ resp' = resp
      BY <1>6, <2>3 DEF StreamClosed, Finish, InBatch
    <3>2. Len(history') = Len(history) + 1 /\ Len(history) \in Nat
      BY <2>1, <3>1, AnswerStep, LenProperties DEF TypeInv, TypeOK
    <3>3. Len(history') - (i' - 1) = Len(history) + 1 /\ i' - 1 = 0
      BY <3>1, <3>2
    <3>4. Replying(history', Len(history) + 1, resp'.calls, 0)
      BY <2>1, <3>1, AnswerStep
    <3> QED
      BY <2>3, <3>3, <3>4 DEF HistoryInv
  <2> QED
    BY <2>2, <2>3
\* A batch goes on with one more reply, ends with all of them, or waits.
<1>7. CASE StartCall \/ ToolReturns
  <2>1. InBatch /\ resp' = resp
    BY <1>7 DEF StartCall, ToolReturns, ToolSucceeds, ToolFails, ToolCancelled, ToolDenied,
                InBatch
  <2>2. PICK o \in Outcomes, w \in SUBSET Texts :
           \/ UNCHANGED <<history, i>> /\ InBatch'
           \/ history' = history \o NotExecuted(resp.calls, i) /\ ~InBatch'
           \/ Close(o, w) /\ ~InBatch'
           \/ history' = Append(history, ToolMessage(Call.id, o, w)) /\ Advance
    <3>1. {} \in SUBSET Texts /\ \A f \in Failures : {f} \in SUBSET Texts
      BY DEF Texts
    <3>2. {NoRunnerText(Call.sig)} \in SUBSET Texts
      BY <2>1, CallType DEF Texts
    <3>3. {"ok", "error", "cancelled", "denied"} \subseteq Outcomes
      BY DEF Outcomes
    <3>4. CASE StartCall
      BY <3>1, <3>2, <3>3, <3>4 DEF StartCall, Finish, InBatch
    <3>5. CASE ToolSucceeds
      BY <3>1, <3>3, <3>5 DEF ToolSucceeds
    <3>6. CASE ToolFails
      <4>1. PICK f \in Failures :
               \/ Close("error", {f}) /\ ~InBatch'
               \/ history' = Append(history, ToolMessage(Call.id, "error", {f})) /\ Advance
        BY <3>6 DEF ToolFails, Finish, InBatch
      <4> QED
        BY <3>1, <3>3, <4>1
    <3>7. CASE ToolCancelled \/ ToolDenied
      BY <3>1, <3>3, <3>7 DEF ToolCancelled, ToolDenied, Finish, InBatch
    <3> QED
      BY <1>7, <3>4, <3>5, <3>6, <3>7 DEF ToolReturns
  <2>3. /\ Replying(Append(history, ToolMessage(Call.id, o, w)),
                    Len(history) - (i - 1), resp.calls, i)
        /\ Settled(history \o NotExecuted(resp.calls, i))
        /\ Settled(history \o <<ToolMessage(Call.id, o, w)>> \o NotExecuted(resp.calls, i + 1))
    BY <2>1, ReplyStep
  <2>4. CASE UNCHANGED <<history, i>> /\ InBatch'
    BY <1>1, <2>1, <2>4
  <2>5. CASE ~InBatch' /\ (history' = history \o NotExecuted(resp.calls, i) \/ Close(o, w))
    BY <2>3, <2>5 DEF HistoryInv, Close
  <2>6. CASE history' = Append(history, ToolMessage(Call.id, o, w)) /\ Advance
    <3>1. /\ history \in Seq(Messages) /\ Len(history) \in Nat /\ i \in 1..Len(resp.calls)
          /\ resp.calls \in Seq(Calls) /\ Len(resp.calls) \in Nat
      BY <2>1, CallType, LenProperties DEF TypeInv, TypeOK
    <3>2. Len(history') = Len(history) + 1
      BY <2>6, <3>1
    <3>3. Replying(history', Len(history) - (i - 1), resp.calls, i)
      BY <2>3, <2>6
    <3>4. CASE i < Len(resp.calls)
      <4>1. i' = i + 1 /\ InBatch'
        BY <2>6, <3>4 DEF Advance, InBatch
      <4>2. Len(history') - (i' - 1) = Len(history) - (i - 1) /\ i' - 1 = i
        BY <3>1, <3>2, <4>1
      <4> QED
        BY <2>1, <3>3, <4>1, <4>2 DEF HistoryInv
    <3>5. CASE ~(i < Len(resp.calls))
      <4>1. i = Len(resp.calls) /\ ~InBatch'
        BY <2>6, <3>1, <3>5 DEF Advance, InBatch
      <4>2. history' \in Seq(Messages)
        BY <2>6, <3>1, CallType, MessageTypes, <2>1
      <4>3. Settled(history')
        BY <3>1, <3>3, <4>1, <4>2, CloseBatch
      <4> QED
        BY <4>1, <4>3 DEF HistoryInv
    <3> QED
      BY <3>4, <3>5
  <2> QED
    BY <2>2, <2>4, <2>5, <2>6
<1> QED
  BY <1>3, <1>4, <1>5, <1>6, <1>7 DEF Next, Internal, External

\* Whatever ends a turn or precedes a request, every call of every complete
\* assistant message has its reply right behind it, in order; and no reply is
\* there without its call.
THEOREM CallsAlwaysAnswered == Spec => []CallsAnswered
<1>1. HistoryInv => CallsAnswered
  BY DEF HistoryInv, Settled, Asks, AnsweredIn, CallsAnswered, Answered
<1> QED
  BY <1>1, TypeInit, TypeStep, HistoryInit, HistoryStep, PTL DEF Spec

\* No reply in the history belongs to another call than the one it follows.
THEOREM RepliesAlwaysBelong == Spec => []RepliesBelong
<1>1. HistoryInv => RepliesBelong
  BY DEF HistoryInv, Settled, Replying, Owned, Owner, RepliesBelong
<1> QED
  BY <1>1, TypeInit, TypeStep, HistoryInit, HistoryStep, PTL DEF Spec

-----------------------------------------------------------------------------
(* What a step does to the history, position by position.                  *)

Old(g) == /\ g \in Seq(Messages)
          /\ Len(g) \in Nat /\ Len(g) >= Len(history)
          /\ DOMAIN g = 1..Len(g) /\ DOMAIN history = 1..Len(history)
          /\ \A m \in 1..Len(history) : g[m] = history[m]

\* g is the history, the reply to the current call and nothing else.
OneReply(g, o, w) == /\ Old(g)
                     /\ Len(g) = Len(history) + 1
                     /\ g[Len(history) + 1] = ToolMessage(Call.id, o, w)

\* g is the history, the reply to the current call and the synthetic ones.
AllReplies(g, o, w) ==
    /\ Old(g)
    /\ Len(g) = Len(history) + Len(resp.calls) - i + 1
    /\ g[Len(history) + 1] = ToolMessage(Call.id, o, w)
    /\ \A m \in (Len(history) + 2)..Len(g) :
          g[m] = ToolMessage(resp.calls[i + m - Len(history) - 1].id, "skipped", {})

\* g is the history and an answer; with its synthetic replies if closed.
OneAnswer(g, aborted) ==
    /\ Old(g)
    /\ Len(g) = Len(history) + 1
    /\ g[Len(history) + 1] = AssistantMessage(resp.calls, aborted)

ClosedAnswer(g) ==
    /\ Old(g)
    /\ Len(g) = Len(history) + 1 + Len(resp.calls)
    /\ g[Len(history) + 1] = AssistantMessage(resp.calls, FALSE)
    /\ \A m \in (Len(history) + 2)..Len(g) :
          g[m] = ToolMessage(resp.calls[m - Len(history) - 1].id, "skipped", {})

\* The history with messages behind it keeps what it had.
LEMMA ConcatOld == ASSUME TypeInv, NEW e \in Seq(Messages)
                   PROVE  /\ Old(history \o e) /\ Old(history)
                          /\ Len(history) \in Nat
                          /\ Len(history \o e) = Len(history) + Len(e)
                          /\ \A j \in 1..Len(e) : (history \o e)[Len(history) + j] = e[j]
<1>1. history \in Seq(Messages)
  BY DEF TypeInv, TypeOK
<1> QED
  BY <1>1, ConcatFacts, LenProperties DEF Old

\* One message more.
LEMMA AppendOld == ASSUME TypeInv, NEW r \in Messages
                   PROVE  /\ history \o <<r>> \in Seq(Messages)
                          /\ Append(history, r) = history \o <<r>>
                          /\ Old(history \o <<r>>)
                          /\ Len(history \o <<r>>) = Len(history) + 1
                          /\ (history \o <<r>>)[Len(history) + 1] = r
<1> DEFINE e == <<r>>
<1>1. e \in Seq(Messages) /\ Len(e) = 1 /\ e[1] = r /\ 1 \in 1..1
  OBVIOUS
<1>2. history \in Seq(Messages) /\ Append(history, r) = history \o e
  BY DEF TypeInv, TypeOK
<1> HIDE DEF e
<1>3. /\ Old(history \o e) /\ Len(history \o e) = Len(history) + Len(e)
      /\ \A j \in 1..Len(e) : (history \o e)[Len(history) + j] = e[j]
  BY <1>1, ConcatOld
<1>4. Len(history \o e) = Len(history) + 1 /\ (history \o e)[Len(history) + 1] = r
  BY <1>1, <1>3
<1>5. history \o e \in Seq(Messages)
  BY <1>3 DEF Old
<1> QED
  BY <1>2, <1>3, <1>4, <1>5 DEF e

\* The replies of a batch in progress, alone or with those that close it.
LEMMA ReplyShape ==
    ASSUME TypeInv, InBatch, NEW o \in Outcomes, NEW w \in SUBSET Texts
    PROVE  /\ OneReply(Append(history, ToolMessage(Call.id, o, w)), o, w)
           /\ AllReplies(history \o NotExecuted(resp.calls, i), "skipped", {})
           /\ AllReplies(history \o <<ToolMessage(Call.id, o, w)>>
                             \o NotExecuted(resp.calls, i + 1), o, w)
<1> DEFINE n == Len(history)
           B == Len(resp.calls)
           r == ToolMessage(Call.id, o, w)
<1>1. /\ history \in Seq(Messages) /\ n \in Nat /\ resp.calls \in Seq(Calls)
      /\ B \in Nat /\ i \in 1..B /\ i \in 1..(B + 1) /\ i + 1 \in 1..(B + 1)
  <2>1. history \in Seq(Messages) /\ n \in Nat
    BY LenProperties DEF TypeInv, TypeOK
  <2>2. B \in Nat /\ i \in 1..B /\ resp.calls \in Seq(Calls) /\ i + 1 \in 1..(B + 1)
    BY CallType
  <2> QED
    BY <2>1, <2>2
<1>2. r \in Messages
  BY CallType, MessageTypes
<1>3. OneReply(Append(history, r), o, w)
  <2> HIDE DEF r
  <2> QED
    BY <1>2, AppendOld DEF OneReply, r
<1>4. AllReplies(history \o NotExecuted(resp.calls, i), "skipped", {})
  <2> DEFINE s == NotExecuted(resp.calls, i)
  <2>1. /\ s \in Seq(Messages) /\ Len(s) = B - i + 1
        /\ \A j \in 1..(B - i + 1) : s[j] = ToolMessage(resp.calls[i + j - 1].id, "skipped", {})
    BY <1>1, NotExecutedShape
  <2> HIDE DEF s
  <2> DEFINE g == history \o s
  <2>2. Old(g) /\ Len(g) = n + B - i + 1 /\ \A j \in 1..Len(s) : g[n + j] = s[j]
    <3>1. Old(g) /\ Len(g) = n + Len(s) /\ \A j \in 1..Len(s) : g[n + j] = s[j]
      BY <2>1, ConcatOld
    <3> HIDE DEF g
    <3> QED
      BY <1>1, <2>1, <3>1
  <2> HIDE DEF g
  <2>3. g[n + 1] = ToolMessage(Call.id, "skipped", {})
    <3>1. 1 \in 1..Len(s) /\ i + 1 - 1 = i
      BY <1>1, <2>1
    <3> QED
      BY <2>1, <2>2, <3>1 DEF Call
  <2>4. ASSUME NEW m \in (n + 2)..Len(g)
        PROVE  g[m] = ToolMessage(resp.calls[i + m - n - 1].id, "skipped", {})
    <3>1. m - n \in 1..Len(s) /\ n + (m - n) = m /\ i + (m - n) - 1 = i + m - n - 1
      BY <1>1, <2>1, <2>2
    <3> QED
      BY <2>1, <2>2, <3>1
  <2> QED
    BY <2>2, <2>3, <2>4 DEF AllReplies, g, s
<1>5. AllReplies(history \o <<r>> \o NotExecuted(resp.calls, i + 1), o, w)
  <2> DEFINE s == NotExecuted(resp.calls, i + 1)
  <2>1. /\ s \in Seq(Messages) /\ Len(s) = B - (i + 1) + 1
        /\ \A j \in 1..(B - (i + 1) + 1) :
              s[j] = ToolMessage(resp.calls[i + 1 + j - 1].id, "skipped", {})
    BY <1>1, NotExecutedShape
  <2> HIDE DEF s, r
  <2> DEFINE h == history \o <<r>>
  <2>3. Old(h) /\ Len(h) = n + 1 /\ h[n + 1] = r /\ h \in Seq(Messages)
    BY <1>2, AppendOld
  <2> HIDE DEF h
  <2> DEFINE g == h \o s
  <2>4. /\ g \in Seq(Messages) /\ DOMAIN g = 1..Len(g) /\ Len(g) = Len(h) + Len(s)
        /\ \A k \in 1..Len(h) : g[k] = h[k]
        /\ \A j \in 1..Len(s) : g[Len(h) + j] = s[j]
    BY <2>1, <2>3, ConcatFacts
  <2> HIDE DEF g
  <2>5. Old(g) /\ Len(g) = n + B - i + 1
    <3>1. Len(g) = n + B - i + 1 /\ Len(g) \in Nat /\ Len(g) >= n
      <4> DEFINE x == Len(s)
      <4>1. x = B - (i + 1) + 1 /\ Len(g) = n + 1 + x
        BY <2>1, <2>3, <2>4
      <4> HIDE DEF x, n, B
      <4> QED
        BY <1>1, <4>1
    <3>2. \A k \in 1..n : k \in 1..Len(h) /\ h[k] = history[k]
      BY <1>1, <2>3 DEF Old
    <3> QED
      BY <2>3, <2>4, <3>1, <3>2 DEF Old
  <2>6. g[n + 1] = r
    BY <1>1, <2>3, <2>4
  <2>7. ASSUME NEW m \in (n + 2)..Len(g)
        PROVE  g[m] = ToolMessage(resp.calls[i + m - n - 1].id, "skipped", {})
    <3>1. m - n - 1 \in 1..Len(s) /\ n + 1 + (m - n - 1) = m
          /\ i + 1 + (m - n - 1) - 1 = i + m - n - 1
      BY <1>1, <2>1, <2>5
    <3> QED
      BY <2>1, <2>3, <2>4, <3>1
  <2> QED
    BY <2>5, <2>6, <2>7 DEF AllReplies, g, h, s, r
<1> QED
  BY <1>3, <1>4, <1>5

\* What a closed stream leaves: nothing, the answer, or the answer with the
\* replies of a budget that is spent.
LEMMA AnswerShape ==
    ASSUME TypeInv
    PROVE  /\ Recorded(resp) = <<>> \/ OneAnswer(history \o Recorded(resp), FALSE)
           /\ RecordedPartial(resp) = <<>> \/ OneAnswer(history \o RecordedPartial(resp), TRUE)
           /\ resp.calls # <<>> =>
                 /\ OneAnswer(history \o Recorded(resp), FALSE)
                 /\ ClosedAnswer(history \o Recorded(resp) \o NotExecuted(resp.calls, 1))
<1> DEFINE n == Len(history)
<1>1. /\ history \in Seq(Messages) /\ n \in Nat /\ resp.calls \in Seq(Calls)
      /\ Len(resp.calls) \in Nat
  BY LenProperties DEF TypeInv, TypeOK
<1>2. ASSUME NEW b \in BOOLEAN
      PROVE  OneAnswer(history \o <<AssistantMessage(resp.calls, b)>>, b)
  <2> DEFINE r == AssistantMessage(resp.calls, b)
  <2>1. r \in Messages
    BY <1>1, MessageTypes
  <2> HIDE DEF r
  <2> QED
    BY <2>1, AppendOld DEF OneAnswer, r
<1>3. /\ Recorded(resp) = <<>> \/ Recorded(resp) = <<AssistantMessage(resp.calls, FALSE)>>
      /\ RecordedPartial(resp) = <<>>
            \/ RecordedPartial(resp) = <<AssistantMessage(resp.calls, TRUE)>>
      /\ resp.calls # <<>> => Recorded(resp) = <<AssistantMessage(resp.calls, FALSE)>>
  BY DEF Recorded, RecordedPartial
<1>4. ASSUME resp.calls # <<>>
      PROVE  ClosedAnswer(history \o Recorded(resp) \o NotExecuted(resp.calls, 1))
  <2> DEFINE s == NotExecuted(resp.calls, 1)
             h == history \o Recorded(resp)
  <2>1. /\ s \in Seq(Messages) /\ Len(s) = Len(resp.calls)
        /\ \A j \in 1..Len(resp.calls) : s[j] = ToolMessage(resp.calls[j].id, "skipped", {})
    <3>1. 1 \in 1..(Len(resp.calls) + 1) /\ Len(resp.calls) - 1 + 1 = Len(resp.calls)
          /\ \A j \in 1..Len(resp.calls) : 1 + j - 1 = j
      BY <1>1
    <3>2. /\ s \in Seq(Messages) /\ Len(s) = Len(resp.calls) - 1 + 1
          /\ \A j \in 1..(Len(resp.calls) - 1 + 1) :
                s[j] = ToolMessage(resp.calls[1 + j - 1].id, "skipped", {})
      BY <1>1, <3>1, NotExecutedShape
    <3> HIDE DEF s
    <3> QED
      BY <3>1, <3>2
  <2>2. OneAnswer(h, FALSE)
    BY <1>2, <1>3, <1>4
  <2> HIDE DEF s, h
  <2> DEFINE g == h \o s
  <2>3. /\ g \in Seq(Messages) /\ DOMAIN g = 1..Len(g) /\ Len(g) = Len(h) + Len(s)
        /\ \A k \in 1..Len(h) : g[k] = h[k]
        /\ \A j \in 1..Len(s) : g[Len(h) + j] = s[j]
    BY <2>1, <2>2, ConcatFacts DEF OneAnswer, Old
  <2> HIDE DEF g
  <2>4. /\ Old(g) /\ Len(g) = n + 1 + Len(resp.calls)
        /\ g[n + 1] = AssistantMessage(resp.calls, FALSE)
    <3>1. Old(h) /\ Len(h) = n + 1 /\ h[n + 1] = AssistantMessage(resp.calls, FALSE)
      BY <2>2 DEF OneAnswer
    <3>2. Len(g) = n + 1 + Len(resp.calls) /\ Len(g) \in Nat /\ Len(g) >= n
      <4> DEFINE x == Len(resp.calls)
      <4>1. Len(g) = n + 1 + x /\ n \in Nat /\ x \in Nat
        BY <1>1, <2>1, <2>3, <3>1
      <4> HIDE DEF x, n
      <4>2. Len(g) \in Nat /\ Len(g) >= n
        BY <4>1
      <4> QED
        BY <4>1, <4>2 DEF x
    <3>3. \A k \in 1..n : k \in 1..Len(h) /\ h[k] = history[k]
      BY <1>1, <3>1 DEF Old
    <3>4. n + 1 \in 1..Len(h)
      BY <1>1, <3>1
    <3> QED
      BY <2>3, <3>1, <3>2, <3>3, <3>4 DEF Old
  <2>5. ASSUME NEW m \in (n + 2)..Len(g)
        PROVE  g[m] = ToolMessage(resp.calls[m - n - 1].id, "skipped", {})
    <3>1. Len(h) = n + 1 /\ Len(g) = n + 1 + Len(s)
      BY <2>1, <2>2, <2>4 DEF OneAnswer
    <3>2. m - n - 1 \in 1..Len(s) /\ n + 1 + (m - n - 1) = m
      <4> DEFINE x == Len(s)
      <4>1. n \in Nat /\ x \in Nat /\ m \in (n + 2)..(n + 1 + x)
        BY <1>1, <2>1, <3>1
      <4> HIDE DEF x, n
      <4> QED
        BY <4>1 DEF x
    <3> QED
      BY <2>1, <2>3, <3>1, <3>2
  <2> QED
    BY <2>4, <2>5 DEF ClosedAnswer, g, h, s
<1> QED
  BY <1>2, <1>3, <1>4
-----------------------------------------------------------------------------
(* The kinds of steps.  Everything below distinguishes these and nothing   *)
(* else: a step that leaves the history alone, one that adds the user's    *)
(* words or an answer, and the steps of a batch.                           *)

\* Nothing the history depends on changes.
Idle == UNCHANGED <<pc, history, resp, i, iteration, result>>

\* Between batches the turn goes on, or ends, without a message.
GoesOn == /\ pc \in {"top", "pace", "open", "backoff", "stream"}
          /\ pc' \in {"pace", "open", "backoff", "stream"}
          /\ UNCHANGED <<history, i, iteration, result>>
          /\ \/ UNCHANGED resp /\ (pc' = "stream" => pc = "stream")
             \/ pc' = "stream" /\ resp' = EmptyAnswer
             \/ pc = "stream" /\ pc' = "stream" /\ resp'.calls = resp.calls
             \/ pc = "stream" /\ pc' = "stream" /\ \E sig \in Sigs :
                   resp'.calls = Append(resp.calls,
                                    [id |-> <<iteration, Len(resp.calls) + 1>>, sig |-> sig])

GivesUp == /\ pc \in {"top", "pace", "open", "backoff", "stream"} /\ pc' = "ended"
           /\ result' \in {"answer", "aborted", "failed"}
           /\ UNCHANGED <<history, i, iteration>>

\* The user's words.
Injects == /\ pc = "top" /\ pc' = "pace"
           /\ Old(history')
           /\ \A m \in (Len(history) + 1)..Len(history') : history'[m] = UserMessage
           /\ UNCHANGED <<resp, i, iteration, result>>

\* An answer that asks for tools, and one that ends the turn.
Answers == /\ pc = "stream" /\ pc' = "call" /\ resp.calls # <<>>
           /\ OneAnswer(history', FALSE) /\ i' = 1
           /\ UNCHANGED <<resp, iteration, result>>

LastAnswer ==
    /\ pc = "stream" /\ pc' = "ended"
    /\ \/ OneAnswer(history', FALSE) /\ resp.calls = <<>> /\ result' = "answer"
       \/ OneAnswer(history', TRUE) /\ result' = "aborted"
       \/ ClosedAnswer(history') /\ result' = "budget"
    /\ UNCHANGED <<resp, i, iteration>>

Outside == UNCHANGED <<hasRunner, starts, ends, last, lastFailure, futileRun>>
           /\ (Idle \/ GoesOn \/ GivesUp \/ Injects \/ Answers \/ LastAnswer)

\* The call at i gets past the checks in front of it, or already had.
Passes == \/ pc = "call" /\ ~Looping /\ last' = {Call.sig} /\ starts' = Append(starts, Call.id)
          \/ pc = "running" /\ UNCHANGED <<last, starts>>

Waits == /\ pc = "call" /\ pc' = "running" /\ Passes
         /\ UNCHANGED <<history, i, iteration, result, ends, lastFailure, futileRun>>

Refuses == /\ pc = "call" /\ pc' = "ended"
           /\ result' \in {"cap", "loop"}
           /\ AllReplies(history', "skipped", {})
           /\ UNCHANGED <<starts, ends, last, lastFailure, futileRun>>

\* How a runner's result is counted.
Counted(o, w) == \/ o = "ok" /\ futileRun' = 0 /\ lastFailure' = {}
                 \/ o = "error" /\ \E f : /\ w = {f} /\ lastFailure' = {f}
                                          /\ futileRun' = FutileAfter(f)

Replies(o, w) == /\ Passes /\ o \in {"ok", "error"}
                 /\ OneReply(history', o, w) /\ Advance
                 /\ ends' = Append(ends, Call.id)
                 /\ hasRunner => Counted(o, w) /\ futileRun' < MaxFutileAttempts
                 /\ UNCHANGED result

Quits(o, w) == /\ Passes /\ pc' = "ended"
               /\ \/ o = "error" /\ result' = "futile" /\ Counted(o, w)
                  \/ o = "cancelled" /\ result' = "aborted"
                  \/ o = "denied" /\ result' = "denied"
               /\ AllReplies(history', o, w)
               /\ ends' = Append(ends, Call.id)

InABatch == /\ InBatch /\ UNCHANGED <<hasRunner, resp>>
            /\ \/ Waits \/ Refuses
               \/ \E o \in Outcomes, w \in SUBSET Texts : Replies(o, w) \/ Quits(o, w)

\* A step of a batch is of one of its kinds.
LEMMA BatchKinds == ASSUME TypeInv, StartCall \/ ToolReturns
                    PROVE  InABatch
<1>1. InBatch /\ UNCHANGED <<hasRunner, resp>>
  BY DEF StartCall, ToolReturns, ToolSucceeds, ToolFails, ToolCancelled, ToolDenied, InBatch
<1>2. ASSUME NEW o \in Outcomes, NEW w \in SUBSET Texts
      PROVE  /\ history' = Append(history, ToolMessage(Call.id, o, w)) => OneReply(history', o, w)
             /\ history' = history \o NotExecuted(resp.calls, i)
                   => AllReplies(history', "skipped", {})
             /\ Close(o, w) => AllReplies(history', o, w)
  BY <1>1, ReplyShape DEF Close
<1>3. /\ {} \in SUBSET Texts /\ \A f \in Failures : {f} \in SUBSET Texts
      /\ {NoRunnerText(Call.sig)} \in SUBSET Texts
      /\ {"ok", "error", "cancelled", "denied"} \subseteq Outcomes
  BY <1>1, CallType DEF Texts, Outcomes
<1>4. CASE StartCall
  <2>1. CASE OverCap \/ Looping
    <3>1. Refuses
      BY <1>2, <1>3, <1>4, <2>1 DEF StartCall, Refuses, Finish, toolVars
    <3> QED
      BY <1>1, <3>1 DEF InABatch
  <2>2. CASE ~(OverCap \/ Looping)
    <3>1. Passes
      BY <1>4, <2>2 DEF StartCall, Passes
    <3>2. CASE ctxDone
      <4>1. Quits("cancelled", {})
        BY <1>2, <1>3, <1>4, <2>2, <3>1, <3>2 DEF StartCall, Quits, Finish
      <4> QED
        BY <1>1, <1>3, <4>1 DEF InABatch
    <3>3. CASE ~ctxDone /\ ~hasRunner
      <4>1. Replies("error", {NoRunnerText(Call.sig)})
        BY <1>2, <1>3, <1>4, <2>2, <3>1, <3>3 DEF StartCall, Replies
      <4> QED
        BY <1>1, <1>3, <4>1 DEF InABatch
    <3>4. CASE ~ctxDone /\ hasRunner
      <4>1. Waits
        BY <1>4, <2>2, <3>1, <3>4 DEF StartCall, Waits
      <4> QED
        BY <1>1, <4>1 DEF InABatch
    <3> QED
      BY <3>2, <3>3, <3>4
  <2> QED
    BY <2>1, <2>2
<1>5. CASE ToolSucceeds
  <2>1. Replies("ok", {})
    BY <1>2, <1>3, <1>5 DEF ToolSucceeds, Replies, Passes, Counted, MaxFutileAttempts
  <2> QED
    BY <1>1, <1>3, <2>1 DEF InABatch
<1>6. CASE ToolFails
  <2>1. PICK f \in Failures :
           /\ lastFailure' = {f} /\ futileRun' = FutileAfter(f)
           /\ \/ /\ Close("error", {f}) /\ Finish("futile")
              \/ /\ FutileAfter(f) < MaxFutileAttempts
                 /\ history' = Append(history, ToolMessage(Call.id, "error", {f}))
                 /\ Advance /\ UNCHANGED result
    BY <1>6 DEF ToolFails
  <2>2. Passes /\ ends' = Append(ends, Call.id) /\ Counted("error", {f})
    BY <1>6, <2>1 DEF ToolFails, Passes, Counted
  <2>3. Replies("error", {f}) \/ Quits("error", {f})
    BY <1>2, <1>3, <2>1, <2>2 DEF Replies, Quits, Finish
  <2> QED
    BY <1>1, <1>3, <2>3 DEF InABatch
<1>7. CASE ToolCancelled
  <2>1. Quits("cancelled", {})
    BY <1>2, <1>3, <1>7 DEF ToolCancelled, Quits, Passes, Finish, loopVars
  <2> QED
    BY <1>1, <1>3, <2>1 DEF InABatch
<1>8. CASE ToolDenied
  <2>1. Quits("denied", {})
    BY <1>2, <1>3, <1>8 DEF ToolDenied, Quits, Passes, Finish, loopVars
  <2> QED
    BY <1>1, <1>3, <2>1 DEF InABatch
<1> QED
  BY <1>4, <1>5, <1>6, <1>7, <1>8 DEF ToolReturns

\* So is a step outside of one.
LEMMA OutsideKinds ==
    ASSUME TypeInv, [Next]_vars, ~StartCall, ~ToolReturns
    PROVE  Outside
<1> USE DEF loopVars, toolVars, netVars, Finish
<1>1. CASE Cancel \/ Returned \/ UNCHANGED vars
  BY <1>1 DEF Cancel, Returned, vars, Outside, Idle
<1>2. CASE BeginIteration
  <2>1. ASSUME NEW k \in 0..MaxInjected, history' = history \o [j \in 1..k |-> UserMessage]
        PROVE  /\ Old(history')
               /\ \A m \in (Len(history) + 1)..Len(history') : history'[m] = UserMessage
    <3> DEFINE e == [j \in 1..k |-> UserMessage]
    <3>1. e \in Seq(Messages) /\ Len(e) = k /\ \A j \in 1..k : e[j] = UserMessage
      BY MessageTypes, FunctionIsSeq
    <3> HIDE DEF e
    <3>2. /\ Old(history \o e) /\ Len(history) \in Nat
          /\ Len(history \o e) = Len(history) + k
          /\ \A j \in 1..k : (history \o e)[Len(history) + j] = e[j]
      BY <3>1, ConcatOld
    <3>3. ASSUME NEW m \in (Len(history) + 1)..(Len(history) + k)
          PROVE  (history \o e)[m] = UserMessage
      <4>1. m - Len(history) \in 1..k /\ Len(history) + (m - Len(history)) = m
        BY <3>2
      <4> QED
        BY <3>1, <3>2, <4>1
    <3> QED
      BY <2>1, <3>2, <3>3 DEF e
  <2>2. GivesUp \/ Injects
    BY <1>2, <2>1 DEF BeginIteration, GivesUp, Injects
  <2> QED
    BY <1>2, <2>2 DEF BeginIteration, Outside
<1>3. CASE Pace
  BY <1>3 DEF Pace, Outside, GoesOn, GivesUp
<1>4. CASE Open
  BY <1>4 DEF Open, Outside, GoesOn, GivesUp
<1>5. CASE Backoff
  BY <1>5 DEF Backoff, Outside, GoesOn, GivesUp
<1>6. CASE StreamEvent
  <2>1. resp'.calls = resp.calls \/ \E sig \in Sigs :
           resp'.calls = Append(resp.calls,
                            [id |-> <<iteration, Len(resp.calls) + 1>>, sig |-> sig])
    BY <1>6 DEF StreamEvent, TypeInv, TypeOK
  <2>2. GoesOn
    BY <1>6, <2>1 DEF StreamEvent, GoesOn
  <2> QED
    BY <1>6, <2>2 DEF StreamEvent, Outside
<1>7. CASE StreamClosed
  <2>1. history \in Seq(Messages) /\ history \o <<>> = history
    BY ConcatEmptySeq DEF TypeInv, TypeOK
  <2>2. GivesUp \/ Answers \/ LastAnswer
    BY <1>7, <2>1, AnswerShape DEF StreamClosed, GivesUp, Answers, LastAnswer
  <2> QED
    BY <1>7, <2>2 DEF StreamClosed, Outside
<1> QED
  BY <1>1, <1>2, <1>3, <1>4, <1>5, <1>6, <1>7 DEF Next, Internal, External

\* Every step of the turn is of one of the kinds.
LEMMA StepKinds == ASSUME TypeInv, [Next]_vars PROVE Outside \/ InABatch
  BY BatchKinds, OutsideKinds
-----------------------------------------------------------------------------
(* Verdicts.  While the turn runs no call has been refused, cancelled or   *)
(* left out, so a refusal, a cancellation or a synthetic reply can only be *)
(* written by the step that ends the turn.                                 *)

Open3 == {"none", "ok", "error"}

VerdictInv ==
    /\ pc # "ended" => /\ result = "running"
                       /\ \A m \in DOMAIN history : history[m].outcome \in Open3
    /\ VerdictsFinal

\* The outcomes of the messages a step may add.
LEMMA OutcomesOf ==
    /\ UserMessage.outcome = "none" /\ UserMessage.role = "user"
    /\ \A calls : /\ AssistantMessage(calls, FALSE).outcome = "none"
                  /\ AssistantMessage(calls, FALSE).role = "assistant"
                  /\ AssistantMessage(calls, FALSE).calls = calls
                  /\ ~AssistantMessage(calls, FALSE).aborted
                  /\ AssistantMessage(calls, TRUE).outcome = "none"
                  /\ AssistantMessage(calls, TRUE).role = "assistant"
                  /\ AssistantMessage(calls, TRUE).calls = calls
                  /\ AssistantMessage(calls, TRUE).aborted
    /\ \A id, o, w : /\ ToolMessage(id, o, w).outcome = o /\ ToolMessage(id, o, w).role = "tool"
                     /\ ToolMessage(id, o, w).id = id /\ ToolMessage(id, o, w).why = w
  BY DEF UserMessage, AssistantMessage, ToolMessage

\* While no verdict is in the history there is nothing to require of it.
LEMMA NoVerdict == (\A m \in DOMAIN history : history[m].outcome \in Open3) => VerdictsFinal
  BY DEF VerdictsFinal, Open3

\* What is new behind the history.
LEMMA NewMessages ==
    ASSUME TypeInv
    PROVE  /\ Old(history) /\ Len(history) \in Nat
           /\ (Len(history) + 1)..Len(history) = {}
           /\ \A g : OneAnswer(g, FALSE) =>
                 /\ Old(g) /\ (Len(history) + 1)..Len(g) = {Len(history) + 1}
                 /\ g[Len(history) + 1] = AssistantMessage(resp.calls, FALSE)
           /\ \A g : OneAnswer(g, TRUE) =>
                 /\ Old(g) /\ (Len(history) + 1)..Len(g) = {Len(history) + 1}
                 /\ g[Len(history) + 1] = AssistantMessage(resp.calls, TRUE)
           /\ \A g, o, w : OneReply(g, o, w) =>
                 /\ Old(g) /\ (Len(history) + 1)..Len(g) = {Len(history) + 1}
                 /\ g[Len(history) + 1] = ToolMessage(Call.id, o, w)
<1>1. Old(history) /\ Len(history) \in Nat
  BY ConcatOld, EmptySeq
<1>2. \A n, k \in Nat : k = n + 1 => (n + 1)..k = {n + 1}
  OBVIOUS
<1>3. \A n \in Nat : (n + 1)..n = {}
  OBVIOUS
<1>4. ASSUME NEW g, Old(g), Len(g) = Len(history) + 1
      PROVE  (Len(history) + 1)..Len(g) = {Len(history) + 1}
  BY <1>1, <1>2, <1>4 DEF Old
<1> QED
  BY <1>1, <1>3, <1>4 DEF OneAnswer, OneReply

\* An answer is no verdict.
LEMMA AnswerOutcome ==
    ASSUME TypeInv, NEW g, OneAnswer(g, FALSE) \/ OneAnswer(g, TRUE)
    PROVE  Old(g) /\ \A m \in (Len(history) + 1)..Len(g) : g[m].outcome = "none"
<1>1. CASE OneAnswer(g, FALSE)
  <2>1. Old(g) /\ (Len(history) + 1)..Len(g) = {Len(history) + 1}
    BY <1>1, NewMessages
  <2>2. g[Len(history) + 1].outcome = "none"
    BY <1>1 DEF OneAnswer, AssistantMessage
  <2> QED
    BY <2>1, <2>2
<1>2. CASE OneAnswer(g, TRUE)
  <2>1. Old(g) /\ (Len(history) + 1)..Len(g) = {Len(history) + 1}
    BY <1>2, NewMessages
  <2>2. g[Len(history) + 1].outcome = "none"
    BY <1>2 DEF OneAnswer, AssistantMessage
  <2> QED
    BY <2>1, <2>2
<1> QED
  BY <1>1, <1>2

LEMMA VerdictInit == Init => VerdictInv
<1> SUFFICES ASSUME Init PROVE VerdictInv
  OBVIOUS
<1>1. result = "running" /\ DOMAIN history = {1} /\ history[1] = UserMessage
  BY DEF Init
<1> QED
  BY <1>1, OutcomesOf, NoVerdict DEF VerdictInv, Open3

LEMMA VerdictStep == TypeInv /\ VerdictInv /\ [Next]_vars => VerdictInv'
<1> SUFFICES ASSUME TypeInv, VerdictInv, [Next]_vars PROVE VerdictInv'
  OBVIOUS
<1> DEFINE n == Len(history)
           L == Len(history')
<1>0. n \in Nat
  BY LenProperties DEF TypeInv, TypeOK
<1>1. CASE Idle
  BY <1>1 DEF Idle, VerdictInv, VerdictsFinal
<1>2. CASE pc # "ended" /\ result' = result /\ Old(history')
           /\ \A m \in (n + 1)..L : history'[m].outcome \in Open3
  <2>1. \A m \in DOMAIN history' : history'[m].outcome \in Open3
    BY <1>0, <1>2 DEF VerdictInv, Old
  <2>2. result' = "running"
    BY <1>2 DEF VerdictInv
  <2> QED
    BY <2>1, <2>2 DEF VerdictInv, VerdictsFinal, Open3
<1>3. CASE pc # "ended" /\ pc' = "ended" /\ Old(history')
           /\ \A m \in (n + 1)..L : history'[m].outcome \in Open3
  <2>1. \A m \in DOMAIN history' : history'[m].outcome \in Open3
    BY <1>0, <1>3 DEF VerdictInv, Old
  <2> QED
    BY <1>3, <2>1 DEF VerdictInv, VerdictsFinal, Open3
\* The step that ends a turn early writes the verdict and what follows it.
<1>4. ASSUME NEW k \in (n + 1)..(L + 1), NEW o \in Outcomes,
             pc # "ended", pc' = "ended", Old(history'),
             \A m \in (n + 1)..(k - 1) : history'[m].outcome \in Open3,
             k <= L => history'[k].outcome = o,
             \A m \in (k + 1)..L : history'[m].outcome = "skipped",
             /\ result' \in Stops \cup {"aborted"}
             /\ o = "denied" => result' = "denied"
             /\ o = "cancelled" => result' = "aborted"
      PROVE  VerdictInv'
  <2>1. \A m \in 1..n : history'[m].outcome \in Open3
    BY <1>4 DEF VerdictInv, Old
  <2>2. L \in Nat /\ DOMAIN history' = 1..L
    BY <1>4 DEF Old
  <2>3. ASSUME NEW m \in DOMAIN history', history'[m].outcome \in {"denied", "cancelled", "skipped"}
        PROVE  /\ history'[m].outcome = "denied" => result' = "denied"
               /\ history'[m].outcome = "cancelled" => result' = "aborted"
               /\ result' \in Stops \cup {"aborted"}
               /\ \A j \in (m + 1)..L : history'[j].outcome = "skipped"
    <3>1. history'[m].outcome \notin Open3
      BY <2>3 DEF Open3
    <3>2. m \in k..L /\ k \in Nat
      BY <1>0, <1>4, <2>1, <2>2, <3>1
    <3>3. \A j \in (m + 1)..L : j \in (k + 1)..L
      BY <2>2, <3>2
    <3>4. m = k \/ m \in (k + 1)..L
      BY <3>2
    <3> QED
      BY <1>4, <3>2, <3>3, <3>4
  <2> QED
    BY <1>4, <2>3 DEF VerdictInv, VerdictsFinal
<1>5. CASE GoesOn \/ GivesUp
  <2>1. history' = history /\ pc # "ended"
    BY <1>5 DEF GoesOn, GivesUp
  <2>2. Old(history') /\ (n + 1)..L = {}
    BY <2>1, NewMessages
  <2>3. \A m \in (n + 1)..L : history'[m].outcome \in Open3
    BY <2>2
  <2>4. CASE GoesOn
    BY <1>2, <2>1, <2>2, <2>3, <2>4 DEF GoesOn
  <2>5. CASE GivesUp
    BY <1>3, <2>1, <2>2, <2>3, <2>5 DEF GivesUp
  <2> QED
    BY <1>5, <2>4, <2>5
<1>6. CASE Injects \/ Answers
  <2>1. CASE Injects
    BY <1>2, <2>1, OutcomesOf DEF Injects, Open3
  <2>2. CASE Answers
    <3>1. OneAnswer(history', FALSE) /\ pc # "ended" /\ result' = result
      BY <2>2 DEF Answers
    <3>2. Old(history') /\ \A m \in (n + 1)..L : history'[m].outcome \in Open3
      BY <3>1, AnswerOutcome DEF Open3
    <3> QED
      BY <1>2, <3>1, <3>2
  <2> QED
    BY <1>6, <2>1, <2>2
<1>7. CASE LastAnswer
  <2>1. CASE OneAnswer(history', FALSE) \/ OneAnswer(history', TRUE)
    <3>1. Old(history') /\ \A m \in (n + 1)..L : history'[m].outcome \in Open3
      BY <2>1, AnswerOutcome DEF Open3
    <3> QED
      BY <1>3, <1>7, <3>1 DEF LastAnswer
  <2>2. CASE ClosedAnswer(history') /\ result' = "budget"
    <3>1. /\ n + 2 \in (n + 1)..(L + 1) /\ n + 2 - 1 = n + 1
          /\ n + 2 <= L => n + 2 \in (n + 2)..L
          /\ \A m \in (n + 2 + 1)..L : m \in (n + 2)..L
      <4>1. L = n + 1 + Len(resp.calls) /\ Len(resp.calls) \in Nat
        BY <2>2, LenProperties DEF ClosedAnswer, TypeInv, TypeOK
      <4> DEFINE x == Len(resp.calls)
      <4>2. x \in Nat /\ n \in Nat /\ L = n + 1 + x
        BY <1>0, <4>1
      <4> HIDE DEF x, n, L
      <4> QED
        BY <4>2
    <3>2. \A m \in (n + 1)..(n + 1) : history'[m].outcome \in Open3
      <4>1. \A m \in (n + 1)..(n + 1) : m = n + 1
        BY <1>0
      <4>2. history'[n + 1] = AssistantMessage(resp.calls, FALSE)
        BY <2>2 DEF ClosedAnswer
      <4>3. history'[n + 1].outcome = "none"
        BY <4>2 DEF AssistantMessage
      <4> QED
        BY <4>1, <4>3 DEF Open3
    <3>3. "skipped" \in Outcomes /\ "budget" \in Stops
      BY DEF Outcomes, Stops
    <3>4. Old(history') /\ \A m \in (n + 2)..L : history'[m].outcome = "skipped"
      <4>1. \A m \in (n + 2)..L : history'[m] = ToolMessage(resp.calls[m - n - 1].id, "skipped", {})
        BY <2>2 DEF ClosedAnswer
      <4>2. Old(history')
        BY <2>2 DEF ClosedAnswer
      <4> QED
        BY <4>1, <4>2, OutcomesOf
    <3>5. pc # "ended" /\ pc' = "ended"
      BY <1>7 DEF LastAnswer
    <3> QED
      BY <1>4, <2>2, <3>1, <3>2, <3>3, <3>4, <3>5
  <2> QED
    BY <1>7, <2>1, <2>2 DEF LastAnswer
<1>8. CASE InABatch
  <2>1. pc # "ended"
    BY <1>8 DEF InABatch, InBatch
  <2>2. CASE Waits
    <3>1. history' = history
      BY <2>2 DEF Waits
    <3>2. Old(history') /\ (n + 1)..L = {}
      BY <3>1, NewMessages
    <3> QED
      BY <1>2, <2>1, <2>2, <3>2 DEF Waits
  <2>3. ASSUME NEW o \in Outcomes, NEW w \in SUBSET Texts, Replies(o, w)
        PROVE  VerdictInv'
    BY <1>2, <2>1, <2>3, NewMessages, OutcomesOf DEF Replies, Open3
  <2>4. ASSUME NEW o \in Outcomes, NEW w \in SUBSET Texts, AllReplies(history', o, w),
               pc' = "ended",
               /\ result' \in Stops \cup {"aborted"}
               /\ o = "denied" => result' = "denied"
               /\ o = "cancelled" => result' = "aborted"
        PROVE  VerdictInv'
    <3>1. /\ n + 1 \in (n + 1)..(L + 1) /\ (n + 1)..(n + 1 - 1) = {} /\ n + 1 + 1 = n + 2
      BY <1>0, <2>4 DEF AllReplies, Old
    <3>2. \A m \in (n + 2)..L : history'[m].outcome = "skipped"
      BY <2>4, OutcomesOf DEF AllReplies
    <3>3. history'[n + 1].outcome = o
      BY <2>4, OutcomesOf DEF AllReplies
    <3> QED
      BY <1>4, <2>1, <2>4, <3>1, <3>2, <3>3 DEF AllReplies
  <2>5. CASE Refuses
    BY <2>4, <2>5 DEF Refuses, Stops, Outcomes
  <2>6. ASSUME NEW o \in Outcomes, NEW w \in SUBSET Texts, Quits(o, w)
        PROVE  VerdictInv'
    BY <2>4, <2>6 DEF Quits, Stops
  <2> QED
    BY <1>8, <2>2, <2>3, <2>5, <2>6 DEF InABatch
<1> QED
  BY <1>1, <1>5, <1>6, <1>7, <1>8, StepKinds DEF Outside
\* Positions behind a history of length n, and the calls they reply to.
LEMMA Positions ==
    /\ \A n, x \in Nat : \A m \in (n + 2)..(n + 1 + x) : m - n - 1 \in 1..x
    /\ \A n, L \in Nat : \A m \in 1..L : m \in 1..n \/ m = n + 1 \/ m \in (n + 2)..L
    /\ \A n, x \in Nat : \A k \in 1..x : \A m \in (n + 2)..(n + x - k + 1) :
          k + m - n - 1 \in (k + 1)..x
  OBVIOUS

\* The messages that an answer adds, alone or with its synthetic replies.
LEMMA AnswerFacts ==
    ASSUME TypeInv, NEW g
    PROVE  /\ OneAnswer(g, FALSE) =>
                 /\ Old(g) /\ (Len(history) + 1)..Len(g) = {Len(history) + 1}
                 /\ g[Len(history) + 1].role = "assistant" /\ ~g[Len(history) + 1].aborted
                 /\ g[Len(history) + 1].calls = resp.calls
           /\ OneAnswer(g, TRUE) =>
                 /\ Old(g) /\ (Len(history) + 1)..Len(g) = {Len(history) + 1}
                 /\ g[Len(history) + 1].role = "assistant" /\ g[Len(history) + 1].aborted
                 /\ g[Len(history) + 1].calls = resp.calls
           /\ ClosedAnswer(g) =>
                 /\ Old(g) /\ Len(g) = Len(history) + 1 + Len(resp.calls)
                 /\ g[Len(history) + 1].role = "assistant" /\ ~g[Len(history) + 1].aborted
                 /\ g[Len(history) + 1].outcome = "none"
                 /\ g[Len(history) + 1].calls = resp.calls
                 /\ \A m \in (Len(history) + 2)..Len(g) :
                       /\ g[m].role = "tool" /\ g[m].outcome = "skipped"
                       /\ g[m].id = resp.calls[m - Len(history) - 1].id
<1>1. ASSUME OneAnswer(g, FALSE)
      PROVE  /\ Old(g) /\ (Len(history) + 1)..Len(g) = {Len(history) + 1}
             /\ g[Len(history) + 1].role = "assistant" /\ ~g[Len(history) + 1].aborted
             /\ g[Len(history) + 1].calls = resp.calls
  <2>1. Old(g) /\ (Len(history) + 1)..Len(g) = {Len(history) + 1}
    BY <1>1, NewMessages
  <2>2. /\ g[Len(history) + 1].role = "assistant" /\ ~g[Len(history) + 1].aborted
        /\ g[Len(history) + 1].calls = resp.calls
    BY <1>1 DEF OneAnswer, AssistantMessage
  <2> QED
    BY <2>1, <2>2
<1>2. ASSUME OneAnswer(g, TRUE)
      PROVE  /\ Old(g) /\ (Len(history) + 1)..Len(g) = {Len(history) + 1}
             /\ g[Len(history) + 1].role = "assistant" /\ g[Len(history) + 1].aborted
             /\ g[Len(history) + 1].calls = resp.calls
  <2>1. Old(g) /\ (Len(history) + 1)..Len(g) = {Len(history) + 1}
    BY <1>2, NewMessages
  <2>2. /\ g[Len(history) + 1].role = "assistant" /\ g[Len(history) + 1].aborted
        /\ g[Len(history) + 1].calls = resp.calls
    BY <1>2 DEF OneAnswer, AssistantMessage
  <2> QED
    BY <2>1, <2>2
<1>3. ASSUME ClosedAnswer(g)
      PROVE  /\ Old(g) /\ Len(g) = Len(history) + 1 + Len(resp.calls)
             /\ g[Len(history) + 1].role = "assistant" /\ ~g[Len(history) + 1].aborted
             /\ g[Len(history) + 1].outcome = "none"
             /\ g[Len(history) + 1].calls = resp.calls
             /\ \A m \in (Len(history) + 2)..Len(g) :
                   /\ g[m].role = "tool" /\ g[m].outcome = "skipped"
                   /\ g[m].id = resp.calls[m - Len(history) - 1].id
  <2>1. Old(g) /\ Len(g) = Len(history) + 1 + Len(resp.calls)
    BY <1>3 DEF ClosedAnswer
  <2>2. g[Len(history) + 1] = AssistantMessage(resp.calls, FALSE)
    BY <1>3 DEF ClosedAnswer
  <2>3. /\ g[Len(history) + 1].role = "assistant" /\ ~g[Len(history) + 1].aborted
        /\ g[Len(history) + 1].calls = resp.calls /\ g[Len(history) + 1].outcome = "none"
    BY <2>2 DEF AssistantMessage
  <2>4. \A m \in (Len(history) + 2)..Len(g) :
           g[m] = ToolMessage(resp.calls[m - Len(history) - 1].id, "skipped", {})
    BY <1>3 DEF ClosedAnswer
  <2>5. \A m \in (Len(history) + 2)..Len(g) :
           /\ g[m].role = "tool" /\ g[m].outcome = "skipped"
           /\ g[m].id = resp.calls[m - Len(history) - 1].id
    BY <2>4, OutcomesOf
  <2> QED
    BY <2>1, <2>3, <2>5
<1> QED
  BY <1>1, <1>2, <1>3

\* The replies that a batch adds, one or all of them.
LEMMA ReplyFacts ==
    ASSUME TypeInv, InBatch, NEW g, NEW o, NEW w
    PROVE  /\ Len(history) \in Nat /\ i \in 1..Len(resp.calls) /\ Len(resp.calls) \in Nat
           /\ OneReply(g, o, w) =>
                 /\ Old(g) /\ (Len(history) + 1)..Len(g) = {Len(history) + 1}
                 /\ g[Len(history) + 1].role = "tool" /\ g[Len(history) + 1].id = Call.id
                 /\ g[Len(history) + 1].outcome = o /\ g[Len(history) + 1].why = w
           /\ AllReplies(g, o, w) =>
                 /\ Old(g) /\ Len(g) = Len(history) + Len(resp.calls) - i + 1
                 /\ g[Len(history) + 1].role = "tool" /\ g[Len(history) + 1].id = Call.id
                 /\ g[Len(history) + 1].outcome = o /\ g[Len(history) + 1].why = w
                 /\ \A m \in (Len(history) + 2)..Len(g) :
                       /\ g[m].role = "tool" /\ g[m].outcome = "skipped"
                       /\ g[m].id = resp.calls[i + m - Len(history) - 1].id
<1>1. Len(history) \in Nat /\ i \in 1..Len(resp.calls) /\ Len(resp.calls) \in Nat
  BY NewMessages, CallType
<1>2. OneReply(g, o, w) =>
         /\ Old(g) /\ (Len(history) + 1)..Len(g) = {Len(history) + 1}
         /\ g[Len(history) + 1].role = "tool" /\ g[Len(history) + 1].id = Call.id
         /\ g[Len(history) + 1].outcome = o /\ g[Len(history) + 1].why = w
  BY NewMessages, OutcomesOf
<1>3. AllReplies(g, o, w) =>
         /\ Old(g) /\ Len(g) = Len(history) + Len(resp.calls) - i + 1
         /\ g[Len(history) + 1].role = "tool" /\ g[Len(history) + 1].id = Call.id
         /\ g[Len(history) + 1].outcome = o /\ g[Len(history) + 1].why = w
         /\ \A m \in (Len(history) + 2)..Len(g) :
               /\ g[m].role = "tool" /\ g[m].outcome = "skipped"
               /\ g[m].id = resp.calls[i + m - Len(history) - 1].id
  BY OutcomesOf DEF AllReplies
<1> QED
  BY <1>1, <1>2, <1>3

-----------------------------------------------------------------------------
(* Events.  A call is named after its iteration and its place in the       *)
(* answer, and the calls that have ended all lie before the current one.   *)

Past(id) == id[1] < iteration \/ (InBatch /\ id[1] = iteration /\ id[2] < i)

EndedIn(s, id) == \E j \in DOMAIN s : s[j] = id

Distinct(s) == \A j, k \in DOMAIN s : s[j] = s[k] => j = k

Told == \A m \in DOMAIN history : history[m].role = "tool" =>
           (history[m].outcome # "skipped" <=> EndedIn(ends, history[m].id))

Named == pc \in {"stream", "call", "running"} =>
            \A k \in 1..Len(resp.calls) : resp.calls[k].id = <<iteration, k>>

EventInv ==
    /\ Named
    /\ starts = IF pc = "running" THEN Append(ends, Call.id) ELSE ends
    /\ pc # "ended" => \A j \in DOMAIN ends : Past(ends[j])
    /\ Distinct(ends)
    /\ Told

\* A new name at the end of names that differ.
LEMMA AppendDistinct ==
    ASSUME NEW s \in Seq(Ids), NEW x \in Ids
    PROVE  /\ Distinct(s) /\ ~EndedIn(s, x) => Distinct(Append(s, x))
           /\ \A y : EndedIn(Append(s, x), y) <=> EndedIn(s, y) \/ y = x
<1>1. /\ Len(s) \in Nat /\ DOMAIN s = 1..Len(s) /\ DOMAIN Append(s, x) = 1..(Len(s) + 1)
      /\ \A j \in 1..Len(s) : Append(s, x)[j] = s[j]
      /\ Append(s, x)[Len(s) + 1] = x
  BY AppendProperties, LenProperties
<1>2. \A j \in DOMAIN Append(s, x) : j \in DOMAIN s \/ j = Len(s) + 1
  BY <1>1
<1>3. \A j \in DOMAIN s : j \in DOMAIN Append(s, x) /\ Append(s, x)[j] = s[j]
  BY <1>1
<1>4. Len(s) + 1 \in DOMAIN Append(s, x)
  BY <1>1
<1> QED
  BY <1>1, <1>2, <1>3, <1>4 DEF Distinct, EndedIn

\* What the run checks follows: the call in progress is not past.
LEMMA EventsPairedHolds == TypeInv /\ EventInv => EventsPaired
<1> SUFFICES ASSUME TypeInv, EventInv PROVE EventsPaired
  OBVIOUS
<1>1. Distinct(starts)
  <2>1. CASE pc = "running"
    <3>1. Call.id = <<iteration, i>> /\ Call.id \in Ids /\ i \in Nat /\ iteration \in Nat
      BY <2>1, CallType DEF InBatch, EventInv, Named, Call, TypeInv, TypeOK
    <3>2. ~Past(Call.id)
      BY <3>1 DEF Past
    <3>3. ~EndedIn(ends, Call.id)
      BY <2>1, <3>2 DEF EndedIn, EventInv
    <3>4. ends \in Seq(Ids)
      BY DEF TypeInv, TypeOK
    <3> QED
      BY <2>1, <3>1, <3>3, <3>4, AppendDistinct DEF EventInv
  <2> QED
    BY <2>1 DEF EventInv
<1>2. starts = IF pc = "running" THEN Append(ends, Call.id) ELSE ends
  BY DEF EventInv
<1>3. Told
  BY DEF EventInv
<1> QED
  BY <1>1, <1>2, <1>3 DEF EventsPaired, Distinct, Told, EndedIn

LEMMA EventInit == Init => EventInv
<1> SUFFICES ASSUME Init PROVE EventInv
  OBVIOUS
<1>1. DOMAIN history = {1} /\ history[1].role = "user" /\ DOMAIN ends = {}
      /\ starts = ends /\ pc = "top"
  BY OutcomesOf DEF Init
<1> QED
  BY <1>1 DEF EventInv, Named, Told, Distinct

\* A step outside a batch calls nothing; the calls a spent budget leaves out
\* are all new.
LEMMA EventOutside == TypeInv /\ EventInv /\ Outside => EventInv'
<1> SUFFICES ASSUME TypeInv, EventInv, Outside PROVE EventInv'
  OBVIOUS
<1> DEFINE n == Len(history)
<1>0. ends' = ends /\ starts' = starts /\ n \in Nat /\ iteration \in Nat /\ ends \in Seq(Ids)
  BY NewMessages DEF Outside, TypeInv, TypeOK
<1>1. CASE Idle
  BY <1>0, <1>1 DEF Idle, EventInv, Named, Told, Distinct, EndedIn, Past, InBatch, Call
<1>2. CASE ~Idle
  <2>1. ~InBatch /\ pc # "ended" /\ pc' # "running" /\ iteration' = iteration
    BY <1>2 DEF Outside, GoesOn, GivesUp, Injects, Answers, LastAnswer, InBatch
  <2>2. \A j \in DOMAIN ends : ends[j][1] < iteration
    BY <2>1 DEF EventInv, Past
  <2>3. starts' = IF pc' = "running" THEN Append(ends', Call'.id) ELSE ends'
    BY <1>0, <2>1 DEF EventInv, InBatch
  <2>4. \A j \in DOMAIN ends' : Past(ends[j])'
    BY <1>0, <2>1, <2>2 DEF Past
  <2>5. Distinct(ends')
    BY <1>0 DEF EventInv
  <2>6. Named'
    <3>1. CASE GoesOn
      <4>1. CASE resp' = EmptyAnswer
        <5>1. Len(resp'.calls) = 0
          BY <4>1, EmptySeq DEF EmptyAnswer
        <5> QED
          BY <5>1 DEF Named
      <4>2. CASE pc = "stream" /\ \E sig \in Sigs :
                    resp'.calls = Append(resp.calls,
                                     [id |-> <<iteration, Len(resp.calls) + 1>>, sig |-> sig])
        <5>1. PICK sig \in Sigs :
                 resp'.calls = Append(resp.calls,
                                  [id |-> <<iteration, Len(resp.calls) + 1>>, sig |-> sig])
          BY <4>2
        <5>2. resp.calls \in Seq(Calls) /\ Len(resp.calls) \in Nat
          BY LenProperties DEF TypeInv, TypeOK
        <5> DEFINE x == [id |-> <<iteration, Len(resp.calls) + 1>>, sig |-> sig]
        <5>3. x \in Calls /\ x.id = <<iteration, Len(resp.calls) + 1>>
          BY <1>0, <5>2 DEF Calls, Ids
        <5> HIDE DEF x
        <5>4. /\ Len(resp'.calls) = Len(resp.calls) + 1
              /\ \A k \in 1..Len(resp.calls) : resp'.calls[k] = resp.calls[k]
              /\ resp'.calls[Len(resp.calls) + 1] = x
          BY <5>1, <5>2, <5>3, AppendProperties DEF x
        <5>5. \A k \in 1..Len(resp.calls) : resp.calls[k].id = <<iteration, k>>
          BY <4>2 DEF EventInv, Named
        <5>6. \A k \in 1..Len(resp'.calls) : k \in 1..Len(resp.calls) \/ k = Len(resp.calls) + 1
          BY <5>2, <5>4
        <5> QED
          BY <2>1, <5>3, <5>4, <5>5, <5>6 DEF Named
      <4>3. CASE resp'.calls = resp.calls /\ (pc' = "stream" => pc = "stream")
        BY <2>1, <3>1, <4>3 DEF GoesOn, EventInv, Named
      <4> QED
        BY <3>1, <4>1, <4>2, <4>3 DEF GoesOn
    <3>2. CASE pc' \notin {"stream", "call", "running"}
      BY <3>2 DEF Named
    <3>3. CASE Answers
      BY <2>1, <3>3 DEF Answers, EventInv, Named
    <3> QED
      BY <1>2, <3>1, <3>2, <3>3 DEF Outside, GivesUp, Injects, LastAnswer
  <2>7. Told'
    <3>1. CASE Old(history') /\ \A m \in (n + 1)..Len(history') : history'[m].role # "tool"
      BY <1>0, <3>1 DEF Old, EventInv, Told
    <3>2. CASE history' = history
      BY <1>0, <3>2 DEF EventInv, Told
    <3>3. CASE OneAnswer(history', FALSE) \/ OneAnswer(history', TRUE)
      BY <3>1, <3>3, AnswerFacts
    <3>4. CASE ClosedAnswer(history') /\ pc = "stream"
      <4>1. /\ Old(history') /\ history'[n + 1].role = "assistant"
            /\ Len(history') = n + 1 + Len(resp.calls)
            /\ \A m \in (n + 2)..Len(history') :
                  /\ history'[m].outcome = "skipped"
                  /\ history'[m].id = resp.calls[m - n - 1].id
        BY <3>4, AnswerFacts
      <4>2. \A k \in 1..Len(resp.calls) : resp.calls[k].id = <<iteration, k>>
        BY <3>4 DEF EventInv, Named
      <4>3. Len(resp.calls) \in Nat
        BY LenProperties DEF TypeInv, TypeOK
      <4>4. ASSUME NEW m \in (n + 2)..Len(history')
            PROVE  ~EndedIn(ends, history'[m].id)
        <5>1. m - n - 1 \in 1..Len(resp.calls)
          BY <1>0, <4>1, <4>3, Positions
        <5>2. history'[m].id = <<iteration, m - n - 1>>
          BY <4>1, <4>2, <5>1
        <5>3. history'[m].id[1] = iteration
          BY <5>2
        <5> QED
          BY <1>0, <2>2, <5>3 DEF EndedIn
      <4>5. \A m \in DOMAIN history' :
               m \in DOMAIN history \/ m = n + 1 \/ m \in (n + 2)..Len(history')
        BY <1>0, <4>1, Positions DEF Old
      <4>6. \A m \in DOMAIN history : history'[m] = history[m]
        BY <4>1 DEF Old
      <4> QED
        BY <1>0, <4>1, <4>4, <4>5, <4>6 DEF EventInv, Told
    <3>5. CASE Injects
      BY <3>1, <3>5, OutcomesOf DEF Injects
    <3> QED
      BY <1>2, <3>2, <3>3, <3>4, <3>5 DEF Outside, GoesOn, GivesUp, Answers, LastAnswer
  <2> QED
    BY <1>0, <2>3, <2>4, <2>5, <2>6, <2>7 DEF EventInv
<1> QED
  BY <1>1, <1>2
\* A step of a batch tells of its call and leaves out only calls behind it.
LEMMA EventBatch == TypeInv /\ VerdictInv /\ EventInv /\ InABatch => EventInv'
<1> SUFFICES ASSUME TypeInv, VerdictInv, EventInv, InABatch PROVE EventInv'
  OBVIOUS
<1> DEFINE n == Len(history)
<1>0. /\ n \in Nat /\ iteration \in Nat /\ ends \in Seq(Ids) /\ Call.id \in Ids
      /\ i \in 1..Len(resp.calls) /\ Len(resp.calls) \in Nat
      /\ DOMAIN history = 1..n
  <2>1. InBatch
    BY DEF InABatch
  <2> QED
    BY <2>1, NewMessages, CallType DEF TypeInv, TypeOK, Old
<1>1. /\ resp' = resp /\ InBatch /\ pc # "ended"
      /\ \A k \in 1..Len(resp.calls) : resp.calls[k].id = <<iteration, k>>
      /\ Call.id = <<iteration, i>>
  BY <1>0 DEF InABatch, InBatch, EventInv, Named, Call
<1>2. \A j \in DOMAIN ends : ends[j] \in Ids /\ Past(ends[j])
  BY <1>0, <1>1, ElementOfSeq, LenProperties DEF EventInv
<1>3. \A k \in i..Len(resp.calls) : ~EndedIn(ends, resp.calls[k].id)
  <2>1. \A k \in i..Len(resp.calls) : resp.calls[k].id = <<iteration, k>>
    BY <1>0, <1>1
  <2> SUFFICES ASSUME NEW k \in i..Len(resp.calls), NEW j \in DOMAIN ends,
                      ends[j] = <<iteration, k>>
               PROVE  FALSE
    BY <2>1 DEF EndedIn
  <2> QED
    BY <1>0, <1>2 DEF Past
<1>4. ~EndedIn(ends, Call.id)
  BY <1>0, <1>3 DEF Call
<1>5. \A m \in DOMAIN history : history[m].role = "tool" => EndedIn(ends, history[m].id)
  BY <1>1 DEF VerdictInv, Open3, EventInv, Told
<1>6. /\ Distinct(Append(ends, Call.id))
      /\ \A y : EndedIn(Append(ends, Call.id), y) <=> EndedIn(ends, y) \/ y = Call.id
  BY <1>0, <1>4, AppendDistinct DEF EventInv
<1>7. CASE Waits
  BY <1>0, <1>1, <1>7
     DEF Waits, Passes, EventInv, Named, Told, Distinct, EndedIn, Past, InBatch, Call
<1>8. ASSUME NEW o, NEW w, AllReplies(history', o, w),
             \A y : EndedIn(ends, y) => EndedIn(ends', y),
             o # "skipped" <=> EndedIn(ends', Call.id),
             \A k \in (i + 1)..Len(resp.calls) : ~EndedIn(ends', resp.calls[k].id)
      PROVE  Told'
  <2>1. /\ Old(history') /\ Len(history') = n + Len(resp.calls) - i + 1
        /\ history'[n + 1].id = Call.id /\ history'[n + 1].outcome = o
        /\ \A m \in (n + 2)..Len(history') :
              history'[m].outcome = "skipped" /\ history'[m].id = resp.calls[i + m - n - 1].id
    BY <1>1, <1>8, ReplyFacts
  <2>2. ASSUME NEW m \in (n + 2)..Len(history') PROVE ~EndedIn(ends', history'[m].id)
    <3>1. i + m - n - 1 \in (i + 1)..Len(resp.calls)
      BY <1>0, <2>1, Positions
    <3> QED
      BY <1>8, <2>1, <3>1
  <2>3. \A m \in DOMAIN history' :
           m \in DOMAIN history \/ m = n + 1 \/ m \in (n + 2)..Len(history')
    BY <1>0, <2>1, Positions DEF Old
  <2>4. \A m \in DOMAIN history : /\ history'[m] = history[m]
                                  /\ history[m].outcome # "skipped"
    BY <1>1, <2>1 DEF Old, VerdictInv, Open3
  <2> QED
    BY <1>5, <1>8, <2>1, <2>2, <2>3, <2>4 DEF Told
<1>9. CASE Refuses
  <2>1. /\ ends' = ends /\ starts' = ends /\ pc' = "ended"
        /\ AllReplies(history', "skipped", {})
    BY <1>9 DEF Refuses, EventInv
  <2>2. Told'
    <3>1. \A k \in (i + 1)..Len(resp.calls) : k \in i..Len(resp.calls)
      BY <1>0
    <3> QED
      BY <1>3, <1>4, <1>8, <2>1, <3>1
  <2> QED
    BY <2>1, <2>2 DEF EventInv, Named, Distinct
<1>10. ASSUME NEW o, NEW w, Passes, ends' = Append(ends, Call.id)
       PROVE  /\ starts' = ends' /\ Distinct(ends')
              /\ \A y : EndedIn(ends, y) => EndedIn(ends', y)
              /\ EndedIn(ends', Call.id)
              /\ \A k \in (i + 1)..Len(resp.calls) : ~EndedIn(ends', resp.calls[k].id)
  <2>1. starts' = ends'
    BY <1>10 DEF Passes, EventInv
  <2>2. ASSUME NEW k \in (i + 1)..Len(resp.calls) PROVE ~EndedIn(ends', resp.calls[k].id)
    <3>1. k \in i..Len(resp.calls) /\ k # i /\ k \in 1..Len(resp.calls)
      BY <1>0
    <3>2. resp.calls[k].id # Call.id
      BY <1>1, <3>1
    <3> QED
      BY <1>3, <1>6, <1>10, <3>1, <3>2
  <2> QED
    BY <1>6, <1>10, <2>1, <2>2
<1>11. ASSUME NEW o \in Outcomes, NEW w \in SUBSET Texts, Quits(o, w)
       PROVE  EventInv'
  <2>1. /\ Passes /\ ends' = Append(ends, Call.id) /\ pc' = "ended" /\ o # "skipped"
        /\ AllReplies(history', o, w)
    BY <1>11 DEF Quits
  <2>2. Told'
    BY <1>8, <1>10, <2>1
  <2> QED
    BY <1>10, <2>1, <2>2 DEF EventInv, Named, Distinct
<1>12. ASSUME NEW o \in Outcomes, NEW w \in SUBSET Texts, Replies(o, w)
       PROVE  EventInv'
  <2>1. /\ Passes /\ ends' = Append(ends, Call.id) /\ o # "skipped" /\ Advance
        /\ OneReply(history', o, w)
    BY <1>12 DEF Replies
  <2>2. pc' # "running" /\ (pc' = "call" => iteration' = iteration)
        /\ \/ pc' = "call" /\ i' = i + 1 /\ iteration' = iteration
           \/ iteration' = iteration + 1
    BY <2>1 DEF Advance
  <2>3. Named'
    BY <1>1, <2>1, <2>2 DEF Named, Advance
  <2>4. \A id \in Ids : Past(id) \/ id = <<iteration, i>> => Past(id)'
    BY <1>0, <2>2 DEF Past, InBatch, Ids
  <2>5. \A j \in DOMAIN ends' : Past(ends[j])'
    <3>1. ASSUME NEW j \in DOMAIN ends' PROVE EndedIn(ends', ends'[j])
      BY DEF EndedIn
    <3>2. ASSUME NEW j \in DOMAIN ends' PROVE EndedIn(ends, ends'[j]) \/ ends'[j] = Call.id
      BY <1>6, <2>1, <3>1
    <3> QED
      BY <1>0, <1>1, <1>2, <2>4, <3>2 DEF EndedIn
  <2>6. Told'
    <3>1. /\ Old(history') /\ (n + 1)..Len(history') = {n + 1}
          /\ history'[n + 1].id = Call.id /\ history'[n + 1].outcome = o
      BY <1>1, <2>1, ReplyFacts
    <3>2. \A m \in DOMAIN history' : m \in DOMAIN history \/ m \in (n + 1)..Len(history')
      BY <1>0, <3>1 DEF Old
    <3>3. \A m \in DOMAIN history : /\ history'[m] = history[m]
                                    /\ history[m].outcome # "skipped"
      BY <1>1, <3>1 DEF Old, VerdictInv, Open3
    <3> QED
      BY <1>5, <1>10, <2>1, <3>1, <3>2, <3>3 DEF Told
  <2> QED
    BY <1>10, <2>1, <2>2, <2>3, <2>5, <2>6 DEF EventInv
<1> QED
  BY <1>7, <1>9, <1>11, <1>12 DEF InABatch

LEMMA EventStep == TypeInv /\ VerdictInv /\ EventInv /\ [Next]_vars => EventInv'
  BY EventOutside, EventBatch, StepKinds
-----------------------------------------------------------------------------
(* Futility.  The counter says how many of the latest results are the same *)
(* failure: one when the latest is a failure, two when it repeats the one  *)
(* before it.  A third ends the turn.                                      *)

Latest(m) == \A n \in Executed : n <= m

ThreeAlike(a, b, c) == /\ InRow(a, b) /\ InRow(b, c)
                       /\ SameFailure(a, b) /\ SameFailure(b, c)

NeverThree == \A a, b, c \in Executed : ~ThreeAlike(a, b, c)

Counter ==
    /\ \A m \in Executed : Latest(m) /\ history[m].outcome = "error"
          => lastFailure = history[m].why /\ futileRun >= 1
    /\ \A l, m \in Executed : InRow(l, m) /\ Latest(m) /\ SameFailure(l, m) => futileRun >= 2

FutileInv == /\ hasRunner /\ pc # "ended" => Counter /\ NeverThree
             /\ FutilityStops

\* Messages that are no results leave the rows of results as they are.
LEMMA ResultsSame ==
    ASSUME TypeInv, Old(history'),
           \A m \in (Len(history) + 1)..Len(history') : history'[m].outcome \notin {"ok", "error"}
    PROVE  /\ Executed' = Executed
           /\ \A m \in Executed : history'[m] = history[m] /\ Latest(m)' = Latest(m)
           /\ \A j, k \in Executed : InRow(j, k)' <=> InRow(j, k)
           /\ \A j, k \in Executed : SameFailure(j, k)' <=> SameFailure(j, k)
<1>1. \A m \in DOMAIN history' :
         m \in DOMAIN history \/ m \in (Len(history) + 1)..Len(history')
  BY NewMessages DEF Old
<1>2. \A m \in DOMAIN history : m \in DOMAIN history' /\ history'[m] = history[m]
  BY NewMessages DEF Old
<1>3. Executed' = Executed
  BY <1>1, <1>2 DEF Executed
<1>4. \A m \in Executed : history'[m] = history[m]
  BY <1>2 DEF Executed
<1> QED
  BY <1>3, <1>4 DEF Latest, InRow, SameFailure

\* One result at the end comes after the one that was the latest.
LEMMA ResultsOne ==
    ASSUME TypeInv, NEW N, N = Len(history) + 1, Old(history'), Len(history') >= N,
           history'[N].outcome \in {"ok", "error"},
           \A m \in (Len(history) + 2)..Len(history') : history'[m].outcome \notin {"ok", "error"}
    PROVE  /\ Executed' = Executed \cup {N}
           /\ \A m \in Executed : m < N /\ history'[m] = history[m]
           /\ \A j, k \in Executed : InRow(j, k)' <=> InRow(j, k)
           /\ \A j, k \in Executed : SameFailure(j, k)' <=> SameFailure(j, k)
           /\ \A j \in Executed : InRow(j, N)' => Latest(j)
           /\ \A k \in Executed' : ~InRow(N, k)'
<1>0. Len(history) \in Nat /\ N \in Nat /\ DOMAIN history = 1..Len(history)
      /\ DOMAIN history' = 1..Len(history') /\ Len(history') \in Nat
  BY NewMessages DEF Old
<1>1. \A m \in DOMAIN history' :
         m \in DOMAIN history \/ m = N \/ m \in (Len(history) + 2)..Len(history')
  BY <1>0, Positions
<1>2. \A m \in DOMAIN history : m \in DOMAIN history' /\ history'[m] = history[m] /\ m < N
  BY <1>0 DEF Old
<1>3. N \in DOMAIN history'
  BY <1>0
<1>4. Executed' = Executed \cup {N}
  BY <1>1, <1>2, <1>3 DEF Executed
<1>5. \A m \in Executed : m \in Nat /\ m < N /\ history'[m] = history[m]
  BY <1>0, <1>2 DEF Executed
<1>6. ASSUME NEW j \in Executed, NEW k \in Executed
      PROVE  /\ InRow(j, k)' <=> InRow(j, k)
             /\ SameFailure(j, k)' <=> SameFailure(j, k)
  <2>1. N \notin (j + 1)..(k - 1)
    BY <1>0, <1>5
  <2> QED
    BY <1>4, <1>5, <2>1 DEF InRow, SameFailure
<1>7. ASSUME NEW j \in Executed, InRow(j, N)'
      PROVE  Latest(j)
  <2> SUFFICES ASSUME NEW m \in Executed, ~(m <= j) PROVE FALSE
    BY DEF Latest
  <2>1. m \in (j + 1)..(N - 1)
    BY <1>0, <1>5
  <2>2. m \in Executed'
    BY <1>4
  <2> QED
    BY <1>7, <2>1, <2>2 DEF InRow
<1>8. ASSUME NEW k \in Executed', InRow(N, k)' PROVE FALSE
  <2>1. N < k
    BY <1>8 DEF InRow
  <2>2. k = N \/ k < N
    BY <1>4, <1>5
  <2> QED
    BY <1>0, <1>4, <1>5, <2>1, <2>2
<1> QED
  BY <1>4, <1>5, <1>6, <1>7, <1>8

LEMMA FutileInit == Init => FutileInv
<1> SUFFICES ASSUME Init PROVE FutileInv
  OBVIOUS
<1>1. Executed = {}
  BY OutcomesOf DEF Init, Executed
<1> QED
  BY <1>1 DEF FutileInv, Counter, NeverThree, FutilityStops

\* A step without a result neither counts nor makes a row longer.
LEMMA FutileNone ==
    ASSUME TypeInv, FutileInv, pc # "ended", hasRunner' = hasRunner, Old(history'),
           \A m \in (Len(history) + 1)..Len(history') : history'[m].outcome \notin {"ok", "error"},
           pc' # "ended" => UNCHANGED <<lastFailure, futileRun>>
    PROVE  FutileInv'
<1> SUFFICES ASSUME hasRunner PROVE FutileInv'
  BY DEF FutileInv, FutilityStops
<1>1. Counter /\ NeverThree
  BY DEF FutileInv
<1>2. NeverThree'
  BY <1>1, ResultsSame DEF NeverThree, ThreeAlike
<1>3. pc' # "ended" => Counter'
  BY <1>1, ResultsSame DEF Counter
<1>4. FutilityStops'
  BY <1>2 DEF NeverThree, ThreeAlike, FutilityStops
<1> QED
  BY <1>2, <1>3, <1>4 DEF FutileInv

\* A result that lets the turn go on has been counted, and is no third.
LEMMA FutileGoesOn ==
    ASSUME TypeInv, FutileInv, InBatch, NEW o, NEW w, Replies(o, w), hasRunner' = hasRunner
    PROVE  FutileInv'
<1> SUFFICES ASSUME hasRunner PROVE FutileInv'
  BY DEF FutileInv, FutilityStops
<1>0. PICK N : N = Len(history) + 1
  OBVIOUS
<1>1. Counter /\ NeverThree /\ futileRun \in Nat /\ N \in Nat
  BY <1>0, NewMessages DEF FutileInv, InBatch, TypeInv, TypeOK
<1>2. Counted(o, w) /\ futileRun' < 3 /\ OneReply(history', o, w)
  BY DEF Replies, MaxFutileAttempts
<1>3. /\ Old(history') /\ Len(history') >= N
      /\ history'[N].outcome = o /\ history'[N].why = w
      /\ \A m \in (Len(history) + 2)..Len(history') : history'[m].outcome \notin {"ok", "error"}
  <2>1. Old(history') /\ Len(history') = N
    BY <1>0, <1>2 DEF OneReply
  <2>2. \A m \in (Len(history) + 2)..Len(history') : FALSE
    BY <1>0, <1>1, <2>1, NewMessages
  <2>3. history'[N].outcome = o /\ history'[N].why = w
    BY <1>0, <1>2, ReplyFacts
  <2> QED
    BY <1>1, <2>1, <2>2, <2>3
<1>4. o \in {"ok", "error"}
  BY DEF Replies
<1>5. /\ Executed' = Executed \cup {N}
      /\ \A m \in Executed : m < N /\ history'[m] = history[m]
      /\ \A j, k \in Executed : InRow(j, k)' <=> InRow(j, k)
      /\ \A j, k \in Executed : SameFailure(j, k)' <=> SameFailure(j, k)
      /\ \A j \in Executed : InRow(j, N)' => Latest(j)
      /\ \A k \in Executed' : ~InRow(N, k)'
  BY <1>0, <1>3, <1>4, ResultsOne
<1>6. \A m \in Executed' : Latest(m)' => m = N
  <2> SUFFICES ASSUME NEW m \in Executed, Latest(m)' PROVE FALSE
    BY <1>5
  <2>1. N <= m /\ m < N
    BY <1>5 DEF Latest
  <2>2. m \in Nat
    BY NewMessages DEF Executed, Old
  <2> QED
    BY <1>1, <2>1, <2>2
\* The one before it is the same failure: the counter goes from one to two.
<1>7. ASSUME NEW b \in Executed, InRow(b, N)', SameFailure(b, N)'
      PROVE  /\ Latest(b) /\ history[b].outcome = "error"
             /\ futileRun' = futileRun + 1 /\ futileRun >= 1
  <2>1. Latest(b)
    BY <1>5, <1>7
  <2>2. history[b].outcome = "error" /\ history[b].why = w /\ o = "error"
    BY <1>3, <1>5, <1>7 DEF SameFailure
  <2>3. lastFailure = w /\ futileRun >= 1
    BY <1>1, <2>1, <2>2 DEF Counter
  <2>4. PICK f : w = {f} /\ futileRun' = FutileAfter(f)
    BY <1>2, <2>2 DEF Counted
  <2> QED
    BY <2>1, <2>2, <2>3, <2>4 DEF FutileAfter
<1>8. Counter'
  <2>1. ASSUME NEW m \in Executed', Latest(m)', history'[m].outcome = "error"
        PROVE  lastFailure' = history'[m].why /\ futileRun' >= 1
    <3>1. m = N /\ o = "error"
      BY <1>3, <1>6, <2>1
    <3>2. PICK f : w = {f} /\ lastFailure' = {f} /\ futileRun' = FutileAfter(f)
      BY <1>2, <3>1 DEF Counted
    <3>3. FutileAfter(f) >= 1
      BY <1>1 DEF FutileAfter
    <3> QED
      BY <1>3, <3>1, <3>2, <3>3
  <2>2. ASSUME NEW l \in Executed', NEW m \in Executed', InRow(l, m)', Latest(m)',
               SameFailure(l, m)'
        PROVE  futileRun' >= 2
    <3>1. m = N /\ l \in Executed
      BY <1>5, <1>6, <2>2
    <3>2. futileRun' = futileRun + 1 /\ futileRun >= 1
      BY <1>7, <2>2, <3>1
    <3>3. futileRun \in Nat
      BY <1>1
    <3> QED
      BY <3>2, <3>3
  <2> QED
    BY <2>1, <2>2 DEF Counter
<1>9. NeverThree'
  <2> SUFFICES ASSUME NEW a \in Executed', NEW b \in Executed', NEW c \in Executed',
                      ThreeAlike(a, b, c)'
               PROVE  FALSE
    BY DEF NeverThree
  <2>1. /\ InRow(a, b)' /\ InRow(b, c)' /\ SameFailure(a, b)' /\ SameFailure(b, c)'
    BY DEF ThreeAlike
  <2>2. a \in Executed /\ b \in Executed
    BY <1>5, <2>1
  <2>3. CASE c \in Executed
    BY <1>1, <1>5, <2>1, <2>2, <2>3 DEF NeverThree, ThreeAlike
  <2>4. CASE c = N
    <3>1. Latest(b) /\ futileRun' = futileRun + 1
      BY <1>7, <2>1, <2>2, <2>4
    <3>2. InRow(a, b) /\ SameFailure(a, b)
      BY <1>5, <2>1, <2>2
    <3>3. futileRun >= 2
      BY <1>1, <2>2, <3>1, <3>2 DEF Counter
    <3> QED
      BY <1>1, <1>2, <3>1, <3>3
  <2> QED
    BY <1>5, <2>3, <2>4
<1> QED
  BY <1>8, <1>9 DEF FutileInv, FutilityStops, NeverThree, ThreeAlike

\* The step that ends the turn for futility writes the last result.
LEMMA FutileEnds ==
    ASSUME TypeInv, FutileInv, InBatch, NEW w, AllReplies(history', "error", w),
           hasRunner' = hasRunner, pc' = "ended", result' = "futile"
    PROVE  FutileInv'
<1> SUFFICES ASSUME hasRunner PROVE FutileInv'
  BY DEF FutileInv, FutilityStops
<1>0. PICK N : N = Len(history) + 1
  OBVIOUS
<1>1. NeverThree /\ N \in Nat
  BY <1>0, NewMessages DEF FutileInv, InBatch
<1>2. /\ Old(history') /\ Len(history') >= N
      /\ history'[N].outcome = "error"
      /\ \A m \in (Len(history) + 2)..Len(history') : history'[m].outcome \notin {"ok", "error"}
  <2>1. /\ Old(history') /\ history'[N].outcome = "error"
        /\ Len(history') = Len(history) + Len(resp.calls) - i + 1
        /\ \A m \in (Len(history) + 2)..Len(history') : history'[m].outcome = "skipped"
        /\ Len(history) \in Nat /\ i \in 1..Len(resp.calls) /\ Len(resp.calls) \in Nat
    BY <1>0, ReplyFacts
  <2>2. Len(history') >= N
    BY <1>0, <2>1
  <2> QED
    BY <2>1, <2>2
<1>3. /\ Executed' = Executed \cup {N}
      /\ \A m \in Executed : m < N /\ history'[m] = history[m]
      /\ \A j, k \in Executed : InRow(j, k)' <=> InRow(j, k)
      /\ \A j, k \in Executed : SameFailure(j, k)' <=> SameFailure(j, k)
      /\ \A k \in Executed' : ~InRow(N, k)'
  BY <1>0, <1>2, ResultsOne
<1>4. \A n \in Executed' : n <= N
  <2>1. \A n \in Executed : n \in Nat
    BY NewMessages DEF Executed, Old
  <2> QED
    BY <1>1, <1>3, <2>1
<1>5. ASSUME NEW a \in Executed', NEW b \in Executed', NEW c \in Executed',
             ThreeAlike(a, b, c)'
      PROVE  c = N
  <2>1. /\ InRow(a, b)' /\ InRow(b, c)' /\ SameFailure(a, b)' /\ SameFailure(b, c)'
    BY <1>5 DEF ThreeAlike
  <2>2. a \in Executed /\ b \in Executed
    BY <1>3, <2>1
  <2>3. CASE c \in Executed
    BY <1>1, <1>3, <2>1, <2>2, <2>3 DEF NeverThree, ThreeAlike
  <2> QED
    BY <1>3, <2>3
<1>6. FutilityStops'
  BY <1>4, <1>5 DEF FutilityStops, ThreeAlike
<1> QED
  BY <1>6 DEF FutileInv

LEMMA FutileStep == TypeInv /\ FutileInv /\ [Next]_vars => FutileInv'
<1> SUFFICES ASSUME TypeInv, FutileInv, [Next]_vars PROVE FutileInv'
  OBVIOUS
<1> DEFINE n == Len(history)
<1>0. n \in Nat /\ Old(history) /\ (n + 1)..n = {}
  BY NewMessages
<1>1. CASE Outside
  <2>1. UNCHANGED <<hasRunner, lastFailure, futileRun>>
    BY <1>1 DEF Outside
  <2>2. CASE Idle
    BY <2>1, <2>2 DEF Idle, FutileInv, Counter, NeverThree, ThreeAlike, FutilityStops,
                      Latest, Executed, InRow, SameFailure
  <2>3. CASE ~Idle
    <3>1. pc # "ended"
      BY <1>1, <2>3 DEF Outside, GoesOn, GivesUp, Injects, Answers, LastAnswer
    <3>2. /\ Old(history')
          /\ \A m \in (n + 1)..Len(history') : history'[m].outcome \notin {"ok", "error"}
      <4>1. CASE history' = history
        BY <1>0, <4>1
      <4>2. CASE OneAnswer(history', FALSE) \/ OneAnswer(history', TRUE)
        BY <4>2, AnswerOutcome
      <4>3. CASE Injects
        BY <4>3, OutcomesOf DEF Injects
      <4>4. CASE ClosedAnswer(history')
        <5>1. /\ Old(history') /\ history'[n + 1].outcome = "none"
              /\ \A m \in (n + 2)..Len(history') : history'[m].outcome = "skipped"
          BY <4>4, AnswerFacts
        <5>2. \A m \in (n + 1)..Len(history') : m = n + 1 \/ m \in (n + 2)..Len(history')
          BY <1>0, <5>1 DEF Old
        <5> QED
          BY <5>1, <5>2
      <4> QED
        BY <1>1, <2>3, <4>1, <4>2, <4>3, <4>4
           DEF Outside, GoesOn, GivesUp, Answers, LastAnswer
    <3> QED
      BY <2>1, <3>1, <3>2, FutileNone
  <2> QED
    BY <2>2, <2>3
<1>2. CASE InABatch
  <2>1. InBatch /\ hasRunner' = hasRunner /\ pc # "ended"
    BY <1>2 DEF InABatch, InBatch
  <2>2. CASE Waits
    <3>1. history' = history /\ UNCHANGED <<lastFailure, futileRun>>
      BY <2>2 DEF Waits
    <3>2. Old(history') /\ \A m \in (n + 1)..Len(history') : FALSE
      BY <1>0, <3>1
    <3> QED
      BY <2>1, <3>1, <3>2, FutileNone
  <2>3. ASSUME NEW o, NEW w, AllReplies(history', o, w), o \notin {"ok", "error"}, pc' = "ended"
        PROVE  FutileInv'
    <3>1. /\ Old(history') /\ history'[n + 1].outcome = o
          /\ \A m \in (n + 2)..Len(history') : history'[m].outcome = "skipped"
      BY <2>1, <2>3, ReplyFacts
    <3>2. \A m \in (n + 1)..Len(history') : m = n + 1 \/ m \in (n + 2)..Len(history')
      BY <1>0, <3>1 DEF Old
    <3>3. \A m \in (n + 1)..Len(history') : history'[m].outcome \notin {"ok", "error"}
      BY <2>3, <3>1, <3>2
    <3> QED
      BY <2>1, <2>3, <3>1, <3>3, FutileNone
  <2>4. CASE Refuses
    BY <2>3, <2>4 DEF Refuses
  <2>5. ASSUME NEW o \in Outcomes, NEW w \in SUBSET Texts, Quits(o, w)
        PROVE  FutileInv'
    BY <2>1, <2>3, <2>5, FutileEnds DEF Quits
  <2>6. ASSUME NEW o \in Outcomes, NEW w \in SUBSET Texts, Replies(o, w)
        PROVE  FutileInv'
    BY <2>1, <2>6, FutileGoesOn
  <2> QED
    BY <1>2, <2>2, <2>4, <2>5, <2>6 DEF InABatch
<1> QED
  BY <1>1, <1>2, StepKinds
-----------------------------------------------------------------------------
(* Repetition.  lastToolName and lastToolArgs are those of the last call   *)
(* of the answer before: what the first call of the next one is compared   *)
(* with.                                                                   *)

Asking(m) == history[m].role = "assistant"

LastSig(m) == history[m].calls[Len(history[m].calls)].sig

\* m is the last answer before position n.
Before(m, n) == Asking(m) /\ m < n /\ \A k \in (m + 1)..(n - 1) : ~Asking(k)

Remembered ==
    IF InBatch
    THEN /\ pc = "call" /\ i > 1 => last = {resp.calls[i - 1].sig}
         /\ pc = "call" /\ i = 1 =>
               \A m \in DOMAIN history : Before(m, Len(history)) => last = {LastSig(m)}
         /\ pc = "running" => last = {Call.sig}
         /\ pc = "running" /\ i = 1 =>
               \A m \in DOMAIN history : Before(m, Len(history)) => LastSig(m) # Call.sig
    ELSE \A m \in DOMAIN history : Before(m, Len(history) + 1) => last = {LastSig(m)}

RepeatInv ==
    /\ pc # "ended" =>
          /\ \A m \in DOMAIN history : Asking(m) => /\ history[m].calls # <<>>
                                                    /\ ~history[m].aborted
          /\ Remembered
    /\ RepeatNotRun

\* While the turn runs an answer at the very end of the history is the batch
\* that has just begun.
LEMMA LastIsBatch ==
    ASSUME TypeInv, HistoryInv, RepeatInv, pc # "ended", Asking(Len(history)),
           Len(history) \in DOMAIN history
    PROVE  InBatch /\ i = 1
<1> DEFINE n == Len(history)
<1>1. n \in Nat /\ history \in Seq(Messages) /\ DOMAIN history = 1..n
  BY NewMessages DEF TypeInv, TypeOK, Old
<1>2. CASE ~InBatch
  <2>1. Asks(history[n]) /\ history[n].calls # <<>>
    BY DEF RepeatInv, Asking, Asks
  <2>2. AnsweredIn(history, n, Len(history[n].calls))
    BY <1>2, <2>1 DEF HistoryInv, Settled
  <2>3. n + Len(history[n].calls) <= n /\ Len(history[n].calls) \in Nat
    BY <1>1, <2>2, CallsLength DEF AnsweredIn
  <2>4. Len(history[n].calls) = 0
    BY <1>1, <2>3
  <2>5. history[n].calls \in Seq(Calls)
    <3>1. history[n] \in Messages
      BY <1>1, ElementOfSeq
    <3> QED
      BY <3>1 DEF Messages
  <2> QED
    BY <2>1, <2>4, <2>5, EmptySeq
<1>3. CASE InBatch /\ i # 1
  <2>1. i \in Nat /\ i - 1 \in 1..(i - 1) /\ n - (i - 1) + (i - 1) = n
    <3>1. i \in Nat /\ i >= 1
      BY <1>3, CallType
    <3>2. n \in Nat /\ i # 1
      BY <1>1, <1>3
    <3> HIDE DEF n
    <3> QED
      BY <3>1, <3>2
  <2>2. AnsweredIn(history, n - (i - 1), i - 1)
    BY <1>3 DEF HistoryInv, Replying
  <2>3. history[n - (i - 1) + (i - 1)].role = "tool"
    BY <2>1, <2>2 DEF AnsweredIn
  <2> QED
    BY <2>1, <2>3 DEF Asking
<1> QED
  BY <1>2, <1>3

\* The answer of the batch in progress, and only replies behind it.
LEMMA BatchHead ==
    ASSUME TypeInv, HistoryInv, InBatch, NEW b, b = Len(history) - (i - 1)
    PROVE  /\ b \in DOMAIN history /\ b \in Nat /\ Asking(b) /\ history[b].calls = resp.calls
           /\ \A k \in (b + 1)..Len(history) : ~Asking(k)
<1>1. /\ Len(history) \in Nat /\ i \in Nat /\ DOMAIN history = 1..Len(history)
      /\ b \in DOMAIN history
  BY NewMessages, CallType DEF Old, HistoryInv, Replying
<1>2. history[b] = AssistantMessage(resp.calls, FALSE) /\ AnsweredIn(history, b, i - 1)
  BY DEF HistoryInv, Replying
<1>3. history[b].role = "assistant" /\ history[b].calls = resp.calls
  BY <1>2 DEF AssistantMessage
<1>4. ASSUME NEW k \in (b + 1)..Len(history) PROVE ~Asking(k)
  <2>1. k - b \in 1..(i - 1) /\ b + (k - b) = k
    BY <1>1
  <2> QED
    BY <1>2, <2>1 DEF AnsweredIn, Asking
<1> QED
  BY <1>1, <1>3, <1>4 DEF Asking

\* The answers at m and n break the rule.
Repeated(m, n) == /\ m < n /\ n < Len(history) /\ Before(m, n) /\ Asking(n)
                  /\ history[m].calls # <<>> /\ history[n].calls # <<>>
                  /\ history[n + 1].outcome # "skipped"
                  /\ LastSig(m) = history[n].calls[1].sig

LEMMA NeverRepeated ==
    /\ RepeatNotRun <=> \A m, n \in DOMAIN history : ~Repeated(m, n)
    /\ RepeatNotRun' <=> \A m, n \in DOMAIN history' : ~Repeated(m, n)'
  BY DEF RepeatNotRun, Repeated, Before, Asking, LastSig

\* What a step may add: answers with nothing, or a synthetic reply, behind them.
QuietAnswers(g) == \A n \in (Len(history) + 1)..Len(g) :
    g[n].role = "assistant" => n = Len(g) \/ g[n + 1].outcome = "skipped"

\* The reply of the first call of a batch is real only if it repeats nothing.
Unlike(g) == InBatch /\ i = 1 /\ Len(g) > Len(history)
                /\ g[Len(history) + 1].outcome # "skipped" =>
             \A m \in DOMAIN history : Before(m, Len(history)) => LastSig(m) # Call.sig

\* What was there stays unrepeated; the rest is up to the first new message.
LEMMA RepeatKept ==
    ASSUME TypeInv, HistoryInv, RepeatInv, pc # "ended", Old(history'),
           QuietAnswers(history'), Unlike(history')
    PROVE  RepeatNotRun'
<1> SUFFICES ASSUME NEW m \in DOMAIN history', NEW n \in DOMAIN history', Repeated(m, n)'
             PROVE  FALSE
  BY NeverRepeated
<1>1. /\ Len(history) \in Nat /\ Len(history') \in Nat
      /\ DOMAIN history = 1..Len(history) /\ DOMAIN history' = 1..Len(history')
      /\ \A k \in DOMAIN history : history'[k] = history[k]
  BY NewMessages DEF Old
<1>2. /\ m \in Nat /\ n \in Nat /\ 1 <= m /\ 1 <= n
      /\ m < n /\ n < Len(history')
      /\ history'[m].role = "assistant" /\ history'[n].role = "assistant"
      /\ \A k \in (m + 1)..(n - 1) : history'[k].role # "assistant"
      /\ history'[m].calls # <<>> /\ history'[n].calls # <<>>
      /\ history'[n + 1].outcome # "skipped"
      /\ history'[m].calls[Len(history'[m].calls)].sig = history'[n].calls[1].sig
  BY <1>1 DEF Repeated, Before, Asking, LastSig
<1>3. n <= Len(history)
  <2> SUFFICES ASSUME n > Len(history) PROVE FALSE
    BY <1>1, <1>2
  <2>1. n \in (Len(history) + 1)..Len(history') /\ n # Len(history')
    BY <1>1, <1>2
  <2> QED
    BY <1>2, <2>1 DEF QuietAnswers
<1>4. n \in DOMAIN history /\ m \in DOMAIN history
      /\ \A k \in (m + 1)..(n - 1) : k \in DOMAIN history
  BY <1>1, <1>2, <1>3
<1>5. Before(m, n) /\ Asking(n)
  BY <1>1, <1>2, <1>4 DEF Before, Asking
<1>6. CASE n < Len(history)
  <2>1. n + 1 \in DOMAIN history
    BY <1>1, <1>2, <1>6
  <2>2. Repeated(m, n)
    BY <1>1, <1>2, <1>4, <1>5, <1>6, <2>1 DEF Repeated, LastSig
  <2> QED
    BY <1>4, <2>2, NeverRepeated DEF RepeatInv
<1>7. CASE n = Len(history)
  <2>1. InBatch /\ i = 1
    BY <1>4, <1>5, <1>7, LastIsBatch
  <2>2. LastSig(m) # Call.sig
    BY <1>2, <1>4, <1>5, <1>7, <2>1 DEF Unlike
  <2>3. history[n].calls = resp.calls
    <3>1. n = Len(history) - (i - 1)
      BY <1>2, <1>7, <2>1
    <3> QED
      BY <2>1, <3>1, BatchHead
  <2> QED
    BY <1>1, <1>2, <1>4, <2>1, <2>2, <2>3 DEF LastSig, Call
<1> QED
  BY <1>1, <1>2, <1>3, <1>6, <1>7

LEMMA RepeatInit == Init => RepeatInv
<1> SUFFICES ASSUME Init PROVE RepeatInv
  OBVIOUS
<1>1. DOMAIN history = {1} /\ history[1].role = "user" /\ pc = "top"
  BY OutcomesOf DEF Init
<1> QED
  BY <1>1 DEF RepeatInv, Remembered, Before, Asking, RepeatNotRun, InBatch

\* Outside a batch nothing runs, and the memory is kept for the next answer.
LEMMA RepeatOutside == TypeInv /\ HistoryInv /\ RepeatInv /\ Outside => RepeatInv'
<1> SUFFICES ASSUME TypeInv, HistoryInv, RepeatInv, Outside PROVE RepeatInv'
  OBVIOUS
<1> DEFINE n == Len(history)
<1>0. n \in Nat /\ Old(history) /\ (n + 1)..n = {} /\ last' = last /\ DOMAIN history = 1..n
  BY NewMessages DEF Outside, Old
<1>1. CASE Idle
  BY <1>0, <1>1 DEF Idle, RepeatInv, Remembered, Before, Asking, LastSig, RepeatNotRun,
                    InBatch, Call
<1>2. ASSUME ~InBatch, pc # "ended", Old(history'),
             \A m \in (n + 1)..Len(history') :
                history'[m].role = "assistant" =>
                   m = Len(history') \/ history'[m + 1].outcome = "skipped"
      PROVE  RepeatNotRun'
  <2>1. QuietAnswers(history')
    BY <1>2 DEF QuietAnswers
  <2>2. Unlike(history')
    BY <1>2 DEF Unlike
  <2> QED
    BY <1>2, <2>1, <2>2, RepeatKept
<1>3. CASE GoesOn \/ GivesUp
  <2>1. history' = history /\ ~InBatch /\ ~InBatch' /\ pc # "ended"
    BY <1>3 DEF GoesOn, GivesUp, InBatch
  <2>2. RepeatNotRun'
    BY <1>0, <1>2, <2>1
  <2>3. Remembered'
    BY <1>0, <2>1 DEF RepeatInv, Remembered, Before, Asking, LastSig
  <2> QED
    BY <2>1, <2>2, <2>3 DEF RepeatInv, Asking
<1>4. CASE Injects
  <2>1. /\ ~InBatch /\ ~InBatch' /\ pc # "ended" /\ Old(history')
        /\ \A m \in (n + 1)..Len(history') : history'[m].role = "user"
    BY <1>4, OutcomesOf DEF Injects, InBatch
  <2>2. RepeatNotRun'
    BY <1>2, <2>1
  <2>3. /\ \A m \in DOMAIN history' : Asking(m)' =>
              m \in DOMAIN history /\ history'[m] = history[m] /\ Asking(m)
    BY <1>0, <2>1 DEF Old, Asking
  <2>4. ASSUME NEW m \in DOMAIN history', Before(m, Len(history) + 1)'
        PROVE  last' = {LastSig(m)}'
    <3>1. m \in DOMAIN history /\ history'[m] = history[m] /\ Asking(m)
      BY <2>3, <2>4 DEF Before
    <3>2. ASSUME NEW k \in (m + 1)..n PROVE ~Asking(k)
      <4>1. k \in (m + 1)..(Len(history') + 1 - 1) /\ history'[k] = history[k]
        BY <1>0, <2>1, <3>1 DEF Old
      <4> QED
        BY <2>4, <4>1 DEF Before, Asking
    <3>3. Before(m, n + 1)
      BY <1>0, <3>1, <3>2 DEF Before
    <3> QED
      BY <1>0, <2>1, <3>1, <3>3 DEF RepeatInv, Remembered, LastSig
  <2>5. Remembered'
    BY <2>1, <2>4 DEF Remembered
  <2> QED
    BY <2>1, <2>2, <2>3, <2>5 DEF RepeatInv
<1>5. CASE Answers
  <2>1. /\ ~InBatch /\ InBatch' /\ pc # "ended" /\ pc' = "call" /\ i' = 1
        /\ resp.calls # <<>> /\ OneAnswer(history', FALSE)
    BY <1>5 DEF Answers, InBatch
  <2>2. /\ Old(history') /\ (n + 1)..Len(history') = {n + 1} /\ Len(history') = n + 1
        /\ history'[n + 1].role = "assistant" /\ ~history'[n + 1].aborted
        /\ history'[n + 1].calls = resp.calls
    BY <2>1, AnswerFacts DEF OneAnswer
  <2>3. RepeatNotRun'
    BY <1>2, <2>1, <2>2
  <2>4. \A m \in DOMAIN history' : m = n + 1 \/ (m \in DOMAIN history /\ history'[m] = history[m])
    BY <1>0, <2>2 DEF Old
  <2>5. \A m \in DOMAIN history' : Asking(m)' => /\ history'[m].calls # <<>>
                                                 /\ ~history'[m].aborted
    BY <2>1, <2>2, <2>4 DEF RepeatInv, Asking
  <2>6. ASSUME NEW m \in DOMAIN history', Before(m, Len(history))'
        PROVE  last' = {LastSig(m)}'
    <3>1. m < n + 1 /\ m \in DOMAIN history /\ history'[m] = history[m]
      BY <2>2, <2>4, <2>6 DEF Before
    <3>2. ASSUME NEW k \in (m + 1)..n PROVE ~Asking(k)
      <4>1. k \in (m + 1)..(Len(history') - 1) /\ history'[k] = history[k]
        BY <1>0, <2>2, <3>1 DEF Old
      <4> QED
        BY <2>6, <4>1 DEF Before, Asking
    <3>3. Before(m, n + 1)
      BY <1>0, <2>6, <3>1, <3>2 DEF Before, Asking
    <3> QED
      BY <1>0, <2>1, <3>1, <3>3 DEF RepeatInv, Remembered, LastSig
  <2>7. Remembered'
    BY <2>1, <2>6 DEF Remembered
  <2> QED
    BY <2>3, <2>5, <2>7 DEF RepeatInv
<1>6. CASE LastAnswer
  <2>1. ~InBatch /\ pc # "ended" /\ pc' = "ended"
    BY <1>6 DEF LastAnswer, InBatch
  <2>2. /\ Old(history')
        /\ \A m \in (n + 1)..Len(history') :
              history'[m].role = "assistant" =>
                 m = Len(history') \/ history'[m + 1].outcome = "skipped"
    <3>1. CASE OneAnswer(history', FALSE) \/ OneAnswer(history', TRUE)
      <4>1. Old(history') /\ (n + 1)..Len(history') = {n + 1}
        BY <3>1, AnswerFacts
      <4>2. Len(history') = n + 1
        BY <3>1 DEF OneAnswer
      <4> QED
        BY <4>1, <4>2
    <3>2. CASE ClosedAnswer(history')
      <4>1. /\ Old(history')
            /\ \A m \in (n + 2)..Len(history') :
                  history'[m].role = "tool" /\ history'[m].outcome = "skipped"
        BY <3>2, AnswerFacts
      <4>2. Len(history') \in Nat
        BY <4>1 DEF Old
      <4>3. \A m \in (n + 1)..Len(history') :
               m = Len(history') \/ m \in (n + 2)..Len(history') \/ m + 1 \in (n + 2)..Len(history')
        BY <1>0, <4>2
      <4> QED
        BY <4>1, <4>3
    <3> QED
      BY <1>6, <3>1, <3>2 DEF LastAnswer
  <2> QED
    BY <1>2, <2>1, <2>2 DEF RepeatInv
<1> QED
  BY <1>1, <1>3, <1>4, <1>5, <1>6 DEF Outside
\* A call that passes the checks is the one remembered, and repeats nothing.
LEMMA PassesUnlike ==
    ASSUME TypeInv, RepeatInv, InBatch, Passes
    PROVE  /\ last' = {Call.sig}
           /\ i = 1 => \A m \in DOMAIN history :
                          Before(m, Len(history)) => LastSig(m) # Call.sig
<1>1. Remembered
  BY DEF RepeatInv, InBatch
<1> QED
  BY <1>1 DEF Passes, Remembered, Looping, InBatch

\* A batch remembers its latest call.
LEMMA RepeatBatch == TypeInv /\ HistoryInv /\ RepeatInv /\ InABatch => RepeatInv'
<1> SUFFICES ASSUME TypeInv, HistoryInv, RepeatInv, InABatch PROVE RepeatInv'
  OBVIOUS
<1> DEFINE n == Len(history)
<1>0. /\ n \in Nat /\ Old(history) /\ (n + 1)..n = {} /\ DOMAIN history = 1..n
      /\ InBatch /\ resp' = resp /\ pc # "ended"
      /\ i \in 1..Len(resp.calls) /\ Len(resp.calls) \in Nat
  <2>1. InBatch
    BY DEF InABatch
  <2> QED
    BY <2>1, NewMessages, CallType DEF InABatch, InBatch, Old
<1>1. CASE Waits
  <2>1. /\ history' = history /\ i' = i /\ pc = "call" /\ pc' = "running" /\ Passes
        /\ Call' = Call
    BY <1>0, <1>1 DEF Waits, Call
  <2>2. QuietAnswers(history') /\ Unlike(history')
    <3>1. ~(Len(history') > n)
      BY <1>0, <2>1
    <3> QED
      BY <1>0, <2>1, <3>1 DEF QuietAnswers, Unlike
  <2>3. RepeatNotRun'
    BY <1>0, <2>1, <2>2, RepeatKept
  <2>4. last' = {Call.sig}
        /\ (i = 1 => \A m \in DOMAIN history : Before(m, n) => LastSig(m) # Call.sig)
    BY <1>0, <2>1, PassesUnlike
  <2>5. Remembered'
    BY <2>1, <2>4 DEF Remembered, InBatch, Before, Asking, LastSig
  <2> QED
    BY <1>0, <2>1, <2>3, <2>5 DEF RepeatInv, Asking
<1>2. ASSUME NEW o, NEW w, AllReplies(history', o, w), pc' = "ended", o = "skipped" \/ Passes
      PROVE  RepeatInv'
  <2>1. /\ Old(history')
        /\ history'[n + 1].role = "tool" /\ history'[n + 1].outcome = o
        /\ \A m \in (n + 2)..Len(history') : history'[m].role = "tool"
    BY <1>0, <1>2, ReplyFacts
  <2>2. \A m \in (n + 1)..Len(history') : m = n + 1 \/ m \in (n + 2)..Len(history')
    BY <1>0, <2>1 DEF Old
  <2>3. QuietAnswers(history')
    BY <2>1, <2>2 DEF QuietAnswers
  <2>4. Unlike(history')
    BY <1>0, <1>2, <2>1, PassesUnlike DEF Unlike
  <2> QED
    BY <1>0, <1>2, <2>1, <2>3, <2>4, RepeatKept DEF RepeatInv
<1>3. CASE Refuses
  BY <1>2, <1>3 DEF Refuses
<1>4. ASSUME NEW o \in Outcomes, NEW w \in SUBSET Texts, Quits(o, w)
      PROVE  RepeatInv'
  BY <1>2, <1>4 DEF Quits
<1>5. ASSUME NEW o \in Outcomes, NEW w \in SUBSET Texts, Replies(o, w)
      PROVE  RepeatInv'
  <2>1. Passes /\ OneReply(history', o, w) /\ Advance
    BY <1>5 DEF Replies
  <2>2. /\ Old(history') /\ (n + 1)..Len(history') = {n + 1} /\ Len(history') = n + 1
        /\ history'[n + 1].role = "tool"
    <3>1. Len(history') = n + 1
      BY <2>1 DEF OneReply
    <3> QED
      BY <1>0, <2>1, <3>1, ReplyFacts
  <2>3. QuietAnswers(history')
    BY <2>2 DEF QuietAnswers
  <2>4. Unlike(history')
    BY <1>0, <2>1, PassesUnlike DEF Unlike
  <2>5. RepeatNotRun'
    BY <1>0, <2>2, <2>3, <2>4, RepeatKept
  <2>6. \A m \in DOMAIN history' : Asking(m)' =>
           m \in DOMAIN history /\ history'[m] = history[m] /\ Asking(m)
    BY <1>0, <2>2 DEF Old, Asking
  <2>7. last' = {Call.sig}
    BY <1>0, <2>1, PassesUnlike
  <2>8. CASE i < Len(resp.calls)
    <3>1. pc' = "call" /\ i' = i + 1 /\ i' > 1 /\ i' - 1 = i /\ i' # 1
      BY <1>0, <2>1, <2>8 DEF Advance
    <3>2. Remembered'
      BY <1>0, <2>7, <3>1 DEF Remembered, InBatch, Call
    <3> QED
      BY <1>0, <2>5, <2>6, <3>2 DEF RepeatInv
  <2>9. CASE ~(i < Len(resp.calls))
    <3>1. i = Len(resp.calls) /\ ~InBatch'
      BY <1>0, <2>1, <2>9 DEF Advance, InBatch
    <3>2. PICK b : b = n - (i - 1)
      OBVIOUS
    <3>3. /\ b \in DOMAIN history /\ b \in Nat /\ Asking(b) /\ history[b].calls = resp.calls
          /\ \A k \in (b + 1)..n : ~Asking(k)
      BY <1>0, <3>2, BatchHead
    <3>4. ASSUME NEW m \in DOMAIN history', Before(m, Len(history) + 1)'
          PROVE  last' = {LastSig(m)}'
      <4>1. m \in DOMAIN history /\ history'[m] = history[m] /\ Asking(m)
        BY <2>6, <3>4 DEF Before
      <4>2. ~(m < b)
        <5> SUFFICES ASSUME m < b PROVE FALSE
          OBVIOUS
        <5>1. b \in (m + 1)..(Len(history') + 1 - 1) /\ history'[b] = history[b]
          BY <1>0, <2>2, <3>3, <4>1 DEF Old
        <5>2. ~Asking(b)'
          BY <3>4, <5>1 DEF Before
        <5> QED
          BY <3>3, <5>1, <5>2 DEF Asking
      <4>3. m = b
        BY <1>0, <3>3, <4>1, <4>2
      <4> QED
        BY <2>7, <3>1, <3>3, <4>1, <4>3 DEF LastSig, Call
    <3>5. Remembered'
      BY <3>1, <3>4 DEF Remembered
    <3> QED
      BY <1>0, <2>5, <2>6, <3>5 DEF RepeatInv
  <2> QED
    BY <2>8, <2>9
<1> QED
  BY <1>1, <1>3, <1>4, <1>5 DEF InABatch

LEMMA RepeatStep == TypeInv /\ HistoryInv /\ RepeatInv /\ [Next]_vars => RepeatInv'
  BY RepeatOutside, RepeatBatch, StepKinds

-----------------------------------------------------------------------------
(* The rules.                                                              *)

\* A refusal, a cancellation or a synthetic reply is the end: nothing but
\* synthetic replies follows it, and the turn returns for that reason.
THEOREM VerdictsAreFinal == Spec => []VerdictsFinal
<1>1. VerdictInv => VerdictsFinal
  BY DEF VerdictInv
<1> QED
  BY <1>1, TypeInit, TypeStep, VerdictInit, VerdictStep, PTL DEF Spec

\* OnToolCallStart and OnToolCallEnd come in pairs, once per call, for exactly
\* the calls the history holds an outcome of.
THEOREM EventsAlwaysPaired == Spec => []EventsPaired
  BY TypeInit, TypeStep, VerdictInit, VerdictStep, EventInit, EventStep, EventsPairedHolds, PTL
     DEF Spec

\* Three identical failures in a row are the last thing a turn does.
THEOREM FutilityAlwaysStops == Spec => []FutilityStops
<1>1. FutileInv => FutilityStops
  BY DEF FutileInv
<1> QED
  BY <1>1, TypeInit, TypeStep, FutileInit, FutileStep, PTL DEF Spec

\* The first call of an answer never runs when it repeats the call before it.
THEOREM RepeatNeverRuns == Spec => []RepeatNotRun
<1>1. RepeatInv => RepeatNotRun
  BY DEF RepeatInv
<1> QED
  BY <1>1, TypeInit, TypeStep, HistoryInit, HistoryStep, RepeatInit, RepeatStep, PTL DEF Spec

\* What the reader of a turn may rely on, all of it, for every cap, budget,
\* retry limit, set of tools and bound.
THEOREM RulesHold == Spec => []LoopRules
<1>1. EventsPaired /\ RepeatNotRun /\ FutilityStops /\ VerdictsFinal => LoopRules
  BY DEF LoopRules
<1> QED
  BY <1>1, EventsAlwaysPaired, RepeatNeverRuns, FutilityAlwaysStops, VerdictsAreFinal, PTL
-----------------------------------------------------------------------------
(* The contract.  The log is the history entry by entry, so a step that    *)
(* appends messages appends the entries the contract asks for.             *)

Entries == [kind : {"words", "replied", "cut", "asked"}, calls : Seq(Ids)]

\* A sequence with these elements is that concatenation.
LEMMA ConcatIs ==
    ASSUME NEW S, NEW s \in Seq(S), NEW a \in Seq(S), NEW b \in Seq(S),
           Len(s) = Len(a) + Len(b),
           \A k \in 1..Len(a) : s[k] = a[k],
           \A j \in 1..Len(b) : s[Len(a) + j] = b[j]
    PROVE  s = a \o b
<1>1. Len(a) \in Nat /\ Len(b) \in Nat
  BY LenProperties
<1>2. /\ a \o b \in Seq(S) /\ Len(a \o b) = Len(a) + Len(b)
      /\ \A k \in 1..(Len(a) + Len(b)) :
            (a \o b)[k] = IF k <= Len(a) THEN a[k] ELSE b[k - Len(a)]
  BY ConcatProperties
<1>3. ASSUME NEW k \in 1..(Len(a) + Len(b)) PROVE s[k] = (a \o b)[k]
  <2>1. CASE k <= Len(a)
    BY <1>1, <1>2, <2>1
  <2>2. CASE ~(k <= Len(a))
    <3>1. k - Len(a) \in 1..Len(b) /\ Len(a) + (k - Len(a)) = k
      BY <1>1, <2>2
    <3> QED
      BY <1>2, <2>2, <3>1
  <2> QED
    BY <2>1, <2>2
<1> DEFINE t == a \o b
<1>4. t \in Seq(S) /\ Len(t) = Len(s) /\ \A k \in 1..Len(s) : s[k] = t[k]
  BY <1>2, <1>3
<1> HIDE DEF t
<1>5. s = t
  BY <1>4, SeqEqual
<1> QED
  BY <1>5 DEF t

\* The ids of calls, from the first or a later one on.
LEMMA FromShape ==
    ASSUME NEW calls \in Seq(Calls), NEW k \in 1..(Len(calls) + 1)
    PROVE  /\ From(calls, k) \in Seq(Ids) /\ Len(From(calls, k)) = Len(calls) - k + 1
           /\ \A j \in 1..(Len(calls) - k + 1) : From(calls, k)[j] = calls[k + j - 1].id
<1>1. Len(calls) \in Nat
  BY LenProperties
<1>2. ASSUME NEW j \in 1..(Len(calls) - k + 1) PROVE calls[k + j - 1].id \in Ids
  <2>1. k + j - 1 \in 1..Len(calls)
    BY <1>1
  <2>2. calls[k + j - 1] \in Calls
    BY <2>1, ElementOfSeq
  <2> QED
    BY <2>2 DEF Calls
<1>3. Len(calls) - k + 1 \in Nat
  BY <1>1
<1>4. From(calls, k) \in [1..(Len(calls) - k + 1) -> Ids]
  BY <1>2 DEF From
<1> QED
  BY <1>3, <1>4, FunctionIsSeq DEF From

LEMMA IdsShape ==
    ASSUME NEW calls \in Seq(Calls)
    PROVE  /\ IdsOf(calls) \in Seq(Ids) /\ Len(IdsOf(calls)) = Len(calls)
           /\ \A j \in 1..Len(calls) : IdsOf(calls)[j] = calls[j].id
           /\ From(calls, 1) = IdsOf(calls)
<1>1. Len(calls) \in Nat /\ DOMAIN calls = 1..Len(calls)
  BY LenProperties
<1>2. ASSUME NEW j \in 1..Len(calls) PROVE calls[j].id \in Ids
  <2>1. calls[j] \in Calls
    BY ElementOfSeq
  <2> QED
    BY <2>1 DEF Calls
<1>3. IdsOf(calls) \in [1..Len(calls) -> Ids]
  BY <1>1, <1>2 DEF IdsOf
<1>4. /\ IdsOf(calls) \in Seq(Ids) /\ Len(IdsOf(calls)) = Len(calls)
      /\ \A j \in 1..Len(calls) : IdsOf(calls)[j] = calls[j].id
  BY <1>1, <1>3, FunctionIsSeq DEF IdsOf
<1>5. /\ From(calls, 1) \in Seq(Ids) /\ Len(From(calls, 1)) = Len(calls)
      /\ \A j \in 1..Len(calls) : From(calls, 1)[j] = calls[j].id
  <2>1. 1 \in 1..(Len(calls) + 1) /\ Len(calls) - 1 + 1 = Len(calls)
        /\ \A j \in 1..Len(calls) : 1 + j - 1 = j
    BY <1>1
  <2>2. /\ From(calls, 1) \in Seq(Ids) /\ Len(From(calls, 1)) = Len(calls) - 1 + 1
        /\ \A j \in 1..(Len(calls) - 1 + 1) : From(calls, 1)[j] = calls[1 + j - 1].id
    BY <2>1, FromShape
  <2> QED
    BY <2>1, <2>2
<1> DEFINE a == From(calls, 1)
           b == IdsOf(calls)
<1>6. a \in Seq(Ids) /\ b \in Seq(Ids) /\ Len(a) = Len(b) /\ \A j \in 1..Len(a) : a[j] = b[j]
  BY <1>4, <1>5
<1> HIDE DEF a, b
<1>7. a = b
  BY <1>6, SeqEqual
<1> QED
  BY <1>4, <1>7 DEF a, b

\* The call at k is the oldest one due; the others stay due.
LEMMA FromNext ==
    ASSUME NEW calls \in Seq(Calls), NEW k \in 1..Len(calls)
    PROVE  /\ From(calls, k) # <<>>
           /\ Head(From(calls, k)) = calls[k].id
           /\ Tail(From(calls, k)) = From(calls, k + 1)
           /\ k = Len(calls) => Tail(From(calls, k)) = <<>>
<1> DEFINE s == From(calls, k)
           t == From(calls, k + 1)
<1>1. Len(calls) \in Nat /\ k \in 1..(Len(calls) + 1) /\ k + 1 \in 1..(Len(calls) + 1)
  BY LenProperties
<1>2. /\ s \in Seq(Ids) /\ Len(s) = Len(calls) - k + 1
      /\ \A j \in 1..(Len(calls) - k + 1) : s[j] = calls[k + j - 1].id
  BY <1>1, FromShape
<1>3. /\ t \in Seq(Ids) /\ Len(t) = Len(calls) - (k + 1) + 1
      /\ \A j \in 1..(Len(calls) - (k + 1) + 1) : t[j] = calls[k + 1 + j - 1].id
  BY <1>1, FromShape
<1> HIDE DEF s, t
<1>4. Len(s) >= 1 /\ Len(s) \in Nat /\ Len(t) = Len(s) - 1
  BY <1>1, <1>2, <1>3
<1>5. s # <<>>
  BY <1>4, EmptySeq
<1>6. Head(s) = calls[k].id
  <2>1. Head(s) = s[1]
    BY <1>2, <1>5, HeadTailProperties
  <2>2. 1 \in 1..(Len(calls) - k + 1) /\ k + 1 - 1 = k
    BY <1>1
  <2> QED
    BY <1>2, <2>1, <2>2
<1>7. Tail(s) = t
  <2>1. /\ Tail(s) \in Seq(Ids) /\ Len(Tail(s)) = Len(s) - 1
        /\ \A j \in 1..Len(Tail(s)) : Tail(s)[j] = s[j + 1]
    BY <1>2, <1>5, HeadTailProperties
  <2>2. ASSUME NEW j \in 1..Len(t) PROVE Tail(s)[j] = t[j]
    <3>1. /\ j \in 1..Len(Tail(s)) /\ j + 1 \in 1..(Len(calls) - k + 1)
          /\ j \in 1..(Len(calls) - (k + 1) + 1)
          /\ k + (j + 1) - 1 = k + 1 + j - 1
      BY <1>1, <1>3, <1>4, <2>1
    <3> QED
      BY <1>2, <1>3, <2>1, <3>1
  <2>3. Len(Tail(s)) = Len(t)
    BY <1>4, <2>1
  <2> DEFINE u == Tail(s)
  <2>4. u \in Seq(Ids) /\ Len(u) = Len(t) /\ \A j \in 1..Len(u) : u[j] = t[j]
    BY <2>1, <2>2, <2>3
  <2> HIDE DEF u
  <2>5. u = t
    BY <1>3, <2>4, SeqEqual
  <2> QED
    BY <2>5 DEF u
<1>8. ASSUME k = Len(calls) PROVE t = <<>>
  <2>1. Len(t) = 0
    BY <1>1, <1>3, <1>8
  <2> QED
    BY <1>3, <2>1, EmptySeq
<1> QED
  BY <1>5, <1>6, <1>7, <1>8 DEF s, t

\* The log of a history.
LEMMA LogShape ==
    ASSUME NEW h \in Seq(Messages)
    PROVE  /\ LogOf(h) \in Seq(Entries) /\ Len(LogOf(h)) = Len(h)
           /\ \A m \in 1..Len(h) : LogOf(h)[m] = EntryOf(h[m])
<1>1. Len(h) \in Nat /\ DOMAIN h = 1..Len(h)
  BY LenProperties
<1>2. ASSUME NEW m \in 1..Len(h) PROVE EntryOf(h[m]) \in Entries
  <2>1. h[m] \in Messages
    BY ElementOfSeq
  <2>2. IdsOf(h[m].calls) \in Seq(Ids) /\ <<h[m].id>> \in Seq(Ids)
    BY <2>1, IdsShape DEF Messages
  <2> QED
    BY <2>2 DEF EntryOf, Entries
<1>3. LogOf(h) \in [1..Len(h) -> Entries]
  BY <1>1, <1>2 DEF LogOf
<1> QED
  BY <1>1, <1>3, FunctionIsSeq DEF LogOf

\* The replies the contract asks for.
LEMMA RepliesShape ==
    ASSUME NEW s \in Seq(Ids)
    PROVE  /\ Contract!Replies(s) \in Seq(Entries) /\ Len(Contract!Replies(s)) = Len(s)
           /\ \A j \in 1..Len(s) : Contract!Replies(s)[j] = Contract!Replied(s[j])
<1>1. Len(s) \in Nat /\ DOMAIN s = 1..Len(s)
  BY LenProperties
<1>2. ASSUME NEW j \in 1..Len(s) PROVE Contract!Replied(s[j]) \in Entries
  <2>1. <<s[j]>> \in Seq(Ids)
    BY ElementOfSeq, SingletonSeq
  <2> QED
    BY <2>1 DEF Contract!Replied, Entries
<1>3. Contract!Replies(s) \in [1..Len(s) -> Entries]
  BY <1>1, <1>2 DEF Contract!Replies
<1> QED
  BY <1>1, <1>3, FunctionIsSeq DEF Contract!Replies

\* What the messages a step adds are in the log.
LEMMA EntryFacts ==
    /\ EntryOf(UserMessage) = Contract!Words
    /\ \A m : m.role = "tool" => EntryOf(m) = Contract!Replied(m.id)
    /\ \A m : m.role = "assistant" /\ ~m.aborted => EntryOf(m) = Contract!Asked(IdsOf(m.calls))
    /\ \A m : m.role = "assistant" /\ m.aborted => EntryOf(m) = Contract!Cut(IdsOf(m.calls))
<1>1. IdsOf(<<>>) = <<>>
  BY DEF IdsOf
<1> QED
  BY <1>1 DEF EntryOf, UserMessage, Contract!Words, Contract!Replied, Contract!Asked,
              Contract!Cut
\* Appended messages append their entries.
LEMMA LogGrows ==
    ASSUME TypeInv, Old(history'), NEW b \in Seq(Entries),
           Len(history') = Len(history) + Len(b),
           \A j \in 1..Len(b) : EntryOf(history'[Len(history) + j]) = b[j]
    PROVE  LogOf(history') = LogOf(history) \o b
<1> DEFINE s == LogOf(history')
           a == LogOf(history)
<1>1. history \in Seq(Messages) /\ history' \in Seq(Messages)
      /\ Len(history) \in Nat /\ Len(b) \in Nat
  BY NewMessages, LenProperties DEF TypeInv, TypeOK, Old
<1>2. /\ s \in Seq(Entries) /\ Len(s) = Len(history')
      /\ \A m \in 1..Len(history') : s[m] = EntryOf(history'[m])
      /\ a \in Seq(Entries) /\ Len(a) = Len(history)
      /\ \A m \in 1..Len(history) : a[m] = EntryOf(history[m])
  BY <1>1, LogShape
<1> HIDE DEF s, a
<1>3. \A k \in 1..Len(a) : s[k] = a[k]
  BY <1>1, <1>2 DEF Old
<1>4. \A j \in 1..Len(b) : s[Len(a) + j] = b[j]
  BY <1>1, <1>2
<1>5. Len(s) = Len(a) + Len(b)
  BY <1>2
<1>6. s = a \o b
  BY <1>2, <1>3, <1>4, <1>5, ConcatIs
<1> QED
  BY <1>6 DEF s, a

LEMMA LogGrowsByOne ==
    ASSUME TypeInv, Old(history'), NEW x \in Entries,
           Len(history') = Len(history) + 1,
           EntryOf(history'[Len(history) + 1]) = x
    PROVE  LogOf(history') = Append(LogOf(history), x)
<1> DEFINE b == <<x>>
<1>1. b \in Seq(Entries) /\ Len(b) = 1 /\ \A j \in 1..1 : b[j] = x /\ j = 1
  OBVIOUS
<1> HIDE DEF b
<1>2. LogOf(history') = LogOf(history) \o b
  BY <1>1, LogGrows
<1>3. LogOf(history) \in Seq(Entries)
  BY LogShape DEF TypeInv, TypeOK
<1> QED
  BY <1>2, <1>3 DEF b

\* The replies that close a batch are those to the calls still due.
LEMMA LogCloses ==
    ASSUME TypeInv, InBatch, NEW o, NEW w, AllReplies(history', o, w)
    PROVE  LogOf(history') = LogOf(history) \o Contract!Replies(From(resp.calls, i))
<1> DEFINE n == Len(history)
           B == Len(resp.calls)
           d == From(resp.calls, i)
           b == Contract!Replies(d)
<1>1. n \in Nat /\ B \in Nat /\ i \in 1..B /\ i \in 1..(B + 1) /\ resp.calls \in Seq(Calls)
  <2>1. n \in Nat /\ B \in Nat /\ i \in 1..B /\ resp.calls \in Seq(Calls)
    BY NewMessages, CallType
  <2> QED
    BY <2>1
<1>2. /\ d \in Seq(Ids) /\ Len(d) = B - i + 1
      /\ \A j \in 1..(B - i + 1) : d[j] = resp.calls[i + j - 1].id
  BY <1>1, FromShape
<1> HIDE DEF d
<1>3. /\ b \in Seq(Entries) /\ Len(b) = B - i + 1
      /\ \A j \in 1..(B - i + 1) : b[j] = Contract!Replied(d[j])
  BY <1>2, RepliesShape
<1>4. /\ Old(history') /\ Len(history') = n + B - i + 1
      /\ history'[n + 1].role = "tool" /\ history'[n + 1].id = resp.calls[i].id
      /\ \A m \in (n + 2)..Len(history') :
            history'[m].role = "tool" /\ history'[m].id = resp.calls[i + m - n - 1].id
  BY ReplyFacts DEF Call
<1>5. ASSUME NEW j \in 1..(B - i + 1)
      PROVE  EntryOf(history'[n + j]) = b[j]
  <2>1. history'[n + j].role = "tool" /\ history'[n + j].id = resp.calls[i + j - 1].id
    <3>1. CASE j = 1
      <4>1. i + j - 1 = i
        BY <1>1, <3>1
      <4> QED
        BY <1>4, <3>1, <4>1
    <3>2. CASE j # 1
      <4> HIDE DEF n, B
      <4>1. n + j \in (n + 2)..(n + B - i + 1) /\ i + (n + j) - n - 1 = i + j - 1
        BY <1>1, <3>2
      <4> QED
        BY <1>4, <4>1 DEF n
    <3> QED
      BY <3>1, <3>2
  <2>2. EntryOf(history'[n + j]) = Contract!Replied(resp.calls[i + j - 1].id)
    BY <2>1, EntryFacts
  <2> QED
    BY <1>2, <1>3, <2>2
<1> HIDE DEF b
<1>6. Len(history') = Len(history) + Len(b)
  <2>1. n + B - i + 1 = n + (B - i + 1)
    BY <1>1
  <2> QED
    BY <1>3, <1>4, <2>1
<1>7. LogOf(history') = LogOf(history) \o b
  BY <1>3, <1>4, <1>5, <1>6, LogGrows
<1> QED
  BY <1>7 DEF b, d

\* An answer that ends the turn is in the log with the replies to its calls.
LEMMA LogAnswered ==
    ASSUME TypeInv, ClosedAnswer(history')
    PROVE  /\ Len(LogOf(history')) > Len(LogOf(history))
           /\ LogOf(history')[Len(LogOf(history)) + 1].calls = IdsOf(resp.calls)
           /\ LogOf(history') = Append(LogOf(history), Contract!Asked(IdsOf(resp.calls)))
                                   \o Contract!Replies(IdsOf(resp.calls))
<1> DEFINE n == Len(history)
           B == Len(resp.calls)
           d == IdsOf(resp.calls)
           x == Contract!Asked(d)
           b == Contract!Replies(d)
           a == LogOf(history)
           s == LogOf(history')
<1>1. n \in Nat /\ B \in Nat /\ resp.calls \in Seq(Calls) /\ history \in Seq(Messages)
  BY NewMessages, LenProperties DEF TypeInv, TypeOK
<1>2. d \in Seq(Ids) /\ Len(d) = B /\ \A j \in 1..B : d[j] = resp.calls[j].id
  BY <1>1, IdsShape
<1>3. /\ Old(history') /\ Len(history') = n + 1 + B
      /\ history'[n + 1].role = "assistant" /\ ~history'[n + 1].aborted
      /\ history'[n + 1].calls = resp.calls
      /\ \A m \in (n + 2)..Len(history') :
            history'[m].role = "tool" /\ history'[m].id = resp.calls[m - n - 1].id
  BY AnswerFacts
<1>4. EntryOf(history'[n + 1]) = x
  BY <1>3, EntryFacts
<1>5. x \in Entries /\ x.calls = d
  BY <1>2 DEF Contract!Asked, Entries
<1>6. /\ s \in Seq(Entries) /\ Len(s) = n + 1 + B
      /\ \A m \in 1..(n + 1 + B) : s[m] = EntryOf(history'[m])
      /\ a \in Seq(Entries) /\ Len(a) = n /\ \A m \in 1..n : a[m] = EntryOf(history[m])
  BY <1>1, <1>3, LogShape DEF Old
<1> HIDE DEF d
<1>7. b \in Seq(Entries) /\ Len(b) = B /\ \A j \in 1..B : b[j] = Contract!Replied(d[j])
  BY <1>2, RepliesShape
<1> HIDE DEF x, b, a, s
<1>8. /\ Append(a, x) \in Seq(Entries) /\ Len(Append(a, x)) = n + 1
      /\ \A k \in 1..n : Append(a, x)[k] = a[k]
      /\ Append(a, x)[n + 1] = x
  BY <1>5, <1>6, AppendProperties
<1>9. n + 1 \in 1..(n + 1 + B) /\ n + 1 + B > n
  <2> HIDE DEF n, B
  <2> QED
    BY <1>1
<1>10. ASSUME NEW k \in 1..(n + 1) PROVE s[k] = Append(a, x)[k]
  <2>1. CASE k = n + 1
    BY <1>4, <1>6, <1>8, <1>9, <2>1
  <2>2. CASE k # n + 1
    <3>1. k \in 1..n /\ k \in 1..(n + 1 + B)
      <4> HIDE DEF n, B
      <4> QED
        BY <1>1, <2>2
    <3> QED
      BY <1>3, <1>6, <1>8, <3>1 DEF Old
  <2> QED
    BY <2>1, <2>2
<1>11. ASSUME NEW j \in 1..B PROVE s[n + 1 + j] = b[j]
  <2>0. PICK m : m = n + 1 + j
    OBVIOUS
  <2>1. m \in (n + 2)..(n + 1 + B) /\ m - n - 1 = j /\ m \in 1..(n + 1 + B)
    <3> HIDE DEF n, B
    <3> QED
      BY <1>1, <2>0
  <2>2. history'[m].role = "tool" /\ history'[m].id = resp.calls[j].id
    BY <1>3, <2>1
  <2>3. EntryOf(history'[m]) = Contract!Replied(resp.calls[j].id)
    BY <2>2, EntryFacts
  <2> QED
    BY <1>2, <1>6, <1>7, <2>0, <2>1, <2>3
<1> DEFINE c == Append(a, x)
<1>12. c \in Seq(Entries) /\ Len(c) = n + 1 /\ \A k \in 1..(n + 1) : s[k] = c[k]
  BY <1>8, <1>10
<1> HIDE DEF c
<1>13. s = c \o b
  <2>1. Len(s) = Len(c) + Len(b)
    BY <1>6, <1>7, <1>12
  <2>2. /\ \A k \in 1..Len(c) : s[k] = c[k]
        /\ \A j \in 1..Len(b) : s[Len(c) + j] = b[j]
    BY <1>7, <1>11, <1>12
  <2> QED
    BY <1>6, <1>7, <1>12, <2>1, <2>2, ConcatIs
<1>14. s[n + 1].calls = d
  BY <1>4, <1>5, <1>6, <1>9
<1> QED
  BY <1>6, <1>9, <1>13, <1>14 DEF c, a, s, x, b, d
\* The calls without a reply, as the contract is given them.
Due == IF InBatch THEN From(resp.calls, i) ELSE <<>>

\* The first history is the first log.
LEMMA ContractInit == Init => Contract!Init
<1> SUFFICES ASSUME Init PROVE Contract!Init
  OBVIOUS
<1>1. history = <<UserMessage>> /\ result = "running" /\ ~InBatch
  BY DEF Init, InBatch
<1>2. history \in Seq(Messages) /\ Len(history) = 1 /\ history[1] = UserMessage
  BY <1>1, MessageTypes, SingletonSeq
<1> DEFINE s == LogOf(history)
           t == <<Contract!Words>>
<1>3. s \in Seq(Entries) /\ Len(s) = 1 /\ s[1] = Contract!Words
  <2>1. 1 \in 1..1
    OBVIOUS
  <2> QED
    BY <1>2, <2>1, LogShape, EntryFacts
<1>4. t \in Seq(Entries) /\ Len(t) = 1 /\ t[1] = Contract!Words
  <2>1. Contract!Words \in Entries
    BY EmptySeq DEF Contract!Words, Entries
  <2> HIDE DEF s
  <2> QED
    BY <2>1
<1> HIDE DEF s, t
<1>5. \A k \in 1..Len(s) : s[k] = t[k]
  <2>1. \A k \in 1..1 : k = 1
    OBVIOUS
  <2> QED
    BY <1>3, <1>4, <2>1
<1>6. s = t
  BY <1>3, <1>4, <1>5, SeqEqual
<1> QED
  BY <1>1, <1>6 DEF s, t, Contract!Init

\* A step that says, asks and answers nothing is no step of the contract.
LEMMA ContractStutter ==
    ASSUME UNCHANGED <<history, result>>, Due' = Due
    PROVE  UNCHANGED Contract!vars
<1>1. LogOf(history') = LogOf(history)
  OBVIOUS
<1> QED
  BY <1>1 DEF Contract!vars, Due

\* Every step outside a batch is one of the contract's, or none.
LEMMA ContractOutside ==
    TypeInv /\ VerdictInv /\ Outside => [Contract!Next]_Contract!vars
<1> SUFFICES ASSUME TypeInv, VerdictInv, Outside
             PROVE  Contract!Next \/ UNCHANGED Contract!vars
  OBVIOUS
<1> DEFINE n == Len(history)
<1>0. /\ n \in Nat /\ resp.calls \in Seq(Calls) /\ history \in Seq(Messages)
      /\ LogOf(history) \in Seq(Entries) /\ Len(LogOf(history)) = n
  BY NewMessages, LogShape DEF TypeInv, TypeOK
<1>1. CASE Idle
  <2>1. UNCHANGED <<history, result>> /\ Due' = Due
    BY <1>1 DEF Idle, Due, InBatch
  <2> QED
    BY <2>1, ContractStutter
<1>2. CASE GoesOn
  <2>1. UNCHANGED <<history, result>> /\ Due' = Due
    BY <1>2 DEF GoesOn, Due, InBatch
  <2> QED
    BY <2>1, ContractStutter
<1>3. CASE GivesUp
  <2>1. /\ history' = history /\ result = "running" /\ result' \in Results \ {"running"}
        /\ Due = <<>> /\ Due' = <<>>
    BY <1>3 DEF GivesUp, Due, InBatch, VerdictInv, Results
  <2>2. LogOf(history') = LogOf(history) \o Contract!Replies(<<>>)
    <3>1. Contract!Replies(<<>>) = <<>>
      BY DEF Contract!Replies
    <3> QED
      BY <1>0, <2>1, <3>1, ConcatEmptySeq
  <2>3. Contract!Finish
    BY <2>1, <2>2 DEF Contract!Finish, Contract!Ends, Due
  <2> QED
    BY <2>3 DEF Contract!Next
<1>4. CASE Injects
  <2>1. /\ Old(history') /\ result = "running" /\ result' = result
        /\ \A m \in (n + 1)..Len(history') : history'[m] = UserMessage
        /\ Due = <<>> /\ Due' = <<>>
    BY <1>4 DEF Injects, Due, InBatch, VerdictInv
  <2> DEFINE x == Len(history') - n
             b == [k \in 1..x |-> Contract!Words]
  <2>2. x \in Nat /\ Len(LogOf(history')) - Len(LogOf(history)) = x
    <3>1. history' \in Seq(Messages) /\ Len(history') \in Nat /\ Len(history') >= n
      BY <2>1 DEF Old
    <3>2. Len(LogOf(history')) = Len(history')
      BY <3>1, LogShape
    <3> QED
      BY <1>0, <3>1, <3>2
  <2>3. b \in Seq(Entries) /\ Len(b) = x /\ \A k \in 1..x : b[k] = Contract!Words
    <3>1. Contract!Words \in Entries
      BY EmptySeq DEF Contract!Words, Entries
    <3> HIDE DEF x
    <3> QED
      BY <2>2, <3>1, FunctionIsSeq
  <2>4. \A k \in 1..x : EntryOf(history'[n + k]) = Contract!Words
    <3>1. ASSUME NEW k \in 1..x PROVE n + k \in (n + 1)..Len(history')
      BY <1>0, <2>1 DEF Old
    <3> QED
      BY <2>1, <3>1, EntryFacts
  <2>5. LogOf(history') = LogOf(history) \o b
    <3> HIDE DEF b
    <3>1. Len(history') = n + Len(b)
      BY <1>0, <2>1, <2>3 DEF Old
    <3>2. \A j \in 1..Len(b) : EntryOf(history'[n + j]) = b[j]
      BY <2>3, <2>4
    <3> QED
      BY <2>1, <2>3, <3>1, <3>2, LogGrows
  <2>6. Contract!Say
    BY <2>1, <2>2, <2>5 DEF Contract!Say, Due
  <2> QED
    BY <2>6 DEF Contract!Next
<1>5. CASE Answers
  <2>1. /\ OneAnswer(history', FALSE) /\ result = "running" /\ result' = result
        /\ Due = <<>> /\ Due' = From(resp.calls, 1) /\ resp.calls # <<>>
    BY <1>5 DEF Answers, Due, InBatch, VerdictInv
  <2> DEFINE d == IdsOf(resp.calls)
  <2>2. d \in Seq(Ids) /\ d # <<>> /\ Due' = d
    <3>1. d \in Seq(Ids) /\ Len(d) = Len(resp.calls) /\ From(resp.calls, 1) = d
      BY <1>0, IdsShape
    <3>2. d # <<>>
      BY <1>0, <2>1, <3>1, EmptySeq
    <3> QED
      BY <2>1, <3>1, <3>2
  <2>3. LogOf(history') = Append(LogOf(history), Contract!Asked(d))
    <3>1. /\ Old(history') /\ history'[n + 1].role = "assistant" /\ ~history'[n + 1].aborted
          /\ history'[n + 1].calls = resp.calls
      BY <2>1, AnswerFacts
    <3>2. Len(history') = n + 1
      BY <2>1 DEF OneAnswer
    <3>3. EntryOf(history'[n + 1]) = Contract!Asked(d)
      BY <3>1, EntryFacts
    <3>4. Contract!Asked(d) \in Entries
      BY <2>2 DEF Contract!Asked, Entries
    <3> HIDE DEF d
    <3> QED
      BY <3>1, <3>2, <3>3, <3>4, LogGrowsByOne
  <2> HIDE DEF d
  <2>4. Contract!Ask
    BY <2>1, <2>2, <2>3 DEF Contract!Ask, Due
  <2> QED
    BY <2>4 DEF Contract!Next
<1>6. CASE LastAnswer
  <2>1. /\ result = "running" /\ result' \in Results \ {"running"}
        /\ Due = <<>> /\ Due' = <<>>
    BY <1>6 DEF LastAnswer, Due, InBatch, VerdictInv, Results, Stops
  <2> DEFINE d == IdsOf(resp.calls)
  <2>2. d \in Seq(Ids)
    BY <1>0, IdsShape
  <2>3. CASE ClosedAnswer(history')
    <3>1. /\ Len(LogOf(history')) > Len(LogOf(history))
          /\ LogOf(history')[Len(LogOf(history)) + 1].calls = d
          /\ LogOf(history') = Append(LogOf(history), Contract!Asked(d))
                                 \o Contract!Replies(d)
      BY <2>3, LogAnswered
    <3> HIDE DEF d
    <3>2. Contract!Answer
      BY <2>1, <2>2, <3>1 DEF Contract!Answer, Contract!Ends, Due
    <3> QED
      BY <3>2 DEF Contract!Next
  <2>4. CASE OneAnswer(history', FALSE) /\ resp.calls = <<>>
    <3>1. Old(history') /\ Len(history') = n + 1
          /\ history'[n + 1] = AssistantMessage(resp.calls, FALSE)
      BY <2>4 DEF OneAnswer
    <3>2. Len(resp.calls) = 0
      BY <2>4
    <3>3. Len(history') = n + 1 + Len(resp.calls) /\ (n + 2)..Len(history') = {}
      BY <1>0, <3>1, <3>2
    <3> QED
      BY <2>3, <3>1, <3>3 DEF ClosedAnswer
  <2>5. CASE OneAnswer(history', TRUE) /\ result' = "aborted"
    <3>1. /\ Old(history') /\ history'[n + 1].role = "assistant" /\ history'[n + 1].aborted
          /\ history'[n + 1].calls = resp.calls
      BY <2>5, AnswerFacts
    <3>2. Len(history') = n + 1
      BY <2>5 DEF OneAnswer
    <3>3. EntryOf(history'[n + 1]) = Contract!Cut(d)
      BY <3>1, EntryFacts
    <3>4. Contract!Cut(d) \in Entries /\ Contract!Cut(d).calls = d
      BY <2>2 DEF Contract!Cut, Entries
    <3> HIDE DEF d
    <3>5. LogOf(history') = Append(LogOf(history), Contract!Cut(d))
      BY <3>1, <3>2, <3>3, <3>4, LogGrowsByOne
    <3>6. Len(LogOf(history')) > Len(LogOf(history))
          /\ LogOf(history')[Len(LogOf(history)) + 1].calls = d
      <4> DEFINE x == Contract!Cut(d)
                 s == LogOf(history)
      <4>1. s \in Seq(Entries) /\ Len(s) = n /\ x \in Entries /\ x.calls = d
        BY <1>0, <3>4
      <4> HIDE DEF x, s
      <4>2. Len(Append(s, x)) = n + 1 /\ Append(s, x)[n + 1] = x
        BY <4>1, AppendProperties
      <4> QED
        BY <1>0, <3>5, <4>1, <4>2 DEF x, s
    <3>7. Contract!CutOff
      BY <2>1, <2>2, <2>5, <3>5, <3>6 DEF Contract!CutOff, Contract!Ends, Due
    <3> QED
      BY <3>7 DEF Contract!Next
  <2> QED
    BY <1>6, <2>3, <2>4, <2>5 DEF LastAnswer
<1> QED
  BY <1>1, <1>2, <1>3, <1>4, <1>5, <1>6 DEF Outside

\* So is every step of a batch.
LEMMA ContractBatch ==
    TypeInv /\ VerdictInv /\ InABatch => [Contract!Next]_Contract!vars
<1> SUFFICES ASSUME TypeInv, VerdictInv, InABatch
             PROVE  Contract!Next \/ UNCHANGED Contract!vars
  OBVIOUS
<1>0. /\ InBatch /\ resp' = resp /\ result = "running" /\ Due = From(resp.calls, i)
      /\ resp.calls \in Seq(Calls) /\ i \in 1..Len(resp.calls) /\ Len(resp.calls) \in Nat
      /\ Call.id \in Ids
  <2>1. InBatch
    BY DEF InABatch
  <2> QED
    BY <2>1, CallType DEF InABatch, InBatch, VerdictInv, Due
<1>1. CASE Waits
  <2>1. UNCHANGED <<history, result>> /\ Due' = Due
    BY <1>0, <1>1 DEF Waits, Due, InBatch
  <2> QED
    BY <2>1, ContractStutter
<1>2. ASSUME NEW o, NEW w, AllReplies(history', o, w), pc' = "ended",
             result' \in Results \ {"running"}
      PROVE  Contract!Next
  <2>1. LogOf(history') = LogOf(history) \o Contract!Replies(Due)
    BY <1>0, <1>2, LogCloses
  <2>2. Due' = <<>>
    BY <1>2 DEF Due, InBatch
  <2>3. Contract!Finish
    BY <1>0, <1>2, <2>1, <2>2 DEF Contract!Finish, Contract!Ends, Due
  <2> QED
    BY <2>3 DEF Contract!Next
<1>3. CASE Refuses
  BY <1>2, <1>3 DEF Refuses, Results, Stops
<1>4. ASSUME NEW o \in Outcomes, NEW w \in SUBSET Texts, Quits(o, w)
      PROVE  Contract!Next
  BY <1>2, <1>4 DEF Quits, Results, Stops
<1>5. ASSUME NEW o \in Outcomes, NEW w \in SUBSET Texts, Replies(o, w)
      PROVE  Contract!Next
  <2>1. OneReply(history', o, w) /\ Advance /\ result' = result
    BY <1>5 DEF Replies
  <2>2. /\ Due # <<>> /\ Head(Due) = Call.id
        /\ Tail(Due) = From(resp.calls, i + 1)
        /\ i = Len(resp.calls) => Tail(Due) = <<>>
    BY <1>0, FromNext DEF Call
  <2>3. Due' = Tail(Due)
    <3>1. CASE i < Len(resp.calls)
      <4>1. i' = i + 1 /\ InBatch'
        BY <2>1, <3>1 DEF Advance, InBatch
      <4> QED
        BY <1>0, <2>2, <4>1 DEF Due
    <3>2. CASE ~(i < Len(resp.calls))
      <4>1. i = Len(resp.calls) /\ ~InBatch'
        BY <1>0, <2>1, <3>2 DEF Advance, InBatch
      <4> QED
        BY <2>2, <4>1 DEF Due
    <3> QED
      BY <3>1, <3>2
  <2>4. LogOf(history') = Append(LogOf(history), Contract!Replied(Head(Due)))
    <3>1. /\ Old(history') /\ history'[Len(history) + 1].role = "tool"
          /\ history'[Len(history) + 1].id = Call.id
      BY <1>0, <2>1, ReplyFacts
    <3>2. Len(history') = Len(history) + 1
      BY <2>1 DEF OneReply
    <3>3. EntryOf(history'[Len(history) + 1]) = Contract!Replied(Call.id)
      BY <3>1, EntryFacts
    <3>4. Contract!Replied(Call.id) \in Entries
      BY <1>0, SingletonSeq DEF Contract!Replied, Entries
    <3>5. LogOf(history') = Append(LogOf(history), Contract!Replied(Call.id))
      BY <3>1, <3>2, <3>3, <3>4, LogGrowsByOne
    <3> QED
      BY <2>2, <3>5
  <2>5. Contract!Reply
    BY <1>0, <2>1, <2>2, <2>3, <2>4 DEF Contract!Reply, Due
  <2> QED
    BY <2>5 DEF Contract!Next
<1> QED
  BY <1>1, <1>3, <1>4, <1>5 DEF InABatch

\* The turn keeps its contract: calls answered once, in order, right behind
\* the answer that asks for them, before the next request and before the turn
\* returns, whatever the model, the tools and the user do.
THEOREM TurnKeepsContract == Spec => ImplementsContract
<1>1. TypeInv /\ VerdictInv /\ [Next]_vars => [Contract!Next]_Contract!vars
  BY ContractOutside, ContractBatch, StepKinds
<1> QED
  BY <1>1, ContractInit, TypeInit, TypeStep, VerdictInit, VerdictStep, PTL
     DEF Spec, ImplementsContract, Contract!Spec
=============================================================================
