----------------------------- MODULE TuiProofs -----------------------------
(***************************************************************************)
(* TuiTurn: the screen and the goroutine of a turn agree, and its texts    *)
(* arrive, for any number of texts, requests and ticks.  Catalog: the list *)
(* of models behind the screen, for any providers, models, configurations  *)
(* and any number of starts, refreshes and logins.                         *)
(***************************************************************************)
EXTENDS TuiTurn, Catalog, FiniteSetTheorems, WellFoundedInduction, TLAPS

-----------------------------------------------------------------------------
(* The turn.                                                                *)

(* The types the argument needs.                                            *)
Shape ==
    /\ mode \in {"chat", "overlay", "busy", "dialog", "queue"}
    /\ returnMode \in {"chat", "busy"}
    /\ live \in BOOLEAN /\ ctxDone \in BOOLEAN /\ covered \in BOOLEAN
    /\ ticks \in Nat

(* The queue editor goes back to a turn that is still there, or to a chat     *)
(* that has none, unless a late choice opened that chat.                     *)
QueueInv ==
    mode = "queue" =>
        /\ returnMode = "chat" => (turn = "none" /\ ~live) \/ covered
        /\ returnMode = "busy" => live /\ (turn # "none" \/ 0 \in lost)

AgreeInv == Shape /\ QueueInv /\ ScreenAgrees

LEMMA AgreeInit == Init => AgreeInv
<1> SUFFICES ASSUME Init PROVE AgreeInv
  OBVIOUS
<1>1. Shape
  BY DEF Init, Shape
<1>2. ~live
  BY DEF Init
<1>3. QueueInv /\ ScreenAgrees
  BY <1>2 DEF Init, QueueInv, ScreenAgrees, OneTurn, BusyMeansTurn, WaiterShown, StreamDrained
<1> QED
  BY <1>1, <1>3 DEF AgreeInv

(* A turn begins where none is, or beside one that a late choice covered, and *)
(* ends where one was: the interface and the goroutine change together.       *)
LEMMA TurnStarts ==
    ASSUME AgreeInv, NEW armed \in Nat, NEW messages, StartTurn(armed, messages),
           returnMode' = returnMode, covered' \in BOOLEAN, older' # Nobody => covered'
    PROVE  AgreeInv'
<1>1. Shape'
  <2>1. live' \in BOOLEAN /\ ctxDone' \in BOOLEAN
    BY DEF StartTurn
  <2>2. mode' = "busy" /\ ticks' \in Nat /\ returnMode \in {"chat", "busy"}
    BY DEF StartTurn, AgreeInv, Shape
  <2> QED
    BY <2>1, <2>2 DEF Shape
<1>2. live'
  BY DEF StartTurn
<1>3. mode' = "busy" /\ turn' = "work" /\ ticks' = armed + 1
  BY DEF StartTurn
<1>4. QueueInv' /\ ScreenAgrees'
  BY <1>2, <1>3 DEF QueueInv, ScreenAgrees, OneTurn, BusyMeansTurn, WaiterShown, StreamDrained
<1> QED
  BY <1>1, <1>4 DEF AgreeInv

LEMMA TurnFinishes ==
    ASSUME AgreeInv, NEW armed \in Nat, NEW remaining, FinishTurn(armed, remaining),
           remaining # Nobody => covered, returnMode' = returnMode
    PROVE  AgreeInv'
<1>0. /\ covered' \in BOOLEAN
      /\ older' # Nobody => covered'
  <2>1. covered' = (covered /\ remaining # Nobody)
    BY DEF FinishTurn
  <2>2. older' = remaining
    BY DEF FinishTurn
  <2>3. CASE remaining # Nobody /\ covered
    BY <2>1, <2>3
  <2>4. CASE remaining = Nobody
    BY <2>1, <2>2, <2>4
  <2> QED
    BY <2>3, <2>4
<1>1. CASE /\ mode' \in {"chat", "overlay"}
           /\ live' = FALSE /\ turn' = "none" /\ ctxDone' = FALSE /\ ticks' = armed
  <2>1. Shape'
    BY <1>0, <1>1 DEF AgreeInv, Shape
  <2>2. QueueInv' /\ OneTurn'
    BY <1>0, <1>1 DEF QueueInv, OneTurn
  <2>3. BusyMeansTurn' /\ WaiterShown' /\ StreamDrained'
    BY <1>1 DEF BusyMeansTurn, WaiterShown, StreamDrained
  <2> QED
    BY <2>1, <2>2, <2>3 DEF AgreeInv, ScreenAgrees
<1>2. ASSUME NEW messages, StartTurn(armed, messages) PROVE AgreeInv'
  BY <1>0, <1>2, TurnStarts
<1> QED
  BY <1>1, <1>2 DEF FinishTurn

(* Every goroutine but the turn's own is behind a late choice.               *)
LEMMA OldIsCovered == ASSUME AgreeInv, older.at # "none" PROVE covered
<1>1. older # Nobody
  BY DEF Nobody
<1> QED
  BY <1>1 DEF AgreeInv, ScreenAgrees, OneTurn

LEMMA AgreeStep == AgreeInv /\ [Next]_vars => AgreeInv'
<1> SUFFICES ASSUME AgreeInv, [Next]_vars PROVE AgreeInv'
  OBVIOUS
<1> USE DEF Shape, QueueInv, ScreenAgrees, OneTurn, BusyMeansTurn, WaiterShown, StreamDrained
<1>0. Shape /\ QueueInv /\ ScreenAgrees
  BY DEF AgreeInv
<1>1. ASSUME NEW messages, StartOver(messages), returnMode' = returnMode,
             mode \in {"chat", "overlay"}
      PROVE  AgreeInv'
  <2>1. older' # Nobody => covered
    BY <1>0, <1>1 DEF StartOver
  <2>2. covered' = covered /\ covered' \in BOOLEAN
    BY <1>0, <1>1 DEF StartOver
  <2>3. StartTurn(ticks, messages) \/ StartTurn(ticks, <<>>)
    BY <1>1 DEF StartOver
  <2>4. older' # Nobody => covered'
    BY <2>1, <2>2
  <2>5. ticks \in Nat
    BY <1>0
  <2> HIDE DEF Shape, QueueInv, ScreenAgrees, OneTurn, BusyMeansTurn, WaiterShown, StreamDrained
  <2>6. CASE StartTurn(ticks, messages)
    BY <1>1, <2>2, <2>4, <2>5, <2>6, TurnStarts
  <2>7. CASE StartTurn(ticks, <<>>)
    BY <1>1, <2>2, <2>4, <2>5, <2>7, TurnStarts
  <2> QED
    BY <2>3, <2>6, <2>7
<1>22. CASE Submit
  BY <1>1, <1>22 DEF Submit
<1>23. CASE Retry
  BY <1>1, <1>23 DEF Retry
<1>24. CASE AcceptSuggestion
  BY <1>1, <1>24 DEF AcceptSuggestion
<1>2. CASE OpenOverlay
  BY <1>0, <1>2 DEF OpenOverlay, AgreeInv, asks, late, picked
<1>3. CASE CloseOverlay
  BY <1>0, <1>3 DEF CloseOverlay, AgreeInv, asks, late, picked
<1>4. CASE Cancel
  BY <1>0, <1>4 DEF Cancel, AgreeInv, asks, late, picked
<1>5. CASE CancelDialog
  BY <1>0, <1>5 DEF CancelDialog, AgreeInv, asks, late, picked
<1>25. CASE Choose
  BY <1>0, <1>25 DEF Choose, AgreeInv, asks
<1>26. CASE TakeChoice
  <2>1. /\ mode' \in {"chat", "overlay"} /\ covered' = (covered \/ live)
        /\ UNCHANGED <<returnMode, live, turn, ctxDone, ticks, older>>
    BY <1>26 DEF TakeChoice
  <2>2. Shape'
    BY <1>0, <2>1
  <2>3. live => covered'
    BY <2>1
  <2>4. covered => covered'
    BY <2>1
  <2>5. QueueInv' /\ BusyMeansTurn' /\ StreamDrained'
    BY <1>0, <2>1
  <2>6. older' # Nobody => covered'
    BY <1>0, <2>1, <2>4
  <2>7. turn # "none" => live \/ covered
    <3>1. CASE mode \in {"chat", "overlay", "queue"}
      BY <1>0, <3>1
    <3>2. CASE mode \in {"busy", "dialog"}
      BY <1>0, <3>2
    <3> QED
      BY <1>0, <3>1, <3>2
  <2>8. OneTurn' /\ WaiterShown'
    BY <2>1, <2>3, <2>4, <2>6, <2>7
  <2> QED
    BY <2>2, <2>5, <2>8 DEF AgreeInv
<1>6. CASE Answer
  <2>1. UNCHANGED <<returnMode, live, ctxDone, ticks, lost, covered>>
    BY <1>6 DEF Answer
  <2>2. mode = "dialog" /\ (older.at = "waiting" => covered)
    BY <1>6, OldIsCovered DEF Answer
  <2>3. older' # Nobody => covered'
    <3>1. CASE older' = older
      BY <1>0, <2>1, <3>1
    <3>2. CASE older.at = "waiting"
      BY <2>1, <2>2, <3>2
    <3> QED
      BY <1>6, <3>1, <3>2 DEF Answer
  <2>4. CASE turn' = "work" /\ mode' = "busy"
    BY <1>0, <2>1, <2>2, <2>3, <2>4 DEF AgreeInv
  <2>5. CASE older.at = "waiting" /\ mode' = "busy" /\ UNCHANGED <<turn, asking>>
    BY <1>0, <2>1, <2>2, <2>3, <2>5 DEF AgreeInv
  <2>6. CASE UNCHANGED <<turn, asking, dialog, mode>>
    BY <1>0, <2>1, <2>2, <2>3, <2>6 DEF AgreeInv
  <2> QED
    BY <1>6, <2>4, <2>5, <2>6 DEF Answer
<1>7. CASE Steer
  BY <1>0, <1>7 DEF Steer, AgreeInv, asks, late, picked
<1>8. CASE QueueFollowup
  BY <1>0, <1>8 DEF QueueFollowup, AgreeInv, asks, late, picked
<1>9. CASE OpenQueueEdit
  BY <1>0, <1>9 DEF OpenQueueEdit, AgreeInv, asks, late, picked
<1>10. CASE CloseQueueEdit
  BY <1>0, <1>10 DEF CloseQueueEdit, AgreeInv, asks, late, picked
<1>11. CASE DeleteFollowup
  BY <1>0, <1>11 DEF DeleteFollowup, AgreeInv, asks, late, picked
<1>12. CASE Inject
  BY <1>0, <1>12 DEF Inject, AgreeInv, asks, late, picked
<1>13. CASE Ask
  BY <1>0, <1>13 DEF Ask, AgreeInv, asks, late, picked
<1>15. CASE GiveUp
  BY <1>0, <1>15 DEF GiveUp, AgreeInv, asks, late, picked
<1>16. CASE LeaveSubAgent
  BY <1>0, <1>16 DEF LeaveSubAgent, AgreeInv, asks, late, picked
<1>18. CASE End
  BY <1>0, <1>18 DEF End, AgreeInv, asks, late, picked
<1>14. CASE TakeRequest
  BY <1>0, <1>14 DEF TakeRequest, Shown, AgreeInv, asks, late, picked
<1>17. CASE TakeStray
  BY <1>0, <1>17 DEF TakeStray, Shown, AgreeInv, late, picked
<1>27. CASE OldInject
  BY <1>0, <1>27 DEF OldInject, AgreeInv, asks, late, picked
<1>28. CASE OldAsk \/ OldGiveUp \/ OldEnd
  <2>1. covered /\ covered' = covered
    BY <1>28, OldIsCovered DEF OldAsk, OldGiveUp, OldEnd, Nobody, AgreeInv
  <2> QED
    BY <1>0, <1>28, <2>1 DEF OldAsk, OldGiveUp, OldEnd, AgreeInv, asks
<1>29. CASE TakeOldRequest
  <2>1. covered /\ covered' = covered
    BY <1>29, OldIsCovered DEF TakeOldRequest
  <2> QED
    BY <1>0, <1>29, <2>1 DEF TakeOldRequest, Shown, AgreeInv, asks
<1>19. CASE TakeDone
  <2>1. CASE FinishTurn(ticks, older)
    <3>1. ticks \in Nat /\ returnMode' = returnMode /\ (older # Nobody => covered)
      BY <1>0, <1>19 DEF TakeDone
    <3> QED
      BY <2>1, <3>1, TurnFinishes
  <2>2. CASE /\ mode # "busy" /\ turn' = "none" /\ lost' = lost \cup {0}
             /\ UNCHANGED <<mode, live, ctxDone, asking, ticks, hist, followups, covered, older>>
    BY <1>0, <1>19, <2>2 DEF TakeDone, AgreeInv
  <2> QED
    BY <1>19, <2>1, <2>2 DEF TakeDone
<1>30. CASE TakeOldDone
  <2>0. covered
    BY <1>30, OldIsCovered DEF TakeOldDone
  <2>1. CASE FinishTurn(ticks, Abandoned(TRUE))
    <3>1. ticks \in Nat /\ returnMode' = returnMode
      BY <1>0, <1>30 DEF TakeOldDone
    <3> QED
      BY <2>0, <2>1, <3>1, TurnFinishes
  <2>2. CASE /\ older' = Nobody
             /\ UNCHANGED <<mode, live, turn, ctxDone, asking, ticks, hist, followups, lost,
                            covered>>
    BY <1>0, <1>30, <2>0, <2>2 DEF TakeOldDone, AgreeInv
  <2> QED
    BY <1>30, <2>1, <2>2 DEF TakeOldDone
<1>20. CASE Tick
  <2>1. CASE /\ ~live /\ ticks' = ticks - 1
             /\ UNCHANGED <<mode, live, turn, ctxDone, asking, hist, followups, lost, covered,
                            older>>
    BY <1>0, <1>20, <2>1 DEF Tick, AgreeInv
  <2>2. CASE FinishTurn(ticks - 1, older)
    <3>1. ticks - 1 \in Nat /\ returnMode' = returnMode /\ (older # Nobody => covered)
      BY <1>0, <1>20 DEF Tick
    <3> QED
      BY <2>2, <3>1, TurnFinishes
  <2> QED
    BY <1>20, <2>1, <2>2 DEF Tick
<1>21. CASE UNCHANGED vars
  BY <1>0, <1>21 DEF vars, AgreeInv
<1> QED
  BY <1>2, <1>3, <1>4, <1>5, <1>6, <1>7, <1>8, <1>9, <1>10, <1>11, <1>12, <1>13, <1>14,
     <1>15, <1>16, <1>17, <1>18, <1>19, <1>20, <1>21, <1>22, <1>23, <1>24, <1>25, <1>26, <1>27,
     <1>28, <1>29, <1>30
     DEF Next, Keys, Closing, Goroutine, OldGoroutine, Deliveries

(* One turn at a time, shown while it runs, its question on the screen and a  *)
(* tick armed to drain it, for any number of texts, requests, ticks and late  *)
(* choices, each of which excepts the turn it is taken over (root.go,         *)
(* agentturn.go, queueedit.go).                                              *)
THEOREM ScreenAlwaysAgrees == Spec => []ScreenAgrees
<1>1. Init => AgreeInv
  BY AgreeInit
<1>2. AgreeInv /\ [Next]_vars => AgreeInv'
  BY AgreeStep
<1>3. AgreeInv => ScreenAgrees
  BY DEF AgreeInv
<1> QED
  BY <1>1, <1>2, <1>3, PTL DEF Spec
-----------------------------------------------------------------------------
(* The queues as sequences.                                                *)

LEMMA RestOf ==
    ASSUME NEW S, NEW s \in Seq(S), NEW n \in 0..Len(s)
    PROVE  /\ SubSeq(s, n + 1, Len(s)) \in Seq(S)
           /\ Len(SubSeq(s, n + 1, Len(s))) = Len(s) - n
           /\ \A i \in 1..(Len(s) - n) : SubSeq(s, n + 1, Len(s))[i] = s[n + i]
  BY SMTT(30)

LEMMA FirstOf ==
    ASSUME NEW S, NEW s \in Seq(S), s # <<>>, NEW all \in BOOLEAN,
           NEW taken, taken = IF all THEN s ELSE SubSeq(s, 1, 1)
    PROVE  /\ taken \in Seq(S)
           /\ Len(taken) \in 1..Len(s)
           /\ \A i \in 1..Len(taken) : taken[i] = s[i]
  BY SMTT(30)

LEMMA JoinedFacts ==
    ASSUME NEW S, NEW a \in Seq(S), NEW b \in Seq(S)
    PROVE  /\ a \o b \in Seq(S) /\ Len(a \o b) = Len(a) + Len(b)
           /\ Len(a) \in Nat /\ Len(b) \in Nat
           /\ \A k \in 1..Len(a) : (a \o b)[k] = a[k]
           /\ \A k \in 1..Len(b) : (a \o b)[Len(a) + k] = b[k]
  BY SMTT(30)

LEMMA RemovedFrom ==
    ASSUME NEW S, NEW s \in Seq(S), NEW k \in 1..Len(s)
    PROVE  /\ RemoveAt(s, k) \in Seq(S)
           /\ Len(RemoveAt(s, k)) = Len(s) - 1
           /\ \A i \in 1..(Len(s) - 1) :
                 RemoveAt(s, k)[i] = IF i < k THEN s[i] ELSE s[i + 1]
<1>1. /\ SubSeq(s, 1, k - 1) \in Seq(S) /\ Len(SubSeq(s, 1, k - 1)) = k - 1
      /\ \A i \in 1..(k - 1) : SubSeq(s, 1, k - 1)[i] = s[i]
  BY SMTT(30)
<1>2. /\ SubSeq(s, k + 1, Len(s)) \in Seq(S) /\ Len(SubSeq(s, k + 1, Len(s))) = Len(s) - k
      /\ \A i \in 1..(Len(s) - k) : SubSeq(s, k + 1, Len(s))[i] = s[k + i]
  BY RestOf
<1> DEFINE before == SubSeq(s, 1, k - 1)
           after == SubSeq(s, k + 1, Len(s))
<1>3. RemoveAt(s, k) = before \o after
  BY DEF RemoveAt
<1> HIDE DEF before, after
<1>4. before \in Seq(S) /\ after \in Seq(S) /\ Len(before) = k - 1 /\ Len(after) = Len(s) - k
  BY <1>1, <1>2 DEF before, after
<1>5. /\ RemoveAt(s, k) \in Seq(S) /\ Len(RemoveAt(s, k)) = Len(s) - 1
      /\ \A i \in 1..(k - 1) : RemoveAt(s, k)[i] = before[i]
      /\ \A i \in 1..(Len(s) - k) : RemoveAt(s, k)[k - 1 + i] = after[i]
  <2>1. /\ before \o after \in Seq(S) /\ Len(before \o after) = Len(before) + Len(after)
        /\ \A i \in 1..Len(before) : (before \o after)[i] = before[i]
        /\ \A i \in 1..Len(after) : (before \o after)[Len(before) + i] = after[i]
    <3>1. before \in Seq(S) /\ after \in Seq(S)
      BY <1>4
    <3> QED
      BY <3>1, JoinedFacts
  <2> QED
    BY <1>3, <1>4, <2>1
<1>6. ASSUME NEW i \in 1..(Len(s) - 1)
      PROVE  RemoveAt(s, k)[i] = IF i < k THEN s[i] ELSE s[i + 1]
  <2>1. CASE i < k
    BY <1>1, <1>5, <2>1 DEF before
  <2>2. CASE ~(i < k)
    <3>1. PICK j \in 1..(Len(s) - k) : i = k - 1 + j
      BY <2>2
    <3>2. RemoveAt(s, k)[i] = after[j]
      BY <1>5, <3>1
    <3>3. after[j] = s[k + j]
      BY <1>2 DEF after
    <3>4. k + j = i + 1
      BY <3>1
    <3> QED
      BY <2>2, <3>2, <3>3, <3>4
  <2> QED
    BY <2>1, <2>2
<1> QED
  BY <1>5, <1>6

-----------------------------------------------------------------------------
(* Types.                                                                  *)

ControlTypes ==
    /\ toolsEnabled \in BOOLEAN /\ batch \subseteq {"steering", "followups"}
    /\ mode \in {"chat", "overlay", "busy", "dialog", "queue"}
    /\ returnMode \in {"chat", "busy"}
    /\ turn \in {"none", "work", "sending", "waiting", "ending"}
    /\ live \in BOOLEAN /\ ctxDone \in BOOLEAN /\ blocked \in BOOLEAN

AskTypes ==
    /\ asking \in Asked /\ stray \in Asked /\ dialog \in Asked /\ requests \in Asked
    /\ lost \subseteq Asked
    /\ (mode = "dialog") <=> (dialog # 0)
    /\ (turn \in {"sending", "waiting"}) <=> (asking # 0)

TextTypes ==
    /\ hist \in Seq([how : {"submit", "steer", "follow"}, texts : Seq(Texts)])
    /\ steering \in Seq(Texts) /\ followups \in Seq(Texts)
    /\ texts \in 0..MaxTexts /\ deleted \subseteq Texts

(* A plain turn asks for nothing.                                          *)
PlainInv ==
    ~toolsEnabled => turn \notin {"sending", "waiting"} /\ stray = 0 /\ mode # "dialog"

(* A tick more than MaxTicks was armed by a follow-up that left its queue.   *)
TickInv ==
    /\ Len(followups) <= texts
    /\ ticks \in Nat
    /\ ticks <= MaxTicks + texts - Len(followups)

OldTypes == [at : {"none", "work", "sending", "waiting", "ending"}, asking : Asked,
             cancelled : BOOLEAN]

(* What is left of a replaced turn, which had tools.                        *)
LateTypes ==
    /\ chosen \in 0..MaxChoices /\ arrived \in 0..chosen
    /\ covered \in BOOLEAN /\ crossed \in BOOLEAN
    /\ older \in OldTypes
    /\ (older.at \in {"sending", "waiting"}) <=> (older.asking # 0)
    /\ older # Nobody => crossed /\ toolsEnabled

TypeInv == ControlTypes /\ AskTypes /\ TextTypes /\ PlainInv /\ TickInv /\ LateTypes

LEMMA TypeInit == Init => TypeInv
<1> SUFFICES ASSUME Init PROVE TypeInv
  OBVIOUS
<1>1. ControlTypes /\ PlainInv
  BY DEF Init, ControlTypes, PlainInv
<1>2. AskTypes
  BY LimitAssumption DEF Init, AskTypes, Asked
<1>3. TextTypes
  BY LimitAssumption DEF Init, TextTypes
<1>4. TickInv
  BY LimitAssumption DEF Init, TickInv
<1>5. LateTypes
  <2>1. Nobody \in OldTypes
    BY LimitAssumption DEF Nobody, OldTypes, Asked
  <2>2. older = Nobody /\ Nobody.at = "none" /\ Nobody.asking = 0
    BY DEF Init, Nobody
  <2>3. /\ chosen = 0 /\ arrived = 0
        /\ covered \in BOOLEAN /\ crossed \in BOOLEAN
    BY DEF Init
  <2> QED
    BY <2>1, <2>2, <2>3, LimitAssumption DEF LateTypes
<1> QED
  BY <1>1, <1>2, <1>3, <1>4, <1>5 DEF TypeInv

LEMMA FollowupsTaken ==
    ASSUME TextTypes, followups # <<>>
    PROVE  /\ Drained \in Seq(Texts) /\ Len(Drained) \in 1..Len(followups)
           /\ \A i \in 1..Len(Drained) : Drained[i] = followups[i]
           /\ SubSeq(followups, Len(Drained) + 1, Len(followups)) \in Seq(Texts)
           /\ Len(SubSeq(followups, Len(Drained) + 1, Len(followups)))
              = Len(followups) - Len(Drained)
           /\ \A i \in 1..(Len(followups) - Len(Drained)) :
                 SubSeq(followups, Len(Drained) + 1, Len(followups))[i]
                 = followups[Len(Drained) + i]
<1> DEFINE all == "followups" \in batch
<1>1. Drained = IF all THEN followups ELSE SubSeq(followups, 1, 1)
  BY DEF Drained
<1>2. followups \in Seq(Texts) /\ all \in BOOLEAN
  BY DEF TextTypes
<1> HIDE DEF all
<1>3. /\ Drained \in Seq(Texts) /\ Len(Drained) \in 1..Len(followups)
      /\ \A i \in 1..Len(Drained) : Drained[i] = followups[i]
  BY <1>1, <1>2, FirstOf
<1>4. Len(Drained) \in 0..Len(followups)
  BY <1>3
<1> QED
  BY <1>2, <1>3, <1>4, RestOf

LEMMA SteeringTaken ==
    ASSUME TextTypes, steering # <<>>
    PROVE  /\ Injected \in Seq(Texts) /\ Len(Injected) \in 1..Len(steering)
           /\ \A i \in 1..Len(Injected) : Injected[i] = steering[i]
           /\ SubSeq(steering, Len(Injected) + 1, Len(steering)) \in Seq(Texts)
           /\ Len(SubSeq(steering, Len(Injected) + 1, Len(steering)))
              = Len(steering) - Len(Injected)
           /\ \A i \in 1..(Len(steering) - Len(Injected)) :
                 SubSeq(steering, Len(Injected) + 1, Len(steering))[i]
                 = steering[Len(Injected) + i]
<1> DEFINE all == "steering" \in batch
<1>1. Injected = IF all THEN steering ELSE SubSeq(steering, 1, 1)
  BY DEF Injected
<1>2. steering \in Seq(Texts) /\ all \in BOOLEAN
  BY DEF TextTypes
<1> HIDE DEF all
<1>3. /\ Injected \in Seq(Texts) /\ Len(Injected) \in 1..Len(steering)
      /\ \A i \in 1..Len(Injected) : Injected[i] = steering[i]
  BY <1>1, <1>2, FirstOf
<1>4. Len(Injected) \in 0..Len(steering)
  BY <1>3
<1> QED
  BY <1>2, <1>3, <1>4, RestOf
(* A turn that begins or ends forgets its request.                         *)
LEMMA StartsTypes ==
    ASSUME TypeInv, NEW armed, NEW messages, StartTurn(armed, messages),
           mode # "dialog", UNCHANGED <<settings, returnMode, stray, requests, dialog, blocked>>
    PROVE  ControlTypes' /\ AskTypes' /\ PlainInv'
<1>1. ControlTypes /\ AskTypes /\ PlainInv
  BY DEF TypeInv
<1>2. ControlTypes'
  BY <1>1 DEF ControlTypes, StartTurn, settings
<1>3. AskTypes'
  BY <1>1, LimitAssumption DEF AskTypes, StartTurn, Asked
<1>4. PlainInv'
  BY <1>1 DEF PlainInv, StartTurn, settings
<1> QED
  BY <1>2, <1>3, <1>4

LEMMA FinishTypes ==
    ASSUME TypeInv, NEW armed, NEW remaining, FinishTurn(armed, remaining),
           mode # "dialog", UNCHANGED <<settings, returnMode, stray, requests, dialog, blocked>>
    PROVE  ControlTypes' /\ AskTypes' /\ PlainInv'
<1>1. ControlTypes /\ AskTypes /\ PlainInv
  BY DEF TypeInv
<1>2. ASSUME NEW messages, StartTurn(armed, messages)
      PROVE  ControlTypes' /\ AskTypes' /\ PlainInv'
  BY <1>2, StartsTypes
<1>3. CASE /\ mode' \in {"chat", "overlay"} /\ live' = FALSE /\ turn' = "none"
           /\ ctxDone' = FALSE /\ asking' = 0 /\ lost' = {}
  <2>1. ControlTypes'
    BY <1>1, <1>3 DEF ControlTypes, settings
  <2>2. AskTypes'
    BY <1>1, <1>3, LimitAssumption DEF AskTypes, Asked
  <2>3. PlainInv'
    BY <1>1, <1>3 DEF PlainInv, settings
  <2> QED
    BY <2>1, <2>2, <2>3
<1> QED
  BY <1>2, <1>3 DEF FinishTurn

(* A replaced turn with a goroutine had tools.                              *)
LEMMA OldHasTools == ASSUME TypeInv, older.at # "none" PROVE toolsEnabled /\ crossed
<1>1. older # Nobody
  BY DEF Nobody
<1> QED
  BY <1>1 DEF TypeInv, LateTypes

(* Modes, requests and what a plain turn never has.                         *)
LEMMA ControlStep ==
    ASSUME TypeInv, AgreeInv, [Next]_vars
    PROVE  ControlTypes' /\ AskTypes' /\ PlainInv'
<1>0. ControlTypes /\ AskTypes /\ PlainInv /\ QueueInv /\ OneTurn /\ Shape
  BY DEF TypeInv, AgreeInv, ScreenAgrees
<1>1. ASSUME NEW messages, StartOver(messages), mode # "dialog",
             UNCHANGED <<settings, returnMode, stray, requests, dialog, blocked>>
      PROVE  ControlTypes' /\ AskTypes' /\ PlainInv'
  <2>1. CASE StartTurn(ticks, messages)
    BY <1>1, <2>1, StartsTypes
  <2>2. CASE StartTurn(ticks, <<>>)
    BY <1>1, <2>2, StartsTypes
  <2> QED
    BY <1>1, <2>1, <2>2 DEF StartOver
<1>22. CASE Submit
  <2>1. mode # "dialog"
    BY <1>22 DEF Submit
  <2> QED
    BY <1>1, <1>22, <2>1 DEF Submit
<1>23. CASE Retry
  <2>1. mode # "dialog" /\ StartOver(hist)
    BY <1>23 DEF Retry
  <2> QED
    BY <1>1, <1>23, <2>1 DEF Retry
<1>24. CASE AcceptSuggestion
  <2>1. mode # "dialog" /\ StartOver(hist)
    BY <1>24 DEF AcceptSuggestion
  <2> QED
    BY <1>1, <1>24, <2>1 DEF AcceptSuggestion
<1>25. CASE Choose
  BY <1>0, <1>25 DEF Choose, ControlTypes, AskTypes, PlainInv, asks, settings
<1>26. CASE TakeChoice
  BY <1>0, <1>26, LimitAssumption
     DEF TakeChoice, ControlTypes, AskTypes, PlainInv, asks, settings, Asked
<1>27. CASE OldInject
  BY <1>0, <1>27 DEF OldInject, ControlTypes, AskTypes, PlainInv, asks, settings
<1>28. CASE OldAsk
  <2>1. requests' \in Asked
    BY <1>0, <1>28, LimitAssumption DEF OldAsk, AskTypes, Asked
  <2> QED
    BY <1>0, <1>28, <2>1 DEF OldAsk, ControlTypes, AskTypes, PlainInv, settings
<1>29. CASE OldGiveUp
  <2>1. toolsEnabled
    BY <1>29, OldHasTools DEF OldGiveUp
  <2>2. stray' \in Asked
    BY <1>0, <1>29 DEF OldGiveUp, AskTypes, OldTypes, LateTypes, TypeInv
  <2> QED
    BY <1>0, <1>29, <2>1, <2>2 DEF OldGiveUp, ControlTypes, AskTypes, PlainInv, settings
<1>30. CASE OldEnd
  BY <1>0, <1>30 DEF OldEnd, ControlTypes, AskTypes, PlainInv, asks, settings
<1>31. CASE TakeOldRequest
  <2>1. toolsEnabled
    BY <1>31, OldHasTools DEF TakeOldRequest
  <2>2. older.asking \in Asked /\ older.asking # 0
    BY <1>31 DEF TakeOldRequest, OldTypes, LateTypes, TypeInv
  <2>3. Shown(older.asking)
        /\ UNCHANGED <<settings, returnMode, live, turn, ctxDone, asks, blocked, lost>>
    BY <1>31 DEF TakeOldRequest
  <2> QED
    BY <1>0, <2>1, <2>2, <2>3 DEF Shown, ControlTypes, AskTypes, PlainInv, asks, settings
<1>32. CASE TakeOldDone
  <2>1. CASE mode = "busy" /\ FinishTurn(ticks, Abandoned(TRUE))
    <3>1. /\ mode # "dialog"
          /\ UNCHANGED <<settings, returnMode, stray, requests, dialog, blocked>>
      BY <1>32, <2>1 DEF TakeOldDone
    <3> QED
      BY <2>1, <3>1, FinishTypes
  <2>2. CASE UNCHANGED <<mode, live, turn, ctxDone, asking, lost>>
    BY <1>0, <1>32, <2>2 DEF TakeOldDone, ControlTypes, AskTypes, PlainInv, settings
  <2> QED
    BY <1>32, <2>1, <2>2 DEF TakeOldDone
<1>2. CASE OpenOverlay
  BY <1>0, <1>2 DEF OpenOverlay, ControlTypes, AskTypes, PlainInv, asks, settings
<1>3. CASE CloseOverlay
  BY <1>0, <1>3 DEF CloseOverlay, ControlTypes, AskTypes, PlainInv, asks, settings
<1>4. CASE Cancel
  BY <1>0, <1>4 DEF Cancel, ControlTypes, AskTypes, PlainInv, asks, settings
<1>5. CASE CancelDialog
  BY <1>0, <1>5, LimitAssumption DEF CancelDialog, ControlTypes, AskTypes, PlainInv, asks, settings, Asked
<1>6. CASE Answer
  <2>1. ControlTypes'
    BY <1>0, <1>6 DEF Answer, ControlTypes, settings
  <2>2. AskTypes'
    BY <1>0, <1>6, LimitAssumption DEF Answer, AskTypes, asks, Asked
  <2>3. PlainInv'
    BY <1>0, <1>6 DEF Answer, PlainInv, settings, asks
  <2> QED
    BY <2>1, <2>2, <2>3
<1>7. CASE Steer
  BY <1>0, <1>7 DEF Steer, ControlTypes, AskTypes, PlainInv, asks, settings
<1>8. CASE QueueFollowup
  BY <1>0, <1>8 DEF QueueFollowup, ControlTypes, AskTypes, PlainInv, asks, settings
<1>9. CASE OpenQueueEdit
  BY <1>0, <1>9 DEF OpenQueueEdit, ControlTypes, AskTypes, PlainInv, asks, settings
<1>10. CASE CloseQueueEdit
  BY <1>0, <1>10 DEF CloseQueueEdit, ControlTypes, AskTypes, PlainInv, asks, settings
<1>11. CASE DeleteFollowup
  BY <1>0, <1>11 DEF DeleteFollowup, ControlTypes, AskTypes, PlainInv, asks, settings
<1>12. CASE Inject
  BY <1>0, <1>12 DEF Inject, ControlTypes, AskTypes, PlainInv, asks, settings
<1>13. CASE Ask
  <2>1. requests' \in Asked /\ requests' # 0
    BY <1>0, <1>13, LimitAssumption DEF Ask, AskTypes, Asked
  <2> QED
    BY <1>0, <1>13, <2>1 DEF Ask, ControlTypes, AskTypes, PlainInv, settings
<1>14. CASE TakeRequest
  BY <1>0, <1>14 DEF TakeRequest, Shown, ControlTypes, AskTypes, PlainInv, asks, settings
<1>15. CASE GiveUp
  BY <1>0, <1>15, LimitAssumption DEF GiveUp, ControlTypes, AskTypes, PlainInv, settings, Asked
<1>16. CASE LeaveSubAgent
  BY <1>0, <1>16, LimitAssumption DEF LeaveSubAgent, ControlTypes, AskTypes, PlainInv, settings, Asked
<1>17. CASE TakeStray
  <2>1. ControlTypes'
    BY <1>0, <1>17 DEF TakeStray, Shown, ControlTypes, settings
  <2>2. AskTypes'
    <3>1. /\ stray \in Asked /\ stray # 0 /\ stray' = 0 /\ 0 \in Asked
          /\ UNCHANGED <<asking, requests, turn, lost>>
      BY <1>0, <1>17, LimitAssumption DEF TakeStray, AskTypes, Asked
    <3>2. CASE mode = "busy" /\ mode' = "dialog" /\ dialog' = stray
      BY <1>0, <3>1, <3>2 DEF AskTypes
    <3>3. CASE UNCHANGED <<mode, dialog>>
      BY <1>0, <3>1, <3>3 DEF AskTypes
    <3> QED
      BY <1>17, <3>2, <3>3 DEF TakeStray, Shown
  <2>3. PlainInv'
    BY <1>0, <1>17 DEF TakeStray, Shown, PlainInv, settings
  <2> QED
    BY <2>1, <2>2, <2>3
<1>18. CASE End
  BY <1>0, <1>18 DEF End, ControlTypes, AskTypes, PlainInv, asks, settings
<1>19. CASE TakeDone
  <2>1. CASE mode = "busy" /\ FinishTurn(ticks, older)
    <3>1. /\ mode # "dialog"
          /\ UNCHANGED <<settings, returnMode, stray, requests, dialog, blocked>>
      BY <1>19, <2>1 DEF TakeDone
    <3> QED
      BY <2>1, <3>1, FinishTypes
  <2>2. CASE /\ turn' = "none" /\ lost' = lost \cup {0}
             /\ UNCHANGED <<mode, live, ctxDone, asking>>
    BY <1>0, <1>19, <2>2, LimitAssumption
       DEF TakeDone, ControlTypes, AskTypes, PlainInv, settings, Asked
  <2> QED
    BY <1>19, <2>1, <2>2 DEF TakeDone
<1>20. CASE Tick
  <2>1. CASE UNCHANGED <<mode, live, turn, ctxDone, asking, lost>>
    BY <1>0, <1>20, <2>1 DEF Tick, ControlTypes, AskTypes, PlainInv, settings
  <2>2. CASE ~toolsEnabled /\ FinishTurn(ticks - 1, older)
    <3>1. /\ mode # "dialog"
          /\ UNCHANGED <<settings, returnMode, stray, requests, dialog, blocked>>
      BY <1>0, <1>20, <2>2 DEF Tick, PlainInv
    <3> QED
      BY <2>2, <3>1, FinishTypes
  <2> QED
    BY <1>20, <2>1, <2>2 DEF Tick
<1>21. CASE UNCHANGED vars
  BY <1>0, <1>21 DEF vars, ControlTypes, AskTypes, PlainInv, asks, settings
<1> QED
  BY <1>2, <1>3, <1>4, <1>5, <1>6, <1>7, <1>8, <1>9, <1>10, <1>11, <1>12, <1>13, <1>14,
     <1>15, <1>16, <1>17, <1>18, <1>19, <1>20, <1>21, <1>22, <1>23, <1>24, <1>25, <1>26,
     <1>27, <1>28, <1>29, <1>30, <1>31, <1>32
     DEF Next, Keys, Closing, Goroutine, OldGoroutine, Deliveries

(* The goroutine left behind is one that was there.                        *)
LEMMA AbandonedTypes ==
    ASSUME TypeInv, NEW c \in BOOLEAN
    PROVE  /\ Abandoned(c) \in OldTypes
           /\ (Abandoned(c).at \in {"sending", "waiting"}) <=> (Abandoned(c).asking # 0)
<1>1. turn \in {"none", "work", "sending", "waiting", "ending"} /\ asking \in Asked
      /\ ((turn \in {"sending", "waiting"}) <=> (asking # 0)) /\ 0 \in Asked
  BY LimitAssumption DEF TypeInv, ControlTypes, AskTypes, Asked
<1>2. CASE turn = "none"
  BY <1>1, <1>2 DEF Abandoned, Nobody, OldTypes
<1>3. CASE turn # "none"
  BY <1>1, <1>3 DEF Abandoned, OldTypes
<1> QED
  BY <1>2, <1>3

LEMMA LateStep == ASSUME TypeInv, [Next]_vars PROVE LateTypes'
<1>0. LateTypes /\ ctxDone \in BOOLEAN /\ 0 \in Asked /\ MaxChoices \in Nat
  BY LimitAssumption DEF TypeInv, ControlTypes, Asked
<1>1. ASSUME UNCHANGED <<toolsEnabled, picked>>, covered' \in BOOLEAN, crossed' \in BOOLEAN,
             older' \in OldTypes,
             (older'.at \in {"sending", "waiting"}) <=> (older'.asking # 0),
             older' # Nobody => crossed' /\ toolsEnabled
      PROVE  LateTypes'
  BY <1>0, <1>1 DEF LateTypes, picked
<1>2. ASSUME UNCHANGED <<toolsEnabled, late>> PROVE LateTypes'
  BY <1>0, <1>2 DEF LateTypes, late, picked
<1>3. ASSUME NEW messages, StartOver(messages), UNCHANGED settings PROVE LateTypes'
  <2>1. CASE UNCHANGED <<older, crossed>>
    BY <1>0, <1>2, <1>3, <2>1 DEF StartOver, settings, late
  <2>2. CASE live /\ toolsEnabled /\ older' = Abandoned(ctxDone) /\ crossed' = TRUE
    <3>1. UNCHANGED <<toolsEnabled, picked, covered>>
      BY <1>3 DEF StartOver, settings
    <3>2. /\ Abandoned(ctxDone) \in OldTypes
          /\ (Abandoned(ctxDone).at \in {"sending", "waiting"}) <=> (Abandoned(ctxDone).asking # 0)
      BY <1>0, AbandonedTypes
    <3> HIDE DEF Nobody, Abandoned
    <3>3. covered' \in BOOLEAN
      BY <1>0, <3>1 DEF LateTypes
    <3> QED
      BY <1>1, <2>2, <3>1, <3>2, <3>3
  <2> QED
    BY <1>3, <2>1, <2>2 DEF StartOver
<1>4. ASSUME NEW armed, NEW remaining, FinishTurn(armed, remaining), UNCHANGED <<settings, picked, crossed>>,
             remaining \in OldTypes, (remaining.at \in {"sending", "waiting"}) <=> (remaining.asking # 0),
             remaining # Nobody => crossed /\ toolsEnabled
      PROVE  LateTypes'
  <2>1. older' = remaining /\ covered' \in BOOLEAN
    BY <1>4 DEF FinishTurn
  <2>2. UNCHANGED <<toolsEnabled, picked, crossed>> /\ crossed \in BOOLEAN
    BY <1>0, <1>4 DEF settings, LateTypes
  <2> QED
    BY <1>1, <1>4, <2>1, <2>2
<1>5. CASE Submit
  BY <1>3, <1>5 DEF Submit
<1>6. CASE Retry
  BY <1>3, <1>6 DEF Retry
<1>7. CASE AcceptSuggestion
  BY <1>3, <1>7 DEF AcceptSuggestion
<1>8. CASE Choose
  BY <1>0, <1>8 DEF Choose, LateTypes, settings
<1>9. CASE TakeChoice
  <2>1. covered' \in BOOLEAN
    BY <1>9 DEF TakeChoice
  <2> QED
    BY <1>0, <1>9, <2>1 DEF TakeChoice, LateTypes, settings
<1>10. ASSUME NEW at \in {"work", "waiting", "ending"}, NEW ask \in Asked,
              older' = [older EXCEPT !.at = at, !.asking = ask],
              (at = "waiting") <=> (ask # 0),
              UNCHANGED <<settings, picked, covered, crossed>>, older.at # "none"
       PROVE  LateTypes'
  <2>1. older' \in OldTypes /\ older'.at = at /\ older'.asking = ask
    BY <1>0, <1>10 DEF LateTypes, OldTypes
  <2>2. crossed /\ toolsEnabled
    BY <1>10, OldHasTools
  <2>3. UNCHANGED <<toolsEnabled, picked, covered, crossed>>
    BY <1>10 DEF settings
  <2>4. covered' \in BOOLEAN /\ crossed' \in BOOLEAN
    BY <1>0, <2>3 DEF LateTypes
  <2> QED
    BY <1>1, <1>10, <2>1, <2>2, <2>3, <2>4
<1>11. CASE Answer
  <2>1. CASE UNCHANGED older
    BY <1>2, <1>11, <2>1 DEF Answer, settings, late
  <2>2. CASE older.at = "waiting" /\ older' = [older EXCEPT !.at = "work", !.asking = 0]
    BY <1>0, <1>10, <1>11, <2>2 DEF Answer
  <2> QED
    BY <1>11, <2>1, <2>2 DEF Answer
<1>12. CASE OldGiveUp
  BY <1>0, <1>10, <1>12 DEF OldGiveUp
<1>13. CASE OldEnd
  <2>1. older' = [older EXCEPT !.at = "ending", !.asking = 0]
    <3>1. older \in OldTypes /\ older.asking = 0
      BY <1>0, <1>13 DEF OldEnd, LateTypes
    <3>2. older' = [older EXCEPT !.at = "ending"]
      BY <1>13 DEF OldEnd
    <3> QED
      BY <3>1, <3>2 DEF OldTypes
  <2> QED
    BY <1>0, <1>10, <1>13, <2>1 DEF OldEnd
<1>14. CASE TakeOldRequest
  <2>1. older \in OldTypes /\ older.asking # 0 /\ older.asking \in Asked
    BY <1>0, <1>14 DEF TakeOldRequest, LateTypes, OldTypes
  <2>2. older' = [older EXCEPT !.at = "waiting", !.asking = older.asking]
    <3>1. older' = [older EXCEPT !.at = "waiting"]
      BY <1>14 DEF TakeOldRequest
    <3> QED
      BY <2>1, <3>1 DEF OldTypes
  <2> QED
    BY <1>0, <1>10, <1>14, <2>1, <2>2 DEF TakeOldRequest
<1>15. CASE OldAsk
  <2>1. requests' \in Asked /\ requests' # 0
    BY <1>15, LimitAssumption DEF OldAsk, TypeInv, AskTypes, Asked
  <2>2. older' \in OldTypes /\ older'.at = "sending" /\ older'.asking = requests'
    BY <1>0, <1>15, <2>1 DEF OldAsk, LateTypes, OldTypes
  <2>3. crossed /\ toolsEnabled
    BY <1>15, OldHasTools DEF OldAsk
  <2>4. UNCHANGED <<toolsEnabled, picked, covered, crossed>>
    BY <1>15 DEF OldAsk, settings
  <2>5. covered' \in BOOLEAN /\ crossed' \in BOOLEAN
    BY <1>0, <2>4 DEF LateTypes
  <2> QED
    BY <1>1, <2>1, <2>2, <2>3, <2>4, <2>5
<1>16. CASE TakeDone
  <2>1. CASE FinishTurn(ticks, older)
    BY <1>0, <1>4, <1>16, <2>1 DEF TakeDone, LateTypes
  <2>2. CASE UNCHANGED <<covered, older>>
    BY <1>2, <1>16, <2>2 DEF TakeDone, settings, late
  <2> QED
    BY <1>16, <2>1, <2>2 DEF TakeDone
<1>17. CASE Tick
  <2>1. CASE FinishTurn(ticks - 1, older)
    BY <1>0, <1>4, <1>17, <2>1 DEF Tick, LateTypes
  <2>2. CASE UNCHANGED <<covered, older>>
    BY <1>2, <1>17, <2>2 DEF Tick, settings, late
  <2> QED
    BY <1>17, <2>1, <2>2 DEF Tick
<1>18. CASE TakeOldDone
  <2>0. crossed /\ toolsEnabled /\ UNCHANGED <<settings, picked, crossed>>
    BY <1>18, OldHasTools DEF TakeOldDone
  <2>1. CASE FinishTurn(ticks, Abandoned(TRUE))
    <3>1. /\ Abandoned(TRUE) \in OldTypes
          /\ (Abandoned(TRUE).at \in {"sending", "waiting"}) <=> (Abandoned(TRUE).asking # 0)
      BY AbandonedTypes
    <3> HIDE DEF Abandoned, Nobody
    <3> QED
      BY <1>4, <2>0, <2>1, <3>1
  <2>2. CASE older' = Nobody /\ UNCHANGED covered
    <3>1. /\ Nobody \in OldTypes
          /\ (Nobody.at \in {"sending", "waiting"}) <=> (Nobody.asking # 0)
      BY <1>0 DEF Nobody, OldTypes
    <3>2. UNCHANGED <<toolsEnabled, picked, covered, crossed>>
      BY <2>0, <2>2 DEF settings
    <3>3. covered' \in BOOLEAN /\ crossed' \in BOOLEAN
      BY <1>0, <3>2 DEF LateTypes
    <3> HIDE DEF Nobody
    <3> QED
      BY <1>1, <2>2, <3>1, <3>2, <3>3
  <2> QED
    BY <1>18, <2>1, <2>2 DEF TakeOldDone
<1>19. CASE \/ OpenOverlay \/ CloseOverlay \/ Cancel \/ CancelDialog \/ Steer \/ QueueFollowup
            \/ OpenQueueEdit \/ CloseQueueEdit \/ DeleteFollowup \/ Inject \/ Ask \/ TakeRequest
            \/ GiveUp \/ LeaveSubAgent \/ TakeStray \/ End \/ OldInject \/ UNCHANGED vars
  <2>1. UNCHANGED <<toolsEnabled, late>>
    BY <1>19 DEF OpenOverlay, CloseOverlay, Cancel, CancelDialog, Steer, QueueFollowup,
       OpenQueueEdit, CloseQueueEdit, DeleteFollowup, Inject, Ask, TakeRequest, GiveUp,
       LeaveSubAgent, TakeStray, End, OldInject, vars, settings, late, picked
  <2> QED
    BY <1>2, <2>1
<1> QED
  BY <1>5, <1>6, <1>7, <1>8, <1>9, <1>11, <1>12, <1>13, <1>14, <1>15, <1>16, <1>17, <1>18, <1>19
     DEF Next, Keys, Closing, Goroutine, OldGoroutine, Deliveries

(* A conversation that is followed becomes this one.                        *)
HistBecomes(h) == hist' = h \/ (hist' = <<>> /\ crossed')

(* What can happen to the texts in a step: nothing, a new one at one of the  *)
(* three ends, the delivery of the queued ones, a deletion, or what the      *)
(* goroutine of a replaced turn takes.                                       *)
TextsStay == HistBecomes(hist) /\ UNCHANGED <<steering, followups, texts, deleted>>

TextSubmitted ==
    /\ texts < MaxTexts /\ texts' = texts + 1
    /\ HistBecomes(Append(hist, Message("submit", <<texts'>>)))
    /\ UNCHANGED <<steering, followups, deleted>>

TextSteered ==
    /\ texts < MaxTexts /\ texts' = texts + 1
    /\ steering' = Append(steering, texts')
    /\ UNCHANGED <<hist, followups, deleted>>

TextQueued ==
    /\ texts < MaxTexts /\ texts' = texts + 1
    /\ followups' = Append(followups, texts')
    /\ UNCHANGED <<hist, steering, deleted>>

TextFollows ==
    /\ followups # <<>>
    /\ HistBecomes(Append(hist, Message("follow", Drained)))
    /\ followups' = SubSeq(followups, Len(Drained) + 1, Len(followups))
    /\ UNCHANGED <<steering, texts, deleted>>

TextInjected ==
    /\ steering # <<>>
    /\ HistBecomes(hist \o [k \in DOMAIN Injected |-> Message("steer", <<Injected[k]>>)])
    /\ steering' = SubSeq(steering, Len(Injected) + 1, Len(steering))
    /\ UNCHANGED <<followups, texts, deleted>>

TextDeleted ==
    /\ \E k \in DOMAIN followups :
          /\ followups' = RemoveAt(followups, k)
          /\ deleted' = deleted \cup {followups[k]}
    /\ UNCHANGED <<hist, steering, texts>>

TextTaken ==
    /\ crossed'
    /\ steering # <<>>
    /\ steering' = SubSeq(steering, Len(Injected) + 1, Len(steering))
    /\ UNCHANGED <<hist, followups, texts, deleted>>

(* Two turns that met have met for good.                                    *)
LEMMA CrossedStays == ASSUME TypeInv, [Next]_vars, crossed PROVE crossed'
<1>1. CASE Submit \/ Retry \/ AcceptSuggestion
  BY <1>1 DEF Submit, Retry, AcceptSuggestion, StartOver
<1>2. CASE TakeDone \/ Tick \/ TakeOldDone
  BY <1>2 DEF TakeDone, Tick, TakeOldDone
<1>3. CASE Answer \/ Choose \/ TakeChoice \/ OldGiveUp \/ OldEnd \/ OldAsk \/ TakeOldRequest
  BY <1>3 DEF Answer, Choose, TakeChoice, OldGiveUp, OldEnd, OldAsk, TakeOldRequest
<1>4. CASE \/ OpenOverlay \/ CloseOverlay \/ Cancel \/ CancelDialog \/ Steer \/ QueueFollowup
           \/ OpenQueueEdit \/ CloseQueueEdit \/ DeleteFollowup \/ Inject \/ Ask \/ TakeRequest
           \/ GiveUp \/ LeaveSubAgent \/ TakeStray \/ End \/ OldInject \/ UNCHANGED vars
  BY <1>4 DEF OpenOverlay, CloseOverlay, Cancel, CancelDialog, Steer, QueueFollowup,
     OpenQueueEdit, CloseQueueEdit, DeleteFollowup, Inject, Ask, TakeRequest, GiveUp,
     LeaveSubAgent, TakeStray, End, OldInject, vars, late
<1> QED
  BY <1>1, <1>2, <1>3, <1>4 DEF Next, Keys, Closing, Goroutine, OldGoroutine, Deliveries

LEMMA FollowedFacts ==
    ASSUME NEW h, hist' = Followed(h), crossed => crossed'
    PROVE  HistBecomes(h)
  BY DEF Followed, HistBecomes

LEMMA FinishedTexts ==
    ASSUME NEW armed, NEW remaining, FinishTurn(armed, remaining), UNCHANGED <<steering, texts, deleted>>,
           crossed => crossed'
    PROVE  \/ TextsStay /\ ticks' = armed
           \/ TextFollows /\ ticks' = armed + 1
<1>1. CASE UNCHANGED <<hist, followups>> /\ ticks' = armed
  BY <1>1 DEF TextsStay, HistBecomes
<1>2. CASE /\ followups # <<>>
           /\ followups' = SubSeq(followups, Len(Drained) + 1, Len(followups))
           /\ StartTurn(armed, Append(hist, Message("follow", Drained)))
  <2>1. HistBecomes(Append(hist, Message("follow", Drained))) /\ ticks' = armed + 1
    BY <1>2, FollowedFacts DEF StartTurn
  <2> QED
    BY <1>2, <2>1 DEF TextFollows
<1> QED
  BY <1>1, <1>2 DEF FinishTurn

LEMMA StartedTexts ==
    ASSUME NEW messages, StartOver(messages), crossed => crossed'
    PROVE  HistBecomes(messages) /\ ticks < MaxTicks /\ ticks' = ticks + 1
<1>1. CASE StartTurn(ticks, messages)
  BY <1>1, FollowedFacts DEF StartOver, StartTurn
<1>2. CASE StartTurn(ticks, <<>>) /\ crossed' = TRUE
  BY <1>2 DEF StartOver, StartTurn, Followed, HistBecomes
<1> QED
  BY <1>1, <1>2 DEF StartOver

(* Every step is one of these, and arms at most one tick more, under the     *)
(* bound unless a follow-up leaves its queue.                               *)
LEMMA TextSteps ==
    ASSUME TypeInv, [Next]_vars
    PROVE  \/ TextsStay /\ ticks' <= ticks
           \/ TextsStay /\ ticks < MaxTicks /\ ticks' = ticks + 1
           \/ TextSubmitted /\ ticks < MaxTicks /\ ticks' = ticks + 1
           \/ (TextSteered \/ TextQueued \/ TextInjected \/ TextDeleted \/ TextTaken)
              /\ ticks' = ticks
           \/ TextFollows /\ ticks' <= ticks + 1
<1>0. ticks \in Nat /\ (crossed => crossed')
  BY CrossedStays DEF TypeInv, TickInv
<1>1. CASE Submit
  <2>1. /\ StartOver(Append(hist, Message("submit", <<texts'>>)))
        /\ texts < MaxTexts /\ texts' = texts + 1 /\ UNCHANGED <<steering, followups, deleted>>
    BY <1>1 DEF Submit
  <2> QED
    BY <1>0, <2>1, StartedTexts DEF TextSubmitted
<1>2. CASE Retry \/ AcceptSuggestion
  <2>1. StartOver(hist) /\ UNCHANGED <<steering, followups, texts, deleted>>
    BY <1>2 DEF Retry, AcceptSuggestion, queues
  <2> QED
    BY <1>0, <2>1, StartedTexts DEF TextsStay
<1>3. CASE Cancel
  BY <1>0, <1>3 DEF Cancel, TextsStay, HistBecomes, queues
<1>4. CASE Steer \/ QueueFollowup
  BY <1>4 DEF Steer, QueueFollowup, TextSteered, TextQueued
<1>5. CASE DeleteFollowup
  BY <1>5 DEF DeleteFollowup, TextDeleted
<1>6. CASE Inject
  <2>1. HistBecomes(hist \o [k \in DOMAIN Injected |-> Message("steer", <<Injected[k]>>)])
    BY <1>0, <1>6, FollowedFacts DEF Inject
  <2> QED
    BY <1>6, <2>1 DEF Inject, TextInjected
<1>7. CASE TakeDone
  <2>1. CASE FinishTurn(ticks, older)
    BY <1>0, <1>7, <2>1, FinishedTexts DEF TakeDone
  <2>2. CASE UNCHANGED <<ticks, hist, followups>>
    BY <1>0, <1>7, <2>2 DEF TakeDone, TextsStay, HistBecomes
  <2> QED
    BY <1>7, <2>1, <2>2 DEF TakeDone
<1>8. CASE Tick
  <2>1. CASE ticks' = ticks - 1 /\ UNCHANGED <<hist, followups>>
    BY <1>0, <1>8, <2>1 DEF Tick, TextsStay, HistBecomes
  <2>2. CASE FinishTurn(ticks - 1, older)
    <3>1. UNCHANGED <<steering, texts, deleted>>
      BY <1>8 DEF Tick
    <3>1a. \/ TextsStay /\ ticks' = ticks - 1
           \/ TextFollows /\ ticks' = ticks - 1 + 1
      BY <1>0, <2>2, <3>1, FinishedTexts
    <3>2. CASE TextsStay /\ ticks' = ticks - 1
      <4>1. ticks' <= ticks
        BY <1>0, <3>2
      <4> QED
        BY <3>2, <4>1
    <3>3. CASE TextFollows /\ ticks' = ticks - 1 + 1
      <4>1. ticks' <= ticks + 1
        BY <1>0, <3>3
      <4> QED
        BY <3>3, <4>1
    <3> QED
      BY <3>1a, <3>2, <3>3
  <2> QED
    BY <1>8, <2>1, <2>2 DEF Tick
<1>10. CASE TakeOldDone
  <2>1. CASE FinishTurn(ticks, Abandoned(TRUE))
    <3>1. UNCHANGED <<steering, texts, deleted>>
      BY <1>10 DEF TakeOldDone
    <3>2. \/ TextsStay /\ ticks' = ticks
          \/ TextFollows /\ ticks' = ticks + 1
      BY <1>0, <2>1, <3>1, FinishedTexts
    <3> QED
      BY <1>0, <3>2
  <2>2. CASE UNCHANGED <<ticks, hist, followups>>
    BY <1>0, <1>10, <2>2 DEF TakeOldDone, TextsStay, HistBecomes
  <2> QED
    BY <1>10, <2>1, <2>2 DEF TakeOldDone
<1>11. CASE OldInject
  <2>1. crossed
    BY <1>11, OldHasTools DEF OldInject
  <2> QED
    BY <1>0, <1>11, <2>1 DEF OldInject, TextTaken
<1>12. CASE Choose \/ TakeChoice \/ OldAsk \/ OldGiveUp \/ OldEnd \/ TakeOldRequest
  <2>1. UNCHANGED <<hist, queues, ticks>>
    BY <1>12 DEF Choose, TakeChoice, OldAsk, OldGiveUp, OldEnd, TakeOldRequest
  <2> QED
    BY <1>0, <2>1 DEF queues, TextsStay, HistBecomes
<1>9. CASE \/ OpenOverlay \/ CloseOverlay \/ CancelDialog \/ Answer \/ OpenQueueEdit
           \/ CloseQueueEdit \/ Ask \/ TakeRequest \/ GiveUp \/ LeaveSubAgent \/ TakeStray
           \/ End \/ UNCHANGED vars
  <2>1. UNCHANGED <<hist, queues, ticks>>
    BY <1>9 DEF OpenOverlay, CloseOverlay, CancelDialog, Answer, OpenQueueEdit, CloseQueueEdit,
                Ask, TakeRequest, GiveUp, LeaveSubAgent, TakeStray, End, vars, queues
  <2> QED
    BY <1>0, <2>1 DEF queues, TextsStay, HistBecomes
<1> QED
  BY <1>1, <1>2, <1>3, <1>4, <1>5, <1>6, <1>7, <1>8, <1>9, <1>10, <1>11, <1>12
     DEF Next, Keys, Closing, Goroutine, OldGoroutine, Deliveries

TextMessages == [how : {"submit", "steer", "follow"}, texts : Seq(Texts)]

LEMMA MessageFacts ==
    ASSUME NEW how \in {"submit", "steer", "follow"}, NEW ts \in Seq(Texts)
    PROVE  /\ Message(how, ts) \in TextMessages
           /\ Message(how, ts).how = how /\ Message(how, ts).texts = ts
  BY DEF Message, TextMessages

LEMMA SteeredMessages ==
    ASSUME NEW s \in Seq(Texts)
    PROVE  /\ [k \in DOMAIN s |-> Message("steer", <<s[k]>>)] \in Seq(TextMessages)
           /\ Len([k \in DOMAIN s |-> Message("steer", <<s[k]>>)]) = Len(s)
           /\ \A k \in 1..Len(s) :
                 [i \in DOMAIN s |-> Message("steer", <<s[i]>>)][k] = Message("steer", <<s[k]>>)
<1>1. DOMAIN s = 1..Len(s) /\ Len(s) \in Nat
  OBVIOUS
<1>2. ASSUME NEW k \in 1..Len(s) PROVE Message("steer", <<s[k]>>) \in TextMessages
  <2>1. s[k] \in Texts
    OBVIOUS
  <2>2. <<s[k]>> \in Seq(Texts)
    BY <2>1
  <2> QED
    BY <2>2, MessageFacts
<1> HIDE DEF TextMessages
<1> DEFINE m == [k \in 1..Len(s) |-> Message("steer", <<s[k]>>)]
<1>3. m \in [1..Len(s) -> TextMessages]
  BY <1>2
<1> HIDE DEF m
<1>4. m \in Seq(TextMessages) /\ Len(m) = Len(s)
  BY <1>1, <1>3
<1> QED
  BY <1>1, <1>4 DEF m

LEMMA TextTypesStep == ASSUME TypeInv, [Next]_vars PROVE TextTypes'
<1>0. TextTypes /\ MaxTexts \in Nat
  BY LimitAssumption DEF TypeInv
<1>9. ASSUME NEW h \in Seq(TextMessages), HistBecomes(h) PROVE hist' \in Seq(TextMessages)
  <2>1. CASE hist' = h
    BY <2>1
  <2>2. CASE hist' = <<>>
    <3>1. <<>> \in Seq(TextMessages)
      OBVIOUS
    <3> QED
      BY <2>2, <3>1
  <2> QED
    BY <1>9, <2>1, <2>2 DEF HistBecomes
<1>1. CASE TextsStay
  <2>1. hist \in Seq(TextMessages)
    BY <1>0 DEF TextTypes, TextMessages
  <2>2. hist' \in Seq(TextMessages)
    BY <1>1, <1>9, <2>1 DEF TextsStay
  <2> QED
    BY <1>0, <1>1, <2>2 DEF TextTypes, TextsStay, TextMessages
<1>2. ASSUME texts < MaxTexts, texts' = texts + 1
      PROVE  texts' \in 0..MaxTexts /\ texts' \in Texts /\ <<texts'>> \in Seq(Texts)
  BY <1>0, <1>2 DEF TextTypes, Texts
<1>3. CASE TextSubmitted
  <2>1. Message("submit", <<texts'>>) \in TextMessages
    BY <1>2, <1>3, MessageFacts DEF TextSubmitted
  <2>2. hist' \in Seq(TextMessages)
    <3>1. Append(hist, Message("submit", <<texts'>>)) \in Seq(TextMessages)
      BY <1>0, <2>1 DEF TextTypes, TextMessages
    <3> QED
      BY <1>3, <1>9, <3>1 DEF TextSubmitted
  <2> QED
    BY <1>0, <1>2, <1>3, <2>2 DEF TextSubmitted, TextTypes, TextMessages
<1>4. CASE TextSteered
  BY <1>0, <1>2, <1>4 DEF TextSteered, TextTypes
<1>5. CASE TextQueued
  BY <1>0, <1>2, <1>5 DEF TextQueued, TextTypes
<1>6. CASE TextFollows
  <2>1. Message("follow", Drained) \in TextMessages /\ followups' \in Seq(Texts)
    BY <1>0, <1>6, FollowupsTaken, MessageFacts DEF TextFollows
  <2>2. hist' \in Seq(TextMessages)
    <3>1. Append(hist, Message("follow", Drained)) \in Seq(TextMessages)
      BY <1>0, <2>1 DEF TextTypes, TextMessages
    <3> QED
      BY <1>6, <1>9, <3>1 DEF TextFollows
  <2> QED
    BY <1>0, <1>6, <2>1, <2>2 DEF TextFollows, TextTypes, TextMessages
<1>7. CASE TextInjected
  <2>1. Injected \in Seq(Texts) /\ steering' \in Seq(Texts)
    BY <1>0, <1>7, SteeringTaken DEF TextInjected
  <2> DEFINE new == [k \in DOMAIN Injected |-> Message("steer", <<Injected[k]>>)]
  <2>2. new \in Seq(TextMessages) /\ HistBecomes(hist \o new) /\ hist \in Seq(TextMessages)
    BY <1>0, <1>7, <2>1, SteeredMessages DEF TextInjected, TextTypes, TextMessages
  <2> HIDE DEF new
  <2>3. hist' \in Seq(TextMessages)
    <3>1. hist \o new \in Seq(TextMessages)
      BY <2>2
    <3> QED
      BY <1>9, <2>2, <3>1
  <2> QED
    BY <1>0, <1>7, <2>1, <2>3 DEF TextInjected, TextTypes, TextMessages
<1>8. CASE TextDeleted
  <2>1. PICK k \in DOMAIN followups :
           followups' = RemoveAt(followups, k) /\ deleted' = deleted \cup {followups[k]}
    BY <1>8 DEF TextDeleted
  <2>2. followups \in Seq(Texts) /\ k \in 1..Len(followups) /\ followups[k] \in Texts
    BY <1>0 DEF TextTypes
  <2>3. followups' \in Seq(Texts)
    BY <2>1, <2>2, RemovedFrom
  <2> QED
    BY <1>0, <1>8, <2>1, <2>2, <2>3 DEF TextDeleted, TextTypes
<1>10. CASE TextTaken
  BY <1>0, <1>10, SteeringTaken DEF TextTaken, TextTypes
<1> QED
  BY <1>1, <1>3, <1>4, <1>5, <1>6, <1>7, <1>8, <1>10, TextSteps

LEMMA TickStep == ASSUME TypeInv, [Next]_vars PROVE TickInv'
<1>0. TextTypes /\ TickInv /\ MaxTicks \in Nat /\ texts \in Nat /\ Len(followups) \in Nat
  BY LimitAssumption DEF TypeInv, TextTypes
<1>1. ticks' \in Nat
  <2>1. CASE UNCHANGED ticks \/ ticks' = ticks + 1
    BY <1>0, <2>1 DEF TickInv
  <2>2. CASE Tick
    BY <1>0, <2>2 DEF Tick, FinishTurn, StartTurn, TickInv
  <2> QED
    BY <2>1, <2>2
       DEF Next, Keys, Closing, Goroutine, Deliveries, vars, Submit, Retry, AcceptSuggestion,
           OpenOverlay, CloseOverlay, Cancel, CancelDialog, Answer, Steer, QueueFollowup,
           OpenQueueEdit, CloseQueueEdit, DeleteFollowup, Inject, Ask, TakeRequest, GiveUp,
           LeaveSubAgent, TakeStray, End, TakeDone, FinishTurn, StartTurn, StartOver, Choose,
           TakeChoice, OldGoroutine, OldInject, OldAsk, OldGiveUp, OldEnd, TakeOldRequest,
           TakeOldDone
<1>2. CASE TextsStay /\ ticks' <= ticks
  BY <1>0, <1>1, <1>2 DEF TextsStay, TickInv
<1>3. CASE TextsStay /\ ticks < MaxTicks /\ ticks' = ticks + 1
  BY <1>0, <1>1, <1>3 DEF TextsStay, TickInv
<1>4. CASE TextSubmitted /\ ticks < MaxTicks /\ ticks' = ticks + 1
  <2>1. texts' = texts + 1 /\ followups' = followups
    BY <1>4 DEF TextSubmitted
  <2> QED
    BY <1>0, <1>1, <1>4, <2>1 DEF TickInv
<1>5. CASE TextSteered /\ ticks' = ticks
  <2>1. texts' = texts + 1 /\ followups' = followups
    BY <1>5 DEF TextSteered
  <2> QED
    BY <1>0, <1>1, <1>5, <2>1 DEF TickInv
<1>6. CASE TextQueued /\ ticks' = ticks
  <2>1. texts' = texts + 1 /\ Len(followups') = Len(followups) + 1
    BY <1>0, <1>6 DEF TextQueued, TextTypes
  <2> QED
    BY <1>0, <1>1, <1>6, <2>1 DEF TickInv
<1>7. CASE TextInjected /\ ticks' = ticks
  <2>1. texts' = texts /\ followups' = followups
    BY <1>7 DEF TextInjected
  <2> QED
    BY <1>0, <1>1, <1>7, <2>1 DEF TickInv
<1>8. CASE TextDeleted /\ ticks' = ticks
  <2>1. PICK k \in DOMAIN followups : followups' = RemoveAt(followups, k)
    BY <1>8 DEF TextDeleted
  <2>2. texts' = texts /\ Len(followups') = Len(followups) - 1
    BY <1>0, <1>8, <2>1, RemovedFrom DEF TextDeleted, TextTypes
  <2>3. Len(followups) - 1 \in Nat
    BY <1>0, <2>1 DEF TextTypes
  <2> QED
    BY <1>0, <1>1, <1>8, <2>2, <2>3 DEF TickInv
<1>9. CASE TextFollows /\ ticks' <= ticks + 1
  <2>1. texts' = texts /\ Len(Drained) \in 1..Len(followups)
        /\ Len(followups') = Len(followups) - Len(Drained)
    BY <1>0, <1>9, FollowupsTaken DEF TextFollows
  <2> QED
    BY <1>0, <1>1, <1>9, <2>1 DEF TickInv
<1>10. CASE TextTaken /\ ticks' = ticks
  <2>1. texts' = texts /\ followups' = followups
    BY <1>10 DEF TextTaken
  <2> QED
    BY <1>0, <1>1, <1>10, <2>1 DEF TickInv
<1> QED
  BY <1>2, <1>3, <1>4, <1>5, <1>6, <1>7, <1>8, <1>9, <1>10, TextSteps

(* Every variable keeps its kind, a dialog is open exactly while a request is *)
(* on the screen, and no more ticks are armed than keys and follow-ups armed *)
(* (root.go, agentturn.go).                                                  *)
THEOREM TurnTypeCorrect == Spec => []TypeOK
<1>1. Init => AgreeInv /\ TypeInv
  BY AgreeInit, TypeInit
<1>2. AgreeInv /\ TypeInv /\ [Next]_vars => (AgreeInv /\ TypeInv)'
  BY AgreeStep, ControlStep, TextTypesStep, TickStep, LateStep DEF TypeInv
<1>3. TypeInv => TypeOK
  <2> SUFFICES ASSUME TypeInv PROVE TypeOK
    OBVIOUS
  <2>1. ControlTypes /\ AskTypes /\ TextTypes /\ LateTypes
    BY DEF TypeInv
  <2>2. ticks \in 0..(MaxTicks + MaxTexts)
    BY LimitAssumption DEF TypeInv, TickInv, TextTypes
  <2> QED
    BY <2>1, <2>2 DEF TypeOK, ControlTypes, AskTypes, TextTypes, LateTypes, OldTypes
<1> QED
  BY <1>1, <1>2, <1>3, PTL DEF Spec
-----------------------------------------------------------------------------
(* The places of the texts.                                                *)

LEMMA PlacePairs ==
    ASSUME NEW line
    PROVE  /\ \A p \in Places(line) :
                 \E k \in DOMAIN line : \E j \in DOMAIN line[k].texts : p = <<k, j>>
           /\ \A k \in DOMAIN line : \A j \in DOMAIN line[k].texts : <<k, j>> \in Places(line)
  BY DEF Places

(* The places of one line come from those of another one with their texts,   *)
(* and no two that were given one way change their order.                   *)
Carries(from, to, places, g) ==
    /\ g \in [places -> Places(from)]
    /\ \A p \in places : TextAt(to, p) = TextAt(from, g[p])
    /\ \A p, q \in places : g[p] = g[q] => p = q
    /\ \A p, q \in places : Before(to, p, q) => Before(from, g[p], g[q])

(* Texts that only move to other places, or vanish from them, keep their     *)
(* order when their places do.                                             *)
Moves(from, to, given, kept, g) ==
    /\ Kept(from, given) /\ Ordered(from)
    /\ Carries(from, to, Places(to), g)
    /\ kept \subseteq given
    /\ \A p \in Places(from) : TextAt(from, p) \in kept <=> \E q \in Places(to) : g[q] = p

LEMMA Moved ==
    ASSUME NEW from, NEW to, NEW given, NEW kept, NEW g, Moves(from, to, given, kept, g)
    PROVE  Kept(to, kept) /\ Ordered(to)
<1> USE DEF Carries, Moves
<1>1. \A p \in Places(to) : g[p] \in Places(from)
  OBVIOUS
<1>2. \A p \in Places(to) : TextAt(to, p) \in kept
  BY <1>1
<1>3. \A t \in kept : \E p \in Places(to) : TextAt(to, p) = t
  <2> SUFFICES ASSUME NEW t \in kept PROVE \E p \in Places(to) : TextAt(to, p) = t
    OBVIOUS
  <2>1. PICK q \in Places(from) : TextAt(from, q) = t
    BY DEF Kept
  <2>2. PICK p \in Places(to) : g[p] = q
    BY <2>1
  <2> QED
    BY <2>1, <2>2
<1>4. \A p, q \in Places(to) : TextAt(to, p) = TextAt(to, q) => p = q
  BY <1>1 DEF Kept
<1>5. Ordered(to)
  BY <1>1 DEF Ordered
<1> QED
  BY <1>2, <1>3, <1>4, <1>5 DEF Kept

(* A new text, larger than any other, comes last among those given its way.  *)
Adds(from, to, given, n, text, g) ==
    /\ Kept(from, given) /\ Ordered(from)
    /\ text \in Nat /\ n \in Places(to) /\ TextAt(to, n) = text
    /\ \A t \in given : t \in Nat /\ t < text
    /\ Carries(from, to, Places(to) \ {n}, g)
    /\ \A p \in Places(to) : ~Before(to, n, p)
    /\ \A p \in Places(from) : \E q \in Places(to) \ {n} : g[q] = p

LEMMA Added ==
    ASSUME NEW from, NEW to, NEW given, NEW n, NEW text, NEW g,
           Adds(from, to, given, n, text, g)
    PROVE  Kept(to, given \cup {text}) /\ Ordered(to)
<1> USE DEF Carries, Adds
<1>1. \A p \in Places(to) \ {n} : g[p] \in Places(from)
  OBVIOUS
<1>2. \A p \in Places(to) \ {n} : TextAt(to, p) \in given
  BY <1>1 DEF Kept
<1>3. \A t \in given \cup {text} : \E p \in Places(to) : TextAt(to, p) = t
  <2> SUFFICES ASSUME NEW t \in given PROVE \E p \in Places(to) : TextAt(to, p) = t
    OBVIOUS
  <2>1. PICK q \in Places(from) : TextAt(from, q) = t
    BY DEF Kept
  <2>2. PICK p \in Places(to) \ {n} : g[p] = q
    BY <2>1
  <2> QED
    BY <2>1, <2>2
<1>4. text \notin given
  OBVIOUS
<1>5. \A p, q \in Places(to) : TextAt(to, p) = TextAt(to, q) => p = q
  <2> SUFFICES ASSUME NEW p \in Places(to), NEW q \in Places(to), TextAt(to, p) = TextAt(to, q)
               PROVE  p = q
    OBVIOUS
  <2>1. CASE p # n /\ q # n
    <3>1. TextAt(from, g[p]) = TextAt(from, g[q]) /\ g[p] \in Places(from) /\ g[q] \in Places(from)
      BY <1>1, <2>1
    <3> QED
      BY <2>1, <3>1 DEF Kept
  <2>2. CASE p = n \/ q = n
    BY <1>2, <1>4, <2>2
  <2> QED
    BY <2>1, <2>2
<1>6. Ordered(to)
  <2> SUFFICES ASSUME NEW p \in Places(to), NEW q \in Places(to), Before(to, p, q)
               PROVE  TextAt(to, p) < TextAt(to, q)
    BY DEF Ordered
  <2>1. p # n
    OBVIOUS
  <2>2. CASE q # n
    <3>1. Before(from, g[p], g[q]) /\ g[p] \in Places(from) /\ g[q] \in Places(from)
      BY <1>1, <2>1, <2>2
    <3> QED
      BY <2>1, <2>2, <3>1 DEF Ordered
  <2>3. CASE q = n
    BY <1>2, <2>1, <2>3
  <2> QED
    BY <2>2, <2>3
<1> QED
  BY <1>2, <1>3, <1>5, <1>6 DEF Kept

LineOf(h, s, f) == h \o <<Message("steer", s), Message("follow", f)>>

LEMMA LineFacts ==
    ASSUME NEW h \in Seq(TextMessages), NEW s \in Seq(Texts), NEW f \in Seq(Texts)
    PROVE  /\ DOMAIN LineOf(h, s, f) = 1..(Len(h) + 2) /\ Len(h) \in Nat
           /\ \A k \in 1..Len(h) : LineOf(h, s, f)[k] = h[k]
           /\ \A k \in 1..Len(h) : DOMAIN h[k].texts = 1..Len(h[k].texts) /\ Len(h[k].texts) \in Nat
           /\ LineOf(h, s, f)[Len(h) + 1].how = "steer"
           /\ LineOf(h, s, f)[Len(h) + 1].texts = s
           /\ LineOf(h, s, f)[Len(h) + 2].how = "follow"
           /\ LineOf(h, s, f)[Len(h) + 2].texts = f
           /\ DOMAIN s = 1..Len(s) /\ DOMAIN f = 1..Len(f) /\ Len(s) \in Nat /\ Len(f) \in Nat
<1> DEFINE a == Message("steer", s)
           b == Message("follow", f)
<1>1. a \in TextMessages /\ a.how = "steer" /\ a.texts = s
      /\ b \in TextMessages /\ b.how = "follow" /\ b.texts = f
  BY MessageFacts
<1>2. ASSUME NEW k \in 1..Len(h)
      PROVE  DOMAIN h[k].texts = 1..Len(h[k].texts) /\ Len(h[k].texts) \in Nat
  <2>1. h[k] \in TextMessages
    OBVIOUS
  <2>2. h[k].texts \in Seq(Texts)
    BY <2>1 DEF TextMessages
  <2> QED
    BY <2>2
<1>3. LineOf(h, s, f) = h \o <<a, b>>
  BY DEF LineOf
<1> HIDE DEF a, b, TextMessages
<1>4. /\ Len(h) \in Nat /\ DOMAIN (h \o <<a, b>>) = 1..(Len(h) + 2)
      /\ \A k \in 1..Len(h) : (h \o <<a, b>>)[k] = h[k]
      /\ (h \o <<a, b>>)[Len(h) + 1] = a /\ (h \o <<a, b>>)[Len(h) + 2] = b
  BY <1>1
<1>5. DOMAIN s = 1..Len(s) /\ DOMAIN f = 1..Len(f) /\ Len(s) \in Nat /\ Len(f) \in Nat
  OBVIOUS
<1> QED
  BY <1>1, <1>2, <1>3, <1>4, <1>5
LEMMA SubmitMoves ==
    ASSUME NEW h \in Seq(TextMessages), NEW s \in Seq(Texts), NEW f \in Seq(Texts),
           NEW given, NEW text \in Texts,
           Kept(LineOf(h, s, f), given), Ordered(LineOf(h, s, f)),
           \A t \in given : t \in Nat /\ t < text
    PROVE  /\ Kept(LineOf(Append(h, Message("submit", <<text>>)), s, f), given \cup {text})
           /\ Ordered(LineOf(Append(h, Message("submit", <<text>>)), s, f))
<1> DEFINE m == Message("submit", <<text>>)
           h2 == Append(h, m)
           from == LineOf(h, s, f)
           to == LineOf(h2, s, f)
           N == Len(h)
           n == <<N + 1, 1>>
           g == [p \in Places(to) \ {n} |-> IF p[1] <= N THEN p ELSE <<p[1] - 1, p[2]>>]
<1>1. m \in TextMessages /\ m.how = "submit" /\ m.texts = <<text>>
  <2>1. <<text>> \in Seq(Texts)
    OBVIOUS
  <2> QED
    BY <2>1, MessageFacts
<1> HIDE DEF m, TextMessages
<1>2. /\ h2 \in Seq(TextMessages) /\ Len(h2) = N + 1 /\ N \in Nat
      /\ \A k \in 1..N : h2[k] = h[k]
      /\ h2[N + 1] = m
  BY <1>1
<1> HIDE DEF h2
<1>3. /\ DOMAIN from = 1..(N + 2)
      /\ \A k \in 1..N : from[k] = h[k]
      /\ from[N + 1].how = "steer" /\ from[N + 1].texts = s
      /\ from[N + 2].how = "follow" /\ from[N + 2].texts = f
  BY LineFacts
<1>4. /\ DOMAIN to = 1..(N + 3)
      /\ \A k \in 1..N : to[k] = h[k]
      /\ to[N + 1].how = "submit" /\ to[N + 1].texts = <<text>>
      /\ to[N + 2].how = "steer" /\ to[N + 2].texts = s
      /\ to[N + 3].how = "follow" /\ to[N + 3].texts = f
  <2>1. /\ DOMAIN to = 1..(Len(h2) + 2)
        /\ \A k \in 1..Len(h2) : to[k] = h2[k]
        /\ to[Len(h2) + 1].how = "steer" /\ to[Len(h2) + 1].texts = s
        /\ to[Len(h2) + 2].how = "follow" /\ to[Len(h2) + 2].texts = f
    BY <1>2, LineFacts
  <2>2. Len(h2) + 1 = N + 2 /\ Len(h2) + 2 = N + 3 /\ 1..(Len(h2) + 2) = 1..(N + 3)
    BY <1>2
  <2>3. to[N + 1] = m /\ \A k \in 1..N : to[k] = h[k]
    BY <1>2, <2>1
  <2> QED
    BY <1>1, <2>1, <2>2, <2>3
<1>0. Kept(from, given) /\ Ordered(from)
  OBVIOUS
<1> HIDE DEF from, to, N
<1>5. ASSUME NEW p \in Places(to) \ {n}
      PROVE  /\ g[p] \in Places(from) /\ TextAt(to, p) = TextAt(from, g[p])
             /\ to[p[1]].how = from[g[p][1]].how
             /\ p = <<p[1], p[2]>> /\ p[1] \in 1..(N + 3) /\ p[1] # N + 1
             /\ g[p] = <<g[p][1], g[p][2]>>
             /\ g[p][1] = (IF p[1] <= N THEN p[1] ELSE p[1] - 1) /\ g[p][2] = p[2]
  <2>0. PICK k \in DOMAIN to : \E j \in DOMAIN to[k].texts : p = <<k, j>>
    BY PlacePairs
  <2>1. PICK j \in DOMAIN to[k].texts : p = <<k, j>>
    BY <2>0
  <2>2. k # N + 1
    BY <1>4, <2>1
  <2>3. CASE k <= N
    <3>1. g[p] = <<k, j>> /\ k \in DOMAIN from /\ to[k] = from[k]
      BY <1>2, <1>3, <1>4, <2>1, <2>3
    <3> QED
      BY <1>4, <2>1, <2>2, <2>3, <3>1, PlacePairs DEF TextAt
  <2>4. CASE k > N
    <3>1. g[p] = <<k - 1, j>> /\ k \in 1..(N + 3)
      BY <1>2, <1>4, <2>1, <2>4
    <3>2. k - 1 \in DOMAIN from /\ to[k].texts = from[k - 1].texts /\ to[k].how = from[k - 1].how
      BY <1>2, <1>3, <1>4, <2>2, <2>4, <3>1
    <3>3. <<k - 1, j>> \in Places(from)
      BY <3>2, PlacePairs
    <3> QED
      BY <1>2, <2>1, <2>2, <2>4, <3>1, <3>2, <3>3 DEF TextAt
  <2> QED
    BY <1>2, <1>4, <2>3, <2>4, SMTT(30)
<1>6. n \in Places(to) /\ TextAt(to, n) = text
  <2>1. N + 1 \in DOMAIN to /\ 1 \in DOMAIN to[N + 1].texts /\ to[N + 1].texts[1] = text
    BY <1>2, <1>4
  <2> QED
    BY <2>1, PlacePairs DEF TextAt
<1>7. g \in [Places(to) \ {n} -> Places(from)]
  BY <1>5
<1> HIDE DEF g
<1>8. \A p, q \in Places(to) \ {n} : g[p] = g[q] => p = q
  <2> SUFFICES ASSUME NEW p \in Places(to) \ {n}, NEW q \in Places(to) \ {n}, g[p] = g[q]
               PROVE  p = q
    OBVIOUS
  <2>1. p[1] = q[1] /\ p[2] = q[2]
    BY <1>2, <1>5
  <2> QED
    BY <1>5, <2>1
<1>9. \A p, q \in Places(to) \ {n} : Before(to, p, q) => Before(from, g[p], g[q])
  BY <1>2, <1>5, SMTT(30) DEF Before
<1>10. \A p \in Places(to) : ~Before(to, n, p)
  <2> SUFFICES ASSUME NEW p \in Places(to) PROVE ~Before(to, n, p)
    OBVIOUS
  <2>1. n[1] = N + 1 /\ n[2] = 1
    OBVIOUS
  <2>2. CASE p = n
    BY <1>2, <2>1, <2>2 DEF Before
  <2>3. CASE p # n /\ p[1] <= N
    BY <1>2, <1>5, <2>1, <2>3 DEF Before
  <2>4. CASE p # n /\ p[1] > N
    <3>1. p[1] = N + 2 \/ p[1] = N + 3
      BY <1>2, <1>5, <2>4, SMTT(30)
    <3>2. to[p[1]].how # to[N + 1].how
      BY <1>4, <3>1
    <3> QED
      BY <2>1, <3>2 DEF Before
  <2> QED
    BY <1>2, <1>5, <2>2, <2>3, <2>4
<1>11. \A p \in Places(from) : \E q \in Places(to) \ {n} : g[q] = p
  <2> SUFFICES ASSUME NEW p \in Places(from) PROVE \E q \in Places(to) \ {n} : g[q] = p
    OBVIOUS
  <2>0. PICK k \in DOMAIN from : \E j \in DOMAIN from[k].texts : p = <<k, j>>
    BY PlacePairs
  <2>1. PICK j \in DOMAIN from[k].texts : p = <<k, j>>
    BY <2>0
  <2>2. CASE k <= N
    <3>1. k \in DOMAIN to /\ to[k] = from[k] /\ k # N + 1
      BY <1>2, <1>3, <1>4, <2>2
    <3>2. p \in Places(to) \ {n}
      BY <2>1, <3>1, PlacePairs
    <3> QED
      BY <2>1, <2>2, <3>2 DEF g
  <2>3. CASE k > N
    <3>1. k + 1 \in DOMAIN to /\ to[k + 1].texts = from[k].texts /\ k + 1 # N + 1
      BY <1>2, <1>3, <1>4, <2>3
    <3>2. <<k + 1, j>> \in Places(to) \ {n}
      BY <2>1, <3>1, PlacePairs
    <3>3. g[<<k + 1, j>>] = <<k + 1 - 1, j>> /\ k + 1 - 1 = k
      BY <1>2, <1>3, <2>3, <3>2 DEF g
    <3> QED
      BY <2>1, <3>2, <3>3
  <2> QED
    BY <1>2, <1>3, <2>2, <2>3
<1>12. text \in Nat /\ Carries(from, to, Places(to) \ {n}, g)
  BY <1>5, <1>7, <1>8, <1>9 DEF Texts, Carries
<1> HIDE DEF n
<1>13. Kept(to, given \cup {text}) /\ Ordered(to)
  <2>1. Adds(from, to, given, n, text, g)
    BY <1>0, <1>6, <1>10, <1>11, <1>12 DEF Adds
  <2> QED
    BY <2>1, Added
<1> QED
  BY <1>13 DEF to, h2, m
(* A text that joins a queue: the last message given that way gets one more.  *)
Joins(from, to, given, K, k0, s, text) ==
    /\ K \in Nat /\ k0 \in 1..K /\ text \in Texts /\ s \in Seq(Texts)
    /\ DOMAIN from = 1..K /\ DOMAIN to = 1..K
    /\ \A k \in 1..K : to[k].how = from[k].how
    /\ \A k \in 1..K : k # k0 => to[k].texts = from[k].texts
    /\ \A k \in 1..K : k > k0 => from[k].how # from[k0].how
    /\ from[k0].texts = s /\ to[k0].texts = Append(s, text)
    /\ Kept(from, given) /\ Ordered(from)
    /\ \A t \in given : t \in Nat /\ t < text

LEMMA JoinMoves ==
    ASSUME NEW from, NEW to, NEW given, NEW K, NEW k0, NEW s, NEW text,
           Joins(from, to, given, K, k0, s, text)
    PROVE  Kept(to, given \cup {text}) /\ Ordered(to)
<1> USE DEF Joins
<1> DEFINE n == <<k0, Len(s) + 1>>
           g == [p \in Places(to) \ {n} |-> p]
<1>1. /\ DOMAIN s = 1..Len(s) /\ Len(s) \in Nat
      /\ DOMAIN Append(s, text) = 1..(Len(s) + 1)
      /\ \A j \in 1..Len(s) : Append(s, text)[j] = s[j]
      /\ Append(s, text)[Len(s) + 1] = text
  OBVIOUS
<1>2. n \in Places(to) /\ TextAt(to, n) = text
  <2>1. k0 \in DOMAIN to /\ Len(s) + 1 \in DOMAIN to[k0].texts
        /\ to[k0].texts[Len(s) + 1] = text
    BY <1>1
  <2> QED
    BY <2>1, PlacePairs DEF TextAt
<1>3. ASSUME NEW p \in Places(to) \ {n}
      PROVE  /\ p \in Places(from) /\ TextAt(to, p) = TextAt(from, p)
             /\ p[1] \in 1..K
  <2>0. PICK k \in DOMAIN to : \E j \in DOMAIN to[k].texts : p = <<k, j>>
    BY PlacePairs
  <2>1. PICK j \in DOMAIN to[k].texts : p = <<k, j>>
    BY <2>0
  <2>2. CASE k = k0
    <3>1. j \in 1..Len(s)
      BY <1>1, <2>1, <2>2
    <3>2. j \in DOMAIN from[k].texts /\ to[k].texts[j] = from[k].texts[j]
      BY <1>1, <2>2, <3>1
    <3> QED
      BY <2>1, <3>2, PlacePairs DEF TextAt
  <2>3. CASE k # k0
    BY <2>1, <2>3, PlacePairs DEF TextAt
  <2> QED
    BY <2>2, <2>3
<1>4. ASSUME NEW p \in Places(from) PROVE p \in Places(to) \ {n}
  <2>0. PICK k \in DOMAIN from : \E j \in DOMAIN from[k].texts : p = <<k, j>>
    BY PlacePairs
  <2>1. PICK j \in DOMAIN from[k].texts : p = <<k, j>>
    BY <2>0
  <2>2. CASE k = k0
    <3>1. j \in 1..Len(s)
      BY <1>1, <2>1, <2>2
    <3>2. j \in DOMAIN to[k].texts /\ j # Len(s) + 1
      BY <1>1, <2>2, <3>1
    <3> QED
      BY <2>1, <3>2, PlacePairs
  <2>3. CASE k # k0
    BY <2>1, <2>3, PlacePairs
  <2> QED
    BY <2>2, <2>3
<1>5. \A p \in Places(to) : ~Before(to, n, p)
  <2> SUFFICES ASSUME NEW p \in Places(to), Before(to, n, p) PROVE FALSE
    OBVIOUS
  <2>0. PICK k \in DOMAIN to : \E j \in DOMAIN to[k].texts : p = <<k, j>>
    BY PlacePairs
  <2>1. PICK j \in DOMAIN to[k].texts : p = <<k, j>>
    BY <2>0
  <2>2. to[k0].how = to[k].how /\ (k0 < k \/ (k0 = k /\ Len(s) + 1 < j))
    BY <2>1 DEF Before
  <2>3. CASE k0 < k
    BY <2>2, <2>3
  <2>4. CASE k0 = k /\ Len(s) + 1 < j
    BY <1>1, <2>1, <2>4
  <2> QED
    BY <2>2, <2>3, <2>4
<1>6. Carries(from, to, Places(to) \ {n}, g)
  <2>1. \A p, q \in Places(to) \ {n} : Before(to, p, q) => Before(from, p, q)
    BY <1>3 DEF Before
  <2> QED
    BY <1>3, <2>1 DEF Carries
<1>7. \A p \in Places(from) : \E q \in Places(to) \ {n} : g[q] = p
  BY <1>4
<1> HIDE DEF n, g
<1>8. Adds(from, to, given, n, text, g)
  BY <1>2, <1>5, <1>6, <1>7 DEF Adds, Texts
<1> QED
  BY <1>8, Added

LEMMA SteerMoves ==
    ASSUME NEW h \in Seq(TextMessages), NEW s \in Seq(Texts), NEW f \in Seq(Texts),
           NEW given, NEW text \in Texts,
           Kept(LineOf(h, s, f), given), Ordered(LineOf(h, s, f)),
           \A t \in given : t \in Nat /\ t < text
    PROVE  /\ Kept(LineOf(h, Append(s, text), f), given \cup {text})
           /\ Ordered(LineOf(h, Append(s, text), f))
<1> DEFINE from == LineOf(h, s, f)
           joined == Append(s, text)
           to == LineOf(h, joined, f)
           N == Len(h)
<1>1. joined \in Seq(Texts)
  OBVIOUS
<1> HIDE DEF joined
<1>2. /\ DOMAIN from = 1..(N + 2) /\ N \in Nat
      /\ \A k \in 1..N : from[k] = h[k]
      /\ from[N + 1].how = "steer" /\ from[N + 1].texts = s
      /\ from[N + 2].how = "follow" /\ from[N + 2].texts = f
  BY LineFacts
<1>3. /\ DOMAIN to = 1..(N + 2)
      /\ \A k \in 1..N : to[k] = h[k]
      /\ to[N + 1].how = "steer" /\ to[N + 1].texts = joined
      /\ to[N + 2].how = "follow" /\ to[N + 2].texts = f
  BY <1>1, LineFacts
<1>4. Kept(from, given) /\ Ordered(from)
  OBVIOUS
<1> HIDE DEF from, to, N
<1>5. \A k \in 1..(N + 2) : k \in 1..N \/ k = N + 1 \/ k = N + 2
  BY <1>2
<1>6. \A k \in 1..(N + 2) : to[k].how = from[k].how
  BY <1>2, <1>3, <1>5
<1>7. \A k \in 1..(N + 2) : k # N + 1 => to[k].texts = from[k].texts
  BY <1>2, <1>3, <1>5
<1>8. \A k \in 1..(N + 2) : k > N + 1 => from[k].how # from[N + 1].how
  BY <1>2, <1>5
<1>9. N + 2 \in Nat /\ N + 1 \in 1..(N + 2)
  BY <1>2
<1>10. Kept(to, given \cup {text}) /\ Ordered(to)
  <2>1. Joins(from, to, given, N + 2, N + 1, s, text)
    BY <1>2, <1>3, <1>4, <1>6, <1>7, <1>8, <1>9 DEF Joins, joined
  <2> QED
    BY <2>1, JoinMoves
<1> QED
  BY <1>10 DEF to, joined

LEMMA QueueMoves ==
    ASSUME NEW h \in Seq(TextMessages), NEW s \in Seq(Texts), NEW f \in Seq(Texts),
           NEW given, NEW text \in Texts,
           Kept(LineOf(h, s, f), given), Ordered(LineOf(h, s, f)),
           \A t \in given : t \in Nat /\ t < text
    PROVE  /\ Kept(LineOf(h, s, Append(f, text)), given \cup {text})
           /\ Ordered(LineOf(h, s, Append(f, text)))
<1> DEFINE from == LineOf(h, s, f)
           joined == Append(f, text)
           to == LineOf(h, s, joined)
           N == Len(h)
<1>1. joined \in Seq(Texts)
  OBVIOUS
<1> HIDE DEF joined
<1>2. /\ DOMAIN from = 1..(N + 2) /\ N \in Nat
      /\ \A k \in 1..N : from[k] = h[k]
      /\ from[N + 1].how = "steer" /\ from[N + 1].texts = s
      /\ from[N + 2].how = "follow" /\ from[N + 2].texts = f
  BY LineFacts
<1>3. /\ DOMAIN to = 1..(N + 2)
      /\ \A k \in 1..N : to[k] = h[k]
      /\ to[N + 1].how = "steer" /\ to[N + 1].texts = s
      /\ to[N + 2].how = "follow" /\ to[N + 2].texts = joined
  BY <1>1, LineFacts
<1>4. Kept(from, given) /\ Ordered(from)
  OBVIOUS
<1> HIDE DEF from, to, N
<1>5. \A k \in 1..(N + 2) : k \in 1..N \/ k = N + 1 \/ k = N + 2
  BY <1>2
<1>6. \A k \in 1..(N + 2) : to[k].how = from[k].how
  BY <1>2, <1>3, <1>5
<1>7. \A k \in 1..(N + 2) : k # N + 2 => to[k].texts = from[k].texts
  BY <1>2, <1>3, <1>5
<1>8. \A k \in 1..(N + 2) : k > N + 2 => from[k].how # from[N + 2].how
  BY <1>2
<1>9. N + 2 \in Nat /\ N + 2 \in 1..(N + 2)
  BY <1>2
<1>10. Kept(to, given \cup {text}) /\ Ordered(to)
  <2>1. Joins(from, to, given, N + 2, N + 2, f, text)
    BY <1>2, <1>3, <1>4, <1>6, <1>7, <1>8, <1>9 DEF Joins, joined
  <2> QED
    BY <2>1, JoinMoves
<1> QED
  BY <1>10 DEF to, joined

(* A deletion: the texts behind it move up.                                 *)
LEMMA DeleteMoves ==
    ASSUME NEW h \in Seq(TextMessages), NEW s \in Seq(Texts), NEW f \in Seq(Texts),
           NEW given, NEW x \in 1..Len(f),
           Kept(LineOf(h, s, f), given), Ordered(LineOf(h, s, f))
    PROVE  /\ Kept(LineOf(h, s, RemoveAt(f, x)), given \ {f[x]})
           /\ Ordered(LineOf(h, s, RemoveAt(f, x)))
<1> DEFINE f2 == RemoveAt(f, x)
           from == LineOf(h, s, f)
           to == LineOf(h, s, f2)
           N == Len(h)
           g == [p \in Places(to) |->
                   IF p[1] = N + 2 /\ p[2] >= x THEN <<p[1], p[2] + 1>> ELSE p]
<1>1. /\ f2 \in Seq(Texts) /\ Len(f2) = Len(f) - 1 /\ Len(f) \in Nat
      /\ \A i \in 1..(Len(f) - 1) : f2[i] = IF i < x THEN f[i] ELSE f[i + 1]
  BY RemovedFrom
<1> HIDE DEF f2
<1>2. /\ DOMAIN from = 1..(N + 2) /\ N \in Nat
      /\ \A k \in 1..N : from[k] = h[k]
      /\ from[N + 1].how = "steer" /\ from[N + 1].texts = s
      /\ from[N + 2].how = "follow" /\ from[N + 2].texts = f
      /\ DOMAIN f = 1..Len(f)
  BY LineFacts
<1>3. /\ DOMAIN to = 1..(N + 2)
      /\ \A k \in 1..N : to[k] = h[k]
      /\ to[N + 1].how = "steer" /\ to[N + 1].texts = s
      /\ to[N + 2].how = "follow" /\ to[N + 2].texts = f2
      /\ DOMAIN f2 = 1..(Len(f) - 1)
  BY <1>1, LineFacts
<1>4. Kept(from, given) /\ Ordered(from)
  OBVIOUS
<1> HIDE DEF from, to, N
<1>5. \A k \in 1..(N + 2) : k \in 1..N \/ k = N + 1 \/ k = N + 2
  BY <1>2
<1>6. \A k \in 1..(N + 2) : to[k].how = from[k].how /\ (k # N + 2 => to[k].texts = from[k].texts)
  <2>1. ASSUME NEW k \in 1..N PROVE to[k] = from[k]
    BY <1>2, <1>3
  <2> QED
    BY <1>2, <1>3, <1>5, <2>1
<1>7. ASSUME NEW p \in Places(to)
      PROVE  /\ g[p] \in Places(from) /\ TextAt(to, p) = TextAt(from, g[p])
             /\ p = <<p[1], p[2]>> /\ p[1] \in 1..(N + 2) /\ g[p] = <<g[p][1], g[p][2]>>
             /\ g[p][1] = p[1]
             /\ g[p] # <<N + 2, x>>
             /\ p[1] = N + 2 => p[2] \in Nat /\ g[p][2] = IF p[2] < x THEN p[2] ELSE p[2] + 1
             /\ p[1] # N + 2 => g[p][2] = p[2]
  <2>0. PICK k \in DOMAIN to : \E j \in DOMAIN to[k].texts : p = <<k, j>>
    BY PlacePairs
  <2>1. PICK j \in DOMAIN to[k].texts : p = <<k, j>>
    BY <2>0
  <2>2. CASE k # N + 2
    <3>1. g[p] = p /\ k \in DOMAIN from /\ to[k].texts = from[k].texts /\ k \in 1..(N + 2)
      BY <1>2, <1>3, <1>6, <2>1, <2>2
    <3>2. p \in Places(from) /\ TextAt(to, p) = TextAt(from, p)
      BY <2>1, <3>1, PlacePairs DEF TextAt
    <3> QED
      BY <2>1, <2>2, <3>1, <3>2
  <2>3. CASE k = N + 2
    <3>1. j \in 1..(Len(f) - 1) /\ to[k].texts[j] = f2[j]
      BY <1>3, <2>1, <2>3
    <3> DEFINE i == IF j < x THEN j ELSE j + 1
    <3>2. i \in 1..Len(f) /\ f2[j] = f[i] /\ i # x
      BY <1>1, <3>1
    <3>3. g[p] = <<k, i>>
      BY <2>1, <2>3, <3>1
    <3>4. <<k, i>> \in Places(from) /\ TextAt(from, <<k, i>>) = f[i]
      <4>1. k \in DOMAIN from /\ i \in DOMAIN from[k].texts /\ from[k].texts[i] = f[i]
        BY <1>2, <2>3, <3>2
      <4> QED
        BY <4>1, PlacePairs DEF TextAt
    <3> HIDE DEF g
    <3>5. TextAt(to, p) = f2[j] /\ k \in 1..(N + 2)
      BY <1>3, <2>1, <3>1 DEF TextAt
    <3>6. p[1] = k /\ p[2] = j /\ g[p][1] = k /\ g[p][2] = i /\ p = <<k, j>>
      BY <2>1, <3>3
    <3> QED
      BY <2>3, <3>1, <3>2, <3>3, <3>4, <3>5, <3>6
  <2> QED
    BY <2>2, <2>3
<1>8. Carries(from, to, Places(to), g)
  <2>1. g \in [Places(to) -> Places(from)]
    BY <1>7
  <2> HIDE DEF g
  <2>2. \A p, q \in Places(to) : g[p] = g[q] => p = q
    <3> SUFFICES ASSUME NEW p \in Places(to), NEW q \in Places(to), g[p] = g[q] PROVE p = q
      OBVIOUS
    <3>1. p[1] = q[1] /\ g[p][2] = g[q][2]
      BY <1>7
    <3>2. p[2] = q[2]
      BY <1>7, <3>1
    <3> QED
      BY <1>7, <3>1, <3>2, SMTT(30)
  <2>3. \A p, q \in Places(to) : Before(to, p, q) => Before(from, g[p], g[q])
    <3> SUFFICES ASSUME NEW p \in Places(to), NEW q \in Places(to), Before(to, p, q)
                 PROVE  Before(from, g[p], g[q])
      OBVIOUS
    <3>1. from[g[p][1]].how = from[g[q][1]].how
      BY <1>6, <1>7 DEF Before
    <3>2. CASE p[1] < q[1]
      BY <1>7, <3>1, <3>2 DEF Before
    <3>3. CASE p[1] = q[1] /\ p[2] < q[2]
      <4>1. g[p][1] = g[q][1]
        BY <1>7, <3>3
      <4>2. g[p][2] < g[q][2]
        BY <1>7, <3>3
      <4> QED
        BY <3>1, <4>1, <4>2 DEF Before
    <3> QED
      BY <3>2, <3>3 DEF Before
  <2> QED
    BY <1>7, <2>1, <2>2, <2>3 DEF Carries
<1>9. <<N + 2, x>> \in Places(from) /\ TextAt(from, <<N + 2, x>>) = f[x]
  <2>1. N + 2 \in DOMAIN from /\ x \in DOMAIN from[N + 2].texts /\ from[N + 2].texts[x] = f[x]
    BY <1>2
  <2> QED
    BY <2>1, PlacePairs DEF TextAt
<1>10. \A p \in Places(from) : p # <<N + 2, x>> => \E q \in Places(to) : g[q] = p
  <2> SUFFICES ASSUME NEW p \in Places(from), p # <<N + 2, x>> PROVE \E q \in Places(to) : g[q] = p
    OBVIOUS
  <2>0. PICK k \in DOMAIN from : \E j \in DOMAIN from[k].texts : p = <<k, j>>
    BY PlacePairs
  <2>1. PICK j \in DOMAIN from[k].texts : p = <<k, j>>
    BY <2>0
  <2>2. CASE k # N + 2
    <3>1. p \in Places(to)
      BY <1>2, <1>3, <1>6, <2>1, <2>2, PlacePairs
    <3> QED
      BY <2>1, <2>2, <3>1
  <2>3. CASE k = N + 2
    <3>1. j \in 1..Len(f) /\ j # x
      BY <1>2, <2>1, <2>3
    <3>2. CASE j < x
      <4>1. k \in DOMAIN to /\ j \in DOMAIN to[k].texts
        BY <1>1, <1>2, <1>3, <2>3, <3>1, <3>2
      <4>2. <<k, j>> \in Places(to) /\ g[<<k, j>>] = <<k, j>>
        BY <3>1, <3>2, <4>1, PlacePairs
      <4> QED
        BY <2>1, <4>2
    <3>3. CASE j > x
      <4>1. k \in DOMAIN to /\ j - 1 \in DOMAIN to[k].texts /\ j - 1 >= x /\ j - 1 + 1 = j
        BY <1>1, <1>2, <1>3, <2>3, <3>1, <3>3
      <4>2. <<k, j - 1>> \in Places(to)
        BY <4>1, PlacePairs
      <4>3. g[<<k, j - 1>>] = <<k, j>>
        BY <2>3, <4>1, <4>2
      <4> QED
        BY <2>1, <4>2, <4>3
    <3> QED
      BY <3>1, <3>2, <3>3
  <2> QED
    BY <2>2, <2>3
<1>11. \A p \in Places(from) : TextAt(from, p) \in given \ {f[x]} <=> \E q \in Places(to) : g[q] = p
  <2> SUFFICES ASSUME NEW p \in Places(from)
               PROVE  TextAt(from, p) \in given \ {f[x]} <=> \E q \in Places(to) : g[q] = p
    OBVIOUS
  <2>1. TextAt(from, p) \in given /\ (TextAt(from, p) = f[x] <=> p = <<N + 2, x>>)
    BY <1>4, <1>9 DEF Kept
  <2>2. p = <<N + 2, x>> => ~ \E q \in Places(to) : g[q] = p
    BY <1>7
  <2> HIDE DEF g
  <2> QED
    BY <1>10, <2>1, <2>2
<1> HIDE DEF g
<1>12. Moves(from, to, given, given \ {f[x]}, g)
  BY <1>4, <1>8, <1>11 DEF Moves
<1>13. Kept(to, given \ {f[x]}) /\ Ordered(to)
  BY <1>12, Moved
<1> QED
  BY <1>13 DEF to, f2
(* A queue that is split: its first texts and the rest of it.               *)
Split(q, taken, rest) ==
    /\ q \in Seq(Texts) /\ taken \in Seq(Texts) /\ rest \in Seq(Texts)
    /\ Len(taken) \in 1..Len(q) /\ Len(rest) = Len(q) - Len(taken)
    /\ \A i \in 1..Len(taken) : taken[i] = q[i]
    /\ \A i \in 1..(Len(q) - Len(taken)) : rest[i] = q[Len(taken) + i]

(* Text b of message a was text y of message x before d follow-ups were       *)
(* submitted after N messages.                                             *)
WasAt(N, d, a, b, x, y) ==
    /\ a \in 1..(N + 3)
    /\ a <= N => x = a /\ y = b
    /\ a = N + 1 => x = N + 2 /\ y = b /\ b \in 1..d
    /\ a = N + 2 => x = N + 1 /\ y = b
    /\ a = N + 3 => x = N + 2 /\ b \in Nat /\ b > 0 /\ y = d + b

LEMMA WasAtOnce ==
    ASSUME NEW N \in Nat, NEW d \in Nat, NEW a, NEW b, NEW x, NEW y, NEW a2, NEW b2,
           WasAt(N, d, a, b, x, y), WasAt(N, d, a2, b2, x, y)
    PROVE  a = a2 /\ b = b2
<1>1. a \in 1..(N + 3) /\ a2 \in 1..(N + 3)
  BY DEF WasAt
<1>2. CASE a <= N
  BY <1>1, <1>2 DEF WasAt
<1>3. CASE a = N + 1
  BY <1>1, <1>3 DEF WasAt
<1>4. CASE a = N + 2
  BY <1>1, <1>4 DEF WasAt
<1>5. CASE a = N + 3
  <2>1. a2 = N + 3
    BY <1>1, <1>5 DEF WasAt
  <2> QED
    BY <1>5, <2>1 DEF WasAt
<1> QED
  BY <1>1, <1>2, <1>3, <1>4, <1>5

LEMMA WasAtBefore ==
    ASSUME NEW N \in Nat, NEW d \in Nat, NEW a, NEW b, NEW x, NEW y,
           NEW a2, NEW b2, NEW x2, NEW y2,
           WasAt(N, d, a, b, x, y), WasAt(N, d, a2, b2, x2, y2),
           a < a2 \/ (a = a2 /\ b < b2), a = N + 1 => a2 # N + 2, a = N + 2 => a2 # N + 3
    PROVE  x < x2 \/ (x = x2 /\ y < y2)
<1>1. a \in 1..(N + 3) /\ a2 \in 1..(N + 3)
  BY DEF WasAt
<1>2. CASE a <= N
  BY <1>1, <1>2 DEF WasAt
<1>3. CASE a > N /\ a = a2
  BY <1>1, <1>3 DEF WasAt
<1>4. CASE a = N + 1 /\ a2 = N + 3
  BY <1>4 DEF WasAt
<1> QED
  BY <1>1, <1>2, <1>3, <1>4

(* Follow-ups submitted: one message with the first of them.                *)
LEMMA FollowMoves ==
    ASSUME NEW h \in Seq(TextMessages), NEW s \in Seq(Texts), NEW f, NEW given,
           NEW taken, NEW rest, Split(f, taken, rest),
           Kept(LineOf(h, s, f), given), Ordered(LineOf(h, s, f))
    PROVE  /\ Kept(LineOf(Append(h, Message("follow", taken)), s, rest), given)
           /\ Ordered(LineOf(Append(h, Message("follow", taken)), s, rest))
<1> DEFINE m == Message("follow", taken)
           h2 == Append(h, m)
           from == LineOf(h, s, f)
           to == LineOf(h2, s, rest)
           N == Len(h)
           d == Len(taken)
           g == [p \in Places(to) |->
                   IF p[1] <= N THEN p
                   ELSE IF p[1] = N + 1 THEN <<N + 2, p[2]>>
                   ELSE IF p[1] = N + 2 THEN <<N + 1, p[2]>>
                   ELSE <<N + 2, d + p[2]>>]
<1>0. /\ f \in Seq(Texts) /\ taken \in Seq(Texts) /\ rest \in Seq(Texts)
      /\ Len(f) \in Nat /\ d \in 1..Len(f) /\ d \in Nat
      /\ DOMAIN f = 1..Len(f) /\ DOMAIN taken = 1..d /\ DOMAIN rest = 1..(Len(f) - d)
      /\ \A i \in 1..d : taken[i] = f[i]
      /\ \A i \in 1..(Len(f) - d) : rest[i] = f[d + i]
  <2>1. f \in Seq(Texts) /\ taken \in Seq(Texts) /\ rest \in Seq(Texts)
    BY DEF Split
  <2>2. /\ Len(f) \in Nat /\ DOMAIN f = 1..Len(f) /\ DOMAIN taken = 1..Len(taken)
        /\ DOMAIN rest = 1..Len(rest)
    BY <2>1
  <2> QED
    BY <2>1, <2>2 DEF Split
<1> HIDE DEF d
<1>1. m \in TextMessages /\ m.how = "follow" /\ m.texts = taken
  BY <1>0, MessageFacts
<1> HIDE DEF m, TextMessages
<1>2. /\ h2 \in Seq(TextMessages) /\ Len(h2) = N + 1 /\ N \in Nat
      /\ \A k \in 1..N : h2[k] = h[k]
      /\ h2[N + 1] = m
  BY <1>1
<1> HIDE DEF h2
<1>3. /\ DOMAIN from = 1..(N + 2)
      /\ \A k \in 1..N : from[k] = h[k]
      /\ from[N + 1].how = "steer" /\ from[N + 1].texts = s
      /\ from[N + 2].how = "follow" /\ from[N + 2].texts = f
      /\ DOMAIN s = 1..Len(s) /\ Len(s) \in Nat
  BY <1>0, LineFacts
<1>4. /\ DOMAIN to = 1..(N + 3)
      /\ \A k \in 1..N : to[k] = h[k]
      /\ to[N + 1].how = "follow" /\ to[N + 1].texts = taken
      /\ to[N + 2].how = "steer" /\ to[N + 2].texts = s
      /\ to[N + 3].how = "follow" /\ to[N + 3].texts = rest
  <2>1. /\ DOMAIN to = 1..(Len(h2) + 2)
        /\ \A k \in 1..Len(h2) : to[k] = h2[k]
        /\ to[Len(h2) + 1].how = "steer" /\ to[Len(h2) + 1].texts = s
        /\ to[Len(h2) + 2].how = "follow" /\ to[Len(h2) + 2].texts = rest
    BY <1>0, <1>2, LineFacts
  <2>2. Len(h2) + 1 = N + 2 /\ Len(h2) + 2 = N + 3 /\ 1..(Len(h2) + 2) = 1..(N + 3)
    BY <1>2
  <2>3. to[N + 1] = m /\ \A k \in 1..N : to[k] = h[k]
    BY <1>2, <2>1
  <2> QED
    BY <1>1, <2>1, <2>2, <2>3
<1>5. Kept(from, given) /\ Ordered(from)
  OBVIOUS
<1> HIDE DEF from, to, N
<1>6. ASSUME NEW p \in Places(to)
      PROVE  /\ g[p] \in Places(from) /\ TextAt(to, p) = TextAt(from, g[p])
             /\ to[p[1]].how = from[g[p][1]].how
             /\ p = <<p[1], p[2]>> /\ WasAt(N, d, p[1], p[2], g[p][1], g[p][2])
  <2>0. PICK k \in DOMAIN to : \E j \in DOMAIN to[k].texts : p = <<k, j>>
    BY PlacePairs
  <2>1. PICK j \in DOMAIN to[k].texts : p = <<k, j>>
    BY <2>0
  <2>2. k \in 1..(N + 3) /\ p[1] = k /\ p[2] = j /\ TextAt(to, p) = to[k].texts[j]
    BY <1>4, <2>1 DEF TextAt
  <2>3. CASE k <= N
    <3>1. g[p] = p /\ k \in DOMAIN from /\ to[k] = from[k] /\ k # N + 1 /\ k # N + 2 /\ k # N + 3
      BY <1>2, <1>3, <1>4, <2>2, <2>3
    <3> QED
      BY <1>2, <2>1, <2>2, <2>3, <3>1, PlacePairs DEF TextAt, WasAt
  <2>4. CASE k = N + 1
    <3>1. g[p] = <<N + 2, j>> /\ j \in 1..d /\ to[k].texts[j] = f[j] /\ j \in 1..Len(f)
      <4>1. k # N + 2 /\ k # N + 3 /\ ~(k <= N)
        BY <1>2, <2>4
      <4>2. g[p] = <<N + 2, j>>
        BY <1>2, <1>4, <2>1, <2>2, <2>4, <4>1
      <4>3. to[k].texts = taken /\ j \in 1..d
        BY <1>0, <1>4, <2>1, <2>4
      <4>4. taken[j] = f[j] /\ j \in 1..Len(f)
        BY <1>0, <4>3
      <4> QED
        BY <4>2, <4>3, <4>4
    <3>2. N + 2 \in DOMAIN from /\ j \in DOMAIN from[N + 2].texts /\ from[N + 2].texts[j] = f[j]
      BY <1>0, <1>2, <1>3, <3>1
    <3>3. <<N + 2, j>> \in Places(from) /\ TextAt(from, <<N + 2, j>>) = f[j]
      BY <3>2, PlacePairs DEF TextAt
    <3>4. to[k].how = from[N + 2].how /\ ~(k <= N) /\ k # N + 2 /\ k # N + 3
      BY <1>2, <1>3, <1>4, <2>4
    <3> QED
      BY <1>2, <2>1, <2>2, <2>4, <3>1, <3>3, <3>4 DEF WasAt
  <2>5. CASE k = N + 2
    <3>1. g[p] = <<N + 1, j>> /\ ~(k <= N) /\ k # N + 1 /\ k # N + 3
      BY <1>2, <2>2, <2>5
    <3>2. N + 1 \in DOMAIN from /\ j \in DOMAIN from[N + 1].texts
          /\ from[N + 1].texts[j] = to[k].texts[j] /\ to[k].how = from[N + 1].how
      BY <1>2, <1>3, <1>4, <2>1, <2>5
    <3>3. <<N + 1, j>> \in Places(from) /\ TextAt(from, <<N + 1, j>>) = to[k].texts[j]
      BY <3>2, PlacePairs DEF TextAt
    <3> QED
      BY <1>2, <2>1, <2>2, <2>5, <3>1, <3>2, <3>3 DEF WasAt
  <2>6. CASE k = N + 3
    <3>1. g[p] = <<N + 2, d + j>> /\ ~(k <= N) /\ k # N + 1 /\ k # N + 2
      BY <1>2, <2>2, <2>6
    <3>2. j \in 1..(Len(f) - d) /\ to[k].texts[j] = rest[j] /\ rest[j] = f[d + j] /\ d + j \in 1..Len(f)
      BY <1>0, <1>4, <2>1, <2>6
    <3>3. N + 2 \in DOMAIN from /\ d + j \in DOMAIN from[N + 2].texts
          /\ from[N + 2].texts[d + j] = f[d + j] /\ to[k].how = from[N + 2].how
      BY <1>0, <1>2, <1>3, <1>4, <2>6, <3>2
    <3>4. <<N + 2, d + j>> \in Places(from) /\ TextAt(from, <<N + 2, d + j>>) = to[k].texts[j]
      BY <3>2, <3>3, PlacePairs DEF TextAt
    <3>5. j \in Nat /\ j > 0
      BY <1>0, <3>2
    <3> QED
      BY <1>2, <2>1, <2>2, <2>6, <3>1, <3>3, <3>4, <3>5 DEF WasAt
  <2> QED
    BY <1>2, <2>2, <2>3, <2>4, <2>5, <2>6
<1>7. \A p \in Places(from) : \E q \in Places(to) : g[q] = p
  <2> SUFFICES ASSUME NEW p \in Places(from) PROVE \E q \in Places(to) : g[q] = p
    OBVIOUS
  <2>0. PICK k \in DOMAIN from : \E j \in DOMAIN from[k].texts : p = <<k, j>>
    BY PlacePairs
  <2>1. PICK j \in DOMAIN from[k].texts : p = <<k, j>>
    BY <2>0
  <2>2. CASE k <= N
    <3>1. k \in DOMAIN to /\ to[k] = from[k]
      BY <1>2, <1>3, <1>4, <2>2
    <3>2. p \in Places(to)
      BY <2>1, <3>1, PlacePairs
    <3> QED
      BY <2>1, <2>2, <3>2
  <2>3. CASE k = N + 1
    <3>1. N + 2 \in DOMAIN to /\ j \in DOMAIN to[N + 2].texts
      BY <1>2, <1>3, <1>4, <2>1, <2>3
    <3>2. <<N + 2, j>> \in Places(to) /\ ~(N + 2 <= N) /\ N + 2 # N + 1
      BY <1>2, <3>1, PlacePairs
    <3>3. g[<<N + 2, j>>] = p
      BY <2>1, <2>3, <3>2
    <3> QED
      BY <3>2, <3>3
  <2>4. CASE k = N + 2
    <3>1. j \in 1..Len(f)
      BY <1>0, <1>3, <2>1, <2>4
    <3>2. CASE j <= d
      <4>1. N + 1 \in DOMAIN to /\ j \in DOMAIN to[N + 1].texts
        BY <1>0, <1>2, <1>4, <3>1, <3>2
      <4>2. <<N + 1, j>> \in Places(to) /\ ~(N + 1 <= N)
        BY <1>2, <4>1, PlacePairs
      <4>3. g[<<N + 1, j>>] = p
        BY <2>1, <2>4, <4>2
      <4> QED
        BY <4>2, <4>3
    <3>3. CASE j > d
      <4>1. N + 3 \in DOMAIN to /\ j - d \in DOMAIN to[N + 3].texts /\ d + (j - d) = j
        BY <1>0, <1>2, <1>4, <3>1, <3>3
      <4>2. <<N + 3, j - d>> \in Places(to) /\ ~(N + 3 <= N) /\ N + 3 # N + 1 /\ N + 3 # N + 2
        BY <1>2, <4>1, PlacePairs
      <4>3. g[<<N + 3, j - d>>] = <<N + 2, d + (j - d)>>
        BY <4>2
      <4> QED
        BY <2>1, <2>4, <4>1, <4>2, <4>3
    <3> QED
      BY <1>0, <3>1, <3>2, <3>3
  <2> QED
    BY <1>2, <1>3, <2>2, <2>3, <2>4
<1>8. g \in [Places(to) -> Places(from)]
  BY <1>6
<1> HIDE DEF g
<1>9. \A p, q \in Places(to) : g[p] = g[q] => p = q
  <2> SUFFICES ASSUME NEW p \in Places(to), NEW q \in Places(to), g[p] = g[q] PROVE p = q
    OBVIOUS
  <2>1. p[1] = q[1] /\ p[2] = q[2]
    <3>1. WasAt(N, d, p[1], p[2], g[p][1], g[p][2]) /\ WasAt(N, d, q[1], q[2], g[p][1], g[p][2])
      BY <1>6
    <3> QED
      BY <1>0, <1>2, <3>1, WasAtOnce
  <2> QED
    BY <1>6, <2>1
<1>10. \A p, q \in Places(to) : Before(to, p, q) => Before(from, g[p], g[q])
  <2> SUFFICES ASSUME NEW p \in Places(to), NEW q \in Places(to), Before(to, p, q)
               PROVE  Before(from, g[p], g[q])
    OBVIOUS
  <2>1. from[g[p][1]].how = from[g[q][1]].how
    BY <1>6 DEF Before
  <2>2. to[N + 1].how # to[N + 2].how /\ to[N + 2].how # to[N + 3].how
    BY <1>4
  <2>3. to[p[1]].how = to[q[1]].how /\ (p[1] < q[1] \/ (p[1] = q[1] /\ p[2] < q[2]))
    BY DEF Before
  <2>4. g[p][1] < g[q][1] \/ (g[p][1] = g[q][1] /\ g[p][2] < g[q][2])
    <3>1. p[1] = N + 1 => q[1] # N + 2
      BY <2>2, <2>3
    <3>2. p[1] = N + 2 => q[1] # N + 3
      BY <2>2, <2>3
    <3>3. WasAt(N, d, p[1], p[2], g[p][1], g[p][2]) /\ WasAt(N, d, q[1], q[2], g[q][1], g[q][2])
      BY <1>6
    <3> QED
      BY <1>0, <1>2, <2>3, <3>1, <3>2, <3>3, WasAtBefore
  <2> QED
    BY <2>1, <2>4 DEF Before
<1>11. Moves(from, to, given, given, g)
  <2>1. Carries(from, to, Places(to), g)
    BY <1>6, <1>8, <1>9, <1>10 DEF Carries
  <2> QED
    BY <1>5, <1>7, <2>1 DEF Moves, Kept
<1> QED
  <2>1. Kept(to, given) /\ Ordered(to)
    BY <1>11, Moved
  <2> QED
    BY <2>1 DEF to, h2, m
(* The same for d steered texts, each injected as a message of its own.       *)
WasSteered(N, d, a, b, x, y) ==
    /\ a \in 1..(N + d + 2)
    /\ a <= N => x = a /\ y = b
    /\ N < a /\ a <= N + d => x = N + 1 /\ y = a - N /\ b = 1
    /\ a = N + d + 1 => x = N + 1 /\ b \in Nat /\ b > 0 /\ y = d + b
    /\ a = N + d + 2 => x = N + 2 /\ y = b

LEMMA WasSteeredOnce ==
    ASSUME NEW N \in Nat, NEW d \in Nat, NEW a, NEW b, NEW x, NEW y, NEW a2, NEW b2,
           WasSteered(N, d, a, b, x, y), WasSteered(N, d, a2, b2, x, y)
    PROVE  a = a2 /\ b = b2
<1>1. a \in 1..(N + d + 2) /\ a2 \in 1..(N + d + 2)
  BY DEF WasSteered
<1>2. CASE a <= N
  BY <1>1, <1>2 DEF WasSteered
<1>3. CASE N < a /\ a <= N + d
  BY <1>1, <1>3 DEF WasSteered
<1>4. CASE a = N + d + 1
  <2>1. a2 = N + d + 1
    BY <1>1, <1>4 DEF WasSteered
  <2> QED
    BY <1>4, <2>1 DEF WasSteered
<1>5. CASE a = N + d + 2
  BY <1>1, <1>5 DEF WasSteered
<1> QED
  BY <1>1, <1>2, <1>3, <1>4, <1>5

LEMMA WasSteeredBefore ==
    ASSUME NEW N \in Nat, NEW d \in Nat, NEW a, NEW b, NEW x, NEW y,
           NEW a2, NEW b2, NEW x2, NEW y2,
           WasSteered(N, d, a, b, x, y), WasSteered(N, d, a2, b2, x2, y2),
           a < a2 \/ (a = a2 /\ b < b2), a > N => a = a2 \/ a2 # N + d + 2
    PROVE  x < x2 \/ (x = x2 /\ y < y2)
<1>1. a \in 1..(N + d + 2) /\ a2 \in 1..(N + d + 2)
  BY DEF WasSteered
<1>2. CASE a <= N
  BY <1>1, <1>2 DEF WasSteered
<1>3. CASE N < a /\ a <= N + d
  <2>1. x = N + 1 /\ y = a - N /\ b = 1
    BY <1>3 DEF WasSteered
  <2>2. CASE a2 <= N + d
    BY <1>1, <1>3, <2>1, <2>2 DEF WasSteered
  <2>3. CASE a2 = N + d + 1
    BY <1>1, <1>3, <2>1, <2>3 DEF WasSteered
  <2> QED
    BY <1>1, <1>3, <2>2, <2>3
<1>4. CASE a = N + d + 1 \/ a = N + d + 2
  <2>1. a = a2
    BY <1>1, <1>4
  <2> QED
    BY <1>1, <1>4, <2>1 DEF WasSteered
<1> QED
  BY <1>1, <1>2, <1>3, <1>4

SteerEach(taken) == [k \in DOMAIN taken |-> Message("steer", <<taken[k]>>)]

LEMMA InjectedFacts ==
    ASSUME NEW h \in Seq(TextMessages), NEW taken \in Seq(Texts)
    PROVE  /\ h \o SteerEach(taken) \in Seq(TextMessages)
           /\ Len(h \o SteerEach(taken)) = Len(h) + Len(taken) /\ Len(h) \in Nat
           /\ \A k \in 1..Len(h) : (h \o SteerEach(taken))[k] = h[k]
           /\ \A k \in 1..Len(taken) : (h \o SteerEach(taken))[Len(h) + k] = SteerEach(taken)[k]
<1>1. SteerEach(taken) \in Seq(TextMessages) /\ Len(SteerEach(taken)) = Len(taken)
  BY SteeredMessages DEF SteerEach
<1> HIDE DEF TextMessages
<1> DEFINE new == SteerEach(taken)
<1>2. new \in Seq(TextMessages)
  BY <1>1
<1> HIDE DEF new
<1>3. /\ h \o new \in Seq(TextMessages) /\ Len(h \o new) = Len(h) + Len(new)
      /\ Len(h) \in Nat
      /\ \A k \in 1..Len(h) : (h \o new)[k] = h[k]
      /\ \A k \in 1..Len(new) : (h \o new)[Len(h) + k] = new[k]
  BY <1>2, JoinedFacts
<1> QED
  BY <1>1, <1>3 DEF new

(* Steering injected: the first of the queue, each a message of its own.      *)
LEMMA InjectMoves ==
    ASSUME NEW h \in Seq(TextMessages), NEW s, NEW f \in Seq(Texts), NEW given,
           NEW taken, NEW rest, Split(s, taken, rest),
           Kept(LineOf(h, s, f), given), Ordered(LineOf(h, s, f))
    PROVE  /\ Kept(LineOf(h \o SteerEach(taken), rest, f), given)
           /\ Ordered(LineOf(h \o SteerEach(taken), rest, f))
<1> DEFINE new == SteerEach(taken)
           h2 == h \o new
           from == LineOf(h, s, f)
           to == LineOf(h2, rest, f)
           N == Len(h)
           d == Len(taken)
           g == [p \in Places(to) |->
                   IF p[1] <= N THEN p
                   ELSE IF p[1] <= N + d THEN <<N + 1, p[1] - N>>
                   ELSE IF p[1] = N + d + 1 THEN <<N + 1, d + p[2]>>
                   ELSE <<N + 2, p[2]>>]
<1>0. /\ s \in Seq(Texts) /\ taken \in Seq(Texts) /\ rest \in Seq(Texts)
      /\ Len(s) \in Nat /\ d \in 1..Len(s) /\ d \in Nat
      /\ DOMAIN s = 1..Len(s) /\ DOMAIN taken = 1..d /\ DOMAIN rest = 1..(Len(s) - d)
      /\ \A i \in 1..d : taken[i] = s[i]
      /\ \A i \in 1..(Len(s) - d) : rest[i] = s[d + i]
  <2>1. s \in Seq(Texts) /\ taken \in Seq(Texts) /\ rest \in Seq(Texts)
    BY DEF Split
  <2>2. /\ Len(s) \in Nat /\ DOMAIN s = 1..Len(s) /\ DOMAIN taken = 1..Len(taken)
        /\ DOMAIN rest = 1..Len(rest)
    BY <2>1
  <2> QED
    BY <2>1, <2>2 DEF Split
<1>1. /\ new \in Seq(TextMessages) /\ Len(new) = d
      /\ \A k \in 1..d : new[k] = Message("steer", <<taken[k]>>)
  BY <1>0, SteeredMessages DEF SteerEach
<1> HIDE DEF TextMessages, d, new
<1>2. /\ h2 \in Seq(TextMessages) /\ Len(h2) = N + d /\ N \in Nat
      /\ \A k \in 1..N : h2[k] = h[k]
      /\ \A k \in 1..d : h2[N + k] = new[k]
  BY <1>0, InjectedFacts DEF d, new
<1> HIDE DEF h2
<1>3. /\ DOMAIN from = 1..(N + 2)
      /\ \A k \in 1..N : from[k] = h[k]
      /\ from[N + 1].how = "steer" /\ from[N + 1].texts = s
      /\ from[N + 2].how = "follow" /\ from[N + 2].texts = f
      /\ DOMAIN f = 1..Len(f) /\ Len(f) \in Nat
  BY <1>0, LineFacts
<1>4. /\ DOMAIN to = 1..(N + d + 2)
      /\ \A k \in 1..N : to[k] = h[k]
      /\ \A k \in 1..d : to[N + k].how = "steer" /\ to[N + k].texts = <<taken[k]>>
      /\ to[N + d + 1].how = "steer" /\ to[N + d + 1].texts = rest
      /\ to[N + d + 2].how = "follow" /\ to[N + d + 2].texts = f
  <2>1. /\ DOMAIN to = 1..(Len(h2) + 2)
        /\ \A k \in 1..Len(h2) : to[k] = h2[k]
        /\ to[Len(h2) + 1].how = "steer" /\ to[Len(h2) + 1].texts = rest
        /\ to[Len(h2) + 2].how = "follow" /\ to[Len(h2) + 2].texts = f
    <3>1. rest \in Seq(Texts) /\ h2 \in Seq(TextMessages)
      BY <1>0, <1>2
    <3> QED
      BY <3>1, LineFacts
  <2>2. \A k \in 1..N : to[k] = h[k]
    <3>1. \A k \in 1..N : k \in 1..Len(h2)
      BY <1>0, <1>2
    <3> QED
      BY <1>2, <2>1, <3>1
  <2>3. ASSUME NEW k \in 1..d
        PROVE  to[N + k].how = "steer" /\ to[N + k].texts = <<taken[k]>>
    <3>1. N + k \in 1..Len(h2)
      BY <1>0, <1>2
    <3>2. to[N + k] = Message("steer", <<taken[k]>>)
      BY <1>1, <1>2, <2>1, <3>1
    <3> QED
      BY <3>2 DEF Message
  <2> HIDE DEF to
  <2> QED
    BY <1>2, <2>1, <2>2, <2>3
<1>5. Kept(from, given) /\ Ordered(from)
  OBVIOUS
<1> HIDE DEF from, to, N
<1>6. ASSUME NEW p \in Places(to)
      PROVE  /\ g[p] \in Places(from) /\ TextAt(to, p) = TextAt(from, g[p])
             /\ to[p[1]].how = from[g[p][1]].how
             /\ p = <<p[1], p[2]>> /\ WasSteered(N, d, p[1], p[2], g[p][1], g[p][2])
  <2>0. PICK k \in DOMAIN to : \E j \in DOMAIN to[k].texts : p = <<k, j>>
    BY PlacePairs
  <2>1. PICK j \in DOMAIN to[k].texts : p = <<k, j>>
    BY <2>0
  <2>2. k \in 1..(N + d + 2) /\ p[1] = k /\ p[2] = j /\ TextAt(to, p) = to[k].texts[j]
    BY <1>4, <2>1 DEF TextAt
  <2>3. CASE k <= N
    <3>1. g[p] = p /\ k \in DOMAIN from /\ to[k] = from[k]
      BY <1>0, <1>2, <1>3, <1>4, <2>2, <2>3, SMTT(30)
    <3>2. WasSteered(N, d, k, j, k, j)
      BY <1>0, <1>2, <2>2, <2>3 DEF WasSteered
    <3> QED
      BY <2>1, <2>2, <3>1, <3>2, PlacePairs DEF TextAt
  <2>4. CASE N < k /\ k <= N + d
    <3>1. k - N \in 1..d /\ N + (k - N) = k /\ ~(k <= N) /\ k - N \in 1..Len(s)
      BY <1>0, <1>2, <2>2, <2>4, SMTT(30)
    <3>2. to[k].how = "steer" /\ to[k].texts = <<taken[k - N]>> /\ taken[k - N] = s[k - N]
      BY <1>0, <1>4, <3>1
    <3>3. j = 1 /\ to[k].texts[j] = s[k - N] /\ g[p] = <<N + 1, k - N>>
      BY <2>1, <2>2, <2>4, <3>1, <3>2
    <3>4. N + 1 \in DOMAIN from /\ k - N \in DOMAIN from[N + 1].texts
          /\ from[N + 1].texts[k - N] = s[k - N]
      BY <1>0, <1>2, <1>3, <3>1
    <3>5. <<N + 1, k - N>> \in Places(from) /\ TextAt(from, <<N + 1, k - N>>) = s[k - N]
      BY <3>4, PlacePairs DEF TextAt
    <3>6. WasSteered(N, d, k, j, N + 1, k - N)
      BY <1>0, <1>2, <2>2, <2>4, <3>3, SMTT(30) DEF WasSteered
    <3> QED
      BY <1>3, <2>1, <2>2, <3>2, <3>3, <3>5, <3>6
  <2>5. CASE k = N + d + 1
    <3>0. ~(k <= N) /\ ~(k <= N + d)
      BY <1>0, <1>2, <2>5
    <3>1. g[p] = <<N + 1, d + j>>
      BY <2>2, <2>5, <3>0
    <3>2. j \in 1..(Len(s) - d) /\ to[k].texts[j] = rest[j] /\ rest[j] = s[d + j]
      BY <1>0, <1>4, <2>1, <2>5
    <3>3. d + j \in 1..Len(s) /\ j \in Nat /\ j > 0
      BY <1>0, <3>2
    <3>4. N + 1 \in DOMAIN from /\ d + j \in DOMAIN from[N + 1].texts
          /\ from[N + 1].texts[d + j] = s[d + j] /\ to[k].how = from[N + 1].how
      BY <1>0, <1>2, <1>3, <1>4, <2>5, <3>3
    <3>5. <<N + 1, d + j>> \in Places(from) /\ TextAt(from, <<N + 1, d + j>>) = to[k].texts[j]
      BY <3>2, <3>4, PlacePairs DEF TextAt
    <3>6. WasSteered(N, d, k, j, N + 1, d + j)
      BY <1>0, <1>2, <2>2, <2>5, <3>3, SMTT(30) DEF WasSteered
    <3> QED
      BY <2>1, <2>2, <3>1, <3>4, <3>5, <3>6
  <2>6. CASE k = N + d + 2
    <3>0. ~(k <= N) /\ ~(k <= N + d) /\ k # N + d + 1
      BY <1>0, <1>2, <2>6, SMTT(30)
    <3>1. g[p] = <<N + 2, j>>
      BY <2>2, <2>6, <3>0
    <3>2. N + 2 \in DOMAIN from /\ j \in DOMAIN from[N + 2].texts
          /\ from[N + 2].texts[j] = to[k].texts[j] /\ to[k].how = from[N + 2].how
      BY <1>2, <1>3, <1>4, <2>1, <2>6
    <3>3. <<N + 2, j>> \in Places(from) /\ TextAt(from, <<N + 2, j>>) = to[k].texts[j]
      BY <3>2, PlacePairs DEF TextAt
    <3>4. WasSteered(N, d, k, j, N + 2, j)
      BY <1>0, <1>2, <2>2, <2>6 DEF WasSteered
    <3> QED
      BY <2>1, <2>2, <3>1, <3>2, <3>3, <3>4
  <2>7. k <= N \/ (N < k /\ k <= N + d) \/ k = N + d + 1 \/ k = N + d + 2
    <3>1. N \in Nat /\ d \in Nat /\ k \in 1..(N + d + 2)
      BY <1>0, <1>2, <2>2
    <3> QED
      BY <3>1
  <2> QED
    BY <2>3, <2>4, <2>5, <2>6, <2>7
<1>7. \A p \in Places(from) : \E q \in Places(to) : g[q] = p
  <2> SUFFICES ASSUME NEW p \in Places(from) PROVE \E q \in Places(to) : g[q] = p
    OBVIOUS
  <2>0. PICK k \in DOMAIN from : \E j \in DOMAIN from[k].texts : p = <<k, j>>
    BY PlacePairs
  <2>1. PICK j \in DOMAIN from[k].texts : p = <<k, j>>
    BY <2>0
  <2>2. CASE k <= N
    <3>1. k \in DOMAIN to /\ to[k] = from[k]
      BY <1>0, <1>2, <1>3, <1>4, <2>2
    <3>2. p \in Places(to)
      BY <2>1, <3>1, PlacePairs
    <3> QED
      BY <2>1, <2>2, <3>2
  <2>3. CASE k = N + 2
    <3>1. N + d + 2 \in DOMAIN to /\ j \in DOMAIN to[N + d + 2].texts
      BY <1>0, <1>2, <1>3, <1>4, <2>1, <2>3
    <3>2. <<N + d + 2, j>> \in Places(to) /\ ~(N + d + 2 <= N) /\ ~(N + d + 2 <= N + d)
          /\ N + d + 2 # N + d + 1
      BY <1>0, <1>2, <3>1, PlacePairs, SMTT(30)
    <3>3. g[<<N + d + 2, j>>] = p
      BY <2>1, <2>3, <3>2
    <3> QED
      BY <3>2, <3>3
  <2>4. CASE k = N + 1
    <3>1. j \in 1..Len(s)
      BY <1>0, <1>3, <2>1, <2>4
    <3>2. CASE j <= d
      <4>1. j \in 1..d /\ N + j \in 1..(N + d + 2) /\ ~(N + j <= N) /\ N + j <= N + d /\ N + j - N = j
        BY <1>0, <1>2, <3>1, <3>2
      <4>2. N + j \in DOMAIN to /\ 1 \in DOMAIN to[N + j].texts
        BY <1>4, <4>1
      <4>3. <<N + j, 1>> \in Places(to)
        BY <4>2, PlacePairs
      <4>4. PICK q \in Places(to) : q = <<N + j, 1>>
        BY <4>3
      <4>5. q[1] = N + j
        BY <4>4
      <4>6. g[q] = <<N + 1, q[1] - N>>
        BY <4>1, <4>5
      <4> HIDE DEF g
      <4>7. q[1] - N = j
        <5>1. N \in Nat /\ j \in Nat
          BY <1>2, <3>1
        <5> QED
          BY <4>5, <5>1
      <4>8. g[q] = p
        BY <2>1, <2>4, <4>6, <4>7
      <4> QED
        BY <4>8
    <3>3. CASE j > d
      <4>1. N + d + 1 \in DOMAIN to /\ j - d \in DOMAIN to[N + d + 1].texts /\ d + (j - d) = j
        <5>1. j - d \in 1..(Len(s) - d) /\ d + (j - d) = j
          BY <1>0, <3>1, <3>3
        <5>2. N + d + 1 \in 1..(N + d + 2)
          BY <1>0, <1>2, SMTT(30)
        <5>3. DOMAIN to[N + d + 1].texts = 1..(Len(s) - d)
          BY <1>0, <1>4
        <5> QED
          BY <1>4, <5>1, <5>2, <5>3
      <4>2. <<N + d + 1, j - d>> \in Places(to) /\ ~(N + d + 1 <= N) /\ ~(N + d + 1 <= N + d)
        BY <1>0, <1>2, <4>1, PlacePairs
      <4>3. g[<<N + d + 1, j - d>>] = <<N + 1, d + (j - d)>>
        BY <4>2
      <4> QED
        BY <2>1, <2>4, <4>1, <4>2, <4>3
    <3> QED
      BY <1>0, <3>1, <3>2, <3>3
  <2> QED
    BY <1>2, <1>3, <2>2, <2>3, <2>4
<1>8. g \in [Places(to) -> Places(from)]
  BY <1>6
<1> HIDE DEF g
<1>9. \A p, q \in Places(to) : g[p] = g[q] => p = q
  <2> SUFFICES ASSUME NEW p \in Places(to), NEW q \in Places(to), g[p] = g[q] PROVE p = q
    OBVIOUS
  <2>1. p[1] = q[1] /\ p[2] = q[2]
    <3>1. /\ WasSteered(N, d, p[1], p[2], g[p][1], g[p][2])
          /\ WasSteered(N, d, q[1], q[2], g[p][1], g[p][2])
      BY <1>6
    <3> QED
      BY <1>0, <1>2, <3>1, WasSteeredOnce
  <2> QED
    BY <1>6, <2>1
<1>10. \A p, q \in Places(to) : Before(to, p, q) => Before(from, g[p], g[q])
  <2> SUFFICES ASSUME NEW p \in Places(to), NEW q \in Places(to), Before(to, p, q)
               PROVE  Before(from, g[p], g[q])
    OBVIOUS
  <2>1. from[g[p][1]].how = from[g[q][1]].how
    BY <1>6 DEF Before
  <2>2. to[p[1]].how = to[q[1]].how /\ (p[1] < q[1] \/ (p[1] = q[1] /\ p[2] < q[2]))
    BY DEF Before
  <2>3. /\ WasSteered(N, d, p[1], p[2], g[p][1], g[p][2])
        /\ WasSteered(N, d, q[1], q[2], g[q][1], g[q][2])
    BY <1>6
  <2>4. p[1] > N => p[1] = q[1] \/ q[1] # N + d + 2
    <3> SUFFICES ASSUME p[1] > N, p[1] # q[1], q[1] = N + d + 2 PROVE FALSE
      OBVIOUS
    <3>1. p[1] \in 1..(N + d + 2) /\ p[1] < N + d + 2
      BY <1>0, <1>2, <2>2, <2>3 DEF WasSteered
    <3>2. CASE p[1] = N + d + 1
      BY <1>4, <2>2, <3>2
    <3>3. CASE p[1] # N + d + 1
      <4>1. p[1] - N \in 1..d /\ N + (p[1] - N) = p[1]
        <5> DEFINE a == p[1]
        <5>1. a \in 1..(N + d + 2) /\ a < N + d + 2 /\ a # N + d + 1 /\ a > N
          BY <3>1, <3>3
        <5> HIDE DEF a
        <5>2. a - N \in 1..d /\ N + (a - N) = a
          BY <1>0, <1>2, <5>1
        <5> QED
          BY <5>2 DEF a
      <4>2. to[p[1]].how = "steer"
        BY <1>4, <4>1
      <4> QED
        BY <1>4, <2>2, <4>2
    <3> QED
      BY <3>2, <3>3
  <2>5. g[p][1] < g[q][1] \/ (g[p][1] = g[q][1] /\ g[p][2] < g[q][2])
    BY <1>0, <1>2, <2>2, <2>3, <2>4, WasSteeredBefore
  <2> QED
    BY <2>1, <2>5 DEF Before
<1>11. Moves(from, to, given, given, g)
  <2>1. Carries(from, to, Places(to), g)
    BY <1>6, <1>8, <1>9, <1>10 DEF Carries
  <2> QED
    BY <1>5, <1>7, <2>1 DEF Moves, Kept
<1> QED
  <2>1. Kept(to, given) /\ Ordered(to)
    BY <1>11, Moved
  <2> QED
    BY <2>1 DEF to, h2, new
(* What was deleted had been typed: a text typed later is a new one.          *)
DeliveryInv == crossed \/ (TextsKept /\ QueuesInOrder /\ deleted \subseteq 1..texts)

(* The steps, over the lines before and after.                              *)
LEMMA DeliveryStep == TypeInv /\ DeliveryInv /\ [Next]_vars => DeliveryInv'
<1> SUFFICES ASSUME TypeInv, DeliveryInv, [Next]_vars, ~crossed' PROVE DeliveryInv'
  BY DEF DeliveryInv
<1>11. TextsKept /\ QueuesInOrder /\ deleted \subseteq 1..texts
  BY CrossedStays DEF DeliveryInv
<1> DEFINE given == (1..texts) \ deleted
           given2 == (1..texts') \ deleted'
<1>0. /\ hist \in Seq(TextMessages) /\ steering \in Seq(Texts) /\ followups \in Seq(Texts)
      /\ texts \in 0..MaxTexts /\ deleted \subseteq 1..texts /\ TextTypes /\ MaxTexts \in Nat
  BY <1>11, LimitAssumption DEF TypeInv, TextTypes, TextMessages
<1>1. Kept(LineOf(hist, steering, followups), given) /\ Ordered(LineOf(hist, steering, followups))
  BY <1>11 DEF TextsKept, QueuesInOrder, Line, LineOf
<1>2. ASSUME NEW line, line = LineOf(hist', steering', followups'),
             Kept(line, given2), Ordered(line), deleted' \subseteq 1..texts'
      PROVE  DeliveryInv'
  <2>1. line = Line'
    BY <1>2 DEF Line, LineOf
  <2> QED
    BY <1>2, <2>1 DEF DeliveryInv, TextsKept, QueuesInOrder
<1>3. ASSUME texts < MaxTexts, texts' = texts + 1, deleted' = deleted
      PROVE  /\ texts' \in Texts /\ \A t \in given : t \in Nat /\ t < texts'
             /\ given2 = given \cup {texts'} /\ deleted' \subseteq 1..texts'
  BY <1>0, <1>3 DEF Texts
<1>4. CASE TextsStay
  <2>1. given2 = given /\ deleted' \subseteq 1..texts'
    BY <1>0, <1>4 DEF TextsStay
  <2>2. LineOf(hist', steering', followups') = LineOf(hist, steering, followups)
    BY <1>4 DEF TextsStay, HistBecomes
  <2> HIDE DEF given, given2
  <2> QED
    BY <1>1, <1>2, <2>1, <2>2
<1>5. CASE TextSubmitted
  <2>1. /\ texts < MaxTexts /\ texts' = texts + 1 /\ deleted' = deleted
        /\ hist' = Append(hist, Message("submit", <<texts'>>))
        /\ steering' = steering /\ followups' = followups
    BY <1>5 DEF TextSubmitted, HistBecomes
  <2>2. /\ texts' \in Texts /\ \A t \in given : t \in Nat /\ t < texts'
        /\ given2 = given \cup {texts'} /\ deleted' \subseteq 1..texts'
    BY <1>3, <2>1
  <2> HIDE DEF given, given2
  <2> DEFINE line == LineOf(Append(hist, Message("submit", <<texts'>>)), steering, followups)
  <2>3. Kept(line, given \cup {texts'}) /\ Ordered(line)
    BY <1>0, <1>1, <2>2, SubmitMoves
  <2>4. line = LineOf(hist', steering', followups')
    BY <2>1
  <2> HIDE DEF line
  <2> QED
    BY <1>2, <2>2, <2>3, <2>4
<1>6. CASE TextSteered
  <2>1. /\ texts < MaxTexts /\ texts' = texts + 1 /\ deleted' = deleted
        /\ steering' = Append(steering, texts') /\ hist' = hist /\ followups' = followups
    BY <1>6 DEF TextSteered
  <2>2. /\ texts' \in Texts /\ \A t \in given : t \in Nat /\ t < texts'
        /\ given2 = given \cup {texts'} /\ deleted' \subseteq 1..texts'
    BY <1>3, <2>1
  <2> HIDE DEF given, given2
  <2> DEFINE line == LineOf(hist, Append(steering, texts'), followups)
  <2>3. Kept(line, given \cup {texts'}) /\ Ordered(line)
    BY <1>0, <1>1, <2>2, SteerMoves
  <2>4. line = LineOf(hist', steering', followups')
    BY <2>1
  <2> HIDE DEF line
  <2> QED
    BY <1>2, <2>2, <2>3, <2>4
<1>7. CASE TextQueued
  <2>1. /\ texts < MaxTexts /\ texts' = texts + 1 /\ deleted' = deleted
        /\ followups' = Append(followups, texts') /\ hist' = hist /\ steering' = steering
    BY <1>7 DEF TextQueued
  <2>2. /\ texts' \in Texts /\ \A t \in given : t \in Nat /\ t < texts'
        /\ given2 = given \cup {texts'} /\ deleted' \subseteq 1..texts'
    BY <1>3, <2>1
  <2> HIDE DEF given, given2
  <2> DEFINE line == LineOf(hist, steering, Append(followups, texts'))
  <2>3. Kept(line, given \cup {texts'}) /\ Ordered(line)
    BY <1>0, <1>1, <2>2, QueueMoves
  <2>4. line = LineOf(hist', steering', followups')
    BY <2>1
  <2> HIDE DEF line
  <2> QED
    BY <1>2, <2>2, <2>3, <2>4
<1>8. CASE TextFollows
  <2>1. /\ followups # <<>> /\ texts' = texts /\ deleted' = deleted
        /\ hist' = Append(hist, Message("follow", Drained)) /\ steering' = steering
        /\ followups' = SubSeq(followups, Len(Drained) + 1, Len(followups))
    BY <1>8 DEF TextFollows, HistBecomes
  <2>2. given2 = given /\ deleted' \subseteq 1..texts'
    BY <1>0, <2>1
  <2> HIDE DEF given, given2
  <2>3. Split(followups, Drained, followups')
    BY <1>0, <2>1, FollowupsTaken DEF Split
  <2> DEFINE line == LineOf(Append(hist, Message("follow", Drained)), steering, followups')
  <2>4. Kept(line, given) /\ Ordered(line)
    BY <1>0, <1>1, <2>3, FollowMoves
  <2>5. line = LineOf(hist', steering', followups')
    BY <2>1
  <2> HIDE DEF line
  <2> QED
    BY <1>2, <2>2, <2>4, <2>5
<1>9. CASE TextInjected
  <2>1. /\ steering # <<>> /\ texts' = texts /\ deleted' = deleted
        /\ hist' = hist \o SteerEach(Injected) /\ followups' = followups
        /\ steering' = SubSeq(steering, Len(Injected) + 1, Len(steering))
    BY <1>9 DEF TextInjected, SteerEach, HistBecomes
  <2>2. given2 = given /\ deleted' \subseteq 1..texts'
    BY <1>0, <2>1
  <2> HIDE DEF given, given2
  <2>3. Split(steering, Injected, steering')
    BY <1>0, <2>1, SteeringTaken DEF Split
  <2> DEFINE line == LineOf(hist \o SteerEach(Injected), steering', followups)
  <2>4. Kept(line, given) /\ Ordered(line)
    BY <1>0, <1>1, <2>3, InjectMoves
  <2>5. line = LineOf(hist', steering', followups')
    BY <2>1
  <2> HIDE DEF line
  <2> QED
    BY <1>2, <2>2, <2>4, <2>5
<1>10. CASE TextDeleted
  <2>0. PICK x \in DOMAIN followups :
           followups' = RemoveAt(followups, x) /\ deleted' = deleted \cup {followups[x]}
    BY <1>10 DEF TextDeleted
  <2>1. hist' = hist /\ steering' = steering /\ texts' = texts
    BY <1>10 DEF TextDeleted
  <2>2. x \in 1..Len(followups)
    BY <1>0
  <2>3. followups[x] \in given
    <3> DEFINE line == LineOf(hist, steering, followups)
               N == Len(hist)
    <3>1. N + 2 \in DOMAIN line /\ x \in DOMAIN line[N + 2].texts
          /\ line[N + 2].texts[x] = followups[x]
      BY <1>0, <2>2, LineFacts
    <3> HIDE DEF line, N
    <3>2. <<N + 2, x>> \in Places(line) /\ TextAt(line, <<N + 2, x>>) = followups[x]
      BY <3>1, PlacePairs DEF TextAt
    <3>3. Kept(line, given)
      BY <1>1 DEF line
    <3> QED
      BY <3>2, <3>3 DEF Kept
  <2>4. given2 = given \ {followups[x]} /\ deleted' \subseteq 1..texts'
    BY <1>0, <2>0, <2>1, <2>3
  <2> HIDE DEF given, given2
  <2> DEFINE line == LineOf(hist, steering, RemoveAt(followups, x))
  <2>5. Kept(line, given \ {followups[x]}) /\ Ordered(line)
    BY <1>0, <1>1, <2>2, DeleteMoves
  <2>6. line = LineOf(hist', steering', followups')
    BY <2>0, <2>1
  <2> HIDE DEF line
  <2> QED
    BY <1>2, <2>4, <2>5, <2>6
<1>12. ~TextTaken
  BY DEF TextTaken
<1> QED
  BY <1>4, <1>5, <1>6, <1>7, <1>8, <1>9, <1>10, <1>12, TextSteps

LEMMA DeliveryInit == Init => DeliveryInv
<1> SUFFICES ASSUME Init PROVE DeliveryInv
  OBVIOUS
<1>1. hist = <<>> /\ steering = <<>> /\ followups = <<>> /\ texts = 0 /\ deleted = {}
  BY DEF Init
<1>2. DOMAIN Line = 1..2 /\ \A k \in DOMAIN Line : DOMAIN Line[k].texts = {}
  <2>1. Line = <<Message("steer", <<>>), Message("follow", <<>>)>>
    BY <1>1 DEF Line
  <2> QED
    BY <2>1 DEF Message
<1>3. Places(Line) = {}
  BY <1>2 DEF Places
<1>4. (1..texts) \ deleted = {}
  BY <1>1
<1>5. Kept(Line, {}) /\ Ordered(Line)
  BY <1>3 DEF Kept, Ordered
<1> QED
  BY <1>1, <1>4, <1>5 DEF DeliveryInv, TextsKept, QueuesInOrder

(* Every text typed has one place, in the conversation or in a queue, until   *)
(* it is deleted, and those given one way lie in the order they were typed    *)
(* in, as long as no two turns with tools ran at once (steering.go:117-353,   *)
(* queueedit.go).                                                            *)
THEOREM TextsAlwaysDelivered == Spec => []TextsDelivered
<1>1. Init => AgreeInv /\ TypeInv /\ DeliveryInv
  BY AgreeInit, TypeInit, DeliveryInit
<1>2. AgreeInv /\ TypeInv /\ DeliveryInv /\ [Next]_vars => (AgreeInv /\ TypeInv /\ DeliveryInv)'
  BY AgreeStep, ControlStep, TextTypesStep, TickStep, LateStep, DeliveryStep DEF TypeInv
<1>3. DeliveryInv => TextsDelivered
  BY DEF DeliveryInv, TextsDelivered
<1> QED
  BY <1>1, <1>2, <1>3, PTL DEF Spec

-----------------------------------------------------------------------------
(* The catalog: types.                                                      *)

Configs == [enabled : SUBSET Providers, authed : SUBSET Providers]
Stores == {s \in [hidden : SUBSET Models, kept : SUBSET Models] : s.hidden \cap s.kept = {}}
Refreshes == [at : {"idle", "fetching", "saving", "ended"}, config : Configs, lists : Lists,
              index : BOOLEAN, result : SUBSET Models, fine : BOOLEAN]
Sessions == [on : BOOLEAN, config : Configs, list : SUBSET Models, hidden : SUBSET Models, store : Stores]

CatalogTypes ==
    /\ rules \in Rules /\ config \in Configs /\ curated \in Stores
    /\ disk \in [exists : BOOLEAN, lists : Lists, index : BOOLEAN]
    /\ session \in Sessions
    /\ job \in [Jobs -> Refreshes]

LEMMA CurateTypes ==
    ASSUME NEW built \in SUBSET Models, NEW index, NEW cur
    PROVE  Curate(built, index, cur).list \in SUBSET Models /\ Curate(built, index, cur).hidden \in SUBSET Models
BY DEF Curate

LEMMA LoadTypes ==
    ASSUME NEW enabled, NEW lists, NEW index, NEW cur
    PROVE  Load(enabled, lists, index, cur).list \in SUBSET Models /\ Load(enabled, lists, index, cur).hidden \in SUBSET Models
<1>1. Build(enabled, lists, index) \in SUBSET Models /\ {m \in Models : ProviderOf[m] \in enabled /\ m \in Seed} \in SUBSET Models
  BY DEF Build
<1> QED
  BY <1>1, CurateTypes DEF Load

LEMMA CacheTypes ==
    ASSUME CatalogTypes
    PROVE  Cache \in Lists /\ NoCache \in Lists
<1>1. NoList \in [ok : BOOLEAN, models : SUBSET Models]
  BY DEF NoList
<1>2. NoCache \in Lists
  BY <1>1 DEF NoCache, Lists
<1> QED
  BY <1>2 DEF CatalogTypes, Cache

LEMMA FetchingTypes ==
    ASSUME CatalogTypes, NEW c \in Configs
    PROVE  /\ Fetching(c) \in Refreshes /\ Fetching(c).at = "fetching"
           /\ Fetching(c).config = c /\ Fetching(c).lists = Cache
           /\ Fetching(c).result = Load(c.enabled, Cache, disk.index, curated).list
           /\ Idle \in Refreshes /\ Idle.at = "idle"
<1>1. Idle \in Refreshes /\ Idle.at = "idle"
  BY CacheTypes, CatalogAssumption DEF Idle, Refreshes, CatalogTypes, Configs
<1>2. Load(c.enabled, Cache, disk.index, curated).list \in SUBSET Models /\ disk.index \in BOOLEAN
  BY LoadTypes DEF CatalogTypes
<1>3. /\ Fetching(c) \in Refreshes
      /\ Fetching(c).at = "fetching" /\ Fetching(c).config = c /\ Fetching(c).lists = Cache
      /\ Fetching(c).result = Load(c.enabled, Cache, disk.index, curated).list
  BY <1>1, <1>2, CacheTypes DEF Fetching, Refreshes
<1> QED
  BY <1>1, <1>3

(* What is done with a refresh.                                             *)
LEMMA ListedTypes ==
    ASSUME NEW p \in Providers, NEW old \in [ok : BOOLEAN, models : SUBSET Models],
           NEW q \in Providers, NEW answer \in Answers(q)
    PROVE  /\ Listed(old, answer) \in [ok : BOOLEAN, models : SUBSET Models]
           /\ ~Listed(old, answer).ok => Listed(old, answer).models = old.models
<1>1. answer \in [ok : BOOLEAN, models : SUBSET Models]
  <2>1. Listings[q] \subseteq SUBSET Models
    BY CatalogAssumption
  <2>2. CASE answer = NoList
    BY <2>2 DEF NoList
  <2>3. CASE answer \in [ok : {TRUE}, models : Listings[q]]
    BY <2>1, <2>3
  <2> QED
    BY <2>2, <2>3 DEF Answers
<1> QED
  BY <1>1 DEF Listed

(* Which reference a text stands for.                                       *)
LEMMA LeastOne ==
    ASSUME NEW T, T \subseteq Nat, T # {}
    PROVE  Min(T) \in T /\ \A k \in T : Min(T) <= k
<1>1. PICK m \in T : \A k \in T : <<k, m>> \notin OpToRel(<, Nat)
  BY NatLessThanWellFounded, WFMin
<1>2. \A k \in T : ~(k < m)
  BY <1>1 DEF OpToRel
<1>3. \A k \in T : m <= k
  BY <1>2
<1> QED
  BY <1>3 DEF Min

LEMMA FirstIsOne ==
    ASSUME NEW T, NEW order \in Seq(T), NEW S, S \subseteq ToSet(order), S # {}
    PROVE  First(order, S) \in S
<1> DEFINE D == {i \in DOMAIN order : order[i] \in S}
<1>1. PICK m \in S : TRUE
  OBVIOUS
<1>2. \E i \in DOMAIN order : order[i] = m
  BY DEF ToSet
<1>3. D # {} /\ D \subseteq Nat
  BY <1>2
<1>4. Min(D) \in D
  BY <1>3, LeastOne
<1> QED
  BY <1>4 DEF First

LEMMA AliasTypes ==
    ASSUME rules \in Rules, NEW text \in Models \cup Queries
    PROVE  Alias(text) \in Models \cup Queries
BY CatalogAssumption DEF Alias

LEMMA HopFacts ==
    ASSUME rules \in Rules, NEW text \in Models \cup Queries
    PROVE  /\ Hops(text, 8) = [k \in 0 .. 8 |-> IF k = 0 THEN text ELSE Alias(Hops(text, 8)[k - 1])]
           /\ \A k \in 0 .. 8 : Hops(text, 8)[k] \in Models \cup Queries
<1> DEFINE a1 == Alias(text)
           a2 == Alias(a1)
           a3 == Alias(a2)
           a4 == Alias(a3)
           a5 == Alias(a4)
           a6 == Alias(a5)
           a7 == Alias(a6)
           a8 == Alias(a7)
           f == [k \in 0 .. 8 |-> IF k = 0 THEN text ELSE IF k = 1 THEN a1 ELSE IF k = 2 THEN a2
                                  ELSE IF k = 3 THEN a3 ELSE IF k = 4 THEN a4 ELSE IF k = 5 THEN a5
                                  ELSE IF k = 6 THEN a6 ELSE IF k = 7 THEN a7 ELSE a8]
           Rec(h) == h = [k \in 0 .. 8 |-> IF k = 0 THEN text ELSE Alias(h[k - 1])]
<1>1. Rec(f)
  <2>1. 0 .. 8 = {0, 1, 2, 3, 4, 5, 6, 7, 8}
    OBVIOUS
  <2>2. /\ f[0] = text /\ f[1] = a1 /\ f[2] = a2 /\ f[3] = a3 /\ f[4] = a4
        /\ f[5] = a5 /\ f[6] = a6 /\ f[7] = a7 /\ f[8] = a8
    OBVIOUS
  <2> HIDE DEF f
  <2>3. \A k \in 0 .. 8 : f[k] = IF k = 0 THEN text ELSE Alias(f[k - 1])
    BY <2>1, <2>2
  <2>4. f = [k \in 0 .. 8 |-> f[k]]
    BY DEF f
  <2> QED
    BY <2>3, <2>4
<1>2. Hops(text, 8) = CHOOSE h : Rec(h)
  BY DEF Hops
<1>3. Rec(Hops(text, 8))
  <2> HIDE DEF Rec
  <2> QED
    BY <1>1, <1>2
<1> DEFINE h == Hops(text, 8)
<1>4. \A k \in 0 .. 8 : h[k] = IF k = 0 THEN text ELSE Alias(h[k - 1])
  BY <1>3
<1>5. \A q \in Models \cup Queries : Alias(q) \in Models \cup Queries
  BY AliasTypes
<1> HIDE DEF h
<1>6. /\ h[0] = text /\ h[1] = Alias(h[0]) /\ h[2] = Alias(h[1]) /\ h[3] = Alias(h[2]) /\ h[4] = Alias(h[3])
      /\ h[5] = Alias(h[4]) /\ h[6] = Alias(h[5]) /\ h[7] = Alias(h[6]) /\ h[8] = Alias(h[7])
  BY <1>4
<1>7. \A k \in {0, 1, 2, 3, 4, 5, 6, 7, 8} : h[k] \in Models \cup Queries
  BY <1>5, <1>6
<1>8. \A k \in 0 .. 8 : h[k] \in Models \cup Queries
  BY <1>7
<1> QED
  BY <1>3, <1>8 DEF h

LEMMA BestIsOne ==
    ASSUME NEW text \in Models \cup Queries, NEW F, F \subseteq Models, F # {}
    PROVE  \E m \in F : \A o \in F : Fit[text][o].score <= Fit[text][m].score
<1> DEFINE s(i) == Fit[text][ModelOrder[i]].score
           among(n) == {i \in 1 .. n : ModelOrder[i] \in F}
           best(n) == among(n) # {} => \E i \in among(n) : \A k \in among(n) : s(k) <= s(i)
           size == Len(ModelOrder)
           bad == {n \in 0 .. size : ~best(n)}
<1>1. size \in Nat /\ DOMAIN ModelOrder = 1 .. size /\ \A i \in 1 .. size : ModelOrder[i] \in Models /\ s(i) \in Int
  BY CatalogAssumption
<1>2. ASSUME bad # {} PROVE FALSE
  <2>1. PICK n \in bad : \A k \in bad : n <= k
    <3>1. bad \subseteq Nat
      BY <1>1
    <3> HIDE DEF bad
    <3> QED
      BY <1>2, <3>1, LeastOne
  <2>2. n \in 0 .. size /\ ~best(n)
    BY <2>1
  <2>3. n # 0
    BY <2>2
  <2>4. n - 1 \in 0 .. size /\ best(n - 1)
    <3>1. n - 1 \in 0 .. size /\ ~(n <= n - 1)
      BY <1>1, <2>2, <2>3
    <3>2. n - 1 \notin bad
      <4> HIDE DEF bad
      <4> QED
        BY <2>1, <3>1
    <3> HIDE DEF best
    <3> QED
      BY <3>1, <3>2
  <2>5. among(n) = IF ModelOrder[n] \in F THEN among(n - 1) \cup {n} ELSE among(n - 1)
    BY <1>1, <2>2, <2>3
  <2>6. among(n - 1) \subseteq 1 .. size /\ n \in 1 .. size
    BY <1>1, <2>2, <2>3
  <2>7. CASE ModelOrder[n] \notin F
    BY <2>2, <2>4, <2>5, <2>7
  <2>8. CASE ModelOrder[n] \in F /\ among(n - 1) = {}
    BY <1>1, <2>2, <2>5, <2>6, <2>8
  <2>9. CASE ModelOrder[n] \in F /\ among(n - 1) # {}
    <3>1. PICK i \in among(n - 1) : \A k \in among(n - 1) : s(k) <= s(i)
      BY <2>4, <2>9
    <3>2. s(i) \in Int /\ s(n) \in Int /\ \A k \in among(n - 1) : s(k) \in Int
      BY <1>1, <2>6
    <3> HIDE DEF s, among
    <3>3. CASE s(n) <= s(i)
      BY <2>2, <2>5, <2>9, <3>1, <3>3 DEF best
    <3>4. CASE ~(s(n) <= s(i))
      <4>1. \A k \in among(n - 1) : s(k) <= s(n)
        BY <3>1, <3>2, <3>4
      <4>2. s(n) <= s(n)
        BY <3>2
      <4> QED
        BY <2>2, <2>5, <2>9, <4>1, <4>2
    <3> QED
      BY <3>3, <3>4
  <2> QED
    BY <2>7, <2>8, <2>9
<1>3. best(size)
  <2>1. size \in 0 .. size
    BY <1>1
  <2> HIDE DEF best
  <2> QED
    BY <1>2, <2>1
<1>4. \A m \in F : \E i \in among(size) : ModelOrder[i] = m
  BY <1>1, CatalogAssumption DEF ToSet
<1>5. among(size) # {}
  BY <1>4
<1>6. PICK i \in among(size) : \A k \in among(size) : s(k) <= s(i)
  BY <1>3, <1>5
<1> QED
  BY <1>4, <1>6

LEMMA ByFitIsListed ==
    ASSUME NEW text \in Models \cup Queries, NEW list \in SUBSET Models
    PROVE  ByFit(text, list) \in list \cup {None}
<1> DEFINE suffix == {m \in list : Fit[text][m].suffix}
           word == {m \in list : Fit[text][m].word}
           found == {m \in list : Fit[text][m].score > 0}
           best == CHOOSE m \in found : \A o \in found : Fit[text][o].score <= Fit[text][m].score
<1>1. \A S : Cardinality(S) = 1 => S # {}
  BY FS_EmptySet
<1>a. ModelOrder \in Seq(Models) /\ ToSet(ModelOrder) = Models
  BY CatalogAssumption
<1>2. Cardinality(suffix) = 1 => First(ModelOrder, suffix) \in list
  BY <1>a, <1>1, FirstIsOne
<1>3. Cardinality(word) = 1 => First(ModelOrder, word) \in list
  BY <1>a, <1>1, FirstIsOne
<1>4. found # {} => best \in list
  <2> SUFFICES ASSUME found # {} PROVE best \in list
    OBVIOUS
  <2>1. \E m \in found : \A o \in found : Fit[text][o].score <= Fit[text][m].score
    BY BestIsOne
  <2> QED
    BY <2>1
<1> HIDE DEF suffix, word, found, best
<1> QED
  BY <1>2, <1>3, <1>4 DEF ByFit, suffix, word, found, best

LEMMA ResolveIsListed ==
    ASSUME rules \in Rules, NEW text \in Models \cup Queries, NEW list \in SUBSET Models
    PROVE  Resolve(text, list) \in list \cup {None}
<1> DEFINE hop == Hops(text, 8)
           exact == {k \in 0 .. 7 : hop[k] \in list}
<1>1. exact # {} => hop[Min(exact)] \in list
  BY LeastOne
<1>2. hop[8] \in Models \cup Queries
  BY HopFacts
<1>3. ByFit(hop[8], list) \in list \cup {None}
  BY <1>2, ByFitIsListed
<1> HIDE DEF exact, hop
<1> QED
  BY <1>1, <1>3 DEF Resolve, exact, hop

-----------------------------------------------------------------------------
(* Types.                                                                   *)

LEMMA TypesInit == CatalogInit => CatalogTypes
<1> SUFFICES ASSUME CatalogInit PROVE CatalogTypes
  OBVIOUS
<1>1. rules \in Rules /\ config = rules.config /\ config \in Configs
  BY CatalogAssumption DEF CatalogInit, Configs
<1>2. NoCache \in Lists
  BY DEF NoCache, NoList, Lists
<1>3. [hidden |-> {}, kept |-> {}] \in Stores
  BY DEF Stores
<1>4. Idle \in Refreshes
  BY <1>1, <1>2 DEF Idle, Refreshes
<1>5. Off \in Sessions
  BY <1>1, <1>3 DEF Off, Sessions
<1> QED
  BY <1>1, <1>2, <1>3, <1>4, <1>5 DEF CatalogInit, CatalogTypes

LEMMA CuratesTypes ==
    ASSUME CatalogTypes, NEW store \in Stores, Curates(store)
    PROVE  CatalogTypes'
<1>1. session' \in Sessions
  BY DEF CatalogTypes, Curates, Sessions
<1> QED
  BY <1>1 DEF CatalogTypes, Curates

\* What Save leaves of its refresh.
LEMMA SavedJob ==
    ASSUME CatalogTypes, NEW j \in Jobs, Save(j)
    PROVE  \E at \in {"idle", "ended"}, result \in SUBSET Models :
              /\ job' = [job EXCEPT ![j] = IF j = "models" THEN Idle
                                           ELSE [job[j] EXCEPT !.at = at, !.result = result]]
              /\ LET c == IF j = "boot" THEN session.config ELSE job[j].config
                 IN  result \in {job[j].result,
                                 Curate(Build(c.enabled, job[j].lists, job[j].index), job[j].index, curated).list}
<1> DEFINE c == IF j = "boot" THEN session.config ELSE job[j].config
           built == Curate(Build(c.enabled, job[j].lists, job[j].index), job[j].index, curated)
           nothing == ~job[j].fine /\ built.list = {}
           at == IF j = "boot" /\ nothing THEN "idle" ELSE "ended"
           result == IF nothing THEN job[j].result ELSE built.list
<1>1. Build(c.enabled, job[j].lists, job[j].index) \in SUBSET Models
  BY DEF Build
<1>2. built.list \in SUBSET Models /\ job[j].result \in SUBSET Models
  BY <1>1, CurateTypes DEF CatalogTypes, Refreshes
<1>3. job' = [job EXCEPT ![j] =
                 IF j = "models" THEN Idle ELSE [job[j] EXCEPT !.at = at, !.result = result]]
  BY DEF Save
<1> HIDE DEF built, nothing
<1>4. at \in {"idle", "ended"} /\ result \in {job[j].result, built.list} /\ result \in SUBSET Models
  BY <1>2
<1> HIDE DEF at, result, c
<1> QED
  BY <1>3, <1>4 DEF built, c

LEMMA SavedTypes ==
    ASSUME CatalogTypes, NEW j \in Jobs, Save(j)
    PROVE  job' \in [Jobs -> Refreshes]
<1>1. PICK at \in {"idle", "ended"}, result \in SUBSET Models :
          job' = [job EXCEPT ![j] = IF j = "models" THEN Idle
                                    ELSE [job[j] EXCEPT !.at = at, !.result = result]]
  BY SavedJob
<1>2. [job[j] EXCEPT !.at = at, !.result = result] \in Refreshes
  BY DEF CatalogTypes, Refreshes
<1>3. Idle \in Refreshes
  BY FetchingTypes DEF CatalogTypes
<1> QED
  BY <1>1, <1>2, <1>3 DEF CatalogTypes

\* What Discover leaves of its refresh: what was not listed is as it was.
LEMMA DiscoveredJob ==
    ASSUME CatalogTypes, NEW j \in Jobs, Discover(j)
    PROVE  \E index \in BOOLEAN, fine \in BOOLEAN, lists \in Lists :
              /\ job' = [job EXCEPT ![j] = [job[j] EXCEPT !.at = "saving", !.index = index, !.fine = fine, !.lists = lists]]
              /\ \A p \in Providers : ~lists[p].ok => lists[p].models = job[j].lists[p].models
<1> DEFINE asked == (IF j = "boot" THEN session.config ELSE job[j].config).enabled \cap rules.discovers
<1>1. PICK got \in [Providers -> UNION {Answers(p) : p \in Providers}], dev \in BOOLEAN :
          job' = [job EXCEPT
                ![j].at = "saving", ![j].index = @ \/ dev,
                ![j].fine = dev /\ \A p \in asked : got[p].ok,
                ![j].lists = [p \in Providers |-> IF p \in asked THEN Listed(@[p], got[p]) ELSE @[p]]]
  BY DEF Discover
<1> DEFINE lists == [p \in Providers |-> IF p \in asked THEN Listed(job[j].lists[p], got[p]) ELSE job[j].lists[p]]
           fine == dev /\ \A p \in asked : got[p].ok
           index == job[j].index \/ dev
<1>2. job \in [Jobs -> Refreshes] /\ job[j] \in Refreshes /\ job[j].lists \in Lists /\ job[j].index \in BOOLEAN
  BY DEF CatalogTypes, Refreshes
<1>3. job' = [job EXCEPT ![j] = [job[j] EXCEPT !.at = "saving", !.index = index, !.fine = fine, !.lists = lists]]
  BY <1>1, <1>2 DEF Refreshes
<1>4. ASSUME NEW p \in Providers
      PROVE  /\ lists[p] \in [ok : BOOLEAN, models : SUBSET Models]
             /\ ~lists[p].ok => lists[p].models = job[j].lists[p].models
  <2>1. PICK q \in Providers : got[p] \in Answers(q)
    OBVIOUS
  <2>2. job[j].lists[p] \in [ok : BOOLEAN, models : SUBSET Models]
    BY <1>2 DEF Lists
  <2>3. /\ Listed(job[j].lists[p], got[p]) \in [ok : BOOLEAN, models : SUBSET Models]
        /\ ~Listed(job[j].lists[p], got[p]).ok => Listed(job[j].lists[p], got[p]).models = job[j].lists[p].models
    BY <2>1, <2>2, ListedTypes
  <2> QED
    BY <2>2, <2>3
<1>5. lists \in Lists /\ fine \in BOOLEAN /\ index \in BOOLEAN
  BY <1>2, <1>4 DEF Lists
<1> HIDE DEF lists, fine, index
<1> QED
  BY <1>3, <1>4, <1>5

LEMMA TypesStep ==
    ASSUME CatalogTypes, [CatalogNext]_catalogVars
    PROVE  CatalogTypes'
<1> USE DEF CatalogTypes
<1>1. ASSUME NEW old \in BOOLEAN, Boot(old) PROVE CatalogTypes'
  <2> DEFINE loaded == Load(config.enabled, Cache, disk.index, curated)
  <2>1. loaded.list \in SUBSET Models /\ loaded.hidden \in SUBSET Models
    BY LoadTypes
  <2>2. session' \in Sessions
    BY <1>1, <2>1 DEF Boot, Sessions
  <2>3. job' \in [Jobs -> Refreshes]
    <3>1. Fetching(config) \in Refreshes
      BY FetchingTypes
    <3> QED
      BY <1>1, <3>1 DEF Boot
  <2> QED
    BY <1>1, <2>2, <2>3 DEF Boot
<1>2. CASE Quit
  <2>1. Idle \in Refreshes
    BY FetchingTypes
  <2>2. Off \in Sessions
    BY CatalogAssumption DEF Off, Sessions, Stores, Configs
  <2> QED
    BY <1>2, <2>1, <2>2 DEF Quit
<1>3. CASE RefreshModels
  BY <1>3, FetchingTypes DEF RefreshModels
<1>4. CASE Clean
  BY <1>4, CacheTypes DEF Clean
<1>5. CASE RunModelsReset
  <2>1. [session.store EXCEPT !.hidden = {}] \in Stores
    BY DEF Sessions, Stores
  <2> QED
    BY <1>5, <2>1, CuratesTypes DEF RunModelsReset
<1>6. ASSUME NEW p \in Providers, Login(p) PROVE CatalogTypes'
  <2> DEFINE next == [enabled |-> config.enabled \cup {p}, authed |-> config.authed \cup {p}]
  <2>1. next \in Configs
    BY DEF Configs
  <2>2. Fetching(next) \in Refreshes
    BY <2>1, FetchingTypes
  <2> QED
    BY <1>6, <2>1, <2>2 DEF Login
<1>7. ASSUME NEW j \in Jobs, Discover(j) PROVE CatalogTypes'
  <2>1. PICK index \in BOOLEAN, fine \in BOOLEAN, lists \in Lists :
            job' = [job EXCEPT ![j] = [job[j] EXCEPT !.at = "saving", !.index = index, !.fine = fine, !.lists = lists]]
    BY <1>7, DiscoveredJob
  <2>2. [job[j] EXCEPT !.at = "saving", !.index = index, !.fine = fine, !.lists = lists] \in Refreshes
    BY DEF Refreshes
  <2> QED
    BY <1>7, <2>1, <2>2 DEF Discover
<1>8. ASSUME NEW j \in Jobs, Save(j) PROVE CatalogTypes'
  <2>1. [exists |-> TRUE, lists |-> job[j].lists, index |-> disk.index \/ job[j].index]
            \in [exists : BOOLEAN, lists : Lists, index : BOOLEAN]
    BY DEF Refreshes
  <2> QED
    BY <1>8, <2>1, SavedTypes DEF Save
<1>9. ASSUME NEW j \in Jobs, Apply(j) PROVE CatalogTypes'
  <2>1. Idle \in Refreshes
    BY FetchingTypes
  <2>2. session' \in Sessions
    BY <1>9 DEF Apply, Sessions, Refreshes
  <2> QED
    BY <1>9, <2>1, <2>2 DEF Apply
<1>10. ASSUME NEW m \in Models, HideOrUnhideCurrent(m) PROVE CatalogTypes'
  <2>1. [session.store EXCEPT !.hidden = @ \ {m}] \in Stores /\ Hide(session.store, m) \in Stores
    BY DEF Sessions, Stores, Hide
  <2> QED
    BY <1>10, <2>1, CuratesTypes DEF HideOrUnhideCurrent
<1>11. ASSUME NEW text \in Models \cup Queries, NEW keeps \in BOOLEAN, RunModelHide(text, keeps) PROVE CatalogTypes'
  <2> DEFINE m == Resolve(text, session.list)
  <2>1. session.list \in SUBSET Models /\ session.store \in Stores
    BY DEF Sessions
  <2>2. m \in session.list \cup {None}
    BY <2>1, ResolveIsListed
  <2>3. m # None /\ Curates(IF keeps THEN Keep(session.store, m) ELSE Hide(session.store, m))
    BY <1>11 DEF RunModelHide
  <2>4. m \in Models
    BY <2>1, <2>2, <2>3
  <2> HIDE DEF m
  <2>5. Keep(session.store, m) \in Stores /\ Hide(session.store, m) \in Stores
    BY <2>1, <2>4 DEF Stores, Hide, Keep
  <2> QED
    BY <2>3, <2>5, CuratesTypes
<1>12. CASE UNCHANGED catalogVars
  BY <1>12 DEF catalogVars
<1> QED
  BY <1>1, <1>2, <1>3, <1>4, <1>5, <1>6, <1>7, <1>8, <1>9, <1>10, <1>11, <1>12 DEF CatalogNext

\* Listings, choices and refreshes are of their types, and nothing is both hidden
\* and kept.
THEOREM CatalogTypeCorrect == CatalogSpec => []CatalogTypeOK
<1>1. CatalogTypes => CatalogTypeOK
  <2> SUFFICES ASSUME CatalogTypes PROVE CatalogTypeOK
    OBVIOUS
  <2>1. disk.lists \in Lists /\ disk.exists \in BOOLEAN /\ disk.index \in BOOLEAN
    BY DEF CatalogTypes
  <2>2. {config, session.config} \subseteq [enabled : SUBSET Providers, authed : SUBSET Providers]
    BY DEF CatalogTypes, Sessions, Configs
  <2>3. session.list \subseteq Models
    BY DEF CatalogTypes, Sessions
  <2>4. \A j \in Jobs : job[j].lists \in Lists /\ job[j].result \subseteq Models
    BY DEF CatalogTypes, Refreshes
  <2>5. curated \in Stores /\ session.store \in Stores
    BY DEF CatalogTypes, Sessions
  <2> QED
    BY <2>1, <2>2, <2>3, <2>4, <2>5 DEF CatalogTypeOK, Stores
<1> QED
  BY <1>1, TypesInit, TypesStep, PTL DEF CatalogSpec

-----------------------------------------------------------------------------
(* What a refresh holds of a provider is what that last listed, as long as  *)
(* no other refresh has ended since it read the cache.                      *)

CacheInv ==
    /\ raced \in BOOLEAN
    /\ ~disk.exists => \A p \in Providers : disk.lists[p].models = {} /\ latest[p] = {}
    /\ ~raced =>
          /\ \A p \in Providers : disk.lists[p].models = latest[p]
          /\ \A j \in Jobs, p \in Providers :
                /\ job[j].at = "fetching" => job[j].lists[p].models = latest[p]
                /\ job[j].at = "saving" /\ ~job[j].lists[p].ok => job[j].lists[p].models = latest[p]

LEMMA CacheIsDisk ==
    ASSUME CatalogTypes, CacheInv, ~raced
    PROVE  \A p \in Providers : Cache[p].models = latest[p]
BY DEF CatalogTypes, CacheInv, Cache, NoCache, NoList

LEMMA CacheInit == CatalogInit => CacheInv
<1>1. \A p \in Providers : NoCache[p].models = {}
  BY DEF NoCache, NoList
<1>2. Idle.at = "idle"
  BY DEF Idle
<1>3. ASSUME CatalogInit PROVE CacheInv
  <2>1. disk.lists = NoCache /\ latest = [p \in Providers |-> {}] /\ raced = FALSE
    BY <1>3 DEF CatalogInit
  <2>2. \A j \in Jobs : job[j].at = "idle"
    BY <1>2, <1>3 DEF CatalogInit
  <2> QED
    BY <1>1, <2>1, <2>2 DEF CacheInv
<1> QED
  BY <1>3

\* A step that leaves the cache and what was listed, and begins at most one refresh.
LEMMA CacheKept ==
    ASSUME CatalogTypes, CacheInv, UNCHANGED <<disk, latest, raced>>,
           \A j \in Jobs : \/ job'[j].at \in {"idle", "ended"} \/ job'[j] = job[j]
                           \/ job'[j].at = "fetching" /\ job'[j].lists = Cache
    PROVE  CacheInv'
<1>1. CASE raced
  BY <1>1 DEF CacheInv
<1>2. CASE ~raced
  BY <1>2, CacheIsDisk DEF CacheInv
<1> QED
  BY <1>1, <1>2

LEMMA CacheStep ==
    ASSUME CatalogTypes, CacheInv, [CatalogNext]_catalogVars
    PROVE  CacheInv'
<1>0. /\ config \in Configs /\ job \in [Jobs -> Refreshes]
      /\ Idle.at = "idle" /\ \A c \in Configs : Fetching(c).at = "fetching" /\ Fetching(c).lists = Cache
  BY FetchingTypes DEF CatalogTypes
<1>1. ASSUME NEW old \in BOOLEAN, Boot(old) PROVE CacheInv'
  BY <1>0, <1>1, CacheKept DEF Boot
<1>2. CASE Quit
  BY <1>0, <1>2, CacheKept DEF Quit
<1>3. CASE RefreshModels
  BY <1>0, <1>3, CacheKept DEF RefreshModels
<1>4. CASE Clean
  <2>1. \A p \in Providers : NoCache[p].models = {}
    BY DEF NoCache, NoList
  <2>2. /\ disk'.lists = NoCache /\ disk'.exists = FALSE /\ job' = job
        /\ latest' = [p \in Providers |-> {}] /\ raced' = (\E j \in Jobs : job[j].at # "idle")
    BY <1>4 DEF Clean
  <2> QED
    BY <2>1, <2>2 DEF CacheInv
<1>5. CASE RunModelsReset
  BY <1>5, CacheKept DEF RunModelsReset, Curates
<1>6. ASSUME NEW p \in Providers, Login(p) PROVE CacheInv'
  <2>1. [enabled |-> config.enabled \cup {p}, authed |-> config.authed \cup {p}] \in Configs
    BY <1>0 DEF Configs
  <2> QED
    BY <1>0, <1>6, <2>1, CacheKept DEF Login
<1>7. ASSUME NEW j \in Jobs, Discover(j) PROVE CacheInv'
  <2>1. PICK index \in BOOLEAN, fine \in BOOLEAN, lists \in Lists :
            /\ job' = [job EXCEPT ![j] = [job[j] EXCEPT !.at = "saving", !.index = index, !.fine = fine, !.lists = lists]]
            /\ \A p \in Providers : ~lists[p].ok => lists[p].models = job[j].lists[p].models
    BY <1>7, DiscoveredJob
  <2>2. job[j].at = "fetching" /\ UNCHANGED <<disk, latest, raced>>
    BY <1>7 DEF Discover
  <2>3. /\ \A k \in Jobs \ {j} : job'[k] = job[k]
        /\ job'[j].at = "saving" /\ job'[j].lists = lists
    BY <1>0, <2>1 DEF Refreshes
  <2> QED
    BY <2>1, <2>2, <2>3 DEF CacheInv
<1>8. ASSUME NEW j \in Jobs, Save(j) PROVE CacheInv'
  <2>1. /\ job[j].at = "saving"
        /\ disk' = [exists |-> TRUE, lists |-> job[j].lists, index |-> disk.index \/ job[j].index]
        /\ latest' = [p \in Providers |-> IF job[j].lists[p].ok THEN job[j].lists[p].models ELSE latest[p]]
        /\ raced' = (raced \/ \E k \in Jobs \ {j} : job[k].at \in {"fetching", "saving"})
    BY <1>8 DEF Save
  <2>2. /\ \A k \in Jobs \ {j} : job'[k] = job[k]
        /\ job'[j].at \in {"idle", "ended"}
    BY <1>0, <1>8 DEF Save, Refreshes
  <2>3. disk'.exists /\ disk'.lists = job[j].lists /\ raced' \in BOOLEAN
    BY <2>1 DEF CacheInv
  <2>4. ASSUME ~raced' PROVE ~raced /\ \A k \in Jobs \ {j} : ~(job[k].at \in {"fetching", "saving"})
    BY <2>1, <2>4
  <2> QED
    BY <2>1, <2>2, <2>3, <2>4 DEF CacheInv
<1>9. ASSUME NEW j \in Jobs, Apply(j) PROVE CacheInv'
  BY <1>0, <1>9, CacheKept DEF Apply
<1>10. ASSUME NEW m \in Models, HideOrUnhideCurrent(m) PROVE CacheInv'
  BY <1>10, CacheKept DEF HideOrUnhideCurrent, Curates
<1>11. ASSUME NEW text, NEW keeps, RunModelHide(text, keeps) PROVE CacheInv'
  BY <1>11, CacheKept DEF RunModelHide, Curates
<1>12. CASE UNCHANGED catalogVars
  BY <1>12 DEF catalogVars, CacheInv
<1> QED
  BY <1>1, <1>2, <1>3, <1>4, <1>5, <1>6, <1>7, <1>8, <1>9, <1>10, <1>11, <1>12 DEF CatalogNext

-----------------------------------------------------------------------------
(* What the configuration declares: no listing and no rule takes it off,    *)
(* so it is in whatever is built for at least the providers enabled from    *)
(* the start, unless the person hid it.                                     *)

Declared == {m \in rules.declared \ hid : ProviderOf[m] \in rules.config.enabled}
Broad(c) == rules.config.enabled \subseteq c.enabled

ShownInv ==
    /\ curated.hidden \subseteq hid /\ session.store.hidden \subseteq hid
    /\ Broad(config) /\ Broad(session.config)
    /\ session.on => Declared \subseteq session.list
    /\ \A j \in Jobs : job[j].at # "idle" => Broad(job[j].config) /\ Declared \subseteq job[j].result

LEMMA DeclaredBuilt ==
    ASSUME CatalogTypes, ShownInv, NEW c, Broad(c), NEW lists, NEW index
    PROVE  /\ Declared \subseteq Build(c.enabled, lists, index)
           /\ Declared \subseteq Curate(Build(c.enabled, lists, index), index, curated).list
<1>1. rules.declared \subseteq Models
  BY CatalogAssumption DEF CatalogTypes
<1>2. Declared \subseteq Build(c.enabled, lists, index)
  BY <1>1 DEF Declared, Broad, Build
<1>3. \A m \in Declared : ~Hides(m, Build(c.enabled, lists, index), index, curated)
  BY DEF Declared, ShownInv, Hides
<1> QED
  BY <1>2, <1>3 DEF Curate

LEMMA DeclaredLoaded ==
    ASSUME CatalogTypes, ShownInv, NEW c, Broad(c), NEW lists, NEW index
    PROVE  Declared \subseteq Load(c.enabled, lists, index, curated).list
<1>1. /\ Declared \subseteq Build(c.enabled, lists, index)
      /\ Declared \subseteq Curate(Build(c.enabled, lists, index), index, curated).list
  BY DeclaredBuilt
<1> QED
  BY <1>1 DEF Load

LEMMA ShownInit == CatalogInit => ShownInv
<1> SUFFICES ASSUME CatalogInit PROVE ShownInv
  OBVIOUS
<1>1. Idle.at = "idle" /\ ~Off.on /\ Off.config = rules.config /\ Off.store.hidden = {}
  BY DEF Idle, Off
<1> QED
  BY <1>1 DEF CatalogInit, ShownInv, Broad

\* A step that hides nothing, and only takes or keeps what was shown.
LEMMA ShownKept ==
    ASSUME CatalogTypes, ShownInv, UNCHANGED <<rules, hid, curated>>,
           Broad(config'), Broad(session'.config), session'.store.hidden \subseteq hid,
           session'.on => Declared \subseteq session'.list,
           \A j \in Jobs : job'[j].at # "idle" => Broad(job'[j].config) /\ Declared \subseteq job'[j].result
    PROVE  ShownInv'
BY DEF ShownInv, Broad, Declared

LEMMA ShownHides ==
    ASSUME CatalogTypes, ShownInv, NEW store, Curates(store)
    PROVE  ShownInv'
<1>1. /\ hid' = hid \cup store.hidden /\ curated' = store /\ UNCHANGED <<rules, config, job>>
      /\ session'.store = store /\ session'.on = session.on
      /\ session'.list = session.list /\ session'.config = session.config
  BY DEF Curates, CatalogTypes, Sessions
<1>2. Declared' \subseteq Declared
  BY <1>1 DEF Declared
<1> QED
  BY <1>1, <1>2 DEF ShownInv, Broad

LEMMA ShownStep ==
    ASSUME CatalogTypes, ShownInv, [CatalogNext]_catalogVars
    PROVE  ShownInv'
<1>0. /\ config \in Configs /\ job \in [Jobs -> Refreshes] /\ session \in Sessions
      /\ Idle.at = "idle" /\ ~Off.on /\ Off.config = rules.config /\ Off.store.hidden = {}
      /\ \A c \in Configs : /\ Fetching(c).config = c
                            /\ Broad(c) => Declared \subseteq Fetching(c).result
  BY FetchingTypes, DeclaredLoaded DEF CatalogTypes, Off
<1>1. ASSUME NEW old \in BOOLEAN, Boot(old) PROVE ShownInv'
  <2>1. Declared \subseteq Load(config.enabled, Cache, disk.index, curated).list
    BY DeclaredLoaded DEF ShownInv
  <2>2. /\ session'.config = config /\ session'.store = curated
        /\ session'.list = Load(config.enabled, Cache, disk.index, curated).list
        /\ job' \in {job, [job EXCEPT !["boot"] = Fetching(config)]}
        /\ UNCHANGED <<rules, hid, curated, config>>
    BY <1>1 DEF Boot
  <2> QED
    BY <1>0, <2>1, <2>2, ShownKept DEF ShownInv
<1>2. CASE Quit
  BY <1>0, <1>2, ShownKept DEF Quit, ShownInv, Broad
<1>3. CASE RefreshModels
  BY <1>0, <1>3, ShownKept DEF RefreshModels, ShownInv
<1>4. CASE Clean
  BY <1>4, ShownKept DEF Clean, ShownInv
<1>5. CASE RunModelsReset
  BY <1>5, ShownHides DEF RunModelsReset
<1>6. ASSUME NEW p \in Providers, Login(p) PROVE ShownInv'
  <2> DEFINE next == [enabled |-> config.enabled \cup {p}, authed |-> config.authed \cup {p}]
  <2>1. next \in Configs /\ Broad(next)
    BY <1>0 DEF Configs, ShownInv, Broad
  <2>2. config' = next /\ job' = [job EXCEPT !["login"] = Fetching(next)] /\ UNCHANGED <<rules, hid, curated, session>>
    BY <1>6 DEF Login
  <2> HIDE DEF next
  <2> QED
    BY <1>0, <2>1, <2>2, ShownKept DEF ShownInv
<1>7. ASSUME NEW j \in Jobs, Discover(j) PROVE ShownInv'
  <2>1. job[j].at = "fetching" /\ UNCHANGED <<rules, hid, curated, session, config>>
    BY <1>7 DEF Discover
  <2>2. PICK index \in BOOLEAN, fine \in BOOLEAN, lists \in Lists :
            job' = [job EXCEPT ![j] = [job[j] EXCEPT !.at = "saving", !.index = index, !.fine = fine, !.lists = lists]]
    BY <1>7, DiscoveredJob
  <2>3. /\ \A k \in Jobs : job'[k].config = job[k].config /\ job'[k].result = job[k].result
        /\ \A k \in Jobs \ {j} : job'[k] = job[k]
    BY <1>0, <2>2 DEF Refreshes
  <2> QED
    BY <2>1, <2>3, ShownKept DEF ShownInv
<1>8. ASSUME NEW j \in Jobs, Save(j) PROVE ShownInv'
  <2> DEFINE c == IF j = "boot" THEN session.config ELSE job[j].config
             built == Curate(Build(c.enabled, job[j].lists, job[j].index), job[j].index, curated)
  <2>1. job[j].at = "saving" /\ UNCHANGED <<rules, hid, curated, session, config>>
    BY <1>8 DEF Save
  <2>2. Broad(c) /\ Declared \subseteq job[j].result
    BY <2>1 DEF ShownInv
  <2>3. Declared \subseteq built.list
    BY <2>2, DeclaredBuilt
  <2> HIDE DEF built
  <2>4. /\ \A k \in Jobs \ {j} : job'[k] = job[k]
        /\ job'[j].at # "idle" => job'[j].config = job[j].config /\ job'[j].result \in {job[j].result, built.list}
    <3>1. PICK at \in {"idle", "ended"}, result \in {job[j].result, built.list} :
              job' = [job EXCEPT ![j] = IF j = "models" THEN Idle
                                        ELSE [job[j] EXCEPT !.at = at, !.result = result]]
      BY <1>8, SavedJob DEF built
    <3> QED
      BY <1>0, <3>1 DEF Refreshes
  <2> QED
    BY <2>1, <2>2, <2>3, <2>4, ShownKept DEF ShownInv
<1>9. ASSUME NEW j \in Jobs, Apply(j) PROVE ShownInv'
  <2>1. /\ job[j].at = "ended" /\ UNCHANGED <<rules, hid, curated, config>>
        /\ job' = [job EXCEPT ![j] = Idle]
        /\ session'.list = job[j].result /\ session'.on = session.on /\ session'.store = session.store
        /\ session'.config \in {session.config, job[j].config}
    BY <1>0, <1>9 DEF Apply, Sessions
  <2> QED
    BY <1>0, <2>1, ShownKept DEF ShownInv
<1>10. ASSUME NEW m \in Models, HideOrUnhideCurrent(m) PROVE ShownInv'
  BY <1>10, ShownHides DEF HideOrUnhideCurrent
<1>11. ASSUME NEW text, NEW keeps, RunModelHide(text, keeps) PROVE ShownInv'
  BY <1>11, ShownHides DEF RunModelHide
<1>12. CASE UNCHANGED catalogVars
  BY <1>12 DEF catalogVars, ShownInv, Broad, Declared
<1> QED
  BY <1>1, <1>2, <1>3, <1>4, <1>5, <1>6, <1>7, <1>8, <1>9, <1>10, <1>11, <1>12 DEF CatalogNext

-----------------------------------------------------------------------------
(* What a text stands for.                                                  *)

LEMMA ResolvesWell ==
    ASSUME CatalogTypes
    PROVE  ResolvesSoundly
<1> SUFFICES ASSUME session.on, NEW text \in Models \cup Queries
             PROVE  LET list == session.list
                        taken == RunModelCommand(text)
                        ends == {m \in list : Fit[text][m].suffix}
                    IN  /\ text \in list => taken = text
                        /\ (text \notin list /\ Alias(text) \in list) => taken = Alias(text)
                        /\ (text \in Queries \ DOMAIN rules.alias /\ Cardinality(ends) > 1) => taken = None
                        /\ taken \in list \cup session.hidden \cup {None}
  BY DEF ResolvesSoundly
<1> DEFINE list == session.list
           taken == RunModelCommand(text)
           ends == {m \in list : Fit[text][m].suffix}
           hop == Hops(text, 8)
           exact == {k \in 0 .. 7 : hop[k] \in list}
<1>1. rules \in Rules /\ list \in SUBSET Models /\ session.hidden \in SUBSET Models /\ None \notin Models \cup Queries
      /\ Models \cap Queries = {}
  BY CatalogAssumption DEF CatalogTypes, Sessions
<1>2. hop = [k \in 0 .. 8 |-> IF k = 0 THEN text ELSE Alias(hop[k - 1])]
  BY <1>1, HopFacts
<1>3. hop[0] = text /\ hop[1] = Alias(text)
  <2> HIDE DEF hop
  <2>1. hop[0] = text /\ hop[1] = Alias(hop[0])
    BY <1>2
  <2> QED
    BY <2>1
<1>4. Resolve(text, list) \in list \cup {None}
  BY <1>1, ResolveIsListed
<1>5. taken = IF Resolve(text, list) # None THEN Resolve(text, list) ELSE IF text \in session.hidden THEN text ELSE None
  BY DEF RunModelCommand
<1>6. exact # {} => Min(exact) \in exact /\ (\A k \in exact : Min(exact) <= k) /\ Resolve(text, list) = hop[Min(exact)]
  <2> SUFFICES ASSUME exact # {} PROVE Min(exact) \in exact /\ (\A k \in exact : Min(exact) <= k) /\ Resolve(text, list) = hop[Min(exact)]
    OBVIOUS
  <2>1. Min(exact) \in exact /\ \A k \in exact : Min(exact) <= k
    BY LeastOne
  <2>2. list # {}
    OBVIOUS
  <2>3. Resolve(text, list) = hop[Min(exact)]
    BY <2>2 DEF Resolve
  <2> QED
    BY <2>1, <2>3
<1>7. text \in list => taken = text
  <2> SUFFICES ASSUME text \in list PROVE taken = text
    OBVIOUS
  <2>1. 0 \in exact
    BY <1>3
  <2>2. Min(exact) \in 0 .. 7 /\ Min(exact) <= 0
    BY <1>6, <2>1
  <2>3. Resolve(text, list) = text
    BY <1>3, <1>6, <2>1, <2>2
  <2> QED
    BY <1>1, <1>5, <2>3
<1>8. text \notin list /\ Alias(text) \in list => taken = Alias(text)
  <2> SUFFICES ASSUME text \notin list, Alias(text) \in list PROVE taken = Alias(text)
    OBVIOUS
  <2>1. 1 \in exact /\ 0 \notin exact
    BY <1>3
  <2>2. Min(exact) \in 0 .. 7 /\ Min(exact) <= 1 /\ Min(exact) # 0
    BY <1>6, <2>1
  <2>3. Resolve(text, list) = Alias(text)
    BY <1>3, <1>6, <2>1, <2>2
  <2> QED
    BY <1>1, <1>5, <2>3
<1>9. text \in Queries \ DOMAIN rules.alias /\ Cardinality(ends) > 1 => taken = None
  <2> SUFFICES ASSUME text \in Queries \ DOMAIN rules.alias, Cardinality(ends) > 1 PROVE taken = None
    OBVIOUS
  <2>1. Alias(text) = text
    BY DEF Alias
  <2>2. \A k \in 0 .. 8 : hop[k] = text
    <3> HIDE DEF hop
    <3>1. hop[0] = text /\ hop[1] = text /\ hop[2] = text /\ hop[3] = text /\ hop[4] = text
          /\ hop[5] = text /\ hop[6] = text /\ hop[7] = text /\ hop[8] = text
      BY <1>2, <2>1
    <3> QED
      BY <3>1
  <2>3. exact = {}
    BY <1>1, <2>2
  <2>4. ends # {} /\ Cardinality(ends) # 1
    <3>1. Cardinality({}) = 0
      BY FS_EmptySet
    <3> HIDE DEF ends
    <3> QED
      BY <3>1
  <2>5. ByFit(text, list) = None
    BY <2>4 DEF ByFit
  <2>6. Resolve(text, list) = None
    <3>1. hop[8] = text
      BY <2>2
    <3> HIDE DEF hop, exact
    <3> QED
      BY <2>3, <2>5, <3>1 DEF Resolve, hop, exact
  <2> QED
    BY <1>1, <1>5, <2>6
<1>10. taken \in list \cup session.hidden \cup {None}
  BY <1>4, <1>5
<1> QED
  BY <1>7, <1>8, <1>9, <1>10

\* Unless two refreshes overlapped, the cache has what each provider last listed;
\* what the configuration declares stays on the list until the person hides it;
\* and a text is never guessed at.
THEOREM ListAlwaysServes == CatalogSpec => []ListServes
<1>1. CatalogTypes /\ CacheInv /\ ShownInv => ListServes
  <2> SUFFICES ASSUME CatalogTypes, CacheInv, ShownInv PROVE ListServes
    OBVIOUS
  <2>1. ListingsSurvive
    BY DEF CacheInv, ListingsSurvive
  <2>2. DeclaredShown
    BY DEF ShownInv, DeclaredShown, Declared
  <2> QED
    BY <2>1, <2>2, ResolvesWell DEF ListServes
<1> QED
  BY <1>1, TypesInit, TypesStep, CacheInit, CacheStep, ShownInit, ShownStep, PTL DEF CatalogSpec

-----------------------------------------------------------------------------
(* What a session would start on.                                           *)

\* The code expands aliases before it reads a reference, also one it has put
\* together itself: one that no alias is named after stands for itself.
LEMMA ModelStands ==
    ASSUME NEW m \in Models, m \notin DOMAIN rules.alias
    PROVE  Hops(m, 4)[4] = m
<1> DEFINE Rec(h) == h = [k \in 0 .. 4 |-> IF k = 0 THEN m ELSE Alias(h[k - 1])]
<1>1. Alias(m) = m
  BY DEF Alias
<1>2. Rec([k \in 0 .. 4 |-> m])
  BY <1>1
<1>3. Hops(m, 4) = CHOOSE h : Rec(h)
  BY DEF Hops
<1>4. Rec(Hops(m, 4))
  <2> HIDE DEF Rec
  <2> QED
    BY <1>2, <1>3
<1> DEFINE h == Hops(m, 4)
<1>5. \A k \in 0 .. 4 : h[k] = IF k = 0 THEN m ELSE Alias(h[k - 1])
  BY <1>4
<1> HIDE DEF h
<1>6. h[0] = m /\ h[1] = Alias(h[0]) /\ h[2] = Alias(h[1]) /\ h[3] = Alias(h[2]) /\ h[4] = Alias(h[3])
  BY <1>5
<1> QED
  BY <1>1, <1>6 DEF h

LEMMA ServedStands ==
    ASSUME NEW c, NEW p \in Providers, p \in c.enabled,
           NEW list \in SUBSET Models, NEW index,
           Serves(p, list, index) \notin DOMAIN rules.alias \cup {None}
    PROVE  ResolveModel(Serves(p, list, index), c) # NoTarget /\ ResolveModel(Serves(p, list, index), c).provider = p
<1> DEFINE good == {m \in list : ProviderOf[m] = p /\ "deprecated" \notin Known(m, index)}
           s == Serves(p, list, index)
<1>1. ModelOrder \in Seq(Models) /\ ToSet(ModelOrder) = Models /\ p # None
  BY CatalogAssumption
<1>2. good # {} => First(ModelOrder, good) \in good
  BY <1>1, FirstIsOne
<1>3. s \in Models /\ ProviderOf[s] = p
  BY <1>2, CatalogAssumption DEF Serves
<1>4. Hops(s, 4)[4] = s
  <2>1. s \in Models /\ s \notin DOMAIN rules.alias
    BY <1>3
  <2> QED
    BY <2>1, ModelStands
<1> HIDE DEF s
<1>5. LookedUp(s, c) = [provider |-> p, wire |-> s]
  BY <1>3, <1>4 DEF LookedUp
<1> QED
  BY <1>1, <1>5 DEF ResolveModel, NoTarget, s

\* The providers whose model has the name of an alias.
Aliased(list, index) == {p \in Usable(config) : Serves(p, list, index) \in DOMAIN rules.alias}

LEMMA PickServes ==
    ASSUME CatalogTypes, NEW list \in SUBSET Models, NEW index \in BOOLEAN, NEW skip
    PROVE  LET target == PickBootModel(config, list, index, skip)
               aliased == Aliased(list, index)
           IN  IF target # NoTarget
               THEN \/ target.provider \in Usable(config)
                    \/ \E p \in aliased : target = ResolveModel(Serves(p, list, index), config)
               ELSE \A m \in list :
                       ProviderOf[m] \in Usable(config) \ (skip \cup aliased)
                           => "deprecated" \in Raw[m] \cup Dev[m]
<1> DEFINE able == {p \in Usable(config) \ skip :
                       /\ Serves(p, list, index) # None
                       /\ ResolveModel(Serves(p, list, index), config) # NoTarget}
           target == PickBootModel(config, list, index, skip)
           p1 == First(ProviderOrder, able)
<1>1. rules \in Rules /\ config.enabled \subseteq Providers /\ Usable(config) \subseteq config.enabled
  BY DEF CatalogTypes, Configs, Usable
<1>2. CASE able # {}
  <2>1. p1 \in able
    <3>1. able \subseteq ToSet(ProviderOrder) /\ ProviderOrder \in Seq(Providers)
      BY <1>1, CatalogAssumption
    <3> HIDE DEF able
    <3> QED
      BY <1>2, <3>1, FirstIsOne
  <2>2. p1 \in Usable(config) /\ p1 \in Providers /\ p1 \in config.enabled /\ Serves(p1, list, index) # None
    BY <1>1, <2>1
  <2>3. target = ResolveModel(Serves(p1, list, index), config)
    BY <1>2 DEF PickBootModel
  <2> HIDE DEF p1, target
  <2>4. target # NoTarget
    BY <2>1, <2>3
  <2>5. CASE Serves(p1, list, index) \in DOMAIN rules.alias
    <3>1. p1 \in Aliased(list, index)
      BY <2>2, <2>5 DEF Aliased
    <3> QED
      BY <2>3, <2>4, <3>1 DEF target
  <2>6. CASE Serves(p1, list, index) \notin DOMAIN rules.alias
    <3>1. Serves(p1, list, index) \notin DOMAIN rules.alias \cup {None}
      BY <2>2, <2>6
    <3>2. target.provider = p1
      BY <2>2, <2>3, <3>1, ServedStands
    <3> QED
      BY <2>2, <2>4, <3>2 DEF target
  <2> QED
    BY <2>5, <2>6
<1>3. CASE able = {}
  <2>1. target = NoTarget
    BY <1>3 DEF PickBootModel
  <2>2. ASSUME NEW m \in list, ProviderOf[m] \in Usable(config) \ (skip \cup Aliased(list, index)),
               "deprecated" \notin Raw[m] \cup Dev[m]
        PROVE  FALSE
    <3> DEFINE p == ProviderOf[m]
               good == {o \in list : ProviderOf[o] = p /\ "deprecated" \notin Known(o, index)}
    <3>1. m \in good
      BY <2>2 DEF Known
    <3>2. First(ModelOrder, good) \in good
      <4>1. good \subseteq ToSet(ModelOrder) /\ ModelOrder \in Seq(Models) /\ good # {}
        BY <3>1, CatalogAssumption
      <4> HIDE DEF good
      <4> QED
        BY <4>1, FirstIsOne
    <3>3. Serves(p, list, index) # None
      BY <3>1, <3>2, CatalogAssumption DEF Serves
    <3>4. p \in Providers /\ p \in config.enabled
      BY <1>1, <2>2
    <3>5. ResolveModel(Serves(p, list, index), config) # NoTarget
      <4>1. Serves(p, list, index) \notin DOMAIN rules.alias \cup {None}
        BY <2>2, <3>3 DEF Aliased
      <4> QED
        BY <3>4, <4>1, ServedStands
    <3> QED
      BY <1>3, <2>2, <3>3, <3>5
  <2> QED
    BY <2>1, <2>2
<1> QED
  BY <1>2, <1>3

LEMMA BootPicks ==
    ASSUME CatalogTypes
    PROVE  BootServes
<1> DEFINE list == Load(config.enabled, Cache, disk.index, curated).list
           found == LookedUp(rules.default, config)
           target == BootModel(None, config, list, disk.index)
           aliased == Aliased(list, disk.index)
           Good(t) == IF t # NoTarget
                      THEN \/ t.provider \in Usable(config)
                           \/ \E p \in aliased : t = ResolveModel(Serves(p, list, disk.index), config)
                      ELSE \A m \in list :
                              ProviderOf[m] \in Usable(config) \ aliased => "deprecated" \in Raw[m] \cup Dev[m]
           Pick(skip) == PickBootModel(config, list, disk.index, skip)
<1>1. list \in SUBSET Models /\ disk.index \in BOOLEAN
  BY LoadTypes DEF CatalogTypes
<1> HIDE DEF list
<1>2. ASSUME NEW skip, Usable(config) \ skip = Usable(config) PROVE Good(Pick(skip))
  BY <1>1, <1>2, PickServes
<1>3. found = NoTarget => config.enabled = {}
  <2>1. config.enabled \subseteq Providers /\ None \notin Providers /\ NoTarget.provider = None
    BY CatalogAssumption DEF CatalogTypes, Configs, NoTarget
  <2>2. config.enabled # {} => First(ProviderOrder, config.enabled) \in config.enabled
    BY <2>1, CatalogAssumption, FirstIsOne
  <2> QED
    BY <2>1, <2>2, CatalogAssumption DEF LookedUp
<1>4. CASE rules.default = None
  <2>1. target = Pick({})
    BY <1>4 DEF BootModel
  <2> QED
    BY <1>2, <2>1 DEF BootServes, Aliased, list
<1>5. CASE rules.default # None /\ found = NoTarget
  <2>1. target = NoTarget /\ Usable(config) = {}
    BY <1>3, <1>5 DEF BootModel, Usable
  <2> QED
    BY <2>1 DEF BootServes, Aliased, list
<1>6. CASE rules.default # None /\ found # NoTarget /\ found.provider \in Usable(config)
  <2>1. target = found
    BY <1>6 DEF BootModel
  <2> QED
    BY <1>6, <2>1 DEF BootServes, Aliased, list
<1>7. CASE rules.default # None /\ found # NoTarget /\ found.provider \notin Usable(config)
  <2>1. target = Pick({found.provider})
    BY <1>7 DEF BootModel
  <2>2. Good(Pick({found.provider}))
    BY <1>2, <1>7
  <2> QED
    BY <2>1, <2>2 DEF BootServes, Aliased, list
<1> QED
  BY <1>4, <1>5, <1>6, <1>7

\* A session always starts on a provider that can be asked, or there is none that has
\* a model to offer, but for what an alias with the name of such a model makes of it.
THEOREM BootAlwaysServes == CatalogSpec => []BootServes
<1>1. CatalogTypes => BootServes
  BY BootPicks
<1> QED
  BY <1>1, TypesInit, TypesStep, PTL DEF CatalogSpec
-----------------------------------------------------------------------------
(* How a query matches: the dynamic program against all placements.         *)

\* A set of whole numbers that has a bound has a greatest one.
LEMMA GreatestIs ==
    ASSUME NEW S, S \subseteq Int, S # {}, NEW b \in Int, \A v \in S : v <= b
    PROVE  Max(S) \in S /\ \A v \in S : v <= Max(S)
<1> DEFINE T == {b - v : v \in S}
<1>1. T \subseteq Nat /\ T # {}
  <2>1. \A v \in S : b - v \in Nat
    OBVIOUS
  <2> QED
    BY <2>1
<1>2. PICK m \in T : \A k \in T : m <= k
  <2> HIDE DEF T
  <2> QED
    BY <1>1, LeastOne
<1>3. PICK v \in S : m = b - v
  BY <1>2
<1>4. \A w \in S : w <= v
  <2> TAKE w \in S
  <2>1. b - v <= b - w
    BY <1>2, <1>3
  <2>2. v \in Int /\ w \in Int /\ b \in Int
    OBVIOUS
  <2> QED
    BY ONLY <2>1, <2>2
<1>5. \A y \in S : v >= y
  BY <1>4
<1>6. PICK g : g = Max(S)
  OBVIOUS
<1>7. g \in S /\ \A y \in S : g >= y
  BY <1>5, <1>6 DEF Max
<1> QED
  BY <1>6, <1>7

\* The rows that the recursion of Score goes through.
RowsOf(query, target, starts, row, n) ==
    /\ DOMAIN row = 1 .. n
    /\ \A i \in 1 .. n : row[i] = IF i = 1 THEN FirstRow(query[i], target, starts)
                                  ELSE NextRow(row[i - 1], query[i], target, starts)

LEMMA RowsExist ==
    ASSUME NEW query, NEW target, NEW starts, NEW n \in Nat
    PROVE  \E row : RowsOf(query, target, starts, row, n)
<1> DEFINE Bad == {m \in Nat : ~\E row : RowsOf(query, target, starts, row, m)}
<1>1. SUFFICES ASSUME Bad # {} PROVE FALSE
  OBVIOUS
<1>2. PICK m \in Bad : \A k \in Bad : m <= k
  <2>1. Bad \subseteq Nat
    OBVIOUS
  <2> HIDE DEF Bad
  <2> QED
    BY <1>1, <2>1, LeastOne
<1>3. CASE m = 0
  <2>1. RowsOf(query, target, starts, [i \in 1 .. 0 |-> 0], 0)
    BY DEF RowsOf
  <2> QED
    BY <1>2, <1>3, <2>1
<1>4. CASE m # 0
  <2>1. m - 1 \in Nat /\ m \in Nat /\ ~(m <= m - 1)
    BY <1>2, <1>4
  <2>2. PICK f : RowsOf(query, target, starts, f, m - 1)
    BY <1>2, <2>1
  <2> DEFINE g == [i \in 1 .. m |-> IF i = m THEN IF m = 1 THEN FirstRow(query[m], target, starts)
                                                  ELSE NextRow(f[m - 1], query[m], target, starts)
                                    ELSE f[i]]
  <2>3. RowsOf(query, target, starts, g, m)
    <3>1. DOMAIN g = 1 .. m
      OBVIOUS
    <3>2. ASSUME NEW i \in 1 .. m
          PROVE  g[i] = IF i = 1 THEN FirstRow(query[i], target, starts) ELSE NextRow(g[i - 1], query[i], target, starts)
      <4>1. CASE i = m
        <5>1. m # 1 => m - 1 \in 1 .. m /\ m - 1 # m
          BY <2>1
        <5>2. m # 1 => g[m - 1] = f[m - 1]
          BY <5>1
        <5> QED
          BY <4>1, <5>2
      <4>2. CASE i # m
        <5>1. i \in 1 .. (m - 1) /\ (i # 1 => i - 1 \in 1 .. m /\ i - 1 # m)
          BY <2>1, <4>2
        <5>2. f[i] = IF i = 1 THEN FirstRow(query[i], target, starts) ELSE NextRow(f[i - 1], query[i], target, starts)
          BY <2>2, <5>1 DEF RowsOf
        <5>3. g[i] = f[i] /\ (i # 1 => g[i - 1] = f[i - 1])
          BY <4>2, <5>1
        <5> QED
          BY <5>2, <5>3
      <4> QED
        BY <4>1, <4>2
    <3> HIDE DEF g
    <3> QED
      BY <3>1, <3>2 DEF RowsOf
  <2> QED
    BY <1>2, <2>3
<1> QED
  BY <1>3, <1>4

LEMMA ScoreRows ==
    ASSUME NEW query, NEW target, NEW starts, Len(query) \in Nat
    PROVE  RowsOf(query, target, starts, Score(query, target, starts), Len(query))
<1> DEFINE n == Len(query)
           Rec(h) == h = [i \in 1 .. n |-> IF i = 1 THEN FirstRow(query[i], target, starts)
                                           ELSE NextRow(h[i - 1], query[i], target, starts)]
<1>1. PICK f : RowsOf(query, target, starts, f, n)
  BY RowsExist
<1>2. Rec([i \in 1 .. n |-> f[i]])
  <2> DEFINE g == [i \in 1 .. n |-> f[i]]
  <2>1. ASSUME NEW i \in 1 .. n
        PROVE  g[i] = IF i = 1 THEN FirstRow(query[i], target, starts) ELSE NextRow(g[i - 1], query[i], target, starts)
    <3>1. i # 1 => i - 1 \in 1 .. n
      OBVIOUS
    <3>2. g[i] = f[i] /\ (i # 1 => g[i - 1] = f[i - 1])
      BY <3>1
    <3> QED
      BY <1>1, <3>2 DEF RowsOf
  <2>2. g = [i \in 1 .. n |-> g[i]]
    OBVIOUS
  <2> HIDE DEF g
  <2>3. g = [i \in 1 .. n |-> IF i = 1 THEN FirstRow(query[i], target, starts) ELSE NextRow(g[i - 1], query[i], target, starts)]
    BY <2>1, <2>2
  <2> QED
    BY <2>3 DEF g
<1>3. Score(query, target, starts) = CHOOSE h : Rec(h)
  BY DEF Score
<1>4. Rec(Score(query, target, starts))
  <2> HIDE DEF Rec
  <2> QED
    BY <1>2, <1>3
<1> QED
  BY <1>4 DEF RowsOf

\* The sums that the recursion of Worth goes through.
Sums(at, starts, s, n) ==
    DOMAIN s = 0 .. n /\ \A i \in 0 .. n : s[i] = IF i = 0 THEN 0 ELSE s[i - 1] + Gain(at, starts, i)

LEMMA SumsExist == ASSUME NEW at, NEW starts, NEW n \in Nat PROVE \E s : Sums(at, starts, s, n)
<1> DEFINE Bad == {m \in Nat : ~\E s : Sums(at, starts, s, m)}
<1>1. SUFFICES ASSUME Bad # {} PROVE FALSE
  OBVIOUS
<1>2. PICK m \in Bad : \A k \in Bad : m <= k
  <2>1. Bad \subseteq Nat
    OBVIOUS
  <2> HIDE DEF Bad
  <2> QED
    BY <1>1, <2>1, LeastOne
<1>3. CASE m = 0
  <2>1. Sums(at, starts, [i \in 0 .. 0 |-> 0], 0)
    BY DEF Sums
  <2> QED
    BY <1>2, <1>3, <2>1
<1>4. CASE m # 0
  <2>1. m - 1 \in Nat /\ m \in Nat /\ ~(m <= m - 1)
    BY <1>2, <1>4
  <2>2. PICK f : Sums(at, starts, f, m - 1)
    BY <1>2, <2>1
  <2> DEFINE g == [i \in 0 .. m |-> IF i = m THEN f[m - 1] + Gain(at, starts, m) ELSE f[i]]
  <2>3. Sums(at, starts, g, m)
    <3>1. DOMAIN g = 0 .. m
      OBVIOUS
    <3>2. ASSUME NEW i \in 0 .. m PROVE g[i] = IF i = 0 THEN 0 ELSE g[i - 1] + Gain(at, starts, i)
      <4>1. CASE i = m
        <5>1. m - 1 \in 0 .. m /\ m - 1 # m
          BY <2>1
        <5>2. g[m - 1] = f[m - 1]
          BY <5>1
        <5> QED
          BY <1>4, <4>1, <5>2
      <4>2. CASE i # m
        <5>1. i \in 0 .. (m - 1) /\ (i # 0 => i - 1 \in 0 .. m /\ i - 1 # m)
          BY <2>1, <4>2
        <5>2. f[i] = IF i = 0 THEN 0 ELSE f[i - 1] + Gain(at, starts, i)
          BY <2>2, <5>1 DEF Sums
        <5>3. g[i] = f[i] /\ (i # 0 => g[i - 1] = f[i - 1])
          BY <4>2, <5>1
        <5> QED
          BY <5>2, <5>3
      <4> QED
        BY <4>1, <4>2
    <3> HIDE DEF g
    <3> QED
      BY <3>1, <3>2 DEF Sums
  <2> QED
    BY <1>2, <2>3
<1> QED
  BY <1>3, <1>4

LEMMA WorthSums ==
    ASSUME NEW at, NEW starts, Len(at) \in Nat
    PROVE  \E s : Sums(at, starts, s, Len(at)) /\ Worth(at, starts) = s[Len(at)]
<1> DEFINE n == Len(at)
           Rec(h) == h = [i \in 0 .. n |-> IF i = 0 THEN 0 ELSE h[i - 1] + Gain(at, starts, i)]
           sum == CHOOSE h : Rec(h)
<1>1. PICK f : Sums(at, starts, f, n)
  BY SumsExist
<1>2. Rec([i \in 0 .. n |-> f[i]])
  <2> DEFINE g == [i \in 0 .. n |-> f[i]]
  <2>1. ASSUME NEW i \in 0 .. n PROVE g[i] = IF i = 0 THEN 0 ELSE g[i - 1] + Gain(at, starts, i)
    <3>1. i # 0 => i - 1 \in 0 .. n
      OBVIOUS
    <3>2. g[i] = f[i] /\ (i # 0 => g[i - 1] = f[i - 1])
      BY <3>1
    <3> QED
      BY <1>1, <3>2 DEF Sums
  <2>2. g = [i \in 0 .. n |-> g[i]]
    OBVIOUS
  <2> HIDE DEF g
  <2>3. g = [i \in 0 .. n |-> IF i = 0 THEN 0 ELSE g[i - 1] + Gain(at, starts, i)]
    BY <2>1, <2>2
  <2> QED
    BY <2>3 DEF g
<1>3. Worth(at, starts) = sum[n]
  BY DEF Worth
<1>4. Rec(sum)
  <2> HIDE DEF Rec
  <2> QED
    BY <1>2
<1> HIDE DEF sum
<1>5. Sums(at, starts, sum, n)
  BY <1>4 DEF Sums
<1> QED
  BY <1>3, <1>5

\* What holds of the first and of the one after each holds of all.
LEMMA Upward ==
    ASSUME NEW S, NEW n \in Nat, 1 \in S, \A i \in 1 .. n - 1 : i \in S => i + 1 \in S
    PROVE  \A i \in 1 .. n : i \in S
<1> DEFINE Bad == {i \in 1 .. n : i \notin S}
<1>1. SUFFICES ASSUME Bad # {} PROVE FALSE
  OBVIOUS
<1>2. PICK i \in Bad : \A k \in Bad : i <= k
  <2>1. Bad \subseteq Nat
    OBVIOUS
  <2> HIDE DEF Bad
  <2> QED
    BY <1>1, <2>1, LeastOne
<1>3. i \in 1 .. n /\ i # 1 /\ i \notin S
  BY <1>2
<1>4. i - 1 \in 1 .. n - 1 /\ i - 1 \in 1 .. n /\ ~(i <= i - 1) /\ (i - 1) + 1 = i
  BY <1>3
<1>5. i - 1 \in S
  BY <1>2, <1>4
<1> QED
  BY <1>3, <1>4, <1>5

LEMMA Bonus == ASSUME NEW starts, NEW j PROVE StartBonus(starts, j) \in {0, 60}
  BY DEF StartBonus, WordStart

\* A row holds whole numbers that have a bound, at positions of the target.
Grounded(row, target, b) ==
    /\ DOMAIN row \subseteq 1 .. Len(target)
    /\ \A j \in DOMAIN row : row[j] \in Int /\ row[j] <= b

LEMMA FirstGrounded ==
    ASSUME NEW rune, NEW target, NEW starts
    PROVE  Grounded(FirstRow(rune, target, starts), target, 200)
<1> SUFFICES ASSUME NEW j \in DOMAIN FirstRow(rune, target, starts)
             PROVE  FirstRow(rune, target, starts)[j] \in Int /\ FirstRow(rune, target, starts)[j] <= 200
  BY DEF Grounded, FirstRow
<1>1. FirstRow(rune, target, starts)[j] = 100 + StartBonus(starts, j)
  BY DEF FirstRow, Match
<1> QED
  BY <1>1, Bonus

\* What is best before a position, and that a row's value comes from it.
LEMMA BestBefore ==
    ASSUME NEW row, NEW target, Len(target) \in Nat, NEW b \in Int, Grounded(row, target, b),
           NEW j \in 1 .. Len(target), Earlier(row, j) # {}
    PROVE  LET best == Max({Charged(row, k, j) : k \in Earlier(row, j)})
           IN  /\ best \in Int /\ best <= b
               /\ \E k \in Earlier(row, j) : best = Charged(row, k, j)
               /\ \A k \in Earlier(row, j) : Charged(row, k, j) <= best
<1> DEFINE S == {Charged(row, k, j) : k \in Earlier(row, j)}
<1>1. ASSUME NEW k \in Earlier(row, j)
      PROVE  Charged(row, k, j) \in Int /\ Charged(row, k, j) <= b
  <2>1. k \in DOMAIN row /\ k < j /\ k \in 1 .. Len(target) /\ row[k] \in Int /\ row[k] <= b
    BY <1>1 DEF Earlier, Grounded
  <2>2. Charged(row, k, j) = row[k] - 4 * (j - 1 - k)
    BY DEF Charged, Gap
  <2>3. j \in Int /\ k \in Int
    BY <2>1
  <2> QED
    BY <2>1, <2>2, <2>3
<1>2. S \subseteq Int /\ S # {} /\ \A v \in S : v <= b
  BY <1>1
<1>3. Max(S) \in S /\ \A v \in S : v <= Max(S)
  <2> HIDE DEF S
  <2> QED
    BY <1>2, GreatestIs
<1> QED
  BY <1>2, <1>3

LEMMA NextFacts ==
    ASSUME NEW row, NEW rune, NEW target, NEW starts, Len(target) \in Nat, NEW b \in Int, Grounded(row, target, b),
           NEW j \in DOMAIN NextRow(row, rune, target, starts)
    PROVE  LET v == NextRow(row, rune, target, starts)[j]
           IN  /\ j \in 1 .. Len(target) /\ target[j] = rune
               /\ v \in Int /\ v <= b + 200
               /\ \E k \in Earlier(row, j) :
                     v = Charged(row, k, j) + 100 + StartBonus(starts, j) + (IF j = k + 1 /\ FromNeighbour(row, j) THEN 40 ELSE 0)
               /\ \A k \in Earlier(row, j) : Charged(row, k, j) + 100 + StartBonus(starts, j) <= v
<1> DEFINE best == Max({Charged(row, k, j) : k \in Earlier(row, j)})
           v == NextRow(row, rune, target, starts)[j]
<1>1. j \in 1 .. Len(target) /\ target[j] = rune /\ Earlier(row, j) # {}
  BY DEF NextRow
<1>2. v = best + 100 + StartBonus(starts, j) + (IF FromNeighbour(row, j) THEN 40 ELSE 0)
  BY DEF NextRow, Match, Contiguous
<1>3. /\ best \in Int /\ best <= b
      /\ \E k \in Earlier(row, j) : best = Charged(row, k, j)
      /\ \A k \in Earlier(row, j) : Charged(row, k, j) <= best
  <2> HIDE DEF best
  <2> QED
    BY <1>1, BestBefore DEF best
<1> HIDE DEF best
<1>4. StartBonus(starts, j) \in {0, 60}
  BY Bonus
<1>5. v \in Int /\ v <= b + 200
  BY <1>2, <1>3, <1>4
<1>6. ASSUME NEW k \in Earlier(row, j)
      PROVE  Charged(row, k, j) \in Int
  <2>1. k \in DOMAIN row /\ k \in 1 .. Len(target) /\ row[k] \in Int
    BY <1>6 DEF Earlier, Grounded
  <2>2. k \in Int /\ j \in Int
    BY <1>1, <2>1
  <2>3. row[k] - 4 * (j - 1 - k) \in Int
    BY ONLY <2>1, <2>2
  <2> QED
    BY <2>3 DEF Charged, Gap
<1>7. \A k \in Earlier(row, j) : Charged(row, k, j) + 100 + StartBonus(starts, j) <= v
  BY <1>2, <1>3, <1>4, <1>6
<1>8. PICK k \in Earlier(row, j) : best = Charged(row, k, j)
  BY <1>3
<1>9. FromNeighbour(row, j) => j = k + 1
  <2> SUFFICES ASSUME FromNeighbour(row, j), j # k + 1 PROVE FALSE
    OBVIOUS
  <2>1. k \in DOMAIN row /\ k < j /\ k \in 1 .. Len(target) /\ j \in Int
    BY <1>1 DEF Earlier, Grounded
  <2>2. k < j - 1 /\ j - 1 < j
    BY <2>1
  <2>3. j - 1 \in Earlier(row, j) /\ k \in Earlier(row, j - 1)
    BY <2>1, <2>2 DEF FromNeighbour, Earlier
  <2>4. Charged(row, k, j) < Charged(row, j - 1, j)
    BY <2>3 DEF FromNeighbour
  <2>5. Charged(row, j - 1, j) <= Charged(row, k, j)
    BY <1>3, <1>8, <2>3
  <2> QED
    BY <1>6, <2>3, <2>4, <2>5
<1>10. v = Charged(row, k, j) + 100 + StartBonus(starts, j) + (IF j = k + 1 /\ FromNeighbour(row, j) THEN 40 ELSE 0)
  BY <1>2, <1>8, <1>9
<1> QED
  BY <1>1, <1>5, <1>7, <1>10

(* What the rows say of the placements, and the placements of the rows.     *)

Placed(query, target, at, n) ==
    /\ at \in [1 .. n -> 1 .. Len(target)]
    /\ \A i \in 1 .. n : query[i] = target[at[i]]
    /\ \A i \in 1 .. n - 1 : at[i] < at[i + 1]

\* A value of a row is that of some placement of the runes so far, or less.
Backs(query, target, starts, i, j, v) ==
    \E at, s : /\ Placed(query, target, at, i) /\ at[i] = j
               /\ Sums(at, starts, s, i) /\ s[i] \in Int /\ v <= s[i]
Backed(query, target, starts, row, i) ==
    \A j \in DOMAIN row : Backs(query, target, starts, i, j, row[j])

LEMMA FirstBacked ==
    ASSUME NEW query, NEW target, NEW starts, Len(target) \in Nat
    PROVE  Backed(query, target, starts, FirstRow(query[1], target, starts), 1)
<1> DEFINE row == FirstRow(query[1], target, starts)
<1> SUFFICES ASSUME NEW j \in DOMAIN row PROVE Backs(query, target, starts, 1, j, row[j])
  BY DEF Backed
<1>1. j \in 1 .. Len(target) /\ target[j] = query[1] /\ row[j] = 100 + StartBonus(starts, j)
  BY DEF FirstRow, Match
<1> DEFINE at == [l \in 1 .. 1 |-> j]
           s == [l \in 0 .. 1 |-> IF l = 0 THEN 0 ELSE 100 + StartBonus(starts, j)]
<1>2. Placed(query, target, at, 1) /\ at[1] = j
  <2>1. at[1] = j /\ at \in [1 .. 1 -> 1 .. Len(target)]
    BY <1>1
  <2>2. query[1] = target[at[1]]
    BY <1>1, <2>1
  <2> HIDE DEF at
  <2> QED
    BY <2>1, <2>2 DEF Placed
<1>3. Gain(at, starts, 1) = 100 + StartBonus(starts, j)
  <2>1. at[1] = j
    OBVIOUS
  <2> HIDE DEF at
  <2>2. StartBonus(starts, j) \in {0, 60}
    BY Bonus
  <2> QED
    BY <2>1, <2>2 DEF Gain, Match
<1>4. StartBonus(starts, j) \in {0, 60}
  BY Bonus
<1>5. Sums(at, starts, s, 1)
  <2>1. DOMAIN s = 0 .. 1 /\ s[0] = 0 /\ s[1] = 100 + StartBonus(starts, j)
    OBVIOUS
  <2>2. s[1] = s[0] + Gain(at, starts, 1)
    BY <1>3, <1>4, <2>1
  <2>3. \A i \in 0 .. 1 : i = 0 \/ (i = 1 /\ i - 1 = 0)
    OBVIOUS
  <2> HIDE DEF s, at
  <2> QED
    BY <2>1, <2>2, <2>3 DEF Sums
<1>6. s[1] = row[j] /\ s[1] \in Int /\ row[j] <= s[1]
  BY <1>1, <1>4
<1> HIDE DEF at, s
<1> QED
  BY <1>2, <1>5, <1>6 DEF Backs

\* One rune more.
LEMMA Extends ==
    ASSUME NEW query, NEW target, NEW starts, Len(target) \in Nat, NEW i \in Nat, i > 1,
           NEW at, NEW s, Placed(query, target, at, i - 1), Sums(at, starts, s, i - 1), s[i - 1] \in Int,
           NEW j \in 1 .. Len(target), target[j] = query[i], at[i - 1] < j
    PROVE  Backs(query, target, starts, i, j,
                 s[i - 1] + 100 + StartBonus(starts, j)
                 + IF j = at[i - 1] + 1 THEN 40 ELSE -4 * (j - at[i - 1] - 1))
<1> DEFINE at2 == [l \in 1 .. i |-> IF l = i THEN j ELSE at[l]]
           s2 == [l \in 0 .. i |-> IF l = i THEN s[i - 1] + Gain(at2, starts, i) ELSE s[l]]
           k == at[i - 1]
           v == s[i - 1] + 100 + StartBonus(starts, j) + IF j = k + 1 THEN 40 ELSE -4 * (j - k - 1)
<1>1. i - 1 \in 1 .. (i - 1) /\ i - 1 \in 1 .. i /\ i - 1 # i /\ i - 1 \in 0 .. i /\ i \in 1 .. i
  OBVIOUS
<1>2. at2[i] = j /\ \A l \in 1 .. (i - 1) : l \in 1 .. i /\ l # i /\ at2[l] = at[l]
  OBVIOUS
<1>3. DOMAIN at2 = 1 .. i
  OBVIOUS
<1>4. at2 \in [1 .. i -> 1 .. Len(target)]
  <2>1. \A l \in 1 .. i : l = i \/ l \in 1 .. (i - 1)
    OBVIOUS
  <2>2. at2 = [l \in 1 .. i |-> at2[l]]
    OBVIOUS
  <2> HIDE DEF at2
  <2>3. \A l \in 1 .. i : at2[l] \in 1 .. Len(target)
    BY <1>2, <2>1 DEF Placed
  <2> QED
    BY <2>2, <2>3
<1> HIDE DEF at2
<1>5. Placed(query, target, at2, i)
  <2>1. ASSUME NEW l \in 1 .. i PROVE query[l] = target[at2[l]]
    <3>1. CASE l = i
      BY <1>2, <3>1
    <3>2. CASE l # i
      <4>1. l \in 1 .. (i - 1)
        BY <3>2
      <4> QED
        BY <1>2, <4>1 DEF Placed
    <3> QED
      BY <3>1, <3>2
  <2>2. ASSUME NEW l \in 1 .. i - 1 PROVE at2[l] < at2[l + 1]
    <3>1. CASE l = i - 1
      <4>1. l + 1 = i
        BY <3>1
      <4> QED
        BY <1>2, <3>1, <4>1
    <3>2. CASE l # i - 1
      <4>1. l \in 1 .. (i - 1) - 1 /\ l + 1 \in 1 .. (i - 1)
        BY <3>2
      <4>2. at[l] < at[l + 1]
        BY <4>1 DEF Placed
      <4> QED
        BY <1>2, <4>1, <4>2
    <3> QED
      BY <3>1, <3>2
  <2> QED
    BY <1>4, <2>1, <2>2 DEF Placed
<1>6. k \in 1 .. Len(target) /\ k \in Int /\ j \in Int
  BY <1>1 DEF Placed
<1>7. StartBonus(starts, j) \in {0, 60}
  BY Bonus
<1>8. Gain(at2, starts, i) = 100 + StartBonus(starts, j) + IF j = k + 1 THEN 40 ELSE -4 * (j - k - 1)
  <2>1. at2[i - 1] = k
    BY <1>1, <1>2
  <2> HIDE DEF k
  <2> QED
    BY <1>2, <1>6, <1>7, <2>1 DEF Gain, Match, Contiguous, Gap
<1>9. \A l \in 1 .. (i - 1) : Gain(at2, starts, l) = Gain(at, starts, l)
  <2> TAKE l \in 1 .. (i - 1)
  <2>1. at2[l] = at[l]
    BY <1>2
  <2>2. l # 1 => at2[l - 1] = at[l - 1]
    <3>1. l # 1 => l - 1 \in 1 .. (i - 1)
      OBVIOUS
    <3> QED
      BY <1>2, <3>1
  <2> QED
    BY <2>1, <2>2 DEF Gain
<1>10. s2[i] = s[i - 1] + Gain(at2, starts, i) /\ \A l \in 0 .. (i - 1) : s2[l] = s[l]
  OBVIOUS
<1>11. DOMAIN s2 = 0 .. i
  OBVIOUS
<1> HIDE DEF s2
<1>12. Sums(at2, starts, s2, i)
  <2> SUFFICES ASSUME NEW l \in 0 .. i PROVE s2[l] = IF l = 0 THEN 0 ELSE s2[l - 1] + Gain(at2, starts, l)
    BY <1>11 DEF Sums
  <2>1. CASE l = i
    <3>1. l # 0 /\ s2[l - 1] = s[i - 1]
      BY <1>10, <2>1
    <3> QED
      BY <1>10, <2>1, <3>1
  <2>2. CASE l = 0
    <3>1. l \in 0 .. (i - 1)
      BY <2>2
    <3>2. s[l] = 0
      BY <2>2, <3>1 DEF Sums
    <3> QED
      BY <1>10, <2>2, <3>1, <3>2
  <2>3. CASE l # i /\ l # 0
    <3>1. l \in 1 .. (i - 1) /\ l \in 0 .. (i - 1) /\ l - 1 \in 0 .. (i - 1)
      BY <2>3
    <3>2. s[l] = s[l - 1] + Gain(at, starts, l)
      BY <2>3, <3>1 DEF Sums
    <3>3. s2[l] = s[l] /\ s2[l - 1] = s[l - 1] /\ Gain(at2, starts, l) = Gain(at, starts, l)
      BY <1>9, <1>10, <3>1
    <3> QED
      BY <2>3, <3>2, <3>3
  <2> QED
    BY <2>1, <2>2, <2>3
<1>13. s2[i] = v /\ v \in Int
  <2>1. s[i - 1] \in Int /\ k \in Int
    BY <1>6
  <2> HIDE DEF k
  <2>2. CASE j = k + 1
    BY <2>1, <2>2, <1>6, <1>7, <1>8, <1>10
  <2>3. CASE j # k + 1
    <3>1. Gain(at2, starts, i) = 100 + StartBonus(starts, j) + -4 * (j - k - 1)
      BY <1>8, <2>3
    <3>2. s2[i] = s[i - 1] + Gain(at2, starts, i)
      BY <1>10
    <3>3. v = s[i - 1] + 100 + StartBonus(starts, j) + -4 * (j - k - 1)
      BY <2>3
    <3> HIDE DEF v
    <3> QED
      BY ONLY <2>1, <3>1, <3>2, <3>3, <1>6, <1>7
  <2> QED
    BY <2>2, <2>3
<1>14. v <= s2[i]
  BY <1>13
<1>15. s2[i] \in Int /\ at2[i] = j
  BY <1>2, <1>13
<1> HIDE DEF v
<1>16. Backs(query, target, starts, i, j, v)
  BY <1>5, <1>12, <1>14, <1>15 DEF Backs
<1> QED
  BY <1>16 DEF v

\* What backs a value backs any smaller one.
LEMMA BacksLess ==
    ASSUME NEW query, NEW target, NEW starts, NEW i, NEW j, NEW v \in Int, NEW w \in Int, w <= v,
           Backs(query, target, starts, i, j, v)
    PROVE  Backs(query, target, starts, i, j, w)
<1>1. PICK at, s : /\ Placed(query, target, at, i) /\ at[i] = j
                   /\ Sums(at, starts, s, i) /\ s[i] \in Int /\ v <= s[i]
  BY DEF Backs
<1>2. w <= s[i]
  BY <1>1
<1> QED
  BY <1>1, <1>2 DEF Backs

LEMMA NextBacked ==
    ASSUME NEW query, NEW target, NEW starts, Len(target) \in Nat, NEW i \in Nat, i > 1, NEW row, NEW b \in Int,
           Grounded(row, target, b), Backed(query, target, starts, row, i - 1)
    PROVE  Backed(query, target, starts, NextRow(row, query[i], target, starts), i)
<1> DEFINE next == NextRow(row, query[i], target, starts)
<1> SUFFICES ASSUME NEW j \in DOMAIN next PROVE Backs(query, target, starts, i, j, next[j])
  BY DEF Backed
<1>1. /\ j \in 1 .. Len(target) /\ target[j] = query[i] /\ next[j] \in Int
      /\ \E k \in Earlier(row, j) :
            next[j] = Charged(row, k, j) + 100 + StartBonus(starts, j) + (IF j = k + 1 /\ FromNeighbour(row, j) THEN 40 ELSE 0)
  BY NextFacts
<1> HIDE DEF next
<1>2. PICK k \in Earlier(row, j) :
         next[j] = Charged(row, k, j) + 100 + StartBonus(starts, j) + (IF j = k + 1 /\ FromNeighbour(row, j) THEN 40 ELSE 0)
  BY <1>1
<1>3. k \in DOMAIN row /\ k < j /\ k \in 1 .. Len(target) /\ row[k] \in Int
  BY <1>2 DEF Earlier, Grounded
<1>4. PICK at, s : /\ Placed(query, target, at, i - 1) /\ at[i - 1] = k
                   /\ Sums(at, starts, s, i - 1) /\ s[i - 1] \in Int /\ row[k] <= s[i - 1]
  BY <1>3 DEF Backed, Backs
<1> DEFINE v == s[i - 1] + 100 + StartBonus(starts, j) + IF j = at[i - 1] + 1 THEN 40 ELSE -4 * (j - at[i - 1] - 1)
<1>5. Backs(query, target, starts, i, j, v)
  BY <1>1, <1>3, <1>4, Extends
<1>6. StartBonus(starts, j) \in {0, 60} /\ j \in Int /\ k \in Int
  BY <1>1, <1>3, Bonus
<1>7. Charged(row, k, j) = row[k] - 4 * (j - 1 - k)
  BY DEF Charged, Gap
<1>8. v \in Int /\ next[j] <= v
  <2>1. v = s[i - 1] + 100 + StartBonus(starts, j) + IF j = k + 1 THEN 40 ELSE -4 * (j - k - 1)
    BY <1>4
  <2> HIDE DEF v
  <2>2. s[i - 1] \in Int /\ row[k] <= s[i - 1] /\ row[k] \in Int
    BY <1>3, <1>4
  <2>3. v \in Int
    BY ONLY <2>1, <2>2, <1>6
  <2>4. CASE j = k + 1
    <3>1. v = s[i - 1] + 100 + StartBonus(starts, j) + 40
      BY <2>1, <2>4
    <3>2. Charged(row, k, j) = row[k]
      BY <1>3, <1>6, <1>7, <2>4
    <3>3. next[j] = row[k] + 100 + StartBonus(starts, j) + 40 \/ next[j] = row[k] + 100 + StartBonus(starts, j) + 0
      BY <1>2, <3>2
    <3> QED
      BY ONLY <2>2, <2>3, <3>1, <3>3, <1>6
  <2>5. CASE j # k + 1
    <3>1. v = s[i - 1] + 100 + StartBonus(starts, j) + -4 * (j - k - 1)
      BY <2>1, <2>5
    <3>2. next[j] = (row[k] - 4 * (j - 1 - k)) + 100 + StartBonus(starts, j) + 0
      BY <1>2, <1>7, <2>5
    <3> QED
      BY ONLY <2>2, <2>3, <3>1, <3>2, <1>6
  <2> QED
    BY <2>4, <2>5
<1> HIDE DEF v
<1> QED
  BY <1>1, <1>5, <1>8, BacksLess

\* Every placement is reached: no rune of it is missing from its row, and the
\* row's value falls behind by a contiguity bonus a rune at most.
Reaches(row, at, s, i) ==
    at[i] \in DOMAIN row /\ s[i] \in Int /\ s[i] - 40 * (i - 1) <= row[at[i]]

LEMMA FirstReached ==
    ASSUME NEW query, NEW target, NEW starts, Len(target) \in Nat, NEW n \in Nat, n > 0, NEW at, NEW s,
           Placed(query, target, at, n), Sums(at, starts, s, n)
    PROVE  Reaches(FirstRow(query[1], target, starts), at, s, 1)
<1>1. 1 \in 1 .. n /\ 1 \in 0 .. n /\ 0 \in 0 .. n
  OBVIOUS
<1>2. at[1] \in 1 .. Len(target) /\ query[1] = target[at[1]]
  BY <1>1 DEF Placed
<1>3. s[0] = 0 /\ s[1] = s[0] + Gain(at, starts, 1)
  BY <1>1 DEF Sums
<1>4. StartBonus(starts, at[1]) \in {0, 60}
  BY Bonus
<1>5. Gain(at, starts, 1) = 100 + StartBonus(starts, at[1])
  BY <1>4 DEF Gain, Match
<1>6. at[1] \in DOMAIN FirstRow(query[1], target, starts)
  BY <1>2 DEF FirstRow
<1>7. FirstRow(query[1], target, starts)[at[1]] = 100 + StartBonus(starts, at[1])
  BY <1>2 DEF FirstRow, Match
<1>8. s[1] = 100 + StartBonus(starts, at[1]) /\ s[1] \in Int
  BY <1>3, <1>4, <1>5
<1> QED
  BY <1>6, <1>7, <1>8 DEF Reaches

LEMMA NextReached ==
    ASSUME NEW query, NEW target, NEW starts, Len(target) \in Nat, NEW n \in Nat, NEW at, NEW s,
           Placed(query, target, at, n), Sums(at, starts, s, n),
           NEW i \in 2 .. n, NEW row, NEW b \in Int, Grounded(row, target, b), Reaches(row, at, s, i - 1)
    PROVE  Reaches(NextRow(row, query[i], target, starts), at, s, i)
<1> DEFINE next == NextRow(row, query[i], target, starts)
           k == at[i - 1]
           j == at[i]
<1>1. i \in 1 .. n /\ i - 1 \in 1 .. n - 1 /\ i - 1 \in 1 .. n /\ i \in 0 .. n /\ (i - 1) + 1 = i /\ i # 0 /\ i # 1 /\ i \in Int
  OBVIOUS
<1>2. j \in 1 .. Len(target) /\ k \in 1 .. Len(target) /\ query[i] = target[j]
  BY <1>1 DEF Placed
<1>3. k < j
  BY <1>1 DEF Placed
<1>4. s[i] = s[i - 1] + Gain(at, starts, i)
  BY <1>1 DEF Sums
<1>5. StartBonus(starts, j) \in {0, 60} /\ j \in Int /\ k \in Int
  BY <1>2, Bonus
<1>6. Gain(at, starts, i) = 100 + StartBonus(starts, j) + IF j = k + 1 THEN 40 ELSE -4 * (j - k - 1)
  BY <1>1, <1>5 DEF Gain, Match, Contiguous, Gap
<1> HIDE DEF k, j
<1>7. k \in DOMAIN row /\ s[i - 1] \in Int /\ s[i - 1] - 40 * ((i - 1) - 1) <= row[k]
  BY DEF Reaches, k
<1>8. k \in Earlier(row, j)
  BY <1>3, <1>7 DEF Earlier
<1>9. j \in DOMAIN next
  BY <1>2, <1>8 DEF NextRow
<1>10. next[j] \in Int /\ Charged(row, k, j) + 100 + StartBonus(starts, j) <= next[j]
  <2>1. j \in DOMAIN NextRow(row, query[i], target, starts)
    BY <1>9
  <2> QED
    BY <1>8, <2>1, NextFacts
<1> HIDE DEF next
<1>11. row[k] \in Int /\ Charged(row, k, j) = row[k] - 4 * (j - 1 - k)
  BY <1>7 DEF Charged, Gap, Grounded
<1>12. s[i] \in Int /\ s[i] - 40 * (i - 1) <= next[j]
  <2>1. CASE j = k + 1
    <3>1. s[i] = s[i - 1] + (100 + StartBonus(starts, j) + 40)
      BY <1>4, <1>6, <2>1
    <3>2. row[k] + 100 + StartBonus(starts, j) <= next[j]
      BY <1>5, <1>10, <1>11, <2>1
    <3> QED
      BY ONLY <1>1, <1>5, <1>7, <1>10, <1>11, <3>1, <3>2
  <2>2. CASE j # k + 1
    <3>1. s[i] = s[i - 1] + (100 + StartBonus(starts, j) + -4 * (j - k - 1))
      BY <1>4, <1>6, <2>2
    <3>2. (row[k] - 4 * (j - 1 - k)) + 100 + StartBonus(starts, j) <= next[j]
      BY <1>10, <1>11
    <3> QED
      BY ONLY <1>1, <1>5, <1>7, <1>10, <1>11, <3>1, <3>2
  <2> QED
    BY <2>1, <2>2
<1> QED
  BY <1>9, <1>12 DEF Reaches, j, next

\* A placement's i-th rune lies no earlier than position i.
LEMMA NoEarlier ==
    ASSUME NEW query, NEW target, Len(target) \in Nat, NEW n \in Nat, n > 0, NEW at, Placed(query, target, at, n)
    PROVE  n <= Len(target)
<1> DEFINE S == {i \in 1 .. n : i <= at[i]}
<1>1. ASSUME NEW i \in 1 .. n PROVE at[i] \in 1 .. Len(target)
  BY DEF Placed
<1>2. 1 \in S
  BY <1>1
<1>3. ASSUME NEW i \in 1 .. n - 1, i \in S PROVE i + 1 \in S
  <2>1. i + 1 \in 1 .. n /\ i \in 1 .. n /\ i <= at[i]
    BY <1>3
  <2>2. at[i] < at[i + 1]
    BY DEF Placed
  <2>3. at[i] \in Int /\ at[i + 1] \in Int
    BY <1>1, <2>1
  <2>4. i + 1 <= at[i + 1]
    BY <2>1, <2>2, <2>3
  <2> QED
    BY <2>1, <2>4
<1>4. \A i \in 1 .. n : i \in S
  <2> HIDE DEF S
  <2> QED
    BY <1>2, <1>3, Upward
<1>5. n \in 1 .. n
  OBVIOUS
<1>6. n <= at[n] /\ at[n] \in 1 .. Len(target)
  BY <1>1, <1>4, <1>5
<1> QED
  BY <1>6

\* The sums of a placement are one function.
LEMMA SumsAgree ==
    ASSUME NEW at, NEW starts, NEW n \in Nat, NEW s, NEW t, Sums(at, starts, s, n), Sums(at, starts, t, n)
    PROVE  s[n] = t[n]
<1> DEFINE S == {i \in 0 .. n : s[i] = t[i]}
<1>1. s[0] = t[0]
  <2>1. 0 \in 0 .. n
    OBVIOUS
  <2> QED
    BY <2>1 DEF Sums
<1>2. ASSUME NEW i \in 1 .. n, s[i - 1] = t[i - 1] PROVE s[i] = t[i]
  <2>1. i \in 0 .. n /\ i # 0
    OBVIOUS
  <2> QED
    BY <1>2, <2>1 DEF Sums
<1>3. CASE n = 0
  BY <1>1, <1>3
<1>4. CASE n # 0
  <2>1. 1 \in S
    <3>1. 1 \in 1 .. n /\ 1 \in 0 .. n /\ 1 - 1 = 0
      BY <1>4
    <3> QED
      BY <1>1, <1>2, <3>1
  <2>2. ASSUME NEW i \in 1 .. n - 1, i \in S PROVE i + 1 \in S
    <3>1. i + 1 \in 1 .. n /\ i + 1 \in 0 .. n /\ (i + 1) - 1 = i /\ s[i] = t[i]
      BY <2>2
    <3>2. s[i + 1] = t[i + 1]
      BY <1>2, <3>1
    <3> QED
      BY <3>1, <3>2
  <2>3. \A i \in 1 .. n : i \in S
    <3> HIDE DEF S
    <3> QED
      BY <2>1, <2>2, Upward
  <2>4. n \in 1 .. n
    BY <1>4
  <2> QED
    BY <2>3, <2>4
<1> QED
  BY <1>3, <1>4

\* All rows of the program.
LEMMA RowsGrounded ==
    ASSUME NEW query, NEW target, NEW starts, Len(target) \in Nat, NEW n \in Nat, n > 0, NEW rows,
           RowsOf(query, target, starts, rows, n)
    PROVE  \A i \in 1 .. n : Grounded(rows[i], target, 200 * i) /\ Backed(query, target, starts, rows[i], i)
<1> DEFINE S == {i \in 1 .. n : Grounded(rows[i], target, 200 * i) /\ Backed(query, target, starts, rows[i], i)}
<1>1. 1 \in S
  <2>1. 1 \in 1 .. n /\ 200 * 1 = 200
    OBVIOUS
  <2>2. rows[1] = FirstRow(query[1], target, starts)
    BY <2>1 DEF RowsOf
  <2>3. Grounded(rows[1], target, 200)
    BY <2>2, FirstGrounded
  <2>4. Backed(query, target, starts, rows[1], 1)
    BY <2>2, FirstBacked
  <2>5. Grounded(rows[1], target, 200 * 1)
    BY <2>1, <2>3
  <2> QED
    BY <2>1, <2>4, <2>5
<1>2. ASSUME NEW i \in 1 .. n - 1, i \in S PROVE i + 1 \in S
  <2> DEFINE l == i + 1
  <2>1. l \in 1 .. n /\ l \in Nat /\ l > 1 /\ l - 1 = i /\ l # 1 /\ 200 * i \in Int /\ 200 * l = 200 * i + 200
    OBVIOUS
  <2>2. rows[l] = NextRow(rows[i], query[l], target, starts)
    BY <2>1 DEF RowsOf
  <2>3. Grounded(rows[i], target, 200 * i) /\ Backed(query, target, starts, rows[i], i)
    BY <1>2
  <2> HIDE DEF l
  <2>4. Backed(query, target, starts, rows[l], l)
    <3>1. Backed(query, target, starts, rows[i], l - 1)
      BY <2>1, <2>3
    <3>2. Backed(query, target, starts, NextRow(rows[i], query[l], target, starts), l)
      BY <2>1, <2>3, <3>1, NextBacked
    <3> QED
      BY <2>2, <3>2
  <2>5. Grounded(rows[l], target, 200 * l)
    <3>1. ASSUME NEW j \in DOMAIN rows[l]
          PROVE  j \in 1 .. Len(target) /\ rows[l][j] \in Int /\ rows[l][j] <= 200 * i + 200
      <4>1. j \in DOMAIN NextRow(rows[i], query[l], target, starts)
        BY <2>2, <3>1
      <4>2. /\ j \in 1 .. Len(target)
            /\ NextRow(rows[i], query[l], target, starts)[j] \in Int
            /\ NextRow(rows[i], query[l], target, starts)[j] <= 200 * i + 200
        BY <2>1, <2>3, <4>1, NextFacts
      <4> QED
        BY <2>2, <4>2
    <3> QED
      BY <2>1, <3>1 DEF Grounded
  <2> QED
    BY <2>1, <2>4, <2>5 DEF l
<1>3. \A i \in 1 .. n : i \in S
  <2> HIDE DEF S
  <2> QED
    BY <1>1, <1>2, Upward
<1> QED
  BY <1>3

LEMMA RowsReach ==
    ASSUME NEW query, NEW target, NEW starts, Len(target) \in Nat, NEW n \in Nat, n > 0, NEW rows,
           RowsOf(query, target, starts, rows, n), NEW at, NEW s,
           Placed(query, target, at, n), Sums(at, starts, s, n)
    PROVE  Reaches(rows[n], at, s, n)
<1> DEFINE S == {i \in 1 .. n : Reaches(rows[i], at, s, i)}
<1>1. 1 \in S
  <2>1. 1 \in 1 .. n
    OBVIOUS
  <2>2. rows[1] = FirstRow(query[1], target, starts)
    BY <2>1 DEF RowsOf
  <2> QED
    BY <2>1, <2>2, FirstReached
<1>2. ASSUME NEW i \in 1 .. n - 1, i \in S PROVE i + 1 \in S
  <2> DEFINE l == i + 1
  <2>1. l \in 1 .. n /\ l \in 2 .. n /\ i \in 1 .. n /\ l - 1 = i /\ l # 1 /\ 200 * i \in Int
    OBVIOUS
  <2>2. rows[l] = NextRow(rows[i], query[l], target, starts)
    BY <2>1 DEF RowsOf
  <2>3. Reaches(rows[i], at, s, i) /\ Grounded(rows[i], target, 200 * i)
    BY <1>2, <2>1, RowsGrounded
  <2> HIDE DEF l
  <2>4. Reaches(rows[i], at, s, l - 1)
    BY <2>1, <2>3
  <2>5. Reaches(NextRow(rows[i], query[l], target, starts), at, s, l)
    BY <2>1, <2>3, <2>4, NextReached
  <2>6. Reaches(rows[l], at, s, l)
    BY <2>2, <2>5
  <2> QED
    BY <2>1, <2>6 DEF l
<1>3. \A i \in 1 .. n : i \in S
  <2> HIDE DEF S
  <2> QED
    BY <1>1, <1>2, Upward
<1>4. n \in 1 .. n
  OBVIOUS
<1> QED
  BY <1>3, <1>4

LEMMA PlacementsAre ==
    ASSUME NEW query, NEW target, Len(query) \in Nat, NEW at
    PROVE  /\ at \in Placements(query, target) <=> Placed(query, target, at, Len(query))
           /\ at \in Placements(query, target) => Len(at) = Len(query)
<1>1. at \in Placements(query, target) <=> Placed(query, target, at, Len(query))
  BY DEF Placements, Placed
<1>2. ASSUME at \in Placements(query, target) PROVE Len(at) = Len(query)
  <2>1. at \in [1 .. Len(query) -> 1 .. Len(target)]
    BY <1>2 DEF Placements
  <2> QED
    BY <2>1
<1> QED
  BY <1>1, <1>2

\* The worth of a placement is the last of its sums.
LEMMA WorthIs ==
    ASSUME NEW query, NEW target, NEW starts, Len(query) \in Nat, NEW at \in Placements(query, target),
           NEW s, Sums(at, starts, s, Len(query))
    PROVE  Worth(at, starts) = s[Len(query)]
<1>1. Len(at) = Len(query)
  BY PlacementsAre
<1>2. PICK t : Sums(at, starts, t, Len(query)) /\ Worth(at, starts) = t[Len(query)]
  BY <1>1, WorthSums
<1> QED
  BY <1>2, SumsAgree

LEMMA WorthHasSums ==
    ASSUME NEW query, NEW target, NEW starts, Len(query) \in Nat, NEW at \in Placements(query, target)
    PROVE  \E s : Sums(at, starts, s, Len(query)) /\ Worth(at, starts) = s[Len(query)]
<1>1. Len(at) = Len(query)
  BY PlacementsAre
<1> QED
  BY <1>1, WorthSums

\* For a query of any length, with runes of any kind.
LEMMA MatchHolds ==
    ASSUME NEW query, NEW target, NEW starts, Len(query) \in Nat, Len(target) \in Nat
    PROVE  MatchedAsPlaced(query, target, starts)
<1> DEFINE n == Len(query)
           places == Placements(query, target)
           worths == {Worth(at, starts) : at \in places}
           last == LastRow(query, target, starts)
           found == Quality(query, target, starts)
<1>1. CASE n = 0
  <2>1. ~(n \in 1 .. Len(target)) /\ ~(n > 0)
    BY <1>1
  <2>2. ~Matches(query, target, starts)
    BY <2>1 DEF Matches
  <2> QED
    BY <2>1, <2>2 DEF MatchedAsPlaced
<1>2. CASE n # 0
  <2> DEFINE rows == Score(query, target, starts)
  <2>1. n \in Nat /\ n > 0 /\ n \in 1 .. n /\ 200 * n \in Int /\ 40 * (n - 1) \in Int
    BY <1>2
  <2>2. RowsOf(query, target, starts, rows, n)
    BY ScoreRows
  <2> HIDE DEF rows
  <2>3. last = rows[n]
    BY DEF LastRow, rows
  <2>4. Grounded(rows[n], target, 200 * n) /\ Backed(query, target, starts, rows[n], n)
    <3> HIDE DEF n
    <3> QED
      BY <2>1, <2>2, RowsGrounded
  <2> HIDE DEF last
  <2>5. ASSUME NEW at \in places
        PROVE  /\ n <= Len(target) /\ at[n] \in DOMAIN last
               /\ Worth(at, starts) \in Int /\ Worth(at, starts) - 40 * (n - 1) <= last[at[n]]
    <3>1. Placed(query, target, at, n)
      BY PlacementsAre
    <3>2. PICK s : Sums(at, starts, s, n) /\ Worth(at, starts) = s[n]
      BY WorthHasSums
    <3> HIDE DEF n
    <3>3. Reaches(rows[n], at, s, n)
      BY <2>1, <2>2, <3>1, <3>2, RowsReach
    <3>4. n <= Len(target)
      BY <2>1, <3>1, NoEarlier
    <3> QED
      BY <2>3, <3>2, <3>3, <3>4 DEF Reaches
  <2>6. ASSUME NEW j \in DOMAIN last
        PROVE  \E at \in places : at[n] = j /\ last[j] <= Worth(at, starts)
    <3>1. PICK at, s : /\ Placed(query, target, at, n) /\ at[n] = j
                       /\ Sums(at, starts, s, n) /\ s[n] \in Int /\ last[j] <= s[n]
      BY <2>3, <2>4, <2>6 DEF Backed, Backs
    <3>2. at \in places
      BY <3>1, PlacementsAre
    <3>3. Worth(at, starts) = s[n]
      BY <3>1, <3>2, WorthIs
    <3> QED
      BY <3>1, <3>2, <3>3
  <2> HIDE DEF n, places
  <2>7. Matches(query, target, starts) <=> n > 0 /\ worths # {}
    <3>1. ASSUME Matches(query, target, starts) PROVE worths # {}
      <4>1. PICK j : j \in DOMAIN last
        BY <3>1 DEF Matches, last
      <4> QED
        BY <2>6, <4>1
    <3>2. ASSUME worths # {} PROVE Matches(query, target, starts)
      <4>1. PICK at : at \in places
        BY <3>2
      <4>2. n \in 1 .. Len(target) /\ DOMAIN last # {}
        BY <2>1, <2>5, <4>1
      <4> QED
        BY <4>2 DEF Matches, n, last
    <3> QED
      BY <2>1, <3>1, <3>2
  <2>8. ASSUME worths # {} PROVE found <= Max(worths) /\ Max(worths) - found <= 40 * (n - 1)
    <3> DEFINE values == {last[j] : j \in DOMAIN last}
    <3>1. Range(last) = values
      BY DEF Range
    <3>2. values \subseteq Int /\ \A v \in values : v <= 200 * n
      BY <2>3, <2>4 DEF Grounded
    <3>3. values # {}
      <4>1. PICK at : at \in places
        BY <2>8
      <4> QED
        BY <2>5, <4>1
    <3>4. found = Max(values)
      BY <3>1 DEF Quality, last
    <3> HIDE DEF found
    <3>5. found \in values /\ \A v \in values : v <= found
      <4> HIDE DEF values
      <4> QED
        BY <2>1, <3>2, <3>3, <3>4, GreatestIs
    <3>6. found \in Int
      BY <3>2, <3>5
    <3>7. ASSUME NEW w \in worths PROVE w \in Int /\ w <= found + 40 * (n - 1)
      <4>1. PICK at \in places : w = Worth(at, starts)
        BY <3>7
      <4>2. w \in Int /\ w - 40 * (n - 1) <= last[at[n]] /\ at[n] \in DOMAIN last
        BY <2>5, <4>1
      <4>3. last[at[n]] \in values
        BY <4>2
      <4>4. last[at[n]] \in Int /\ last[at[n]] <= found
        BY <3>2, <3>5, <4>3
      <4> HIDE DEF values
      <4> QED
        BY ONLY <2>1, <3>6, <4>2, <4>4
    <3>8. Max(worths) \in worths /\ \A w \in worths : w <= Max(worths)
      <4>1. worths \subseteq Int /\ found + 40 * (n - 1) \in Int /\ \A w \in worths : w <= found + 40 * (n - 1)
        BY <2>1, <3>6, <3>7
      <4> HIDE DEF worths
      <4> QED
        BY <2>8, <4>1, GreatestIs
    <3>9. \E w \in worths : found <= w
      <4>1. PICK j \in DOMAIN last : found = last[j]
        BY <3>5
      <4> QED
        BY <2>6, <4>1
    <3> HIDE DEF worths
    <3>10. Max(worths) \in Int /\ Max(worths) <= found + 40 * (n - 1)
      BY <3>7, <3>8
    <3>11. PICK w \in worths : found <= w
      BY <3>9
    <3>12. w \in Int /\ w <= Max(worths)
      BY <3>7, <3>8
    <3> QED
      BY ONLY <2>1, <3>6, <3>10, <3>11, <3>12
  <2> QED
    BY <2>7, <2>8 DEF MatchedAsPlaced, n, places, Contiguous
<1> QED
  BY <1>1, <1>2

\* What a default or a query comes to: a session starts on a model that can be asked,
\* or on what an alias with its name stands for (BootServes), and a query matches a reference exactly when its runes lie there in
\* order, is never worth more than its best placement, and less than that by no more
\* than a contiguity bonus for each rune after the first.
THEOREM ChoiceAlwaysHolds == CatalogSpec => []ChoiceHolds
<1>1. \A s \in Samples : MatchedAsPlaced(s.query, s.target, s.starts)
  BY CatalogAssumption, MatchHolds
<1>2. CatalogTypes => ChoiceHolds
  BY <1>1, BootPicks DEF ChoiceHolds
<1> QED
  BY <1>2, TypesInit, TypesStep, PTL DEF CatalogSpec
=============================================================================
