------------------------------- MODULE TuiTurn -------------------------------
(***************************************************************************)
(* A running turn seen from the terminal interface: the modes of Root      *)
(* (src/internal/tui/root.go), the goroutine of the turn that Update       *)
(* started (agentturn.go, toolapprove.go, askuser.go, and the bridges      *)
(* toolreview.go and askuser.go of src/internal/app), the queues of texts  *)
(* typed meanwhile (steering.go, queueedit.go) and the stream tick.        *)
(*                                                                         *)
(* Update handles one message at a time; a message that a goroutine sends  *)
(* is handed over when Update takes it, so a goroutine has at most one on  *)
(* the way.  A step is one Update, or what a goroutine does between two    *)
(* points where Update or a cancellation can come in.  The permission      *)
(* dialog and the question dialog share one handshake and are one here.    *)
(*                                                                         *)
(* A picker sends what was chosen in it as a message and stays open until  *)
(* Update takes that message, in whatever mode it then finds itself: over  *)
(* a live turn the message uncovers the chat, and a second turn can be     *)
(* started there.  The goroutine of the first, which Root then holds no    *)
(* more, is `older'.                                                       *)
(***************************************************************************)
EXTENDS Integers, Sequences, SequencesExt

CONSTANTS
    MaxTexts,       \* bound: texts typed
    MaxRequests,    \* bound: permissions and answers asked for
    MaxTicks,       \* bound: ticks armed when a key arms one more
    MaxChoices      \* bound: choices made in pickers

ASSUME LimitAssumption ==
    MaxTexts \in Nat /\ MaxRequests \in Nat /\ MaxTicks \in Nat /\ MaxChoices \in Nat

VARIABLES
    toolsEnabled,   \* m.toolsEnabled, the same for the whole session
    batch,          \* the queues delivered whole: ui.steering_mode, ui.followup_mode
    mode,           \* m.mode; "overlay" is any screen opened from the chat
    returnMode,     \* m.queueEdit.returnMode
    live,           \* m.live.active: the interface believes a turn runs
    turn,           \* what the turn's goroutine does
    ctxDone,        \* the turn's context is cancelled
    asking,         \* the request the goroutine waits for, 0 when none
    stray,          \* a request of a sub-agent its turn no longer waits for
    dialog,         \* the request of the dialog on the screen, 0 when none
    blocked,        \* Update is blocked sending an answer nobody reads
    ticks,          \* stream ticks armed
    hist,           \* the messages of the conversation that hold texts of the user,
                    \* those that the turn's goroutine added to its copy included;
                    \* empty once crossed
    steering,       \* steeringQueue.steering
    followups,      \* steeringQueue.followups
    texts,          \* texts typed so far
    deleted,        \* follow-ups the user deleted
    requests,       \* requests made so far
    lost,           \* what Update dropped of the turn: the request it waits for, and
                    \* 0 for its end
    chosen,         \* choices sent by a picker so far ...
    arrived,        \* ... and those of them that Update took
    covered,        \* history: a choice was taken over the turn that runs
    older,          \* the goroutine of a turn that another one replaced
    crossed         \* history: a turn with tools was started over another

settings == <<toolsEnabled, batch>>
asks   == <<asking, stray, requests>>
queues == <<steering, followups, texts, deleted>>
picked == <<chosen, arrived>>
late   == <<picked, covered, older, crossed>>
vars == <<settings, mode, returnMode, live, turn, ctxDone, asking, stray, dialog, blocked,
          ticks, hist, steering, followups, texts, deleted, requests, lost, chosen,
          arrived, covered, older, crossed>>

\* A message of the conversation: how it was given, and the texts in it.
Message(how, ts) == [how |-> how, texts |-> ts]

\* No replaced turn has a goroutine left.
Nobody == [at |-> "none", asking |-> 0, cancelled |-> FALSE]

\* The turn's goroutine as it goes on when Root turns to another turn.
Abandoned(cancelled) ==
    IF turn = "none" THEN Nobody
    ELSE [at |-> turn, asking |-> asking, cancelled |-> cancelled]

\* The conversations of two turns with tools share an array to which both append,
\* with no lock: what it holds is undefined, and no text is followed from there on.
Followed(messages) == IF crossed THEN <<>> ELSE messages

Init ==
    /\ toolsEnabled \in BOOLEAN /\ batch \in SUBSET {"steering", "followups"}
    /\ mode = "chat" /\ returnMode = "chat"
    /\ live = FALSE /\ turn = "none" /\ ctxDone = FALSE
    /\ asking = 0 /\ stray = 0 /\ dialog = 0 /\ requests = 0
    /\ blocked = FALSE /\ ticks = 0
    /\ hist = <<>> /\ steering = <<>> /\ followups = <<>>
    /\ texts = 0 /\ deleted = {}
    /\ lost = {}
    /\ chosen = 0 /\ arrived = 0 /\ covered = FALSE /\ older = Nobody /\ crossed = FALSE

-----------------------------------------------------------------------------
(* Beginning and end of a turn, in Update. *)

\* startEngineTurn and startAgentTurn: one tick is armed with the turn.
StartTurn(armed, messages) ==
    /\ mode' = "busy"
    /\ live' = TRUE
    /\ turn' = "work"
    /\ ctxDone' = FALSE
    /\ asking' = 0
    /\ lost' = {}
    /\ ticks' = armed + 1
    /\ hist' = Followed(messages)

\* They ask for no turn that runs already.  The goroutine of one with tools goes
\* on, and its context with no one to cancel it; that of a plain one writes to a
\* buffer nobody reads, and is forgotten.
\* Bound: one goroutine left behind.
StartOver(messages) ==
    /\ ticks < MaxTicks
    /\ \/ /\ ~(live /\ toolsEnabled)
          /\ StartTurn(ticks, messages)
          /\ UNCHANGED <<older, crossed>>
       \/ /\ live /\ toolsEnabled
          /\ older = Nobody
          /\ StartTurn(ticks, <<>>)
          /\ older' = Abandoned(ctxDone)
          /\ crossed' = TRUE
    /\ UNCHANGED <<picked, covered>>

\* submit, from the chat or from the overlay that first asked for a decision
\* about the text (toolscope.go).
Submit ==
    /\ ~blocked
    /\ mode \in {"chat", "overlay"}
    /\ texts < MaxTexts
    /\ texts' = texts + 1
    /\ StartOver(Append(hist, Message("submit", <<texts'>>)))
    /\ UNCHANGED <<settings, returnMode, stray, requests, dialog, blocked, steering,
                   followups, deleted>>

\* Mutant: the newest one is submitted and the oldest one removed.
MutDrained == IF "followups" \in batch THEN followups
              ELSE SubSeq(followups, Len(followups), Len(followups))

\* drainFollowups: the oldest one, or all of them in one message.
Drained == IF "followups" \in batch THEN followups ELSE SubSeq(followups, 1, 1)

\* The end of finishTurn and finishAgentTurn.  checkEndOfTurn may open an
\* overlay (a compaction, a suggestion); otherwise it submits a follow-up.
FinishTurn(armed, remaining) ==
    /\ \/ /\ mode' \in {"chat", "overlay"}
          /\ mode' = "chat" => followups = <<>>
          /\ live' = FALSE /\ turn' = "none" /\ ctxDone' = FALSE /\ asking' = 0
          /\ ticks' = armed
          /\ lost' = {}
          /\ UNCHANGED <<hist, followups>>
       \/ /\ followups # <<>>
          /\ followups' = SubSeq(followups, Len(Drained) + 1, Len(followups))
          /\ StartTurn(armed, Append(hist, Message("follow", Drained)))
    /\ older' = remaining
    /\ covered' = (covered /\ remaining # Nobody)

\* agentTurnDoneMsg, dropped in every mode but ModeBusy.
TakeDone ==
    /\ ~blocked
    /\ toolsEnabled /\ turn = "ending"
    /\ \/ /\ mode = "busy"
          /\ FinishTurn(ticks, older)
       \/ /\ mode # "busy"
          /\ turn' = "none"
          /\ lost' = lost \cup {0}
          /\ UNCHANGED <<mode, live, ctxDone, asking, ticks, hist, followups, covered,
                         older>>
    /\ UNCHANGED <<settings, returnMode, stray, requests, dialog, blocked, steering, texts,
                   deleted, picked, crossed>>

\* streamTickMsg: without a turn the tick is not armed again; with one it is
\* (no change), and a plain turn whose buffer is done ends here, in any mode.
Tick ==
    /\ ~blocked
    /\ ticks > 0
    /\ \/ /\ ~live
          /\ ticks' = ticks - 1
          /\ UNCHANGED <<mode, live, turn, ctxDone, asking, hist, followups, lost, covered,
                         older>>
       \/ /\ live
          /\ ~toolsEnabled /\ turn = "ending"
          /\ FinishTurn(ticks - 1, older)
    /\ UNCHANGED <<settings, returnMode, stray, requests, dialog, blocked, steering, texts,
                   deleted, picked, crossed>>

-----------------------------------------------------------------------------
(* Keys. *)

\* A picker, menu, help screen or /compact: from ModeChat only, both by chord
\* and by command (busyAllowedSlashKind names only those that open nothing).
OpenOverlay ==
    /\ ~blocked
    /\ mode = "chat"
    /\ mode' = "overlay"
    /\ UNCHANGED <<settings, returnMode, live, turn, ctxDone, asks, dialog, blocked, ticks,
                   hist, queues, lost, late>>

\* esc, or the end of what the overlay was opened for.
CloseOverlay ==
    /\ ~blocked
    /\ mode = "overlay"
    /\ mode' = "chat"
    /\ UNCHANGED <<settings, returnMode, live, turn, ctxDone, asks, dialog, blocked, ticks,
                   hist, queues, lost, late>>

\* enter in the model picker or the /resume menu: the choice is sent as a message
\* (modelChosenMsg, sessionChosenMsg) and the overlay stays open.
Choose ==
    /\ ~blocked
    /\ mode = "overlay"
    /\ chosen < MaxChoices
    /\ chosen' = chosen + 1
    /\ UNCHANGED <<settings, mode, returnMode, live, turn, ctxDone, asks, dialog, blocked,
                   ticks, hist, queues, lost, arrived, covered, older, crossed>>

\* applyModelChosen and applySessionChosen, in any mode: the chat, or the dialog
\* that asks for a confirmation; a dialog of the turn leaves the screen.
\* A conversation put aside by /resume keeps its texts and stays in hist.
TakeChoice ==
    /\ ~blocked
    /\ arrived < chosen
    /\ arrived' = arrived + 1
    /\ mode' \in {"chat", "overlay"}
    /\ dialog' = 0
    /\ covered' = (covered \/ live)
    /\ UNCHANGED <<settings, returnMode, live, turn, ctxDone, asks, blocked, ticks, hist,
                   queues, lost, chosen, older, crossed>>

\* runRetry: the turn over the same user messages.
Retry ==
    /\ ~blocked
    /\ mode = "chat"
    /\ hist # <<>> \/ crossed
    /\ StartOver(hist)
    /\ UNCHANGED <<settings, returnMode, stray, requests, dialog, blocked, queues>>

\* acceptSuggestion: a turn over a message the program wrote (not in hist).
\* What is suggested was seen in earlier turns.
AcceptSuggestion ==
    /\ ~blocked
    /\ mode = "overlay"
    /\ hist # <<>> \/ crossed
    /\ StartOver(hist)
    /\ UNCHANGED <<settings, returnMode, stray, requests, dialog, blocked, queues>>

\* esc in ModeBusy: cancelAgentTurn, or cancelTurn, which arms a tick more;
\* ctrl+c: cancelTurn always.
Cancel ==
    /\ ~blocked
    /\ mode = "busy"
    /\ ctxDone' = TRUE
    /\ \/ toolsEnabled /\ UNCHANGED ticks
       \/ ticks < MaxTicks /\ ticks' = ticks + 1
    /\ UNCHANGED <<settings, mode, returnMode, live, turn, asks, dialog, blocked, hist,
                   queues, lost, late>>

\* Mutant: the dialog is closed and the turn is not told.
MutCancelDialog ==
    /\ ~blocked
    /\ mode = "dialog"
    /\ dialog' = 0
    /\ mode' = "busy"
    /\ UNCHANGED <<settings, returnMode, live, turn, ctxDone, asks, blocked, ticks, hist,
                   queues, lost, late>>

\* Mutant: the dialog's state survives it.
MutDialogKept ==
    /\ ~blocked
    /\ mode = "dialog"
    /\ mode' = "busy"
    /\ ctxDone' = TRUE
    /\ UNCHANGED <<settings, returnMode, live, turn, asks, dialog, blocked, ticks, hist,
                   queues, lost, late>>

\* ctrl+c in a dialog: cancelAgentTurn.
CancelDialog ==
    /\ ~blocked
    /\ mode = "dialog"
    /\ dialog' = 0
    /\ mode' = "busy"
    /\ ctxDone' = TRUE
    /\ UNCHANGED <<settings, returnMode, live, turn, asks, blocked, ticks, hist, queues,
                   lost, late>>

\* resolveToolApproveWith and resolveAskUserWith: enter or esc in a dialog.
\* The answer goes through a channel without buffer, to whoever still waits.
Answer ==
    /\ ~blocked
    /\ mode = "dialog"
    /\ \/ /\ turn = "waiting" /\ asking = dialog
          /\ turn' = "work"
          /\ asking' = 0
          /\ dialog' = 0
          /\ mode' = "busy"
          /\ UNCHANGED <<blocked, older>>
       \/ /\ older.at = "waiting" /\ older.asking = dialog
          /\ older' = [older EXCEPT !.at = "work", !.asking = 0]
          /\ dialog' = 0
          /\ mode' = "busy"
          /\ UNCHANGED <<turn, asking, blocked>>
       \/ /\ ~(turn = "waiting" /\ asking = dialog)
          /\ ~(older.at = "waiting" /\ older.asking = dialog)
          /\ blocked' = TRUE
          /\ UNCHANGED <<turn, asking, dialog, mode, older>>
    /\ UNCHANGED <<settings, returnMode, live, ctxDone, stray, requests, ticks, hist,
                   queues, lost, picked, covered, crossed>>

\* queueSteering: shown at once, in the conversation only when it is injected.
Steer ==
    /\ ~blocked
    /\ mode = "busy"
    /\ texts < MaxTexts
    /\ texts' = texts + 1
    /\ steering' = Append(steering, texts')
    /\ UNCHANGED <<settings, mode, returnMode, live, turn, ctxDone, asks, dialog, blocked,
                   ticks, hist, followups, deleted, lost, late>>

QueueFollowup ==
    /\ ~blocked
    /\ mode = "busy"
    /\ texts < MaxTexts
    /\ texts' = texts + 1
    /\ followups' = Append(followups, texts')
    /\ UNCHANGED <<settings, mode, returnMode, live, turn, ctxDone, asks, dialog, blocked,
                   ticks, hist, steering, deleted, lost, late>>

\* openQueueEdit, over a turn or over the chat.
OpenQueueEdit ==
    /\ ~blocked
    /\ mode \in {"chat", "busy"}
    /\ mode' = "queue"
    /\ returnMode' = mode
    /\ UNCHANGED <<settings, live, turn, ctxDone, asks, dialog, blocked, ticks, hist,
                   queues, lost, late>>

CloseQueueEdit ==
    /\ ~blocked
    /\ mode = "queue"
    /\ mode' = returnMode
    /\ returnMode' = "chat"
    /\ UNCHANGED <<settings, live, turn, ctxDone, asks, dialog, blocked, ticks, hist,
                   queues, lost, late>>

\* removeFollowupAt.
DeleteFollowup ==
    /\ ~blocked
    /\ mode = "queue"
    /\ \E k \in DOMAIN followups :
          /\ followups' = RemoveAt(followups, k)
          /\ deleted' = deleted \cup {followups[k]}
    /\ UNCHANGED <<settings, mode, returnMode, live, turn, ctxDone, asks, dialog, blocked,
                   ticks, hist, steering, texts, lost, late>>

-----------------------------------------------------------------------------
(* The turn's goroutine. *)

\* drainSteering: the oldest one, or all of them.
Injected == IF "steering" \in batch THEN steering ELSE SubSeq(steering, 1, 1)

\* AgentSink.Inject, before a request of the loop.
Inject ==
    /\ toolsEnabled /\ turn = "work" /\ ~ctxDone
    /\ steering # <<>>
    /\ hist' = Followed(hist \o [k \in DOMAIN Injected |-> Message("steer", <<Injected[k]>>)])
    /\ steering' = SubSeq(steering, Len(Injected) + 1, Len(steering))
    /\ UNCHANGED <<settings, mode, returnMode, live, turn, ctxDone, asks, dialog, blocked,
                   ticks, followups, texts, deleted, lost, late>>

\* Review or Ask: past its check of the context the goroutine hands its
\* request to the program ...
Ask ==
    /\ toolsEnabled /\ turn = "work" /\ ~ctxDone
    /\ requests < MaxRequests
    /\ requests' = requests + 1
    /\ asking' = requests'
    /\ turn' = "sending"
    /\ UNCHANGED <<settings, mode, returnMode, live, ctxDone, stray, dialog, blocked, ticks,
                   hist, queues, lost, late>>

\* ToolApproveRequestMsg and AskUserRequestMsg, dropped in every mode but
\* ModeBusy.  Either way the sender goes on to wait.
Shown(request) ==
    \/ /\ mode = "busy"
       /\ mode' = "dialog"
       /\ dialog' = request
    \/ /\ mode # "busy"
       /\ UNCHANGED <<mode, dialog>>

TakeRequest ==
    /\ ~blocked
    /\ turn = "sending"
    /\ Shown(asking)
    /\ turn' = "waiting"
    /\ lost' = IF mode = "busy" THEN lost ELSE lost \cup {asking}
    /\ UNCHANGED <<settings, returnMode, live, ctxDone, asks, blocked, ticks, hist, queues,
                   late>>

\* Mutant: the wait for an answer does not look at the context.
MutGiveUp == /\ FALSE
             /\ UNCHANGED vars

\* ... and waits for the answer or for the cancellation.
GiveUp ==
    /\ turn = "waiting" /\ ctxDone
    /\ turn' = "work"
    /\ asking' = 0
    /\ lost' = lost \ {asking}
    /\ UNCHANGED <<settings, mode, returnMode, live, ctxDone, stray, requests, dialog,
                   blocked, ticks, hist, queues, late>>

\* newSubAgentRunner: a cancelled parent does not wait for its sub-agent, whose
\* goroutine may still hand over the request it was sending.
LeaveSubAgent ==
    /\ turn = "sending" /\ ctxDone /\ stray = 0
    /\ turn' = "work"
    /\ stray' = asking
    /\ asking' = 0
    /\ UNCHANGED <<settings, mode, returnMode, live, ctxDone, requests, dialog, blocked,
                   ticks, hist, queues, lost, late>>

TakeStray ==
    /\ ~blocked
    /\ stray # 0
    /\ Shown(stray)
    /\ stray' = 0
    /\ UNCHANGED <<settings, returnMode, live, turn, ctxDone, asking, requests, blocked,
                   ticks, hist, queues, lost, late>>

\* The turn is over: agentTurnDoneMsg is sent, or the buffer is done.
End ==
    /\ turn = "work"
    /\ turn' = "ending"
    /\ UNCHANGED <<settings, mode, returnMode, live, ctxDone, asks, dialog, blocked, ticks,
                   hist, queues, lost, late>>

-----------------------------------------------------------------------------
(* The goroutine of a turn that was replaced. *)

\* The queue of steering is one for both, and what the older turn takes from it
\* reaches no conversation that Root holds.
OldInject ==
    /\ older.at = "work" /\ ~older.cancelled
    /\ steering # <<>>
    /\ steering' = SubSeq(steering, Len(Injected) + 1, Len(steering))
    /\ UNCHANGED <<settings, mode, returnMode, live, turn, ctxDone, asks, dialog, blocked,
                   ticks, hist, followups, texts, deleted, lost, late>>

OldAsk ==
    /\ older.at = "work" /\ ~older.cancelled
    /\ requests < MaxRequests
    /\ requests' = requests + 1
    /\ older' = [older EXCEPT !.at = "sending", !.asking = requests']
    /\ UNCHANGED <<settings, mode, returnMode, live, turn, ctxDone, asking, stray, dialog,
                   blocked, ticks, hist, queues, lost, picked, covered, crossed>>

TakeOldRequest ==
    /\ ~blocked
    /\ older.at = "sending"
    /\ Shown(older.asking)
    /\ older' = [older EXCEPT !.at = "waiting"]
    /\ UNCHANGED <<settings, returnMode, live, turn, ctxDone, asks, blocked, ticks, hist,
                   queues, lost, picked, covered, crossed>>

\* GiveUp, and LeaveSubAgent.
OldGiveUp ==
    /\ older.cancelled
    /\ \/ older.at = "waiting" /\ UNCHANGED stray
       \/ older.at = "sending" /\ stray = 0 /\ stray' = older.asking
    /\ older' = [older EXCEPT !.at = "work", !.asking = 0]
    /\ UNCHANGED <<settings, mode, returnMode, live, turn, ctxDone, asking, requests, dialog,
                   blocked, ticks, hist, queues, lost, picked, covered, crossed>>

OldEnd ==
    /\ older.at = "work"
    /\ older' = [older EXCEPT !.at = "ending"]
    /\ UNCHANGED <<settings, mode, returnMode, live, turn, ctxDone, asks, dialog, blocked,
                   ticks, hist, queues, lost, picked, covered, crossed>>

\* agentTurnDoneMsg names no turn: in ModeBusy the older turn's ends the one on
\* the screen, whose goroutine is cancelled and goes on as the older one.
TakeOldDone ==
    /\ ~blocked
    /\ older.at = "ending"
    /\ \/ /\ mode = "busy"
          /\ FinishTurn(ticks, Abandoned(TRUE))
       \/ /\ mode # "busy"
          /\ older' = Nobody
          /\ UNCHANGED <<mode, live, turn, ctxDone, asking, ticks, hist, followups, lost,
                         covered>>
    /\ UNCHANGED <<settings, returnMode, stray, requests, dialog, blocked, steering, texts,
                   deleted, picked, crossed>>

-----------------------------------------------------------------------------

Keys ==
    \/ Submit \/ Retry \/ AcceptSuggestion \/ OpenOverlay \/ Choose \/ Cancel
    \/ CancelDialog \/ Steer \/ QueueFollowup \/ OpenQueueEdit \/ DeleteFollowup

\* What the user does sooner or later: closing what is open.
Closing == CloseOverlay \/ CloseQueueEdit \/ Answer

Goroutine == Inject \/ Ask \/ GiveUp \/ LeaveSubAgent \/ End
OldGoroutine == OldInject \/ OldAsk \/ OldGiveUp \/ OldEnd
Deliveries ==
    TakeDone \/ TakeRequest \/ TakeStray \/ TakeChoice \/ TakeOldRequest \/ TakeOldDone

Next == Keys \/ Closing \/ Goroutine \/ OldGoroutine \/ Deliveries \/ Tick

Spec == Init /\ [][Next]_vars

\* The goroutines run, Update takes what they send, the clock ticks, and the
\* user answers a dialog.  No other key is ever obliged, nor is anything that
\* happens behind a late choice.
FairSpec == /\ Spec
            /\ WF_vars(Goroutine) /\ WF_vars(TakeRequest) /\ WF_vars(TakeDone)
            /\ WF_vars(Tick) /\ WF_vars(Answer)

-----------------------------------------------------------------------------
(* Properties. *)

Texts == 1..MaxTexts
Asked == 0..MaxRequests

TypeOK ==
    /\ toolsEnabled \in BOOLEAN /\ batch \subseteq {"steering", "followups"}
    /\ mode \in {"chat", "overlay", "busy", "dialog", "queue"}
    /\ returnMode \in {"chat", "busy"}
    /\ turn \in {"none", "work", "sending", "waiting", "ending"}
    /\ live \in BOOLEAN /\ ctxDone \in BOOLEAN /\ blocked \in BOOLEAN
    /\ asking \in Asked /\ stray \in Asked /\ dialog \in Asked /\ requests \in Asked
    /\ ticks \in 0..(MaxTicks + MaxTexts)
    /\ hist \in Seq([how : {"submit", "steer", "follow"}, texts : Seq(Texts)])
    /\ steering \in Seq(Texts) /\ followups \in Seq(Texts)
    /\ texts \in 0..MaxTexts /\ deleted \subseteq Texts
    /\ lost \subseteq Asked
    /\ chosen \in 0..MaxChoices /\ arrived \in 0..chosen /\ covered \in BOOLEAN /\ crossed \in BOOLEAN
    /\ older \in [at : {"none", "work", "sending", "waiting", "ending"}, asking : Asked,
                  cancelled : BOOLEAN]
    /\ (mode = "dialog") <=> (dialog # 0)
    /\ (turn \in {"sending", "waiting"}) <=> (asking # 0)
    /\ (older.at \in {"sending", "waiting"}) <=> (older.asking # 0)

\* Where a second turn can be started (the chat and its overlays) the goroutine
\* of the turn before is gone: Root keeps the channels and the live state of
\* one turn only, and submit asks for nothing but the mode.  The exception is a
\* turn under which a late choice opened the chat (root.go:1702-1706): then a
\* second one can run beside it.
OneTurn ==
    /\ mode \in {"chat", "overlay"} => (turn = "none" /\ ~live) \/ covered
    /\ older # Nobody => covered

\* The interface shows a turn at work only while there is one, so that esc,
\* ctrl+c, steering and the dialogs reach a turn; the exception is a turn
\* whose end was dropped under the queue editor or a late choice.
BusyMeansTurn ==
    mode \in {"busy", "dialog"} => live /\ (turn # "none" \/ 0 \in lost)

\* While a turn that was not cancelled waits for an answer, its own question
\* is the one on the screen; the exceptions are a request that was dropped and
\* a dialog that a late choice took from the screen.
WaiterShown ==
    turn = "waiting" /\ ~ctxDone =>
        (mode = "dialog" /\ dialog = asking) \/ asking \in lost \/ covered

\* A tick is armed as long as a turn runs, however it was started, cancelled,
\* overlaid or followed by another: without one nothing drains its stream,
\* and a plain turn could not end.
StreamDrained == live => ticks > 0

\* The screen and the goroutine agree, whatever overlay, dialog, cancellation or
\* late message came between them, a choice over a live turn excepted until that
\* turn and all behind it have ended (root.go, agentturn.go, queueedit.go).
ScreenAgrees == OneTurn /\ BusyMeansTurn /\ WaiterShown /\ StreamDrained

\* The texts as they lie: the conversation, then the two queues.
Line == hist \o <<Message("steer", steering), Message("follow", followups)>>

\* A place is the number of a message and that of a text in it.
Places(line) == UNION {{k} \X DOMAIN line[k].texts : k \in DOMAIN line}

TextAt(line, p) == line[p[1]].texts[p[2]]

\* Every text of the set has one place, and the places hold no other.
Kept(line, given) ==
    /\ \A p \in Places(line) : TextAt(line, p) \in given
    /\ \A t \in given : \E p \in Places(line) : TextAt(line, p) = t
    /\ \A p, q \in Places(line) : TextAt(line, p) = TextAt(line, q) => p = q

\* A text the user gave, in whatever mode and through whatever key, is in the
\* conversation or in a queue, once; one deleted in the queue editor, nowhere.
TextsKept == Kept(Line, (1..texts) \ deleted)

\* Given the same way, and at an earlier place.
Before(line, p, q) ==
    /\ line[p[1]].how = line[q[1]].how
    /\ p[1] < q[1] \/ (p[1] = q[1] /\ p[2] < q[2])

Ordered(line) ==
    \A p, q \in Places(line) : Before(line, p, q) => TextAt(line, p) < TextAt(line, q)

\* What was steered, and what was queued as a follow-up, arrives in the order
\* it was typed in, over any number of turns and in both modes of delivery.
QueuesInOrder == Ordered(Line)

\* Both: every text typed arrives, once and in its order (steering.go:117-353),
\* unless two turns with tools ran at once: what both took from one queue and
\* wrote into one array is anywhere.
TextsDelivered == crossed \/ (TextsKept /\ QueuesInOrder)

\* A turn ends, whether it asks, is answered, cancelled or overlaid, when the
\* user answers; the exceptions are its own request or its end being dropped,
\* a choice taken over it, and a blocked Update.
TurnEnds == live ~> (~live \/ asking \in lost \/ 0 \in lost \/ covered \/ blocked)

\* "... leaves the dialog open rather than silently dropping the request:
\* dropping it would leave the goroutine (and its channel) blocked forever",
\* of openToolApprove (agentturn.go): a waiting turn is always shown.
RequestsShown == turn = "waiting" /\ ~ctxDone => mode = "dialog" /\ dialog = asking

\* "there is nothing left for a later, stray send to block on", of Review
\* (app/toolreview.go).
NeverBlocks == ~blocked
=============================================================================
