---------------------------- MODULE Conversation ----------------------------
(***************************************************************************)
(* What the terminal session keeps of a conversation: m.conv of            *)
(* src/internal/tui/root.go, the compaction of it (src/internal/convo/     *)
(* compact.go, src/internal/tui/compact.go, confirm.go), the commands that *)
(* rewrite it (/new, /resume, /retry) and the file the recorder appends    *)
(* its messages to.  The session files themselves, their faults and their  *)
(* rotation are SessionStore; here a file is the messages in it.           *)
(*                                                                         *)
(* One goroutine handles every message of the interface, so a step is one  *)
(* Update.  Beside it run the turn, whose end is one message, and any      *)
(* number of summaries asked of compact_model, whose answers arrive late   *)
(* and in any order, those of cancelled compactions included.              *)
(***************************************************************************)
EXTENDS Integers, Sequences, FiniteSets

CONSTANTS
    KeepTurns,      \* compact.keep_last_turns, positive by configuration
    Setups          \* configurations and their bounds, see setup

ASSUME KeepTurnsAssumption == KeepTurns \in Nat \ {0}
ASSUME SetupAssumption     ==
    \A u \in Setups : {u.instant, u.dropOnError} \subseteq BOOLEAN /\ {u.messages, u.compactions} \subseteq Nat

VARIABLES
    msgs,       \* m.conv.Messages
    mode,       \* m.mode, as far as the conversation is concerned
    plan,       \* m.compact.plan.Replace
    asked,      \* the compaction m.compact belongs to, counted
    answers,    \* results of summarizeCmd not delivered yet
    files,      \* the session files, in the order they were created
    latest,     \* the file written last, 0 when there is none
    rec,        \* sessionRecorder.conv: a file, or 0 for nil
    produced,   \* messages produced so far
    applied,    \* <<compaction on the screen, compaction answered>>, per use
    setup       \* instant: strategy = "drop-oldest", or no engine for compact_model;
                \* dropOnError: compact.on_error = "drop-oldest"; the bounds: commands
                \* the user gives, messages ever produced, compactions started

diskVars == <<files, latest, rec>>
compVars == <<plan, asked, answers, applied>>
vars == <<msgs, mode, plan, asked, answers, files, latest, rec, produced, applied, setup>>

\* A message: to is the call a reply answers, in the conversation it was said
\* in, and replaces what a summary block says it stands for.
Messages == [n : Nat, role : {"user", "assistant", "tool"}, calls : BOOLEAN, cut : BOOLEAN,
             to : Nat, replaces : SUBSET Nat]

Message(n, role) == [n |-> n, role |-> role, calls |-> FALSE, cut |-> FALSE,
                     to |-> 0, replaces |-> {}]

\* What a turn may leave in the history: an answer, calls and their replies, a
\* steering message, an answer cut after a call, or nothing at all.
Turns == { <<>>, <<"answer">>, <<"cut">>, <<"call", "reply">>,
           <<"call", "reply", "answer">>, <<"call", "reply", "user", "answer">> }

Said(n, kind) ==
    CASE kind = "user"   -> Message(n, "user")
      [] kind = "answer" -> Message(n, "assistant")
      [] kind = "call"   -> [Message(n, "assistant") EXCEPT !.calls = TRUE]
      [] kind = "cut"    -> [Message(n, "assistant") EXCEPT !.calls = TRUE, !.cut = TRUE]
      [] kind = "reply"  -> [Message(n, "tool") EXCEPT !.to = n - 1]

FromTurn(turn) == [k \in DOMAIN turn |-> Said(produced + k, turn[k])]

-----------------------------------------------------------------------------
(* convo: what travels, and what a compaction takes out of it. *)

Replaced(m) == UNION {m[k].replaces : k \in DOMAIN m}

\* Conversation.Active: the messages no summary stands for, by index.
Active(m) == DOMAIN m \ Replaced(m)

\* Mutants: indices counted from the wrong end of the loop; the oldest messages
\* rather than the oldest turns.
MutPlanShifted(m) ==
    LET starts == {k \in Active(m) : m[k].role = "user"}
    IN  IF Cardinality(starts) > KeepTurns THEN {k - 1 : k \in Active(m)} ELSE {}

MutPlanMessages(m) ==
    {k \in DOMAIN m : k <= Len(m) - KeepTurns /\ k \notin Replaced(m)}

\* PlanCompact: everything before the first of the last KeepTurns turns that
\* no summary stands for yet; nothing when there are no more turns than that.
PlanCompact(m) ==
    LET starts == {k \in Active(m) : m[k].role = "user"}
        keep   == {b \in starts : Cardinality({s \in starts : s >= b}) = KeepTurns}
    IN  IF Cardinality(starts) > KeepTurns
        THEN {k \in Active(m) : \E b \in keep : k < b} ELSE {}

\* ApplySummary: a message at the end, which nothing records.
ApplySummary(p) ==
    /\ msgs' = Append(msgs, [Message(produced + 1, "assistant") EXCEPT !.replaces = p])
    /\ produced' = produced + 1

-----------------------------------------------------------------------------
(* recordMessage: the recorder creates its file with the first message. *)

Record(new) ==
    IF new = <<>> THEN UNCHANGED diskVars
    ELSE /\ rec' = IF rec = 0 THEN Len(files) + 1 ELSE rec
         /\ files' = IF rec = 0 THEN Append(files, new)
                                ELSE [files EXCEPT ![rec] = @ \o new]
         /\ latest' = rec'

Init ==
    /\ msgs = <<>> /\ mode = "chat"
    /\ plan = {} /\ asked = 0 /\ answers = {} /\ applied = {}
    /\ files = <<>> /\ latest = 0 /\ rec = 0
    /\ produced = 0 /\ setup \in Setups

\* submit: the message joins the history, is recorded, and the turn starts.
Submit ==
    /\ mode = "chat"
    /\ produced < setup.messages
    /\ LET user == Message(produced + 1, "user")
       IN  /\ msgs' = Append(msgs, user)
           /\ Record(<<user>>)
    /\ produced' = produced + 1
    /\ mode' = "busy"
    /\ UNCHANGED compVars

\* Mutant: recording begins one message too early.
MutEndTurn ==
    /\ mode = "busy"
    /\ \E turn \in Turns :
          /\ produced + Len(turn) <= setup.messages
          /\ msgs' = msgs \o FromTurn(turn)
          /\ Record(<<msgs[Len(msgs)]>> \o FromTurn(turn))
          /\ produced' = produced + Len(turn)
    /\ mode' = "chat"
    /\ UNCHANGED compVars

\* finishTurn and finishAgentTurn: what the turn produced, message by message.
EndTurn ==
    /\ mode = "busy"
    /\ \E turn \in Turns :
          /\ produced + Len(turn) <= setup.messages
          /\ msgs' = msgs \o FromTurn(turn)
          /\ Record(FromTurn(turn))
          /\ produced' = produced + Len(turn)
    /\ mode' = "chat"
    /\ UNCHANGED compVars

-----------------------------------------------------------------------------
(* Commands. *)

\* runRetry: the trailing assistant message goes, and the turn starts again.
Retry ==
    /\ "retry" \in setup.commands
    /\ mode = "chat"
    /\ msgs # <<>>
    /\ msgs' = IF msgs[Len(msgs)].role = "assistant"
               THEN SubSeq(msgs, 1, Len(msgs) - 1) ELSE msgs
    /\ mode' = IF \E k \in DOMAIN msgs' : msgs'[k].role = "user" THEN "busy" ELSE "chat"
    /\ UNCHANGED <<compVars, diskVars, produced>>

\* /new: a blank conversation; the recorder is not told.
NewConversation ==
    /\ "new" \in setup.commands
    /\ mode = "chat"
    /\ msgs # <<>>
    /\ msgs' = <<>>
    /\ UNCHANGED <<mode, compVars, diskVars, produced>>

\* applySessionChosen: the conversation of a file; the recorder is not told.
ResumeChosen ==
    /\ "resume" \in setup.commands
    /\ mode = "chat"
    /\ \E id \in DOMAIN files : msgs' = files[id]
    /\ UNCHANGED <<mode, compVars, diskVars, produced>>

\* The program ends, at rest or in a turn, and starts again: with --resume on
\* the file written last, otherwise on nothing.
Restart ==
    /\ "restart" \in setup.commands
    /\ msgs # <<>>
    /\ \/ /\ latest # 0
          /\ rec' = latest
          /\ msgs' = files[latest]
       \/ /\ rec' = 0
          /\ msgs' = <<>>
    /\ mode' = "chat"
    /\ plan' = {} /\ answers' = {}
    /\ UNCHANGED <<files, latest, produced, asked, applied>>

-----------------------------------------------------------------------------
(* Compaction. *)

\* startCompact, from /compact, the end of a turn or the swap dialog.
StartCompact ==
    /\ "compact" \in setup.commands
    /\ mode = "chat"
    /\ PlanCompact(msgs) # {}
    /\ asked < setup.compactions /\ produced < setup.messages
    /\ asked' = asked + 1
    /\ \/ /\ setup.instant
          /\ ApplySummary(PlanCompact(msgs))
          /\ UNCHANGED <<mode, plan, answers>>
       \/ /\ ~setup.instant
          /\ plan' = PlanCompact(msgs)
          /\ answers' = answers \cup {asked'}
          /\ mode' = "compact"
          /\ UNCHANGED <<msgs, produced>>
    /\ UNCHANGED <<diskVars, applied>>

\* cancelCompact: back to the chat; the goroutine still sends its answer.
CancelCompact ==
    /\ "cancel" \in setup.commands
    /\ mode = "compact"
    /\ mode' = "chat"
    /\ plan' = {}
    /\ UNCHANGED <<msgs, asked, answers, diskVars, produced, applied>>

\* compactDoneMsg: dropped outside ModeCompact, otherwise taken for the answer
\* to the compaction on the screen.
CompactDone ==
    \E a \in answers :
        /\ answers' = answers \ {a}
        /\ \/ /\ mode # "compact"
              /\ UNCHANGED <<msgs, mode, plan, produced, applied>>
           \/ /\ mode = "compact"
              /\ mode' = "chat"
              /\ plan' = {}
              /\ applied' = applied \cup {<<asked, a>>}
              /\ \/ ApplySummary(plan)                 \* a summary, or the marker
                 \/ /\ ~setup.dropOnError                    \* a notice
                    /\ UNCHANGED <<msgs, produced>>
        /\ UNCHANGED <<asked, diskVars>>

\* applyDropOldest, "switch and cut the oldest turns": as many messages from
\* the front as do not fit the other model's window.
DropOldest ==
    /\ "switch" \in setup.commands
    /\ mode = "chat"
    /\ produced < setup.messages
    /\ \E k \in DOMAIN msgs : ApplySummary(1..k)
    /\ UNCHANGED <<mode, compVars, diskVars>>

Step ==
    \/ Submit \/ EndTurn \/ Restart
    \/ Retry \/ NewConversation \/ ResumeChosen
    \/ StartCompact \/ CancelCompact \/ CompactDone \/ DropOldest

Next == Step /\ UNCHANGED setup

Spec == Init /\ [][Next]_vars

-----------------------------------------------------------------------------
TypeOK ==
    /\ msgs \in Seq(Messages)
    /\ mode \in {"chat", "busy", "compact"}
    /\ plan \subseteq DOMAIN msgs /\ asked \in Nat
    /\ answers \subseteq 1..asked
    /\ applied \subseteq (1..asked) \X (1..asked)
    /\ files \in Seq(Seq(Messages))
    /\ latest \in 0..Len(files) /\ rec \in 0..Len(files)
    /\ produced \in Nat

IsSummary(m) == m.replaces # {}

\* A model never receives a reply without its call, nor a complete call
\* without its reply: what counting turns instead of messages is for.
ToolPairsTravel ==
    \A k \in DOMAIN msgs :
        /\ msgs[k].role = "tool" =>
              (k \in Active(msgs) => \E c \in Active(msgs) : msgs[c].n = msgs[k].to)
        /\ msgs[k].calls /\ ~msgs[k].cut =>
              (k \in Active(msgs) => \E r \in Active(msgs) : msgs[r].to = msgs[k].n)

\* No compaction takes one of the last KeepTurns questions out of the context,
\* however many there were and whatever was retried in between.
LastTurnsKept ==
    LET questions == {k \in DOMAIN msgs : msgs[k].role = "user"}
    IN  \A q \in questions :
            Cardinality({p \in questions : p >= q}) <= KeepTurns => q \in Active(msgs)

\* A message is in one summary at most: summaries neither overlap nor forget.
SummarisedOnce ==
    \A j, k \in DOMAIN msgs : j # k => msgs[j].replaces \cap msgs[k].replaces = {}

\* What a compaction may do (convo/compact.go:7-96), over any mixture of late
\* answers, retries, resumes and restarts; the cut of the swap dialog, which
\* ignores turns and earlier summaries, is the exception (convo/compact.go:108).
CompactionCoherent ==
    "switch" \notin setup.commands => ToolPairsTravel /\ LastTurnsKept /\ SummarisedOnce

\* Every message is recorded in one file, once, in the order it was said,
\* over any mixture of retries, resumes and restarts.
RecordedOnce ==
    /\ \A id \in DOMAIN files : \A j, k \in DOMAIN files[id] :
          j < k => files[id][j].n < files[id][k].n
    /\ \A a, b \in DOMAIN files : a # b =>
          {files[a][k].n : k \in DOMAIN files[a]} \cap
          {files[b][k].n : k \in DOMAIN files[b]} = {}
    /\ \A k \in DOMAIN msgs : ~IsSummary(msgs[k]) =>
          \E id \in DOMAIN files : \E j \in DOMAIN files[id] : files[id][j] = msgs[k]

\* An answer is applied to the compaction it was asked for.
StaleAnswersDropped == \A a \in applied : a[1] = a[2]
=============================================================================
