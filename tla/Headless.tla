------------------------------ MODULE Headless ------------------------------
(* The door without a screen (app/headless.go, app/sink.go): one prompt, the *)
(* answer on stdout as it arrives, an exit code for the script that called.  *)
(* The answer comes through Stream, which also has the door with the screen. *)
(* With tools the last request of the loop is here and AgentLoop has the     *)
(* others; app/agentturn.go prints and saves once the loop is over.          *)
EXTENDS Stream

CONSTANTS
    Ways,           \* doors, and the options they are opened with
    LineDialects,   \* bound: dialects of the answers a door without a screen gets
    MaxRetries      \* app.max_retries

ASSUME HeadlessAssumption ==
    /\ MaxRetries \in Nat /\ LineDialects \subseteq Dialects
    /\ Ways \subseteq [door : {"screen", "text", "json"}, tools : BOOLEAN, save : BOOLEAN,
                       quiet : BOOLEAN, reasoning : BOOLEAN]

VARIABLES
    way, phase, tries,
    store,          \* the session is open
    lines,          \* what was printed, of either stream
    stored,         \* the answers in the session
    code            \* exit code, -1 while it runs

ending == <<lines, stored, code>>
headless == <<way, phase, tries, store, ending>>
hvars == <<streamVars, headless>>

HInit ==
    /\ StreamInit
    /\ way \in Ways /\ (way.door # "screen" => dialect \in LineDialects)
    /\ phase = IF way.door = "screen" THEN "screen" ELSE "starting"
    /\ tries = 0 /\ store = FALSE /\ lines = <<>> /\ stored = <<>> /\ code = -1

(* The two sinks: what each of them leaves out.                              *)
Silent(kind) ==
    /\ way.door = "text"
    /\ \/ kind \in {"meta", "usage", "done"}
       \/ kind = "warning" /\ way.quiet
       \/ kind = "thought" /\ ~way.reasoning
Emits(items) ==
    lines' = lines \o FlattenSeq([k \in DOMAIN items |-> IF Silent(items[k].kind) THEN <<>> ELSE <<items[k]>>])
Warning(unless) == IF unless THEN <<>> ELSE One("warning", 0)
Items(kind, ns) == [k \in DOMAIN ns |-> [kind |-> kind, n |-> ns[k]]]

(* Headless up to the request: no prompt, no provider, or a session that     *)
(* cannot be opened or written, which is a warning.                          *)
Start ==
    /\ phase = "starting"
    /\ \/ \E c \in {1, 2} : phase' = "exited" /\ code' = c /\ Emits(One("error", 0)) /\ UNCHANGED store
       \/ \E opens, writes \in BOOLEAN :
             /\ phase' = "asking" /\ store' = (way.save /\ opens)
             /\ Emits(Warning(way.save => opens) \o One("meta", 0) \o Warning(store' => writes))
             /\ UNCHANGED code
    /\ UNCHANGED <<streamVars, way, tries, stored>>

\* Mutant: a request that a cancellation ends is reported by nobody.
MutConnect ==
    /\ phase = "asking" /\ ~cancelled
    /\ \/ phase' = "streaming" /\ UNCHANGED <<answer, tries, lines>>
       \/ phase' = "closing" /\ answer' = "error" /\ UNCHANGED <<tries, lines>>
    /\ UNCHANGED <<protocol, wire, decoding, reading, live, cancelled, way, store, stored, code>>

(* What a handshake comes to: 200, or an error that says whether to try      *)
(* again. 408, 409, 425, 429, 5xx, and a connection that failed: yes.              *)
Handshakes == {"opens", "retryable", "refused"}

(* The handshake of runTurn, and open of the engine.                         *)
Connect ==
    /\ phase = "asking"
    /\ \E reply \in Handshakes :
          \/ ~cancelled /\ reply = "opens" /\ phase' = "streaming" /\ UNCHANGED <<answer, tries, lines>>
          \/ /\ ~cancelled /\ reply = "retryable" /\ tries < MaxRetries
             /\ phase' = "waiting" /\ tries' = tries + 1 /\ Emits(One("warning", tries')) /\ UNCHANGED answer
          \/ /\ ~cancelled /\ (reply = "refused" \/ (reply = "retryable" /\ tries = MaxRetries))
             /\ phase' = "closing" /\ answer' = "error" /\ UNCHANGED <<tries, lines>>
          \/ cancelled /\ reply # "opens" /\ phase' = "closing" /\ answer' = "cancelled" /\ UNCHANGED <<tries, lines>>
    /\ UNCHANGED <<protocol, wire, decoding, reading, live, cancelled, way, store, stored, code>>

(* The timer, or the cancellation: both may be ready.                        *)
Wait ==
    /\ phase = "waiting"
    /\ \/ phase' = "asking" /\ UNCHANGED answer
       \/ cancelled /\ phase' = "closing" /\ answer' = "cancelled"
    /\ UNCHANGED <<protocol, wire, decoding, reading, live, cancelled, way, tries, store, ending>>

Streaming == phase = "streaming" /\ UNCHANGED headless
SayLine == Streaming /\ Say /\ (way.tools => line'.kind # "call")
DispatchLine == Streaming /\ Dispatch
BodyEndsLine == Streaming /\ BodyEnds
EmitLine == Streaming /\ Emit

(* runTurn: each event goes into the message and to the sink.                *)
ReceiveLine ==
    /\ phase = "streaming" /\ ~way.tools /\ chan # <<>>
    /\ LET ev == Head(chan) IN
       /\ live' = CASE ev.kind = "text" -> [live EXCEPT !.text = Append(@, ev.n)]
                    [] ev.kind = "thought" -> [live EXCEPT !.thoughts = Append(@, ev.n)]
                    [] ev.kind = "usage" -> [live EXCEPT !.usage = ev.n]
                    [] OTHER -> live
       /\ got' = IF ev.kind = "call" THEN Append(got, ev.n) ELSE got
       /\ err' = IF ev.kind = "error" /\ err = "none" THEN ev.n ELSE err
       /\ IF ev.kind \in {"text", "thought", "usage", "call"} THEN Emits(<<ev>>) ELSE UNCHANGED lines
    /\ chan' = Tail(chan)
    /\ UNCHANGED <<protocol, wire, decoding, buf, answer, cancelled, way, phase, tries, store, stored, code>>

EndLine ==
    /\ phase = "streaming" /\ ~way.tools /\ At("closed") /\ chan = <<>>
    /\ answer' = Verdict /\ phase' = "closing"
    /\ UNCHANGED <<protocol, wire, decoding, reading, live, cancelled, way, tries, store, ending>>

(* runAgentTurnHeadless: the engine reads the stream (Receive); then what    *)
(* it added to the history is printed and saved. A request that failed adds  *)
(* nothing, and one cancelled before any text adds nothing either.           *)
AgentReceive == Streaming /\ way.tools /\ Receive

Answered(text, aborted) == [text |-> text, aborted |-> aborted]
AgentTurn ==
    LET adds == IF cancelled THEN buf.text # <<>> ELSE err = "none" /\ buf.text \o buf.thoughts # <<>>
    IN  /\ phase = "streaming" /\ way.tools /\ At("closed") /\ chan = <<>>
        /\ live' = [text |-> buf.text, thoughts |-> buf.thoughts, usage |-> buf.usage]
        /\ buf' = EmptyBuf /\ answer' = Verdict /\ phase' = "closing"
        /\ \E writes \in BOOLEAN :
              /\ stored' = IF adds /\ store /\ writes THEN Append(stored, Answered(buf.text, cancelled)) ELSE stored
              /\ Emits((IF adds THEN Items("thought", buf.thoughts) \o Items("text", buf.text) \o Warning(store => writes) ELSE <<>>)
                       \o (IF buf.usage = 0 THEN <<>> ELSE One("usage", buf.usage)))
        /\ UNCHANGED <<protocol, wire, decoding, chan, got, err, cancelled, way, tries, store, code>>

\* Mutant: the answer is saved as it came, and then found to be cancelled.
MutClose ==
    /\ phase = "closing" /\ phase' = "exited"
    /\ stored' = IF store /\ ~way.tools /\ live.text # <<>> THEN Append(stored, Answered(live.text, FALSE)) ELSE stored
    /\ Emits((IF answer \in {"complete", "cancelled"} THEN <<>> ELSE One("error", 0)) \o One("done", 0))
    /\ code' = IF cancelled THEN 130 ELSE IF answer = "complete" THEN 0 ELSE 1
    /\ UNCHANGED <<streamVars, way, tries, store>>

(* The end of Headless: what was cancelled until here counts as cancelled.   *)
Close ==
    LET saves == store /\ ~way.tools /\ (live.text \o live.thoughts \o got # <<>> \/ cancelled)
    IN  /\ phase = "closing" /\ phase' = "exited"
        /\ \E writes \in BOOLEAN :
              /\ stored' = IF saves /\ writes THEN Append(stored, Answered(live.text, cancelled)) ELSE stored
              /\ Emits(Warning(saves => writes)
                       \o (IF answer \in {"complete", "cancelled"} THEN <<>> ELSE One("error", 0)) \o One("done", 0))
        /\ code' = IF cancelled THEN 130 ELSE IF answer = "complete" THEN 0 ELSE 1
        /\ UNCHANGED <<streamVars, way, tries, store>>

(* SIGINT or SIGTERM.                                                        *)
Signal ==
    /\ phase \in {"asking", "waiting", "streaming", "closing"} /\ ~cancelled /\ cancelled' = TRUE
    /\ UNCHANGED <<protocol, wire, decoding, reading, screen, headless>>

Screen(action) == phase = "screen" /\ action /\ UNCHANGED headless
HNext ==
    \/ Screen(StreamNext)
    \/ Start \/ Connect \/ Wait \/ SayLine \/ DispatchLine \/ BodyEndsLine \/ EmitLine
    \/ ReceiveLine \/ EndLine \/ AgentReceive \/ AgentTurn \/ Close \/ Signal

(* The goroutines run, the clock ticks, and what is cancelled ends: a        *)
(* handshake, a wait, a request. No provider is obliged to say anything.     *)
HFairSpec ==
    /\ HInit /\ [][HNext]_hvars
    /\ WF_hvars(Screen(Dispatch)) /\ WF_hvars(Screen(Emit)) /\ WF_hvars(Screen(Receive))
    /\ WF_hvars(Screen(Finish)) /\ WF_hvars(Screen(Drain)) /\ WF_hvars(Screen(cancelled /\ BodyEnds))
    /\ WF_hvars(DispatchLine) /\ WF_hvars(EmitLine) /\ WF_hvars(ReceiveLine) /\ WF_hvars(AgentReceive)
    /\ WF_hvars(EndLine) /\ WF_hvars(AgentTurn) /\ WF_hvars(Close) /\ WF_hvars(Wait)
    /\ WF_hvars(cancelled /\ BodyEndsLine) /\ WF_hvars(cancelled /\ Connect)

-----------------------------------------------------------------------------
(* Types of both modules.                                                    *)
HTypeOK ==
    /\ StreamTypeOK
    /\ phase \in {"screen", "starting", "asking", "waiting", "streaming", "closing", "exited"}
    /\ tries \in 0..MaxRetries /\ store \in BOOLEAN /\ code \in {-1, 0, 1, 2, 130}
    /\ code # -1 <=> phase = "exited"
    /\ \A m \in ToSet(stored) : m.aborted \in BOOLEAN

Printed(kind) == Numbered(kind, lines)
Warned == Printed("warning") # <<>> \/ (way.door = "text" /\ way.quiet)

(* app/headless.go and app/sink.go: a script may believe the exit code.  *)
(* 0 means that the whole answer of the provider is on stdout, that no error *)
(* was printed and that, unless the person was warned or asked for silence,  *)
(* the answer is in the session; 1 and 2 mean one error; 130 means that a    *)
(* signal came, and then what a plain turn saved says that it was cut.       *)
ExitTells ==
    phase = "exited" =>
        /\ code = 0 =>
              /\ answer = "complete" /\ Printed("text") = SentOf("text") /\ Printed("error") = <<>>
              /\ way.save /\ ~Warned /\ SentOf("text") # <<>> => Answered(SentOf("text"), FALSE) \in ToSet(stored)
        /\ code \in {1, 2} => Len(Printed("error")) = 1 /\ answer # "complete"
        /\ code = 130 => cancelled /\ (~way.tools => \A m \in ToSet(stored) : m.aborted)
        /\ ~way.tools /\ answer # "none" => Printed("text") = live.text
        /\ way.door = "json" /\ answer # "none" => Last(lines).kind = "done" /\ Len(Printed("done")) = 1

(* A cancelled turn ends, wherever the cancellation found the goroutines,    *)
(* and the program without a screen with it.                                 *)
ProgramSettles == cancelled ~> (answer # "none" /\ phase \in {"screen", "exited"})

(* engine/agentloop.go:479-481: what arrived before a failure is returned    *)
(* "so the caller can show what arrived before the failure".                 *)
PartialShown == phase = "exited" /\ way.tools /\ answer # "none" => Printed("text") = live.text
=============================================================================
