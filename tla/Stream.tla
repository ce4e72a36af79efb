------------------------------- MODULE Stream -------------------------------
(* An answer on its way from the provider to the screen: the scanner of an   *)
(* event stream (sse.go of each provider), the decoders of the four dialects *)
(* (stream.go, responses.go), the bounded channel they write to, the engine  *)
(* that reads it (engine.go run, and the same loop of agentloop.go), the     *)
(* buffer it fills (streambuf.go) and the ticks that empty it (drainStream). *)
(* The user may cancel at any moment, and the connection may end anywhere.   *)
EXTENDS Naturals, Sequences, FiniteSets, SequencesExt

CONSTANTS
    Dialects,     \* of "chat", "messages", "generate", "responses"
    Styles,       \* how a chat provider names a call: "index", "id", "bare"
    EventBuffer,  \* room of the channel
    MaxPieces     \* bound: pieces of content in an answer

ASSUME StreamAssumption ==
    /\ Dialects \subseteq {"chat", "messages", "generate", "responses"} /\ Styles \subseteq {"index", "id", "bare"}
    /\ EventBuffer \in Nat \ {0} /\ MaxPieces \in Nat

VARIABLES
    dialect, style,
    sent,       \* what the provider has sent, in order (history)
    said,       \* "more", "whole" once the answer is complete, "failed" (history)
    line,       \* the event that is there and whose blank line is not
    decoder,    \* where the decoding goroutine is, and what it has to emit
    calls,      \* toolAccumulator, or the open blocks
    marked,     \* sawDone, sawFinish
    usage,      \* the usage a decoder keeps for the end
    chan,
    got,        \* the calls the agent loop takes from the channel
    err,        \* turnErr
    buf,        \* StreamBuf
    live,       \* what the screen shows of the answer
    answer,     \* how the turn ended, "none" before
    cancelled

protocol == <<dialect, style>>
wire     == <<sent, said, line>>
decoding == <<decoder, calls, marked, usage>>
reading  == <<chan, got, err, buf>>
screen   == <<live, answer>>
streamVars == <<protocol, wire, decoding, reading, screen, cancelled>>

NoEvent == [kind |-> "none", n |-> 0, call |-> 0]
EmptyBuf == [text |-> <<>>, thoughts |-> <<>>, usage |-> 0, done |-> FALSE, verdict |-> "none"]
At(step) == decoder.at = step
Reading == [at |-> "reading", out |-> <<>>, then |-> "read", flush |-> FALSE]

StreamInit ==
    /\ dialect \in Dialects /\ style \in Styles
    /\ dialect # "chat" => style = "index"
    /\ sent = <<>> /\ said = "more" /\ line = NoEvent
    /\ decoder = Reading /\ calls = <<>> /\ marked = FALSE /\ usage = 0
    /\ chan = <<>> /\ got = <<>> /\ err = "none" /\ buf = EmptyBuf
    /\ live = [text |-> <<>>, thoughts |-> <<>>, usage |-> 0] /\ answer = "none"
    /\ cancelled = FALSE

-----------------------------------------------------------------------------
(* The provider. A piece of content is known by its place in what was sent. *)

Serial == Len(sent) + 1
Places(P) == FlattenSeq([k \in DOMAIN sent |-> IF k \in P THEN <<k>> ELSE <<>>])
Made == [c \in {sent[k].call : k \in DOMAIN sent} \ {0} |-> Places({k \in DOMAIN sent : sent[k].call = c})]
NewCall == Cardinality(DOMAIN Made) + 1

Content == [chat |-> {"text", "thought", "usage"}, messages |-> {"text", "usage"},
            generate |-> {"text", "thought", "usage"}, responses |-> {"text", "thought"}]
Ends == [chat |-> {"finish", "stop", "error", "fault"}, messages |-> {"stop", "error"},
         generate |-> {"finish", "error"}, responses |-> {"error"}]

(* Calls may be interleaved when each fragment says whose it is.             *)
MayContinue(c) == CASE dialect = "chat" -> style = "bare" => c = NewCall - 1
                    [] dialect = "messages" -> \E k \in 1..Len(calls): calls[k].index = c
                    [] OTHER -> FALSE
CallsToSay == IF dialect = "responses" THEN {} ELSE {NewCall} \cup {c \in DOMAIN Made: MayContinue(c)}

Events ==
    [kind: Content[dialect], n: {Serial}, call: {0}]
      \cup [kind: {"call"}, n: {Serial}, call: CallsToSay]
      \cup [kind: Ends[dialect] \cup {"junk"}, n: {0}, call: {0}]
      \cup [kind: IF dialect = "messages" THEN {"close"} ELSE {}, n: {0}, call: {calls[k].index: k \in DOMAIN calls}]
      \cup [kind: IF dialect = "responses" THEN {"stop"} ELSE {}, n: {0, Serial}, call: {0}]

(* Content comes first; a usage report may follow what ends the text.        *)
Legal(ev) ==
    /\ ev.n > 0 => Serial <= MaxPieces
    /\ said = "whole" => ev.kind \in {"usage", "stop", "junk"}
    /\ ev.kind = "stop" => dialect # "messages" \/ calls = <<>>

Say ==
    /\ At("reading") /\ line = NoEvent /\ said # "failed"
    /\ \E ev \in Events:
          /\ Legal(ev)
          /\ line' = ev
          /\ sent' = IF ev.n = 0 THEN sent
                     ELSE Append(sent, [kind |-> IF ev.kind = "stop" THEN "usage" ELSE ev.kind, call |-> ev.call])
          /\ said' = CASE ev.kind \in {"finish", "stop"} -> "whole"
                       [] ev.kind \in {"error", "fault"} -> "failed"
                       [] OTHER -> said
    /\ UNCHANGED <<protocol, decoding, reading, screen, cancelled>>

-----------------------------------------------------------------------------
(* The decoders. Each says what it emits and what it does once that is out:  *)
(* read on, or end with a verdict.                                           *)

One(kind, n) == <<[kind |-> kind, n |-> n]>>
Called(c) == [kind |-> "call", n |-> c.args]

(* The end of the goroutine: the error, unless cancelled, then done.         *)
Ending(verdict) ==
    [at |-> "ending", then |-> verdict, flush |-> FALSE,
     out |-> (IF verdict = "complete" \/ cancelled THEN <<>> ELSE One("error", verdict)) \o One("done", 0)]

Then(next) == IF next = "read" THEN Reading ELSE Ending(next)

EmitThen(out, next) ==
    decoder' = IF out = <<>> THEN Then(next)
               ELSE [at |-> "emitting", out |-> out, then |-> next, flush |-> FALSE]

(* toolAccumulator: by index if there is one, else by id, else a fragment    *)
(* with a name begins a call and one without continues the last.             *)
Fragment(ev) ==
    LET first == Made[ev.call][1] = ev.n IN
    [index |-> IF style = "index" THEN ev.call ELSE 0,
     id |-> IF style = "id" \/ (style = "index" /\ first) THEN ev.call ELSE 0,
     named |-> first, arg |-> ev.n]

\* Mutant: an anonymous fragment always continues the last call.
MutSlot(f) ==
    CASE f.index # 0 -> {k \in DOMAIN calls: calls[k].index = f.index}
      [] f.index = 0 /\ f.id # 0 -> {k \in DOMAIN calls: calls[k].id = f.id}
      [] OTHER -> {Len(calls)} \ {0}

Slot(f) ==
    CASE f.index # 0 -> {k \in DOMAIN calls: calls[k].index = f.index}
      [] f.index = 0 /\ f.id # 0 -> {k \in DOMAIN calls: calls[k].id = f.id}
      [] OTHER -> IF f.named THEN {} ELSE {Len(calls)} \ {0}

Accumulate(f) ==
    calls' = IF Slot(f) = {} THEN Append(calls, [index |-> f.index, id |-> f.id, args |-> <<f.arg>>])
             ELSE LET k == CHOOSE k \in Slot(f): TRUE
                  IN [calls EXCEPT ![k].args = Append(@, f.arg), ![k].id = IF f.id # 0 THEN f.id ELSE @]

FlushThen(next) ==
    decoder' = IF calls = <<>> THEN Then(next)
               ELSE [at |-> "emitting", out |-> [k \in DOMAIN calls |-> Called(calls[k])], then |-> next, flush |-> TRUE]

Keep == UNCHANGED <<calls, marked, usage>>
Pass(ev) == EmitThen(One(ev.kind, ev.n), "read") /\ Keep

Chat(ev) ==
    \/ ev.kind \in {"text", "thought", "usage"} /\ Pass(ev)
    \/ ev.kind = "call" /\ Accumulate(Fragment(ev)) /\ UNCHANGED <<decoder, marked, usage>>
    \/ ev.kind = "finish" /\ FlushThen("read") /\ marked' = TRUE /\ UNCHANGED <<calls, usage>>
    \/ ev.kind = "stop" /\ FlushThen("complete") /\ Keep
    \/ ev.kind = "error" /\ FlushThen("error") /\ Keep
    \/ ev.kind = "fault" /\ EmitThen(<<>>, "error") /\ Keep

Block(c) == CHOOSE k \in DOMAIN calls: calls[k].index = c
WithoutBlock(c) == IF \E k \in DOMAIN calls: calls[k].index = c THEN RemoveAt(calls, Block(c)) ELSE calls

Messages(ev) ==
    \/ ev.kind = "text" /\ Pass(ev)
    \/ ev.kind = "usage" /\ usage' = ev.n /\ UNCHANGED <<decoder, calls, marked>>
    \/ /\ ev.kind = "call"
       /\ calls' = IF Made[ev.call][1] = ev.n
                   THEN Append(WithoutBlock(ev.call), [index |-> ev.call, id |-> ev.call, args |-> <<ev.n>>])
                   ELSE [calls EXCEPT ![Block(ev.call)].args = Append(@, ev.n)]
       /\ UNCHANGED <<decoder, marked, usage>>
    \/ /\ ev.kind = "close"
       /\ EmitThen(<<Called(calls[Block(ev.call)])>>, "read")
       /\ calls' = WithoutBlock(ev.call)
       /\ UNCHANGED <<marked, usage>>
    \/ ev.kind = "stop" /\ EmitThen(IF usage = 0 THEN <<>> ELSE One("usage", usage), "complete") /\ Keep
    \/ ev.kind = "error" /\ EmitThen(<<>>, "error") /\ Keep

Generate(ev) ==
    \/ ev.kind \in {"text", "thought"} /\ Pass(ev)
    \/ ev.kind = "usage" /\ usage' = ev.n /\ UNCHANGED <<decoder, calls, marked>>
    \/ ev.kind = "call" /\ EmitThen(<<Called([args |-> <<ev.n>>])>>, "read") /\ Keep
    \/ ev.kind = "finish" /\ marked' = TRUE /\ UNCHANGED <<decoder, calls, usage>>
    \/ ev.kind = "error" /\ EmitThen(<<>>, "error") /\ Keep

Responses(ev) ==
    \/ ev.kind \in {"text", "thought"} /\ Pass(ev)
    \/ ev.kind = "stop" /\ EmitThen(IF ev.n = 0 THEN <<>> ELSE One("usage", ev.n), "complete") /\ Keep
    \/ ev.kind = "error" /\ EmitThen(<<>>, "error") /\ Keep

(* The blank line that ends an event: the decoder gets it.                   *)
Dispatch ==
    /\ At("reading") /\ line # NoEvent
    /\ line' = NoEvent
    /\ \/ line.kind = "junk" /\ UNCHANGED decoding
       \/ dialect = "chat" /\ Chat(line)
       \/ dialect = "messages" /\ Messages(line)
       \/ dialect = "generate" /\ Generate(line)
       \/ dialect = "responses" /\ Responses(line)
    /\ UNCHANGED <<protocol, sent, said, reading, screen, cancelled>>

(* The body ends: properly, within an event, or by an error (a line too long, *)
(* a lost connection, the request cancelled).                                *)
EndOfBody == IF line # NoEvent THEN "truncated"
             ELSE IF dialect \in {"chat", "generate"} /\ marked THEN "complete" ELSE "truncated"

BodyEnds ==
    /\ At("reading")
    /\ \E verdict \in {EndOfBody, "broken"}:
          CASE dialect = "chat" -> FlushThen(verdict)
            [] dialect = "generate" /\ verdict = "complete" /\ usage # 0 -> EmitThen(One("usage", usage), verdict)
            [] OTHER -> EmitThen(<<>>, verdict)
    /\ line' = NoEvent
    /\ UNCHANGED <<protocol, sent, said, calls, marked, usage, reading, screen, cancelled>>

(* emit: the event goes into the channel, or the context is done. In the     *)
(* reading of an answer that ends it; in flush and at the end it is skipped. *)
\* Mutant: there is always room in the channel.
MutSent1 ==
    /\ chan' = Append(chan, Head(decoder.out))
    /\ decoder' = IF Len(decoder.out) > 1 THEN [decoder EXCEPT !.out = Tail(@)]
                  ELSE IF At("ending") THEN [decoder EXCEPT !.at = "closed", !.out = <<>>] ELSE Then(decoder.then)
    /\ calls' = IF decoder.flush /\ Len(decoder.out) = 1 THEN <<>> ELSE calls

Sent1 ==
    /\ Len(chan) < EventBuffer
    /\ chan' = Append(chan, Head(decoder.out))
    /\ IF Len(decoder.out) > 1
       THEN decoder' = [decoder EXCEPT !.out = Tail(@)] /\ UNCHANGED calls
       ELSE /\ decoder' = IF At("ending") THEN [decoder EXCEPT !.at = "closed", !.out = <<>>] ELSE Then(decoder.then)
            /\ calls' = IF decoder.flush THEN <<>> ELSE calls

Skipped ==
    /\ cancelled
    /\ decoder' = IF At("ending") /\ Len(decoder.out) > 1 THEN [decoder EXCEPT !.out = Tail(@)]
                  ELSE IF At("ending") THEN [decoder EXCEPT !.at = "closed", !.out = <<>>]
                  ELSE IF decoder.flush THEN Then(decoder.then)
                  ELSE Ending("broken")
    /\ UNCHANGED <<chan, calls>>

Emit ==
    /\ decoder.at \in {"emitting", "ending"}
    /\ Sent1 \/ Skipped
    /\ UNCHANGED <<protocol, wire, marked, usage, got, err, buf, screen, cancelled>>

-----------------------------------------------------------------------------
(* engine.go run: everything until the channel is closed, then one verdict.  *)
Receive ==
    /\ chan # <<>>
    /\ LET ev == Head(chan) IN
       /\ buf' = CASE ev.kind = "text" -> [buf EXCEPT !.text = Append(@, ev.n)]
                   [] ev.kind = "thought" -> [buf EXCEPT !.thoughts = Append(@, ev.n)]
                   [] ev.kind = "usage" -> [buf EXCEPT !.usage = ev.n]
                   [] OTHER -> buf
       /\ got' = IF ev.kind = "call" THEN Append(got, ev.n) ELSE got
       /\ err' = IF ev.kind = "error" /\ err = "none" THEN ev.n ELSE err
    /\ chan' = Tail(chan)
    /\ UNCHANGED <<protocol, wire, decoding, screen, cancelled>>

Verdict == IF cancelled THEN "cancelled" ELSE IF err # "none" THEN err ELSE "complete"

Finish ==
    /\ At("closed") /\ chan = <<>> /\ ~buf.done
    /\ buf' = [buf EXCEPT !.done = TRUE, !.verdict = Verdict]
    /\ UNCHANGED <<protocol, wire, decoding, chan, got, err, screen, cancelled>>

(* streamTickMsg: what is in the buffer goes to the screen; a turn that is   *)
(* done ends with all of it there.                                           *)

Drain ==
    /\ answer = "none"
    /\ live' = [text |-> live.text \o buf.text, thoughts |-> live.thoughts \o buf.thoughts,
                usage |-> IF buf.usage # 0 THEN buf.usage ELSE live.usage]
    /\ buf' = [buf EXCEPT !.text = <<>>, !.thoughts = <<>>]
    /\ answer' = IF buf.done THEN buf.verdict ELSE "none"
    /\ UNCHANGED <<protocol, wire, decoding, chan, got, err, cancelled>>

Cancel ==
    /\ answer = "none" /\ ~cancelled
    /\ cancelled' = TRUE
    /\ UNCHANGED <<protocol, wire, decoding, reading, screen>>

StreamNext == Say \/ Dispatch \/ BodyEnds \/ Emit \/ Receive \/ Finish \/ Drain \/ Cancel

-----------------------------------------------------------------------------
Numbers == 1..MaxPieces
StreamTypeOK ==
    /\ dialect \in Dialects /\ style \in Styles
    /\ \A k \in DOMAIN sent: sent[k].kind \in {"text", "thought", "usage", "call"} /\ sent[k].call \in 0..MaxPieces
    /\ Len(sent) <= MaxPieces /\ said \in {"more", "whole", "failed"}
    /\ decoder.at \in {"reading", "emitting", "ending", "closed"}
    /\ decoder.then \in {"read", "complete", "truncated", "broken", "error"}
    /\ decoder.at \in {"emitting", "ending"} <=> decoder.out # <<>>
    /\ marked \in BOOLEAN /\ usage \in {0} \cup Numbers
    /\ Len(chan) <= EventBuffer
    /\ err \in {"none", "truncated", "broken", "error"}
    /\ answer \in {"none", "complete", "cancelled", "truncated", "broken", "error"}
    /\ cancelled \in BOOLEAN

Numbered(kind, seq) == FlattenSeq([k \in DOMAIN seq |-> IF seq[k].kind = kind THEN <<seq[k].n>> ELSE <<>>])
SentOf(kind) == Places({k \in DOMAIN sent : sent[k].kind = kind})
OnItsWay(kind, there) == there \o Numbered(kind, chan \o decoder.out \o <<[kind |-> line.kind, n |-> Len(sent)]>>)

(* What is on the screen and behind it on its way is what the provider sent, *)
(* in its order, without a gap or a repetition, whatever ended the answer;    *)
(* unless it was cancelled at most the event that was cut in two is missing.  *)
InOrder ==
    \A kind \in {"text", "thought"}:
       LET there == OnItsWay(kind, live[IF kind = "text" THEN kind ELSE "thoughts"] \o
                                   buf[IF kind = "text" THEN kind ELSE "thoughts"])
       IN /\ IsPrefix(there, SentOf(kind))
          /\ ~cancelled => Len(SentOf(kind)) <= Len(there) + 1

(* An answer that is reported as complete is: the provider said that it was  *)
(* all, all of its text and its last usage are on the screen, and the agent  *)
(* loop has each of its calls once, with all the fragments of that call and  *)
(* of no other. An answer the provider failed, and one it never finished, are *)
(* not reported as complete.                                                 *)
WholeAnswer ==
    answer = "complete" =>
       /\ said = "whole"
       /\ live.text = SentOf("text") /\ live.thoughts = SentOf("thought")
       /\ SentOf("usage") # <<>> => live.usage = Last(SentOf("usage"))
       /\ ToSet(got) = {Made[c]: c \in DOMAIN Made} /\ Len(got) = Cardinality(DOMAIN Made)

(* Both: what the person reads is what the provider said, and the verdict    *)
(* on it is the provider's (openai/stream.go, engine/engine.go:50).          *)
AnswerFaithful == InOrder /\ WholeAnswer
=============================================================================
