------------------------------- MODULE Serve -------------------------------
(* The websocket door, app/serve.go over wsproto/wsproto.go. Each connection *)
(* has a goroutine that reads it, at most one that runs a turn, and an idle  *)
(* timer; all of them write to the socket under the connection's mutex, and  *)
(* a write has no deadline: one to a peer that no longer reads may wait, with *)
(* the mutex, until the connection is closed. A signal closes every tracked  *)
(* connection, one after the other, and then ends the program.               *)
EXTENDS Naturals, FiniteSets

CONSTANTS
    Conns,        \* connections clients may open
    MaxSessions,  \* [serve] max_sessions, 0 for none
    Idle,         \* is there an idle_timeout_s
    MaxPrompts,   \* per connection, turns its client may start
    MaxRequests,  \* permissions and answers one turn asks for
    MaxFaults     \* bound: bad messages, broken connections, peers that stop reading

ASSUME ServeAssumption ==
    MaxSessions \in Nat /\ Idle \in BOOLEAN /\ MaxPrompts \in [Conns -> Nat] /\ MaxRequests \in Nat /\ MaxFaults \in Nat
ASSUME ConnsAssumption == IsFiniteSet(Conns)

VARIABLES
    faults,
    server,     \* "up", "closing" (closeAll has connsMu), "down"
    toClose,    \* what closeAll has still to close
    active,     \* activeSessions
    tracked,    \* conns
    conn,       \* "out", "upgrading", "open", "closed", "refused"
    reader,     \* per connection: where run() is
    closeSent,  \* Conn.closed
    framer,     \* who is inside Close's writeFrame, "none" for nobody
    stuck,      \* whose write holds the mutex for want of a reader
    listening,  \* the peer reads what it is sent
    armed,      \* the idle timer is running
    cancelled,  \* sess.ctx is done
    turnActive,
    turn,       \* per connection and prompt: where runTurn is
    asked,      \* requests this turn has made
    nextId,
    seen,       \* requests the client has been sent, and their ids
    reply,      \* what is in a request's channel: the request the client meant
    used        \* <<request, what the answer was meant for>> (history)

connVars == <<conn, reader, closeSent, framer, stuck, listening, armed, cancelled>>
turnVars == <<turnActive, turn, asked, nextId, seen, reply, used>>
doorVars == <<server, toClose, active, tracked>>
vars == <<faults, doorVars, connVars, turnVars>>

Prompts(c) == 1..MaxPrompts[c]
None == <<0, 0>>
Nobody == "none"

Init ==
    /\ faults = 0
    /\ server = "up" /\ toClose = {} /\ active = 0 /\ tracked = {}
    /\ conn = [c \in Conns |-> "out"]
    /\ reader = [c \in Conns |-> "none"]
    /\ closeSent = [c \in Conns |-> FALSE]
    /\ framer = [c \in Conns |-> Nobody]
    /\ stuck = [c \in Conns |-> Nobody]
    /\ listening = [c \in Conns |-> TRUE]
    /\ armed = [c \in Conns |-> Idle]
    /\ cancelled = [c \in Conns |-> FALSE]
    /\ turnActive = [c \in Conns |-> FALSE]
    /\ turn = [c \in Conns |-> [k \in Prompts(c) |-> "none"]]
    /\ asked = [c \in Conns |-> [k \in Prompts(c) |-> 0]]
    /\ nextId = [c \in Conns |-> 0]
    /\ seen = [c \in Conns |-> {}]
    /\ reply = [c \in Conns |-> [k \in Prompts(c) |-> None]]
    /\ used = {}

Running == server # "down"
Set(f, c, v) == [f EXCEPT ![c] = v]
At(c, k, step) == turn[c][k] = step
Goto(c, k, step) == turn' = [turn EXCEPT ![c][k] = step]

-----------------------------------------------------------------------------
(* Writing. A frame goes out, or fails on a closed connection, which the    *)
(* sender does not notice; or it gets stuck, and "who" stays where it is.    *)
MayWrite(c) == stuck[c] = Nobody
Stall(c, who) ==
    /\ stuck[c] = Nobody /\ conn[c] = "open" /\ ~listening[c]
    /\ stuck' = Set(stuck, c, who)

Unstick(c) ==
    /\ Running /\ stuck[c] # Nobody /\ conn[c] = "closed"
    /\ stuck' = Set(stuck, c, Nobody)
    /\ UNCHANGED <<doorVars, conn, reader, closeSent, framer, listening, armed, cancelled, turnVars>>

-----------------------------------------------------------------------------
(* ServeHTTP. connsMu is held by closeAll while it closes.                   *)
Locked == server = "closing"

\* Mutant: the slots are compared with the limit and none is taken.
MutConnect(c) ==
    /\ server = "up" /\ conn[c] = "out"
    /\ conn' = Set(conn, c, IF MaxSessions > 0 /\ active >= MaxSessions THEN "refused" ELSE "upgrading")
    /\ UNCHANGED <<doorVars, reader, closeSent, framer, stuck, listening, armed, cancelled, turnVars>>

Connect(c) ==
    /\ server # "down" /\ conn[c] = "out"
    /\ \/ /\ MaxSessions > 0 /\ active >= MaxSessions
          /\ conn' = Set(conn, c, "refused") /\ UNCHANGED active
       \/ /\ MaxSessions > 0 => active < MaxSessions
          /\ conn' = Set(conn, c, "upgrading")
          /\ active' = IF MaxSessions > 0 THEN active + 1 ELSE active
    /\ UNCHANGED <<server, toClose, tracked, reader, closeSent, framer, stuck, listening, armed, cancelled, turnVars>>

Freed == IF MaxSessions > 0 THEN active - 1 ELSE active

Upgrade(c) ==
    /\ Running /\ conn[c] = "upgrading"
    /\ \/ /\ conn' = Set(conn, c, "open") /\ reader' = Set(reader, c, "track") /\ UNCHANGED active
       \/ /\ conn' = Set(conn, c, "refused") /\ active' = Freed /\ UNCHANGED reader
    /\ UNCHANGED <<server, toClose, tracked, closeSent, framer, stuck, listening, armed, cancelled, turnVars>>

Track(c) ==
    /\ Running /\ ~Locked /\ reader[c] = "track"
    /\ tracked' = tracked \cup {c}
    /\ reader' = Set(reader, c, "hello")
    /\ UNCHANGED <<server, toClose, active, conn, closeSent, framer, stuck, listening, armed, cancelled, turnVars>>

(* The greeting and the error events that the reading goroutine sends.       *)
Write(c) ==
    /\ Running /\ reader[c] \in {"hello", "error"} /\ MayWrite(c)
    /\ \/ reader' = Set(reader, c, "reading") /\ UNCHANGED stuck
       \/ Stall(c, "reader") /\ UNCHANGED reader
    /\ UNCHANGED <<doorVars, conn, closeSent, framer, listening, armed, cancelled, turnVars>>

-----------------------------------------------------------------------------
(* What run() reads. Anything that is no prompt and no answer costs an error *)
(* event; an answer that names nothing pending is dropped.                   *)
Reading(c) == Running /\ reader[c] = "reading" /\ conn[c] = "open"
Rearm(c) == armed' = Set(armed, c, Idle)

BadMessage(c) ==
    /\ Reading(c) /\ Rearm(c)
    /\ reader' = Set(reader, c, "error")
    /\ UNCHANGED <<doorVars, conn, closeSent, framer, stuck, listening, cancelled, turnVars>>

\* Mutant: a prompt is started whatever the flag says.
MutPrompt(c, k) ==
    /\ Reading(c) /\ Rearm(c) /\ At(c, k, "none") /\ \A j \in 1..(k - 1) : ~At(c, j, "none")
    /\ turnActive' = Set(turnActive, c, TRUE)
    /\ Goto(c, k, "resolve")
    /\ UNCHANGED <<doorVars, conn, reader, closeSent, framer, stuck, listening, cancelled, asked, nextId, seen, reply, used>>

(* handlePrompt: a prompt takes the flag; one that finds it taken is a bad    *)
(* message.                                                                 *)
Prompt(c, k) ==
    /\ Reading(c) /\ Rearm(c) /\ At(c, k, "none") /\ \A j \in 1..(k - 1) : ~At(c, j, "none")
    /\ ~turnActive[c]
    /\ turnActive' = Set(turnActive, c, TRUE)
    /\ Goto(c, k, "resolve")
    /\ UNCHANGED <<doorVars, conn, reader, closeSent, framer, stuck, listening, cancelled, asked, nextId, seen, reply, used>>

(* resolvePending, resolveAskPending: the first answer with the id of a      *)
(* request that waits fills its channel.                                    *)
Answer(c, q) ==
    /\ Reading(c) /\ Rearm(c) /\ q \in seen[c]
    /\ \E k \in Prompts(c) :
        /\ turn[c][k] \in {"send", "wait"} /\ reply[c][k] = None
        /\ \E p \in seen[c] : p.request = <<k, asked[c][k]>> /\ p.id = q.id
        /\ reply' = [reply EXCEPT ![c][k] = q.request]
    /\ UNCHANGED <<doorVars, conn, reader, closeSent, framer, stuck, listening, cancelled, turnActive, turn, asked, nextId,
                   seen, used>>

(* The peer's close frame is answered with one before ReadMessage returns.   *)
PeerCloses(c) ==
    /\ Reading(c)
    /\ reader' = Set(reader, c, "echo")
    /\ UNCHANGED <<doorVars, conn, closeSent, framer, stuck, listening, armed, cancelled, turnVars>>

Echo(c) ==
    /\ Running /\ reader[c] = "echo" /\ MayWrite(c)
    /\ \/ /\ closeSent' = Set(closeSent, c, TRUE) /\ reader' = Set(reader, c, "leave") /\ UNCHANGED stuck
       \/ Stall(c, "reader") /\ UNCHANGED <<closeSent, reader>>
    /\ UNCHANGED <<doorVars, conn, framer, listening, armed, cancelled, turnVars>>

ReadFails(c) ==
    /\ Running /\ reader[c] = "reading" /\ conn[c] = "closed"
    /\ reader' = Set(reader, c, "leave")
    /\ UNCHANGED <<doorVars, conn, closeSent, framer, stuck, listening, armed, cancelled, turnVars>>

\* Mutant: the context of the connection is not cancelled.
MutLeave(c) ==
    /\ Running /\ reader[c] = "leave"
    /\ reader' = Set(reader, c, "untrack")
    /\ UNCHANGED <<doorVars, conn, closeSent, framer, stuck, listening, armed, cancelled, turnVars>>

(* The deferred calls of run() and ServeHTTP: cancel, untrack, Close, and    *)
(* the slot is given back.                                                  *)
Leave(c) ==
    /\ Running /\ reader[c] = "leave"
    /\ cancelled' = Set(cancelled, c, TRUE)
    /\ reader' = Set(reader, c, "untrack")
    /\ UNCHANGED <<doorVars, conn, closeSent, framer, stuck, listening, armed, turnVars>>

Untrack(c) ==
    /\ Running /\ ~Locked /\ reader[c] = "untrack"
    /\ tracked' = tracked \ {c}
    /\ reader' = Set(reader, c, "close")
    /\ UNCHANGED <<server, toClose, active, conn, closeSent, framer, stuck, listening, armed, cancelled, turnVars>>

(* Close. The first caller writes a close frame, which takes the mutex; a    *)
(* later one goes straight to the socket. "Closing" is who may call it.      *)
Closing(c, who) ==
    \/ who = "reader" /\ reader[c] = "close"
    \/ who = "timer" /\ armed[c] /\ reader[c] \in {"reading", "error", "echo"}
    \/ who = "signal" /\ Locked /\ c \in toClose

\* Mutant: whoever closes the connection gives the slot back.
MutClosed(c, who) ==
    /\ conn' = Set(conn, c, "closed")
    /\ active' = Freed
    /\ reader' = IF who = "reader" THEN Set(reader, c, "gone") ELSE reader
    /\ toClose' = IF who = "signal" THEN toClose \ {c} ELSE toClose

(* What the caller does once its Close has returned.                         *)
Closed(c, who) ==
    /\ conn' = Set(conn, c, "closed")
    /\ \/ who = "reader" /\ reader' = Set(reader, c, "gone") /\ active' = Freed /\ UNCHANGED toClose
       \/ who = "signal" /\ toClose' = toClose \ {c} /\ UNCHANGED <<reader, active>>
       \/ who = "timer" /\ UNCHANGED <<reader, active, toClose>>

CloseStarts(c, who) ==
    /\ Running /\ Closing(c, who) /\ (who = "timer" \/ framer[c] # who)
    /\ armed' = IF who = "timer" THEN Set(armed, c, FALSE) ELSE armed
    /\ \/ /\ closeSent[c]
          /\ Closed(c, who) /\ UNCHANGED <<closeSent, framer>>
       \/ /\ ~closeSent[c]
          /\ closeSent' = Set(closeSent, c, TRUE) /\ framer' = Set(framer, c, who)
          /\ UNCHANGED <<conn, reader, active, toClose>>
    /\ UNCHANGED <<server, tracked, stuck, listening, cancelled, turnVars>>

CloseFrame(c) ==
    /\ Running /\ framer[c] # Nobody /\ MayWrite(c)
    /\ \/ /\ framer' = Set(framer, c, Nobody) /\ Closed(c, framer[c])
          /\ UNCHANGED stuck
       \/ /\ Stall(c, "close")
          /\ UNCHANGED <<framer, conn, reader, active, toClose>>
    /\ UNCHANGED <<server, tracked, closeSent, listening, armed, cancelled, turnVars>>

-----------------------------------------------------------------------------
(* The goroutine of a turn. resolveModel and ensureSession, then the meta    *)
(* event; the engine, whose tools may ask; the replay of the events, the     *)
(* records, and "done"; last the flag. A failed resolution sends an error    *)
(* and no "done". History and records are AgentLoop's and SessionStore's.     *)
Resolve(c, k) ==
    /\ Running /\ At(c, k, "resolve")
    /\ Goto(c, k, "meta") \/ Goto(c, k, "fail")
    /\ UNCHANGED <<doorVars, connVars, turnActive, asked, nextId, seen, reply, used>>

After(step) == CASE step = "meta" -> "work" [] step = "replay" -> "done" [] OTHER -> "reset"

TurnSends(c, k) ==
    /\ Running /\ turn[c][k] \in {"meta", "fail", "replay", "done"} /\ MayWrite(c)
    /\ \/ Goto(c, k, After(turn[c][k])) /\ UNCHANGED stuck
       \/ Stall(c, "turn") /\ UNCHANGED turn
    /\ UNCHANGED <<doorVars, conn, reader, closeSent, framer, listening, armed, cancelled, turnActive,
                   asked, nextId, seen, reply, used>>

\* Mutant: the ids start again with every turn.
MutNewId(c, k) == asked[c][k] + 1

(* newRequestID, newAskRequestID: permissions and questions have a counter,   *)
(* a table and a message each, of one shape; the model has one of them.      *)
NewId(c, k) == nextId[c] + 1

(* Review and Ask: registered, then sent, then waited for.                   *)
Request(c, k) ==
    /\ Running /\ At(c, k, "work") /\ asked[c][k] < MaxRequests
    /\ asked' = [asked EXCEPT ![c][k] = @ + 1]
    /\ nextId' = Set(nextId, c, nextId[c] + 1)
    /\ seen' = [seen EXCEPT ![c] = @ \cup
                 {[request |-> <<k, asked[c][k] + 1>>, id |-> NewId(c, k)]}]
    /\ reply' = [reply EXCEPT ![c][k] = None]
    /\ Goto(c, k, "send")
    /\ UNCHANGED <<doorVars, connVars, turnActive, used>>

SendRequest(c, k) ==
    /\ Running /\ At(c, k, "send") /\ MayWrite(c)
    /\ \/ Goto(c, k, "wait") /\ UNCHANGED stuck
       \/ Stall(c, "turn") /\ UNCHANGED turn
    /\ UNCHANGED <<doorVars, conn, reader, closeSent, framer, listening, armed, cancelled, turnActive,
                   asked, nextId, seen, reply, used>>

(* The select: the answer, or the context.                                  *)
Reply(c, k) ==
    /\ Running /\ At(c, k, "wait")
    /\ \/ /\ reply[c][k] # None
          /\ used' = used \cup {<<<<k, asked[c][k]>>, reply[c][k]>>}
       \/ cancelled[c] /\ UNCHANGED used
    /\ Goto(c, k, "work")
    /\ reply' = [reply EXCEPT ![c][k] = None]
    /\ UNCHANGED <<doorVars, connVars, turnActive, asked, nextId, seen>>

(* The engine returns: provider and tools have answered, or noticed that the *)
(* context is done.                                                         *)
WorkEnds(c, k) ==
    /\ Running /\ At(c, k, "work")
    /\ Goto(c, k, "replay")
    /\ UNCHANGED <<doorVars, connVars, turnActive, asked, nextId, seen, reply, used>>

Reset(c, k) ==
    /\ Running /\ At(c, k, "reset")
    /\ turnActive' = Set(turnActive, c, FALSE)
    /\ Goto(c, k, "over")
    /\ UNCHANGED <<doorVars, connVars, asked, nextId, seen, reply, used>>

-----------------------------------------------------------------------------
(* The signal: closeAll takes connsMu and closes what is tracked; then the   *)
(* listener goes and the program ends, with every goroutine in it.           *)
Signal ==
    /\ server = "up"
    /\ server' = "closing" /\ toClose' = tracked
    /\ UNCHANGED <<active, tracked, connVars, turnVars>>

Exit ==
    /\ server = "closing" /\ toClose = {}
    /\ server' = "down"
    /\ UNCHANGED <<toClose, active, tracked, connVars, turnVars>>

(* The peer's machine: it may stop reading, or its connection may break.     *)
StopsListening(c) ==
    /\ Running /\ conn[c] = "open" /\ listening[c]
    /\ listening' = Set(listening, c, FALSE)
    /\ UNCHANGED <<doorVars, conn, reader, closeSent, framer, stuck, armed, cancelled, turnVars>>

Breaks(c) ==
    /\ Running /\ conn[c] = "open"
    /\ conn' = Set(conn, c, "closed")
    /\ UNCHANGED <<doorVars, reader, closeSent, framer, stuck, listening, armed, cancelled, turnVars>>

Client(c) ==
    \/ Connect(c)
    \/ \E k \in Prompts(c) : Prompt(c, k)
    \/ \E q \in seen[c] : Answer(c, q)
    \/ PeerCloses(c)

Fault(c) ==
    /\ faults < MaxFaults /\ faults' = faults + 1
    /\ BadMessage(c) \/ StopsListening(c) \/ Breaks(c)

Handler(c) ==
    \/ Upgrade(c) \/ Track(c) \/ Write(c) \/ Echo(c) \/ ReadFails(c) \/ Leave(c) \/ Untrack(c)
    \/ CloseStarts(c, "reader")

Turn(c, k) ==
    \/ Resolve(c, k) \/ TurnSends(c, k)
    \/ Request(c, k) \/ SendRequest(c, k) \/ Reply(c, k)
    \/ WorkEnds(c, k) \/ Reset(c, k)

Closers(c) == CloseStarts(c, "timer") \/ CloseStarts(c, "signal") \/ CloseFrame(c) \/ Unstick(c)

Server ==
    UNCHANGED faults /\ (Exit \/ \E c \in Conns : Handler(c) \/ Closers(c) \/ \E k \in Prompts(c) : Turn(c, k))

Next ==
    \/ Server
    \/ \E c \in Conns : Fault(c) \/ (Client(c) /\ UNCHANGED faults)
    \/ Signal /\ UNCHANGED faults

Spec == Init /\ [][Next]_vars

(* Goroutines run and timers fire; no client and no signal is obliged.       *)
FairSpec == Spec /\ WF_vars(Server)

-----------------------------------------------------------------------------
TypeOK ==
    /\ server \in {"up", "closing", "down"} /\ toClose \subseteq tracked /\ tracked \subseteq Conns
    /\ active \in 0..Cardinality(Conns)
    /\ \A c \in Conns :
        /\ conn[c] \in {"out", "upgrading", "open", "closed", "refused"}
        /\ reader[c] \in {"none", "track", "hello", "reading", "error", "echo", "leave", "untrack", "close", "gone"}
        /\ framer[c] # Nobody => closeSent[c]
        /\ stuck[c] # Nobody => ~listening[c]

(* Every way out of ServeHTTP gives its slot back, once: the count is that   *)
(* of the sessions there are, and never above max_sessions (serve.go:201).   *)
HoldsSlot(c) == conn[c] = "upgrading" \/ reader[c] \notin {"none", "gone"}
SlotsCounted ==
    MaxSessions > 0 =>
        /\ active = Cardinality({c \in Conns : HoldsSlot(c)})
        /\ active <= MaxSessions

(* One turn at a time on a connection, whatever prompts arrive while one     *)
(* begins, runs, asks or ends: two would race on its history (handlePrompt). *)
Live(c) == {k \in Prompts(c) : turn[c][k] \notin {"none", "over"}}
OneTurn == \A c \in Conns : Cardinality(Live(c)) <= 1 /\ (Live(c) # {} <=> turnActive[c])

(* Both counts, of the sessions of a server and of the turns of a session.   *)
CountsHold == SlotsCounted /\ OneTurn

(* An answer decides the request it was given for, however late or often the *)
(* client sends it (registerPending, newRequestID).                         *)
AnswersFit == \A u \in used : u[1] = u[2]

(* When the reading goroutine has left, the turn ends too, though nobody is  *)
(* there to answer what it asks (sess.cancel); and a signal ends the program *)
(* (closeAll). Both for clients that read what they are sent.                *)
Settled ==
    /\ server # "closing"
    /\ server = "up" => \A c \in Conns : reader[c] \in {"leave", "untrack", "close", "gone"} => Live(c) = {}
AllListen == \A c \in Conns : listening[c]
ConnectionsEnd == []AllListen => []<>Settled

(* An idle_timeout_s frees the slot of a caller that vanished (schema.go:485).*)
IdleFrees ==
    Idle => \A c \in Conns : (conn[c] = "open" /\ ~listening[c]) ~> (conn[c] = "closed" \/ server = "down")
=============================================================================
