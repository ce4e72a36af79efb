---------------------------- MODULE ServeProofs ----------------------------
(* What the websocket door keeps count of, for every set of connections,     *)
(* every max_sessions and any number of prompts: slots, and turns.           *)
EXTENDS Serve, FiniteSetTheorems, TLAPS

Holders == {c \in Conns : HoldsSlot(c)}
IsLive(c, k) == turn[c][k] \notin {"none", "over"}

(* The variables the counts rest on are functions of the connections.        *)
Shape ==
    /\ DOMAIN conn = Conns /\ DOMAIN reader = Conns /\ DOMAIN framer = Conns
    /\ DOMAIN turn = Conns /\ DOMAIN turnActive = Conns
    /\ \A c \in Conns : DOMAIN turn[c] = Prompts(c)

(* A connection has a reading goroutine from its upgrade on; whoever may     *)
(* close it found one; and a close frame of the reader's is its last act.    *)
Roles ==
    /\ \A c \in Conns :
        /\ conn[c] \in {"out", "upgrading", "refused"} <=> reader[c] = "none"
        /\ framer[c] # Nobody => reader[c] # "none"
        /\ framer[c] = "reader" => reader[c] = "close"
    /\ \A c \in tracked \cup toClose : c \in Conns /\ reader[c] # "none"

SlotInv ==
    /\ IsFiniteSet(Holders)
    /\ active \in Nat
    /\ MaxSessions > 0 => active = Cardinality(Holders) /\ active <= MaxSessions

TurnInv ==
    \A c \in Conns :
        /\ \A j, k \in Prompts(c) : IsLive(c, j) /\ IsLive(c, k) => j = k
        /\ turnActive[c] = (\E k \in Prompts(c) : IsLive(c, k))

CountInv == Shape /\ Roles /\ SlotInv /\ TurnInv

LEMMA CountInit == Init => CountInv
<1> SUFFICES ASSUME Init PROVE CountInv
  OBVIOUS
<1>1. Shape
  BY DEF Init, Shape
<1>2. Roles
  BY DEF Init, Roles, Nobody
<1>3. Holders = {}
  BY DEF Init, Holders, HoldsSlot
<1>4. SlotInv
  BY <1>3, FS_EmptySet, ServeAssumption DEF SlotInv, Init
<1>5. TurnInv
  BY DEF Init, TurnInv, IsLive
<1> QED
  BY <1>1, <1>2, <1>4, <1>5 DEF CountInv

-----------------------------------------------------------------------------
(* Steps that touch only one side.                                          *)
doorSide == <<conn, reader, framer, active, tracked, toClose>>
turnSide == <<turn, turnActive>>

LEMMA DoorSideKept ==
    ASSUME CountInv, UNCHANGED doorSide
    PROVE  /\ Roles' /\ SlotInv'
           /\ (DOMAIN conn = Conns /\ DOMAIN reader = Conns /\ DOMAIN framer = Conns)'
BY DEF CountInv, Shape, Roles, SlotInv, Holders, HoldsSlot, doorSide

LEMMA TurnSideKept ==
    ASSUME CountInv, UNCHANGED turnSide
    PROVE  /\ TurnInv'
           /\ (DOMAIN turn = Conns /\ DOMAIN turnActive = Conns)'
           /\ \A c \in Conns : DOMAIN turn'[c] = Prompts(c)
BY DEF CountInv, Shape, TurnInv, IsLive, turnSide

\* Both sides kept.
LEMMA BothKept ==
    ASSUME CountInv, UNCHANGED doorSide, UNCHANGED turnSide
    PROVE  CountInv'
BY DoorSideKept, TurnSideKept DEF CountInv, Shape

(* A turn that moves on without ending, and one that ends, under its flag.   *)
LEMMA TurnMoves ==
    ASSUME CountInv, UNCHANGED doorSide, UNCHANGED turnActive,
           NEW c \in Conns, NEW k \in Prompts(c), NEW step, IsLive(c, k),
           step \notin {"none", "over"},
           Goto(c, k, step)
    PROVE  CountInv'
<1>1. /\ DOMAIN turn' = Conns
      /\ \A d \in Conns : DOMAIN turn'[d] = Prompts(d)
      /\ \A d \in Conns : \A j \in Prompts(d) :
            turn'[d][j] = IF d = c /\ j = k THEN step ELSE turn[d][j]
  BY DEF CountInv, Shape, Goto
<1>2. \A d \in Conns : \A j \in Prompts(d) : IsLive(d, j)' <=> IsLive(d, j)
  BY <1>1 DEF IsLive
<1>3. TurnInv'
  BY <1>2 DEF CountInv, TurnInv
<1> QED
  BY <1>1, <1>3, DoorSideKept DEF CountInv, Shape

(* A connection that takes a slot, one that gives it back, one that neither. *)
LEMMA SlotTaken ==
    ASSUME SlotInv, NEW c \in Conns, Holders' = Holders \cup {c}, c \notin Holders,
           MaxSessions > 0 => active < MaxSessions,
           active' = IF MaxSessions > 0 THEN active + 1 ELSE active
    PROVE  SlotInv'
<1>1. IsFiniteSet(Holders') /\ Cardinality(Holders') = Cardinality(Holders) + 1
  BY FS_AddElement DEF SlotInv
<1> QED
  BY <1>1, ServeAssumption DEF SlotInv

LEMMA SlotGiven ==
    ASSUME SlotInv, NEW c \in Conns, Holders' = Holders \ {c}, c \in Holders,
           active' = Freed
    PROVE  SlotInv'
<1>1. IsFiniteSet(Holders') /\ Cardinality(Holders') = Cardinality(Holders) - 1
  BY FS_RemoveElement DEF SlotInv
<1>2. Cardinality(Holders) \in Nat /\ Cardinality(Holders') \in Nat
  BY <1>1, FS_CardinalityType DEF SlotInv
<1> QED
  BY <1>1, <1>2, ServeAssumption DEF SlotInv, Freed

LEMMA SlotKept ==
    ASSUME SlotInv, Holders' = Holders, active' = active
    PROVE  SlotInv'
BY DEF SlotInv

(* A Close that has returned: the reader's own gives the slot back.          *)
LEMMA CloseReturns ==
    ASSUME CountInv, NEW c \in Conns, NEW who, Closed(c, who), UNCHANGED tracked,
           reader[c] # "none", who = "reader" => reader[c] = "close",
           framer' = framer \/ framer' = Set(framer, c, Nobody),
           framer' = framer => framer[c] # "reader" \/ who # "reader"
    PROVE  /\ Roles' /\ SlotInv'
           /\ (DOMAIN conn = Conns /\ DOMAIN reader = Conns /\ DOMAIN framer = Conns)'
<1>1. conn' = Set(conn, c, "closed") /\ Shape /\ Roles /\ SlotInv
  BY DEF Closed, CountInv
<1>2. /\ DOMAIN conn' = Conns /\ DOMAIN framer' = Conns
      /\ conn'[c] = "closed" /\ \A d \in Conns : d # c => conn'[d] = conn[d]
  BY <1>1 DEF Shape, Set
<1>3. \A d \in Conns : framer'[d] # Nobody =>
          framer'[d] = framer[d] /\ (d = c => framer[c] # "reader" \/ who # "reader")
  BY <1>1 DEF Shape, Set
<1>4. CASE who = "reader"
  <2>1. reader' = Set(reader, c, "gone") /\ active' = Freed /\ toClose' = toClose
    BY <1>4 DEF Closed
  <2>2. /\ DOMAIN reader' = Conns
        /\ reader'[c] = "gone" /\ \A d \in Conns : d # c => reader'[d] = reader[d]
    BY <1>1, <2>1 DEF Shape, Set
  <2>3. Roles'
    BY <1>1, <1>2, <1>3, <1>4, <2>1, <2>2 DEF Roles, Nobody
  <2>4. c \in Holders /\ Holders' = Holders \ {c}
    BY <1>1, <1>2, <1>4, <2>2 DEF Roles, Holders, HoldsSlot
  <2> QED
    BY <1>1, <1>2, <2>1, <2>2, <2>3, <2>4, SlotGiven
<1>5. CASE who # "reader"
  <2>1. reader' = reader /\ active' = active /\ toClose' \subseteq toClose
    BY <1>5 DEF Closed
  <2>2. Roles'
    BY <1>1, <1>2, <1>3, <1>5, <2>1 DEF Roles, Nobody
  <2>3. Holders' = Holders
    BY <1>1, <1>2, <2>1 DEF Roles, Holders, HoldsSlot
  <2> QED
    BY <1>1, <1>2, <2>1, <2>2, <2>3, SlotKept DEF Shape
<1> QED
  BY <1>4, <1>5

\* The reader goes from one step of its work to another.
LEMMA ReaderMoves ==
    ASSUME CountInv, NEW c \in Conns, NEW from, NEW to, reader[c] = from,
           reader' = reader \/ reader' = Set(reader, c, to),
           from \notin {"none", "gone", "close"}, to \notin {"none", "gone"},
           UNCHANGED <<conn, framer, active, toClose>>, UNCHANGED turnSide,
           tracked' \subseteq tracked \cup {c}
    PROVE  CountInv'
<1>0. Shape /\ Roles /\ SlotInv
  BY DEF CountInv
<1>1. DOMAIN reader' = Conns /\ reader'[c] \in {from, to} /\ \A d \in Conns : d # c => reader'[d] = reader[d]
  BY <1>0 DEF Shape, Set
<1>2. Roles'
  BY <1>0, <1>1 DEF Roles, Nobody
<1>3. Holders' = Holders
  BY <1>1 DEF Holders, HoldsSlot
<1> QED
  BY <1>0, <1>1, <1>2, <1>3, SlotKept, TurnSideKept DEF CountInv, Shape, turnSide

-----------------------------------------------------------------------------
(* Every step keeps both counts.                                            *)
LEMMA CountStep == CountInv /\ [Next]_vars => CountInv'
<1> SUFFICES ASSUME CountInv, [Next]_vars PROVE CountInv'
  OBVIOUS
<1> USE DEF doorSide, turnSide
<1>0. Shape /\ Roles /\ SlotInv /\ TurnInv
  BY DEF CountInv
<1>1. ASSUME NEW c \in Conns, Connect(c) PROVE CountInv'
  <2>1. conn[c] = "out" /\ reader[c] = "none" /\ c \notin Holders
    BY <1>0, <1>1 DEF Connect, Roles, Holders, HoldsSlot
  <2>2. UNCHANGED <<reader, framer, tracked, toClose>> /\ UNCHANGED turnSide
    BY <1>1 DEF Connect, turnVars
  <2>3. CASE conn' = Set(conn, c, "refused") /\ UNCHANGED active
    <3>1. DOMAIN conn' = Conns /\ conn'[c] = "refused" /\ \A d \in Conns : d # c => conn'[d] = conn[d]
      BY <1>0, <2>3 DEF Shape, Set
    <3>2. Roles'
      BY <1>0, <2>1, <2>2, <3>1 DEF Roles
    <3>3. Holders' = Holders
      BY <2>1, <2>2, <3>1 DEF Holders, HoldsSlot
    <3> QED
      BY <1>0, <2>2, <2>3, <3>1, <3>2, <3>3, SlotKept, TurnSideKept DEF CountInv, Shape
  <2>4. CASE /\ MaxSessions > 0 => active < MaxSessions
             /\ conn' = Set(conn, c, "upgrading")
             /\ active' = IF MaxSessions > 0 THEN active + 1 ELSE active
    <3>1. DOMAIN conn' = Conns /\ conn'[c] = "upgrading" /\ \A d \in Conns : d # c => conn'[d] = conn[d]
      BY <1>0, <2>4 DEF Shape, Set
    <3>2. Roles'
      BY <1>0, <2>1, <2>2, <3>1 DEF Roles
    <3>3. Holders' = Holders \cup {c}
      BY <2>1, <2>2, <3>1 DEF Holders, HoldsSlot
    <3> QED
      BY <1>0, <2>1, <2>2, <2>4, <3>1, <3>2, <3>3, SlotTaken, TurnSideKept DEF CountInv, Shape
  <2> QED
    BY <1>1, <2>3, <2>4 DEF Connect
<1>2. ASSUME NEW c \in Conns, Upgrade(c) PROVE CountInv'
  <2>1. conn[c] = "upgrading" /\ reader[c] = "none" /\ c \in Holders
    BY <1>0, <1>2 DEF Upgrade, Roles, Holders, HoldsSlot
  <2>2. UNCHANGED <<framer, tracked, toClose>> /\ UNCHANGED turnSide
    BY <1>2 DEF Upgrade, turnVars
  <2>3. CASE conn' = Set(conn, c, "open") /\ reader' = Set(reader, c, "track") /\ UNCHANGED active
    <3>1. /\ DOMAIN conn' = Conns /\ conn'[c] = "open" /\ \A d \in Conns : d # c => conn'[d] = conn[d]
          /\ DOMAIN reader' = Conns /\ reader'[c] = "track" /\ \A d \in Conns : d # c => reader'[d] = reader[d]
      BY <1>0, <2>3 DEF Shape, Set
    <3>2. Roles'
      BY <1>0, <2>1, <2>2, <3>1 DEF Roles, Nobody
    <3>3. Holders' = Holders
      BY <2>1, <3>1 DEF Holders, HoldsSlot
    <3> QED
      BY <1>0, <2>2, <2>3, <3>1, <3>2, <3>3, SlotKept, TurnSideKept DEF CountInv, Shape
  <2>4. CASE conn' = Set(conn, c, "refused") /\ active' = Freed /\ UNCHANGED reader
    <3>1. DOMAIN conn' = Conns /\ conn'[c] = "refused" /\ \A d \in Conns : d # c => conn'[d] = conn[d]
      BY <1>0, <2>4 DEF Shape, Set
    <3>2. Roles'
      BY <1>0, <2>1, <2>2, <2>4, <3>1 DEF Roles
    <3>3. Holders' = Holders \ {c}
      BY <2>1, <2>4, <3>1 DEF Holders, HoldsSlot
    <3> QED
      BY <1>0, <2>1, <2>2, <2>4, <3>1, <3>2, <3>3, SlotGiven, TurnSideKept DEF CountInv, Shape
  <2> QED
    BY <1>2, <2>3, <2>4 DEF Upgrade
<1>3. ASSUME NEW c \in Conns, Track(c) PROVE CountInv'
  BY <1>3, ReaderMoves DEF Track, turnVars
<1>4. ASSUME NEW c \in Conns, Write(c) PROVE CountInv'
  BY <1>4, ReaderMoves DEF Write, doorVars, turnVars
<1>5. ASSUME NEW c \in Conns, BadMessage(c) PROVE CountInv'
  BY <1>5, ReaderMoves DEF BadMessage, Reading, doorVars, turnVars
<1>6. ASSUME NEW c \in Conns, PeerCloses(c) PROVE CountInv'
  BY <1>6, ReaderMoves DEF PeerCloses, Reading, doorVars, turnVars
<1>7. ASSUME NEW c \in Conns, Echo(c) PROVE CountInv'
  <2>1. reader[c] = "echo" /\ (reader' = reader \/ reader' = Set(reader, c, "leave"))
    BY <1>7 DEF Echo
  <2>2. UNCHANGED <<conn, framer, active, toClose, tracked>> /\ UNCHANGED turnSide
    BY <1>7 DEF Echo, doorVars, turnVars
  <2> QED
    BY <2>1, <2>2, ReaderMoves
<1>8. ASSUME NEW c \in Conns, ReadFails(c) PROVE CountInv'
  BY <1>8, ReaderMoves DEF ReadFails, doorVars, turnVars
<1>9. ASSUME NEW c \in Conns, Leave(c) PROVE CountInv'
  BY <1>9, ReaderMoves DEF Leave, doorVars, turnVars
<1>10. ASSUME NEW c \in Conns, Untrack(c) PROVE CountInv'
  BY <1>10, ReaderMoves DEF Untrack, turnVars
<1>11. ASSUME NEW c \in Conns, NEW who \in {"reader", "timer", "signal"}, CloseStarts(c, who) PROVE CountInv'
  <2>1. reader[c] # "none" /\ (who = "reader" => reader[c] = "close" /\ framer[c] # "reader")
    BY <1>0, <1>11 DEF CloseStarts, Closing, Roles
  <2>2. UNCHANGED tracked /\ UNCHANGED turnSide
    BY <1>11 DEF CloseStarts, turnVars
  <2>3. CASE Closed(c, who) /\ UNCHANGED framer
    BY <2>1, <2>2, <2>3, CloseReturns, TurnSideKept DEF CountInv, Shape
  <2>4. CASE framer' = Set(framer, c, who) /\ UNCHANGED <<conn, reader, active, toClose>>
    <3>1. DOMAIN framer' = Conns /\ framer'[c] = who /\ \A d \in Conns : d # c => framer'[d] = framer[d]
      BY <1>0, <2>4 DEF Shape, Set
    <3>2. Roles'
      BY <1>0, <2>1, <2>2, <2>4, <3>1 DEF Roles
    <3>3. Holders' = Holders
      BY <2>4 DEF Holders, HoldsSlot
    <3> QED
      BY <1>0, <2>2, <2>4, <3>1, <3>2, <3>3, SlotKept, TurnSideKept DEF CountInv, Shape
  <2> QED
    BY <1>11, <2>3, <2>4 DEF CloseStarts
<1>12. ASSUME NEW c \in Conns, CloseFrame(c) PROVE CountInv'
  <2>1. reader[c] # "none" /\ (framer[c] = "reader" => reader[c] = "close")
    BY <1>0, <1>12 DEF CloseFrame, Roles
  <2>2. UNCHANGED tracked /\ UNCHANGED turnSide
    BY <1>12 DEF CloseFrame, turnVars
  <2>3. CASE framer' = Set(framer, c, Nobody) /\ Closed(c, framer[c])
    <3>1. framer' = framer => framer[c] # "reader"
      BY <1>0, <2>3 DEF Shape, Set, Nobody
    <3> QED
      BY <2>1, <2>2, <2>3, <3>1, CloseReturns, TurnSideKept DEF CountInv, Shape
  <2>4. CASE UNCHANGED <<framer, conn, reader, active, toClose>>
    BY <2>2, <2>4, BothKept
  <2> QED
    BY <1>12, <2>3, <2>4 DEF CloseFrame
<1>13. ASSUME NEW c \in Conns, Unstick(c) \/ StopsListening(c) PROVE CountInv'
  BY <1>13, BothKept DEF Unstick, StopsListening, doorVars, turnVars
<1>14. ASSUME NEW c \in Conns, Breaks(c) PROVE CountInv'
  <2>1. UNCHANGED <<reader, framer, active, tracked, toClose>> /\ UNCHANGED turnSide
    BY <1>14 DEF Breaks, doorVars, turnVars
  <2>2. /\ DOMAIN conn' = Conns /\ conn[c] = "open" /\ conn'[c] = "closed"
        /\ \A d \in Conns : d # c => conn'[d] = conn[d]
    BY <1>0, <1>14 DEF Breaks, Shape, Set
  <2>3. Roles'
    BY <1>0, <2>1, <2>2 DEF Roles
  <2>4. Holders' = Holders
    BY <2>1, <2>2 DEF Holders, HoldsSlot
  <2> QED
    BY <1>0, <2>1, <2>2, <2>3, <2>4, SlotKept, TurnSideKept DEF CountInv, Shape
<1>15. ASSUME NEW c \in Conns, NEW k \in Prompts(c), Prompt(c, k) PROVE CountInv'
  <2>1. UNCHANGED doorSide /\ ~turnActive[c]
    BY <1>15 DEF Prompt, doorVars
  <2>2. /\ DOMAIN turn' = Conns /\ DOMAIN turnActive' = Conns
        /\ \A d \in Conns : DOMAIN turn'[d] = Prompts(d)
        /\ \A d \in Conns : \A j \in Prompts(d) :
              turn'[d][j] = IF d = c /\ j = k THEN "resolve" ELSE turn[d][j]
        /\ turnActive'[c] = TRUE /\ \A d \in Conns : d # c => turnActive'[d] = turnActive[d]
    BY <1>0, <1>15 DEF Prompt, Goto, Shape, Set
  <2>3. \A j \in Prompts(c) : ~IsLive(c, j)
    BY <1>0, <2>1 DEF TurnInv
  <2>4. \A d \in Conns : \A j \in Prompts(d) : IsLive(d, j)' <=> (IsLive(d, j) \/ (d = c /\ j = k))
    BY <2>2, <2>3 DEF IsLive
  <2>5. TurnInv'
    BY <1>0, <2>2, <2>3, <2>4 DEF TurnInv
  <2> QED
    BY <2>1, <2>2, <2>5, DoorSideKept DEF CountInv, Shape
<1>16. ASSUME NEW c \in Conns, NEW q, Answer(c, q) PROVE CountInv'
  BY <1>16, BothKept DEF Answer, doorVars
<1>17. ASSUME NEW c \in Conns, NEW k \in Prompts(c), Resolve(c, k) PROVE CountInv'
  BY <1>17, TurnMoves DEF Resolve, doorVars, connVars, IsLive, At
<1>18. ASSUME NEW c \in Conns, NEW k \in Prompts(c), TurnSends(c, k) PROVE CountInv'
  <2>1. After(turn[c][k]) \notin {"none", "over"}
    BY <1>18 DEF TurnSends, After
  <2> QED
    BY <1>18, <2>1, TurnMoves, BothKept DEF TurnSends, doorVars, IsLive
<1>19. ASSUME NEW c \in Conns, NEW k \in Prompts(c), Request(c, k) PROVE CountInv'
  BY <1>19, TurnMoves DEF Request, doorVars, connVars, IsLive, At
<1>20. ASSUME NEW c \in Conns, NEW k \in Prompts(c), SendRequest(c, k) PROVE CountInv'
  BY <1>20, TurnMoves, BothKept DEF SendRequest, doorVars, IsLive, At
<1>21. ASSUME NEW c \in Conns, NEW k \in Prompts(c), Reply(c, k) PROVE CountInv'
  BY <1>21, TurnMoves DEF Reply, doorVars, connVars, IsLive, At
<1>22. ASSUME NEW c \in Conns, NEW k \in Prompts(c), WorkEnds(c, k) PROVE CountInv'
  BY <1>22, TurnMoves DEF WorkEnds, doorVars, connVars, IsLive, At
<1>23. ASSUME NEW c \in Conns, NEW k \in Prompts(c), Reset(c, k) PROVE CountInv'
  <2>1. UNCHANGED doorSide /\ IsLive(c, k)
    BY <1>23 DEF Reset, doorVars, connVars, IsLive, At
  <2>2. /\ DOMAIN turn' = Conns /\ DOMAIN turnActive' = Conns
        /\ \A d \in Conns : DOMAIN turn'[d] = Prompts(d)
        /\ \A d \in Conns : \A j \in Prompts(d) :
              turn'[d][j] = IF d = c /\ j = k THEN "over" ELSE turn[d][j]
        /\ turnActive'[c] = FALSE /\ \A d \in Conns : d # c => turnActive'[d] = turnActive[d]
    BY <1>0, <1>23 DEF Reset, Goto, Shape, Set
  <2>3. \A d \in Conns : \A j \in Prompts(d) : IsLive(d, j)' <=> (IsLive(d, j) /\ d # c)
    <3>1. \A j \in Prompts(c) : IsLive(c, j) => j = k
      BY <1>0, <2>1 DEF TurnInv
    <3>2. \A j \in Prompts(c) : ~IsLive(c, j)'
      BY <2>2, <3>1 DEF IsLive
    <3>3. \A d \in Conns : d # c => \A j \in Prompts(d) : turn'[d][j] = turn[d][j]
      BY <2>2
    <3> QED
      BY <3>2, <3>3 DEF IsLive
  <2>4. TurnInv'
    BY <1>0, <2>2, <2>3 DEF TurnInv
  <2> QED
    BY <2>1, <2>2, <2>4, DoorSideKept DEF CountInv, Shape
<1>24. CASE Signal
  <2>1. UNCHANGED <<conn, reader, framer, active, tracked>> /\ UNCHANGED turnSide /\ toClose' = tracked
    BY <1>24 DEF Signal, connVars, turnVars
  <2>2. Roles'
    BY <1>0, <2>1 DEF Roles
  <2> QED
    BY <1>0, <2>1, <2>2, SlotKept, TurnSideKept DEF CountInv, Shape, Holders, HoldsSlot
<1>25. CASE Exit
  BY <1>25, BothKept DEF Exit, connVars, turnVars
<1>26. CASE UNCHANGED vars
  BY <1>26, BothKept DEF vars, doorVars, connVars, turnVars
<1>27. ASSUME NEW c \in Conns, Handler(c) PROVE CountInv'
  BY <1>27, <1>2, <1>3, <1>4, <1>7, <1>8, <1>9, <1>10, <1>11 DEF Handler
<1>28. ASSUME NEW c \in Conns, Closers(c) PROVE CountInv'
  BY <1>28, <1>11, <1>12, <1>13 DEF Closers
<1>29. ASSUME NEW c \in Conns, NEW k \in Prompts(c), Turn(c, k) PROVE CountInv'
  BY <1>29, <1>17, <1>18, <1>19, <1>20, <1>21, <1>22, <1>23 DEF Turn
<1>30. ASSUME NEW c \in Conns, Client(c) PROVE CountInv'
  BY <1>30, <1>1, <1>6, <1>15, <1>16 DEF Client
<1>31. ASSUME NEW c \in Conns, Fault(c) PROVE CountInv'
  BY <1>31, <1>5, <1>13, <1>14 DEF Fault
<1> QED
  BY <1>24, <1>25, <1>26, <1>27, <1>28, <1>29, <1>30, <1>31 DEF Next, Server

-----------------------------------------------------------------------------
LEMMA CountsImplied == CountInv => CountsHold
<1> SUFFICES ASSUME CountInv PROVE CountsHold
  OBVIOUS
<1>1. SlotsCounted
  BY DEF CountInv, SlotInv, SlotsCounted, Holders
<1>2. ASSUME NEW c \in Conns PROVE Cardinality(Live(c)) <= 1 /\ (Live(c) # {} <=> turnActive[c])
  <2>1. \A j, k \in Live(c) : j = k
    BY DEF CountInv, TurnInv, Live, IsLive
  <2>2. Live(c) # {} <=> turnActive[c]
    BY DEF CountInv, TurnInv, Live, IsLive
  <2>3. CASE Live(c) = {}
    BY <2>2, <2>3, FS_EmptySet
  <2>4. CASE Live(c) # {}
    <3>1. PICK k : Live(c) = {k}
      BY <2>1, <2>4
    <3> QED
      BY <2>2, <3>1, FS_Singleton
  <2> QED
    BY <2>3, <2>4
<1> QED
  BY <1>1, <1>2 DEF CountsHold, OneTurn

(* The slots of a server are those of its sessions, and never more than      *)
(* max_sessions; a session has one turn at a time: for every number of       *)
(* connections and prompts, whoever closes what when (serve.go, ServeHTTP,   *)
(* handlePrompt).                                                           *)
THEOREM CountsAlwaysHold == Spec => []CountsHold
<1>1. Init => CountInv
  BY CountInit
<1>2. CountInv /\ [Next]_vars => CountInv'
  BY CountStep
<1>3. CountInv => CountsHold
  BY CountsImplied
<1> QED
  BY <1>1, <1>2, <1>3, PTL DEF Spec

-----------------------------------------------------------------------------
(* Answers. An id names one request of its connection for good, and what is  *)
(* in a request's channel was meant for it.                                 *)
AnswerInv ==
    /\ DOMAIN seen = Conns /\ DOMAIN asked = Conns /\ DOMAIN reply = Conns
    /\ nextId \in [Conns -> Nat]
    /\ \A c \in Conns :
        /\ DOMAIN asked[c] = Prompts(c) /\ DOMAIN reply[c] = Prompts(c)
        /\ \A q \in seen[c] : q.id \in 1..nextId[c]
        /\ \A p, q \in seen[c] : p.id = q.id => p.request = q.request
        /\ \A k \in Prompts(c) : reply[c][k] \in {None, <<k, asked[c][k]>>}
    /\ AnswersFit

answerSide == <<seen, asked, reply, nextId, used>>

\* What an answer, a request and a decision leave of the rest.
LEMMA AnswerSideKept ==
    ASSUME AnswerInv, UNCHANGED answerSide
    PROVE  AnswerInv'
BY DEF AnswerInv, AnswersFit, answerSide

\* An answer that names a pending request by its id was meant for it.
LEMMA AnswerTaken ==
    ASSUME AnswerInv, NEW c \in Conns, NEW q, Answer(c, q)
    PROVE  AnswerInv'
<1>1. PICK k \in Prompts(c) :
         /\ \E p \in seen[c] : p.request = <<k, asked[c][k]>> /\ p.id = q.id
         /\ reply' = [reply EXCEPT ![c][k] = q.request]
  BY DEF Answer
<1>2. q.request = <<k, asked[c][k]>>
  BY <1>1 DEF Answer, AnswerInv
<1>3. UNCHANGED <<seen, asked, nextId, used>>
  BY DEF Answer
<1>4. /\ DOMAIN reply' = Conns /\ \A d \in Conns : DOMAIN reply'[d] = Prompts(d)
      /\ \A d \in Conns : \A j \in Prompts(d) :
            reply'[d][j] = IF d = c /\ j = k THEN q.request ELSE reply[d][j]
  BY <1>1 DEF AnswerInv
<1>5. \A d \in Conns : \A j \in Prompts(d) : reply'[d][j] \in {None, <<j, asked'[d][j]>>}
  BY <1>2, <1>3, <1>4 DEF AnswerInv
<1> QED
  BY <1>3, <1>4, <1>5 DEF AnswerInv, AnswersFit

\* A request has an id no other had, and an empty channel.
LEMMA RequestMade ==
    ASSUME AnswerInv, NEW c \in Conns, NEW k \in Prompts(c), Request(c, k)
    PROVE  AnswerInv'
<1> DEFINE new == [request |-> <<k, asked[c][k] + 1>>, id |-> NewId(c, k)]
<1>1. new.id = nextId[c] + 1 /\ nextId[c] \in Nat
  BY DEF NewId, AnswerInv
<1>2. /\ nextId' \in [Conns -> Nat] /\ nextId'[c] = nextId[c] + 1
      /\ \A d \in Conns : d # c => nextId'[d] = nextId[d]
  BY DEF Request, Set, AnswerInv
<1>3. /\ DOMAIN seen' = Conns /\ seen'[c] = seen[c] \cup {new}
      /\ \A d \in Conns : d # c => seen'[d] = seen[d]
  BY DEF Request, AnswerInv
<1>4. /\ DOMAIN reply' = Conns /\ DOMAIN asked' = Conns
      /\ \A d \in Conns : DOMAIN reply'[d] = Prompts(d) /\ DOMAIN asked'[d] = Prompts(d)
      /\ \A d \in Conns : \A j \in Prompts(d) :
            /\ d = c /\ j = k => reply'[d][j] = None
            /\ ~(d = c /\ j = k) => reply'[d][j] = reply[d][j] /\ asked'[d][j] = asked[d][j]
  BY DEF Request, AnswerInv
<1>5. used' = used
  BY DEF Request
<1> HIDE DEF new
<1>6. ASSUME NEW d \in Conns
      PROVE  /\ \A q \in seen'[d] : q.id \in 1..nextId'[d]
             /\ \A p, q \in seen'[d] : p.id = q.id => p.request = q.request
  <2>1. \A q \in seen[d] : q.id \in 1..nextId[d]
    BY DEF AnswerInv
  <2>2. \A p, q \in seen[d] : p.id = q.id => p.request = q.request
    BY DEF AnswerInv
  <2> QED
    BY <1>1, <1>2, <1>3, <2>1, <2>2
<1>7. \A d \in Conns : \A j \in Prompts(d) : reply'[d][j] \in {None, <<j, asked'[d][j]>>}
  BY <1>4 DEF AnswerInv
<1> QED
  BY <1>2, <1>3, <1>4, <1>5, <1>6, <1>7 DEF AnswerInv, AnswersFit

\* The select takes what is in the channel of its own request.
LEMMA ReplyTaken ==
    ASSUME AnswerInv, NEW c \in Conns, NEW k \in Prompts(c), Reply(c, k)
    PROVE  AnswerInv'
<1>1. UNCHANGED <<seen, asked, nextId>> /\ reply' = [reply EXCEPT ![c][k] = None]
  BY DEF Reply
<1>2. /\ DOMAIN reply' = Conns /\ \A d \in Conns : DOMAIN reply'[d] = Prompts(d)
      /\ \A d \in Conns : \A j \in Prompts(d) :
            reply'[d][j] = IF d = c /\ j = k THEN None ELSE reply[d][j]
  BY <1>1 DEF AnswerInv
<1>3. AnswersFit'
  <2>1. reply[c][k] # None => reply[c][k] = <<k, asked[c][k]>>
    BY DEF AnswerInv
  <2>2. used' = used \/ (reply[c][k] # None /\ used' = used \cup {<<<<k, asked[c][k]>>, reply[c][k]>>})
    BY DEF Reply
  <2> QED
    BY <2>1, <2>2 DEF AnswerInv, AnswersFit
<1>4. \A d \in Conns : \A j \in Prompts(d) : reply'[d][j] \in {None, <<j, asked'[d][j]>>}
  BY <1>1, <1>2 DEF AnswerInv
<1> QED
  BY <1>1, <1>2, <1>3, <1>4 DEF AnswerInv

\* Only those three steps touch the side of the answers.
LEMMA AnswerStep == AnswerInv /\ [Next]_vars => AnswerInv'
<1> SUFFICES ASSUME AnswerInv, [Next]_vars PROVE AnswerInv'
  OBVIOUS
<1> USE DEF answerSide, doorVars, connVars, turnVars
<1>1. CASE UNCHANGED answerSide
  BY <1>1, AnswerSideKept
<1>2. ASSUME NEW c \in Conns, Handler(c) \/ Closers(c) PROVE UNCHANGED answerSide
  <2>1. ASSUME NEW who, CloseStarts(c, who) PROVE UNCHANGED answerSide
    BY <2>1 DEF CloseStarts
  <2>2. CASE Upgrade(c) \/ Track(c) \/ Write(c) \/ Echo(c) \/ ReadFails(c) \/ Leave(c) \/ Untrack(c)
    BY <2>2 DEF Upgrade, Track, Write, Echo, ReadFails, Leave, Untrack
  <2>3. CASE CloseFrame(c) \/ Unstick(c)
    BY <2>3 DEF CloseFrame, Unstick
  <2> QED
    BY <1>2, <2>1, <2>2, <2>3 DEF Handler, Closers
<1>3. ASSUME NEW c \in Conns, Fault(c) PROVE UNCHANGED answerSide
  BY <1>3 DEF Fault, BadMessage, StopsListening, Breaks
<1>4. ASSUME NEW c \in Conns, Client(c) PROVE AnswerInv'
  <2>1. CASE Connect(c) \/ PeerCloses(c) \/ \E k \in Prompts(c) : Prompt(c, k)
    BY <1>1, <2>1 DEF Connect, PeerCloses, Prompt
  <2>2. ASSUME NEW q, Answer(c, q) PROVE AnswerInv'
    BY <2>2, AnswerTaken
  <2> QED
    BY <1>4, <2>1, <2>2 DEF Client
<1>5. ASSUME NEW c \in Conns, NEW k \in Prompts(c), Turn(c, k) PROVE AnswerInv'
  <2>1. CASE Resolve(c, k) \/ TurnSends(c, k) \/ SendRequest(c, k) \/ WorkEnds(c, k) \/ Reset(c, k)
    BY <1>1, <2>1 DEF Resolve, TurnSends, SendRequest, WorkEnds, Reset
  <2> QED
    BY <1>5, <2>1, RequestMade, ReplyTaken DEF Turn
<1>6. CASE Signal \/ Exit \/ UNCHANGED vars
  BY <1>1, <1>6 DEF Signal, Exit, vars
<1> QED
  BY <1>1, <1>2, <1>3, <1>4, <1>5, <1>6 DEF Next, Server

(* An answer decides the request it was given for: late, repeated, or over   *)
(* any number of turns and connections (serve.go, registerPending,           *)
(* resolvePending, and their twins for questions).                          *)
THEOREM AnswersAlwaysFit == Spec => []AnswersFit
<1>1. Init => AnswerInv
  BY DEF Init, AnswerInv, AnswersFit
<1>2. AnswerInv => AnswersFit
  BY DEF AnswerInv
<1> QED
  BY <1>1, <1>2, AnswerStep, PTL DEF Spec

-----------------------------------------------------------------------------
(* Types, and what goes with them: only closeAll has connections to close,   *)
(* and they are tracked ones; a close frame is on its way only after Close   *)
(* was called; a write gets stuck only on a peer that stopped reading.       *)
Readers == {"none", "track", "hello", "reading", "error", "echo", "leave", "untrack", "close", "gone"}
States == {"out", "upgrading", "open", "closed", "refused"}

DoorInv ==
    /\ server \in {"up", "closing", "down"}
    /\ toClose \subseteq tracked /\ tracked \subseteq Conns
    /\ server # "closing" => toClose = {}
    /\ MaxSessions = 0 => active = 0
    /\ DOMAIN closeSent = Conns /\ DOMAIN stuck = Conns /\ DOMAIN listening = Conns
    /\ \A c \in Conns :
        /\ conn[c] \in States /\ reader[c] \in Readers
        /\ framer[c] # Nobody => closeSent[c]
        /\ stuck[c] # Nobody => ~listening[c]

\* A function of the connections that changes for one of them.
LEMMA SetAt ==
    ASSUME NEW f, DOMAIN f = Conns, NEW c \in Conns, NEW v
    PROVE  /\ DOMAIN Set(f, c, v) = Conns /\ Set(f, c, v)[c] = v
           /\ \A d \in Conns : d # c => Set(f, c, v)[d] = f[d]
BY DEF Set

typeSide == <<server, toClose, tracked, active, conn, reader, framer, closeSent, stuck, listening>>

\* A step of one connection that says what becomes of its own components.
LEMMA OneConnection ==
    ASSUME CountInv, DoorInv, NEW c \in Conns,
           UNCHANGED server, toClose' \subseteq toClose, tracked' \subseteq Conns,
           toClose' \subseteq tracked', MaxSessions = 0 => active' = active,
           NEW a \in States, conn' = conn \/ conn' = Set(conn, c, a),
           NEW b \in Readers, reader' = reader \/ reader' = Set(reader, c, b),
           NEW s, closeSent' = closeSent \/ closeSent' = Set(closeSent, c, TRUE),
           NEW f, \/ framer' = framer
                  \/ framer' = Set(framer, c, f) /\ (f = Nobody \/ closeSent' = Set(closeSent, c, TRUE)),
           \/ stuck' = stuck
           \/ stuck' = Set(stuck, c, s) /\ (s = Nobody \/ ~listening[c]),
           listening' = listening \/ listening' = Set(listening, c, FALSE)
    PROVE  DoorInv'
<1>0. DOMAIN conn = Conns /\ DOMAIN reader = Conns /\ DOMAIN framer = Conns
  BY DEF CountInv, Shape
<1>1. /\ \A d \in Conns : conn'[d] \in {a, conn[d]}
      /\ \A d \in Conns : reader'[d] \in {b, reader[d]}
  BY <1>0, SetAt
<1>2. DOMAIN closeSent' = Conns /\ \A d \in Conns : closeSent[d] => closeSent'[d]
  BY DEF Set, DoorInv
<1>3. DOMAIN listening' = Conns /\ \A d \in Conns : ~listening[d] => ~listening'[d]
  BY DEF Set, DoorInv
<1>4. \A d \in Conns : framer'[d] # Nobody => closeSent'[d]
  <2>1. CASE framer' = framer
    BY <1>2, <2>1 DEF DoorInv
  <2>2. CASE framer' = Set(framer, c, Nobody)
    BY <1>0, <1>2, <2>2, SetAt DEF DoorInv
  <2>3. CASE framer' = Set(framer, c, f) /\ closeSent' = Set(closeSent, c, TRUE)
    <3>1. closeSent'[c]
      BY <2>3 DEF Set, DoorInv
    <3>2. \A d \in Conns : d # c => framer'[d] = framer[d]
      BY <1>0, <2>3, SetAt
    <3> QED
      BY <1>2, <3>1, <3>2 DEF DoorInv
  <2> QED
    BY <2>1, <2>2, <2>3
<1>5. DOMAIN stuck' = Conns /\ \A d \in Conns : stuck'[d] # Nobody => ~listening'[d]
  BY <1>3, SetAt DEF DoorInv
<1> QED
  BY <1>1, <1>2, <1>3, <1>4, <1>5 DEF DoorInv

\* Every step keeps the types: each is a step of one connection, or closeAll's.
LEMMA DoorStep == CountInv /\ DoorInv /\ [Next]_vars => DoorInv'
<1> SUFFICES ASSUME CountInv, DoorInv, [Next]_vars PROVE DoorInv'
  OBVIOUS
<1> USE DEF doorVars, connVars, turnVars, Stall, States, Readers
<1>0. CASE UNCHANGED typeSide
  BY <1>0 DEF typeSide, DoorInv
<1>1. ASSUME NEW c \in Conns, Connect(c) \/ Upgrade(c) \/ Track(c) PROVE DoorInv'
  <2>1. CASE Connect(c)
    BY <2>1, OneConnection DEF Connect, DoorInv
  <2>2. CASE Upgrade(c)
    BY <2>2, OneConnection DEF Upgrade, Freed, DoorInv
  <2>3. CASE Track(c)
    BY <2>3, OneConnection DEF Track, DoorInv
  <2> QED
    BY <1>1, <2>1, <2>2, <2>3
<1>2. ASSUME NEW c \in Conns, Write(c) \/ BadMessage(c) \/ PeerCloses(c) \/ Echo(c) PROVE DoorInv'
  <2>1. CASE Write(c)
    BY <2>1, OneConnection DEF Write, DoorInv
  <2>2. CASE BadMessage(c) \/ PeerCloses(c)
    BY <2>2, OneConnection DEF BadMessage, PeerCloses, DoorInv
  <2>3. CASE Echo(c)
    BY <2>3, OneConnection DEF Echo, DoorInv
  <2> QED
    BY <1>2, <2>1, <2>2, <2>3
<1>3. ASSUME NEW c \in Conns, ReadFails(c) \/ Leave(c) \/ Untrack(c) PROVE DoorInv'
  <2>1. CASE ReadFails(c) \/ Leave(c)
    BY <2>1, OneConnection DEF ReadFails, Leave, DoorInv
  <2>2. CASE Untrack(c)
    <3>1. toClose = {}
      BY <2>2 DEF Untrack, Locked, DoorInv
    <3> QED
      BY <2>2, <3>1, OneConnection DEF Untrack, DoorInv
  <2> QED
    BY <1>3, <2>1, <2>2
<1>4. ASSUME NEW c \in Conns, NEW who, Closed(c, who), UNCHANGED <<server, tracked, stuck, listening, closeSent>>,
             framer' = framer \/ framer' = Set(framer, c, Nobody)
      PROVE  DoorInv'
  <2>1. /\ conn' = Set(conn, c, "closed") /\ toClose' \subseteq toClose
        /\ reader' = reader \/ reader' = Set(reader, c, "gone")
        /\ MaxSessions = 0 => active' = active
    BY <1>4 DEF Closed, Freed
  <2> QED
    BY <1>4, <2>1, OneConnection DEF DoorInv
<1>5. ASSUME NEW c \in Conns, NEW who, CloseStarts(c, who) PROVE DoorInv'
  <2>1. CASE Closed(c, who) /\ UNCHANGED <<closeSent, framer>>
    BY <1>4, <1>5, <2>1 DEF CloseStarts
  <2>2. CASE /\ closeSent' = Set(closeSent, c, TRUE) /\ framer' = Set(framer, c, who)
             /\ UNCHANGED <<conn, reader, active, toClose>>
    BY <1>5, <2>2, OneConnection DEF CloseStarts, DoorInv
  <2> QED
    BY <1>5, <2>1, <2>2 DEF CloseStarts
<1>6. ASSUME NEW c \in Conns, CloseFrame(c) PROVE DoorInv'
  <2>1. CASE framer' = Set(framer, c, Nobody) /\ Closed(c, framer[c]) /\ UNCHANGED stuck
    BY <1>4, <1>6, <2>1 DEF CloseFrame
  <2>2. CASE Stall(c, "close") /\ UNCHANGED <<framer, conn, reader, active, toClose>>
    BY <1>6, <2>2, OneConnection DEF CloseFrame, DoorInv
  <2> QED
    BY <1>6, <2>1, <2>2 DEF CloseFrame
<1>7. ASSUME NEW c \in Conns, Unstick(c) \/ StopsListening(c) \/ Breaks(c) PROVE DoorInv'
  BY <1>7, OneConnection DEF Unstick, StopsListening, Breaks, DoorInv
<1>8. ASSUME NEW c \in Conns, NEW k \in Prompts(c), Turn(c, k) PROVE DoorInv'
  <2>1. CASE TurnSends(c, k) \/ SendRequest(c, k)
    BY <2>1, OneConnection DEF TurnSends, SendRequest, DoorInv
  <2>2. CASE ~(TurnSends(c, k) \/ SendRequest(c, k))
    BY <1>0, <1>8, <2>2 DEF Turn, Resolve, Request, Reply, WorkEnds, Reset, typeSide
  <2> QED
    BY <2>1, <2>2
<1>9. ASSUME NEW c \in Conns, Client(c) PROVE DoorInv'
  <2>1. ASSUME NEW k \in Prompts(c), Prompt(c, k) PROVE DoorInv'
    BY <1>0, <2>1 DEF Prompt, typeSide
  <2>2. ASSUME NEW q, Answer(c, q) PROVE DoorInv'
    BY <1>0, <2>2 DEF Answer, typeSide
  <2> QED
    BY <1>1, <1>2, <1>9, <2>1, <2>2 DEF Client
<1>10. CASE Signal \/ Exit
  BY <1>10 DEF Signal, Exit, DoorInv
<1>11. ASSUME NEW c \in Conns, Handler(c) \/ Closers(c) \/ Fault(c) PROVE DoorInv'
  BY <1>1, <1>2, <1>3, <1>5, <1>6, <1>7, <1>11 DEF Handler, Closers, Fault
<1>12. CASE UNCHANGED vars
  BY <1>0, <1>12 DEF vars, typeSide
<1> QED
  BY <1>8, <1>9, <1>10, <1>11, <1>12 DEF Next, Server

\* Every reachable state of the door has the declared types.
THEOREM DoorTypeCorrect == Spec => []TypeOK
<1>1. Init => CountInv
  BY CountInit
<1>2. Init => DoorInv
  BY DEF Init, DoorInv, States, Readers, Nobody
<1>3. CountInv /\ [Next]_vars => CountInv'
  BY CountStep
<1>4. CountInv /\ DoorInv => TypeOK
  <2> SUFFICES ASSUME CountInv, DoorInv PROVE TypeOK
    OBVIOUS
  <2>1. active \in 0..Cardinality(Conns)
    <3>1. Cardinality(Holders) <= Cardinality(Conns) /\ Cardinality(Conns) \in Nat
      BY ConnsAssumption, FS_Subset, FS_CardinalityType DEF Holders
    <3>2. active \in Nat /\ (active = Cardinality(Holders) \/ active = 0)
      BY ServeAssumption DEF CountInv, SlotInv, DoorInv
    <3> QED
      BY <3>1, <3>2
  <2> QED
    BY <2>1 DEF TypeOK, DoorInv, States, Readers
<1> QED
  BY <1>1, <1>2, <1>3, <1>4, DoorStep, PTL DEF Spec
=============================================================================
