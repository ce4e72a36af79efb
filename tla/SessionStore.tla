---------------------------- MODULE SessionStore ----------------------------
(***************************************************************************)
(* The session files of src/internal/convo/store.go and the recorders      *)
(* that write them (sessionRecorder of src/internal/app/session.go, the    *)
(* headless and serve doors of headless.go and serve.go).                  *)
(*                                                                         *)
(* Every recorder has a Store of its own on the same directory: a terminal *)
(* session, a headless run, a serve connection.  A Store's mutex orders    *)
(* nothing between them, so a step is one call on the file system (or a    *)
(* read whose result cannot change before the next one), and a process may *)
(* die between any two steps.  A write that dies, or that the disk         *)
(* refuses, may leave the beginning of its line.                           *)
(*                                                                         *)
(* Of a file matters what reading it tells: the header, the entries that   *)
(* parse, whether the last line is whole, and when it was last written.    *)
(* The texts are abstract, an entry being the number of its append.        *)
(***************************************************************************)
EXTENDS Integers, FiniteSets

CONSTANTS
    Recorders,      \* processes or connections that record sessions
    Interactive,    \* those that rotate after every append, as the TUI does
    KeepLast,       \* session.keep_last, <= 0 keeps everything
    MaxSessions,    \* bound: session files created
    Bounds          \* bounds: recorders at work, appends attempted, rewrites
                    \* begun by /name, deaths and failed writes

ASSUME RecorderAssumption == Interactive \subseteq Recorders
ASSUME KeepAssumption     == KeepLast \in Int
ASSUME LimitAssumption    ==
    /\ MaxSessions \in Nat
    /\ \A b \in Bounds : b.recorders \subseteq Recorders /\ {b.entries, b.names, b.faults} \subseteq Nat

VARIABLES
    disk,       \* the directory: path -> file
    clock,      \* writes so far: a file's time is the number of its last one
    pc,         \* what each recorder is about to do
    conv,       \* sessionRecorder.conv: a session's id, or 0 for nil
    pending,    \* sessionRecorder.pendingTitle # ""
    victims,    \* what is left of list[keepLast:] in a Rotate under way
    temp,       \* the temporary file of a rewrite under way
    sessions,   \* ids given out so far
    entries,    \* appends attempted so far
    names,      \* temporary files created so far
    faults,     \* deaths and failed writes so far
    acked,      \* <<id, n>>: entry n was recorded in session id without error
    titled,     \* sessions whose user was told the title is set
    bound       \* which of the bounds hold

dir == <<disk, clock>>
recorder == <<conv, pending, victims, temp>>
storeVars == <<disk, clock, pc, conv, pending, victims, temp,
               sessions, entries, names, faults, acked, titled, bound>>

Session(id) == <<"session", id>>
Temp(n)     == <<"temp", n>>
Paths == {"session", "temp"} \X Nat

Files == [id : Nat,           \* what List reads in the first line, 0 if it cannot
          whole : BOOLEAN,    \* the first line ends, and is a header to load too
          named : BOOLEAN,    \* its title was typed by the user
          messages : SUBSET Nat, missions : SUBSET Nat,   \* the lines that parse
          torn : BOOLEAN,     \* the last line has no newline
          time : Nat]

Headed(id, named) == [id |-> id, whole |-> TRUE, named |-> named,
                      messages |-> {}, missions |-> {}, torn |-> FALSE, time |-> 0]
Scrap(id) == [Headed(id, FALSE) EXCEPT !.whole = FALSE, !.torn = TRUE]

\* O_APPEND: behind a line without a newline the new one continues it, and
\* neither parses.
Written(f, kind, n) ==
    IF f.torn THEN [f EXCEPT !.torn = FALSE] ELSE [f EXCEPT ![kind] = @ \cup {n}]

-----------------------------------------------------------------------------
(* Reading. *)

\* load drops a last line without newline, skips what does not parse, and
\* asks for a header.
Loads(path) == path \in DOMAIN disk /\ disk[path].whole

\* Mutant: a file whose header does not parse is listed like the others.
MutList == DOMAIN disk

\* List: every *.jsonl with a readable header, the temporary files of rewrite
\* (".tmp-*.jsonl") included.
List == {p \in DOMAIN disk : disk[p].id # 0}
Newer(path) == {p \in List : disk[p].time > disk[path].time}
Latest == CHOOSE p \in List : Newer(p) = {}

-----------------------------------------------------------------------------
(* Writing. *)

Put(p, f) == /\ disk' = [q \in DOMAIN disk \cup {p} |->
                             IF q = p THEN [f EXCEPT !.time = clock + 1] ELSE disk[q]]
             /\ clock' = clock + 1
Remove(p) == /\ disk' = [q \in DOMAIN disk \ {p} |-> disk[q]]
             /\ clock' = clock

Go(r, where) == pc' = [pc EXCEPT ![r] = where]

StoreInit ==
    /\ disk = [p \in {} |-> Scrap(0)] /\ clock = 0
    /\ pc = [r \in Recorders |-> "off"]
    /\ conv = [r \in Recorders |-> 0]
    /\ pending = [r \in Recorders |-> FALSE]
    /\ victims = [r \in Recorders |-> {}]
    /\ temp = [r \in Recorders |-> 0]
    /\ sessions = 0 /\ entries = 0 /\ names = 0 /\ faults = 0
    /\ acked = {} /\ titled = {} /\ bound \in Bounds

\* A fresh session: no file before the first entry.
Start(r) ==
    /\ pc[r] = "off"
    /\ Go(r, "idle")
    /\ conv' = [conv EXCEPT ![r] = 0]
    /\ pending' = [pending EXCEPT ![r] = FALSE]
    /\ UNCHANGED <<dir, victims, temp, sessions, entries, names, faults, acked, titled>>

\* --resume: the most recent session, if it loads.
Resume(r) ==
    /\ r \in Interactive
    /\ pc[r] = "off"
    /\ List # {}
    /\ LET id == disk[Latest].id
       IN  conv' = [conv EXCEPT ![r] = IF Loads(Session(id)) THEN id ELSE 0]
    /\ Go(r, "idle")
    /\ pending' = [pending EXCEPT ![r] = FALSE]
    /\ UNCHANGED <<dir, victims, temp, sessions, entries, names, faults, acked, titled>>

Quit(r) ==
    /\ pc[r] = "idle"
    /\ Go(r, "off")
    /\ UNCHANGED <<dir, recorder, sessions, entries, names, faults, acked, titled>>

\* firstConvTitle: a title typed before the file exists wins.
FirstTitle(r) == pending[r]

\* Store.New, on the first entry of a recorder without a file.
New(r) ==
    /\ pc[r] = "idle" /\ conv[r] = 0
    /\ sessions < MaxSessions /\ entries < bound.entries
    /\ sessions' = sessions + 1
    /\ Put(Session(sessions'), Headed(sessions', FirstTitle(r)))
    /\ conv' = [conv EXCEPT ![r] = sessions']
    /\ titled' = IF pending[r] THEN titled \cup {sessions'} ELSE titled
    /\ Go(r, "append")
    /\ UNCHANGED <<pending, victims, temp, entries, names, faults, acked>>

\* New's write of the header fails or dies half way: the file stays behind,
\* and a recorder that lives on still has no session.
NewTorn(r) ==
    /\ pc[r] = "idle" /\ conv[r] = 0
    /\ sessions < MaxSessions /\ faults < bound.faults
    /\ sessions' = sessions + 1 /\ faults' = faults + 1
    /\ \E id \in {0, sessions'} : Put(Session(sessions'), Scrap(id))
    /\ \E where \in {"idle", "off"} : Go(r, where)
    /\ UNCHANGED <<recorder, entries, names, acked, titled>>

\* Where an append leaves a recorder: the TUI rotates at once, headless and
\* serve when the turn has been written.
Appended(r) == IF r \in Interactive THEN (IF KeepLast > 0 THEN "list" ELSE "idle")
                                    ELSE "turn"

MayAppend(r) == pc[r] \in {"append", "turn"} \/ (pc[r] = "idle" /\ conv[r] # 0)

\* Append and AppendMission: one write at the end of a file that exists.
AppendLine(r) ==
    /\ MayAppend(r)
    /\ entries < bound.entries
    /\ entries' = entries + 1
    /\ LET f == Session(conv[r])
       IN  \/ /\ f \in DOMAIN disk
              /\ \E kind \in {"messages", "missions"} :
                    Put(f, Written(disk[f], kind, entries'))
              /\ acked' = acked \cup {<<conv[r], entries'>>}
              /\ Go(r, Appended(r))
           \/ /\ f \notin DOMAIN disk      \* ErrNotFound
              /\ Go(r, IF r \in Interactive THEN "idle" ELSE "turn")
              /\ UNCHANGED <<dir, acked>>
    /\ UNCHANGED <<recorder, sessions, names, faults, titled>>

\* The write fails or dies half way: its beginning is in the file, and
\* nobody was told that the entry is saved.
AppendTorn(r) ==
    /\ MayAppend(r)
    /\ entries < bound.entries /\ faults < bound.faults
    /\ entries' = entries + 1 /\ faults' = faults + 1
    /\ Session(conv[r]) \in DOMAIN disk
    /\ Put(Session(conv[r]), [disk[Session(conv[r])] EXCEPT !.torn = TRUE])
    /\ \E where \in {IF r \in Interactive THEN "idle" ELSE "turn", "off"} : Go(r, where)
    /\ UNCHANGED <<recorder, sessions, names, acked, titled>>

\* The end of a headless or serve turn.
TurnWritten(r) ==
    /\ pc[r] = "turn"
    /\ Go(r, IF KeepLast > 0 THEN "list" ELSE "idle")
    /\ UNCHANGED <<dir, recorder, sessions, entries, names, faults, acked, titled>>

\* Mutant: one session too many is deleted.
MutSurplus == {p \in List : Cardinality(Newer(p)) >= KeepLast - 1}

\* list[keepLast:], the list being the most recent first.
Surplus == {p \in List : Cardinality(Newer(p)) >= KeepLast}

\* Rotate's List: by id, the name under which Delete will look for the file.
RotateList(r) ==
    /\ pc[r] = "list"
    /\ victims' = [victims EXCEPT ![r] = {[id |-> disk[p].id, time |-> disk[p].time] : p \in Surplus}]
    /\ Go(r, IF Surplus = {} THEN "idle" ELSE "delete")
    /\ UNCHANGED <<dir, conv, pending, temp, sessions, entries, names, faults, acked, titled>>

\* Rotate's Delete, once per victim, the most recent of them first.
Delete(r) ==
    /\ pc[r] = "delete"
    /\ \E v \in victims[r] :
          /\ \A w \in victims[r] : w.time <= v.time
          /\ Remove(Session(v.id))
          /\ victims' = [victims EXCEPT ![r] = @ \ {v}]
    /\ Go(r, IF victims'[r] = {} THEN "idle" ELSE "delete")
    /\ UNCHANGED <<conv, pending, temp, sessions, entries, names, faults, acked, titled>>

-----------------------------------------------------------------------------
(* /name: SetTitle, the only write that is not an append. *)

\* Mutant: the missions are not written back.
MutRewritten(f) == [f EXCEPT !.named = TRUE, !.torn = FALSE, !.missions = {}]

\* What rewrite makes of a file: its header, its messages, its missions.
Rewritten(f) == [f EXCEPT !.named = TRUE, !.torn = FALSE]

\* Before the file exists the title is only remembered.
NamePending(r) ==
    /\ r \in Interactive
    /\ pc[r] = "idle" /\ conv[r] = 0
    /\ ~pending[r]
    /\ pending' = [pending EXCEPT ![r] = TRUE]
    /\ UNCHANGED <<dir, pc, conv, victims, temp, sessions, entries, names, faults,
                   acked, titled>>

\* SetTitle's load and rewrite's temporary file.  A file that does not load
\* is left alone.
NameWrite(r) ==
    /\ r \in Interactive
    /\ pc[r] = "idle" /\ conv[r] # 0
    /\ names < bound.names
    /\ Loads(Session(conv[r]))
    /\ names' = names + 1
    /\ Put(Temp(names'), Rewritten(disk[Session(conv[r])]))
    /\ temp' = [temp EXCEPT ![r] = names']
    /\ Go(r, "rename")
    /\ UNCHANGED <<conv, pending, victims, sessions, entries, faults, acked, titled>>

\* rewrite's Rename: the file gets the lines and the time of the temporary one.
NameRename(r) ==
    /\ pc[r] = "rename"
    /\ LET s == Session(conv[r])
           t == Temp(temp[r])
       IN  disk' = [p \in (DOMAIN disk \cup {s}) \ {t} |-> IF p = s THEN disk[t] ELSE disk[p]]
    /\ clock' = clock
    /\ temp' = [temp EXCEPT ![r] = 0]
    /\ titled' = titled \cup {conv[r]}
    /\ Go(r, "idle")
    /\ UNCHANGED <<conv, pending, victims, sessions, entries, names, faults, acked>>

\* A write of the temporary file fails: it is removed, the session stays.
NameFails(r) ==
    /\ pc[r] = "rename"
    /\ faults < bound.faults
    /\ faults' = faults + 1
    /\ Remove(Temp(temp[r]))
    /\ temp' = [temp EXCEPT ![r] = 0]
    /\ Go(r, "idle")
    /\ UNCHANGED <<conv, pending, victims, sessions, entries, names, acked, titled>>

\* The process dies.  Its temporary file stays, with what was written of it:
\* of the entries nobody asks.
Die(r) ==
    /\ pc[r] # "off"
    /\ faults < bound.faults
    /\ faults' = faults + 1
    /\ Go(r, "off")
    /\ IF pc[r] = "rename"
       THEN \E f \in {Scrap(0), Scrap(conv[r]), disk[Temp(temp[r])]} : Put(Temp(temp[r]), f)
       ELSE UNCHANGED dir
    /\ temp' = [temp EXCEPT ![r] = 0]
    /\ victims' = [victims EXCEPT ![r] = {}]
    /\ UNCHANGED <<conv, pending, sessions, entries, names, acked, titled>>

Acts(r) ==
    \/ Start(r) \/ Resume(r) \/ Quit(r) \/ Die(r)
    \/ New(r) \/ NewTorn(r) \/ AppendLine(r) \/ AppendTorn(r) \/ TurnWritten(r)
    \/ RotateList(r) \/ Delete(r)
    \/ NamePending(r) \/ NameWrite(r) \/ NameRename(r) \/ NameFails(r)

StoreNext == (\E r \in bound.recorders : Acts(r)) /\ UNCHANGED bound

StoreSpec == StoreInit /\ [][StoreNext]_storeVars

-----------------------------------------------------------------------------
PCs == {"off", "idle", "append", "turn", "list", "delete", "rename"}

StoreTypeOK ==
    /\ DOMAIN disk \subseteq Paths /\ IsFiniteSet(DOMAIN disk)
    /\ \A p \in DOMAIN disk : disk[p] \in Files
    /\ clock \in Nat
    /\ pc \in [Recorders -> PCs]
    /\ conv \in [Recorders -> Nat] /\ pending \in [Recorders -> BOOLEAN]
    /\ victims \in [Recorders -> SUBSET [id : Nat \ {0}, time : Nat]] /\ temp \in [Recorders -> Nat]
    /\ {sessions, entries, names, faults} \subseteq Nat
    /\ acked \subseteq Nat \X Nat /\ titled \subseteq Nat /\ bound \in Bounds

Alone == \E r \in Recorders : bound.recorders = {r}
Exists(id) == Session(id) \in DOMAIN disk
Loaded(id) == disk[Session(id)].messages \cup disk[Session(id)].missions
Lost == {a \in acked : Exists(a[1]) /\ a[2] \notin Loaded(a[1])}

\* Every death and every failed write costs at most one recorded entry, over
\* any sequence of resumes, appends and renames that follows.
LossBounded == Cardinality(Lost) <= faults

\* "At most the last line is lost": what was recorded without an error loads.
AckedSurvives == Lost = {}

\* "Losing the conversation is not acceptable": a session that recorded an
\* entry loads as long as its file exists, whatever died or failed since.
ConversationLoads == \A a \in acked : Exists(a[1]) => Loads(Session(a[1]))

\* A title the user was told is set is the one in the file, also when it was
\* typed before there was a file.
NamePersisted == \A id \in titled : Exists(id) => disk[Session(id)].whole /\ disk[Session(id)].named

\* The temporary file of a rewrite that died lists its session a second time.
Leftover(id) == \E p \in List : p[1] = "temp" /\ disk[p].id = id

\* A recorder that runs keeps the file it appends to through its own rotations,
\* but for a leftover of it that is rotated away.
LiveKept == \A r \in Recorders :
    pc[r] # "off" /\ conv[r] # 0 => Exists(conv[r]) \/ Leftover(conv[r])

\* Whatever the recorders interleave, once none is in the middle of something
\* the directory lists no more than KeepLast sessions.  A title that is set
\* while another program rotates may bring back what that deleted.
RetentionBounded ==
    KeepLast > 0 /\ faults = 0 /\ (Alone \/ names = 0)
    /\ (\A r \in Recorders : pc[r] \in {"off", "idle"})
        => Cardinality(List) <= KeepLast

\* What convo/store.go promises (129-159, 334-434).  Sessions load and titles
\* last, whoever writes beside; a fault costs one entry at most, also in a session
\* two terminals write to, unless one of them renames it; rotation catches up; and
\* alone in the directory a recorder keeps the session it uses.
StoreKeeps ==
    /\ ConversationLoads /\ NamePersisted /\ RetentionBounded
    /\ Alone \/ names = 0 => LossBounded
    /\ Alone => LiveKept

\* Alone, rotation deletes a session only when KeepLast more recent ones are
\* listed at that moment, over any sequence of resumes, renames, deaths and rotations,
\* but for the sessions of which a leftover temporary file exists.
KeepsRecent ==
    [][\A id \in 1..MaxSessions :
          Alone /\ Exists(id) /\ ~Exists(id)' /\ ~Leftover(id)
              => Cardinality(Newer(Session(id))) >= KeepLast]_storeVars

=============================================================================
