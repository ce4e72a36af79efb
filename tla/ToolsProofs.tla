---------------------------- MODULE ToolsProofs ----------------------------
(***************************************************************************)
(* Theorems about Tools, for every number of doors, names, manifests and   *)
(* limits.                                                                 *)
(***************************************************************************)
EXTENDS Tools, FiniteSetTheorems, SequenceTheorems, WellFoundedInduction, TLAPS

-----------------------------------------------------------------------------
(* The shelf: the directories, the calls and the registries.               *)

Manifests == Bodies \cup {""}
Earlier == {"unverified", "verified", "broken"}
ToolStates == [state : States, hash : Manifests, previous : Earlier \cup {""}]
Dirs == [exists : BOOLEAN, manifest : Manifests, state : ToolStates, saved : BOOLEAN]
Places == {"idle", "making", "creating", "editing", "edited", "demoting",
           "reading", "testing", "shelving", "deleting"}
Calls == [at : Places, name : Names \cup {""}, body : Manifests, state : ToolStates,
          hash : Manifests, files : SUBSET {"tool.toml", "state.json"}]

ShelfTypes == /\ dir \in [Names -> Dirs]
              /\ call \in [Doors -> Calls]
              /\ registered \in [Doors -> SUBSET (Names \X Bodies)]

\* What is not there has nothing in it.
DirShape(n) == /\ ~dir[n].exists => dir[n] = Absent
               /\ ~dir[n].saved => dir[n].state = Fresh

\* A door at rest holds nothing; one that is to write holds what to write.
CallShape(d) == /\ call[d].at = "idle" => call[d] = Idle
                /\ call[d].at # "idle" => Name(d) \in Names
                /\ call[d].at \in {"making", "creating", "editing"} => call[d].body \in Bodies

\* A state that is, or revives as, verified carries the hash of a manifest
\* that passed.
Proven(s, good) ==
    /\ s.state = "archived" => s.previous # ""
    /\ s.state = "verified" \/ (s.state = "archived" /\ s.previous = "verified") => s.hash \in good

Bare(n) == dir[n].exists /\ dir[n].manifest = ""
Holds(d, n) == Name(d) = n /\ call[d].at \in {"creating", "deleting"}

\* What is on the shelf under a name that is not spoilt.
NameKept(n) == n \notin spoilt => /\ Proven(dir[n].state, passed)
                                  /\ Bare(n) => \E d \in Doors : Holds(d, n)

\* What a door carries for such a name.
DoorKept(d) ==
    call[d].at # "idle" /\ Name(d) \notin spoilt =>
        /\ Proven(call[d].state, passed)
        /\ call[d].at = "reading" => dir[Name(d)].manifest \in {call[d].body, ""}
        /\ call[d].at = "testing" => call[d].hash = call[d].body

ShelfInv == /\ ShelfTypes
            /\ \A n \in Names : DirShape(n) /\ NameKept(n)
            /\ \A d \in Doors : CallShape(d) /\ DoorKept(d)
\* Marks and bodies.
LEMMA Kinds == /\ "" \notin Bodies /\ Fresh \in ToolStates /\ Absent \in Dirs
               /\ Idle \in Calls
               /\ Good \subseteq Bodies /\ Bodies \subseteq Manifests
BY ToolsAssumption DEF Bodies, Manifests, Fresh, ToolStates, States, Absent, Dirs, Idle,
   Calls, Places

\* The transitions of state.json keep its type and stay proven.
LEMMA Transitions ==
    ASSUME NEW s \in ToolStates, NEW good, Proven(s, good)
    PROVE  /\ \A h \in Manifests : Demoted(s, h) \in ToolStates /\ Proven(Demoted(s, h), good)
           /\ Edit(s) \in ToolStates /\ Proven(Edit(s), good)
           /\ Archive(s) \in ToolStates /\ Proven(Archive(s), good)
           /\ Revive(s) \in ToolStates /\ Proven(Revive(s), good)
<1> USE DEF ToolStates, States, Earlier, Proven
<1>1. \A h \in Manifests : Demoted(s, h) \in ToolStates /\ Proven(Demoted(s, h), good)
  BY DEF Demoted
<1>2. Edit(s) \in ToolStates /\ Proven(Edit(s), good)
  BY DEF Edit
<1>3. Archive(s) \in ToolStates /\ Proven(Archive(s), good)
  BY DEF Archive
<1>4. Revive(s) \in ToolStates /\ Proven(Revive(s), good)
  BY DEF Revive
<1> QED
  BY <1>1, <1>2, <1>3, <1>4

\* The same of types alone, for a state that may be spoilt.
LEMMA TransitionTypes ==
    ASSUME NEW s \in ToolStates
    PROVE  /\ \A h \in Manifests : Demoted(s, h) \in ToolStates
           /\ \A h \in Manifests, ok \in BOOLEAN : Probe(s, ok, h) \in ToolStates
           /\ Edit(s) \in ToolStates /\ Archive(s) \in ToolStates /\ Revive(s) \in ToolStates
BY DEF ToolStates, States, Earlier, Demoted, Probe, Edit, Archive, Revive

\* A self-test proves the state of the manifest it was about.
LEMMA ProbeProves ==
    ASSUME NEW s \in ToolStates, NEW good, Proven(s, good), NEW ok \in BOOLEAN, NEW h,
           ok => h \in good
    PROVE  Proven(Probe(s, ok, h), good)
BY DEF ToolStates, Proven, Probe

\* Manifests that passed stay passed.
LEMMA ProvenGrows == ASSUME NEW s, NEW good, NEW more, good \subseteq more, Proven(s, good)
                     PROVE  Proven(s, more)
BY DEF Proven

\* A step that disturbs one name and one door at most keeps the shelf.
LEMMA StepKeeps ==
    ASSUME ShelfInv, NEW n, NEW d, ShelfTypes',
           spoilt \subseteq spoilt', passed \subseteq passed',
           \A m \in Names : m # n => dir'[m] = dir[m],
           \A x \in Doors : x # d => call'[x] = call[x],
           n \in Names => DirShape(n)',
           n \in Names \ spoilt' => Proven(dir'[n].state, passed'),
           n \in Names \ spoilt' => (Bare(n)' => Bare(n) \/ (d \in Doors /\ Holds(d, n)')),
           d \in Doors => CallShape(d)' /\ DoorKept(d)',
           \/ n \in spoilt' \/ dir'[n].manifest \in {dir[n].manifest, ""}
           \/ \A x \in Doors : call[x].at # "reading" \/ Name(x) # n,
           \A m \in Names \ spoilt' : Holds(d, m) => Holds(d, m)' \/ ~Bare(m)'
    PROVE  ShelfInv'
<1>1. \A m \in Names : DirShape(m)'
  BY DEF ShelfInv, DirShape
<1>2. ASSUME NEW m \in Names, m \notin spoilt'
      PROVE  Proven(dir'[m].state, passed')
  <2>1. CASE m = n
    BY <1>2, <2>1
  <2>2. CASE m # n
    <3>1. Proven(dir[m].state, passed) /\ dir'[m] = dir[m]
      BY <1>2, <2>2 DEF ShelfInv, NameKept
    <3> QED
      BY <3>1, ProvenGrows
  <2> QED
    BY <2>1, <2>2
<1>3. ASSUME NEW m \in Names, m \notin spoilt', Bare(m)'
      PROVE  \E x \in Doors : Holds(x, m)'
  <2>1. Bare(m) \/ (d \in Doors /\ Holds(d, m)')
    <3>1. CASE m = n
      BY <1>3, <3>1
    <3>2. CASE m # n
      BY <1>3, <3>2 DEF Bare
    <3> QED
      BY <3>1, <3>2
  <2>2. CASE Bare(m)
    <3>1. PICK x \in Doors : Holds(x, m)
      BY <1>3, <2>2 DEF ShelfInv, NameKept
    <3>2. CASE x = d
      BY <1>3, <3>1, <3>2
    <3>3. CASE x # d
      BY <3>1, <3>3 DEF Holds, Name
    <3> QED
      BY <3>2, <3>3
  <2> QED
    BY <2>1, <2>2
<1>4. \A m \in Names : NameKept(m)'
  BY <1>2, <1>3 DEF NameKept
<1>5. ASSUME NEW x \in Doors PROVE CallShape(x)' /\ DoorKept(x)'
  <2>1. CASE x = d
    BY <2>1
  <2>2. CASE x # d
    <3>1. call'[x] = call[x] /\ CallShape(x) /\ DoorKept(x) /\ Name(x)' = Name(x)
      BY <2>2 DEF ShelfInv, Name
    <3>2. CallShape(x)'
      BY <3>1 DEF CallShape
    <3>3. ASSUME call[x].at # "idle", Name(x) \notin spoilt'
          PROVE  /\ Proven(call[x].state, passed')
                 /\ call[x].at = "testing" => call[x].hash = call[x].body
      BY <3>1, <3>3, ProvenGrows DEF DoorKept
    <3>4. ASSUME call[x].at = "reading", Name(x) \notin spoilt'
          PROVE  dir'[Name(x)].manifest \in {call[x].body, ""}
      <4>1. dir[Name(x)].manifest \in {call[x].body, ""} /\ Name(x) \in Names
        BY <3>1, <3>4 DEF DoorKept, CallShape
      <4>2. CASE Name(x) = n
        BY <3>4, <4>1, <4>2
      <4>3. CASE Name(x) # n
        BY <4>1, <4>3
      <4> QED
        BY <4>2, <4>3
    <3> QED
      BY <3>1, <3>2, <3>3, <3>4 DEF DoorKept
  <2> QED
    BY <2>1, <2>2
<1> QED
  BY <1>1, <1>4, <1>5 DEF ShelfInv

\* A step of a door that leaves the directories alone.
LEMMA MoveKeeps ==
    ASSUME ShelfInv, NEW d \in Doors, dir' = dir, passed' = passed, spoilt \subseteq spoilt',
           registered' = registered,
           NEW c \in Calls, call' = [call EXCEPT ![d] = c],
           CallShape(d)', DoorKept(d)',
           \A m \in Names \ spoilt' : Holds(d, m) => Holds(d, m)' \/ ~Bare(m)
    PROVE  ShelfInv'
<1>1. call' \in [Doors -> Calls] /\ call'[d] = c /\ \A x \in Doors : x # d => call'[x] = call[x]
  BY DEF ShelfInv, ShelfTypes
<1>2. ShelfTypes'
  BY <1>1 DEF ShelfInv, ShelfTypes
<1>3. \A m \in Names : DirShape(m)' /\ (m \notin spoilt' => Proven(dir'[m].state, passed'))
  BY DEF ShelfInv, DirShape, NameKept
<1>4. \A m \in Names \ spoilt' : Holds(d, m) => Holds(d, m)' \/ ~Bare(m)'
  BY DEF Bare
<1>5. \A m \in Names : Bare(m)' => Bare(m)
  BY DEF Bare
<1>6. \A m \in Names : dir'[m].manifest = dir[m].manifest
  OBVIOUS
<1>7. Name(d) \in Names => ShelfInv'
  BY <1>1, <1>2, <1>3, <1>4, <1>5, <1>6, StepKeeps
<1>8. CASE Name(d) \notin Names
  <2>1. dir'[Name(d)].manifest \in {dir[Name(d)].manifest, ""}
    OBVIOUS
  <2> QED
    BY <1>1, <1>2, <1>3, <1>4, <1>8, <2>1, StepKeeps
<1> QED
  BY <1>7, <1>8

\* What the calls that start an operation have in common.
LEMMA BeginKeeps ==
    ASSUME ShelfInv, NEW d \in Doors, dir' = dir, passed' = passed, spoilt' = spoilt,
           registered' = registered, call[d].at = "idle",
           NEW c \in Calls, call' = [call EXCEPT ![d] = c],
           c.at \in Places \ {"idle", "testing"}, c.name \in Names,
           c.at \in {"making", "creating", "editing"} => c.body \in Bodies,
           c.name \notin spoilt => Proven(c.state, passed),
           c.at = "reading" => dir[c.name].manifest = c.body
    PROVE  ShelfInv'
<1>1. call'[d] = c
  BY DEF ShelfInv, ShelfTypes
<1>2. CallShape(d)'
  BY <1>1 DEF CallShape, Name
<1>3. DoorKept(d)'
  <2>1. c.name \notin spoilt' => Proven(c.state, passed')
    OBVIOUS
  <2>2. c.at = "reading" => dir'[c.name].manifest \in {c.body, ""}
    OBVIOUS
  <2>3. c.at # "testing"
    OBVIOUS
  <2> QED
    BY <1>1, <2>1, <2>2, <2>3, Zenon DEF DoorKept, Name
<1>4. \A m \in Names : ~Holds(d, m)
  BY DEF Holds
<1> QED
  BY <1>2, <1>3, <1>4, MoveKeeps

LEMMA CallFacts ==
    ASSUME ShelfInv, NEW d \in Doors
    PROVE  /\ call[d] \in Calls
           /\ call[d].at = "idle" => call[d] = Idle
           /\ call[d].at # "idle" => Name(d) \in Names /\ dir[Name(d)] \in Dirs
           /\ call[d].at \in {"making", "creating", "editing"} => call[d].body \in Bodies
           /\ Name(d) = call[d].name
BY DEF ShelfInv, ShelfTypes, CallShape, Name

LEMMA NameFacts ==
    ASSUME ShelfInv, NEW n \in Names
    PROVE  /\ dir[n] \in Dirs
           /\ DirShape(n)
           /\ dir[n].state \in ToolStates
           /\ n \notin spoilt => Proven(dir[n].state, passed)
BY DEF ShelfInv, ShelfTypes, NameKept, Dirs

LEMMA FreshProven == \A good : Proven(Fresh, good)
BY DEF Proven, Fresh

LEMMA CreateKeeps ==
    ASSUME ShelfInv, NEW d \in Doors, NEW n \in Names, NEW body \in Bodies, NEW origin, NEW force,
           Create(d, n, body, origin, force)
    PROVE  ShelfInv'
<1> DEFINE c == [Idle EXCEPT !.at = "making", !.name = n, !.body = body]
<1>1. call[d].at = "idle" /\ call[d] = Idle
  BY CallFacts DEF Create, Begins
<1>2. call' = [call EXCEPT ![d] = c]
  BY <1>1 DEF Create, Begins
<1>3. c \in Calls /\ c.at = "making" /\ c.name = n /\ c.body = body /\ c.state = Fresh
  BY Kinds DEF Calls, Idle, Places
<1> HIDE DEF c
<1> QED
  BY <1>1, <1>2, <1>3, FreshProven, BeginKeeps DEF Create, Places

LEMMA EditReadsKeeps ==
    ASSUME ShelfInv, NEW d \in Doors, NEW n \in Names, NEW body \in Bodies, EditReads(d, n, body)
    PROVE  ShelfInv'
<1> DEFINE c == [Idle EXCEPT !.at = "editing", !.name = n, !.body = body]
<1>1. call[d].at = "idle" /\ call[d] = Idle
  BY CallFacts DEF EditReads, Begins
<1>2. call' = [call EXCEPT ![d] = c]
  BY <1>1 DEF EditReads, Begins
<1>3. c \in Calls /\ c.at = "editing" /\ c.name = n /\ c.body = body /\ c.state = Fresh
  BY Kinds DEF Calls, Idle, Places
<1> HIDE DEF c
<1> QED
  BY <1>1, <1>2, <1>3, FreshProven, BeginKeeps DEF EditReads, Places

LEMMA ProbeReadsKeeps ==
    ASSUME ShelfInv, NEW d \in Doors, NEW n \in Names, ProbeReads(d, n)
    PROVE  ShelfInv'
<1> DEFINE body == dir[n].manifest
           c == [Idle EXCEPT !.at = "reading", !.name = n, !.body = body]
<1>1. call[d].at = "idle" /\ call[d] = Idle
  BY CallFacts DEF ProbeReads, Begins
<1>2. call' = [call EXCEPT ![d] = c]
  BY <1>1 DEF ProbeReads, Begins
<1>3. body \in Manifests
  BY NameFacts DEF Dirs
<1>4. c \in Calls /\ c.at = "reading" /\ c.name = n /\ c.body = dir[n].manifest /\ c.state = Fresh
  BY <1>3, Kinds DEF Calls, Idle, Places
<1> HIDE DEF c
<1> QED
  BY <1>1, <1>2, <1>4, FreshProven, BeginKeeps DEF ProbeReads, Places

LEMMA ShelvingBegins ==
    ASSUME ShelfInv, NEW d \in Doors, NEW n \in Names, ArchiveLoads(d, n) \/ ReviveLoads(d, n)
    PROVE  ShelfInv'
<1> PICK s \in ToolStates : /\ n \notin spoilt => Proven(s, passed)
                            /\ call' = [call EXCEPT ![d].at = "shelving", ![d].name = n, ![d].state = s]
  BY NameFacts, Transitions, TransitionTypes DEF ArchiveLoads, ReviveLoads
<1> DEFINE c == [Idle EXCEPT !.at = "shelving", !.name = n, !.state = s]
<1>1. call[d].at = "idle" /\ call[d] = Idle
  BY CallFacts DEF ArchiveLoads, ReviveLoads
<1>2. call' = [call EXCEPT ![d] = c]
  BY <1>1
<1>3. c \in Calls /\ c.at = "shelving" /\ c.name = n /\ c.state = s
  BY Kinds DEF Calls, Idle, Places
<1> HIDE DEF c
<1> QED
  BY <1>1, <1>2, <1>3, BeginKeeps DEF ArchiveLoads, ReviveLoads, Places

LEMMA DeleteListsKeeps ==
    ASSUME ShelfInv, NEW d \in Doors, NEW n \in Names, DeleteLists(d, n)
    PROVE  ShelfInv'
<1> DEFINE files == {"tool.toml"} \cup (IF dir[n].saved THEN {"state.json"} ELSE {})
           c == [Idle EXCEPT !.at = "deleting", !.name = n, !.files = files]
<1>1. call[d].at = "idle" /\ call[d] = Idle
  BY CallFacts DEF DeleteLists
<1>2. call' = [call EXCEPT ![d] = c]
  BY <1>1 DEF DeleteLists
<1>3. files \in SUBSET {"tool.toml", "state.json"}
  OBVIOUS
<1> HIDE DEF files
<1>4. c \in Calls /\ c.at = "deleting" /\ c.name = n /\ c.state = Fresh
  BY <1>3, Kinds DEF Calls, Idle, Places
<1> HIDE DEF c
<1> QED
  BY <1>1, <1>2, <1>4, FreshProven, BeginKeeps DEF DeleteLists, Places

\* A door that goes on keeps what it holds, or lets go of a spoilt name.
LEMMA EditLoadsKeeps ==
    ASSUME ShelfInv, NEW d \in Doors, EditLoads(d)
    PROVE  ShelfInv'
<1> DEFINE s == dir[Name(d)].state
           c == [call[d] EXCEPT !.at = "demoting", !.state = s]
<1>1. call[d] \in Calls /\ call[d].at = "edited" /\ Name(d) \in Names /\ Name(d) = call[d].name
  BY CallFacts DEF EditLoads
<1>2. s \in ToolStates /\ (Name(d) \notin spoilt => Proven(s, passed))
  BY <1>1, NameFacts
<1> HIDE DEF s
<1>3. c \in Calls /\ c.at = "demoting" /\ c.name = Name(d) /\ c.state = s
  BY <1>1, <1>2 DEF Calls, Places
<1>4. call' = [call EXCEPT ![d] = c]
  BY DEF EditLoads, s
<1> HIDE DEF c
<1>5. call'[d] = c
  BY <1>4 DEF ShelfInv, ShelfTypes
<1>6. CallShape(d)'
  BY <1>1, <1>3, <1>5 DEF CallShape, Name
<1>7. DoorKept(d)'
  <2>1. passed' = passed /\ spoilt' = spoilt
    BY DEF EditLoads
  <2> QED
    BY <1>2, <1>3, <1>5, <2>1 DEF DoorKept, Name
<1>8. \A m \in Names : ~Holds(d, m)
  BY <1>1 DEF Holds
<1> QED
  BY <1>3, <1>4, <1>6, <1>7, <1>8, MoveKeeps DEF EditLoads

\* A door that ends its operation.
LEMMA IdleKept ==
    ASSUME ShelfInv, NEW d \in Doors, Return(d)
    PROVE  /\ call' \in [Doors -> Calls] /\ call'[d] = Idle
           /\ \A x \in Doors : x # d => call'[x] = call[x]
           /\ CallShape(d)' /\ DoorKept(d)'
<1>1. call' \in [Doors -> Calls] /\ call'[d] = Idle /\ \A x \in Doors : x # d => call'[x] = call[x]
  BY Kinds DEF ShelfInv, ShelfTypes, Return
<1>2. CallShape(d)' /\ DoorKept(d)'
  <2>0. Idle.at = "idle"
    BY DEF Idle
  <2>1. call'[d].at = "idle"
    BY <1>1, <2>0, Zenon
  <2>2. CallShape(d)'
    BY <1>1, <2>1 DEF CallShape, Idle
  <2>3. DoorKept(d)'
    BY <2>1, Zenon DEF DoorKept
  <2> QED
    BY <2>2, <2>3
<1> QED
  BY <1>1, <1>2

LEMMA InterruptKeeps ==
    ASSUME ShelfInv, NEW d \in Doors, Interrupt(d)
    PROVE  ShelfInv'
<1>1. CallShape(d)' /\ DoorKept(d)'
  BY IdleKept DEF Interrupt
<1>2. spoilt \subseteq spoilt' /\ \A m \in Names \ spoilt' : ~Holds(d, m)
  BY DEF Interrupt, Holds
<1> QED
  BY <1>1, <1>2, Kinds, MoveKeeps DEF Interrupt, Return

LEMMA ProbeLoadsKeeps ==
    ASSUME ShelfInv, NEW d \in Doors, ProbeLoads(d)
    PROVE  ShelfInv'
<1> DEFINE s == Demoted(dir[Name(d)].state, dir[Name(d)].manifest)
           c == [call[d] EXCEPT !.at = "testing", !.hash = dir[Name(d)].manifest, !.state = s]
<1>1. /\ call[d] \in Calls /\ call[d].at = "reading" /\ Name(d) \in Names
      /\ Name(d) = call[d].name /\ dir[Name(d)] \in Dirs
  BY CallFacts DEF ProbeLoads
<1>2. dir[Name(d)].manifest \in Manifests
  BY <1>1 DEF Dirs
<1>3. s \in ToolStates /\ (Name(d) \notin spoilt => Proven(s, passed))
  <2>1. dir[Name(d)].state \in ToolStates
    BY <1>1, NameFacts
  <2>2. s \in ToolStates
    BY <1>2, <2>1, TransitionTypes
  <2>3. ASSUME Name(d) \notin spoilt PROVE Proven(s, passed)
    <3>1. Proven(dir[Name(d)].state, passed)
      BY <1>1, <2>3, NameFacts
    <3> QED
      BY <1>2, <2>1, <3>1, Transitions
  <2> QED
    BY <2>2, <2>3
<1> HIDE DEF s
<1>4. \A m \in Names : ~Holds(d, m)
  BY <1>1 DEF Holds
<1>5. CASE ~HasManifest(Name(d))
  <2>1. call' = [call EXCEPT ![d] = Idle]
    BY <1>5 DEF ProbeLoads
  <2>2. CallShape(d)' /\ DoorKept(d)'
    BY <2>1, IdleKept DEF Return
  <2> QED
    BY <1>4, <2>1, <2>2, Kinds, MoveKeeps DEF ProbeLoads
<1>6. CASE HasManifest(Name(d))
  <2>1. call' = [call EXCEPT ![d] = c]
    BY <1>6 DEF ProbeLoads, s
  <2>2. /\ c \in Calls /\ c.at = "testing" /\ c.name = Name(d) /\ c.state = s
        /\ c.body = call[d].body /\ c.hash = dir[Name(d)].manifest
    BY <1>1, <1>2, <1>3 DEF Calls, Places
  <2> HIDE DEF c
  <2>3. call'[d] = c
    BY <2>1 DEF ShelfInv, ShelfTypes
  <2>4. CallShape(d)'
    BY <1>1, <2>2, <2>3 DEF CallShape, Name
  <2>5. Name(d) \notin spoilt => c.hash = c.body
    BY <1>1, <1>6, <2>2 DEF ShelfInv, DoorKept, HasManifest
  <2>6. DoorKept(d)'
    <3>1. passed' = passed /\ spoilt' = spoilt
      BY DEF ProbeLoads
    <3> QED
      BY <1>3, <2>2, <2>3, <2>5, <3>1 DEF DoorKept, Name
  <2> QED
    BY <1>4, <2>1, <2>2, <2>4, <2>6, MoveKeeps DEF ProbeLoads
<1> QED
  BY <1>5, <1>6

\* What a manifest written, and a state saved, does to a directory.
LEMMA WriteDir ==
    ASSUME ShelfInv, NEW n \in Names, NEW body \in Bodies, dir[n].exists, Write(n, body)
    PROVE  /\ dir' \in [Names -> Dirs] /\ \A m \in Names : m # n => dir'[m] = dir[m]
           /\ DirShape(n)' /\ ~Bare(n)' /\ spoilt \subseteq spoilt'
           /\ n \notin spoilt' => Proven(dir'[n].state, passed)
           /\ n \in spoilt' \/ \A x \in Doors : call[x].at # "reading" \/ Name(x) # n
<1>1. dir \in [Names -> Dirs] /\ dir[n] \in Dirs /\ DirShape(n)
  BY NameFacts DEF ShelfInv, ShelfTypes
<1>2. body \in Manifests /\ body # ""
  BY Kinds
<1>3. /\ dir' \in [Names -> Dirs] /\ dir'[n] = [dir[n] EXCEPT !.manifest = body]
      /\ \A m \in Names : m # n => dir'[m] = dir[m]
  BY <1>1, <1>2 DEF Write, Dirs
<1>4. /\ dir'[n].state = dir[n].state /\ dir'[n].manifest = body
      /\ dir'[n].saved = dir[n].saved /\ dir'[n].exists = dir[n].exists
  BY <1>1, <1>3 DEF Dirs
<1>5. DirShape(n)'
  BY <1>1, <1>4 DEF DirShape
<1>6. ~Bare(n)'
  BY <1>2, <1>4 DEF Bare
<1>7. /\ spoilt \subseteq spoilt'
      /\ n \in spoilt' \/ \A x \in Doors : call[x].at # "reading" \/ Name(x) # n
  BY DEF Write
<1>8. n \notin spoilt' => Proven(dir'[n].state, passed)
  BY <1>4, <1>7, NameFacts
<1> QED
  BY <1>3, <1>5, <1>6, <1>7, <1>8

LEMMA SaveDir ==
    ASSUME ShelfInv, NEW n \in Names, NEW s \in ToolStates, SaveState(n, s),
           spoilt' = spoilt, passed \subseteq passed', n \notin spoilt => Proven(s, passed')
    PROVE  /\ dir' \in [Names -> Dirs] /\ \A m \in Names : m # n => dir'[m] = dir[m]
           /\ DirShape(n)' /\ (Bare(n)' => Bare(n)) /\ dir'[n].manifest = dir[n].manifest
           /\ n \notin spoilt => Proven(dir'[n].state, passed')
<1>1. dir \in [Names -> Dirs] /\ dir[n] \in Dirs /\ DirShape(n)
  BY NameFacts DEF ShelfInv, ShelfTypes
<1>2. CASE ~dir[n].exists
  <2>1. dir' = dir
    BY <1>2 DEF SaveState
  <2>2. n \notin spoilt => Proven(dir[n].state, passed')
    BY NameFacts, ProvenGrows
  <2> QED
    BY <1>1, <2>1, <2>2 DEF DirShape, Bare
<1>3. CASE dir[n].exists
  <2>1. /\ dir' \in [Names -> Dirs] /\ dir'[n] = [dir[n] EXCEPT !.state = s, !.saved = TRUE]
        /\ \A m \in Names : m # n => dir'[m] = dir[m]
    BY <1>1, <1>3 DEF SaveState, Dirs
  <2>2. /\ dir'[n].state = s /\ dir'[n].manifest = dir[n].manifest
        /\ dir'[n].saved = TRUE /\ dir'[n].exists = dir[n].exists
    BY <1>1, <2>1 DEF Dirs
  <2>3. DirShape(n)'
    BY <1>3, <2>2 DEF DirShape
  <2>4. Bare(n)' => Bare(n)
    BY <2>2 DEF Bare
  <2> QED
    BY <2>1, <2>2, <2>3, <2>4
<1> QED
  BY <1>2, <1>3

\* What happened at a name that the step only saved, or wrote.
LEMMA SaveReturns ==
    ASSUME ShelfInv, NEW d \in Doors, call[d].at \notin {"idle", "creating", "deleting"},
           NEW s \in ToolStates, SaveState(Name(d), s), Return(d),
           registered' = registered, spoilt' = spoilt, passed \subseteq passed',
           Name(d) \notin spoilt => Proven(s, passed')
    PROVE  ShelfInv'
<1>1. PICK n \in Names : n = Name(d)
  BY CallFacts
<1>2. /\ dir' \in [Names -> Dirs] /\ \A m \in Names : m # n => dir'[m] = dir[m]
      /\ DirShape(n)' /\ (Bare(n)' => Bare(n)) /\ dir'[n].manifest = dir[n].manifest
      /\ n \notin spoilt => Proven(dir'[n].state, passed')
  <2>1. SaveState(n, s) /\ (n \notin spoilt => Proven(s, passed'))
    BY <1>1
  <2> QED
    BY <2>1, SaveDir
<1>3. /\ call' \in [Doors -> Calls] /\ \A x \in Doors : x # d => call'[x] = call[x]
      /\ CallShape(d)' /\ DoorKept(d)'
  BY IdleKept
<1>4. ShelfTypes'
  BY <1>2, <1>3 DEF ShelfInv, ShelfTypes
<1>5. \A m \in Names : ~Holds(d, m)
  BY DEF Holds
<1> QED
  BY <1>2, <1>3, <1>4, <1>5, StepKeeps

LEMMA EditSavesKeeps ==
    ASSUME ShelfInv, NEW d \in Doors, EditSaves(d)
    PROVE  ShelfInv'
<1>1. call[d] \in Calls /\ call[d].at = "demoting"
  BY CallFacts DEF EditSaves
<1>2. call[d].state \in ToolStates
  BY <1>1 DEF Calls
<1>3. Edit(call[d].state) \in ToolStates
  BY <1>2, TransitionTypes
<1>4. Name(d) \notin spoilt => Proven(Edit(call[d].state), passed)
  BY <1>1, <1>2, Transitions DEF ShelfInv, DoorKept
<1> QED
  BY <1>1, <1>3, <1>4, SaveReturns DEF EditSaves

LEMMA ShelfSavesKeeps ==
    ASSUME ShelfInv, NEW d \in Doors, ShelfSaves(d)
    PROVE  ShelfInv'
<1>1. call[d] \in Calls /\ call[d].at = "shelving"
  BY CallFacts DEF ShelfSaves
<1>2. call[d].state \in ToolStates
  BY <1>1 DEF Calls
<1>3. Name(d) \notin spoilt => Proven(call[d].state, passed)
  BY <1>1 DEF ShelfInv, DoorKept
<1> QED
  BY <1>1, <1>2, <1>3, SaveReturns DEF ShelfSaves

\* The manifest that was tested is the one whose hash is kept.
LEMMA SelfTestKeeps ==
    ASSUME ShelfInv, NEW d \in Doors, NEW ok \in BOOLEAN, SelfTest(d, ok)
    PROVE  ShelfInv'
<1> DEFINE s == Probe(call[d].state, ok, call[d].hash)
<1>1. call[d] \in Calls /\ call[d].at = "testing"
  BY CallFacts DEF SelfTest
<1>2. call[d].state \in ToolStates /\ call[d].hash \in Manifests
  BY <1>1 DEF Calls
<1>3. s \in ToolStates
  BY <1>2, TransitionTypes
<1>4. passed \subseteq passed' /\ (ok => call[d].body \in passed')
  BY DEF SelfTest
<1>5. ASSUME Name(d) \notin spoilt PROVE Proven(s, passed')
  <2>1. Proven(call[d].state, passed) /\ call[d].hash = call[d].body
    BY <1>1, <1>5 DEF ShelfInv, DoorKept
  <2>2. Proven(call[d].state, passed')
    BY <1>4, <2>1, ProvenGrows
  <2> QED
    BY <1>2, <1>4, <2>1, <2>2, ProbeProves
<1>6. SaveState(Name(d), s) /\ Return(d) /\ registered' = registered /\ spoilt' = spoilt
  BY DEF SelfTest
<1> HIDE DEF s
<1> QED
  BY <1>1, <1>3, <1>4, <1>5, <1>6, SaveReturns

LEMMA MakesDirectoryKeeps ==
    ASSUME ShelfInv, NEW d \in Doors, MakesDirectory(d)
    PROVE  ShelfInv'
<1> DEFINE c == [call[d] EXCEPT !.at = "creating"]
<1>0. PICK n \in Names : n = Name(d)
  BY CallFacts DEF MakesDirectory
<1>1. /\ call[d] \in Calls /\ call[d].at = "making" /\ n \in Names
      /\ n = Name(d) /\ n = call[d].name /\ call[d].body \in Bodies
  BY <1>0, CallFacts DEF MakesDirectory
<1>2. dir[n] \in Dirs /\ DirShape(n) /\ (n \notin spoilt => Proven(dir[n].state, passed))
  BY <1>1, NameFacts
<1>3. /\ dir' \in [Names -> Dirs] /\ dir'[n] = [dir[n] EXCEPT !.exists = TRUE]
      /\ \A m \in Names : m # n => dir'[m] = dir[m]
  BY <1>1, <1>2 DEF MakesDirectory, ShelfInv, ShelfTypes, Dirs
<1>4. /\ dir'[n].state = dir[n].state /\ dir'[n].manifest = dir[n].manifest
      /\ dir'[n].saved = dir[n].saved /\ dir'[n].exists = TRUE
  BY <1>2, <1>3 DEF Dirs
<1>5. DirShape(n)'
  BY <1>2, <1>4 DEF DirShape
<1>6. c \in Calls /\ c.at = "creating" /\ c.name = n /\ c.state = call[d].state /\ c.body = call[d].body
  BY <1>1 DEF Calls, Places
<1>7. call' = [call EXCEPT ![d] = c]
  BY DEF MakesDirectory, Goto
<1> HIDE DEF c
<1>8. call' \in [Doors -> Calls] /\ call'[d] = c /\ \A x \in Doors : x # d => call'[x] = call[x]
  BY <1>6, <1>7 DEF ShelfInv, ShelfTypes
<1>9. Holds(d, n)' /\ CallShape(d)'
  BY <1>1, <1>6, <1>8 DEF Holds, CallShape, Name
<1>10. DoorKept(d)'
  <2>1. Name(d) \notin spoilt => Proven(c.state, passed)
    BY <1>1, <1>6 DEF ShelfInv, DoorKept
  <2>2. passed' = passed /\ spoilt' = spoilt
    BY DEF MakesDirectory
  <2> QED
    BY <1>1, <1>6, <1>8, <2>1, <2>2 DEF DoorKept, Name
<1>11. ShelfTypes' /\ passed' = passed /\ spoilt' = spoilt
  BY <1>3, <1>8 DEF ShelfInv, ShelfTypes, MakesDirectory
<1>12. \A m \in Names : ~Holds(d, m)
  BY <1>1 DEF Holds
<1>13. n \notin spoilt => Proven(dir'[n].state, passed')
  BY <1>2, <1>4, <1>11
<1>14. spoilt \subseteq spoilt' /\ passed \subseteq passed'
  BY <1>11
<1>15. n \in Names \ spoilt' => Proven(dir'[n].state, passed')
  BY <1>11, <1>13
<1>16. n \in Names \ spoilt' => (Bare(n)' => Bare(n) \/ (d \in Doors /\ Holds(d, n)'))
  BY <1>9
<1>17. \A m \in Names \ spoilt' : Holds(d, m) => Holds(d, m)' \/ ~Bare(m)'
  BY <1>12
<1>18. /\ \A m \in Names : m # n => dir'[m] = dir[m]
       /\ \A x \in Doors : x # d => call'[x] = call[x]
       /\ d \in Doors => CallShape(d)' /\ DoorKept(d)'
       /\ n \in Names => DirShape(n)'
  BY <1>3, <1>5, <1>8, <1>9, <1>10
<1>19. \/ n \in spoilt' \/ dir'[n].manifest \in {dir[n].manifest, ""}
       \/ \A x \in Doors : call[x].at # "reading" \/ Name(x) # n
  BY <1>4
<1>20. ShelfInv /\ ShelfTypes'
  BY <1>11
<1> QED
  BY ONLY <1>14, <1>15, <1>16, <1>17, <1>18, <1>19, <1>20, StepKeeps

LEMMA CreateWritesKeeps ==
    ASSUME ShelfInv, NEW d \in Doors, CreateWrites(d)
    PROVE  ShelfInv'
<1>0. PICK n \in Names : n = Name(d)
  BY CallFacts DEF CreateWrites
<1>1. /\ n \in Names /\ n = Name(d) /\ call[d].body \in Bodies /\ passed' = passed /\ registered' = registered
      /\ Return(d)
  BY <1>0, CallFacts DEF CreateWrites
<1>2. /\ call' \in [Doors -> Calls] /\ \A x \in Doors : x # d => call'[x] = call[x]
      /\ CallShape(d)' /\ DoorKept(d)' /\ call' = [call EXCEPT ![d] = Idle]
  BY <1>1, IdleKept DEF Return
<1>3. \A m \in Names : Holds(d, m) => m = n
  BY <1>1 DEF Holds
<1>4. CASE dir[n].exists
  <2>1. Write(n, call[d].body)
    BY <1>1, <1>4 DEF CreateWrites
  <2>2. /\ dir' \in [Names -> Dirs] /\ \A m \in Names : m # n => dir'[m] = dir[m]
        /\ DirShape(n)' /\ ~Bare(n)' /\ spoilt \subseteq spoilt'
        /\ n \notin spoilt' => Proven(dir'[n].state, passed)
        /\ n \in spoilt' \/ \A x \in Doors : call[x].at # "reading" \/ Name(x) # n
    BY <1>1, <1>4, <2>1, WriteDir
  <2>3. ShelfTypes'
    BY <1>1, <1>2, <2>2 DEF ShelfInv, ShelfTypes
  <2>4. \A m \in Names \ spoilt' : Holds(d, m) => Holds(d, m)' \/ ~Bare(m)'
    BY <1>3, <2>2
  <2>5. /\ passed \subseteq passed' /\ (n \notin spoilt' => Proven(dir'[n].state, passed'))
        /\ dir'[n].manifest \in {dir[n].manifest, ""} \/ n \in spoilt'
           \/ \A x \in Doors : call[x].at # "reading" \/ Name(x) # n
    BY <1>1, <2>2
  <2> QED
    BY <1>2, <2>2, <2>3, <2>4, <2>5, StepKeeps
<1>5. CASE ~dir[n].exists
  <2>1. dir' = dir /\ spoilt' = spoilt
    BY <1>1, <1>5 DEF CreateWrites
  <2>2. \A m \in Names \ spoilt' : Holds(d, m) => Holds(d, m)' \/ ~Bare(m)
    BY <1>3, <1>5 DEF Bare
  <2> QED
    BY <1>1, <1>2, <2>1, <2>2, Kinds, MoveKeeps
<1> QED
  BY <1>4, <1>5
LEMMA EditWritesKeeps ==
    ASSUME ShelfInv, NEW d \in Doors, EditWrites(d)
    PROVE  ShelfInv'
<1>0. PICK n \in Names : n = Name(d)
  BY CallFacts DEF EditWrites
<1>1. /\ call[d] \in Calls /\ call[d].at = "editing" /\ n = call[d].name
      /\ call[d].body \in Bodies /\ passed' = passed /\ registered' = registered
  BY <1>0, CallFacts DEF EditWrites
<1>2. \A m \in Names : ~Holds(d, m)
  BY <1>1 DEF Holds
<1>3. CASE dir[n].exists
  <2> DEFINE c == [call[d] EXCEPT !.at = "edited"]
  <2>1. Write(n, call[d].body) /\ call' = [call EXCEPT ![d] = c]
    BY <1>0, <1>3 DEF EditWrites, Goto
  <2>2. /\ dir' \in [Names -> Dirs] /\ \A m \in Names : m # n => dir'[m] = dir[m]
        /\ DirShape(n)' /\ ~Bare(n)' /\ spoilt \subseteq spoilt'
        /\ n \notin spoilt' => Proven(dir'[n].state, passed)
        /\ n \in spoilt' \/ \A x \in Doors : call[x].at # "reading" \/ Name(x) # n
    BY <1>1, <1>3, <2>1, WriteDir
  <2>3. c \in Calls /\ c.at = "edited" /\ c.name = n /\ c.state = call[d].state
    BY <1>1 DEF Calls, Places
  <2> HIDE DEF c
  <2>4. call' \in [Doors -> Calls] /\ call'[d] = c /\ \A x \in Doors : x # d => call'[x] = call[x]
    BY <2>1, <2>3 DEF ShelfInv, ShelfTypes
  <2>5. CallShape(d)'
    BY <2>3, <2>4 DEF CallShape, Name
  <2>6. DoorKept(d)'
    <3>1. n \notin spoilt => Proven(c.state, passed)
      BY <1>0, <1>1, <2>3 DEF ShelfInv, DoorKept
    <3> QED
      BY <1>1, <2>2, <2>3, <2>4, <3>1 DEF DoorKept, Name
  <2>7. ShelfTypes'
    BY <1>1, <2>2, <2>4 DEF ShelfInv, ShelfTypes
  <2>8. /\ passed \subseteq passed' /\ (n \notin spoilt' => Proven(dir'[n].state, passed'))
        /\ dir'[n].manifest \in {dir[n].manifest, ""} \/ n \in spoilt'
           \/ \A x \in Doors : call[x].at # "reading" \/ Name(x) # n
    BY <1>1, <2>2
  <2> QED
    BY <1>2, <2>2, <2>4, <2>5, <2>6, <2>7, <2>8, StepKeeps
<1>4. CASE ~dir[n].exists
  <2>1. Return(d) /\ dir' = dir /\ spoilt' = spoilt
    BY <1>0, <1>4 DEF EditWrites
  <2>2. CallShape(d)' /\ DoorKept(d)' /\ call' = [call EXCEPT ![d] = Idle]
    BY <2>1, IdleKept DEF Return
  <2> QED
    BY <1>1, <1>2, <2>1, <2>2, Kinds, MoveKeeps
<1> QED
  BY <1>3, <1>4

\* Nothing can be taken from what is not there.
LEMMA AbsentStays == /\ [Absent EXCEPT !.manifest = ""] = Absent
                     /\ [Absent EXCEPT !.state = Fresh, !.saved = FALSE] = Absent
<1>1. ASSUME NEW r \in Dirs
      PROVE  /\ [r EXCEPT !.manifest = r.manifest] = r
             /\ [r EXCEPT !.state = r.state, !.saved = r.saved] = r
  BY DEF Dirs
<1>2. Absent.manifest = "" /\ Absent.state = Fresh
  BY DEF Absent
<1>3. Absent.saved = FALSE
  BY DEF Absent
<1> QED
  BY <1>1, <1>2, <1>3, Kinds

\* Whatever file goes, the state left behind is as proven as it was.
LEMMA DeleteUnlinksKeeps ==
    ASSUME ShelfInv, NEW d \in Doors, NEW file, DeleteUnlinks(d, file)
    PROVE  ShelfInv'
<1> DEFINE c == [call[d] EXCEPT !.files = @ \ {file}]
<1>0. PICK n \in Names : n = Name(d)
  BY CallFacts DEF DeleteUnlinks
<1>1. /\ call[d] \in Calls /\ call[d].at = "deleting" /\ n = call[d].name
      /\ passed' = passed /\ registered' = registered /\ spoilt' = spoilt
  BY <1>0, CallFacts DEF DeleteUnlinks
<1>2. dir[n] \in Dirs /\ DirShape(n) /\ (n \notin spoilt => Proven(dir[n].state, passed))
  BY NameFacts
<1>3. /\ dir' \in [Names -> Dirs] /\ \A m \in Names : m # n => dir'[m] = dir[m]
      /\ DirShape(n)' /\ dir'[n].exists = dir[n].exists
      /\ dir'[n].manifest \in {dir[n].manifest, ""} /\ dir'[n].state \in {dir[n].state, Fresh}
  <2>1. dir \in [Names -> Dirs]
    BY DEF ShelfInv, ShelfTypes
  <2>2. CASE file = "tool.toml"
    <3>1. dir' = [dir EXCEPT ![n].manifest = ""]
      BY <1>0, <2>2 DEF DeleteUnlinks
    <3>2. /\ dir' \in [Names -> Dirs] /\ \A m \in Names : m # n => dir'[m] = dir[m]
          /\ dir'[n] = [dir[n] EXCEPT !.manifest = ""]
      BY <1>2, <2>1, <3>1 DEF Dirs, Manifests
    <3>3. /\ dir'[n].state = dir[n].state /\ dir'[n].manifest = ""
          /\ dir'[n].saved = dir[n].saved /\ dir'[n].exists = dir[n].exists
      BY <1>2, <3>2 DEF Dirs
    <3>4. ~dir[n].exists => dir'[n] = Absent
      BY <1>2, <3>2, AbsentStays DEF DirShape
    <3>5. DirShape(n)'
      BY <1>2, <3>3, <3>4 DEF DirShape
    <3> QED
      BY <3>2, <3>3, <3>5
  <2>3. CASE file # "tool.toml"
    <3>1. dir' = [dir EXCEPT ![n].state = Fresh, ![n].saved = FALSE]
      BY <1>0, <2>3 DEF DeleteUnlinks
    <3>2. /\ dir' \in [Names -> Dirs] /\ \A m \in Names : m # n => dir'[m] = dir[m]
          /\ dir'[n] = [dir[n] EXCEPT !.state = Fresh, !.saved = FALSE]
      BY <1>2, <2>1, <3>1, Kinds DEF Dirs
    <3>3. /\ dir'[n].state = Fresh /\ dir'[n].manifest = dir[n].manifest
          /\ dir'[n].saved = FALSE /\ dir'[n].exists = dir[n].exists
      BY <1>2, <3>2 DEF Dirs
    <3>4. ~dir[n].exists => dir'[n] = Absent
      BY <1>2, <3>2, AbsentStays DEF DirShape
    <3>5. DirShape(n)'
      BY <1>2, <3>3, <3>4 DEF DirShape
    <3> QED
      BY <3>2, <3>3, <3>5
  <2> QED
    BY <2>2, <2>3
<1>4. n \notin spoilt' => Proven(dir'[n].state, passed')
  BY <1>1, <1>2, <1>3, FreshProven
<1>5. /\ c \in Calls /\ c.at = "deleting" /\ c.name = n /\ c.state = call[d].state
      /\ call' = [call EXCEPT ![d] = c]
  BY <1>1 DEF Calls, Places, DeleteUnlinks
<1> HIDE DEF c
<1>6. call' \in [Doors -> Calls] /\ call'[d] = c /\ \A x \in Doors : x # d => call'[x] = call[x]
  BY <1>5 DEF ShelfInv, ShelfTypes
<1>7. CallShape(d)' /\ Holds(d, n)'
  BY <1>5, <1>6 DEF CallShape, Name, Holds
<1>8. DoorKept(d)'
  <2>1. n \notin spoilt => Proven(c.state, passed)
    BY <1>0, <1>1, <1>5 DEF ShelfInv, DoorKept
  <2> QED
    BY <1>1, <1>5, <1>6, <2>1 DEF DoorKept, Name
<1>9. ShelfTypes'
  BY <1>1, <1>3, <1>6 DEF ShelfInv, ShelfTypes
<1>10. \A m \in Names : Holds(d, m) => m = n
  BY <1>0 DEF Holds
<1>11. \A m \in Names \ spoilt' : Holds(d, m) => Holds(d, m)' \/ ~Bare(m)'
  BY <1>7, <1>10
<1>12. passed \subseteq passed' /\ spoilt \subseteq spoilt'
  BY <1>1
<1> QED
  BY <1>3, <1>4, <1>6, <1>7, <1>8, <1>9, <1>11, <1>12, StepKeeps

\* A directory that could not be removed spoils its name.
LEMMA DeleteEndsKeeps ==
    ASSUME ShelfInv, NEW d \in Doors, DeleteEnds(d)
    PROVE  ShelfInv'
<1>0. PICK n \in Names : n = Name(d)
  BY CallFacts DEF DeleteEnds
<1>1. passed' = passed /\ registered' = registered /\ Return(d)
  BY DEF DeleteEnds
<1>2. /\ call' \in [Doors -> Calls] /\ \A x \in Doors : x # d => call'[x] = call[x]
      /\ CallShape(d)' /\ DoorKept(d)' /\ call' = [call EXCEPT ![d] = Idle]
  BY <1>1, IdleKept DEF Return
<1>3. \A m \in Names : Holds(d, m) => m = n
  BY <1>0 DEF Holds
<1>4. CASE dir[n].manifest = "" /\ ~dir[n].saved
  <2>1. dir' = [dir EXCEPT ![n] = Absent] /\ spoilt' = spoilt
    BY <1>0, <1>4 DEF DeleteEnds
  <2>2. /\ dir' \in [Names -> Dirs] /\ \A m \in Names : m # n => dir'[m] = dir[m]
        /\ dir'[n] = Absent
    BY <2>1, Kinds DEF ShelfInv, ShelfTypes
  <2>3. Absent.state = Fresh /\ Absent.manifest = "" /\ Absent.exists = FALSE
    BY DEF Absent
  <2>4. DirShape(n)' /\ ~Bare(n)'
    BY <2>2, <2>3 DEF DirShape, Bare
  <2>5. /\ passed \subseteq passed' /\ spoilt \subseteq spoilt'
        /\ Proven(dir'[n].state, passed') /\ dir'[n].manifest = ""
    BY <1>1, <2>1, <2>2, <2>3, FreshProven
  <2>6. ShelfTypes'
    BY <1>1, <1>2, <2>2 DEF ShelfInv, ShelfTypes
  <2>7. \A m \in Names \ spoilt' : Holds(d, m) => Holds(d, m)' \/ ~Bare(m)'
    BY <1>3, <2>4
  <2> QED
    BY <1>2, <2>2, <2>4, <2>5, <2>6, <2>7, StepKeeps
<1>5. CASE ~(dir[n].manifest = "" /\ ~dir[n].saved)
  <2>1. dir' = dir /\ spoilt' = spoilt \cup {n}
    BY <1>0, <1>5 DEF DeleteEnds
  <2>2. \A m \in Names \ spoilt' : Holds(d, m) => Holds(d, m)' \/ ~Bare(m)
    BY <1>3, <2>1
  <2>3. spoilt \subseteq spoilt'
    BY <2>1
  <2> QED
    BY <1>1, <1>2, <2>1, <2>2, <2>3, Kinds, MoveKeeps
<1> QED
  BY <1>4, <1>5

LEMMA TamperKeeps ==
    ASSUME ShelfInv, NEW n \in Names, NEW body \in Bodies, Tamper(n, body)
    PROVE  ShelfInv'
<1>1. PICK d : d \notin Doors
  BY NoSetContainsEverything
<1>2. /\ call' = call /\ registered' = registered /\ passed' = passed
      /\ Write(n, body) /\ dir[n].exists
  BY DEF Tamper, HasManifest
<1>3. /\ dir' \in [Names -> Dirs] /\ \A m \in Names : m # n => dir'[m] = dir[m]
      /\ DirShape(n)' /\ ~Bare(n)' /\ spoilt \subseteq spoilt'
      /\ n \notin spoilt' => Proven(dir'[n].state, passed)
      /\ n \in spoilt' \/ \A x \in Doors : call[x].at # "reading" \/ Name(x) # n
  BY <1>2, WriteDir
<1>4. ShelfTypes'
  BY <1>2, <1>3 DEF ShelfInv, ShelfTypes
<1>5. \A m \in Names \ spoilt' : Holds(d, m) => Holds(d, m)' \/ ~Bare(m)'
  BY <1>2 DEF Holds, Name
<1>6. /\ passed \subseteq passed' /\ (n \notin spoilt' => Proven(dir'[n].state, passed'))
      /\ dir'[n].manifest \in {dir[n].manifest, ""} \/ n \in spoilt'
         \/ \A x \in Doors : call[x].at # "reading" \/ Name(x) # n
      /\ \A x \in Doors : call'[x] = call[x]
  BY <1>2, <1>3
<1> QED
  BY <1>1, <1>3, <1>4, <1>5, <1>6, StepKeeps

\* A step that touches neither a file nor an operation.
LEMMA StillKeeps ==
    ASSUME ShelfInv, dir' = dir, call' = call, passed' = passed, spoilt' = spoilt,
           registered' \in [Doors -> SUBSET (Names \X Bodies)]
    PROVE  ShelfInv'
<1>1. ShelfTypes'
  BY DEF ShelfInv, ShelfTypes
<1>2. \A n \in Names : DirShape(n)' /\ NameKept(n)'
  BY DEF ShelfInv, DirShape, NameKept, Bare, Holds, Name
<1>3. \A d \in Doors : CallShape(d)' /\ DoorKept(d)'
  BY DEF ShelfInv, CallShape, DoorKept, Name
<1> QED
  BY <1>1, <1>2, <1>3 DEF ShelfInv

LEMMA WithDeclarativeKeeps ==
    ASSUME ShelfInv, NEW d \in Doors, WithDeclarative(d)
    PROVE  ShelfInv'
<1> DEFINE shelf == {<<n, dir[n].manifest>> : n \in Discovered}
<1>1. shelf \in SUBSET (Names \X Bodies)
  BY DEF Discovered, Listed
<1> HIDE DEF shelf
<1>2. registered' = [registered EXCEPT ![d] = shelf]
  BY DEF WithDeclarative, shelf
<1>3. registered' \in [Doors -> SUBSET (Names \X Bodies)]
  BY <1>1, <1>2 DEF ShelfInv, ShelfTypes
<1> QED
  BY <1>3, StillKeeps DEF WithDeclarative

LEMMA ShelfStep == ShelfInv /\ [Next]_<<evolve, tools>> => ShelfInv'
<1> SUFFICES ASSUME ShelfInv, [Next]_<<evolve, tools>> PROVE ShelfInv'
  OBVIOUS
<1>1. ASSUME NEW d \in Doors, Operating(d) PROVE ShelfInv'
  <2>1. ASSUME NEW n \in Names,
               ProbeReads(d, n) \/ ArchiveLoads(d, n) \/ ReviveLoads(d, n) \/ DeleteLists(d, n)
        PROVE  ShelfInv'
    BY <2>1, ProbeReadsKeeps, ShelvingBegins, DeleteListsKeeps
  <2>2. ASSUME NEW n \in Names, NEW body \in Bodies,
               EditReads(d, n, body) \/ Create(d, n, body, "agent", FALSE) \/ CreateTool(d, n, body)
        PROVE  ShelfInv'
    BY <2>2, EditReadsKeeps, CreateKeeps DEF CreateTool
  <2>3. ASSUME \/ MakesDirectory(d) \/ CreateWrites(d)
               \/ EditWrites(d) \/ EditLoads(d) \/ EditSaves(d)
        PROVE  ShelfInv'
    BY <2>3, MakesDirectoryKeeps, CreateWritesKeeps, EditWritesKeeps, EditLoadsKeeps, EditSavesKeeps
  <2>4. ASSUME ProbeLoads(d) \/ (\E ok \in BOOLEAN : SelfTest(d, ok)) \/ ShelfSaves(d)
        PROVE  ShelfInv'
    BY <2>4, ProbeLoadsKeeps, SelfTestKeeps, ShelfSavesKeeps
  <2>5. ASSUME \/ \E file \in {"tool.toml", "state.json"} : DeleteUnlinks(d, file)
               \/ DeleteEnds(d) \/ Interrupt(d)
        PROVE  ShelfInv'
    BY <2>5, DeleteUnlinksKeeps, DeleteEndsKeeps, InterruptKeeps
  <2>6. CASE WithDeclarative(d)
    BY <2>6, WithDeclarativeKeeps
  <2>7. CASE Run(d)
    BY <2>7, StillKeeps DEF Run, ShelfInv, ShelfTypes
  <2> QED
    BY <1>1, <2>1, <2>2, <2>3, <2>4, <2>5, <2>6, <2>7 DEF Operating
<1>2. ASSUME NEW n \in Names, NEW body \in Bodies, Tamper(n, body) PROVE ShelfInv'
  BY <1>2, TamperKeeps
<1>3. CASE UNCHANGED tools
  BY <1>3, StillKeeps DEF tools, ShelfInv, ShelfTypes
<1> QED
  BY <1>1, <1>2, <1>3 DEF Next

LEMMA ShelfInit == Init => ShelfInv
<1> SUFFICES ASSUME Init PROVE ShelfInv
  OBVIOUS
<1>1. /\ dir \in [Names -> Dirs] /\ \A n \in Names : dir[n] = Absent
      /\ call \in [Doors -> Calls] /\ \A d \in Doors : call[d] = Idle
      /\ registered \in [Doors -> SUBSET (Names \X Bodies)]
  BY Kinds DEF Init
<1>2. Absent.state = Fresh /\ Absent.exists = FALSE /\ Idle.at = "idle"
  BY DEF Absent, Idle
<1>3. \A n \in Names : DirShape(n) /\ NameKept(n)
  BY <1>1, <1>2, FreshProven DEF DirShape, NameKept, Bare
<1>4. \A d \in Doors : CallShape(d) /\ DoorKept(d)
  BY <1>1, <1>2 DEF CallShape, DoorKept
<1> QED
  BY <1>1, <1>3, <1>4 DEF ShelfInv, ShelfTypes

-----------------------------------------------------------------------------
(* What the shelf says of itself.                                          *)

\* A state.json that says verified, now or once revived, with the hash of the
\* manifest beside it means that this manifest passed a self-test, and a name
\* without a tool can be created again: whatever operations of several doors
\* met, unless an interruption or a meeting of two spoilt that very name.
THEOREM ShelfAlwaysTruthful == Spec => []ShelfTruthful
<1>1. ASSUME ShelfInv PROVE ShelfTruthful
  <2>1. VerifiedWasProbed
    <3> SUFFICES ASSUME NEW n \in Names \ spoilt,
                        \/ dir[n].state.state = "verified"
                        \/ dir[n].state.state = "archived" /\ Revive(dir[n].state).state = "verified",
                        dir[n].state.hash = dir[n].manifest
                 PROVE  dir[n].manifest \in passed
      BY DEF VerifiedWasProbed
    <3>1. dir[n].state \in ToolStates /\ Proven(dir[n].state, passed)
      BY <1>1, NameFacts
    <3>2. CASE dir[n].state.state = "verified"
      BY <3>1, <3>2 DEF Proven
    <3>3. CASE dir[n].state.state = "archived" /\ Revive(dir[n].state).state = "verified"
      <4>1. dir[n].state.previous = "verified"
        BY <3>1, <3>3 DEF Proven, Revive, ToolStates
      <4> QED
        BY <3>1, <3>3, <4>1 DEF Proven
    <3> QED
      BY <3>2, <3>3
  <2>2. NamesFree
    <3> SUFFICES ASSUME NEW n \in Names \ spoilt, Bare(n)
                 PROVE  \E d \in Doors : Holds(d, n)
      BY DEF NamesFree, Bare, Holds
    <3> QED
      BY <1>1 DEF ShelfInv, NameKept
  <2> QED
    BY <2>1, <2>2 DEF ShelfTruthful
<1> QED
  BY <1>1, ShelfInit, ShelfStep, PTL DEF Spec
-----------------------------------------------------------------------------
(* The ledger: what evolve/ and the screens hold.                          *)

\* The provers are not told that "" is a string.
Texts == STRING \cup {""}
AnyToken == [base : Texts, query : Texts, star : BOOLEAN]

Lines == Seq(AnyToken) \ {<<>>}
Entries == [pattern : Lines, n : Nat \ {0}, dismissed : BOOLEAN]
Ledgers == Seq(Entries)
Marks == [start : Nat, count : Nat, rejects : Nat]
Screens == [at : {"idle", "observing", "checking", "offer", "accepting", "dismissing", "rejecting", "counting"},
            ledger : Ledgers, state : Marks, pattern : Seq(AnyToken), refused : SUBSET Seq(AnyToken),
            shown : Nat, watching : BOOLEAN, alone : BOOLEAN]

EvolveTypes ==
    /\ ledger \in Ledgers
    /\ suggestState \in Marks /\ now \in Nat /\ rejected \subseteq Seq(AnyToken)
    /\ mode \in {"suggest", "on_request"}
    /\ actor \in [Actors -> Screens]
    /\ \A a \in Actors : actor[a].at = "observing" => actor[a].pattern # <<>>

\* The first of the records that match is one of them.
LEMMA FirstIsOne == ASSUME NEW S, S \subseteq Nat, S # {} PROVE First(S) \in S
<1>1. PICK m \in S : \A k \in S : <<k, m>> \notin OpToRel(<, Nat)
  BY NatLessThanWellFounded, WFMin
<1>2. \A k \in S : ~(k < m)
  BY <1>1 DEF OpToRel
<1>3. \A k \in S : m <= k
  BY <1>2
<1> QED
  BY <1>3 DEF First

\* A pattern and a command of its shape merge into a pattern.
LEMMA MergeType == ASSUME NEW old \in Lines, NEW new
                   PROVE  MergePattern(old, new) \in Lines
<1> DEFINE merged == MergePattern(old, new)
<1>1. old \in Seq(AnyToken) /\ Len(old) \in Nat /\ DOMAIN old = 1..Len(old) /\ Len(old) # 0
  BY EmptySeq, LenProperties DEF Lines
<1>2. ASSUME NEW i \in DOMAIN old PROVE MergeToken(old[i], new[i]) \in AnyToken
  <2>1. old[i] \in AnyToken
    BY <1>1, <1>2, ElementOfSeq
  <2>2. Wildcard \in AnyToken
    BY DEF Wildcard, AnyToken, Texts
  <2>3. Prefixed(old[i]) \in AnyToken
    BY <2>1 DEF Prefixed, AnyToken, Texts
  <2> QED
    BY <2>1, <2>2, <2>3 DEF MergeToken
<1>3. merged \in [1..Len(old) -> AnyToken]
  BY <1>1, <1>2 DEF MergePattern
<1> HIDE DEF merged
<1>4. merged \in Seq(AnyToken) /\ DOMAIN merged = 1..Len(old)
  BY <1>1, <1>3, SeqDef
<1>5. merged # <<>>
  <2>1. 1 \in DOMAIN merged
    BY <1>1, <1>4
  <2> QED
    BY <2>1
<1> QED
  BY <1>4, <1>5 DEF merged, Lines

\* A sequence that loses an element, or gains one, stays one.
LEMMA RemoveType == ASSUME NEW S, NEW s \in Seq(S), NEW i \in DOMAIN s
                    PROVE  RemoveAt(s, i) \in Seq(S)
<1>1. Len(s) \in Nat /\ i \in 1..Len(s)
  BY LenProperties
<1>2. SubSeq(s, 1, i - 1) \in Seq(S)
  BY <1>1, SubSeqProperties
<1>3. SubSeq(s, i + 1, Len(s)) \in Seq(S)
  BY <1>1, SubSeqProperties
<1> QED
  BY <1>2, <1>3, ConcatProperties DEF RemoveAt

LEMMA ObserveType == ASSUME NEW records \in Ledgers, NEW raw \in Lines
                     PROVE  Observe(records, raw) \in Ledgers
<1> DEFINE found == Matching(records, raw)
           i == First(found)
<1>1. Len(records) \in Nat /\ DOMAIN records = 1..Len(records) /\ records \in Seq(Entries)
  BY LenProperties DEF Ledgers
<1>2. CASE found = {}
  <2>1. [pattern |-> raw, n |-> 1, dismissed |-> FALSE] \in Entries
    BY DEF Entries
  <2> QED
    BY <1>1, <1>2, <2>1, AppendProperties DEF Observe, Ledgers
<1>3. CASE found # {}
  <2>1. found \subseteq DOMAIN records
    BY DEF Matching
  <2>2. i \in DOMAIN records
    BY <1>1, <1>3, <2>1, FirstIsOne
  <2> DEFINE e == [records[i] EXCEPT !.pattern = MergePattern(@, raw), !.n = @ + 1]
  <2>3. Observe(records, raw) = Append(RemoveAt(records, i), e)
    BY <1>3 DEF Observe
  <2> HIDE DEF i
  <2>4. records[i] \in Entries
    BY <1>1, <2>2, ElementOfSeq
  <2>5. MergePattern(records[i].pattern, raw) \in Lines
    BY <2>4, MergeType DEF Entries
  <2>6. e \in Entries
    <3>1. \A p \in Lines, k \in Nat \ {0} : [records[i] EXCEPT !.pattern = p, !.n = k] \in Entries
      BY <2>4 DEF Entries
    <3>2. records[i].n + 1 \in Nat \ {0}
      BY <2>4 DEF Entries
    <3> QED
      BY <2>5, <3>1, <3>2
  <2> HIDE DEF e
  <2> QED
    BY <1>1, <2>2, <2>3, <2>6, RemoveType, AppendProperties DEF Ledgers
<1> QED
  BY <1>2, <1>3

LEMMA DismissType == ASSUME NEW records \in Ledgers, NEW pattern
                     PROVE  DismissPattern(records, pattern) \in Ledgers
<1> DEFINE found == {k \in DOMAIN records : records[k].pattern = pattern}
           i == First(found)
<1>1. Len(records) \in Nat /\ DOMAIN records = 1..Len(records) /\ records \in Seq(Entries)
  BY LenProperties DEF Ledgers
<1>2. CASE found = {}
  BY <1>2 DEF DismissPattern
<1>3. CASE found # {}
  <2>1. i \in DOMAIN records
    <3>1. found \subseteq Nat /\ found \subseteq DOMAIN records
      BY <1>1
    <3> HIDE DEF found
    <3> QED
      BY <1>3, <3>1, FirstIsOne
  <2> DEFINE e == [records[i] EXCEPT !.dismissed = TRUE]
  <2>2. DismissPattern(records, pattern) = [records EXCEPT ![i] = e]
    BY <1>3 DEF DismissPattern
  <2> HIDE DEF i
  <2>3. records[i] \in Entries
    BY <1>1, <2>1, ElementOfSeq
  <2>4. e \in Entries
    BY <2>3 DEF Entries
  <2> HIDE DEF e
  <2> QED
    BY <1>1, <2>1, <2>2, <2>4, ExceptSeq DEF Ledgers
<1> QED
  BY <1>2, <1>3

LEMMA RestTypes == ASSUME EvolveTypes, NEW a \in Actors
                   PROVE  /\ actor[a] \in Screens /\ Rested(a) \in Screens /\ Rested(a).at = "idle"
                          /\ Resting \in Screens
<1>1. actor[a] \in Screens
  BY DEF EvolveTypes
<1>2. <<>> \in Ledgers /\ <<>> \in Seq(AnyToken)
  BY DEF Ledgers
<1>3. Resting \in Screens /\ Resting.state \in Marks
  BY <1>2 DEF Resting, Screens, Marks
<1>4. Rested(a) \in Screens /\ Rested(a).at = "idle"
  BY <1>1, <1>2, <1>3 DEF Rested, Screens
<1> QED
  BY <1>1, <1>3, <1>4

\* What a screen holds changes for one actor.
LEMMA ScreenKeeps ==
    ASSUME EvolveTypes, NEW a \in Actors, NEW s \in Screens, actor' = [actor EXCEPT ![a] = s],
           s.at = "observing" => s.pattern # <<>>,
           ledger' = ledger, suggestState' \in Marks, now' = now, rejected' = rejected,
           mode' \in {"suggest", "on_request"}
    PROVE  EvolveTypes'
BY DEF EvolveTypes

\* The ledger is replaced by one actor, which lets go of what it held.
SameBut(b) == /\ actor'[b].at = actor[b].at /\ actor'[b].ledger = actor[b].ledger
              /\ actor'[b].state = actor[b].state /\ actor'[b].pattern = actor[b].pattern
              /\ actor'[b].refused = actor[b].refused
              /\ actor'[b].shown = actor[b].shown /\ actor'[b].alone = FALSE

Rewrites(a, at) ==
    /\ actor' \in [Actors -> Screens]
    /\ actor'[a].at = at /\ actor'[a].ledger = <<>> /\ actor'[a].shown = actor[a].shown
    /\ actor'[a].state = Resting.state
    /\ \A b \in Actors : b # a => SameBut(b)

LEMMA WrittenBy ==
    ASSUME EvolveTypes, NEW a \in Actors
    PROVE  /\ ObserveSaves(a) => Rewrites(a, "idle")
           /\ DismissSaves(a) => Rewrites(a, "rejecting")
<1> DEFINE w == LedgerWritten(a)
<1>1. actor \in [Actors -> Screens]
  BY DEF EvolveTypes
<1>2. Rested(a) \in Screens /\ Rested(a).at = "idle"
  BY RestTypes
<1>3. Rested(a).ledger = <<>> /\ Rested(a).shown = actor[a].shown /\ Rested(a).state = Resting.state
  BY <1>1 DEF Rested, Screens
<1>4. w \in [Actors -> Screens]
  <2> SUFFICES ASSUME NEW b \in Actors, b # a
               PROVE  [actor[b] EXCEPT !.alone = FALSE] \in Screens
    BY <1>2 DEF LedgerWritten
  <2> QED
    BY <1>1 DEF Screens
<1>5. /\ \A b \in Actors : b # a => w[b] = [actor[b] EXCEPT !.alone = FALSE]
      /\ w[a] = Rested(a)
  BY DEF LedgerWritten
<1>6. (ObserveSaves(a) => actor' = w) /\ (DismissSaves(a) => actor' = [w EXCEPT ![a].at = "rejecting"])
  BY DEF ObserveSaves, DismissSaves
<1> HIDE DEF w
<1>7. \A b \in Actors : b # a /\ actor'[b] = w[b] => SameBut(b)
  <2> SUFFICES ASSUME NEW b \in Actors, b # a, actor'[b] = w[b] PROVE SameBut(b)
    OBVIOUS
  <2>1. actor[b] \in Screens /\ actor'[b] = [actor[b] EXCEPT !.alone = FALSE]
    BY <1>1, <1>5
  <2> QED
    BY <2>1 DEF Screens, SameBut
<1>8. ASSUME ObserveSaves(a) PROVE Rewrites(a, "idle")
  BY <1>2, <1>3, <1>4, <1>5, <1>6, <1>7, <1>8 DEF Rewrites
<1>9. ASSUME DismissSaves(a) PROVE Rewrites(a, "rejecting")
  <2> DEFINE s == [Rested(a) EXCEPT !.at = "rejecting"]
  <2>1. /\ s \in Screens /\ s.at = "rejecting" /\ s.ledger = <<>> /\ s.shown = actor[a].shown
        /\ s.state = Resting.state
    BY <1>2, <1>3 DEF Screens
  <2>2. actor' = [w EXCEPT ![a] = s]
    BY <1>5, <1>6, <1>9
  <2> HIDE DEF s
  <2>3. actor' \in [Actors -> Screens] /\ actor'[a] = s /\ \A b \in Actors : b # a => actor'[b] = w[b]
    BY <1>4, <2>1, <2>2
  <2> QED
    BY <1>7, <2>1, <2>3 DEF Rewrites
<1> QED
  BY <1>8, <1>9

LEMMA WritesKeep ==
    ASSUME EvolveTypes, NEW a \in Actors, NEW at \in {"idle", "rejecting"}, Rewrites(a, at),
           ledger' \in Ledgers, suggestState' = suggestState, now' = now, mode' = mode,
           rejected' \subseteq Seq(AnyToken)
    PROVE  EvolveTypes'
<1>1. ASSUME NEW b \in Actors, actor'[b].at = "observing" PROVE actor'[b].pattern # <<>>
  <2>1. b # a
    BY <1>1 DEF Rewrites
  <2>2. actor'[b].at = actor[b].at /\ actor'[b].pattern = actor[b].pattern
    BY <2>1 DEF Rewrites, SameBut
  <2> QED
    BY <1>1, <2>2 DEF EvolveTypes
<1> QED
  BY <1>1 DEF EvolveTypes, Rewrites

\* The state of the suggestions after a week may have gone by.
LEMMA RollType == ASSUME NEW s \in Marks, now \in Nat PROVE RollWeek(s) \in Marks
BY DEF Marks, RollWeek

LEMMA ObservesKeep ==
    ASSUME EvolveTypes, NEW a \in Actors, NEW raw \in Raws, ObserveLoads(a, raw)
    PROVE  EvolveTypes'
<1> DEFINE s == [actor[a] EXCEPT !.at = "observing", !.ledger = ledger, !.pattern = raw]
<1>1. actor[a] \in Screens /\ ledger \in Ledgers
  BY DEF EvolveTypes
<1>2. raw \in Seq(AnyToken) /\ raw # <<>>
  <2>1. raw \in Seq(Tokens) /\ raw # <<>>
    BY RawAssumption
  <2>2. Tokens \subseteq AnyToken
    BY DEF Tokens, AnyToken, Texts
  <2> QED
    BY <2>1, <2>2, SeqMonotonic
<1>3. s \in Screens /\ s.pattern = raw
  BY <1>1, <1>2 DEF Screens
<1>4. actor' = [actor EXCEPT ![a] = s]
  BY DEF ObserveLoads
<1> HIDE DEF s
<1> QED
  BY <1>2, <1>3, <1>4, ScreenKeeps DEF ObserveLoads, EvolveTypes

LEMMA SavesKeep ==
    ASSUME EvolveTypes, NEW a \in Actors, ObserveSaves(a)
    PROVE  EvolveTypes'
<1>1. actor[a].ledger \in Ledgers /\ actor[a].pattern \in Lines
  BY DEF EvolveTypes, Screens, ObserveSaves, Lines
<1>2. ledger' \in Ledgers
  BY <1>1, ObserveType DEF ObserveSaves
<1> QED
  BY <1>2, WrittenBy, WritesKeep DEF ObserveSaves, EvolveTypes

\* checkSuggest's two halves and the keys of the dialog.
LEMMA SuggestsKeep ==
    ASSUME EvolveTypes, NEW a \in Actors,
           \/ CheckLoads(a) \/ CheckSuggest(a) \/ CancelSuggest(a)
           \/ AcceptLoads(a) \/ AcceptSuggestion(a)
           \/ DismissLoads(a) \/ RejectLoads(a) \/ DismissSuggestion(a) \/ RestartUi(a)
    PROVE  EvolveTypes'
<1>1. /\ actor[a] \in Screens /\ ledger \in Ledgers /\ suggestState \in Marks /\ now \in Nat
      /\ mode \in {"suggest", "on_request"} /\ rejected \subseteq Seq(AnyToken)
  BY DEF EvolveTypes
<1>2. Rested(a) \in Screens /\ Rested(a).at = "idle" /\ Resting \in Screens
  BY RestTypes
<1>3. CASE CheckLoads(a)
  <2> DEFINE s == [actor[a] EXCEPT !.at = "checking", !.ledger = ledger, !.state = suggestState,
                             !.refused = rejected]
  <2>1. s \in Screens /\ s.at = "checking"
    BY <1>1 DEF Screens
  <2>2. actor' = [actor EXCEPT ![a] = s]
    BY <1>3 DEF CheckLoads
  <2> HIDE DEF s
  <2> QED
    BY <1>1, <1>3, <2>1, <2>2, ScreenKeeps DEF CheckLoads
<1>4. CASE CheckSuggest(a)
  <2> DEFINE state == RollWeek(actor[a].state)
             offers == DecideSuggestion(actor[a].ledger, state, actor[a].shown)
  <2>1. state \in Marks
    BY <1>1, RollType DEF Screens
  <2> HIDE DEF state
  <2>2. offers \subseteq Entries
    <3>1. actor[a].ledger \in Seq(Entries)
      BY <1>1 DEF Screens, Ledgers
    <3>2. NextSuggestion(actor[a].ledger) \subseteq Entries
      <4> SUFFICES ASSUME NEW i \in DOMAIN actor[a].ledger PROVE actor[a].ledger[i] \in Entries
        BY DEF NextSuggestion
      <4> QED
        BY <3>1, ElementOfSeq
    <3> QED
      BY <3>2 DEF DecideSuggestion
  <2> HIDE DEF offers
  <2>3. now' = now /\ mode' = mode /\ ledger' = ledger /\ rejected' = rejected
    BY <1>4 DEF CheckSuggest
  <2>4. CASE suggestState' = state /\ actor' = [actor EXCEPT ![a] = Rested(a)]
    BY <1>1, <1>2, <2>1, <2>3, <2>4, ScreenKeeps
  <2>5. ASSUME NEW rec \in offers,
               suggestState' = [state EXCEPT !.count = @ + 1],
               actor' = [actor EXCEPT ![a] = [Rested(a) EXCEPT !.at = "offer", !.pattern = rec.pattern,
                   !.refused = actor[a].refused, !.shown = @ + 1]]
        PROVE  EvolveTypes'
    <3> DEFINE s == [Rested(a) EXCEPT !.at = "offer", !.pattern = rec.pattern,
                   !.refused = actor[a].refused, !.shown = @ + 1]
    <3>1. rec.pattern \in Seq(AnyToken)
      BY <2>2, <2>5 DEF Entries, Lines
    <3>2. s \in Screens /\ s.at = "offer"
      <4>1. \A p \in Seq(AnyToken), f \in SUBSET Seq(AnyToken), k \in Nat :
               LET r == [Rested(a) EXCEPT !.at = "offer", !.pattern = p, !.refused = f, !.shown = k]
               IN  r \in Screens /\ r.at = "offer"
        BY <1>2 DEF Screens
      <4>2. Rested(a).shown + 1 \in Nat /\ actor[a].refused \in SUBSET Seq(AnyToken)
        BY <1>1, <1>2 DEF Screens
      <4> QED
        BY <3>1, <4>1, <4>2
    <3> HIDE DEF s
    <3>3. suggestState' \in Marks
      BY <2>1, <2>5 DEF Marks
    <3>4. actor' = [actor EXCEPT ![a] = s]
      BY <2>5 DEF s
    <3> QED
      BY <1>1, <2>3, <3>2, <3>3, <3>4, ScreenKeeps
  <2> QED
    BY <1>4, <2>4, <2>5 DEF CheckSuggest, Replaces, state, offers
<1>5. CASE CancelSuggest(a)
  BY <1>1, <1>2, <1>5, ScreenKeeps DEF CancelSuggest
<1>6. CASE AcceptSuggestion(a)
  <2>1. suggestState' \in Marks
    BY <1>1, <1>6 DEF AcceptSuggestion, Replaces, Screens, Marks
  <2> QED
    BY <1>1, <1>2, <1>6, <2>1, ScreenKeeps DEF AcceptSuggestion
<1>7. CASE DismissLoads(a)
  <2> DEFINE s == [actor[a] EXCEPT !.at = "dismissing", !.ledger = ledger, !.alone = TRUE]
  <2>1. s \in Screens /\ s.at = "dismissing"
    BY <1>1 DEF Screens
  <2>2. actor' = [actor EXCEPT ![a] = s]
    BY <1>7 DEF DismissLoads
  <2> HIDE DEF s
  <2> QED
    BY <1>1, <1>7, <2>1, <2>2, ScreenKeeps DEF DismissLoads
<1>8. CASE DismissSuggestion(a)
  <2>1. suggestState' \in Marks /\ mode' \in {"suggest", "on_request"}
    BY <1>1, <1>8 DEF DismissSuggestion, Replaces, Screens, Marks
  <2> QED
    BY <1>1, <1>2, <1>8, <2>1, ScreenKeeps DEF DismissSuggestion
<1>9. CASE RestartUi(a)
  <2> DEFINE s == [Resting EXCEPT !.watching = mode = "suggest"]
  <2>1. (mode = "suggest") \in BOOLEAN
    OBVIOUS
  <2>2. \A b \in BOOLEAN : [Resting EXCEPT !.watching = b] \in Screens /\ [Resting EXCEPT !.watching = b].at = Resting.at
    BY <1>2 DEF Screens
  <2>3. Resting.at = "idle"
    BY DEF Resting
  <2>4. s \in Screens /\ s.at = "idle"
    BY <2>1, <2>2, <2>3
  <2>5. actor' = [actor EXCEPT ![a] = s]
    BY <1>9 DEF RestartUi
  <2> HIDE DEF s
  <2> QED
    BY <1>1, <1>9, <2>4, <2>5, ScreenKeeps DEF RestartUi
<1>10. CASE AcceptLoads(a)
  <2> DEFINE s == [Rested(a) EXCEPT !.at = "accepting", !.state = suggestState]
  <2>1. s \in Screens /\ s.at = "accepting"
    BY <1>1, <1>2 DEF Screens
  <2>2. actor' = [actor EXCEPT ![a] = s]
    BY <1>10 DEF AcceptLoads
  <2> HIDE DEF s
  <2> QED
    BY <1>1, <1>10, <2>1, <2>2, ScreenKeeps DEF AcceptLoads
<1>11. CASE RejectLoads(a)
  <2> DEFINE s == [actor[a] EXCEPT !.at = "counting", !.state = suggestState]
  <2>1. s \in Screens /\ s.at = "counting"
    BY <1>1 DEF Screens
  <2>2. actor' = [actor EXCEPT ![a] = s]
    BY <1>11 DEF RejectLoads
  <2> HIDE DEF s
  <2> QED
    BY <1>1, <1>11, <2>1, <2>2, ScreenKeeps DEF RejectLoads
<1> QED
  BY <1>3, <1>4, <1>5, <1>6, <1>7, <1>8, <1>9, <1>10, <1>11

LEMMA DismissesKeep ==
    ASSUME EvolveTypes, NEW a \in Actors, DismissSaves(a)
    PROVE  EvolveTypes'
<1>1. actor[a].ledger \in Ledgers
  BY DEF EvolveTypes, Screens
<1>2. ledger' \in Ledgers
  BY <1>1, DismissType DEF DismissSaves
<1>3. rejected' \subseteq Seq(AnyToken)
  BY DEF EvolveTypes, Screens, DismissSaves
<1> QED
  BY <1>2, <1>3, WrittenBy, WritesKeep DEF DismissSaves

LEMMA EvolveStep == EvolveTypes /\ [Next]_<<evolve, tools>> => EvolveTypes'
<1> SUFFICES ASSUME EvolveTypes, [Next]_<<evolve, tools>> PROVE EvolveTypes'
  OBVIOUS
<1>1. CASE UNCHANGED evolve
  BY <1>1 DEF evolve, EvolveTypes
<1>2. ASSUME NEW a \in Actors, NEW raw \in Raws, ObserveLoads(a, raw) PROVE EvolveTypes'
  BY <1>2, ObservesKeep
<1>3. ASSUME NEW a \in Actors, ObserveSaves(a) PROVE EvolveTypes'
  BY <1>3, SavesKeep
<1>4. ASSUME NEW a \in Uis,
             \/ CheckLoads(a) \/ CheckSuggest(a) \/ CancelSuggest(a)
             \/ AcceptLoads(a) \/ AcceptSuggestion(a)
             \/ DismissLoads(a) \/ RejectLoads(a) \/ DismissSuggestion(a) \/ RestartUi(a)
      PROVE  EvolveTypes'
  <2>1. a \in Actors
    BY DEF Actors
  <2> QED
    BY <1>4, <2>1, SuggestsKeep
<1>5. ASSUME NEW a \in Uis, DismissSaves(a) PROVE EvolveTypes'
  <2>1. a \in Actors
    BY DEF Actors
  <2> QED
    BY <1>5, <2>1, DismissesKeep
<1>6. CASE WeekPasses
  BY <1>6 DEF WeekPasses, EvolveTypes
<1> QED
  BY <1>1, <1>2, <1>3, <1>4, <1>5, <1>6 DEF Next, Suggesting, Observing

LEMMA EvolveStart == Init => EvolveTypes
<1> SUFFICES ASSUME EvolveInit PROVE EvolveTypes
  BY DEF Init
<1>1. <<>> \in Ledgers /\ <<>> \in Seq(AnyToken)
  BY DEF Ledgers
<1>2. Resting \in Screens /\ Resting.at = "idle"
  BY <1>1 DEF Resting, Screens, Marks
<1>3. \A b \in BOOLEAN : [Resting EXCEPT !.watching = b] \in Screens /\ [Resting EXCEPT !.watching = b].at = "idle"
  BY <1>2 DEF Screens
<1> DEFINE s(b) == [Resting EXCEPT !.watching = b]
<1>4. \A a \in Actors : s(a \in Uis) \in Screens /\ s(a \in Uis).at = "idle"
  <2>1. \A a \in Actors : (a \in Uis) \in BOOLEAN
    OBVIOUS
  <2> QED
    BY <1>3, <2>1
<1>5. /\ actor \in [Actors -> Screens]
      /\ \A a \in Actors : actor[a].at = "idle"
  <2>1. actor = [a \in Actors |-> s(a \in Uis)]
    BY DEF EvolveInit
  <2> HIDE DEF s
  <2> QED
    BY <1>4, <2>1
<1>6. /\ ledger \in Ledgers /\ suggestState \in Marks /\ now \in Nat /\ mode \in {"suggest", "on_request"}
      /\ rejected \subseteq Seq(AnyToken)
  BY <1>1 DEF EvolveInit, Marks
<1> QED
  BY <1>5, <1>6 DEF EvolveTypes

\* The state keeps its shape: what is not there has nothing in it, a door's
\* registry names tools and manifests, every record of the ledger was run and
\* names a command.
THEOREM ShelfTypeCorrect == Spec => []TypeOK
<1>1. ASSUME ShelfInv, EvolveTypes PROVE TypeOK
  <2>1. ASSUME NEW n \in Names
        PROVE  /\ dir[n].manifest \in Bodies \cup {""} /\ dir[n].state.state \in States
               /\ dir[n].state.hash \in Bodies \cup {""}
               /\ dir[n].state.previous \in {"", "unverified", "verified", "broken"}
               /\ ~dir[n].exists => dir[n] = Absent
               /\ ~dir[n].saved => dir[n].state = Fresh
    <3>1. dir[n] \in Dirs /\ DirShape(n) /\ dir[n].state \in ToolStates
      BY <1>1, NameFacts
    <3>2. dir[n].manifest \in Bodies \cup {""}
      BY <3>1 DEF Dirs, Manifests
    <3> QED
      BY <3>1, <3>2 DEF DirShape, ToolStates, Manifests, Earlier
  <2>2. \A d \in Doors : registered[d] \subseteq Names \X Bodies
    BY <1>1 DEF ShelfInv, ShelfTypes
  <2>3. ASSUME NEW i \in DOMAIN ledger PROVE ledger[i].n >= 1 /\ ledger[i].pattern # <<>>
    <3>1. ledger[i] \in Entries
      BY <1>1, <2>3, ElementOfSeq, LenProperties DEF EvolveTypes, Ledgers
    <3> QED
      BY <3>1 DEF Entries, Lines
  <2> QED
    BY <1>1, <2>1, <2>2, <2>3 DEF TypeOK, EvolveTypes
<1> QED
  BY <1>1, ShelfInit, ShelfStep, EvolveStart, EvolveStep, PTL DEF Spec
-----------------------------------------------------------------------------
(* What was counted: evolution is earned by what ran.                      *)

Alike(p, q) == ShapeKey(p) = ShapeKey(q)

\* How often a pattern was run, of these runs.
RunsOf(p, runs) == {k \in DOMAIN runs : Fits(p, runs[k])}
Times(p, runs) == Cardinality(RunsOf(p, runs))

\* No record claims more runs than there were.
Counts(records, runs) ==
    \A i \in DOMAIN records : records[i].n <= Times(records[i].pattern, runs)

\* Nor will it with the run of raw that is about to be added.
Awaits(records, raw, runs) ==
    /\ \A i \in DOMAIN records : Alike(records[i].pattern, raw) =>
                                     records[i].n + 1 <= Times(records[i].pattern, runs)
    /\ Times(raw, runs) >= 1

\* What a screen, or a turn, holds was run as often as it says.
Earned(s, runs) ==
    /\ Counts(s.ledger, runs)
    /\ s.at = "observing" => Awaits(s.ledger, s.pattern, runs)
    /\ s.at \in {"offer", "dismissing"} => Times(s.pattern, runs) >= MinRepeats

CountInv ==
    /\ executed \in Seq(Lines)
    /\ Counts(ledger, executed)
    /\ \A a \in Actors : Earned(actor[a], executed)
    /\ \A body \in made : Times(Url[body], executed) >= MinRepeats

\* No screen interrupts more often than its session allows.
SessionInv == SessionBudget > 0 => \A a \in Uis : actor[a].shown <= SessionBudget

\* A suggest.json that some program wrote, in file or read: its week has begun.
Begun(marks, at) == marks.start <= at /\ (marks.start = 0 => marks.count = 0)

\* Unless one was overwritten since its week began, the file counts what was
\* shown in it.
Counted == week = suggestState.count /\ (WeekBudget > 0 => week <= WeekBudget)

WeekInv ==
    /\ now > 0
    /\ Begun(suggestState, now)
    /\ \A a \in Actors : Begun(actor[a].state, now)
    /\ overwritten < suggestState.start => Counted

\* Of each shape there is one record, and one that was refused is marked.
Starred(records) == \E i \in DOMAIN records : records[i].pattern[1] = Wildcard
Single(records) == \A i, j \in DOMAIN records : Alike(records[i].pattern, records[j].pattern) => i = j
Barred(records, r) == \E i \in DOMAIN records : Alike(records[i].pattern, r) /\ records[i].dismissed
Tame(records, refused) ==
    ~Starred(records) /\ Single(records) /\ \A r \in refused : Barred(records, r)

\* What is held of the ledger was marked for what was refused before, and a screen
\* shows nothing refused before it read; what it holds to mark is what there is.
Heeds(s, refused) == /\ s.at \in {"observing", "dismissing"} => Tame(s.ledger, refused)
                     /\ s.at = "checking" => Tame(s.ledger, s.refused)
Offers(s) == s.at \in {"offer", "dismissing"} => \A r \in s.refused : ~Alike(s.pattern, r)
Current(s, records) == s.at = "dismissing" /\ s.alone => s.ledger = records

RefuseInv == ~starred =>
    /\ Tame(ledger, rejected)
    /\ \A a \in Actors : Heeds(actor[a], rejected) /\ Current(actor[a], ledger) /\ Offers(actor[a])

\* What losing the element at i does to the others.
LEMMA RemoveFacts ==
    ASSUME NEW S, NEW s \in Seq(S), NEW i \in 1..Len(s)
    PROVE  /\ RemoveAt(s, i) \in Seq(S) /\ Len(RemoveAt(s, i)) = Len(s) - 1
           /\ \A k \in 1..(Len(s) - 1) : RemoveAt(s, i)[k] = IF k < i THEN s[k] ELSE s[k + 1]
<1> DEFINE a == SubSeq(s, 1, i - 1)
           b == SubSeq(s, i + 1, Len(s))
<1>1. Len(s) \in Nat /\ DOMAIN s = 1..Len(s) /\ \A k \in 1..Len(s) : s[k] \in S
  BY LenProperties, ElementOfSeq
<1>2. a \in Seq(S) /\ Len(a) = i - 1 /\ \A k \in 1..(i - 1) : a[k] = s[k]
  <2>1. \A k \in 1..(i - 1) : s[k] \in S
    BY <1>1
  <2>2. /\ a \in Seq(S) /\ Len(a) = IF 1 <= i - 1 THEN i - 1 - 1 + 1 ELSE 0
        /\ \A k \in 1..(i - 1 - 1 + 1) : a[k] = s[1 + k - 1]
    BY <1>1, <2>1, SubSeqProperties
  <2> HIDE DEF a
  <2> QED
    BY <1>1, <2>2
<1>3. b \in Seq(S) /\ Len(b) = Len(s) - i /\ \A k \in 1..(Len(s) - i) : b[k] = s[i + k]
  <2>1. \A k \in (i + 1)..Len(s) : s[k] \in S
    BY <1>1
  <2>2. /\ b \in Seq(S) /\ Len(b) = IF i + 1 <= Len(s) THEN Len(s) - (i + 1) + 1 ELSE 0
        /\ \A k \in 1..(Len(s) - (i + 1) + 1) : b[k] = s[i + 1 + k - 1]
    BY <1>1, <2>1, SubSeqProperties
  <2> HIDE DEF b
  <2>3. Len(s) \in Nat /\ i \in Nat /\ i <= Len(s)
    BY <1>1
  <2>4. Len(b) = IF i + 1 <= Len(s) THEN Len(s) - (i + 1) + 1 ELSE 0
    BY <2>2
  <2>5. Len(b) = Len(s) - i /\ Len(s) - (i + 1) + 1 = Len(s) - i
    BY <2>3, <2>4
  <2>6. ASSUME NEW k \in 1..(Len(s) - i) PROVE b[k] = s[i + k]
    <3>1. b[k] = s[i + 1 + k - 1]
      BY <2>2, <2>5
    <3>2. i + 1 + k - 1 = i + k
      BY <2>3
    <3> QED
      BY <3>1, <3>2
  <2> QED
    BY <2>2, <2>5, <2>6
<1> HIDE DEF a, b
<1>4. /\ a \o b \in Seq(S) /\ Len(a \o b) = Len(a) + Len(b)
      /\ \A k \in 1..(Len(a) + Len(b)) : (a \o b)[k] = IF k <= Len(a) THEN a[k] ELSE b[k - Len(a)]
  BY <1>2, <1>3, ConcatProperties
<1>5. ASSUME NEW k \in 1..(Len(s) - 1)
      PROVE  (a \o b)[k] = IF k < i THEN s[k] ELSE s[k + 1]
  <2>1. k \in 1..(Len(a) + Len(b))
    BY <1>1, <1>2, <1>3
  <2>2. CASE k < i
    BY <1>1, <1>2, <1>4, <2>1, <2>2
  <2>3. CASE ~(k < i)
    <3>1. (a \o b)[k] = b[k - (i - 1)] /\ k - (i - 1) \in 1..(Len(s) - i)
      BY <1>1, <1>2, <1>3, <1>4, <2>1, <2>3
    <3>2. b[k - (i - 1)] = s[i + (k - (i - 1))]
      BY <1>3, <3>1
    <3>3. i + (k - (i - 1)) = k + 1
      BY <1>1
    <3> QED
      BY <2>3, <3>1, <3>2, <3>3
  <2> QED
    BY <2>2, <2>3
<1>6. Len(a \o b) = Len(s) - 1
  BY <1>1, <1>2, <1>3, <1>4
<1>7. RemoveAt(s, i) = a \o b
  BY DEF RemoveAt, a, b
<1> QED
  BY <1>4, <1>5, <1>6, <1>7

\* Observe either adds a record of its own or merges the command into one, and
\* every other record is as it was.
Merged(e, old, raw) == /\ e.pattern = MergePattern(old.pattern, raw)
                       /\ e.n = old.n + 1 /\ e.dismissed = old.dismissed

LEMMA ObserveCases ==
    ASSUME NEW records \in Ledgers, NEW raw \in Lines
    PROVE  LET new == Observe(records, raw)
               N == Len(records)
           IN  \/ /\ \A j \in 1..N : ~Alike(records[j].pattern, raw)
                  /\ DOMAIN new = 1..(N + 1)
                  /\ \A j \in 1..N : new[j] = records[j]
                  /\ new[N + 1] = [pattern |-> raw, n |-> 1, dismissed |-> FALSE]
               \/ \E i \in 1..N :
                  /\ Alike(records[i].pattern, raw)
                  /\ DOMAIN new = 1..N /\ Merged(new[N], records[i], raw)
                  /\ \A j \in 1..(N - 1) : new[j] = IF j < i THEN records[j] ELSE records[j + 1]
<1> DEFINE N == Len(records)
           found == Matching(records, raw)
<1>1. N \in Nat /\ DOMAIN records = 1..N /\ records \in Seq(Entries)
  BY LenProperties DEF Ledgers
<1>2. found = {j \in 1..N : Alike(records[j].pattern, raw)}
  BY <1>1 DEF Matching, Alike
<1>3. CASE found = {}
  <2> DEFINE e == [pattern |-> raw, n |-> 1, dismissed |-> FALSE]
  <2>1. e \in Entries
    BY DEF Entries
  <2>2. Observe(records, raw) = Append(records, e)
    BY <1>3 DEF Observe
  <2> HIDE DEF e, found
  <2>3. /\ Append(records, e) \in Seq(Entries) /\ Len(Append(records, e)) = N + 1
        /\ \A j \in 1..N : Append(records, e)[j] = records[j]
        /\ Append(records, e)[N + 1] = e
    BY <1>1, <2>1, AppendProperties
  <2>4. DOMAIN Append(records, e) = 1..(N + 1)
    BY <2>3, LenProperties
  <2> QED
    BY <1>2, <1>3, <2>2, <2>3, <2>4 DEF e
<1>4. CASE found # {}
  <2> DEFINE i == First(found)
             e == [records[i] EXCEPT !.pattern = MergePattern(@, raw), !.n = @ + 1]
             r == RemoveAt(records, i)
  <2>1. i \in found
    <3>1. found \subseteq Nat
      BY <1>1, <1>2
    <3> HIDE DEF found
    <3> QED
      BY <1>4, <3>1, FirstIsOne
  <2>2. Observe(records, raw) = Append(r, e)
    BY <1>4 DEF Observe
  <2> HIDE DEF i
  <2>3. i \in 1..N /\ Alike(records[i].pattern, raw)
    BY <1>2, <2>1
  <2>4. records[i] \in Entries
    BY <1>1, <2>3, ElementOfSeq
  <2>5. e \in Entries /\ Merged(e, records[i], raw)
    <3>1. MergePattern(records[i].pattern, raw) \in Lines /\ records[i].n + 1 \in Nat \ {0}
      BY <2>4, MergeType DEF Entries
    <3>2. \A p \in Lines, k \in Nat \ {0} :
             LET x == [records[i] EXCEPT !.pattern = p, !.n = k]
             IN  x \in Entries /\ x.pattern = p /\ x.n = k /\ x.dismissed = records[i].dismissed
      BY <2>4 DEF Entries
    <3> QED
      BY <3>1, <3>2 DEF Merged
  <2>6. /\ r \in Seq(Entries) /\ Len(r) = N - 1
        /\ \A k \in 1..(N - 1) : r[k] = IF k < i THEN records[k] ELSE records[k + 1]
    BY <1>1, <2>3, RemoveFacts
  <2> HIDE DEF e, r
  <2>7. /\ Append(r, e) \in Seq(Entries) /\ Len(Append(r, e)) = Len(r) + 1
        /\ \A j \in 1..Len(r) : Append(r, e)[j] = r[j]
        /\ Append(r, e)[Len(r) + 1] = e
    BY <2>5, <2>6, AppendProperties
  <2>8. DOMAIN Append(r, e) = 1..N /\ Append(r, e)[N] = e
    <3>1. Len(r) + 1 = N
      BY <1>1, <2>6
    <3>2. DOMAIN Append(r, e) = 1..Len(Append(r, e))
      BY <2>7, LenProperties
    <3> QED
      BY <2>7, <3>1, <3>2
  <2>9. \A j \in 1..(N - 1) : Append(r, e)[j] = IF j < i THEN records[j] ELSE records[j + 1]
    BY <2>6, <2>7
  <2> QED
    BY <2>2, <2>3, <2>5, <2>8, <2>9
<1> QED
  BY <1>3, <1>4

\* A refusal marks one record and changes nothing else.
LEMMA DismissFacts ==
    ASSUME NEW records \in Ledgers, NEW pattern
    PROVE  LET new == DismissPattern(records, pattern)
           IN  /\ DOMAIN new = DOMAIN records
               /\ \A j \in DOMAIN records : /\ new[j].pattern = records[j].pattern
                                            /\ new[j].n = records[j].n
                                            /\ records[j].dismissed => new[j].dismissed
               /\ pattern \in Patterns(records) =>
                     \E j \in DOMAIN records : new[j].pattern = pattern /\ new[j].dismissed
<1> DEFINE found == {k \in DOMAIN records : records[k].pattern = pattern}
           i == First(found)
           new == DismissPattern(records, pattern)
<1>1. Len(records) \in Nat /\ DOMAIN records = 1..Len(records) /\ records \in Seq(Entries)
  BY LenProperties DEF Ledgers
<1>2. CASE found = {}
  <2>1. pattern \notin Patterns(records)
    BY <1>2 DEF Patterns
  <2>2. new = records
    BY <1>2 DEF DismissPattern
  <2> QED
    BY <2>1, <2>2
<1>3. CASE found # {}
  <2>1. i \in found
    <3>1. found \subseteq Nat
      BY <1>1
    <3> HIDE DEF found
    <3> QED
      BY <1>3, <3>1, FirstIsOne
  <2> DEFINE e == [records[i] EXCEPT !.dismissed = TRUE]
  <2>2. new = [records EXCEPT ![i] = e]
    BY <1>3 DEF DismissPattern
  <2>3. i \in DOMAIN records /\ records[i].pattern = pattern
    BY <2>1
  <2> HIDE DEF i, found
  <2>4. records[i] \in Entries
    BY <1>1, <2>3, ElementOfSeq
  <2>5. e.pattern = records[i].pattern /\ e.n = records[i].n /\ e.dismissed = TRUE
    BY <2>4 DEF Entries
  <2> HIDE DEF e, new
  <2>6. /\ DOMAIN new = DOMAIN records /\ new[i] = e
        /\ \A j \in DOMAIN records : j # i => new[j] = records[j]
    BY <2>2, <2>3
  <2>7. ASSUME NEW j \in DOMAIN records
        PROVE  /\ new[j].pattern = records[j].pattern /\ new[j].n = records[j].n
               /\ records[j].dismissed => new[j].dismissed
    <3>1. CASE j = i
      BY <2>5, <2>6, <3>1
    <3>2. CASE j # i
      BY <2>6, <3>2
    <3> QED
      BY <3>1, <3>2
  <2>8. new[i].pattern = pattern /\ new[i].dismissed
    BY <2>3, <2>5, <2>6
  <2> QED
    BY <2>3, <2>6, <2>7, <2>8 DEF new
<1> QED
  BY <1>2, <1>3

\* The runs a pattern stands for are so many, and as many for one of its shape.
LEMMA TimesFacts ==
    ASSUME NEW runs \in Seq(Lines), NEW p
    PROVE  /\ Times(p, runs) \in Nat /\ IsFiniteSet(RunsOf(p, runs))
           /\ \A q : RunsOf(p, runs) \subseteq RunsOf(q, runs) => Times(p, runs) <= Times(q, runs)
<1>1. \A q : IsFiniteSet(RunsOf(q, runs))
  <2>1. Len(runs) \in Nat /\ DOMAIN runs = 1..Len(runs)
    BY LenProperties
  <2>2. IsFiniteSet(1..Len(runs))
    BY <2>1, FS_Interval
  <2>3. \A q : RunsOf(q, runs) \subseteq 1..Len(runs)
    BY <2>1 DEF RunsOf
  <2> QED
    BY <2>2, <2>3, FS_Subset
<1>2. Times(p, runs) \in Nat
  BY <1>1, FS_CardinalityType DEF Times
<1>3. ASSUME NEW q, RunsOf(p, runs) \subseteq RunsOf(q, runs) PROVE Times(p, runs) <= Times(q, runs)
  BY <1>1, <1>3, FS_Subset DEF Times
<1> QED
  BY <1>1, <1>2, <1>3

LEMMA AlikeFits == ASSUME NEW p, NEW q, Alike(p, q) PROVE \A raw : Fits(p, raw) <=> Fits(q, raw)
BY DEF Alike, ShapeKey, Fits

LEMMA AlikeTimes == ASSUME NEW p, NEW q, Alike(p, q), NEW runs PROVE Times(p, runs) = Times(q, runs)
<1>1. RunsOf(p, runs) = RunsOf(q, runs)
  BY AlikeFits DEF RunsOf
<1> QED
  BY <1>1 DEF Times

\* A merge keeps the shape or ends in a '*', which more commands fit.
LEMMA MergeShape ==
    ASSUME NEW old \in Lines, NEW new
    PROVE  LET merged == MergePattern(old, new)
           IN  /\ Len(merged) = Len(old)
               /\ Alike(merged, old) \/ merged[1] = Wildcard
               /\ \A raw : Fits(old, raw) => Fits(merged, raw)
<1> DEFINE merged == MergePattern(old, new)
<1>1. old \in Seq(AnyToken) /\ Len(old) \in Nat /\ DOMAIN old = 1..Len(old) /\ 1 \in DOMAIN old
  <2>1. old \in Seq(AnyToken) /\ Len(old) \in Nat /\ DOMAIN old = 1..Len(old) /\ Len(old) # 0
    BY EmptySeq, LenProperties DEF Lines
  <2> QED
    BY <2>1
<1>2. merged[1] = MergeToken(old[1], new[1]) /\ DOMAIN merged = 1..Len(old)
  BY <1>1 DEF MergePattern
<1>3. Len(merged) = Len(old)
  <2>1. merged \in Seq(AnyToken)
    BY MergeType DEF Lines
  <2> HIDE DEF merged
  <2> QED
    BY <1>1, <1>2, <2>1, LenProperties
<1>4. merged[1].base = old[1].base \/ merged[1] = Wildcard
  <2>1. Prefixed(old[1]).base = old[1].base
    BY DEF Prefixed
  <2>2. MergeToken(old[1], new[1]) \in {old[1], Prefixed(old[1]), Wildcard}
    BY DEF MergeToken
  <2> QED
    BY <1>2, <2>1, <2>2
<1>5. Wildcard.base = ""
  BY DEF Wildcard
<1> HIDE DEF merged
<1>6. Alike(merged, old) \/ merged[1] = Wildcard
  BY <1>3, <1>4 DEF Alike, ShapeKey
<1>7. \A raw : Fits(old, raw) => Fits(merged, raw)
  BY <1>3, <1>4, <1>5 DEF Fits
<1> QED
  BY <1>3, <1>6, <1>7 DEF merged

\* One more run counts for what it fits and takes nothing away.
LEMMA TimesGrow ==
    ASSUME NEW runs \in Seq(Lines), NEW raw \in Lines, NEW p
    PROVE  LET more == Append(runs, raw)
           IN  /\ more \in Seq(Lines)
               /\ Times(p, more) = IF Fits(p, raw) THEN Times(p, runs) + 1 ELSE Times(p, runs)
               /\ Times(p, more) >= Times(p, runs)
<1> DEFINE N == Len(runs)
           more == Append(runs, raw)
<1>1. N \in Nat /\ DOMAIN runs = 1..N
  BY LenProperties
<1>2. /\ more \in Seq(Lines) /\ Len(more) = N + 1 /\ more[N + 1] = raw
      /\ \A k \in 1..N : more[k] = runs[k]
  BY AppendProperties
<1> HIDE DEF more
<1>3. DOMAIN more = 1..(N + 1)
  BY <1>2, LenProperties
<1>4. RunsOf(p, more) = IF Fits(p, raw) THEN RunsOf(p, runs) \cup {N + 1} ELSE RunsOf(p, runs)
  BY <1>1, <1>2, <1>3 DEF RunsOf
<1>5. N + 1 \notin RunsOf(p, runs)
  BY <1>1 DEF RunsOf
<1>6. Times(p, runs) \in Nat /\ IsFiniteSet(RunsOf(p, runs))
  BY TimesFacts
<1>7. Cardinality(RunsOf(p, runs) \cup {N + 1}) = Cardinality(RunsOf(p, runs)) + 1
  BY <1>5, <1>6, FS_AddElement
<1>8. Times(p, more) = IF Fits(p, raw) THEN Times(p, runs) + 1 ELSE Times(p, runs)
  BY <1>4, <1>7 DEF Times
<1> QED
  BY <1>2, <1>6, <1>8 DEF more

\* What Observe writes claims no more than what ran.
LEMMA ObserveCounts ==
    ASSUME NEW runs \in Seq(Lines), NEW records \in Ledgers, NEW raw \in Lines,
           Counts(records, runs), Awaits(records, raw, runs)
    PROVE  Counts(Observe(records, raw), runs)
<1> DEFINE new == Observe(records, raw)
           N == Len(records)
<1>1. N \in Nat /\ DOMAIN records = 1..N /\ \A j \in 1..N : records[j] \in Entries
  BY LenProperties, ElementOfSeq DEF Ledgers
<1>2. CASE /\ DOMAIN new = 1..(N + 1)
           /\ \A j \in 1..N : new[j] = records[j]
           /\ new[N + 1] = [pattern |-> raw, n |-> 1, dismissed |-> FALSE]
  <2>1. new[N + 1].n = 1 /\ new[N + 1].pattern = raw
    BY <1>2
  <2> HIDE DEF new
  <2> SUFFICES ASSUME NEW j \in 1..(N + 1) PROVE new[j].n <= Times(new[j].pattern, runs)
    BY <1>2 DEF Counts, new
  <2>2. CASE j \in 1..N
    BY <1>1, <1>2, <2>2 DEF Counts
  <2>3. CASE j = N + 1
    <3>1. Times(raw, runs) >= 1 /\ Times(raw, runs) \in Nat
      BY TimesFacts DEF Awaits
    <3> QED
      BY <2>1, <2>3, <3>1
  <2> QED
    BY <1>1, <2>2, <2>3
<1>3. ASSUME NEW i \in 1..N, Alike(records[i].pattern, raw),
             DOMAIN new = 1..N, Merged(new[N], records[i], raw),
             \A j \in 1..(N - 1) : new[j] = IF j < i THEN records[j] ELSE records[j + 1]
      PROVE  Counts(new, runs)
  <2> HIDE DEF new
  <2> SUFFICES ASSUME NEW j \in 1..N PROVE new[j].n <= Times(new[j].pattern, runs)
    BY <1>3 DEF Counts
  <2>1. CASE j = N
    <3> DEFINE p == records[i].pattern
    <3>1. p \in Lines
      BY <1>1, <1>3 DEF Entries
    <3>2. records[i].n + 1 <= Times(p, runs)
      BY <1>1, <1>3 DEF Awaits
    <3>3. RunsOf(p, runs) \subseteq RunsOf(MergePattern(p, raw), runs)
      BY <3>1, MergeShape DEF RunsOf
    <3>4. Times(p, runs) <= Times(MergePattern(p, raw), runs)
      BY <3>3, TimesFacts
    <3>5. Times(p, runs) \in Nat /\ Times(MergePattern(p, raw), runs) \in Nat /\ records[i].n \in Nat
      BY <1>1, <1>3, TimesFacts DEF Entries
    <3>6. new[j].n = records[i].n + 1 /\ new[j].pattern = MergePattern(p, raw)
      BY <1>3, <2>1 DEF Merged
    <3> QED
      BY <3>2, <3>4, <3>5, <3>6
  <2>2. CASE j # N
    <3>0. N \in Nat
      BY <1>1
    <3>1. j \in 1..(N - 1) /\ j \in 1..N /\ j + 1 \in 1..N
      BY <2>2, <3>0
    <3> QED
      BY <1>1, <1>3, <3>1 DEF Counts
  <2> QED
    BY <2>1, <2>2
<1> QED
  BY <1>2, <1>3, ObserveCases

LEMMA DismissCounts == ASSUME NEW runs, NEW records \in Ledgers, NEW pattern, Counts(records, runs)
                       PROVE  Counts(DismissPattern(records, pattern), runs)
<1> DEFINE new == DismissPattern(records, pattern)
<1>1. /\ DOMAIN new = DOMAIN records
      /\ \A j \in DOMAIN records : new[j].pattern = records[j].pattern /\ new[j].n = records[j].n
  BY DismissFacts
<1> HIDE DEF new
<1> QED
  BY <1>1 DEF Counts, new

\* Nothing held counts nothing.
LEMMA NothingCounts == \A runs : Counts(<<>>, runs)
BY DEF Counts

\* A run more takes nothing from what was earned.
LEMMA CountsGrow ==
    ASSUME NEW runs \in Seq(Lines), NEW raw \in Lines
    PROVE  LET more == Append(runs, raw)
           IN  /\ \A records \in Ledgers : Counts(records, runs) => Counts(records, more)
               /\ \A s \in Screens : Earned(s, runs) => Earned(s, more)
               /\ \A records \in Ledgers : Counts(records, runs) => Awaits(records, raw, more)
<1> DEFINE more == Append(runs, raw)
<1>1. \A p : /\ Times(p, runs) \in Nat /\ Times(p, more) \in Nat /\ Times(p, more) >= Times(p, runs)
             /\ Fits(p, raw) => Times(p, more) = Times(p, runs) + 1
  <2> SUFFICES ASSUME NEW p
               PROVE  /\ Times(p, runs) \in Nat /\ Times(p, more) \in Nat
                      /\ Times(p, more) >= Times(p, runs)
                      /\ Fits(p, raw) => Times(p, more) = Times(p, runs) + 1
    OBVIOUS
  <2>1. more \in Seq(Lines)
    BY TimesGrow
  <2>2. Times(p, runs) \in Nat /\ Times(p, more) \in Nat
    BY <2>1, TimesFacts
  <2> QED
    BY <2>2, TimesGrow
<1> HIDE DEF more
<1>2. \A records \in Ledgers : \A i \in DOMAIN records : records[i].n \in Nat
  <2> SUFFICES ASSUME NEW records \in Ledgers, NEW i \in DOMAIN records PROVE records[i].n \in Nat
    OBVIOUS
  <2>1. records[i] \in Entries
    BY ElementOfSeq, LenProperties DEF Ledgers
  <2> QED
    BY <2>1 DEF Entries
<1>3. ASSUME NEW records \in Ledgers, Counts(records, runs) PROVE Counts(records, more)
  <2> SUFFICES ASSUME NEW i \in DOMAIN records PROVE records[i].n <= Times(records[i].pattern, more)
    BY DEF Counts
  <2>1. records[i].n <= Times(records[i].pattern, runs)
    BY <1>3 DEF Counts
  <2> QED
    BY <1>1, <1>2, <2>1
<1>4. ASSUME NEW records \in Ledgers, NEW p, Awaits(records, p, runs) PROVE Awaits(records, p, more)
  <2>1. Times(p, more) >= 1
    BY <1>1, <1>4 DEF Awaits
  <2>2. ASSUME NEW i \in DOMAIN records, Alike(records[i].pattern, p)
        PROVE  records[i].n + 1 <= Times(records[i].pattern, more)
    <3>1. records[i].n + 1 <= Times(records[i].pattern, runs)
      BY <1>4, <2>2 DEF Awaits
    <3> QED
      BY <1>1, <1>2, <3>1
  <2> QED
    BY <2>1, <2>2 DEF Awaits
<1>5. ASSUME NEW s \in Screens, Earned(s, runs) PROVE Earned(s, more)
  <2>1. s.ledger \in Ledgers
    BY DEF Screens
  <2>2. s.at \in {"offer", "dismissing"} => Times(s.pattern, more) >= MinRepeats
    BY <1>1, <1>5, EvolveAssumption DEF Earned
  <2> QED
    BY <1>3, <1>4, <1>5, <2>1, <2>2 DEF Earned
<1>6. ASSUME NEW records \in Ledgers, Counts(records, runs) PROVE Awaits(records, raw, more)
  <2>1. Fits(raw, raw)
    BY DEF Fits
  <2>2. Times(raw, more) >= 1
    BY <1>1, <2>1
  <2>3. ASSUME NEW i \in DOMAIN records, Alike(records[i].pattern, raw)
        PROVE  records[i].n + 1 <= Times(records[i].pattern, more)
    <3>1. Fits(records[i].pattern, raw)
      BY <2>1, <2>3, AlikeFits
    <3>2. records[i].n <= Times(records[i].pattern, runs)
      BY <1>6 DEF Counts
    <3> QED
      BY <1>1, <1>2, <3>1, <3>2
  <2> QED
    BY <2>2, <2>3 DEF Awaits
<1> QED
  BY <1>3, <1>5, <1>6 DEF more

\* What a screen does by itself.
LEMMA EarnedTurns ==
    ASSUME EvolveTypes, CountInv, NEW a \in Actors, NEW s, actor' = [actor EXCEPT ![a] = s],
           Earned(s, executed), ledger' = ledger, executed' = executed, made' = made
    PROVE  CountInv'
<1>1. actor'[a] = s /\ \A b \in Actors : b # a => actor'[b] = actor[b]
  BY DEF EvolveTypes
<1>2. \A b \in Actors : Earned(actor'[b], executed)
  BY <1>1 DEF CountInv
<1> QED
  BY <1>2 DEF CountInv

LEMMA EarnedWrites ==
    ASSUME EvolveTypes, CountInv, NEW a \in Actors, NEW at \in {"idle", "rejecting"},
           Rewrites(a, at), Counts(ledger', executed), executed' = executed, made' = made
    PROVE  CountInv'
<1>1. Earned(actor'[a], executed)
  BY NothingCounts DEF Rewrites, Earned
<1>2. ASSUME NEW b \in Actors, b # a PROVE Earned(actor'[b], executed)
  <2>1. Earned(actor[b], executed) /\ SameBut(b)
    BY <1>2 DEF CountInv, Rewrites
  <2> QED
    BY <2>1 DEF Earned, SameBut
<1> QED
  BY <1>1, <1>2 DEF CountInv

\* A record that may be offered was run often enough.
LEMMA OfferedRan ==
    ASSUME NEW records \in Ledgers, NEW runs \in Seq(Lines), Counts(records, runs),
           NEW s, NEW shown, NEW rec \in DecideSuggestion(records, s, shown)
    PROVE  /\ Times(rec.pattern, runs) >= MinRepeats /\ ~rec.dismissed
           /\ \E i \in DOMAIN records : rec = records[i]
           /\ SessionBudget > 0 => ~(shown >= SessionBudget)
           /\ WeekBudget > 0 => ~(s.count >= WeekBudget)
<1>1. PICK i \in DOMAIN records : rec = records[i] /\ ~records[i].dismissed /\ records[i].n >= MinRepeats
  BY DEF DecideSuggestion, NextSuggestion
<1>2. records[i] \in Entries
  BY ElementOfSeq, LenProperties DEF Ledgers
<1>3. records[i].n <= Times(rec.pattern, runs) /\ Times(rec.pattern, runs) \in Nat /\ records[i].n \in Nat
  BY <1>1, <1>2, TimesFacts DEF Counts, Entries
<1>4. Times(rec.pattern, runs) >= MinRepeats
  BY <1>1, <1>3, EvolveAssumption
<1> QED
  BY <1>1, <1>4 DEF DecideSuggestion

LEMMA CountSuggests ==
    ASSUME EvolveTypes, CountInv, NEW a \in Actors, made' = made,
           \/ CheckLoads(a) \/ CheckSuggest(a) \/ CancelSuggest(a)
           \/ AcceptLoads(a) \/ AcceptSuggestion(a)
           \/ DismissLoads(a) \/ RejectLoads(a) \/ DismissSuggestion(a) \/ RestartUi(a)
    PROVE  CountInv'
<1>1. /\ actor[a] \in Screens /\ Counts(ledger, executed) /\ Earned(actor[a], executed)
      /\ executed \in Seq(Lines) /\ Counts(actor[a].ledger, executed) /\ actor[a].ledger \in Ledgers
  BY DEF EvolveTypes, CountInv, Earned, Screens
<1>2. Rested(a) \in Screens /\ Rested(a).at = "idle" /\ Rested(a).ledger = <<>>
  BY RestTypes DEF Rested, Screens
<1>3. Earned(Rested(a), executed)
  BY <1>2, NothingCounts DEF Earned
<1>4. CASE CheckLoads(a)
  <2> DEFINE s == [actor[a] EXCEPT !.at = "checking", !.ledger = ledger, !.state = suggestState,
                             !.refused = rejected]
  <2>1. s.at = "checking" /\ s.ledger = ledger
    BY <1>1 DEF Screens
  <2>2. actor' = [actor EXCEPT ![a] = s]
    BY <1>4 DEF CheckLoads
  <2> HIDE DEF s
  <2>3. Earned(s, executed)
    BY <1>1, <2>1 DEF Earned
  <2> QED
    BY <1>4, <2>2, <2>3, EarnedTurns DEF CheckLoads
<1>5. CASE CheckSuggest(a)
  <2> DEFINE state == RollWeek(actor[a].state)
             offers == DecideSuggestion(actor[a].ledger, state, actor[a].shown)
  <2>1. CASE actor' = [actor EXCEPT ![a] = Rested(a)]
    BY <1>3, <1>5, <2>1, EarnedTurns DEF CheckSuggest
  <2>2. ASSUME NEW rec \in offers,
               actor' = [actor EXCEPT ![a] = [Rested(a) EXCEPT !.at = "offer", !.pattern = rec.pattern,
                   !.refused = actor[a].refused, !.shown = @ + 1]]
        PROVE  CountInv'
    <3> DEFINE s == [Rested(a) EXCEPT !.at = "offer", !.pattern = rec.pattern,
                   !.refused = actor[a].refused, !.shown = @ + 1]
    <3>1. s.ledger = <<>> /\ s.at = "offer" /\ s.pattern = rec.pattern
      BY <1>2 DEF Screens
    <3>2. actor' = [actor EXCEPT ![a] = s]
      BY <2>2
    <3>3. Times(rec.pattern, executed) >= MinRepeats
      BY <1>1, OfferedRan
    <3> HIDE DEF s
    <3>4. Earned(s, executed)
      BY <3>1, <3>3, NothingCounts DEF Earned
    <3> QED
      BY <1>5, <3>2, <3>4, EarnedTurns DEF CheckSuggest
  <2> QED
    BY <1>5, <2>1, <2>2 DEF CheckSuggest
<1>6. CASE CancelSuggest(a) \/ AcceptSuggestion(a) \/ DismissSuggestion(a)
  BY <1>3, <1>6, EarnedTurns DEF CancelSuggest, AcceptSuggestion, DismissSuggestion
<1>7. CASE DismissLoads(a)
  <2> DEFINE s == [actor[a] EXCEPT !.at = "dismissing", !.ledger = ledger, !.alone = TRUE]
  <2>1. s.at = "dismissing" /\ s.ledger = ledger /\ s.pattern = actor[a].pattern
    BY <1>1 DEF Screens
  <2>2. actor' = [actor EXCEPT ![a] = s] /\ actor[a].at = "offer"
    BY <1>7 DEF DismissLoads
  <2> HIDE DEF s
  <2>3. Earned(s, executed)
    BY <1>1, <2>1, <2>2 DEF Earned
  <2> QED
    BY <1>7, <2>2, <2>3, EarnedTurns DEF DismissLoads
<1>8. CASE RestartUi(a)
  <2> DEFINE s == [Resting EXCEPT !.watching = mode = "suggest"]
  <2>1. s.at = "idle" /\ s.ledger = <<>>
    BY DEF Resting
  <2>2. actor' = [actor EXCEPT ![a] = s]
    BY <1>8 DEF RestartUi
  <2> HIDE DEF s
  <2>3. Earned(s, executed)
    BY <2>1, NothingCounts DEF Earned
  <2> QED
    BY <1>8, <2>2, <2>3, EarnedTurns DEF RestartUi
<1>9. CASE AcceptLoads(a)
  <2> DEFINE s == [Rested(a) EXCEPT !.at = "accepting", !.state = suggestState]
  <2>1. s.at = "accepting" /\ s.ledger = <<>>
    BY <1>2 DEF Screens
  <2>2. actor' = [actor EXCEPT ![a] = s]
    BY <1>9 DEF AcceptLoads
  <2> HIDE DEF s
  <2>3. Earned(s, executed)
    BY <2>1, NothingCounts DEF Earned
  <2> QED
    BY <1>9, <2>2, <2>3, EarnedTurns DEF AcceptLoads
<1>10. CASE RejectLoads(a)
  <2> DEFINE s == [actor[a] EXCEPT !.at = "counting", !.state = suggestState]
  <2>1. s.at = "counting" /\ s.ledger = actor[a].ledger
    BY <1>1 DEF Screens
  <2>2. actor' = [actor EXCEPT ![a] = s]
    BY <1>10 DEF RejectLoads
  <2> HIDE DEF s
  <2>3. Earned(s, executed)
    BY <1>1, <2>1 DEF Earned
  <2> QED
    BY <1>10, <2>2, <2>3, EarnedTurns DEF RejectLoads
<1> QED
  BY <1>4, <1>5, <1>6, <1>7, <1>8, <1>9, <1>10

LEMMA CountObserves ==
    ASSUME EvolveTypes, CountInv, NEW a \in Actors, NEW raw \in Raws, ObserveLoads(a, raw),
           made' = made
    PROVE  CountInv'
<1> DEFINE s == [actor[a] EXCEPT !.at = "observing", !.ledger = ledger, !.pattern = raw]
           more == Append(executed, raw)
<1>1. raw \in Lines
  <2>1. raw \in Seq(Tokens) /\ raw # <<>>
    BY RawAssumption
  <2>2. Tokens \subseteq AnyToken
    BY DEF Tokens, AnyToken, Texts
  <2> QED
    BY <2>1, <2>2, SeqMonotonic DEF Lines
<1>2. /\ actor \in [Actors -> Screens] /\ actor[a] \in Screens /\ ledger \in Ledgers
      /\ executed \in Seq(Lines) /\ Counts(ledger, executed)
      /\ \A b \in Actors : Earned(actor[b], executed)
      /\ \A body \in made : Times(Url[body], executed) >= MinRepeats
  BY DEF EvolveTypes, CountInv
<1>3. /\ Counts(ledger, more) /\ Awaits(ledger, raw, more)
      /\ \A b \in Actors : Earned(actor[b], more)
  BY <1>1, <1>2, CountsGrow
<1>4. more \in Seq(Lines) /\ \A body \in made : Times(Url[body], more) >= MinRepeats
  <2>1. more \in Seq(Lines)
    BY <1>1, <1>2, TimesGrow
  <2>2. ASSUME NEW body \in made PROVE Times(Url[body], more) >= MinRepeats
    <3>1. Times(Url[body], more) >= Times(Url[body], executed)
      BY <1>1, <1>2, TimesGrow
    <3>2. Times(Url[body], more) \in Nat /\ Times(Url[body], executed) \in Nat
      BY <1>2, <2>1, TimesFacts
    <3>3. MinRepeats \in Nat
      BY EvolveAssumption
    <3> QED
      BY <1>2, <3>1, <3>2, <3>3
  <2> QED
    BY <2>1, <2>2
<1>5. s.at = "observing" /\ s.ledger = ledger /\ s.pattern = raw
  BY <1>2 DEF Screens
<1>6. actor' = [actor EXCEPT ![a] = s] /\ ledger' = ledger /\ executed' = more
  BY DEF ObserveLoads
<1> HIDE DEF s, more
<1>7. Earned(s, more)
  BY <1>3, <1>5 DEF Earned
<1>8. \A b \in Actors : Earned(actor'[b], more)
  BY <1>2, <1>3, <1>6, <1>7
<1> QED
  BY <1>3, <1>4, <1>6, <1>8 DEF CountInv

LEMMA CountSaves ==
    ASSUME EvolveTypes, CountInv, NEW a \in Actors, ObserveSaves(a) \/ DismissSaves(a), made' = made
    PROVE  CountInv'
<1>1. /\ actor[a].ledger \in Ledgers /\ Counts(actor[a].ledger, executed) /\ executed \in Seq(Lines)
      /\ Earned(actor[a], executed)
  BY DEF EvolveTypes, CountInv, Screens, Earned
<1>2. CASE ObserveSaves(a)
  <2>1. actor[a].pattern \in Lines /\ Awaits(actor[a].ledger, actor[a].pattern, executed)
    BY <1>1, <1>2 DEF EvolveTypes, Screens, ObserveSaves, Lines, Earned
  <2>2. Counts(ledger', executed)
    BY <1>1, <1>2, <2>1, ObserveCounts DEF ObserveSaves
  <2> QED
    BY <1>2, <2>2, WrittenBy, EarnedWrites DEF ObserveSaves
<1>3. CASE DismissSaves(a)
  <2>1. Counts(ledger', executed)
    BY <1>1, <1>3, DismissCounts DEF DismissSaves
  <2> QED
    BY <1>3, <2>1, WrittenBy, EarnedWrites DEF DismissSaves
<1> QED
  BY <1>2, <1>3

\* What the ledger counts for a command was run.
LEMMA CountForRan ==
    ASSUME NEW records \in Ledgers, NEW runs \in Seq(Lines), Counts(records, runs),
           NEW raw, CountFor(records, raw) >= MinRepeats
    PROVE  Times(raw, runs) >= MinRepeats
<1> DEFINE found == Matching(records, raw)
           i == First(found)
<1>1. Len(records) \in Nat /\ DOMAIN records = 1..Len(records)
  BY LenProperties DEF Ledgers
<1>2. found # {}
  BY EvolveAssumption DEF CountFor
<1>3. i \in found
  <2>1. found \subseteq Nat
    BY <1>1 DEF Matching
  <2> HIDE DEF found
  <2> QED
    BY <1>2, <2>1, FirstIsOne
<1>4. CountFor(records, raw) = records[i].n
  BY <1>2 DEF CountFor
<1>5. i \in DOMAIN records /\ Alike(records[i].pattern, raw)
  BY <1>3 DEF Matching, Alike
<1> HIDE DEF i, found
<1>6. records[i] \in Entries
  BY <1>5, ElementOfSeq, LenProperties DEF Ledgers
<1>7. records[i].n <= Times(records[i].pattern, runs) /\ records[i].n >= MinRepeats
  BY <1>4, <1>5 DEF Counts
<1>8. Times(records[i].pattern, runs) = Times(raw, runs)
  BY <1>5, AlikeTimes
<1>9. Times(raw, runs) \in Nat /\ records[i].n \in Nat /\ MinRepeats \in Nat
  BY <1>6, TimesFacts, EvolveAssumption DEF Entries
<1> QED
  BY <1>7, <1>8, <1>9

LEMMA CountStep == EvolveTypes /\ CountInv /\ [Next]_<<evolve, tools>> => CountInv'
<1> SUFFICES ASSUME EvolveTypes, CountInv, [Next]_<<evolve, tools>> PROVE CountInv'
  OBVIOUS
<1>1. ASSUME UNCHANGED evolve, \A body \in made' : body \in made \/ Times(Url[body], executed) >= MinRepeats
      PROVE  CountInv'
  BY <1>1 DEF evolve, CountInv
<1>2. ASSUME NEW d \in Doors, Operating(d), UNCHANGED evolve PROVE CountInv'
  <2>1. ASSUME NEW n \in Names, NEW body \in Bodies, NEW origin \in {"agent", "person"},
               NEW force \in BOOLEAN, Create(d, n, body, origin, force)
        PROVE  CountInv'
    <3>1. CASE origin = "agent" /\ ~force
      <4>1. CountFor(ledger, Url[body]) >= MinRepeats
        BY <2>1, <3>1 DEF Create, Evaluate
      <4>2. Times(Url[body], executed) >= MinRepeats
        BY <4>1, CountForRan DEF EvolveTypes, CountInv
      <4> QED
        BY <1>1, <1>2, <2>1, <4>2 DEF Create
    <3>2. CASE ~(origin = "agent" /\ ~force)
      BY <1>1, <1>2, <2>1, <3>2 DEF Create
    <3> QED
      BY <3>1, <3>2
  <2>2. CASE made' = made
    BY <1>1, <1>2, <2>2
  <2>3. ASSUME NEW n \in Names, NEW body \in Bodies,
               EditReads(d, n, body) \/ Create(d, n, body, "agent", FALSE) \/ CreateTool(d, n, body)
        PROVE  CountInv'
    BY <2>1, <2>2, <2>3 DEF EditReads, CreateTool
  <2>4. ASSUME NEW n \in Names,
               ProbeReads(d, n) \/ ArchiveLoads(d, n) \/ ReviveLoads(d, n) \/ DeleteLists(d, n)
        PROVE  CountInv'
    BY <2>2, <2>4 DEF ProbeReads, ArchiveLoads, ReviveLoads, DeleteLists
  <2>5. ASSUME \/ MakesDirectory(d) \/ CreateWrites(d)
               \/ EditWrites(d) \/ EditLoads(d) \/ EditSaves(d)
        PROVE  CountInv'
    BY <2>2, <2>5 DEF MakesDirectory, CreateWrites, EditWrites, EditLoads, EditSaves
  <2>6. ASSUME ProbeLoads(d) \/ (\E ok \in BOOLEAN : SelfTest(d, ok)) \/ ShelfSaves(d)
        PROVE  CountInv'
    BY <2>2, <2>6 DEF ProbeLoads, SelfTest, ShelfSaves
  <2>7. ASSUME \/ \E file \in {"tool.toml", "state.json"} : DeleteUnlinks(d, file)
               \/ DeleteEnds(d) \/ Interrupt(d) \/ WithDeclarative(d) \/ Run(d)
        PROVE  CountInv'
    BY <2>2, <2>7 DEF DeleteUnlinks, DeleteEnds, Interrupt, WithDeclarative, Run
  <2> QED
    BY <1>2, <2>3, <2>4, <2>5, <2>6, <2>7 DEF Operating
<1>3. ASSUME NEW n \in Names, NEW body \in Bodies, Tamper(n, body), UNCHANGED evolve PROVE CountInv'
  BY <1>1, <1>3 DEF Tamper
<1>4. CASE UNCHANGED <<evolve, tools>>
  BY <1>1, <1>4 DEF tools
<1>5. CASE (Suggesting \/ Observing) /\ UNCHANGED tools
  <2>1. made' = made
    BY <1>5 DEF tools
  <2>2. ASSUME NEW a \in Actors, NEW raw \in Raws, ObserveLoads(a, raw) PROVE CountInv'
    BY <2>1, <2>2, CountObserves
  <2>3. ASSUME NEW a \in Actors, ObserveSaves(a) \/ DismissSaves(a) PROVE CountInv'
    BY <2>1, <2>3, CountSaves
  <2>4. ASSUME NEW a \in Actors,
               \/ CheckLoads(a) \/ CheckSuggest(a) \/ CancelSuggest(a)
               \/ AcceptLoads(a) \/ AcceptSuggestion(a)
               \/ DismissLoads(a) \/ RejectLoads(a) \/ DismissSuggestion(a) \/ RestartUi(a)
        PROVE  CountInv'
    BY <2>1, <2>4, CountSuggests
  <2>5. CASE WeekPasses
    BY <2>1, <2>5 DEF WeekPasses, CountInv
  <2>6. Uis \subseteq Actors
    BY DEF Actors
  <2> QED
    BY <1>5, <2>2, <2>3, <2>4, <2>5, <2>6 DEF Suggesting, Observing
<1> QED
  BY <1>2, <1>3, <1>4, <1>5 DEF Next

LEMMA CountStart == Init => CountInv
<1> SUFFICES ASSUME Init PROVE CountInv
  OBVIOUS
<1>1. executed = <<>> /\ ledger = <<>> /\ made = {}
  BY DEF Init, EvolveInit
<1>2. ASSUME NEW a \in Actors PROVE actor[a].ledger = <<>> /\ actor[a].at = "idle"
  BY DEF Init, EvolveInit, Resting
<1>3. \A a \in Actors : Earned(actor[a], executed)
  BY <1>2, NothingCounts DEF Earned
<1> QED
  BY <1>1, <1>3, NothingCounts DEF CountInv

\* Whatever writers of the ledger lost each other's records, a tool an agent
\* made through the gate stands for a command that ran often enough.
THEOREM MadeAlwaysEarned == Spec => []MadeWasEarned
<1>1. CountInv => MadeWasEarned
  BY DEF CountInv, MadeWasEarned, TimesRun, Times, RunsOf
<1> QED
  BY <1>1, EvolveStart, EvolveStep, CountStart, CountStep, PTL DEF Spec
(* The budgets.                                                            *)

\* What one screen does leaves the session's budget alone, or starts it over.
LEMMA SessionStays ==
    ASSUME EvolveTypes, SessionInv, NEW a \in Actors, NEW s, actor' = [actor EXCEPT ![a] = s],
           s.shown = actor[a].shown \/ (SessionBudget > 0 => s.shown <= SessionBudget)
    PROVE  SessionInv'
<1>1. actor'[a] = s /\ \A b \in Actors : b # a => actor'[b] = actor[b]
  BY DEF EvolveTypes
<1>2. Uis \subseteq Actors
  BY DEF Actors
<1> QED
  BY <1>1, <1>2 DEF SessionInv

LEMMA SessionStep == EvolveTypes /\ CountInv /\ SessionInv /\ [Next]_<<evolve, tools>> => SessionInv'
<1> SUFFICES ASSUME EvolveTypes, CountInv, SessionInv, [Next]_<<evolve, tools>> PROVE SessionInv'
  OBVIOUS
<1>1. CASE UNCHANGED evolve \/ WeekPasses
  BY <1>1 DEF evolve, WeekPasses, SessionInv
<1>2. ASSUME NEW a \in Actors,
             \/ CheckLoads(a) \/ CheckSuggest(a) \/ CancelSuggest(a)
             \/ AcceptLoads(a) \/ AcceptSuggestion(a)
             \/ DismissLoads(a) \/ RejectLoads(a) \/ DismissSuggestion(a) \/ RestartUi(a)
      PROVE  SessionInv'
  <2>1. actor[a] \in Screens /\ Rested(a) \in Screens /\ Rested(a).shown = actor[a].shown
    BY RestTypes DEF Rested, Screens
  <2>2. CASE CheckLoads(a)
    <3> DEFINE s == [actor[a] EXCEPT !.at = "checking", !.ledger = ledger, !.state = suggestState,
                             !.refused = rejected]
    <3>1. s.shown = actor[a].shown
      BY <2>1 DEF Screens
    <3>2. actor' = [actor EXCEPT ![a] = s]
      BY <2>2 DEF CheckLoads
    <3> HIDE DEF s
    <3> QED
      BY <3>1, <3>2, SessionStays
  <2>3. CASE CheckSuggest(a)
    <3> DEFINE offers == DecideSuggestion(actor[a].ledger, RollWeek(actor[a].state), actor[a].shown)
    <3>1. CASE actor' = [actor EXCEPT ![a] = Rested(a)]
      BY <2>1, <3>1, SessionStays
    <3>2. ASSUME NEW rec \in offers,
                 actor' = [actor EXCEPT ![a] = [Rested(a) EXCEPT !.at = "offer", !.pattern = rec.pattern,
                   !.refused = actor[a].refused, !.shown = @ + 1]]
          PROVE  SessionInv'
      <4> DEFINE s == [Rested(a) EXCEPT !.at = "offer", !.pattern = rec.pattern,
                   !.refused = actor[a].refused, !.shown = @ + 1]
      <4>1. s.shown = actor[a].shown + 1
        BY <2>1 DEF Screens
      <4>2. SessionBudget > 0 => ~(actor[a].shown >= SessionBudget)
        BY <3>2 DEF DecideSuggestion
      <4>3. actor[a].shown \in Nat /\ SessionBudget \in Nat
        BY <2>1, EvolveAssumption DEF Screens
      <4> HIDE DEF s, offers
      <4>4. SessionBudget > 0 => s.shown <= SessionBudget
        BY <4>1, <4>2, <4>3
      <4> QED
        BY <3>2, <4>4, SessionStays DEF s
    <3> QED
      BY <2>3, <3>1, <3>2 DEF CheckSuggest
  <2>4. CASE CancelSuggest(a) \/ AcceptSuggestion(a) \/ DismissSuggestion(a)
    BY <2>1, <2>4, SessionStays DEF CancelSuggest, AcceptSuggestion, DismissSuggestion
  <2>5. CASE DismissLoads(a)
    <3> DEFINE s == [actor[a] EXCEPT !.at = "dismissing", !.ledger = ledger, !.alone = TRUE]
    <3>1. s.shown = actor[a].shown
      BY <2>1 DEF Screens
    <3>2. actor' = [actor EXCEPT ![a] = s]
      BY <2>5 DEF DismissLoads
    <3> HIDE DEF s
    <3> QED
      BY <3>1, <3>2, SessionStays
  <2>6. CASE RestartUi(a)
    <3> DEFINE s == [Resting EXCEPT !.watching = mode = "suggest"]
    <3>1. s.shown = 0
      BY DEF Resting
    <3>2. actor' = [actor EXCEPT ![a] = s]
      BY <2>6 DEF RestartUi
    <3> HIDE DEF s
    <3>3. SessionBudget > 0 => s.shown <= SessionBudget
      BY <3>1, EvolveAssumption
    <3> QED
      BY <3>2, <3>3, SessionStays
  <2>7. CASE AcceptLoads(a)
    <3> DEFINE s == [Rested(a) EXCEPT !.at = "accepting", !.state = suggestState]
    <3>1. s.shown = actor[a].shown
      BY <2>1 DEF Screens
    <3>2. actor' = [actor EXCEPT ![a] = s]
      BY <2>7 DEF AcceptLoads
    <3> HIDE DEF s
    <3> QED
      BY <3>1, <3>2, SessionStays
  <2>8. CASE RejectLoads(a)
    <3> DEFINE s == [actor[a] EXCEPT !.at = "counting", !.state = suggestState]
    <3>1. s.shown = actor[a].shown
      BY <2>1 DEF Screens
    <3>2. actor' = [actor EXCEPT ![a] = s]
      BY <2>8 DEF RejectLoads
    <3> HIDE DEF s
    <3> QED
      BY <3>1, <3>2, SessionStays
  <2> QED
    BY <1>2, <2>2, <2>3, <2>4, <2>5, <2>6, <2>7, <2>8
<1>3. ASSUME NEW a \in Actors, ObserveSaves(a) \/ DismissSaves(a) PROVE SessionInv'
  <2>1. \A b \in Actors : actor'[b].shown = actor[b].shown
    BY <1>3, WrittenBy DEF Rewrites, SameBut
  <2> QED
    BY <2>1 DEF SessionInv, Actors
<1>4. ASSUME NEW a \in Actors, NEW raw \in Raws, ObserveLoads(a, raw) PROVE SessionInv'
  <2> DEFINE s == [actor[a] EXCEPT !.at = "observing", !.ledger = ledger, !.pattern = raw]
  <2>1. s.shown = actor[a].shown
    BY DEF EvolveTypes, Screens
  <2>2. actor' = [actor EXCEPT ![a] = s]
    BY <1>4 DEF ObserveLoads
  <2> HIDE DEF s
  <2> QED
    BY <2>1, <2>2, SessionStays
<1>5. Uis \subseteq Actors
  BY DEF Actors
<1> QED
  BY <1>1, <1>2, <1>3, <1>4, <1>5 DEF Next, tools, Suggesting, Observing

\* What an actor does beside suggest.json, or reads of it, keeps what is counted.
LEMMA WeekStays ==
    ASSUME EvolveTypes, WeekInv, NEW a \in Actors, NEW s, actor' = [actor EXCEPT ![a] = s],
           Begun(s.state, now),
           suggestState' = suggestState, overwritten' = overwritten, now' = now, week' = week
    PROVE  WeekInv'
<1>1. actor'[a] = s /\ \A b \in Actors : b # a => actor'[b] = actor[b]
  BY DEF EvolveTypes
<1>2. \A b \in Actors : Begun(actor'[b].state, now)
  BY <1>1 DEF WeekInv
<1> QED
  BY <1>2 DEF WeekInv, Counted

\* A screen replaces suggest.json: what it had not read is overwritten.
LEMMA WeekWrites ==
    ASSUME EvolveTypes, WeekInv, NEW a \in Actors, NEW s, actor' = [actor EXCEPT ![a] = s],
           Begun(s.state, now), NEW marks \in Marks, Replaces(a, marks), now' = now,
           Begun(marks, now),
           actor[a].state = suggestState /\ overwritten < marks.start => Counted'
    PROVE  WeekInv'
<1>1. actor'[a] = s /\ \A b \in Actors : b # a => actor'[b] = actor[b]
  BY DEF EvolveTypes
<1>2. \A b \in Actors : Begun(actor'[b].state, now)
  BY <1>1 DEF WeekInv
<1>3. suggestState' = marks
  BY DEF Replaces
<1>4. CASE actor[a].state = suggestState
  <2>1. overwritten' = overwritten
    BY <1>4 DEF Replaces
  <2> QED
    BY <1>2, <1>3, <1>4, <2>1 DEF WeekInv
<1>5. CASE actor[a].state # suggestState
  <2>1. overwritten' = now
    BY <1>5 DEF Replaces
  <2>2. ~(overwritten' < marks.start)
    BY <2>1 DEF Begun, Marks, EvolveTypes
  <2> QED
    BY <1>2, <1>3, <2>2 DEF WeekInv
<1> QED
  BY <1>4, <1>5

\* What the week counts, when it goes by and when it does not.
LEMMA RollCounts ==
    ASSUME NEW s \in Marks, now \in Nat, now > 0, s.start = 0 => s.count = 0,
           NEW w \in Nat, w = s.count
    PROVE  /\ RollWeek(s).count = IF RollWeek(s).start = s.start THEN w ELSE 0
           /\ RollWeek(s).start # 0
           /\ RollWeek(s).count \in Nat
           /\ RollWeek(s).count <= w
<1>1. CASE s.start = 0
  <2>1. RollWeek(s) = [s EXCEPT !.start = now]
    BY <1>1 DEF RollWeek
  <2> QED
    BY <1>1, <2>1 DEF Marks
<1>2. CASE s.start # 0 /\ s.start < now
  <2>1. RollWeek(s) = [s EXCEPT !.start = now, !.count = 0]
    BY <1>2 DEF RollWeek
  <2> QED
    BY <1>2, <2>1 DEF Marks
<1>3. CASE s.start # 0 /\ ~(s.start < now)
  <2>1. RollWeek(s) = s
    BY <1>3 DEF RollWeek
  <2> QED
    BY <1>3, <2>1 DEF Marks
<1> QED
  BY <1>1, <1>2, <1>3

LEMMA WeekChecks ==
    ASSUME EvolveTypes, WeekInv, NEW a \in Actors, CheckSuggest(a)
    PROVE  WeekInv'
<1> DEFINE state == RollWeek(actor[a].state)
           offers == DecideSuggestion(actor[a].ledger, state, actor[a].shown)
<1>1. /\ suggestState \in Marks /\ actor[a].state \in Marks /\ now \in Nat /\ now > 0
      /\ Begun(actor[a].state, now) /\ Begun(suggestState, now)
      /\ overwritten < suggestState.start => Counted
  BY DEF WeekInv, EvolveTypes, Screens
<1>2. /\ state.count = IF state.start = actor[a].state.start THEN actor[a].state.count ELSE 0
      /\ state.start # 0
  <2>1. actor[a].state.count \in Nat
    BY <1>1 DEF Marks
  <2> QED
    BY <1>1, <2>1, RollCounts DEF Begun
<1>3. Rested(a) \in Screens /\ state \in Marks /\ Rested(a).state = Resting.state
  BY <1>1, RestTypes, RollType DEF EvolveTypes, Rested, Screens
<1>4. WeekBudget \in Nat /\ now' = now
  BY EvolveAssumption DEF CheckSuggest
<1>5. Begun(Resting.state, now)
  BY <1>1 DEF Resting, Begun
<1>6. state.start = now
  BY <1>1 DEF RollWeek, Marks, Begun
<1>7. state.start \in Nat /\ state.count \in Nat /\ suggestState.start \in Nat /\ suggestState.count \in Nat
  BY <1>1, <1>3 DEF Marks
<1> HIDE DEF state
<1>8. actor[a].state = suggestState /\ overwritten < state.start =>
        /\ state.start = suggestState.start => week = state.count
        /\ state.start # suggestState.start => state.count = 0
  <2> SUFFICES ASSUME actor[a].state = suggestState, overwritten < state.start
               PROVE  /\ state.start = suggestState.start => week = state.count
                      /\ state.start # suggestState.start => state.count = 0
    OBVIOUS
  <2>1. CASE state.start = suggestState.start
    BY <1>1, <1>2, <2>1 DEF Counted
  <2>2. CASE state.start # suggestState.start
    BY <1>2, <2>2
  <2> QED
    BY <2>1, <2>2
<1>9. actor[a].state = suggestState /\ overwritten < state.start /\ state.start = suggestState.start
        => (WeekBudget > 0 => week <= WeekBudget)
  BY <1>1 DEF Counted
<1>10. CASE /\ Replaces(a, state)
            /\ week' = IF state.start = suggestState.start THEN week ELSE 0
            /\ actor' = [actor EXCEPT ![a] = Rested(a)]
  <2>1. ASSUME actor[a].state = suggestState, overwritten < state.start PROVE Counted'
    <3>1. suggestState' = state
      BY <1>10 DEF Replaces
    <3>2. week' = state.count
      BY <1>8, <1>10, <2>1
    <3>3. WeekBudget > 0 => week' <= WeekBudget
      BY <1>4, <1>9, <1>10, <2>1
    <3> QED
      BY <3>1, <3>2, <3>3 DEF Counted
  <2>2. Begun(state, now)
    BY <1>1, <1>2, <1>6 DEF Begun
  <2>3. Begun(Rested(a).state, now)
    BY <1>3, <1>5
  <2> QED
    BY <1>3, <1>4, <1>10, <2>1, <2>2, <2>3, WeekWrites
<1>11. ASSUME NEW rec \in offers,
             Replaces(a, [state EXCEPT !.count = @ + 1]),
             week' = IF state.start = suggestState.start THEN week + 1 ELSE 1,
             actor' = [actor EXCEPT ![a] = [Rested(a) EXCEPT !.at = "offer", !.pattern = rec.pattern,
                   !.refused = actor[a].refused, !.shown = @ + 1]]
      PROVE  WeekInv'
  <2> DEFINE s == [Rested(a) EXCEPT !.at = "offer", !.pattern = rec.pattern,
                   !.refused = actor[a].refused, !.shown = @ + 1]
             marks == [state EXCEPT !.count = @ + 1]
  <2>1. s.state = Resting.state
    BY <1>3 DEF Screens
  <2>2. marks \in Marks /\ marks.count = state.count + 1 /\ marks.start = state.start
    BY <1>3 DEF Marks
  <2>3. WeekBudget > 0 => ~(state.count >= WeekBudget)
    BY <1>11 DEF DecideSuggestion
  <2>4. Replaces(a, marks) /\ actor' = [actor EXCEPT ![a] = s]
    BY <1>11
  <2> HIDE DEF offers, s, marks
  <2>5. ASSUME actor[a].state = suggestState, overwritten < marks.start PROVE Counted'
    <3>1. suggestState' = marks
      BY <2>4 DEF Replaces
    <3>2. week' = state.count + 1
      BY <1>8, <1>11, <2>2, <2>5
    <3>3. WeekBudget > 0 => week' <= WeekBudget
      BY <1>4, <1>7, <2>3, <3>2
    <3> QED
      BY <2>2, <3>1, <3>2, <3>3 DEF Counted
  <2>6. Begun(marks, now)
    BY <1>1, <1>2, <1>6, <2>2 DEF Begun
  <2>7. Begun(s.state, now)
    BY <1>5, <2>1
  <2> QED
    BY <1>4, <2>2, <2>4, <2>5, <2>6, <2>7, WeekWrites
<1> QED
  BY <1>10, <1>11 DEF CheckSuggest, state

LEMMA WeekStep == EvolveTypes /\ WeekInv /\ [Next]_<<evolve, tools>> => WeekInv'
<1> SUFFICES ASSUME EvolveTypes, WeekInv, [Next]_<<evolve, tools>> PROVE WeekInv'
  OBVIOUS
<1>1. CASE UNCHANGED evolve
  BY <1>1 DEF evolve, WeekInv, Counted
<1>2. CASE WeekPasses
  <2>1. now' > 0 /\ now' = now + 1 /\ now \in Nat
    BY <1>2 DEF WeekPasses, WeekInv, EvolveTypes
  <2>2. \A s \in Marks : Begun(s, now) => Begun(s, now')
    BY <2>1 DEF Begun, Marks
  <2>3. suggestState \in Marks /\ \A a \in Actors : actor[a].state \in Marks
    BY DEF EvolveTypes, Screens
  <2> QED
    BY <1>2, <2>1, <2>2, <2>3 DEF WeekPasses, WeekInv, Counted
<1>3. ASSUME NEW a \in Actors,
             \/ CheckLoads(a) \/ CheckSuggest(a) \/ CancelSuggest(a)
             \/ AcceptLoads(a) \/ AcceptSuggestion(a)
             \/ DismissLoads(a) \/ RejectLoads(a) \/ DismissSuggestion(a) \/ RestartUi(a)
      PROVE  WeekInv'
  <2>1. /\ actor[a] \in Screens /\ Rested(a) \in Screens /\ Rested(a).state = Resting.state
        /\ suggestState \in Marks /\ actor[a].state \in Marks
    BY RestTypes DEF EvolveTypes, Rested, Screens
  <2>2. Begun(suggestState, now) /\ Begun(actor[a].state, now) /\ Begun(Resting.state, now)
    BY DEF WeekInv, Begun, Resting, EvolveTypes
  <2>3. CASE CheckLoads(a)
    <3> DEFINE s == [actor[a] EXCEPT !.at = "checking", !.ledger = ledger, !.state = suggestState,
                             !.refused = rejected]
    <3>1. s.state = suggestState
      BY <2>1 DEF Screens
    <3>2. actor' = [actor EXCEPT ![a] = s]
      BY <2>3 DEF CheckLoads
    <3> HIDE DEF s
    <3> QED
      BY <2>2, <2>3, <3>1, <3>2, WeekStays DEF CheckLoads
  <2>4. CASE CheckSuggest(a)
    BY <2>4, WeekChecks
  <2>5. CASE CancelSuggest(a)
    BY <2>1, <2>2, <2>5, WeekStays DEF CancelSuggest
  <2>6. CASE AcceptLoads(a)
    <3> DEFINE s == [Rested(a) EXCEPT !.at = "accepting", !.state = suggestState]
    <3>1. s.state = suggestState
      BY <2>1 DEF Screens
    <3>2. actor' = [actor EXCEPT ![a] = s]
      BY <2>6 DEF AcceptLoads
    <3> HIDE DEF s
    <3> QED
      BY <2>2, <2>6, <3>1, <3>2, WeekStays DEF AcceptLoads
  <2>7. CASE AcceptSuggestion(a) \/ DismissSuggestion(a)
    <3>1. PICK marks \in Marks : /\ Replaces(a, marks) /\ marks.start = actor[a].state.start
                                 /\ marks.count = actor[a].state.count
      <4>1. CASE AcceptSuggestion(a)
        <5> DEFINE marks == [actor[a].state EXCEPT !.rejects = 0]
        <5>1. /\ marks \in Marks /\ marks.start = actor[a].state.start
              /\ marks.count = actor[a].state.count
          BY <2>1 DEF Marks
        <5>2. Replaces(a, marks)
          BY <4>1 DEF AcceptSuggestion
        <5> HIDE DEF marks
        <5> QED
          BY <5>1, <5>2
      <4>2. CASE DismissSuggestion(a)
        <5> DEFINE marks == [actor[a].state EXCEPT !.rejects = @ + 1]
        <5>1. /\ marks \in Marks /\ marks.start = actor[a].state.start
              /\ marks.count = actor[a].state.count
          BY <2>1 DEF Marks
        <5>2. Replaces(a, marks)
          BY <4>2 DEF DismissSuggestion
        <5> HIDE DEF marks
        <5> QED
          BY <5>1, <5>2
      <4> QED
        BY <2>7, <4>1, <4>2
    <3>2. actor' = [actor EXCEPT ![a] = Rested(a)] /\ now' = now /\ week' = week
      BY <2>7 DEF AcceptSuggestion, DismissSuggestion
    <3>3. Begun(marks, now) /\ suggestState' = marks
      BY <2>2, <3>1 DEF Begun, Replaces
    <3>4. ASSUME actor[a].state = suggestState, overwritten < marks.start PROVE Counted'
      BY <3>1, <3>2, <3>3, <3>4 DEF WeekInv, Counted
    <3> QED
      BY <2>1, <2>2, <3>1, <3>2, <3>3, <3>4, WeekWrites
  <2>8. CASE DismissLoads(a)
    <3> DEFINE s == [actor[a] EXCEPT !.at = "dismissing", !.ledger = ledger, !.alone = TRUE]
    <3>1. s.state = actor[a].state
      BY <2>1 DEF Screens
    <3>2. actor' = [actor EXCEPT ![a] = s]
      BY <2>8 DEF DismissLoads
    <3> HIDE DEF s
    <3> QED
      BY <2>2, <2>8, <3>1, <3>2, WeekStays DEF DismissLoads
  <2>9. CASE RejectLoads(a)
    <3> DEFINE s == [actor[a] EXCEPT !.at = "counting", !.state = suggestState]
    <3>1. s.state = suggestState
      BY <2>1 DEF Screens
    <3>2. actor' = [actor EXCEPT ![a] = s]
      BY <2>9 DEF RejectLoads
    <3> HIDE DEF s
    <3> QED
      BY <2>2, <2>9, <3>1, <3>2, WeekStays DEF RejectLoads
  <2>10. CASE RestartUi(a)
    <3> DEFINE s == [Resting EXCEPT !.watching = mode = "suggest"]
    <3>1. s.state = Resting.state
      BY DEF Resting
    <3>2. actor' = [actor EXCEPT ![a] = s]
      BY <2>10 DEF RestartUi
    <3> HIDE DEF s
    <3> QED
      BY <2>2, <2>10, <3>1, <3>2, WeekStays DEF RestartUi
  <2> QED
    BY <1>3, <2>3, <2>4, <2>5, <2>6, <2>7, <2>8, <2>9, <2>10
<1>4. ASSUME NEW a \in Actors, ObserveSaves(a) \/ DismissSaves(a) PROVE WeekInv'
  <2>1. \A b \in Actors : actor'[b].state \in {actor[b].state, Resting.state}
    BY <1>4, WrittenBy DEF Rewrites, SameBut
  <2>2. Begun(Resting.state, now)
    BY DEF WeekInv, Begun, Resting, EvolveTypes
  <2>3. suggestState' = suggestState /\ now' = now /\ week' = week /\ overwritten' = overwritten
    BY <1>4 DEF ObserveSaves, DismissSaves
  <2>4. \A b \in Actors : Begun(actor'[b].state, now)
    BY <2>1, <2>2 DEF WeekInv
  <2> QED
    BY <2>3, <2>4 DEF WeekInv, Counted
<1>5. ASSUME NEW a \in Actors, NEW raw \in Raws, ObserveLoads(a, raw) PROVE WeekInv'
  <2> DEFINE s == [actor[a] EXCEPT !.at = "observing", !.ledger = ledger, !.pattern = raw]
  <2>1. s.state = actor[a].state
    BY DEF EvolveTypes, Screens
  <2>2. actor' = [actor EXCEPT ![a] = s]
    BY <1>5 DEF ObserveLoads
  <2> HIDE DEF s
  <2>3. Begun(s.state, now)
    BY <2>1 DEF WeekInv
  <2> QED
    BY <1>5, <2>2, <2>3, WeekStays DEF ObserveLoads
<1>6. Uis \subseteq Actors
  BY DEF Actors
<1> QED
  BY <1>1, <1>2, <1>3, <1>4, <1>5, <1>6 DEF Next, tools, Suggesting, Observing
-----------------------------------------------------------------------------
(* Once per pattern.                                                       *)

\* Where the record at j stood before the one at i went to the end.
Before(i, n, j) == IF j = n THEN i ELSE IF j < i THEN j ELSE j + 1

LEMMA BeforeFacts ==
    ASSUME NEW n \in Nat, NEW i \in 1..n
    PROVE  /\ \A j \in 1..n : Before(i, n, j) \in 1..n
           /\ \A j, k \in 1..n : Before(i, n, j) = Before(i, n, k) => j = k
           /\ \A m \in 1..n : \E j \in 1..n : Before(i, n, j) = m
<1>1. \A j \in 1..n : Before(i, n, j) \in 1..n
  BY DEF Before
<1>2. \A j, k \in 1..n : Before(i, n, j) = Before(i, n, k) => j = k
  BY DEF Before
<1>3. ASSUME NEW m \in 1..n PROVE \E j \in 1..n : Before(i, n, j) = m
  <2>1. CASE m = i
    <3>1. n \in 1..n /\ Before(i, n, n) = m
      BY <2>1 DEF Before
    <3> QED
      BY <3>1
  <2>2. CASE m < i
    <3>1. Before(i, n, m) = m
      BY <2>2 DEF Before
    <3> QED
      BY <3>1
  <2>3. CASE m > i
    <3>1. m - 1 \in 1..n /\ Before(i, n, m - 1) = m
      BY <2>3 DEF Before
    <3> QED
      BY <3>1
  <2> QED
    BY <2>1, <2>2, <2>3
<1> QED
  BY <1>1, <1>2, <1>3

\* Observe keeps one record a shape, and the mark of the ones that were refused.
LEMMA ObserveTame ==
    ASSUME NEW records \in Ledgers, NEW raw \in Lines, NEW refused, Tame(records, refused),
           ~Starred(Observe(records, raw))
    PROVE  Tame(Observe(records, raw), refused)
<1> DEFINE new == Observe(records, raw)
           N == Len(records)
<1>1. N \in Nat /\ DOMAIN records = 1..N
  BY LenProperties DEF Ledgers
<1>2. /\ \A i, j \in 1..N : Alike(records[i].pattern, records[j].pattern) => i = j
      /\ \A r \in refused : \E i \in 1..N : Alike(records[i].pattern, r) /\ records[i].dismissed
  BY <1>1 DEF Tame, Single, Barred
<1>3. CASE /\ \A j \in 1..N : ~Alike(records[j].pattern, raw)
           /\ DOMAIN new = 1..(N + 1)
           /\ \A j \in 1..N : new[j] = records[j]
           /\ new[N + 1] = [pattern |-> raw, n |-> 1, dismissed |-> FALSE]
  <2>1. new[N + 1].pattern = raw
    BY <1>3
  <2> HIDE DEF new
  <2>2. ASSUME NEW i \in 1..(N + 1), NEW j \in 1..(N + 1), Alike(new[i].pattern, new[j].pattern)
        PROVE  i = j
    <3>1. i \in 1..N \/ i = N + 1
      BY <1>1
    <3>2. j \in 1..N \/ j = N + 1
      BY <1>1
    <3>3. CASE i \in 1..N /\ j \in 1..N
      BY <1>2, <1>3, <2>2, <3>3
    <3>4. CASE i \in 1..N /\ j = N + 1
      BY <1>3, <2>1, <2>2, <3>4
    <3>5. CASE i = N + 1 /\ j \in 1..N
      <4>1. Alike(new[j].pattern, new[i].pattern)
        BY <2>2 DEF Alike
      <4> QED
        BY <1>3, <2>1, <3>5, <4>1
    <3> QED
      BY <3>1, <3>2, <3>3, <3>4, <3>5
  <2>3. ASSUME NEW r \in refused
        PROVE  \E i \in DOMAIN new : Alike(new[i].pattern, r) /\ new[i].dismissed
    <3>1. PICK i \in 1..N : Alike(records[i].pattern, r) /\ records[i].dismissed
      BY <1>2
    <3>2. i \in 1..(N + 1)
      BY <1>1
    <3> QED
      BY <1>3, <3>1, <3>2
  <2> QED
    BY <1>3, <2>2, <2>3 DEF Tame, Single, Barred, new
<1>4. ASSUME NEW i \in 1..N, Alike(records[i].pattern, raw),
             DOMAIN new = 1..N, Merged(new[N], records[i], raw),
             \A j \in 1..(N - 1) : new[j] = IF j < i THEN records[j] ELSE records[j + 1]
      PROVE  Tame(new, refused)
  <2> DEFINE old(j) == Before(i, N, j)
  <2>1. N \in 1..N /\ N \in Nat
    BY <1>1
  <2>2. records[i] \in Entries
    BY <1>1, ElementOfSeq DEF Ledgers
  <2>3. new[N].pattern = MergePattern(records[i].pattern, raw) /\ new[N].dismissed = records[i].dismissed
    BY <1>4 DEF Merged
  <2>4. Alike(new[N].pattern, records[i].pattern)
    <3>1. \/ Alike(new[N].pattern, records[i].pattern)
          \/ new[N].pattern[1] = Wildcard
      BY <2>2, <2>3, MergeShape DEF Entries
    <3>2. ~(new[N].pattern[1] = Wildcard)
      BY <1>4, <2>1 DEF Starred
    <3> QED
      BY <3>1, <3>2
  <2> HIDE DEF new
  <2>5. \A j \in 1..N : old(j) \in 1..N
    BY <2>1, BeforeFacts
  <2>6. \A j, k \in 1..N : old(j) = old(k) => j = k
    BY <2>1, BeforeFacts
  <2>7. \A m \in 1..N : \E j \in 1..N : old(j) = m
    BY <2>1, BeforeFacts
  <2>8. ASSUME NEW j \in 1..N
        PROVE  /\ Alike(new[j].pattern, records[old(j)].pattern)
               /\ new[j].dismissed = records[old(j)].dismissed
    <3>1. CASE j = N
      BY <2>3, <2>4, <3>1 DEF Before
    <3>2. CASE j # N
      <4>1. j \in 1..(N - 1)
        <5> HIDE DEF N
        <5> QED
          BY <2>1, <3>2
      <4>2. new[j] = records[old(j)]
        BY <1>4, <3>2, <4>1 DEF Before
      <4> HIDE DEF old
      <4> QED
        BY <4>2 DEF Alike
    <3> QED
      BY <3>1, <3>2
  <2> HIDE DEF old
  <2>9. ASSUME NEW j \in 1..N, NEW k \in 1..N, Alike(new[j].pattern, new[k].pattern)
        PROVE  j = k
    <3>1. Alike(records[old(j)].pattern, records[old(k)].pattern)
      BY <2>8, <2>9 DEF Alike
    <3>2. old(j) = old(k)
      BY <1>2, <2>5, <3>1
    <3> QED
      BY <2>6, <3>2
  <2>10. ASSUME NEW r \in refused
         PROVE  \E j \in 1..N : Alike(new[j].pattern, r) /\ new[j].dismissed
    <3>1. PICK m \in 1..N : Alike(records[m].pattern, r) /\ records[m].dismissed
      BY <1>2
    <3>2. PICK j \in 1..N : old(j) = m
      BY <2>7
    <3>3. Alike(new[j].pattern, r) /\ new[j].dismissed
      BY <2>8, <3>1, <3>2 DEF Alike
    <3> QED
      BY <3>3
  <2> QED
    BY <1>4, <2>9, <2>10 DEF Tame, Single, Barred, new
<1> QED
  BY <1>3, <1>4, ObserveCases

\* A refusal marks the record it names and keeps the marks there are.
LEMMA DismissTame ==
    ASSUME NEW records \in Ledgers, NEW pattern, NEW refused, Tame(records, refused),
           NEW more, more \subseteq refused \cup {pattern},
           pattern \in more => pattern \in refused \/ pattern \in Patterns(records)
    PROVE  Tame(DismissPattern(records, pattern), more)
<1> DEFINE new == DismissPattern(records, pattern)
<1>1. /\ DOMAIN new = DOMAIN records
      /\ \A j \in DOMAIN records : /\ new[j].pattern = records[j].pattern
                                   /\ records[j].dismissed => new[j].dismissed
      /\ pattern \in Patterns(records) =>
            \E j \in DOMAIN records : new[j].pattern = pattern /\ new[j].dismissed
  BY DismissFacts
<1> HIDE DEF new
<1>2. ~Starred(new) /\ Single(new)
  BY <1>1 DEF Tame, Starred, Single
<1>3. ASSUME NEW r \in refused PROVE Barred(new, r)
  BY <1>1 DEF Tame, Barred
<1>4. ASSUME pattern \in Patterns(records) PROVE Barred(new, pattern)
  BY <1>1, <1>4 DEF Barred, Alike
<1> QED
  BY <1>2, <1>3, <1>4 DEF Tame, new

\* A record that may be offered was not refused.
LEMMA OfferedHeeds ==
    ASSUME NEW records \in Ledgers, NEW refused, Tame(records, refused),
           NEW i \in DOMAIN records, ~records[i].dismissed
    PROVE  \A r \in refused : ~Alike(records[i].pattern, r)
<1> SUFFICES ASSUME NEW r \in refused, Alike(records[i].pattern, r) PROVE FALSE
  OBVIOUS
<1>1. PICK m \in DOMAIN records : Alike(records[m].pattern, r) /\ records[m].dismissed
  BY DEF Tame, Barred
<1>2. Alike(records[i].pattern, records[m].pattern)
  BY <1>1 DEF Alike
<1> QED
  BY <1>1, <1>2 DEF Tame, Single

\* What one actor does by itself.
LEMMA RefuseStays ==
    ASSUME EvolveTypes, RefuseInv, NEW a \in Actors, NEW s, actor' = [actor EXCEPT ![a] = s],
           ledger' = ledger, rejected' = rejected, starred' = starred,
           ~starred => Heeds(s, rejected) /\ Current(s, ledger) /\ Offers(s)
    PROVE  RefuseInv'
<1> SUFFICES ASSUME ~starred
             PROVE  /\ Tame(ledger, rejected)
                    /\ \A b \in Actors : /\ Heeds(actor'[b], rejected) /\ Current(actor'[b], ledger)
                                         /\ Offers(actor'[b])
  BY DEF RefuseInv, Heeds, Current, Offers
<1>1. actor'[a] = s /\ \A b \in Actors : b # a => actor'[b] = actor[b]
  BY DEF EvolveTypes
<1> QED
  BY <1>1 DEF RefuseInv

\* The ledger is replaced while nobody else held a copy to write, or nothing was
\* refused by it.
LEMMA RefuseWrites ==
    ASSUME EvolveTypes, RefuseInv, NEW a \in Actors, NEW at \in {"idle", "rejecting"},
           Rewrites(a, at), starred' \/ ~starred,
           ~starred' => Tame(ledger', rejected'),
           \/ rejected' = rejected
           \/ \A b \in Actors \ {a} : actor[b].at \notin {"observing", "dismissing"}
    PROVE  RefuseInv'
<1> SUFFICES ASSUME ~starred'
             PROVE  /\ Tame(ledger', rejected')
                    /\ \A b \in Actors : /\ Heeds(actor'[b], rejected') /\ Current(actor'[b], ledger')
                                         /\ Offers(actor'[b])
  BY DEF RefuseInv, Heeds, Current, Offers
<1>1. \A b \in Actors : Heeds(actor[b], rejected) /\ Offers(actor[b])
  BY DEF RefuseInv
<1>2. Heeds(actor'[a], rejected') /\ Current(actor'[a], ledger') /\ Offers(actor'[a])
  BY DEF Rewrites, Heeds, Current, Offers
<1>3. ASSUME NEW b \in Actors, b # a
      PROVE  Heeds(actor'[b], rejected') /\ Current(actor'[b], ledger') /\ Offers(actor'[b])
  <2>1. SameBut(b)
    BY <1>3 DEF Rewrites
  <2>2. CASE rejected' = rejected
    BY <1>1, <2>1, <2>2 DEF SameBut, Heeds, Current, Offers
  <2>3. CASE actor[b].at \notin {"observing", "dismissing"}
    BY <1>1, <2>1, <2>3 DEF SameBut, Heeds, Current, Offers
  <2> QED
    BY <1>3, <2>2, <2>3
<1> QED
  BY <1>2, <1>3

LEMMA RefuseSaves ==
    ASSUME EvolveTypes, RefuseInv, NEW a \in Actors, ObserveSaves(a) \/ DismissSaves(a)
    PROVE  RefuseInv'
<1>1. /\ actor[a].ledger \in Ledgers
      /\ ~starred => Tame(ledger, rejected) /\ Heeds(actor[a], rejected) /\ Current(actor[a], ledger)
  BY DEF EvolveTypes, Screens, RefuseInv
<1>2. CASE ObserveSaves(a)
  <2> DEFINE records == actor[a].ledger
             raw == actor[a].pattern
  <2>1. /\ raw \in Lines /\ rejected' = rejected /\ ledger' = Observe(records, raw)
        /\ starred' = (starred \/ \E p \in Patterns(ledger') : p[1] = Wildcard)
    BY <1>2 DEF EvolveTypes, Screens, ObserveSaves, Lines
  <2>2. ~starred' => ~starred /\ ~Starred(ledger')
    BY <2>1 DEF Starred, Patterns
  <2>3. ASSUME ~starred' PROVE Tame(ledger', rejected')
    <3>1. Tame(records, rejected)
      BY <1>1, <1>2, <2>2, <2>3 DEF Heeds, ObserveSaves
    <3>2. ~Starred(Observe(records, raw))
      BY <2>1, <2>2, <2>3
    <3> HIDE DEF records, raw
    <3>3. Tame(Observe(records, raw), rejected)
      BY <1>1, <2>1, <3>1, <3>2, ObserveTame DEF records
    <3> QED
      BY <2>1, <3>3
  <2> QED
    BY <1>2, <2>1, <2>2, <2>3, WrittenBy, RefuseWrites
<1>3. CASE DismissSaves(a)
  <2> DEFINE heard == /\ actor[a].alone
                      /\ actor[a].pattern \in Patterns(ledger)
                      /\ \A b \in Actors \ {a} : actor[b].at \notin {"observing", "dismissing"}
  <2>1. /\ actor[a].at = "dismissing" /\ starred' = starred
        /\ ledger' = DismissPattern(actor[a].ledger, actor[a].pattern)
        /\ rejected' = IF heard THEN rejected \cup {actor[a].pattern} ELSE rejected
    BY <1>3 DEF DismissSaves
  <2>2. ASSUME ~starred PROVE Tame(ledger', rejected')
    <3>1. Tame(actor[a].ledger, rejected)
      BY <1>1, <2>1, <2>2 DEF Heeds
    <3>2. CASE heard
      <4>1. actor[a].pattern \in Patterns(actor[a].ledger)
        BY <1>1, <2>1, <2>2, <3>2 DEF Current
      <4>2. rejected' = rejected \cup {actor[a].pattern}
        BY <2>1, <3>2
      <4> HIDE DEF heard
      <4> QED
        BY <1>1, <2>1, <3>1, <4>1, <4>2, DismissTame
    <3>3. CASE ~heard
      <4>1. rejected' = rejected
        BY <2>1, <3>3
      <4> HIDE DEF heard
      <4> QED
        BY <1>1, <2>1, <3>1, <4>1, DismissTame
    <3> QED
      BY <3>2, <3>3
  <2>3. \/ rejected' = rejected
        \/ \A b \in Actors \ {a} : actor[b].at \notin {"observing", "dismissing"}
    BY <2>1
  <2> HIDE DEF heard
  <2> QED
    BY <1>3, <2>1, <2>2, <2>3, WrittenBy, RefuseWrites
<1> QED
  BY <1>2, <1>3

LEMMA RefuseSuggests ==
    ASSUME EvolveTypes, CountInv, RefuseInv, NEW a \in Actors,
           \/ CheckLoads(a) \/ CheckSuggest(a) \/ CancelSuggest(a)
           \/ AcceptLoads(a) \/ AcceptSuggestion(a)
           \/ DismissLoads(a) \/ RejectLoads(a) \/ DismissSuggestion(a) \/ RestartUi(a)
    PROVE  RefuseInv'
<1>1. /\ actor[a] \in Screens /\ actor[a].ledger \in Ledgers
      /\ executed \in Seq(Lines) /\ Counts(actor[a].ledger, executed)
      /\ ~starred => Tame(ledger, rejected) /\ Heeds(actor[a], rejected) /\ Offers(actor[a])
  BY DEF EvolveTypes, CountInv, Earned, Screens, RefuseInv
<1>2. Rested(a) \in Screens /\ Rested(a).at = "idle"
  BY RestTypes
<1>3. \A s : s.at = "idle" => Heeds(s, rejected) /\ Current(s, ledger) /\ Offers(s)
  BY DEF Heeds, Current, Offers
<1>4. CASE CheckLoads(a)
  <2> DEFINE s == [actor[a] EXCEPT !.at = "checking", !.ledger = ledger, !.state = suggestState,
                             !.refused = rejected]
  <2>1. s.at = "checking" /\ s.ledger = ledger /\ s.refused = rejected
    BY <1>1 DEF Screens
  <2>2. actor' = [actor EXCEPT ![a] = s]
    BY <1>4 DEF CheckLoads
  <2> HIDE DEF s
  <2>3. ~starred => Heeds(s, rejected) /\ Current(s, ledger) /\ Offers(s)
    BY <1>1, <2>1 DEF Heeds, Current, Offers
  <2> QED
    BY <1>4, <2>2, <2>3, RefuseStays DEF CheckLoads
<1>5. CASE CheckSuggest(a)
  <2> DEFINE offers == DecideSuggestion(actor[a].ledger, RollWeek(actor[a].state), actor[a].shown)
  <2>1. CASE actor' = [actor EXCEPT ![a] = Rested(a)]
    BY <1>2, <1>3, <1>5, <2>1, RefuseStays DEF CheckSuggest
  <2>2. ASSUME NEW rec \in offers,
               actor' = [actor EXCEPT ![a] = [Rested(a) EXCEPT !.at = "offer", !.pattern = rec.pattern,
                   !.refused = actor[a].refused, !.shown = @ + 1]]
        PROVE  RefuseInv'
    <3> DEFINE s == [Rested(a) EXCEPT !.at = "offer", !.pattern = rec.pattern,
                   !.refused = actor[a].refused, !.shown = @ + 1]
    <3>1. s.at = "offer" /\ s.pattern = rec.pattern /\ s.refused = actor[a].refused
      BY <1>2 DEF Screens
    <3>2. PICK i \in DOMAIN actor[a].ledger : rec = actor[a].ledger[i] /\ ~rec.dismissed
      BY <1>1, OfferedRan
    <3>3. ~starred => \A r \in actor[a].refused : ~Alike(rec.pattern, r)
      <4>1. ~starred => Tame(actor[a].ledger, actor[a].refused)
        BY <1>1, <1>5 DEF Heeds, CheckSuggest
      <4> HIDE DEF offers
      <4> QED
        BY <1>1, <3>2, <4>1, OfferedHeeds
    <3> HIDE DEF s, offers
    <3>4. ~starred => Heeds(s, rejected) /\ Current(s, ledger) /\ Offers(s)
      BY <3>1, <3>3 DEF Heeds, Current, Offers
    <3>5. actor' = [actor EXCEPT ![a] = s]
      BY <2>2 DEF s
    <3> QED
      BY <1>5, <3>4, <3>5, RefuseStays DEF CheckSuggest
  <2> QED
    BY <1>5, <2>1, <2>2 DEF CheckSuggest
<1>6. CASE CancelSuggest(a) \/ AcceptSuggestion(a) \/ DismissSuggestion(a)
  BY <1>2, <1>3, <1>6, RefuseStays DEF CancelSuggest, AcceptSuggestion, DismissSuggestion
<1>7. CASE DismissLoads(a)
  <2> DEFINE s == [actor[a] EXCEPT !.at = "dismissing", !.ledger = ledger, !.alone = TRUE]
  <2>1. /\ s.at = "dismissing" /\ s.ledger = ledger /\ s.pattern = actor[a].pattern
        /\ s.refused = actor[a].refused
    BY <1>1 DEF Screens
  <2>2. actor' = [actor EXCEPT ![a] = s] /\ actor[a].at = "offer"
    BY <1>7 DEF DismissLoads
  <2> HIDE DEF s
  <2>3. ~starred => Heeds(s, rejected) /\ Current(s, ledger) /\ Offers(s)
    BY <1>1, <2>1, <2>2 DEF Heeds, Current, Offers
  <2> QED
    BY <1>7, <2>2, <2>3, RefuseStays DEF DismissLoads
<1>8. CASE RestartUi(a)
  <2> DEFINE s == [Resting EXCEPT !.watching = mode = "suggest"]
  <2>1. s.at = "idle"
    BY DEF Resting
  <2>2. actor' = [actor EXCEPT ![a] = s]
    BY <1>8 DEF RestartUi
  <2> HIDE DEF s
  <2> QED
    BY <1>3, <1>8, <2>1, <2>2, RefuseStays DEF RestartUi
<1>9. CASE AcceptLoads(a)
  <2> DEFINE s == [Rested(a) EXCEPT !.at = "accepting", !.state = suggestState]
  <2>1. s.at = "accepting"
    BY <1>2 DEF Screens
  <2>2. actor' = [actor EXCEPT ![a] = s]
    BY <1>9 DEF AcceptLoads
  <2> HIDE DEF s
  <2>3. Heeds(s, rejected) /\ Current(s, ledger) /\ Offers(s)
    BY <2>1 DEF Heeds, Current, Offers
  <2> QED
    BY <1>9, <2>2, <2>3, RefuseStays DEF AcceptLoads
<1>10. CASE RejectLoads(a)
  <2> DEFINE s == [actor[a] EXCEPT !.at = "counting", !.state = suggestState]
  <2>1. s.at = "counting"
    BY <1>1 DEF Screens
  <2>2. actor' = [actor EXCEPT ![a] = s]
    BY <1>10 DEF RejectLoads
  <2> HIDE DEF s
  <2>3. Heeds(s, rejected) /\ Current(s, ledger) /\ Offers(s)
    BY <2>1 DEF Heeds, Current, Offers
  <2> QED
    BY <1>10, <2>2, <2>3, RefuseStays DEF RejectLoads
<1> QED
  BY <1>4, <1>5, <1>6, <1>7, <1>8, <1>9, <1>10

LEMMA RefuseStep ==
    EvolveTypes /\ CountInv /\ RefuseInv /\ [Next]_<<evolve, tools>> => RefuseInv'
<1> SUFFICES ASSUME EvolveTypes, CountInv, RefuseInv, [Next]_<<evolve, tools>> PROVE RefuseInv'
  OBVIOUS
<1>1. CASE UNCHANGED evolve \/ WeekPasses
  BY <1>1 DEF evolve, WeekPasses, RefuseInv, Heeds, Current, Offers
<1>2. ASSUME NEW a \in Actors, NEW raw \in Raws, ObserveLoads(a, raw) PROVE RefuseInv'
  <2> DEFINE s == [actor[a] EXCEPT !.at = "observing", !.ledger = ledger, !.pattern = raw]
  <2>1. s.at = "observing" /\ s.ledger = ledger
    BY DEF EvolveTypes, Screens
  <2>2. actor' = [actor EXCEPT ![a] = s]
    BY <1>2 DEF ObserveLoads
  <2>3. ~starred => Tame(ledger, rejected)
    BY DEF RefuseInv
  <2> HIDE DEF s
  <2>4. ~starred => Heeds(s, rejected) /\ Current(s, ledger) /\ Offers(s)
    BY <2>1, <2>3 DEF Heeds, Current, Offers
  <2> QED
    BY <1>2, <2>2, <2>4, RefuseStays DEF ObserveLoads
<1>3. Uis \subseteq Actors
  BY DEF Actors
<1> QED
  BY <1>1, <1>2, <1>3, RefuseSaves, RefuseSuggests DEF Next, tools, Suggesting, Observing

LEMMA ScreenStart == Init => SessionInv /\ WeekInv /\ RefuseInv
<1> SUFFICES ASSUME Init PROVE SessionInv /\ WeekInv /\ RefuseInv
  OBVIOUS
<1>1. /\ ledger = <<>> /\ suggestState = [start |-> 0, count |-> 0, rejects |-> 0]
      /\ now = 1 /\ week = 0 /\ rejected = {} /\ overwritten = 0
  BY DEF Init, EvolveInit
<1>2. \A a \in Actors : /\ actor[a].at = "idle" /\ actor[a].shown = 0
                         /\ actor[a].state = [start |-> 0, count |-> 0, rejects |-> 0]
  BY DEF Init, EvolveInit, Resting
<1>3. Uis \subseteq Actors
  BY DEF Actors
<1>4. SessionInv
  BY <1>2, <1>3, EvolveAssumption DEF SessionInv
<1>5. WeekInv
  BY <1>1, <1>2, EvolveAssumption DEF WeekInv, Begun, Counted
<1>6. Tame(<<>>, {})
  BY DEF Tame, Starred, Single, Barred
<1>7. RefuseInv
  BY <1>1, <1>2, <1>6 DEF RefuseInv, Heeds, Current, Offers
<1> QED
  BY <1>4, <1>5, <1>7

\* What a screen offers had run as often as a suggestion asks.
OffersRan == \A a \in Offering : TimesRun(actor[a].pattern) >= MinRepeats

LEMMA OfferedRuns == CountInv => OffersRan
BY DEF CountInv, Earned, Offering, Actors, TimesRun, Times, RunsOf, OffersRan

\* With any number of programs that suggest, each within the budget of its
\* session proposes only what ran often enough.
THEOREM OffersAlwaysRan == Spec => [](SessionInv /\ OffersRan)
<1> QED
  BY EvolveStart, EvolveStep, CountStart, CountStep, ScreenStart, SessionStep, OfferedRuns, PTL DEF Spec

\* With any number of programs that suggest and of other writers of the ledger:
\* what is proposed stays in its budgets (the week's, unless in that week a program
\* overwrote a suggest.json it had not read) and ran often enough, and a pattern that
\* had been refused when the ledger was read, or was merged into another, is not
\* proposed again unless a record lost its first word.
THEOREM EvolutionAlwaysEarned == Spec => []EvolutionEarned
<1> DEFINE Inv == EvolveTypes /\ CountInv /\ SessionInv /\ WeekInv /\ RefuseInv
<1>1. Init => Inv
  BY EvolveStart, CountStart, ScreenStart
<1>2. Inv /\ [Next]_<<evolve, tools>> => Inv'
  BY EvolveStep, CountStep, SessionStep, WeekStep, RefuseStep
<1>3. Inv => EvolutionEarned
  <2> SUFFICES ASSUME Inv PROVE EvolutionEarned
    OBVIOUS
  <2>1. MadeWasEarned
    BY DEF CountInv, MadeWasEarned, TimesRun, Times, RunsOf
  <2>2. OffersRan
    BY OfferedRuns
  <2>3. OffersEarned
    BY <2>2 DEF SessionInv, WeekInv, Counted, OffersRan, OffersEarned
  <2>4. RefusedStaysRefused
    BY DEF RefuseInv, Offers, Offering, Actors, Alike, RefusedStaysRefused, OncePerPattern
  <2> QED
    BY <2>1, <2>3, <2>4 DEF EvolutionEarned
<1> QED
  BY <1>1, <1>2, <1>3, PTL DEF Spec

=============================================================================
