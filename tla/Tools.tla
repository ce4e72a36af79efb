------------------------------- MODULE Tools --------------------------------
(* tools/: the manifests under the tools directory, the state.json beside   *)
(* each, and the operations that change them: tool_create, tool_edit,       *)
(* tool_probe, tool_archive, tool_revive and tool_delete, called by a model *)
(* or, through app/toolslister.go, by the person. Several doors (programs,  *)
(* or connections of one) share the directory and nothing locks it, so an   *)
(* operation is its file accesses, one after the other.                     *)
(*                                                                          *)
(* A manifest is one of a few bodies: Good ones, Broken ones (not TOML, or  *)
(* without a URL), Unsafe ones (a credential path) and Far ones (a host     *)
(* outside the egress list). A tool is named as its directory.              *)
EXTENDS Evolve

CONSTANTS
    Doors, Names,
    Good, Broken, Unsafe, Far, \* bodies of a manifest
    Url,                     \* the request of a body, as the ledger would see it
    Words,                   \* words of a name, and of a body's description
    NativeTools,             \* the tools built in: [name, description], as words
    MaxTools                 \* Thresholds.MaxTools

ASSUME ToolsAssumption ==
    /\ MaxTools \in Nat
    /\ DOMAIN Url = Good \cup Broken \cup Unsafe \cup Far
    /\ DOMAIN Words = Names \cup DOMAIN Url
    /\ "" \notin DOMAIN Url

VARIABLES
    dir,            \* per name: is there a directory, and the two files in it
    call,           \* per door: the operation it is in, with what it read
    registered,     \* per door: the manifests its registry was built from
    begun, tampered,\* operations and edits by hand so far
    passed,         \* manifests whose self-test passed (history)
    made,           \* agent's creations (history)
    spoilt,         \* names an interruption or two operations at once left behind (history)
    ran             \* states of the tools that ran (history)

tools == <<dir, call, registered, begun, tampered, passed, made, spoilt, ran>>

Bodies == Good \cup Broken \cup Unsafe \cup Far
States == {"unverified", "verified", "broken", "archived"}
Fresh == [state |-> "unverified", hash |-> "", previous |-> ""]
Absent == [exists |-> FALSE, manifest |-> "", state |-> Fresh, saved |-> FALSE]

(* The transitions of state.json.                                           *)
Demoted(s, hash) == IF s.hash \notin {"", hash} /\ s.state = "verified" THEN [s EXCEPT !.state = "unverified"] ELSE s
Probe(s, ok, hash) == IF ok THEN [s EXCEPT !.state = "verified", !.hash = hash] ELSE [s EXCEPT !.state = "unverified"]
Edit(s) == [s EXCEPT !.state = "unverified"]
Archive(s) == IF s.state = "archived" THEN s ELSE [s EXCEPT !.previous = s.state, !.state = "archived"]
Revive(s) ==
    IF s.state # "archived" THEN s
    ELSE [s EXCEPT !.state = IF s.previous = "" THEN "verified" ELSE s.previous, !.previous = ""]

Listed(n) == dir[n].exists /\ dir[n].manifest \in Bodies \ Broken
HasManifest(n) == dir[n].exists /\ dir[n].manifest # ""
Discovered == {n \in Names : Listed(n)}

Existing == NativeTools \cup {[name |-> Words[n], description |-> Words[dir[n].manifest]] : n \in Discovered}

(* More than 80 % of the words of two names, or descriptions, are the same. *)
Similar(a, b) == 10 * Cardinality(a \cap b) > 8 * Cardinality(a \cup b) \/ a \cup b = {}
Duplicate(n, body) ==
    \E e \in Existing : Similar(Words[n], e.name) \/ Similar(Words[body], e.description)

(* Gate 1, of which repetition, duplicates and budget depend on what is     *)
(* there; the other two are about the proposal alone. --force skips it.     *)
Evaluate(origin, n, body, force) ==
    \/ force
    \/ /\ origin = "agent" => CountFor(ledger, Url[body]) >= MinRepeats
       /\ ~Duplicate(n, body)
       /\ Cardinality(NativeTools) + Cardinality(Discovered) < MaxTools

(* What tool_create and tool_edit will not write.                           *)
Safe(body) == body \in Good

(* A call of a declarative tool: ok unless its request cannot be made, its  *)
(* host is not on the list or, for any tool, the service does not answer.   *)
Answers(body, ok) == ok => body \in Good \cup Unsafe

Idle == [at |-> "idle", name |-> "", body |-> "", state |-> Fresh, hash |-> "", files |-> {}]
Goto(d, at) == call' = [call EXCEPT ![d].at = at]
Return(d) == call' = [call EXCEPT ![d] = Idle]
Begins(d, at, n, body) ==
    /\ call[d].at = "idle" /\ begun < bound.operations
    /\ begun' = begun + 1
    /\ call' = [call EXCEPT ![d].at = at, ![d].name = n, ![d].body = body]
Name(d) == call[d].name

Write(n, body) ==
    /\ dir' = [dir EXCEPT ![n].manifest = body]
    /\ spoilt' = IF \E d \in Doors : call[d].at = "reading" /\ Name(d) = n THEN spoilt \cup {n} ELSE spoilt
\* Mutant: the state is written where a deleted tool was.
MutSaveState(n, s) == dir' = [dir EXCEPT ![n].state = s, ![n].saved = TRUE]

SaveState(n, s) ==
    dir' = IF dir[n].exists THEN [dir EXCEPT ![n].state = s, ![n].saved = TRUE] ELSE dir

(* tool_create: the reads before the first write are one step. A refusal    *)
(* changes nothing.                                                         *)
Create(d, n, body, origin, force) ==
    /\ ~dir[n].exists /\ Evaluate(origin, n, body, force) /\ Safe(body)
    /\ Begins(d, "making", n, body)
    /\ made' = IF origin = "agent" /\ ~force THEN made \cup {body} ELSE made
    /\ UNCHANGED <<dir, registered, tampered, passed, spoilt, ran>>

MakesDirectory(d) ==
    /\ call[d].at = "making"
    /\ dir' = [dir EXCEPT ![Name(d)].exists = TRUE]
    /\ Goto(d, "creating")
    /\ UNCHANGED <<registered, begun, tampered, passed, made, spoilt, ran>>

CreateWrites(d) ==
    /\ call[d].at = "creating"
    /\ IF dir[Name(d)].exists THEN Write(Name(d), call[d].body) ELSE UNCHANGED <<dir, spoilt>>
    /\ Return(d)
    /\ UNCHANGED <<registered, begun, tampered, passed, made, ran>>

(* tool_edit.                                                               *)
EditReads(d, n, body) ==
    /\ HasManifest(n) /\ body # dir[n].manifest /\ Safe(body)
    /\ Begins(d, "editing", n, body)
    /\ UNCHANGED <<dir, registered, tampered, passed, made, spoilt, ran>>

EditWrites(d) ==
    /\ call[d].at = "editing"
    /\ IF dir[Name(d)].exists
       THEN Write(Name(d), call[d].body) /\ Goto(d, "edited")
       ELSE Return(d) /\ UNCHANGED <<dir, spoilt>>
    /\ UNCHANGED <<registered, begun, tampered, passed, made, ran>>

EditLoads(d) ==
    /\ call[d].at = "edited"
    /\ call' = [call EXCEPT ![d].at = "demoting", ![d].state = dir[Name(d)].state]
    /\ UNCHANGED <<dir, registered, begun, tampered, passed, made, spoilt, ran>>

EditSaves(d) ==
    /\ call[d].at = "demoting"
    /\ SaveState(Name(d), Edit(call[d].state))
    /\ Return(d)
    /\ UNCHANGED <<registered, begun, tampered, passed, made, spoilt, ran>>

(* tool_probe: the manifest it tests and the one it hashes are two reads.   *)
ProbeReads(d, n) ==
    /\ Listed(n)
    /\ Begins(d, "reading", n, dir[n].manifest)
    /\ UNCHANGED <<dir, registered, tampered, passed, made, spoilt, ran>>

ProbeLoads(d) ==
    /\ call[d].at = "reading"
    /\ LET found == dir[Name(d)]
       IN  call' = IF ~HasManifest(Name(d)) THEN [call EXCEPT ![d] = Idle]
                   ELSE [call EXCEPT ![d].at = "testing", ![d].hash = found.manifest,
                                     ![d].state = Demoted(found.state, found.manifest)]
    /\ UNCHANGED <<dir, registered, begun, tampered, passed, made, spoilt, ran>>

\* Mutant: the hash is taken when the self-test is over.
MutSelfTest(d, ok) ==
    /\ call[d].at = "testing" /\ Answers(call[d].body, ok)
    /\ SaveState(Name(d), Probe(call[d].state, ok, dir[Name(d)].manifest))
    /\ passed' = IF ok THEN passed \cup {call[d].body} ELSE passed
    /\ Return(d)
    /\ UNCHANGED <<registered, begun, tampered, made, spoilt, ran>>

SelfTest(d, ok) ==
    /\ call[d].at = "testing" /\ Answers(call[d].body, ok)
    /\ SaveState(Name(d), Probe(call[d].state, ok, call[d].hash))
    /\ passed' = IF ok THEN passed \cup {call[d].body} ELSE passed
    /\ Return(d)
    /\ UNCHANGED <<registered, begun, tampered, made, spoilt, ran>>

(* tool_archive and tool_revive; the person's /tools revive is the latter   *)
(* for a tool DiscoverDeclarative finds.                                    *)
ArchiveLoads(d, n) ==
    /\ HasManifest(n) /\ dir[n].state.state # "archived"
    /\ call[d].at = "idle" /\ begun < bound.operations /\ begun' = begun + 1
    /\ call' = [call EXCEPT ![d].at = "shelving", ![d].name = n, ![d].state = Archive(dir[n].state)]
    /\ UNCHANGED <<dir, registered, tampered, passed, made, spoilt, ran>>

ReviveLoads(d, n) ==
    /\ HasManifest(n) /\ dir[n].state.state = "archived"
    /\ call[d].at = "idle" /\ begun < bound.operations /\ begun' = begun + 1
    /\ call' = [call EXCEPT ![d].at = "shelving", ![d].name = n, ![d].state = Revive(dir[n].state)]
    /\ UNCHANGED <<dir, registered, tampered, passed, made, spoilt, ran>>

ShelfSaves(d) ==
    /\ call[d].at = "shelving"
    /\ SaveState(Name(d), call[d].state)
    /\ Return(d)
    /\ UNCHANGED <<registered, begun, tampered, passed, made, spoilt, ran>>

(* tool_delete with confirm: RemoveAll lists the directory, removes what it *)
(* listed in some order and then the directory, if nothing came after.      *)
DeleteLists(d, n) ==
    /\ HasManifest(n)
    /\ call[d].at = "idle" /\ begun < bound.operations /\ begun' = begun + 1
    /\ call' = [call EXCEPT ![d].at = "deleting", ![d].name = n,
                            ![d].files = {"tool.toml"} \cup (IF dir[n].saved THEN {"state.json"} ELSE {})]
    /\ UNCHANGED <<dir, registered, tampered, passed, made, spoilt, ran>>

DeleteUnlinks(d, file) ==
    /\ call[d].at = "deleting" /\ file \in call[d].files
    /\ dir' = IF file = "tool.toml" THEN [dir EXCEPT ![Name(d)].manifest = ""]
              ELSE [dir EXCEPT ![Name(d)].state = Fresh, ![Name(d)].saved = FALSE]
    /\ call' = [call EXCEPT ![d].files = @ \ {file}]
    /\ UNCHANGED <<registered, begun, tampered, passed, made, spoilt, ran>>

DeleteEnds(d) ==
    /\ call[d].at = "deleting" /\ call[d].files = {}
    /\ LET left == dir[Name(d)]
       IN  IF left.manifest = "" /\ ~left.saved
           THEN dir' = [dir EXCEPT ![Name(d)] = Absent] /\ UNCHANGED spoilt
           ELSE spoilt' = spoilt \cup {Name(d)} /\ UNCHANGED dir
    /\ Return(d)
    /\ UNCHANGED <<registered, begun, tampered, passed, made, ran>>

(* A cancel, or the end of the program, between two accesses.               *)
Interrupt(d) ==
    /\ call[d].at # "idle"
    /\ spoilt' = IF call[d].at \in {"creating", "deleting"} THEN spoilt \cup {Name(d)} ELSE spoilt
    /\ Return(d)
    /\ UNCHANGED <<dir, registered, begun, tampered, passed, made, ran>>

(* An editor outside the program.                                           *)
Tamper(n, body) ==
    /\ HasManifest(n) /\ body # dir[n].manifest /\ tampered < bound.tampers
    /\ Write(n, body)
    /\ tampered' = tampered + 1
    /\ UNCHANGED <<call, registered, begun, passed, made, ran>>

(* WithMetaTools discovers once, when a door opens; a registered tool runs  *)
(* whatever its state.json says.                                            *)
WithDeclarative(d) ==
    /\ registered[d] # {<<n, dir[n].manifest>> : n \in Discovered}
    /\ registered' = [registered EXCEPT ![d] = {<<n, dir[n].manifest>> : n \in Discovered}]
    /\ UNCHANGED <<dir, call, begun, tampered, passed, made, spoilt, ran>>

Run(d) ==
    /\ call[d].at = "idle"
    /\ \E t \in registered[d] : Answers(t[2], TRUE) /\ ran' = ran \cup {dir[t[1]].state.state}
    /\ UNCHANGED <<dir, call, registered, begun, tampered, passed, made, spoilt>>

Init ==
    /\ EvolveInit
    /\ dir = [n \in Names |-> Absent]
    /\ call = [d \in Doors |-> Idle]
    /\ registered = [d \in Doors |-> {}]
    /\ begun = 0 /\ tampered = 0
    /\ passed = {} /\ made = {} /\ spoilt = {} /\ ran = {}

(* /tools create: only a person may skip the gate.                          *)
CreateTool(d, n, body) == \E force \in BOOLEAN : Create(d, n, body, "person", force)

Operating(d) ==
    \/ \E n \in Names : \/ ProbeReads(d, n) \/ ArchiveLoads(d, n) \/ ReviveLoads(d, n) \/ DeleteLists(d, n)
    \/ \E n \in Names, body \in Bodies : \/ EditReads(d, n, body)
                                       \/ Create(d, n, body, "agent", FALSE)
                                       \/ CreateTool(d, n, body)
    \/ MakesDirectory(d) \/ CreateWrites(d)
    \/ EditWrites(d) \/ EditLoads(d) \/ EditSaves(d)
    \/ ProbeLoads(d) \/ \E ok \in BOOLEAN : SelfTest(d, ok)
    \/ ShelfSaves(d)
    \/ (\E file \in {"tool.toml", "state.json"} : DeleteUnlinks(d, file)) \/ DeleteEnds(d)
    \/ Interrupt(d) \/ WithDeclarative(d) \/ Run(d)

Next ==
    \/ /\ (\E d \in Doors : Operating(d)) \/ (\E n \in Names, body \in Bodies : Tamper(n, body))
       /\ UNCHANGED evolve
    \/ (Suggesting \/ Observing) /\ UNCHANGED tools

Spec == Init /\ [][Next]_<<evolve, tools>>

-----------------------------------------------------------------------------
(* The shape of the state.                                                  *)
TypeOK ==
    /\ \A n \in Names :
       /\ dir[n].manifest \in Bodies \cup {""} /\ dir[n].state.state \in States
       /\ dir[n].state.hash \in Bodies \cup {""} /\ dir[n].state.previous \in {"", "unverified", "verified", "broken"}
       /\ ~dir[n].exists => dir[n] = Absent
       /\ ~dir[n].saved => dir[n].state = Fresh
    /\ \A d \in Doors : registered[d] \subseteq Names \X Bodies
    /\ \A i \in DOMAIN ledger : ledger[i].n >= 1 /\ ledger[i].pattern # <<>>
    /\ mode \in {"suggest", "on_request"}

(* tools/tool_probe.go:86, tools/lifecycle.go:209: whatever archives, edits, *)
(* deletions, crashes and changes by hand happened, a state.json that says  *)
(* verified, now or once revived, with the hash of the manifest beside it   *)
(* means that this very manifest passed a self-test.                        *)
VerifiedWasProbed ==
    \A n \in Names \ spoilt :
        LET s == dir[n].state
        IN  (s.state = "verified" \/ (s.state = "archived" /\ Revive(s).state = "verified")) /\ s.hash = dir[n].manifest
            => dir[n].manifest \in passed

(* tools/tool_create.go:423: a name without a tool can be created again,    *)
(* unless an operation on it was interrupted or met another one.            *)
NamesFree ==
    \A n \in Names \ spoilt :
        dir[n].exists /\ dir[n].manifest = "" =>
            \E d \in Doors : Name(d) = n /\ call[d].at \in {"creating", "deleting"}

(* Both: neither state.json nor the directory claims what is not there.     *)
ShelfTruthful == VerifiedWasProbed /\ NamesFree

(* evolve/gate1.go:247: what an agent made without --force had really been  *)
(* run MinRepeats times, although the ledger is rewritten without a lock.   *)
MadeWasEarned == \A body \in made : TimesRun(Url[body]) >= MinRepeats

(* What evolution proposes and makes was earned, and asked about once.      *)
EvolutionEarned == MadeWasEarned /\ OffersEarned /\ RefusedStaysRefused

(* tools/tool_probe.go:54, "A tool cannot be used at all until this has     *)
(* passed once"; tools/lifecycle.go:303: only StateVerified may run.        *)
OnlyVerifiedRuns == ran \subseteq {"verified"}

=============================================================================
