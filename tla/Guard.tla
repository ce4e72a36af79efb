------------------------------- MODULE Guard -------------------------------
(* permissions/guard.go: who may run a tool call. Authorize runs on the     *)
(* goroutine of a turn, or on one a cancelled turn left behind, and takes   *)
(* the guard's mutex once for each thing it reads, so that what the person  *)
(* changes in between is seen by the later reads only.                      *)
(*                                                                          *)
(* A command, a path and a URL are sequences of words, the shell's          *)
(* metacharacters words of their own; a pattern has the form **word** and   *)
(* matches the values that contain the word.                                *)
EXTENDS Naturals, FiniteSets, Sequences, SequencesExt

CONSTANTS
    Callers,             \* goroutines inside Authorize at once
    Requests,            \* what they ask for
    Configs,             \* [tools.permissions], --yolo, is there a reviewer
    Tierings,            \* what SetToolTiers may be given
    Bounds               \* what a behaviour may hold: calls, and changes to the guard

ASSUME GuardAssumption ==
    /\ \A b \in Bounds : b.calls \in Nat /\ b.changes \in Nat
    /\ \A r \in Requests : DOMAIN r = {"name", "valid", "path", "command", "url"}

VARIABLES
    config,         \* what New was given
    autonomy,
    tiers,          \* names outside the native set
    missionDeny,    \* rules of accepted missions
    bashScopeAllow, \* {} is nil: no scope in effect
    session,        \* keys allowed for the session
    call,           \* per caller: where in Authorize, for what, with what result
    bound,          \* the member of Bounds this behaviour has
    calls,          \* how many calls began
    answered        \* keys the person allowed for the session (history)

guard == <<config, autonomy, tiers, missionDeny, bashScopeAllow, session>>
guardVars == <<guard, call, bound, calls, answered>>

Tiers == {"Safe", "Controlled", "Sensitive", "Critical"}
Autonomies == {"Auto", "Agile", "Readonly"}

\* The tier of a tool is one of the four.
ASSUME TieringAssumption == \A t \in Tierings : \A n \in DOMAIN t : t[n] \in Tiers

ReadTools == {"read_file", "glob", "grep", "fetch"}
WriteTools == {"write_file", "edit_file"}
NativeTools == ReadTools \cup WriteTools \cup {"bash", "dispatch", "ask_user"}

SafePrefixes == {<<"ls">>, <<"pwd">>, <<"cat">>, <<"git", "status">>, <<"git", "diff">>,
                 <<"git", "log">>, <<"node", "-v">>, <<"node", "--version">>}
ControlledPrefixes == {<<"go", "test">>, <<"go", "build">>, <<"go", "vet">>, <<"make">>, <<"npm", "test">>}
CriticalPrefixes == {<<"git", "push">>}
CompoundMeta == {";", "&&", "||", "|", "backtick", "$(", ">", "<"}
SequencingMeta == {";", "|", "&", "&&", "||"}
Flags == {"-f", "-v", "--version", "--force"}

HasWordPrefix(cmd, prefixes) == \E p \in prefixes : IsPrefix(p, cmd)
IsCompound(cmd) == \E m \in CompoundMeta : Contains(cmd, m)
ContainsAfterMeta(cmd, prefixes) ==
    \E i \in DOMAIN cmd : /\ i = 1 \/ cmd[i - 1] \in SequencingMeta
                          /\ HasWordPrefix(SubSeq(cmd, i, Len(cmd)), prefixes)

BashTier(cmd) ==
    CASE cmd = <<>>                               -> "Sensitive"
      [] ContainsAfterMeta(cmd, CriticalPrefixes) -> "Critical"
      [] IsCompound(cmd)                          -> "Sensitive"
      [] HasWordPrefix(cmd, SafePrefixes)         -> "Safe"
      [] HasWordPrefix(cmd, ControlledPrefixes)   -> "Controlled"
      [] OTHER                                    -> "Sensitive"

NativeTier(name) ==
    CASE name \in ReadTools \cup {"ask_user"} -> "Safe"
      [] name \in WriteTools \cup {"bash"}    -> "Sensitive"
      [] OTHER                                -> "Critical"

TierFor(r) ==
    CASE r.name = "bash"                                      -> BashTier(r.command)
      [] r.name \notin NativeTools /\ r.name \in DOMAIN tiers -> tiers[r.name]
      [] OTHER                                                -> NativeTier(r.name)

Mode(r, tier) ==
    CASE r.name \in ReadTools            -> config.read
      [] r.name \in WriteTools           -> config.write
      [] r.name \in {"bash", "dispatch"} -> config.shell
      [] OTHER -> CASE tier = "Safe"      -> config.read
                    [] tier = "Sensitive" -> config.write
                    [] OTHER              -> config.shell

(* matchesPath tries the pattern on the path as written and, for one under *)
(* "~", on the path with the home directory in its place.                  *)
MatchesPath(word, path) ==
    \/ Contains(path, word)
    \/ path # <<>> /\ path[1] = "~" /\ Contains(<<"home">> \o Tail(path), word)

(* hardDeny's part that no one can change while the program runs.          *)
ConfigDenies(r) ==
    \/ ~r.valid
    \/ \E w \in config.writeDeny : MatchesPath(w, r.path)
    \/ r.name = "bash" /\ \E w \in config.shellDeny : Contains(r.command, w)

Matches(rule, r) ==
    /\ rule.capability = r.name
    /\ Contains(IF r.name = "fetch" THEN r.url ELSE r.command, rule.pattern)

MissionHardDeny(rules, r) == \E rule \in rules : Matches(rule, r)

BashScopeHardDeny(allow, r) ==
    /\ r.name = "bash" /\ allow # {} /\ r.command # <<>>
    /\ ~HasWordPrefix(r.command, SafePrefixes \cup {<<w>> : w \in allow})

BashFamily(cmd) == SelectSeq(cmd, LAMBDA w : w \notin Flags)
RequestKey(r) ==
    IF r.name = "bash" /\ r.command # <<>> THEN <<"bash", BashFamily(r.command)>>
    ELSE <<r.name, r.path, r.command, r.url>>

-----------------------------------------------------------------------------
(* A call: "at" is the next lock it takes ("idle" when it has returned),    *)
(* "result" what Authorize returned: "ran" (nil), "data" (ErrDenied, which  *)
(* the model may work around), "refused" (which ends the turn). "rules",    *)
(* "changed" and "by" are history: the rules in force when it began, whether *)
(* the guard changed since, and what allowed it.                            *)
Idle == [at |-> "idle", result |-> "none"]

GuardInit(c) ==
    /\ config = c
    /\ autonomy = "Auto"
    /\ tiers \in Tierings
    /\ missionDeny = {} /\ bashScopeAllow = {}
    /\ session = {}
    /\ call = [g \in Callers |-> Idle]
    /\ bound \in Bounds /\ calls = 0 /\ answered = {}

At(g, step) == call[g].at = step
Goto(g, step) == call' = [call EXCEPT ![g].at = step]

Allow(g, by) == call' = [call EXCEPT ![g].at = "idle", ![g].result = "ran", ![g].by = by]

\* Mutant: the refusal is noted and the checks go on.
MutDeny(g, result) == call' = [call EXCEPT ![g].result = result]

(* The refusal also joins the list that /permissions shows, which nothing   *)
(* else reads: it is left out.                                              *)
Deny(g, result) == call' = [call EXCEPT ![g].at = "idle", ![g].result = result]

(* A result stays in view until the next call begins or the guard changes.  *)
InFlight == [g \in Callers |-> IF At(g, "idle") THEN Idle ELSE call[g]]

Began(r, at, result) ==
    [at |-> at, result |-> result, req |-> r, tier |-> TierFor(r), by |-> "none", now |-> autonomy,
     rules |-> missionDeny, scope |-> bashScopeAllow, changed |-> FALSE]

(* The call begins: ask_user is never refused, the tier is looked up, and   *)
(* the denials of the configuration are applied.                            *)
Begin(g, r) ==
    /\ At(g, "idle") /\ calls < bound.calls
    /\ calls' = calls + 1
    /\ \/ /\ r.name = "ask_user"
          /\ call' = [InFlight EXCEPT ![g] = [Began(r, "idle", "ran") EXCEPT !.by = "always"]]
       \/ /\ r.name # "ask_user" /\ ConfigDenies(r)
          /\ call' = [InFlight EXCEPT ![g] = Began(r, "idle", "data")]
       \/ /\ r.name # "ask_user" /\ ~ConfigDenies(r)
          /\ call' = [InFlight EXCEPT ![g] = Began(r, "mission", "none")]
    /\ UNCHANGED <<config, bound, autonomy, tiers, missionDeny, bashScopeAllow, session, answered>>

\* Mutant: an agile autonomy does without the mission.
MutReadMission(g) ==
    /\ At(g, "mission")
    /\ IF /\ MissionHardDeny(missionDeny, call[g].req)
          /\ autonomy # "Agile"
       THEN Deny(g, "data")
       ELSE Goto(g, "scope")
    /\ UNCHANGED <<config, bound, autonomy, tiers, missionDeny, bashScopeAllow, session, calls, answered>>

(* missionHardDeny's read of the rules.                                     *)
ReadMission(g) ==
    /\ At(g, "mission")
    /\ IF MissionHardDeny(missionDeny, call[g].req) THEN Deny(g, "data")
       ELSE Goto(g, "scope")
    /\ UNCHANGED <<config, bound, autonomy, tiers, missionDeny, bashScopeAllow, session, calls, answered>>

(* bashScopeHardDeny's read of the scope, then the mode "deny".             *)
ReadScope(g) ==
    LET outside == BashScopeHardDeny(bashScopeAllow, call[g].req)
        disabled == Mode(call[g].req, call[g].tier) = "deny"
    IN  /\ At(g, "scope")
        /\ \/ outside /\ Deny(g, "data")
           \/ ~outside /\ disabled /\ Deny(g, "data")
           \/ ~outside /\ ~disabled /\ Goto(g, "autonomy")
        /\ UNCHANGED <<config, bound, autonomy, tiers, missionDeny, bashScopeAllow, session, calls, answered>>

Yolo(g) ==
    /\ config.yolo /\ call[g].tier # "Critical"
    /\ call[g].req.name \in WriteTools \cup {"bash"}

(* Autonomy() is read once; what follows up to the grant is a function of   *)
(* that reading.                                                            *)
ReadAutonomy(g) ==
    LET tier == call[g].tier
        refuses == autonomy = "Readonly" /\ tier \in {"Sensitive", "Critical"}
        exempt == tier = "Safe" \/ (autonomy # "Readonly" /\ tier = "Controlled")
        asks == ~refuses /\ ~exempt
        mode == Mode(call[g].req, tier)
    IN  /\ At(g, "autonomy")
        /\ \/ refuses /\ Deny(g, "refused")
           \/ exempt /\ Allow(g, "tier")
           \/ asks /\ Yolo(g) /\ Allow(g, "yolo")
           \/ asks /\ ~Yolo(g) /\ mode = "allow" /\ Allow(g, "config")
           \/ asks /\ ~Yolo(g) /\ mode # "allow" /\ Goto(g, "grant")
        /\ UNCHANGED <<config, bound, autonomy, tiers, missionDeny, bashScopeAllow, session, calls, answered>>

(* hasSessionGrant's read, and the refusal when there is nobody to ask.     *)
ReadGrant(g) ==
    LET granted == call[g].tier = "Sensitive" /\ RequestKey(call[g].req) \in session
    IN  /\ At(g, "grant")
        /\ \/ granted /\ Allow(g, "grant")
           \/ ~granted /\ ~config.reviewer /\ Deny(g, "refused")
           \/ ~granted /\ config.reviewer /\ Goto(g, "review")
        /\ UNCHANGED <<config, bound, autonomy, tiers, missionDeny, bashScopeAllow, session, calls, answered>>

(* Review returned: an error (a cancellation), a no, a yes, or a yes for    *)
(* the session, which is kept for Sensitive calls when the configuration    *)
(* allows it.                                                               *)
Reviewed(g) ==
    LET key == RequestKey(call[g].req)
        keeps == call[g].tier = "Sensitive" /\ config.allowSession
    IN  /\ At(g, "review")
        /\ \/ Deny(g, "refused") /\ UNCHANGED <<session, answered>>
           \/ Allow(g, "person") /\ UNCHANGED <<session, answered>>
           \/ /\ Allow(g, "person")
              /\ session' = IF keeps THEN session \cup {key} ELSE session
              /\ answered' = answered \cup {key}
        /\ UNCHANGED <<config, bound, autonomy, tiers, missionDeny, bashScopeAllow, calls>>

Authorize(g) ==
    \/ \E r \in Requests : Begin(g, r)
    \/ ReadMission(g)
    \/ ReadScope(g)
    \/ ReadAutonomy(g)
    \/ ReadGrant(g)
    \/ Reviewed(g)

-----------------------------------------------------------------------------
(* What others do to the guard. Each notes on the calls under way that the  *)
(* guard changed, for the properties.                                       *)
Noted == [g \in Callers |-> IF At(g, "idle") THEN Idle ELSE [call[g] EXCEPT !.changed = TRUE]]

SetAutonomy(a) ==
    /\ autonomy' = a
    /\ call' = [g \in Callers |->
                  IF At(g, "idle") THEN Idle
                  ELSE [call[g] EXCEPT !.changed = TRUE, !.now = IF @ = a THEN @ ELSE "mixed"]]
    /\ UNCHANGED <<config, bound, tiers, missionDeny, bashScopeAllow, session, calls, answered>>

(* AddMissionRules adds to the rules; SetBashScope replaces the scope.       *)
AddMissionRules(rules) ==
    /\ missionDeny' = missionDeny \cup rules
    /\ call' = Noted
    /\ UNCHANGED <<config, bound, autonomy, tiers, bashScopeAllow, session, calls, answered>>

SetBashScope(allow) ==
    /\ bashScopeAllow' = allow
    /\ call' = Noted
    /\ UNCHANGED <<config, bound, autonomy, tiers, missionDeny, session, calls, answered>>

(* A sub-agent builds its own options, and with them hands the shared guard *)
(* the tiers of the tools it found on disk.                                 *)
SetToolTiers(t) ==
    /\ tiers' = t
    /\ call' = Noted
    /\ UNCHANGED <<config, bound, autonomy, missionDeny, bashScopeAllow, session, calls, answered>>
=============================================================================
