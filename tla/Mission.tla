------------------------------ MODULE Mission ------------------------------
(* The person's side of the guard: mission/mission.go compiles a goal into  *)
(* rules, tui/mission.go and tui/toolscope.go have them confirmed before    *)
(* the turn, the session file remembers them, and app.go puts them back     *)
(* when the session is resumed. The autonomy is chosen per project and      *)
(* kept in trust.json (trust/trust.go, app/truststore.go).                  *)
(*                                                                          *)
(* A goal is a sequence of words; a keyword or a cue is one or more of them. *)
EXTENDS Guard

CONSTANTS
    Goals,
    Levels,       \* autonomy words the person picks from
    Remember      \* [autonomy] remember, which values it may have

ASSUME MissionAssumption == Remember \subseteq BOOLEAN /\ Levels \subseteq {"auto", "agile", "readonly"}

VARIABLES
    screen,    \* "chat", "trust", "mission", "scope"
    goal,      \* missionText
    applied,   \* missionAppliedRules
    log,       \* the missions in the session's file
    unsaved,   \* a mission was not recorded (history)
    trusted,   \* trust.json: project -> autonomy
    remember,
    footer,    \* the autonomy the footer shows, "" for none
    changes

personVars == <<screen, goal, applied, log, unsaved, trusted, remember, footer, changes>>
vars == <<guardVars, personVars>>

Rule(c, p) == [capability |-> c, pattern |-> p]
CommandAndUrl(p) == {Rule("bash", p), Rule("fetch", p)}
Automation == {"playwright", "puppeteer", "selenium"}
KeywordRules ==
    [k \in Automation \cup {"cypress", "docker", "browser"} |->
        CASE k = "docker"  -> {Rule("bash", k)}
          [] k = "browser" -> UNION {CommandAndUrl(p) : p \in Automation}
          [] OTHER         -> CommandAndUrl(k)]

NegationCues == {<<"no">>, <<"not">>, <<"don't">>, <<"do", "not">>, <<"never">>, <<"without">>,
                 <<"avoid">>, <<"avoid", "using">>, <<"stop", "using">>, <<"skip">>}
AffirmationCues == {<<"use">>, <<"using">>, <<"allow">>, <<"feel", "free", "to", "use">>, <<"ok", "to", "use">>,
                    <<"okay", "to", "use">>, <<"can", "use">>, <<"may", "use">>, <<"with">>}

Largest(S) == CHOOSE n \in S : \A m \in S : m <= n
LastCue(cues, prefix) ==
    Largest({0} \cup {i \in DOMAIN prefix :
                        \E c \in cues : IsPrefix(c, SubSeq(prefix, i, Len(prefix)))})
NearestCue(prefix) ==
    IF LastCue(AffirmationCues, prefix) > LastCue(NegationCues, prefix) THEN "affirm" ELSE "negate"

Before(word, g) == SubSeq(g, 1, (CHOOSE i \in DOMAIN g : g[i] = word /\ \A j \in 1..(i - 1) : g[j] # word) - 1)
Compile(g) ==
    {[keyword |-> k, negated |-> NearestCue(Before(k, g)) # "affirm"] :
        k \in {w \in DOMAIN KeywordRules : Contains(g, w)}}
HasDeny(g) == \E c \in Compile(g) : c.negated
DenyRules(g) == UNION {KeywordRules[c.keyword] : c \in {d \in Compile(g) : d.negated}}

(* ProposeTools: the shell commands a goal's ecosystem calls for.           *)
BashSubcommand ==
    [node |-> "node", nodejs |-> "node", javascript |-> "node", typescript |-> "node", npm |-> "npm",
     python |-> "python", python3 |-> "python", pip |-> "pip", golang |-> "go",
     rust |-> "cargo", cargo |-> "cargo", git |-> "git"]
BashAllow(g) ==
    LET named == {BashSubcommand[w] : w \in {v \in DOMAIN BashSubcommand : Contains(g, v)}}
    IN  IF named = {} THEN {"node", "npm", "git"} ELSE named
BrowserBashAllow == {"npx", "playwright", "puppeteer", "selenium"}

(* OutsidePolicy: the goal asks for what the configuration rules out.       *)
OutsidePolicy(g) ==
    \E c \in Compile(g) : ~c.negated /\ \E rule \in KeywordRules[c.keyword] :
        CASE rule.capability = "bash"  -> config.shell = "deny" \/ rule.pattern \in config.shellDeny
          [] rule.capability = "fetch" -> config.read = "deny"

-----------------------------------------------------------------------------
Word(a) == CASE a = "Auto" -> "auto" [] a = "Agile" -> "agile" [] a = "Readonly" -> "readonly"
ParseAutonomy(w) == CASE w = "agile" -> "Agile" [] w = "readonly" -> "Readonly" [] OTHER -> "Auto"
Words == {"auto", "agile", "readonly"}

(* Lookup walks from the project to its ancestors; the model has one.       *)
Lookup == IF trusted["project"] # "" THEN trusted["project"] ELSE trusted["parent"]

(* resolveProjectTrust: ask when nothing is remembered, else show what is.   *)
Greet(asks) ==
    /\ screen' = IF asks THEN "trust" ELSE "chat"
    /\ footer' = IF asks THEN "" ELSE Word(ParseAutonomy(Lookup))

Init ==
    /\ \E c \in Configs : GuardInit(c)
    /\ remember \in Remember
    /\ trusted = [project |-> "", parent |-> ""]
    /\ screen = (IF config.reviewer THEN "trust" ELSE "chat") /\ footer = ""
    /\ goal = <<>> /\ applied = {} /\ log = <<>> /\ unsaved = FALSE
    /\ changes = 0

(* The dialogs and the commands that lead to them are the terminal's. They  *)
(* open when no turn runs, but a sub-agent that a cancelled turn left may    *)
(* still be anywhere in a call.                                             *)
Change == changes < bound.changes /\ changes' = changes + 1
Interactive == config.reviewer

(* fileTrustStore.Save: the guard is told before the file is written, and   *)
(* the footer before either.                                                *)
SaveAutonomy(w) ==
    /\ footer' = w
    /\ SetAutonomy(ParseAutonomy(w))
    /\ trusted' \in {trusted, [trusted EXCEPT !["project"] = w]}

ResolveTrust(w) ==
    /\ Interactive /\ screen = "trust"
    /\ screen' = "chat"
    /\ SaveAutonomy(w)
    /\ UNCHANGED <<goal, applied, log, unsaved, remember, changes>>

RunTrust ==
    /\ Interactive /\ screen = "chat"
    /\ Change
    /\ screen' = "trust"
    /\ UNCHANGED <<guardVars, goal, applied, log, unsaved, trusted, remember, footer>>

PermissionsAutonomy(w) ==
    /\ Interactive /\ screen = "chat"
    /\ Change
    /\ SaveAutonomy(w)
    /\ UNCHANGED <<screen, goal, applied, log, unsaved, remember>>

(* Another program saves a decision for the directory above.                *)
TrustParent(w) ==
    /\ config.reviewer /\ trusted["parent"] = ""
    /\ Change
    /\ trusted' = [trusted EXCEPT !["parent"] = w]
    /\ UNCHANGED <<guardVars, screen, goal, applied, log, unsaved, remember, footer>>

(* Enter on a goal: checkMission, then checkToolPolicy; any other goal is   *)
(* a turn at once.                                                          *)
Submit(g) ==
    /\ Interactive /\ screen = "chat"
    /\ HasDeny(g) \/ OutsidePolicy(g)
    /\ screen' = IF HasDeny(g) THEN "mission" ELSE "scope"
    /\ goal' = g
    /\ Change
    /\ UNCHANGED <<guardVars, applied, log, unsaved, trusted, remember, footer>>

\* Mutant: what was applied is not kept for the record.
MutResolveMission(accept) ==
    /\ Interactive /\ screen = "mission"
    /\ screen' = "scope"
    /\ applied' = {}
    /\ IF accept THEN AddMissionRules(DenyRules(goal)) ELSE UNCHANGED guardVars
    /\ UNCHANGED <<goal, log, unsaved, trusted, remember, footer, changes>>

(* resolveMission: only "That's right" applies the rules; each choice goes  *)
(* on to the tools dialog.                                                  *)
ResolveMission(accept) ==
    /\ Interactive /\ screen = "mission"
    /\ screen' = "scope"
    /\ applied' = IF accept THEN DenyRules(goal) ELSE {}
    /\ IF accept THEN AddMissionRules(DenyRules(goal)) ELSE UNCHANGED guardVars
    /\ UNCHANGED <<goal, log, unsaved, trusted, remember, footer, changes>>

ScopeOf(option) ==
    CASE option = "browser"    -> BashAllow(goal) \cup BrowserBashAllow
      [] option = "everything" -> {}
      [] OTHER                 -> BashAllow(goal)

(* resolveToolScope: the scope replaces the last one, the resolution is     *)
(* recorded, and the goal is sent. A failed write costs the record only.    *)
ResolveToolScope(option) ==
    /\ Interactive /\ screen = "scope"
    /\ screen' = "chat" /\ goal' = <<>> /\ applied' = {}
    /\ SetBashScope(ScopeOf(option))
    /\ \/ log' = Append(log, [rules |-> applied, scope |-> ScopeOf(option)]) /\ UNCHANGED unsaved
       \/ unsaved' = TRUE /\ UNCHANGED log
    /\ UNCHANGED <<trusted, remember, footer, changes>>

(* replayMissions: the rules of every event, the scope of the last.         *)
RulesOf(events) == UNION {events[i].rules : i \in DOMAIN events}
ScopeIn(events) == IF events = <<>> THEN {} ELSE events[Len(events)].scope

(* The program ends, or dies, and is started again on the same session or   *)
(* on a new one. New starts from nothing but the configuration.             *)
Restart(resumed) ==
    /\ config.reviewer
    /\ Change
    /\ autonomy' = "Auto" /\ tiers' \in Tierings
    /\ log' = IF resumed THEN log ELSE <<>>
    /\ missionDeny' = RulesOf(log') /\ bashScopeAllow' = ScopeIn(log')
    /\ session' = {} /\ answered' = {}
    /\ call' = [g \in Callers |-> Idle]
    /\ goal' = <<>> /\ applied' = {} /\ unsaved' = FALSE
    /\ Greet(~remember \/ Lookup = "")
    /\ UNCHANGED <<config, bound, calls, trusted, remember>>

Person ==
    \/ \E w \in Levels : ResolveTrust(w)
    \/ RunTrust
    \/ \E w \in Levels : PermissionsAutonomy(w)
    \/ \E w \in Levels : TrustParent(w)
    \/ \E g \in Goals : Submit(g)
    \/ \E accept \in BOOLEAN : ResolveMission(accept)
    \/ \E option \in {"proposed", "browser", "everything", "pick"} : ResolveToolScope(option)
    \/ \E resumed \in BOOLEAN : Restart(resumed)

Next ==
    \/ \E g \in Callers : Authorize(g) /\ UNCHANGED personVars
    \/ \E t \in Tierings : Change /\ SetToolTiers(t)
                          /\ UNCHANGED <<screen, goal, applied, log, unsaved, trusted, remember, footer>>
    \/ Person

Spec == Init /\ [][Next]_vars

-----------------------------------------------------------------------------
TypeOK ==
    /\ autonomy \in Autonomies
    /\ \A g \in Callers :
        /\ call[g].at \in {"idle", "mission", "scope", "autonomy", "grant", "review"}
        /\ call[g].result \in {"none", "ran", "data", "refused"}
        /\ call[g].at # "idle" => call[g].result = "none" /\ call[g].tier \in Tiers
    /\ screen \in {"chat", "trust", "mission", "scope"}
    /\ footer \in Words \cup {""}

Ran(g) == call[g].result = "ran" /\ call[g].by # "always"

(* No approval, grant, autonomy or --yolo lifts a denial: what ran matches   *)
(* no write_deny or shell_deny pattern and no rule a mission had added when  *)
(* the call began, and it was within the mission's scope when nothing        *)
(* changed meanwhile (guard.go, hardDeny before every gate).                 *)
NothingForbiddenRuns ==
    \A g \in Callers : Ran(g) =>
        /\ ~ConfigDenies(call[g].req)
        /\ ~MissionHardDeny(call[g].rules, call[g].req)
        /\ ~call[g].changed => ~BashScopeHardDeny(call[g].scope, call[g].req)
        /\ Mode(call[g].req, call[g].tier) # "deny"

(* What ran was earned: under an autonomy that was read-only throughout,     *)
(* nothing that changes the project; a Critical call by an answer given for  *)
(* it or by the configuration, never by --yolo or an answer to another; and  *)
(* a grant only for a Sensitive call whose key the person allowed.           *)
RunsAreEarned ==
    /\ session \subseteq answered
    /\ \A g \in Callers : Ran(g) =>
        /\ call[g].now = "Readonly" => call[g].tier \in {"Safe", "Controlled"}
        /\ call[g].tier = "Critical" => call[g].by \in {"person", "config"}
        /\ call[g].by = "grant" =>
            /\ call[g].tier = "Sensitive" /\ config.allowSession
            /\ RequestKey(call[g].req) \in answered
        /\ call[g].by = "tier" => call[g].now # "Readonly" \/ call[g].tier = "Safe"

(* Both: neither may a call run that is denied, nor one nobody allowed, with *)
(* autonomy, missions, tiers and grants changing while it is being decided.  *)
RunsAllowed == NothingForbiddenRuns /\ RunsAreEarned

(* What the person accepted outlives the program: outside the dialogs, the   *)
(* rules in force are those of every mission of the session, and the scope   *)
(* that of the last, also after a restart that resumed it, unless a record   *)
(* could not be written (session.go, AppendMission; app.go, replayMissions). *)
ConstraintsSurvive ==
    screen \in {"chat", "trust"} /\ ~unsaved =>
        /\ missionDeny = RulesOf(log)
        /\ bashScopeAllow = ScopeIn(log)

(* The footer tells the autonomy the guard applies (truststore.go, Save:     *)
(* "takes effect on the very next tool call, not only after a restart").     *)
FooterTellsAutonomy == footer # "" => footer = Word(autonomy)

(* The cue nearest to a keyword decides, and "don't use" is a negation       *)
(* (mission.go, negationCues: "resolves on "don't"").                        *)
NegationHeeded ==
    \A c \in Compile(goal) :
        LET before == Before(c.keyword, goal)
        IN  Len(before) >= 2 /\ SubSeq(before, Len(before) - 1, Len(before)) = <<"don't", "use">> => c.negated
=============================================================================
