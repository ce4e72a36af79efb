----------------------------- MODULE ModelSwitch -----------------------------
(* Which model a turn goes to: the selector (tui/picker.go), /model, the    *)
(* dialog of a swap with conflicts (confirm.go, engine/hotswap.go), "compact*)
(* and switch", /resume, the automatic fallback and the effort level, with  *)
(* the catalog refreshed underneath. A choice in the selector or in the     *)
(* menu of sessions comes back as a message, and updateDispatch applies it  *)
(* in whatever mode it then is. Sizes are counted in turns.                 *)
EXTENDS Integers, Sequences, SequencesExt

CONSTANTS
    Models, ProviderOf, Window, ToolModels, Authenticated, Levels,
    Fallback,       \* app.fallback_model
    Catalogs,       \* what a refresh may list, in the selector's order
    Concealed,      \* hidden by a rule: in no list, used by their exact reference
    Prepares,       \* whether the engine factory succeeds, for each model
    Filters,        \* the selector's filters: the models each one passes
    Queries,        \* what typed text leaves, the models it matches
    Sessions,       \* what /resume can load: a model and a conversation
    Commands,       \* slash commands, by kind
    KeepTurns, TriggerPct,              \* compact.keep_last_turns, compact.trigger_pct
    MaxTurns, MaxChoices, MaxRefreshes, MaxKeys     \* bounds

None == "none"
NoDialog == [to |-> None, options |-> {}]
NewConversation == [active |-> <<>>, measured |-> 0]
Settings == [tools : BOOLEAN, auto : BOOLEAN, summarises : BOOLEAN, dropOnError : BOOLEAN]

ASSUME SwitchAssumption ==
    /\ Fallback \in Models /\ Concealed \subseteq Models
    /\ \A c \in Catalogs : c \in Seq(Models) /\ ToSet(c) \cap Concealed = {} /\ IsInjective(c)
    /\ \A m \in Models : Window[m] \in Nat \ {0} /\ Prepares[m] \subseteq BOOLEAN
    /\ \A s \in Sessions : s.model \in Models /\ s.conv \in [active : Seq(BOOLEAN), measured : Nat]
    /\ {KeepTurns, TriggerPct, MaxTurns, MaxChoices, MaxRefreshes, MaxKeys} \subseteq Nat

VARIABLES
    settings, mode, cat,
    hidden,         \* curation.json
    picker, confirm, compact,   \* each screen's own state
    answers,        \* summaries asked for whose answer is on the way
    conv,           \* the tool use of each turn still sent; the last usage reported
    model, engine,  \* the label, and the model the engine was prepared for
    effort, failures,
    turns,          \* the running turns: what each was sent with
    chosen,         \* choices on the way back to Update
    left,           \* of the bounds
    warned          \* the last switch said that it could not prepare its engine (history)

screens == <<picker, confirm, compact, answers>>
target == <<model, engine, warned>>
vars == <<settings, mode, cat, hidden, screens, conv, target, effort, failures, turns, chosen, left>>

-----------------------------------------------------------------------------
(* CheckSwap.                                                               *)
Listed(m) == m \in ToSet(cat)
ContextTokens(c) == IF c.measured > 0 THEN c.measured ELSE Len(c.active)
CheckSwap(c, to) ==
    {k \in {"small", "caps", "auth"} :
        \/ k = "small" /\ ContextTokens(c) > Window[to]
        \/ k = "caps" /\ TRUE \in ToSet(c.active) /\ to \notin ToolModels
        \/ k = "auth" /\ to \notin Authenticated}
Options(conflicts) ==
    CASE "small" \in conflicts -> {"compact", "drop", "cancel"}
      [] "small" \notin conflicts /\ "auth" \in conflicts -> {"cancel"}
      [] OTHER -> {"proceed", "cancel"}

(* PlanCompact and DropOldest, for the turns still sent.                    *)
LastOf(s, n) == SubSeq(s, Len(s) - n + 1, Len(s))
PlanEmpty(c) == Len(c.active) <= KeepTurns
Compacted(c) == [c EXCEPT !.active = LastOf(@, KeepTurns)]
DropOldest(c, window) == IF Len(c.active) <= window THEN c ELSE [c EXCEPT !.active = LastOf(@, window)]

(* The rows of the selector: one header for each provider, in the order of  *)
(* its first model, and its models below unless it is collapsed.            *)
Row(provider, m) == [provider |-> provider, model |-> m]
\* The elements of s that are in S, in their order.
Among(s, S) == FlattenSeq([k \in DOMAIN s |-> IF s[k] \in S THEN <<s[k]>> ELSE <<>>])
Candidates(p, c, h) ==
    Among(c, {m \in p.query \cap Filters[p.filter] : p.showHidden \/ m \notin h})
Rows(p, c, h) ==
    LET cands == Candidates(p, c, h)
        First(k) == \A j \in 1..(k - 1) : ProviderOf[cands[j]] # ProviderOf[cands[k]]
        Group(k) ==
            LET g == ProviderOf[cands[k]]
                below == Among(cands, {m \in Models : ProviderOf[m] = g})
            IN  IF ~First(k) THEN <<>>
                ELSE <<Row(g, None)>> \o
                     (IF g \in p.collapsed THEN <<>> ELSE [n \in DOMAIN below |-> Row(g, below[n])])
    IN  FlattenSeq([k \in DOMAIN cands |-> Group(k)])
\* Mutant: the selection is left where it was.
MutRebuild(p, c, h) == p
Rebuild(p, c, h) ==
    LET n == Len(Rows(p, c, h))
    IN  [p EXCEPT !.sel = IF n = 0 THEN 1 ELSE IF @ > n THEN n ELSE @]
NewPicker(query) == [query |-> query, filter |-> 1, collapsed |-> {}, showHidden |-> FALSE, sel |-> 1]

-----------------------------------------------------------------------------
Init ==
    /\ settings \in Settings /\ mode = "chat" /\ cat \in Catalogs /\ hidden = {}
    /\ picker = NewPicker({}) /\ confirm = NoDialog /\ compact = None /\ answers = 0
    /\ conv = NewConversation /\ model \in ToSet(cat) /\ engine = model /\ warned = FALSE
    /\ effort = None /\ failures = 0 /\ turns = <<>> /\ chosen = {}
    /\ left = [turns |-> MaxTurns, choices |-> MaxChoices, refreshes |-> MaxRefreshes, keys |-> MaxKeys]

Spends(kind) == left[kind] > 0 /\ left' = [left EXCEPT ![kind] = @ - 1]
Show(m) == mode' = m

\* Mutant: only the label follows the choice.
MutSwitch(ref) == model' = ref /\ UNCHANGED <<engine, warned>>
(* switchEngine: the engine follows the label when it can be prepared.      *)
Switch(ref) ==
    \E ok \in Prepares[ref] :
        /\ engine' = IF ok THEN ref ELSE engine
        /\ model' = ref /\ warned' = ~ok

(* startCompact: at once when there is nothing to ask, or nothing to cut.   *)
AtOnce(c) == PlanEmpty(c) \/ ~settings.summarises
StartCompact(c, to) ==
    \/ /\ AtOnce(c) /\ Show("chat")
       /\ conv' = IF PlanEmpty(c) THEN c ELSE Compacted(c)
       /\ UNCHANGED <<compact, answers>>
    \/ /\ ~AtOnce(c) /\ Show("compact")
       /\ conv' = c /\ compact' = to /\ answers' = answers + 1
FinishSwitch(now, to) == IF now /\ to # None THEN Switch(to) ELSE UNCHANGED target

(* applyModelChosen.                                                        *)
ApplyModelChosen(ref) ==
    LET judged == Listed(ref) /\ Listed(model)
        conflicts == IF judged THEN CheckSwap(conv, ref) ELSE {}
    IN  \/ /\ conflicts # {} /\ Show("confirm")
           /\ confirm' = [to |-> ref, options |-> Options(conflicts)] /\ UNCHANGED target
        \/ conflicts = {} /\ Show("chat") /\ Switch(ref) /\ UNCHANGED confirm

-----------------------------------------------------------------------------
(* The selector's keys.                                                     *)
OpenPicker(query) ==
    /\ Show("picker") /\ picker' = Rebuild(NewPicker(query), cat, hidden)
    /\ UNCHANGED <<confirm, target>>

Shown == Rows(picker, cat, hidden)
Turned(p, provider, collapse) ==
    LET q == [p EXCEPT !.collapsed = IF collapse THEN @ \cup {provider} ELSE @ \ {provider}]
        rows == Rows(q, cat, hidden)
    IN  [q EXCEPT !.sel = CHOOSE k \in DOMAIN rows : rows[k] = Row(provider, None)]

(* hideOrUnhideCurrent.                                                     *)
HideCurrent ==
    LET m == Shown[picker.sel].model
    IN  /\ Shown # <<>> /\ m # None
        /\ hidden' = IF m \in hidden THEN hidden \ {m} ELSE hidden \cup {m}
        /\ picker' = Rebuild(IF m \in hidden THEN picker ELSE [picker EXCEPT !.sel = 1], cat, hidden')

MoveSel(delta) ==
    LET n == Len(Shown)
    IN  n > 0 /\ picker' = [picker EXCEPT !.sel = ((@ - 1 + delta) % n) + 1] /\ UNCHANGED hidden
Fold(collapse) ==
    /\ Shown # <<>>
    /\ picker' = Turned(picker, Shown[picker.sel].provider, collapse) /\ UNCHANGED hidden
Narrow ==
    /\ \/ \E q \in Queries \ {picker.query} : picker' = Rebuild([picker EXCEPT !.query = q, !.sel = 1], cat, hidden)
       \/ picker' = Rebuild([picker EXCEPT !.filter = (@ % Len(Filters)) + 1, !.sel = 1], cat, hidden)
       \/ picker' = Rebuild([picker EXCEPT !.showHidden = ~@, !.sel = 1], cat, hidden)
    /\ UNCHANGED hidden

UpdatePicker ==
    /\ mode = "picker" /\ Spends("keys")
    /\ HideCurrent \/ Narrow \/ (\E d \in {1, -1} : MoveSel(d)) \/ (\E c \in BOOLEAN : Fold(c))
    /\ UNCHANGED <<settings, mode, cat, confirm, compact, answers, conv, target, effort, failures, turns, chosen>>

(* Enter on a row: a header turns, a model goes out as a message while the  *)
(* selector stays open.                                                     *)
Choice(kind, of) == chosen' = chosen \cup {[kind |-> kind, of |-> of, n |-> left.choices]}
ChooseModel ==
    /\ mode = "picker" /\ Shown # <<>> /\ Shown[picker.sel].model # None
    /\ Spends("choices") /\ Choice("model", Shown[picker.sel].model)
    /\ UNCHANGED <<settings, mode, cat, hidden, screens, conv, target, effort, failures, turns>>
ChooseSession ==
    /\ mode = "resume" /\ Spends("choices") /\ \E s \in Sessions : Choice("session", s)
    /\ UNCHANGED <<settings, mode, cat, hidden, screens, conv, target, effort, failures, turns>>

(* modelChosenMsg and sessionChosenMsg, in any mode.                        *)
ModelChosen(c) ==
    /\ c \in chosen /\ c.kind = "model" /\ chosen' = chosen \ {c}
    /\ ApplyModelChosen(c.of)
    /\ UNCHANGED <<settings, cat, hidden, picker, compact, answers, conv, effort, failures, turns, left>>
SessionChosen(c) ==
    /\ c \in chosen /\ c.kind = "session" /\ chosen' = chosen \ {c} /\ Show("chat")
    /\ \/ UNCHANGED <<conv, target>>
       \/ conv' = c.of.conv /\ Switch(c.of.model)
    /\ UNCHANGED <<settings, cat, hidden, screens, effort, failures, turns, left>>

(* esc, and any key over /help, /hotkeys, the theme selector or trust.      *)
CloseScreen ==
    /\ mode \in {"picker", "confirm", "compact", "resume", "help"} /\ Show("chat")
    /\ UNCHANGED <<settings, cat, hidden, screens, conv, target, effort, failures, turns, chosen, left>>

(* resolveConfirm.                                                          *)
ResolveConfirm(option) ==
    LET to == confirm.to
    IN  /\ mode = "confirm" /\ option \in confirm.options /\ confirm' = NoDialog
        /\ \/ option = "proceed" /\ Show("chat") /\ Switch(to) /\ UNCHANGED <<conv, compact, answers>>
           \/ option = "compact" /\ StartCompact(conv, to) /\ FinishSwitch(AtOnce(conv), to)
           \/ /\ option = "drop" /\ Show("chat") /\ Switch(to)
              /\ conv' = DropOldest(conv, Window[to]) /\ UNCHANGED <<compact, answers>>
           \/ option = "cancel" /\ Show("chat") /\ UNCHANGED <<conv, compact, answers, target>>
        /\ UNCHANGED <<settings, cat, hidden, picker, effort, failures, turns, chosen, left>>

(* finishCompact: an answer of any summary asked for, if one is awaited.    *)
FinishCompact(ok) ==
    /\ answers > 0 /\ answers' = answers - 1
    /\ \/ mode # "compact" /\ UNCHANGED <<mode, conv, target, compact>>
       \/ /\ mode = "compact" /\ Show("chat") /\ compact' = None
          /\ IF ok \/ settings.dropOnError
             THEN conv' = Compacted(conv) /\ FinishSwitch(TRUE, compact)
             ELSE UNCHANGED <<conv, target>>
    /\ UNCHANGED <<settings, cat, hidden, picker, confirm, effort, failures, turns, chosen, left>>

(* applyCatalogRefreshed.                                                   *)
CatalogRefreshed(c) ==
    /\ Spends("refreshes") /\ cat' = c
    /\ picker' = IF mode = "picker" THEN Rebuild(picker, c, hidden) ELSE picker
    /\ UNCHANGED <<settings, mode, hidden, confirm, compact, answers, conv, target, effort, failures, turns, chosen>>

-----------------------------------------------------------------------------
(* The effort level: kept over a change of model.                           *)
LevelsOf(m) == IF Listed(m) THEN Levels[m] ELSE <<>>
CycleEffort ==
    LET levels == LevelsOf(model)
        known == {k \in DOMAIN levels : levels[k] = effort}
    IN  /\ levels # <<>> /\ Spends("keys")
        /\ effort' = IF known = {} THEN levels[1] ELSE levels[((CHOOSE k \in known : TRUE) % Len(levels)) + 1]
        /\ UNCHANGED <<settings, mode, cat, hidden, screens, conv, target, failures, turns, chosen>>

(* runSlashCommand. While a turn runs only some commands are let through,   *)
(* from the typed line and from the menu alike.                             *)
\* Mutant: the menu runs whatever is selected.
MutAllowed(kind) == TRUE
Allowed(kind) == mode = "busy" => kind \in {"stats", "models"}
Command(kind) ==
    /\ mode \in {"chat", "busy"} /\ Allowed(kind) /\ Spends("keys")
    /\ \/ kind = "help" /\ Show("help") /\ UNCHANGED <<screens, hidden, conv, target, effort>>
       \/ kind = "new" /\ conv' = NewConversation /\ UNCHANGED <<mode, screens, hidden, target, effort>>
       \/ kind = "stats" /\ UNCHANGED <<mode, screens, hidden, conv, target, effort>>
       \/ kind = "models" /\ hidden' \in {hidden, {}} /\ UNCHANGED <<mode, screens, conv, target, effort>>
       \/ kind = "effort" /\ effort' \in ToSet(LevelsOf(model)) /\ UNCHANGED <<mode, screens, hidden, conv, target>>
       \/ kind = "resume" /\ Show("resume") /\ UNCHANGED <<screens, hidden, conv, target, effort>>
       \/ kind = "compact" /\ StartCompact(conv, None) /\ UNCHANGED <<target, picker, confirm, hidden, effort>>
       \/ /\ kind = "model"
          /\ \/ (\E m \in ToSet(cat) \cup Concealed : ApplyModelChosen(m)) /\ UNCHANGED picker
             \/ \E q \in Queries : OpenPicker(q)
          /\ UNCHANGED <<compact, answers, hidden, conv, effort>>
    /\ UNCHANGED <<settings, cat, failures, turns, chosen>>

(* submit: ModeChat is all it asks for.                                     *)
Grown(c) == IF c.measured = 0 THEN 0 ELSE c.measured + 1
Submit ==
    /\ mode = "chat" /\ Spends("turns")
    /\ conv' = [active |-> Append(conv.active, FALSE), measured |-> Grown(conv)] /\ Show("busy")
    /\ turns' = Append(turns, [model |-> model, engine |-> engine, effort |-> effort])
    /\ UNCHANGED <<settings, cat, hidden, screens, target, effort, failures, chosen>>

(* checkEndOfTurn, after finishTurn or finishAgentTurn: the fallback first, *)
(* since the window that decides on a compaction is the next turn's.        *)
NeedsCompact(c, m) == settings.auto /\ Listed(m) /\ ContextTokens(c) * 100 >= Window[m] * TriggerPct
EndOfTurn(c, failed) ==
    LET streak == IF failed THEN failures + 1 ELSE 0
        falls == streak >= 2 /\ model # Fallback
    IN  /\ failures' = IF falls THEN 0 ELSE streak
        /\ IF falls THEN Switch(Fallback) ELSE UNCHANGED target
        /\ IF NeedsCompact(c, model') THEN StartCompact(c, None)
           ELSE Show("chat") /\ conv' = c /\ UNCHANGED <<compact, answers>>

(* A turn's end. With tools its message counts in ModeBusy only, whichever  *)
(* turn it is of; without, the stream's tick closes the last one begun in   *)
(* any mode, and one whose buffer was replaced is never heard of.           *)
EndTurn(k, failed, used) ==
    LET n == Len(conv.active)
        heard == IF settings.tools THEN mode = "busy" ELSE k = Len(turns)
        replied(usage) == [active |-> IF used /\ n > 0 THEN [conv.active EXCEPT ![n] = TRUE] ELSE conv.active,
                           measured |-> usage]
    IN  /\ turns' = RemoveAt(turns, k) /\ (used => settings.tools /\ ~failed)
        /\ \/ ~heard /\ UNCHANGED <<mode, conv, target, failures, compact, answers>>
           \/ heard /\ failed /\ EndOfTurn(conv, TRUE)
           \/ heard /\ ~failed /\ \E usage \in {conv.measured, n, n + 1} : EndOfTurn(replied(usage), FALSE)
        /\ UNCHANGED <<settings, cat, hidden, picker, confirm, effort, chosen, left>>

Next ==
    \/ UpdatePicker \/ ChooseModel \/ ChooseSession \/ CloseScreen \/ CycleEffort \/ Submit
    \/ \E c \in chosen : ModelChosen(c) \/ SessionChosen(c)
    \/ \E option \in {"proceed", "compact", "drop", "cancel"} : ResolveConfirm(option)
    \/ \E ok \in BOOLEAN : FinishCompact(ok)
    \/ \E c \in Catalogs : CatalogRefreshed(c)
    \/ \E kind \in Commands : Command(kind)
    \/ \E k \in DOMAIN turns, failed, used \in BOOLEAN : EndTurn(k, failed, used)
Spec == Init /\ [][Next]_vars

-----------------------------------------------------------------------------
(* Types. The selection is a row while there are rows: selected() indexes.  *)
TypeOK ==
    /\ mode \in {"chat", "picker", "confirm", "compact", "resume", "help", "busy"}
    /\ {model, engine} \subseteq Models /\ hidden \subseteq Models
    /\ conv.measured \in Nat /\ conv.active \in Seq(BOOLEAN)
    /\ mode = "confirm" => confirm # NoDialog
    /\ mode = "picker" /\ Shown # <<>> => picker.sel \in DOMAIN Shown

(* The label and the engine name one model, unless the switch that parted   *)
(* them said so, on every way to change model: chosen, confirmed, after a   *)
(* compaction, resumed or fallen back to.                                   *)
LabelBacked == engine # model => warned

(* In ModeBusy a turn runs, and until it ends nothing changes the           *)
(* conversation, the model or the screen under it but a choice made before  *)
(* it began that is applied late.                                           *)
TurnsUndisturbed ==
    [][mode = "busy" =>
        /\ turns # <<>>
        /\ \/ UNCHANGED <<mode, conv, target>>
           \/ turns # turns'
           \/ \E c \in chosen : c \notin chosen']_vars

(* The label and the engine never name two providers.                       *)
LabelMatchesEngine == ProviderOf[engine] = ProviderOf[model]
=============================================================================
