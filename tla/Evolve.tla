------------------------------- MODULE Evolve -------------------------------
(* evolve/ and tui/suggest.go: the ledger of repeated commands and the      *)
(* suggestion to crystallise one into a tool. Every writer of usage.jsonl   *)
(* and of the suggestion state loads the file, changes what it read and     *)
(* replaces the file, without a lock: the two are separate steps here.      *)
(*                                                                          *)
(* A command or URL is a sequence of tokens. A token is a base, a query     *)
(* (what follows a '?', "" if none) and whether it ends in the '*' a merge  *)
(* writes; the token '*' has the base "". Distinct bases share no prefix.   *)
EXTENDS Naturals, FiniteSets, Sequences, SequencesExt

CONSTANTS
    Uis,                     \* programs whose screen may show a suggestion
    Others,                  \* turns of other programs, or left behind by a cancel
    Raws,                    \* command lines and URLs that are run
    MinRepeats, SessionBudget, WeekBudget, DecayAfter,
    Bounds                   \* what a behaviour may hold: programs with a screen,
                             \* commands run, weeks, suggestions in a week,
                             \* operations on tools, edits of them by hand

Tokens == [base : STRING, query : STRING, star : BOOLEAN]

ASSUME EvolveAssumption ==
    /\ {MinRepeats, SessionBudget, WeekBudget, DecayAfter} \subseteq Nat
    /\ \A b \in Bounds : DOMAIN b = {"uis", "runs", "weeks", "offers", "operations", "tampers"}
    /\ MinRepeats > 0 /\ Uis \cap Others = {}

(* rawInvocation leaves an empty command out; one of blanks alone, which    *)
(* has no token either, is not modelled.                                    *)
ASSUME RawAssumption == Raws \subseteq Seq(Tokens) \ {<<>>}

VARIABLES
    ledger,         \* usage.jsonl
    suggestState,   \* suggest.json
    mode,           \* [tools.evolve].mode in config.toml
    now,            \* the week
    actor,          \* where each is, with what it read
    executed,       \* the commands that ran, in their order (history)
    rejected,       \* patterns refused with nobody else writing (history)
    overwritten,    \* the last week in which a program replaced a suggest.json
                    \* that it had not read, 0 if none (history)
    week,           \* suggestions shown in the week the file counts (history)
    starred,        \* some record became a '*' (history)
    bound           \* the member of Bounds this behaviour has

evolve == <<ledger, suggestState, mode, now, actor, executed, rejected, overwritten, week, starred, bound>>

Actors == Uis \cup Others

Patterns(records) == {records[i].pattern : i \in DOMAIN records}
Wildcard == [base |-> "", query |-> "", star |-> TRUE]
Prefixed(t) == [base |-> t.base, query |-> "", star |-> TRUE]

ShapeKey(tokens) == <<tokens[1].base, Len(tokens)>>

MergeToken(old, new) ==
    CASE old = Wildcard \/ old = new                                       -> old
      [] old.query # "" /\ new.query # "" /\ old.base = new.base           -> Prefixed(old)
      [] old.query = "" /\ old.star /\ new.base = old.base                 -> Prefixed(old)
      [] OTHER                                                             -> Wildcard

MergePattern(old, new) == [i \in DOMAIN old |-> MergeToken(old[i], new[i])]

Matching(records, raw) == {i \in DOMAIN records : ShapeKey(records[i].pattern) = ShapeKey(raw)}
First(S) == CHOOSE i \in S : \A j \in S : i <= j

Observe(records, raw) ==
    LET found == Matching(records, raw)
        i     == First(found)
    IN  IF found = {}
        THEN Append(records, [pattern |-> raw, n |-> 1, dismissed |-> FALSE])
        ELSE Append(RemoveAt(records, i),
                    [records[i] EXCEPT !.pattern = MergePattern(@, raw), !.n = @ + 1])

CountFor(records, raw) ==
    LET found == Matching(records, raw) IN IF found = {} THEN 0 ELSE records[First(found)].n

(* The records NextSuggestion may return: the most frequent of those left,  *)
(* ties in the order of their text, which is any order here.                *)
NextSuggestion(records) ==
    LET left == {i \in DOMAIN records : ~records[i].dismissed /\ records[i].n >= MinRepeats}
    IN  {records[i] : i \in {i \in left : \A j \in left : records[j].n <= records[i].n}}

DismissPattern(records, pattern) ==
    LET found == {i \in DOMAIN records : records[i].pattern = pattern}
    IN  IF found = {} THEN records ELSE [records EXCEPT ![First(found)].dismissed = TRUE]

RollWeek(s) ==
    CASE s.start = 0   -> [s EXCEPT !.start = now]
      [] s.start < now -> [s EXCEPT !.start = now, !.count = 0]
      [] OTHER         -> s

\* Mutant: the budget of the session is looked at after the offer.
MutDecideSuggestion(records, s, shown) ==
    IF (SessionBudget > 0 /\ shown > SessionBudget) \/ (WeekBudget > 0 /\ s.count >= WeekBudget)
    THEN {} ELSE NextSuggestion(records)

DecideSuggestion(records, s, shown) ==
    IF (SessionBudget > 0 /\ shown >= SessionBudget) \/ (WeekBudget > 0 /\ s.count >= WeekBudget)
    THEN {} ELSE NextSuggestion(records)

Resting == [at |-> "idle", ledger |-> <<>>, state |-> [start |-> 0, count |-> 0, rejects |-> 0],
            pattern |-> <<>>, refused |-> {}, shown |-> 0, watching |-> FALSE, alone |-> TRUE]
Rested(a) == [actor[a] EXCEPT !.at = "idle", !.ledger = <<>>, !.state = Resting.state,
                              !.pattern = <<>>, !.refused = {}, !.alone = TRUE]

EvolveInit ==
    /\ ledger = <<>>
    /\ suggestState = [start |-> 0, count |-> 0, rejects |-> 0]
    /\ mode = "suggest"
    /\ now = 1
    /\ actor = [a \in Actors |-> [Resting EXCEPT !.watching = a \in Uis]]
    /\ executed = <<>>
    /\ rejected = {}
    /\ overwritten = 0
    /\ week = 0
    /\ starred = FALSE
    /\ bound \in Bounds

(* A step that replaces the ledger spoils what the others hold of it.       *)
LedgerWritten(a) == [b \in Actors |-> IF b = a THEN Rested(a) ELSE [actor[b] EXCEPT !.alone = FALSE]]

(* observeLedger, after every bash and fetch call.                          *)
ObserveLoads(a, raw) ==
    /\ actor[a].at = "idle"
    /\ Len(executed) < bound.runs /\ a \in bound.uis \cup Others
    /\ executed' = Append(executed, raw)
    /\ actor' = [actor EXCEPT ![a].at = "observing", ![a].ledger = ledger, ![a].pattern = raw]
    /\ UNCHANGED <<ledger, suggestState, mode, now, rejected, overwritten, week, starred, bound>>

ObserveSaves(a) ==
    /\ actor[a].at = "observing"
    /\ ledger' = Observe(actor[a].ledger, actor[a].pattern)
    /\ actor' = LedgerWritten(a)
    /\ starred' = (starred \/ \E p \in Patterns(ledger') : p[1] = Wildcard)
    /\ UNCHANGED <<suggestState, mode, now, executed, rejected, overwritten, week, bound>>

(* A program replaces suggest.json, which may not be what it had read.      *)
Replaces(a, state) ==
    /\ suggestState' = state
    /\ overwritten' = IF actor[a].state = suggestState THEN overwritten ELSE now

(* checkSuggest, when a turn of the program has ended. What was refused     *)
(* before is kept beside the ledger (history).                              *)
CheckLoads(a) ==
    /\ actor[a].at = "idle" /\ actor[a].watching /\ a \in bound.uis
    /\ actor' = [actor EXCEPT ![a].at = "checking", ![a].ledger = ledger, ![a].state = suggestState,
                              ![a].refused = rejected]
    /\ UNCHANGED <<ledger, suggestState, mode, now, executed, rejected, overwritten, week, starred, bound>>

CheckSuggest(a) ==
    /\ actor[a].at = "checking"
    /\ LET state == RollWeek(actor[a].state)
            offers == DecideSuggestion(actor[a].ledger, state, actor[a].shown)
        IN  \/ /\ offers = {}
               /\ Replaces(a, state)
               /\ week' = IF state.start = suggestState.start THEN week ELSE 0
               /\ actor' = [actor EXCEPT ![a] = Rested(a)]
            \/ \E rec \in offers :
               /\ week < bound.offers
               /\ Replaces(a, [state EXCEPT !.count = @ + 1])
               /\ week' = IF state.start = suggestState.start THEN week + 1 ELSE 1
               /\ actor' = [actor EXCEPT ![a] = [Rested(a) EXCEPT !.at = "offer", !.pattern = rec.pattern,
                                                                !.refused = actor[a].refused, !.shown = @ + 1]]
    /\ UNCHANGED <<ledger, mode, now, executed, rejected, starred, bound>>

(* The keys of the dialog: esc; crearla; no, ni ahora ni despues. The last  *)
(* two load suggest.json again, and replace it.                             *)
CancelSuggest(a) ==
    /\ actor[a].at = "offer"
    /\ actor' = [actor EXCEPT ![a] = Rested(a)]
    /\ UNCHANGED <<ledger, suggestState, mode, now, executed, rejected, overwritten, week, starred, bound>>

AcceptLoads(a) ==
    /\ actor[a].at = "offer"
    /\ actor' = [actor EXCEPT ![a] = [Rested(a) EXCEPT !.at = "accepting", !.state = suggestState]]
    /\ UNCHANGED <<ledger, suggestState, mode, now, executed, rejected, overwritten, week, starred, bound>>

AcceptSuggestion(a) ==
    /\ actor[a].at = "accepting"
    /\ Replaces(a, [actor[a].state EXCEPT !.rejects = 0])
    /\ actor' = [actor EXCEPT ![a] = Rested(a)]
    /\ UNCHANGED <<ledger, mode, now, executed, rejected, week, starred, bound>>

DismissLoads(a) ==
    /\ actor[a].at = "offer"
    /\ actor' = [actor EXCEPT ![a].at = "dismissing", ![a].ledger = ledger, ![a].alone = TRUE]
    /\ UNCHANGED <<ledger, suggestState, mode, now, executed, rejected, overwritten, week, starred, bound>>

(* A refusal counts as heard when the record it names was there to be       *)
(* marked and nobody held a copy to write, or wrote one, meanwhile.         *)
DismissSaves(a) ==
    /\ actor[a].at = "dismissing"
    /\ ledger' = DismissPattern(actor[a].ledger, actor[a].pattern)
    /\ rejected' = IF /\ actor[a].alone
                      /\ actor[a].pattern \in Patterns(ledger)
                      /\ \A b \in Actors \ {a} : actor[b].at \notin {"observing", "dismissing"}
                   THEN rejected \cup {actor[a].pattern} ELSE rejected
    /\ actor' = [LedgerWritten(a) EXCEPT ![a].at = "rejecting"]
    /\ UNCHANGED <<suggestState, mode, now, executed, overwritten, week, starred, bound>>

(* RecordRejection; the streak that reaches DecayAfter exactly is the one   *)
(* that writes the mode back.                                               *)
RejectLoads(a) ==
    /\ actor[a].at = "rejecting"
    /\ actor' = [actor EXCEPT ![a].at = "counting", ![a].state = suggestState]
    /\ UNCHANGED <<ledger, suggestState, mode, now, executed, rejected, overwritten, week, starred, bound>>

DismissSuggestion(a) ==
    /\ actor[a].at = "counting"
    /\ Replaces(a, [actor[a].state EXCEPT !.rejects = @ + 1])
    /\ mode' = IF DecayAfter > 0 /\ suggestState'.rejects = DecayAfter THEN "on_request" ELSE mode
    /\ actor' = [actor EXCEPT ![a] = Rested(a)]
    /\ UNCHANGED <<ledger, now, executed, rejected, week, starred, bound>>

(* NewEvolveStore reads the mode when a program starts; the budget of the   *)
(* session starts over with it.                                             *)
RestartUi(a) ==
    /\ a \in bound.uis /\ actor[a] # [Resting EXCEPT !.watching = mode = "suggest"]
    /\ actor' = [actor EXCEPT ![a] = [Resting EXCEPT !.watching = mode = "suggest"]]
    /\ UNCHANGED <<ledger, suggestState, mode, now, executed, rejected, overwritten, week, starred, bound>>

WeekPasses ==
    /\ now < bound.weeks
    /\ now' = now + 1
    /\ UNCHANGED <<ledger, suggestState, mode, actor, executed, rejected, overwritten, week, starred, bound>>

Suggesting ==
    \/ \E a \in Uis : \/ CheckLoads(a) \/ CheckSuggest(a) \/ CancelSuggest(a)
                      \/ AcceptLoads(a) \/ AcceptSuggestion(a)
                      \/ DismissLoads(a) \/ DismissSaves(a) \/ RejectLoads(a) \/ DismissSuggestion(a)
                      \/ RestartUi(a)
    \/ WeekPasses
Observing == \E a \in Actors : (\E raw \in Raws : ObserveLoads(a, raw)) \/ ObserveSaves(a)
-----------------------------------------------------------------------------
Fits(pattern, raw) == Len(pattern) = Len(raw) /\ pattern[1].base \in {"", raw[1].base}
TimesRun(pattern) == Cardinality({k \in DOMAIN executed : Fits(pattern, executed[k])})
Offering == {a \in Uis : actor[a].at \in {"offer", "dismissing"}}

(* tui/suggest.go:103, evolve/suggest.go:297: a suggestion interrupts the    *)
(* person within the budgets of the session and of the week only, and for   *)
(* what really ran MinRepeats times, whichever writers of the ledger lost.  *)
(* A program keeps to the budget of the week by what suggest.json says: the *)
(* week the file counts may hold more once a program, of several that       *)
(* suggest, has overwritten there what another one had written.             *)
OffersEarned ==
    /\ \A a \in Uis : SessionBudget > 0 => actor[a].shown <= SessionBudget
    /\ WeekBudget > 0 /\ overwritten < suggestState.start => week <= WeekBudget
    /\ \A a \in Offering : TimesRun(actor[a].pattern) >= MinRepeats

(* evolve/suggest.go:79-82, "once per pattern, ever": no pattern the person *)
(* had refused, on any screen, when the ledger was read is offered again,   *)
(* nor one its record has been merged into.                                 *)
OncePerPattern ==
    \A a \in Offering : \A r \in actor[a].refused : ShapeKey(actor[a].pattern) # ShapeKey(r)

(* The same, as long as no record has ever become a '*' that its own        *)
(* commands no longer match.                                                *)
RefusedStaysRefused == starred \/ OncePerPattern

=============================================================================
