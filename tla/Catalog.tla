------------------------------- MODULE Catalog -------------------------------
(* catalog/, curation/, and app/catalog.go, app/modelref.go around them:    *)
(* the cache of what each provider lists, the refreshes that rewrite it (one*)
(* begun at start-up, one after a login, one by `ishakat models --refresh`),*)
(* the list of models a session shows, curated, the models the person hides *)
(* or keeps, and which model a text stands for.                             *)
EXTENDS Matching, FiniteSets

CONSTANTS
    Providers, ProviderOrder,   \* and the order they are declared in
    Models, ModelOrder,         \* references, provider/wire, and their order
    ProviderOf,
    Raw, Dev,                   \* what a listing and models.dev say of a model
    Undated, Released,          \* the id without its date, or its -preview
    Listings,                   \* what a provider may list
    Seed, Preset,               \* the compiled lists, and the id `provider add` tried
    Queries, Fit,               \* other texts, and how a text fits a reference
    Rules,                      \* configurations
    Samples,                    \* queries and references to match
    Bounds                      \* how many boots, refreshes by hand and curations

None == "none"
Jobs == {"boot", "login", "models"}
NoList == [ok |-> FALSE, models |-> {}]

ASSUME CatalogAssumption ==
    /\ ProviderOrder \in Seq(Providers) /\ ToSet(ProviderOrder) = Providers
    /\ ModelOrder \in Seq(Models) /\ ToSet(ModelOrder) = Models
    /\ \A b \in Bounds : {b.boots, b.refreshes, b.curations} \subseteq Nat
    /\ Models \cap Queries = {} /\ None \notin Models \cup Queries \cup Providers
    /\ ProviderOf \in [Models -> Providers]
    /\ \A p \in Providers : Preset[p] = None \/ (Preset[p] \in Models /\ ProviderOf[Preset[p]] = p)
    /\ \A m \in Models : Undated[m] \in Models \cup {None} /\ Released[m] \in Models \cup {None}
    /\ \A p \in Providers : Listings[p] \subseteq SUBSET Models
    /\ \A text \in Models \cup Queries, m \in Models : Fit[text][m].score \in Int
    /\ \A r \in Rules :
          /\ r.config \in [enabled : SUBSET Providers, authed : SUBSET Providers]
          /\ r.declared \subseteq Models
          /\ \A name \in DOMAIN r.alias : r.alias[name] \in Models \cup Queries
    /\ \A s \in Samples : {Len(s.query), Len(s.target)} \subseteq Nat

VARIABLES
    rules,      \* the configuration no step changes
    config,     \* the providers enabled and the ones with a credential
    disk,       \* catalog.json, and whether modelsdev.json is there
    curated,    \* curation.json
    session,    \* the interface: its configuration, list and store
    job,        \* each refresh
    left,       \* of the bounds
    latest,     \* what each provider last listed to a refresh that ended (history)
    raced,      \* a refresh ended after another had begun and ended (history)
    hid,        \* models the person hid, whatever came after (history)
    gained      \* providers a login of this session put on the list (history)

catalogVars == <<rules, config, disk, curated, session, job, left, latest, raced, hid, gained>>

First(order, S) == IF S = {} THEN None ELSE order[Min({i \in DOMAIN order : order[i] \in S})]
Known(m, index) == Raw[m] \cup IF index THEN Dev[m] ELSE {}
Lists == [Providers -> [ok : BOOLEAN, models : SUBSET Models]]
NoCache == [p \in Providers |-> NoList]
Cache == IF disk.exists THEN disk.lists ELSE NoCache

(* What the providers list and the configuration declares; the older of the *)
(* two hide_deprecated keys drops models here, before curation.             *)
Build(enabled, lists, index) ==
    {m \in Models :
        /\ ProviderOf[m] \in enabled
        /\ m \in lists[ProviderOf[m]].models \cup rules.declared
        /\ ~(rules.early /\ "deprecated" \in Known(m, index) /\ m \notin rules.declared)}

(* decide: kept, hidden by the person, then the rules, which leave what the *)
(* configuration declares alone.                                            *)
Automatic(m, built, index) ==
    \/ "deprecated" \in Known(m, index) /\ ("deprecated" \in rules.hides \/ rules.early)
    \/ "nonchat" \in Known(m, index) \cap rules.hides
    \/ Released[m] \in built /\ "superseded" \in rules.hides
    \/ Undated[m] \in built /\ "dated" \in rules.hides
    \/ m \in rules.hide
Hides(m, built, index, cur) ==
    /\ m \notin cur.kept /\ m \notin rules.keep
    /\ m \in cur.hidden \/ (m \notin rules.declared /\ Automatic(m, built, index))

(* applyCuration: never everything.                                         *)
Curate(built, index, cur) ==
    LET kept == {m \in built : ~Hides(m, built, index, cur)}
    IN  IF kept = {} THEN [list |-> built, hidden |-> {}]
        ELSE [list |-> kept, hidden |-> built \ kept]

(* LoadCatalog: the seed when nothing else is known.                        *)
Load(enabled, lists, index, cur) ==
    LET built == Build(enabled, lists, index)
        seed == {m \in Models : ProviderOf[m] \in enabled /\ m \in Seed}
    IN  IF built = {} THEN Curate(seed, FALSE, cur) ELSE Curate(built, index, cur)

-----------------------------------------------------------------------------
(* Which model a text stands for.                                           *)

Alias(text) == IF text \in DOMAIN rules.alias THEN rules.alias[text] ELSE text
Hops(text, n) ==
    LET hop[k \in 0 .. n] == IF k = 0 THEN text ELSE Alias(hop[k - 1])
    IN  hop

Clear(best, second) == IF second <= 0 THEN best > 0 ELSE 100 * best >= 120 * second

\* Mutant: of several references that end with the text, the first is taken.
MutByFit(text, list) ==
    LET suffix == {m \in list : Fit[text][m].suffix}
    IN  First(ModelOrder, suffix)

(* The unique suffix, the unique word, or the best score by a clear margin. *)
ByFit(text, list) ==
    LET suffix == {m \in list : Fit[text][m].suffix}
        word == {m \in list : Fit[text][m].word}
        found == {m \in list : Fit[text][m].score > 0}
        best == CHOOSE m \in found : \A o \in found : Fit[text][o].score <= Fit[text][m].score
        rest == {Fit[text][o].score : o \in found \ {best}} \cup {0}
    IN  IF Cardinality(suffix) = 1 THEN First(ModelOrder, suffix)
        ELSE IF suffix # {} THEN None
        ELSE IF Cardinality(word) = 1 THEN First(ModelOrder, word)
        ELSE IF found # {} /\ Clear(Fit[text][best].score, Max(rest)) THEN best
        ELSE None

(* Resolve: a listed reference is what it says, before and after each of at *)
(* most eight aliases; aliases in a circle, or no clear fit, open the       *)
(* picker (None).                                                           *)
Resolve(text, list) ==
    LET hop == Hops(text, 8)
        exact == {k \in 0 .. 7 : hop[k] \in list}
        circle == hop[6] # hop[7] /\ Cardinality({hop[k] : k \in 0 .. 7}) < 8
    IN  IF list = {} THEN None
        ELSE IF exact # {} THEN hop[Min(exact)]
        ELSE IF circle THEN None
        ELSE ByFit(hop[8], list)

(* lookupModelProvider: at most four aliases, then the provider a reference *)
(* names, enabled or not, or the first enabled one.                         *)
NoTarget == [provider |-> None, wire |-> None]
LookedUp(text, c) ==
    LET q == Hops(text, 4)[4]
    IN  IF q \in Models THEN [provider |-> ProviderOf[q], wire |-> q]
        ELSE IF c.enabled = {} THEN NoTarget
        ELSE [provider |-> First(ProviderOrder, c.enabled), wire |-> q]
ResolveModel(text, c) ==
    LET found == LookedUp(text, c)
    IN  IF found.provider \in c.enabled THEN found ELSE NoTarget

(* catalogModelFor, or the id the provider was added with.                  *)
Serves(p, list, index) ==
    LET good == {m \in list : ProviderOf[m] = p /\ "deprecated" \notin Known(m, index)}
    IN  IF good = {} THEN Preset[p] ELSE First(ModelOrder, good)
Usable(c) == c.enabled \cap c.authed

\* Mutant: a provider without a credential is picked too.
MutPickBootModel(c, list, index, skip) ==
    LET able == {p \in c.enabled \ skip : Serves(p, list, index) # None}
    IN  IF able = {} THEN NoTarget
        ELSE ResolveModel(Serves(First(ProviderOrder, able), list, index), c)

PickBootModel(c, list, index, skip) ==
    LET able == {p \in Usable(c) \ skip :
                    /\ Serves(p, list, index) # None
                    /\ ResolveModel(Serves(p, list, index), c) # NoTarget}
    IN  IF able = {} THEN NoTarget
        ELSE ResolveModel(Serves(First(ProviderOrder, able), list, index), c)

(* ResolveModelForBoot: a model asked for is never replaced; a default that *)
(* is absent or cannot serve is.                                            *)
BootModel(text, c, list, index) ==
    LET found == LookedUp(rules.default, c)
    IN  IF text # None THEN ResolveModel(text, c)
        ELSE IF rules.default = None THEN PickBootModel(c, list, index, {})
        ELSE IF found = NoTarget \/ found.provider \in Usable(c) THEN found
        ELSE PickBootModel(c, list, index, {found.provider})

-----------------------------------------------------------------------------
Idle == [at |-> "idle", config |-> rules.config, lists |-> NoCache, index |-> FALSE, result |-> {}, fine |-> FALSE]
Off == [on |-> FALSE, config |-> rules.config, list |-> {}, hidden |-> {},
        store |-> [hidden |-> {}, kept |-> {}]]

CatalogInit ==
    /\ rules \in Rules /\ config = rules.config
    /\ disk = [exists |-> FALSE, lists |-> NoCache, index |-> FALSE]
    /\ curated = [hidden |-> {}, kept |-> {}]
    /\ session = Off /\ job = [j \in Jobs |-> Idle]
    /\ left \in Bounds /\ latest = [p \in Providers |-> {}] /\ raced = FALSE
    /\ hid = {} /\ gained = {}

Spends(kind) == left[kind] > 0 /\ left' = [left EXCEPT ![kind] = @ - 1]

Fetching(c) == [Idle EXCEPT !.at = "fetching", !.config = c, !.lists = Cache, !.index = disk.index,
                             !.result = Load(c.enabled, Cache, disk.index, curated).list]

(* Run: LoadCatalog, the model, and a refresh behind the interface when the *)
(* cache is missing or old.                                                 *)
Boot(old) ==
    LET loaded == Load(config.enabled, Cache, disk.index, curated)
    IN  /\ ~session.on /\ Spends("boots")
        /\ old \/ disk.exists
        /\ session' = [on |-> TRUE, config |-> config, list |-> loaded.list, hidden |-> loaded.hidden,
                       store |-> curated]
        /\ job' = IF old THEN [job EXCEPT !["boot"] = Fetching(config)] ELSE job
        /\ UNCHANGED <<rules, config, disk, curated, latest, raced, hid, gained>>

Quit ==
    /\ session.on
    /\ session' = Off
    /\ job' = [job EXCEPT !["boot"] = Idle, !["login"] = Idle]
    /\ gained' = {}
    /\ UNCHANGED <<rules, config, disk, curated, left, latest, raced, hid>>

(* finishLogin: the provider is written to the configuration and a refresh  *)
(* of its own reads it back, with the cache.                                *)
Login(p) ==
    LET next == [enabled |-> config.enabled \cup {p}, authed |-> config.authed \cup {p}]
    IN  /\ session.on /\ job["login"].at = "idle" /\ p \notin Usable(config)
        /\ config' = next
        /\ job' = [job EXCEPT !["login"] = Fetching(next)]
        /\ UNCHANGED <<rules, disk, curated, session, left, latest, raced, hid, gained>>

(* ishakat models --refresh, in a program of its own.                       *)
RefreshModels ==
    /\ job["models"].at = "idle" /\ Spends("refreshes")
    /\ job' = [job EXCEPT !["models"] = Fetching(config)]
    /\ UNCHANGED <<rules, config, disk, curated, session, latest, raced, hid, gained>>

(* ishakat models clean.                                                    *)
Clean ==
    /\ disk.exists
    /\ disk' = [exists |-> FALSE, lists |-> NoCache, index |-> FALSE]
    /\ latest' = [p \in Providers |-> {}]
    /\ raced' = (\E j \in Jobs : job[j].at # "idle")
    /\ UNCHANGED <<rules, config, curated, session, job, left, hid, gained>>

\* Mutant: a provider that cannot be listed loses what it listed before.
MutListed(old, answer) == answer

(* SetProvider and SetProviderError.                                        *)
Listed(old, answer) == IF answer.ok THEN answer ELSE [ok |-> FALSE, models |-> old.models]

(* Discover asks every provider that can be built, at once, each under its  *)
(* own timeout; models.dev is asked after. The refresh of start-up reads    *)
(* the configuration the session holds, which a login may have replaced.    *)
Answers(p) == {NoList} \cup [ok : {TRUE}, models : Listings[p]]
Discover(j) ==
    LET c == IF j = "boot" THEN session.config ELSE job[j].config
        asked == c.enabled \cap rules.discovers
    IN  /\ job[j].at = "fetching"
        /\ \E got \in [Providers -> UNION {Answers(p) : p \in Providers}], dev \in BOOLEAN :
            /\ \A p \in Providers : got[p] \in IF p \in asked \cap c.authed THEN Answers(p) ELSE {NoList}
            /\ job' = [job EXCEPT
                  ![j].at = "saving", ![j].index = @ \/ dev,
                  ![j].fine = dev /\ \A p \in asked : got[p].ok,
                  ![j].lists = [p \in Providers |-> IF p \in asked THEN Listed(@[p], got[p]) ELSE @[p]]]
    /\ UNCHANGED <<rules, config, disk, curated, session, left, latest, raced, hid, gained>>

(* The end of RefreshCatalog: the list is built and curated, and the cache, *)
(* read when the refresh began, replaces the file.                          *)
Save(j) ==
    LET c == IF j = "boot" THEN session.config ELSE job[j].config
        built == Curate(Build(c.enabled, job[j].lists, job[j].index), job[j].index, curated)
        nothing == ~job[j].fine /\ built.list = {}
    IN  /\ job[j].at = "saving"
        /\ disk' = [exists |-> TRUE, lists |-> job[j].lists, index |-> disk.index \/ job[j].index]
        /\ latest' = [p \in Providers |-> IF job[j].lists[p].ok THEN job[j].lists[p].models ELSE latest[p]]
        /\ raced' = (raced \/ \E k \in Jobs \ {j} : job[k].at \in {"fetching", "saving"})
        /\ job' = [job EXCEPT ![j] =
              IF j = "models" THEN Idle
              ELSE [job[j] EXCEPT
                        !.at = IF j = "boot" /\ nothing THEN "idle" ELSE "ended",
                        !.result = IF nothing THEN job[j].result ELSE built.list]]
        /\ UNCHANGED <<rules, config, curated, session, left, hid, gained>>

(* applyCatalogRefreshed: only a login brings a configuration.              *)
Apply(j) ==
    /\ job[j].at = "ended"
    /\ session' = [session EXCEPT !.list = job[j].result, !.config = IF j = "login" THEN job[j].config ELSE @]
    /\ job' = [job EXCEPT ![j] = Idle]
    /\ gained' = IF j = "login" THEN gained \cup {ProviderOf[m] : m \in job[j].result} ELSE gained
    /\ UNCHANGED <<rules, config, disk, curated, left, latest, raced, hid>>

-----------------------------------------------------------------------------
(* The person at the list. The picker leaves out what the store hides.      *)

Curates(store) ==
    /\ Spends("curations")
    /\ session' = [session EXCEPT !.store = store] /\ curated' = store /\ hid' = hid \cup store.hidden
    /\ UNCHANGED <<rules, config, disk, job, latest, raced, gained>>
\* Mutant: a model that was kept stays kept when it is hidden.
MutHide(s, m) == [s EXCEPT !.hidden = @ \cup {m}]

Hide(s, m) == [hidden |-> s.hidden \cup {m}, kept |-> s.kept \ {m}]
Keep(s, m) == [hidden |-> s.hidden \ {m}, kept |-> s.kept \cup {m}]

(* ctrl+x, /model hide, /model keep and /models reset.                      *)
HideOrUnhideCurrent(m) ==
    /\ session.on /\ m \in session.list
    /\ Curates(IF m \in session.store.hidden
               THEN [session.store EXCEPT !.hidden = @ \ {m}] ELSE Hide(session.store, m))
RunModelHide(text, keeps) ==
    LET m == Resolve(text, session.list)
    IN  /\ session.on /\ left.curations > 0 /\ m # None
        /\ Curates(IF keeps THEN Keep(session.store, m) ELSE Hide(session.store, m))
RunModelsReset ==
    /\ session.on /\ session.store.hidden # {}
    /\ Curates([session.store EXCEPT !.hidden = {}])

(* /model: what the text stands for, or a hidden model by its reference, or *)
(* nothing: the picker opens.                                               *)
RunModelCommand(text) ==
    LET m == Resolve(text, session.list)
    IN  IF m # None THEN m ELSE IF text \in session.hidden THEN text ELSE None

CatalogNext ==
    \/ \E old \in BOOLEAN : Boot(old)
    \/ Quit \/ RefreshModels \/ Clean \/ RunModelsReset
    \/ \E p \in Providers : Login(p)
    \/ \E j \in Jobs : Discover(j) \/ Save(j) \/ Apply(j)
    \/ \E m \in Models : HideOrUnhideCurrent(m)
    \/ \E text \in Models \cup Queries, keeps \in BOOLEAN : RunModelHide(text, keeps)

CatalogSpec == CatalogInit /\ [][CatalogNext]_catalogVars

-----------------------------------------------------------------------------
(* Types; nothing is both hidden and kept.                                  *)
CatalogTypeOK ==
    /\ disk.lists \in Lists /\ disk.exists \in BOOLEAN /\ disk.index \in BOOLEAN
    /\ {config, session.config} \subseteq [enabled : SUBSET Providers, authed : SUBSET Providers]
    /\ session.list \subseteq Models
    /\ \A j \in Jobs : job[j].lists \in Lists /\ job[j].result \subseteq Models
    /\ {curated, session.store} \subseteq [hidden : SUBSET Models, kept : SUBSET Models]
    /\ curated.hidden \cap curated.kept = {}

(* Unless two refreshes overlapped, the cache holds what each provider last *)
(* listed: one that cannot be reached, loses its credential or is disabled  *)
(* keeps its models, over any number of refreshes and programs.             *)
ListingsSurvive == disk.exists /\ ~raced => \A p \in Providers : disk.lists[p].models = latest[p]

(* What the configuration declares of a provider that was enabled from the  *)
(* start stays on the list through every refresh, whatever the provider     *)
(* lists or the rules hide, until the person hides it.                      *)
DeclaredShown ==
    session.on =>
        \A m \in rules.declared \ hid : ProviderOf[m] \in rules.config.enabled => m \in session.list

(* Were a session to start now, it would start on a provider that can be    *)
(* asked, and without a model only if no such provider has one to offer.    *)
(* Nothing keeps an alias from having the name of a model: the reference    *)
(* that is put together for the fallback (modelref.go:519) then stands for  *)
(* another one (modelref.go:126), and the session starts on what that alias *)
(* says, without asking for its credential, or does not count the provider. *)
BootServes ==
    LET list == Load(config.enabled, Cache, disk.index, curated).list
        target == BootModel(None, config, list, disk.index)
        aliased == {p \in Usable(config) : Serves(p, list, disk.index) \in DOMAIN rules.alias}
    IN  IF target # NoTarget
        THEN \/ target.provider \in Usable(config)
             \/ \E p \in aliased : target = ResolveModel(Serves(p, list, disk.index), config)
        ELSE \A m \in list :
                ProviderOf[m] \in Usable(config) \ aliased => "deprecated" \in Raw[m] \cup Dev[m]

(* /model never guesses: a listed reference is taken as it is, an alias of  *)
(* one too, a text that several references end with is left to the person,  *)
(* and nothing is taken that is neither listed nor hidden. A reference that *)
(* is hidden and the name of an alias is that alias, and the switch looks   *)
(* what was taken up once more (modelref.go:126): there the alias comes     *)
(* first, listed or not.                                                    *)
ResolvesSoundly ==
    session.on =>
        \A text \in Models \cup Queries :
            LET list == session.list
                taken == RunModelCommand(text)
                ends == {m \in list : Fit[text][m].suffix}
            IN  /\ text \in list => taken = text
                /\ (text \notin list /\ Alias(text) \in list) => taken = Alias(text)
                /\ (text \in Queries \ DOMAIN rules.alias /\ Cardinality(ends) > 1) => taken = None
                /\ taken \in list \cup session.hidden \cup {None}

(* What is listed, and what a text stands for, over any order of refreshes  *)
(* and logins.                                                              *)
ListServes == ListingsSurvive /\ DeclaredShown /\ ResolvesSoundly

(* What a default or a query comes to, up to an alias named as a model (see *)
(* BootServes). How a query matches depends on no state, and is asked       *)
(* before the first step.                                                   *)
ChoiceHolds ==
    /\ BootServes
    /\ left \in Bounds => \A s \in Samples : MatchedAsPlaced(s.query, s.target, s.starts)

(* A provider a login put on the list stays there while the session lasts.  *)
LoginListed ==
    session.on => \A p \in gained : (\E m \in session.list : ProviderOf[m] = p)
=============================================================================
