------------------------------- MODULE Config -------------------------------
(* config.toml and credentials.toml (config/), the programs that edit them  *)
(* (`provider`, `model`, `config init`, `purge`, the interface's settings)  *)
(* and the device login of oauth/device.go, from a terminal or from the     *)
(* interface's wizard (tui/login.go). Every edit reads a whole file, changes*)
(* one entry of it and puts the whole file back in one rename.              *)
EXTENDS Integers, Sequences

CONSTANTS
    Ids, Embedded,      \* provider ids; the ones defaults.toml declares, disabled
    EnvKeys,            \* the embedded ones whose environment variable is set
    Keys,               \* the other entries: models of each role, aliases, theme...
    Default,            \* app.default_model, a provider's id standing for its model
    Programs, Attempts, \* programs started by hand, and device logins
    Doors,              \* of each login: "wizard" or "terminal"
    FirstFiles,         \* the config.toml a person wrote
    Commands, Logins,   \* what the programs are asked to do
    Expiries, Intervals, PollTimeout,   \* of a device code, in polling units
    Bounds              \* how many commands, logins, kills and resets

None == "none"
Absent == [base |-> "unset", enabled |-> "absent"]
Blocks == [base : {"unset", "preset", "own"}, enabled : {"unset", "yes", "no"}] \cup {Absent}
Files == [providers : [Ids -> Blocks], keys : [Keys -> Ids \cup {None, "v1", "v2"}]]
Empty == [providers |-> [i \in Ids |-> Absent], keys |-> [k \in Keys |-> None]]
NoKeys == [i \in Ids |-> None]
Writers == Programs \cup Attempts

ASSUME ConfigAssumption ==
    /\ EnvKeys \subseteq Embedded /\ Embedded \subseteq Ids /\ Default \in Keys
    /\ FirstFiles \subseteq Files /\ Programs \cap Attempts = {} /\ Attempts \cap {None, "typed"} = {}
    /\ Doors \in [Attempts -> {"wizard", "terminal"}]
    /\ Expiries \cup Intervals \subseteq Nat /\ PollTimeout \in Nat

VARIABLES
    conf, cred,     \* config.toml; the key of each id in credentials.toml
    job,            \* each writer's edits to do, and the file it has read
    att,            \* each login
    wizard,         \* the login the interface shows, and the context it can cancel
    inbox,          \* what a login has sent to the interface
    left,           \* of the bounds
    wrote, given,   \* what the last edit of each entry wrote (history)
    half,           \* ids connected whose key was not stored (history)
    bare,           \* ids left without a connection on purpose (history)
    raced,          \* an edit replaced a file that changed after it was read (history)
    overlapped      \* two programs had edits to do at once (history)

vars == <<conf, cred, job, att, wizard, inbox, left, wrote, given, half, bare, raced, overlapped>>
history == <<wrote, given, half, bare, raced, overlapped>>

-----------------------------------------------------------------------------
(* Load: defaults, then config.toml, then credentials.toml, provider by     *)
(* provider; one without a base_url is an error for the whole program.      *)
Declared(c, k, i) == i \in Embedded \/ c.providers[i] # Absent \/ k[i] # None
Based(c, i) == i \in Embedded \/ c.providers[i].base # "unset"
Loads(c, k) == \A i \in Ids : Declared(c, k, i) => Based(c, i)
Enabled(c, i) ==
    \/ c.providers[i].enabled = "yes"
    \/ c.providers[i].enabled \in {"unset", "absent"} /\ i \notin Embedded
AuthOK(k, i) == k[i] # None \/ i \notin Embedded \/ i \in EnvKeys
NeedsDefaultModel(c, k) ==
    LET d == c.keys[Default]
    IN  ~(d \in Ids /\ Declared(c, k, d) /\ Enabled(c, d) /\ AuthOK(k, d))

(* The edits of a command.                                                  *)
Connect(i, force) == [op |-> "connect", id |-> i, force |-> force]
Store(i, key) == [op |-> "store", id |-> i, key |-> key]
Offer(i) == [op |-> "offer", id |-> i]
Disable(i) == [op |-> "disable", id |-> i]
Forget(i) == [op |-> "forget", id |-> i]
Set(k, v) == [op |-> "set", key |-> k, value |-> v]

Add(i, force, verify) ==
    IF verify THEN <<Connect(i, force), Store(i, "typed"), Offer(i)>>
    ELSE <<Connect(i, force), Store(i, "typed")>>
Remove(i) == <<Disable(i), Forget(i)>>
SetModels(roles, v) == [n \in DOMAIN roles |-> Set(roles[n], v)]
Edits(cmd) ==
    CASE cmd.do = "add" -> Add(cmd.id, cmd.force, cmd.verify)
      [] cmd.do = "remove" -> Remove(cmd.id)
      [] cmd.do = "set" -> SetModels(cmd.roles, cmd.value)

(* What a person writes loads, or no program edits it, and has none of the  *)
(* blocks an add writes; and what the programs are asked is well formed.    *)
ASSUME FirstAssumption ==
    \A c \in FirstFiles : Loads(c, NoKeys) /\ \A i \in Ids : c.providers[i].base # "preset"
ASSUME CommandAssumption ==
    /\ Commands \subseteq [do : {"add"}, id : Ids, force : BOOLEAN, verify : BOOLEAN] \cup [do : {"remove"}, id : Ids]
                       \cup [do : {"set"}, roles : Seq(Keys), value : Ids \cup {None, "v1", "v2"}]
    /\ Logins \subseteq [id : Ids, force : BOOLEAN, verify : BOOLEAN]

-----------------------------------------------------------------------------
NoJob == [todo |-> <<>>, held |-> FALSE, conf |-> Empty, cred |-> NoKeys]
NoAttempt == [at |-> "off", id |-> None, verify |-> TRUE, force |-> FALSE, cancelled |-> FALSE,
              elapsed |-> 0, odd |-> FALSE, interval |-> 0, expiry |-> 0, granted |-> FALSE, checked |-> FALSE]
Closed == [shows |-> None, holds |-> None]

Init ==
    /\ conf \in FirstFiles /\ cred = NoKeys
    /\ job = [w \in Writers |-> NoJob] /\ att = [a \in Attempts |-> NoAttempt]
    /\ wizard = Closed /\ inbox = {} /\ left \in Bounds
    /\ wrote = conf.keys /\ given = NoKeys /\ half = {} /\ bare = {} /\ raced = FALSE /\ overlapped = FALSE

Overlaps(w) == overlapped' = (overlapped \/ \E o \in Writers \ {w} : job[o].todo # <<>>)
Spends(kind) == left[kind] > 0 /\ left' = [left EXCEPT ![kind] = @ - 1]
Edit(w) == Head(job[w].todo)
Done(w) == job' = [job EXCEPT ![w] = [NoJob EXCEPT !.todo = Tail(job[w].todo)]]

Start(p, cmd) ==
    /\ job[p].todo = <<>> /\ Spends("commands")
    /\ job' = [job EXCEPT ![p].todo = Edits(cmd)]
    /\ UNCHANGED <<conf, cred, att, wizard, inbox, history>>

(* readRawConfigTOML, or the head of SaveCredential and RemoveCredential.   *)
Read(w) ==
    /\ job[w].todo # <<>> /\ ~job[w].held
    /\ job' = [job EXCEPT ![w].held = TRUE,
                           ![w].conf = IF Edit(w).op \in {"store", "forget"} THEN @ ELSE conf,
                           ![w].cred = IF Edit(w).op \in {"store", "forget", "offer"} THEN cred ELSE @]
    /\ UNCHANGED <<conf, cred, att, wizard, inbox, left, history>>

(* writeRawConfigTOML: the file read, with one entry changed.               *)
WriteConf(w, new) ==
    /\ conf' = new /\ raced' = (raced \/ conf # job[w].conf) /\ Overlaps(w)
    /\ Done(w) /\ UNCHANGED <<cred, att, wizard, inbox, left, given>>
Held(w, op) == job[w].todo # <<>> /\ job[w].held /\ Edit(w).op = op
Pass(w) == Done(w) /\ UNCHANGED <<conf, cred, att, wizard, inbox, left, history>>

(* SaveProviderConnection: a base_url of the person's own is left alone, and*)
(* with it the whole entry.                                                 *)
SaveProviderConnection(w) ==
    LET i == Edit(w).id
    IN  /\ Held(w, "connect")
        /\ \/ /\ job[w].conf.providers[i].base = "own" /\ ~Edit(w).force
              /\ Pass(w)
           \/ /\ job[w].conf.providers[i].base # "own" \/ Edit(w).force
              /\ WriteConf(w, [job[w].conf EXCEPT !.providers[i] = [base |-> "preset", enabled |-> "yes"]])
              /\ half' = half \cup {i} /\ bare' = bare \ {i} /\ UNCHANGED wrote

DisableProviderConnection(w) ==
    LET i == Edit(w).id
    IN  /\ Held(w, "disable")
        /\ WriteConf(w, [job[w].conf EXCEPT !.providers[i].enabled = "no"])
        /\ bare' = IF Based(job[w].conf, i) THEN bare ELSE bare \cup {i}
        /\ half' = half \ {i} /\ UNCHANGED wrote

SetEntry(w) ==
    LET e == Edit(w)
    IN  /\ Held(w, "set")
        /\ WriteConf(w, [job[w].conf EXCEPT !.keys[e.key] = e.value])
        /\ wrote' = [wrote EXCEPT ![e.key] = e.value]
        /\ UNCHANGED <<half, bare>>

(* offerDefaultModel: the person is asked only if the default cannot serve. *)
OfferDefaultModel(w) ==
    LET loaded == job[w].conf
        offered == Loads(loaded, job[w].cred) /\ NeedsDefaultModel(loaded, job[w].cred)
    IN  /\ Held(w, "offer")
        /\ \/ Pass(w)
           \/ /\ offered
              /\ job' = [job EXCEPT ![w] = [NoJob EXCEPT !.todo = <<Set(Default, Edit(w).id)>>]]
              /\ UNCHANGED <<conf, cred, att, wizard, inbox, left, history>>

\* Mutant: the credentials file is written anew, not added to.
MutKeysWith(k, i, key) == [NoKeys EXCEPT ![i] = key]
KeysWith(k, i, key) == [k EXCEPT ![i] = key]
SaveCredential(w) ==
    LET e == Edit(w)
    IN  /\ Held(w, "store")
        /\ cred' = KeysWith(job[w].cred, e.id, e.key) /\ raced' = (raced \/ cred # job[w].cred)
        /\ Overlaps(w) /\ given' = [given EXCEPT ![e.id] = e.key] /\ half' = half \ {e.id}
        /\ Done(w) /\ UNCHANGED <<conf, att, wizard, inbox, left, wrote, bare>>

(* RemoveCredential's second half: nothing to do is nothing written.        *)
ForgetCredential(w) ==
    LET i == Edit(w).id
        writes == job[w].cred[i] # None
    IN  /\ Held(w, "forget")
        /\ cred' = IF writes THEN KeysWith(job[w].cred, i, None) ELSE cred
        /\ raced' = (raced \/ (writes /\ cred # job[w].cred))
        /\ Overlaps(w) /\ given' = IF writes THEN [given EXCEPT ![i] = None] ELSE given
        /\ Done(w) /\ UNCHANGED <<conf, att, wizard, inbox, left, wrote, half, bare>>

(* config init --force puts the skeleton in place of the file, and purge    *)
(* removes both.                                                            *)
Reset(all) ==
    /\ Spends("resets")
    /\ conf' = Empty /\ wrote' = Empty.keys /\ half' = {}
    /\ cred' = IF all THEN NoKeys ELSE cred
    /\ given' = IF all THEN NoKeys ELSE given
    /\ bare' = IF all THEN {} ELSE {i \in Ids : cred[i] # None /\ i \notin Embedded}
    /\ raced' = (raced \/ \E w \in Writers : job[w].todo # <<>>)
    /\ overlapped' = (overlapped \/ raced')
    /\ UNCHANGED <<job, att, wizard, inbox>>

(* A program killed between two edits, or with a file read; with the        *)
(* interface its wizard goes too.                                           *)
Kill(w) ==
    LET wizards == IF w \in Attempts /\ Doors[w] = "wizard" THEN {a \in Attempts : Doors[a] = "wizard"} ELSE {w} \cap Attempts
    IN  /\ job[w].todo # <<>> /\ Spends("kills")
        /\ job' = [v \in Writers |-> IF v \in wizards \cup {w} THEN NoJob ELSE job[v]]
        /\ att' = [a \in Attempts |-> IF a \in wizards /\ att[a].at # "off" THEN [att[a] EXCEPT !.at = "failed"] ELSE att[a]]
        /\ wizard' = IF wizard.shows \in wizards THEN Closed ELSE wizard
        /\ inbox' = {m \in inbox : m.of \notin wizards}
        /\ UNCHANGED <<conf, cred, history>>

-----------------------------------------------------------------------------
(* The device login. The wizard holds one context: that of the last request *)
(* or wait it began.                                                        *)
Send(a, kind, ok) == inbox' = IF Doors[a] = "wizard" THEN inbox \cup {[kind |-> kind, of |-> a, ok |-> ok]} ELSE inbox
Goto(a, at) == att' = [att EXCEPT ![a].at = at]

StartLogin(a, login) ==
    /\ att[a].at = "off" /\ Spends("logins")
    /\ Doors[a] = "wizard" => (wizard = Closed /\ ~login.force /\ login.verify)
    /\ att' = [att EXCEPT ![a].at = "asking", ![a].id = login.id, ![a].force = login.force, ![a].verify = login.verify]
    /\ wizard' = IF Doors[a] = "wizard" THEN [shows |-> a, holds |-> a] ELSE wizard
    /\ UNCHANGED <<conf, cred, job, inbox, history>>

\* Mutant: a service that gives no interval is asked at once, again and again.
MutEffectiveInterval(interval) == interval
EffectiveInterval(interval) == IF interval = 0 THEN 1 ELSE interval

(* RequestDeviceCode. It has no timeout, so it may also never return.       *)
RequestDeviceCode(a) ==
    /\ att[a].at = "asking"
    /\ \/ /\ ~att[a].cancelled
          /\ \E interval \in Intervals, expiry \in Expiries :
                att' = [att EXCEPT ![a].at = IF Doors[a] = "wizard" THEN "coded" ELSE "polling",
                                   ![a].interval = EffectiveInterval(interval), ![a].expiry = expiry]
          /\ Send(a, "code", TRUE)
       \/ Goto(a, "failed") /\ Send(a, "code", FALSE)
    /\ UNCHANGED <<conf, cred, job, wizard, left, history>>

\* Mutant: only the code's own expiry is looked at.
MutLate(a, now) == now > att[a].expiry
Late(a, now) == now > att[a].expiry \/ now > PollTimeout

(* One turn of pollLoop: wait, look at the deadlines, ask once. A request   *)
(* takes no time here: only waiting does.                                   *)
Poll(a) ==
    LET now == att[a].elapsed + att[a].interval
        late == Late(a, now)
        Again(more) == att' = [att EXCEPT ![a].elapsed = now, ![a].odd = ~@, ![a].interval = @ + more] /\ UNCHANGED inbox
    IN  /\ att[a].at = "polling"
        /\ \/ ~att[a].cancelled /\ ~late /\ \E more \in {0, 1} : Again(more)
           \/ Goto(a, "failed") /\ Send(a, "done", FALSE)
           \/ /\ ~att[a].cancelled /\ ~late
              /\ att' = [att EXCEPT ![a].at = "granted", ![a].granted = TRUE] /\ UNCHANGED inbox
        /\ UNCHANGED <<conf, cred, job, wizard, left, history>>

MayStore(a, ok) == ok \/ ~att[a].verify

(* Wait, after the token: the probe and the two edits no longer look at the *)
(* context the wizard cancels.                                              *)
VerifyLogin(a, ok) ==
    /\ att[a].at = "granted"
    /\ \/ /\ MayStore(a, ok)
          /\ att' = [att EXCEPT ![a].at = "saving", ![a].checked = ok]
          /\ job' = [job EXCEPT ![a].todo = <<Connect(att[a].id, att[a].force), Store(att[a].id, a)>>]
          /\ UNCHANGED inbox
       \/ ~MayStore(a, ok) /\ Goto(a, "failed") /\ Send(a, "done", FALSE) /\ UNCHANGED job
    /\ UNCHANGED <<conf, cred, wizard, left, history>>
LoginSaved(a) ==
    /\ att[a].at = "saving" /\ job[a].todo = <<>>
    /\ Goto(a, "saved") /\ Send(a, "done", TRUE)
    /\ UNCHANGED <<conf, cred, job, wizard, left, history>>

(* cancelLoginWith, by esc or by an answer: what the wizard holds is        *)
(* cancelled, whichever login it belongs to.                                *)
CancelLoginWith(attempts) ==
    /\ wizard' = Closed
    /\ att' = IF wizard.holds = None THEN attempts ELSE [attempts EXCEPT ![wizard.holds].cancelled = TRUE]
CancelLogin ==
    /\ wizard # Closed /\ CancelLoginWith(att)
    /\ UNCHANGED <<conf, cred, job, inbox, left, history>>
Interrupt(a) ==
    /\ Doors[a] = "terminal" /\ att[a].at \in {"asking", "polling"} /\ ~att[a].cancelled
    /\ att' = [att EXCEPT ![a].cancelled = TRUE]
    /\ UNCHANGED <<conf, cred, job, wizard, inbox, left, history>>

(* An answer is taken by whatever wizard is open: it carries no name.       *)
FinishLoginCode(m) ==
    /\ m \in inbox /\ m.kind = "code" /\ inbox' = inbox \ {m}
    /\ \/ wizard = Closed /\ UNCHANGED <<wizard, att>>
       \/ wizard # Closed /\ ~m.ok /\ CancelLoginWith(att)
       \/ /\ wizard # Closed /\ m.ok
          /\ att' = [att EXCEPT ![m.of].at = "polling", ![m.of].cancelled = FALSE]
          /\ wizard' = [wizard EXCEPT !.holds = m.of]
    /\ UNCHANGED <<conf, cred, job, left, history>>
FinishLogin(m) ==
    /\ m \in inbox /\ m.kind = "done" /\ inbox' = inbox \ {m}
    /\ \/ wizard = Closed /\ UNCHANGED <<wizard, att>>
       \/ wizard # Closed /\ CancelLoginWith(att)
    /\ UNCHANGED <<conf, cred, job, left, history>>

EditOf(w) ==
    \/ Read(w) \/ SaveProviderConnection(w) \/ DisableProviderConnection(w) \/ SetEntry(w)
    \/ OfferDefaultModel(w) \/ SaveCredential(w) \/ ForgetCredential(w)
Next ==
    \/ \E p \in Programs, cmd \in Commands : Start(p, cmd)
    \/ \E w \in Writers : EditOf(w) \/ Kill(w)
    \/ \E all \in BOOLEAN : Reset(all)
    \/ \E a \in Attempts :
        \/ \E login \in Logins : StartLogin(a, login)
        \/ RequestDeviceCode(a) \/ Poll(a) \/ LoginSaved(a) \/ Interrupt(a)
        \/ \E ok \in BOOLEAN : VerifyLogin(a, ok)
    \/ CancelLogin
    \/ \E m \in inbox : FinishLoginCode(m) \/ FinishLogin(m)

Spec == Init /\ [][Next]_vars
(* Every poll returns: its request carries the deadline of PollTimeout.     *)
FairSpec == Spec /\ \A a \in Attempts : WF_vars(Poll(a))

-----------------------------------------------------------------------------
(* Types.                                                                   *)
TypeOK ==
    /\ conf \in Files /\ cred \in [Ids -> Attempts \cup {None, "typed"}]
    /\ \A w \in Writers : job[w].conf \in Files
    /\ wizard.shows \in Attempts \cup {None} /\ (wizard.shows = None => wizard.holds = None)
    /\ \A a \in Attempts : att[a].elapsed <= PollTimeout /\ (att[a].at # "off" => att[a].id \in Ids)

(* Unless two programs' edits overlapped, each edit changed its own entry   *)
(* and nothing else, over any number of commands, logins and kills: every   *)
(* setting and key is what was last written for it.                         *)
NothingLost == ~raced => conf.keys = wrote /\ cred = given

(* While no two programs edit at once, a provider that config.toml enables  *)
(* has a key unless an add was cut between its two edits: one whose key is  *)
(* removed is disabled first.                                               *)
KeyBacked ==
    ~overlapped => \A i \in Ids : conf.providers[i] = [base |-> "preset", enabled |-> "yes"] /\ cred[i] = None => i \in half
(* A token in the file was granted, and verified unless the person said not *)
(* to.                                                                      *)
SavedWasVerified ==
    \A i \in Ids : cred[i] \in Attempts =>
        LET a == att[cred[i]] IN a.granted /\ a.id = i /\ (a.verify => a.checked)
KeysAccounted == KeyBacked /\ SavedWasVerified

(* Whatever was cut or killed, the next program finds a configuration that  *)
(* loads, unless a provider was left without its connection on purpose.     *)
StillLoads == ~overlapped => Loads(conf, cred) \/ \E i \in bare : ~Based(conf, i)

(* The three together: nothing set is lost, nothing half removed or half    *)
(* added passes for whole, and the next program starts.                     *)
EditsHold == NothingLost /\ KeysAccounted /\ StillLoads

(* A login that polls stops polling, however often the service says to wait *)
(* or to slow down.                                                         *)
PollingEnds == \A a \in Attempts : att[a].at = "polling" ~> att[a].at # "polling"

(* An answer of a login the person cancelled changes no wizard but its own. *)
StaleIgnored ==
    [][\A m \in inbox : m \notin inbox' /\ wizard # wizard' => wizard.shows = m.of]_vars

(* An add that ends has enabled its provider.                               *)
AddEnables ==
    [][\A p \in Programs : job[p].held /\ job[p].todo # <<>> /\ Edit(p).op = "store" /\ cred' # cred
         => Enabled(conf, Edit(p).id)]_vars
=============================================================================
