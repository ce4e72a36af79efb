---------------------------- MODULE ConfigProofs ----------------------------
(* What the edits of config.toml and credentials.toml keep, for any programs, *)
(* logins, commands, kills and resets, and any first file that loads.         *)
EXTENDS Config, TLAPS

-----------------------------------------------------------------------------
(* The states the program can be in.                                       *)

Stored == Attempts \cup {None, "typed"}
CredFiles == [Ids -> Stored]
Values == Ids \cup {None, "v1", "v2"}

EditSet ==
    {Connect(i, f) : i \in Ids, f \in BOOLEAN} \cup {Store(i, k) : i \in Ids, k \in Attempts \cup {"typed"}}
    \cup {Offer(i) : i \in Ids} \cup {Disable(i) : i \in Ids} \cup {Forget(i) : i \in Ids}
    \cup {Set(k, v) : k \in Keys, v \in Values}

\* A key is stored right after its connection is saved, and forgotten right
\* after it is disabled.
Chained(s) ==
    \A n \in 1..(Len(s) - 1) :
        /\ s[n + 1].op = "store" => s[n].op = "connect" /\ s[n].id = s[n + 1].id
        /\ s[n + 1].op = "forget" => s[n].op = "disable" /\ s[n].id = s[n + 1].id

Begins(s) == s = <<>> \/ (Head(s).op # "store" /\ Head(s).op # "forget")

Jobs == [todo : Seq(EditSet), held : BOOLEAN, conf : Files, cred : CredFiles]

Logs == [at : {"off", "asking", "coded", "polling", "granted", "saving", "saved", "failed"},
         id : Ids \cup {None}, verify : BOOLEAN, force : BOOLEAN, cancelled : BOOLEAN,
         elapsed : Nat, odd : BOOLEAN, interval : Nat, expiry : Nat, granted : BOOLEAN, checked : BOOLEAN]

Answers == [kind : {"code", "done"}, of : Attempts, ok : BOOLEAN]

FileTypes ==
    /\ conf \in Files /\ cred \in CredFiles
    /\ job \in [Writers -> Jobs]
    /\ wrote \in [Keys -> Values] /\ given \in CredFiles
    /\ raced \in BOOLEAN /\ overlapped \in BOOLEAN
    /\ \A w \in Writers : Chained(job[w].todo) /\ (job[w].todo = <<>> => job[w].held = FALSE)

LoginTypes ==
    /\ att \in [Attempts -> Logs]
    /\ wizard \in [shows : Attempts \cup {None}, holds : Attempts \cup {None}]
    /\ wizard.shows = None => wizard.holds = None
    /\ inbox \subseteq Answers
    /\ \A a \in Attempts : att[a].elapsed <= PollTimeout /\ (att[a].at # "off" => att[a].id \in Ids)

-----------------------------------------------------------------------------
(* Edits, one by one.                                                      *)

LEMMA EditFacts ==
    ASSUME NEW i \in Ids, NEW f \in BOOLEAN, NEW k \in Attempts \cup {"typed"}, NEW e \in Keys, NEW v \in Values
    PROVE  /\ Connect(i, f) \in EditSet /\ Connect(i, f).op = "connect" /\ Connect(i, f).id = i
           /\ Store(i, k) \in EditSet /\ Store(i, k).op = "store" /\ Store(i, k).id = i
           /\ Offer(i) \in EditSet /\ Offer(i).op = "offer"
           /\ Disable(i) \in EditSet /\ Disable(i).op = "disable" /\ Disable(i).id = i
           /\ Forget(i) \in EditSet /\ Forget(i).op = "forget" /\ Forget(i).id = i
           /\ Set(e, v) \in EditSet /\ Set(e, v).op = "set"
<1>1. /\ Connect(i, f) \in EditSet /\ Store(i, k) \in EditSet /\ Offer(i) \in EditSet
      /\ Disable(i) \in EditSet /\ Forget(i) \in EditSet /\ Set(e, v) \in EditSet
  BY DEF EditSet
<1>2. /\ Connect(i, f).op = "connect" /\ Connect(i, f).id = i
      /\ Store(i, k).op = "store" /\ Store(i, k).id = i /\ Offer(i).op = "offer"
      /\ Disable(i).op = "disable" /\ Disable(i).id = i
      /\ Forget(i).op = "forget" /\ Forget(i).id = i /\ Set(e, v).op = "set"
  BY DEF Connect, Store, Offer, Disable, Forget, Set
<1> QED
  BY <1>1, <1>2

LEMMA EditKinds ==
    ASSUME NEW x \in EditSet
    PROVE  /\ x.op = "connect" \/ x.op = "disable" \/ x.op = "forget" \/ x.op = "offer" => x.id \in Ids
           /\ x.op = "store" => x.id \in Ids /\ x.key \in Attempts \cup {"typed"}
           /\ x.op = "set" => x.key \in Keys /\ x.value \in Values
  BY DEF EditSet, Connect, Store, Offer, Disable, Forget, Set

LEMMA TailFacts ==
    ASSUME NEW S, NEW s \in Seq(S), s # <<>>
    PROVE  /\ Tail(s) \in Seq(S) /\ Len(Tail(s)) = Len(s) - 1 /\ Len(s) \in Nat /\ Len(s) >= 1
           /\ Head(s) = s[1] /\ Head(s) \in S
           /\ \A n \in 1..(Len(s) - 1) : Tail(s)[n] = s[n + 1]
  BY SMTT(30)

LEMMA TailChained ==
    ASSUME NEW s \in Seq(EditSet), s # <<>>, Chained(s)
    PROVE  /\ Chained(Tail(s))
           /\ Tail(s) # <<>> =>
                 /\ Head(Tail(s)).op = "store" => Head(s).op = "connect" /\ Head(s).id = Head(Tail(s)).id
                 /\ Head(Tail(s)).op = "forget" => Head(s).op = "disable" /\ Head(s).id = Head(Tail(s)).id
<1>1. /\ Tail(s) \in Seq(EditSet) /\ Len(Tail(s)) = Len(s) - 1 /\ Len(s) \in Nat /\ Len(s) >= 1
      /\ Head(s) = s[1]
      /\ \A n \in 1..(Len(s) - 1) : Tail(s)[n] = s[n + 1]
  BY TailFacts
<1> DEFINE t == Tail(s)
<1> HIDE DEF t
<1>2. Chained(t)
  <2> SUFFICES ASSUME NEW n \in 1..(Len(t) - 1)
               PROVE  /\ t[n + 1].op = "store" => t[n].op = "connect" /\ t[n].id = t[n + 1].id
                      /\ t[n + 1].op = "forget" => t[n].op = "disable" /\ t[n].id = t[n + 1].id
    BY DEF Chained
  <2>1. n \in 1..(Len(s) - 1) /\ n + 1 \in 1..(Len(s) - 1) /\ (n + 1) + 1 = n + 2
    BY <1>1 DEF t
  <2>2. t[n] = s[n + 1] /\ t[n + 1] = s[(n + 1) + 1]
    BY <1>1, <2>1 DEF t
  <2> QED
    BY <2>1, <2>2 DEF Chained
<1>3. ASSUME t # <<>>
      PROVE  /\ Head(t).op = "store" => Head(s).op = "connect" /\ Head(s).id = Head(t).id
             /\ Head(t).op = "forget" => Head(s).op = "disable" /\ Head(s).id = Head(t).id
  <2>1. Head(t) = t[1] /\ Len(t) >= 1 /\ Len(t) \in Nat
    BY <1>1, <1>3, TailFacts DEF t
  <2>2. 1 \in 1..(Len(s) - 1) /\ 1 + 1 = 2
    BY <1>1, <2>1 DEF t
  <2>3. t[1] = s[1 + 1]
    BY <1>1, <2>2 DEF t
  <2> QED
    BY <1>1, <2>1, <2>2, <2>3 DEF Chained
<1> QED
  BY <1>2, <1>3 DEF t

(* What a command asks: well formed, in order, and no half of a pair first.   *)
LEMMA PairFacts ==
    ASSUME NEW x \in EditSet, NEW y \in EditSet, x.op # "store", x.op # "forget",
           y.op = "store" => x.op = "connect" /\ x.id = y.id,
           y.op = "forget" => x.op = "disable" /\ x.id = y.id
    PROVE  <<x, y>> \in Seq(EditSet) /\ Chained(<<x, y>>) /\ Begins(<<x, y>>) /\ <<x, y>> # <<>>
<1>1. <<x, y>> \in Seq(EditSet) /\ Len(<<x, y>>) = 2 /\ <<x, y>>[1] = x /\ <<x, y>>[2] = y
      /\ Head(<<x, y>>) = x /\ <<x, y>> # <<>>
  OBVIOUS
<1>2. \A n \in 1..(2 - 1) : n = 1 /\ n + 1 = 2
  OBVIOUS
<1> QED
  BY <1>1, <1>2 DEF Chained, Begins

LEMMA TripleFacts ==
    ASSUME NEW x \in EditSet, NEW y \in EditSet, NEW z \in EditSet,
           x.op = "connect", y.op = "store", z.op = "offer", x.id = y.id
    PROVE  /\ <<x, y, z>> \in Seq(EditSet) /\ Chained(<<x, y, z>>)
           /\ Begins(<<x, y, z>>) /\ <<x, y, z>> # <<>>
<1> DEFINE s == <<x, y, z>>
<1>1. s \in Seq(EditSet) /\ Len(s) = 3 /\ s[1] = x /\ s[2] = y /\ s[3] = z /\ Head(s) = x /\ s # <<>>
  OBVIOUS
<1>2. \A n \in 1..(3 - 1) : (n = 1 /\ n + 1 = 2) \/ (n = 2 /\ n + 1 = 3)
  OBVIOUS
<1> HIDE DEF s
<1>3. Chained(s) /\ Begins(s)
  BY <1>1, <1>2 DEF Chained, Begins
<1> QED
  BY <1>1, <1>3 DEF s

LEMMA SetsFacts ==
    ASSUME NEW roles \in Seq(Keys), NEW v \in Values
    PROVE  /\ SetModels(roles, v) \in Seq(EditSet) /\ Chained(SetModels(roles, v))
           /\ Begins(SetModels(roles, v))
<1> DEFINE s == SetModels(roles, v)
<1>1. DOMAIN roles = 1..Len(roles) /\ Len(roles) \in Nat /\ \A n \in 1..Len(roles) : roles[n] \in Keys
  OBVIOUS
<1>2. \A n \in 1..Len(roles) : s[n] = Set(roles[n], v) /\ s[n] \in EditSet /\ s[n].op = "set"
  <2> SUFFICES ASSUME NEW n \in 1..Len(roles)
               PROVE  s[n] = Set(roles[n], v) /\ s[n] \in EditSet /\ s[n].op = "set"
    OBVIOUS
  <2>1. roles[n] \in Keys
    BY <1>1
  <2>2. s[n] = Set(roles[n], v)
    BY <1>1 DEF SetModels
  <2>3. Set(roles[n], v) \in EditSet
    BY <2>1 DEF EditSet
  <2>4. Set(roles[n], v).op = "set"
    BY DEF Set
  <2> QED
    BY <2>2, <2>3, <2>4
<1>3. s \in [1..Len(roles) -> EditSet]
  <2>1. s = [n \in 1..Len(roles) |-> Set(roles[n], v)]
    BY <1>1 DEF SetModels
  <2>2. \A n \in 1..Len(roles) : Set(roles[n], v) \in EditSet
    BY <1>2
  <2> HIDE DEF s
  <2> QED
    BY <2>1, <2>2
<1> HIDE DEF s
<1>4. s \in Seq(EditSet) /\ Len(s) = Len(roles)
  BY <1>1, <1>3
<1>5. Chained(s)
  <2>1. \A n \in 1..(Len(s) - 1) : n + 1 \in 1..Len(roles)
    BY <1>1, <1>4
  <2> QED
    BY <1>2, <2>1 DEF Chained
<1>6. Begins(s)
  <2> SUFFICES ASSUME s # <<>> PROVE Head(s).op = "set"
    BY DEF Begins
  <2>1. Head(s) = s[1] /\ Len(s) >= 1
    BY <1>4, TailFacts
  <2> QED
    BY <1>1, <1>2, <1>4, <2>1
<1> QED
  BY <1>4, <1>5, <1>6 DEF s

LEMMA CommandFacts ==
    ASSUME NEW cmd \in Commands
    PROVE  Edits(cmd) \in Seq(EditSet) /\ Chained(Edits(cmd)) /\ Begins(Edits(cmd))
<1>1. CASE cmd \in [do : {"add"}, id : Ids, force : BOOLEAN, verify : BOOLEAN]
  <2>1. cmd.do = "add" /\ cmd.id \in Ids /\ cmd.force \in BOOLEAN
    BY <1>1
  <2> DEFINE x == Connect(cmd.id, cmd.force)
             y == Store(cmd.id, "typed")
             z == Offer(cmd.id)
  <2>2. /\ x \in EditSet /\ y \in EditSet /\ z \in EditSet
        /\ x.op = "connect" /\ y.op = "store" /\ z.op = "offer" /\ x.id = y.id
    <3>1. x \in EditSet /\ y \in EditSet /\ z \in EditSet
      BY <2>1 DEF EditSet
    <3>2. x.op = "connect" /\ y.op = "store" /\ z.op = "offer" /\ x.id = y.id
      BY DEF Connect, Store, Offer
    <3> QED
      BY <3>1, <3>2
  <2>3. Edits(cmd) = Add(cmd.id, cmd.force, cmd.verify)
    BY <2>1 DEF Edits
  <2>4. Edits(cmd) = IF cmd.verify THEN <<x, y, z>> ELSE <<x, y>>
    BY <2>3 DEF Add
  <2> HIDE DEF x, y, z
  <2>5. CASE cmd.verify
    <3>1. Edits(cmd) = <<x, y, z>>
      BY <2>4, <2>5
    <3> QED
      BY <2>2, <3>1, TripleFacts
  <2>6. CASE ~cmd.verify
    <3>1. Edits(cmd) = <<x, y>>
      BY <2>4, <2>6
    <3> QED
      BY <2>2, <3>1, PairFacts
  <2> QED
    BY <2>5, <2>6
<1>2. CASE cmd \in [do : {"remove"}, id : Ids]
  <2>1. cmd.do = "remove" /\ cmd.id \in Ids
    BY <1>2
  <2>2. Edits(cmd) = <<Disable(cmd.id), Forget(cmd.id)>>
    BY <2>1 DEF Edits, Remove
  <2>3. /\ Disable(cmd.id) \in EditSet /\ Forget(cmd.id) \in EditSet
    BY <2>1 DEF EditSet
  <2>4. /\ Disable(cmd.id).op = "disable" /\ Forget(cmd.id).op = "forget"
        /\ Disable(cmd.id).id = Forget(cmd.id).id
    BY DEF Disable, Forget
  <2> QED
    BY <2>2, <2>3, <2>4, PairFacts
<1>3. CASE cmd \in [do : {"set"}, roles : Seq(Keys), value : Ids \cup {None, "v1", "v2"}]
  <2>1. cmd.do = "set" /\ cmd.roles \in Seq(Keys) /\ cmd.value \in Values
    BY <1>3 DEF Values
  <2>2. Edits(cmd) = SetModels(cmd.roles, cmd.value)
    BY <2>1 DEF Edits
  <2> QED
    BY <2>1, <2>2, SetsFacts
<1> QED
  BY <1>1, <1>2, <1>3, CommandAssumption
-----------------------------------------------------------------------------
(* Jobs.                                                                   *)

LEMMA BlankFacts ==
    /\ Empty \in Files /\ NoKeys \in CredFiles
    /\ Empty.keys \in [Keys -> Values]
    /\ \A i \in Ids : Empty.providers[i] = Absent /\ NoKeys[i] = None
<1>1. Absent \in Blocks
  BY DEF Absent, Blocks
<1>2. NoKeys \in CredFiles /\ \A i \in Ids : NoKeys[i] = None
  BY DEF NoKeys, CredFiles, Stored
<1>3. /\ Empty.providers = [i \in Ids |-> Absent] /\ Empty.keys = [k \in Keys |-> None]
      /\ Empty \in Files
  BY <1>1 DEF Empty, Files
<1> QED
  BY <1>1, <1>2, <1>3 DEF Values

LEMMA NoJobFacts ==
    NoJob \in Jobs /\ NoJob.todo = <<>> /\ NoJob.held = FALSE /\ NoJob.conf = Empty /\ NoJob.cred = NoKeys
<1>1. Empty \in Files /\ NoKeys \in CredFiles /\ <<>> \in Seq(EditSet)
  BY BlankFacts
<1> QED
  BY <1>1 DEF NoJob, Jobs

LEMMA BlankJob ==
    ASSUME NEW X \in Seq(EditSet)
    PROVE  /\ [NoJob EXCEPT !.todo = X] \in Jobs
           /\ [NoJob EXCEPT !.todo = X].todo = X /\ [NoJob EXCEPT !.todo = X].held = FALSE
           /\ [NoJob EXCEPT !.todo = X].conf = Empty /\ [NoJob EXCEPT !.todo = X].cred = NoKeys
  BY NoJobFacts DEF Jobs

\* Only the job of w changes, to one with the edits X, nothing read.
Turns(w, X) ==
    /\ job' \in [Writers -> Jobs]
    /\ job'[w].todo = X /\ job'[w].held = FALSE
    /\ job'[w].conf = Empty /\ job'[w].cred = NoKeys
    /\ \A v \in Writers : v # w => job'[v] = job[v]

LEMMA TurnsFacts ==
    ASSUME FileTypes, NEW w \in Writers, NEW X \in Seq(EditSet),
           job' = [job EXCEPT ![w] = [NoJob EXCEPT !.todo = X]]
    PROVE  Turns(w, X)
<1> DEFINE b == [NoJob EXCEPT !.todo = X]
<1>1. b \in Jobs /\ b.todo = X /\ b.held = FALSE /\ b.conf = Empty /\ b.cred = NoKeys
  BY BlankJob
<1>2. job \in [Writers -> Jobs] /\ job' = [job EXCEPT ![w] = b]
  BY DEF FileTypes
<1> HIDE DEF b
<1>3. job' \in [Writers -> Jobs] /\ job'[w] = b /\ \A v \in Writers : v # w => job'[v] = job[v]
  BY <1>1, <1>2
<1> QED
  BY <1>1, <1>3 DEF Turns

LEMMA DoneFacts ==
    ASSUME FileTypes, NEW w \in Writers, job[w].todo # <<>>, Done(w)
    PROVE  /\ Turns(w, Tail(job[w].todo))
           /\ Edit(w) \in EditSet /\ Tail(job[w].todo) \in Seq(EditSet)
<1>1. job[w].todo \in Seq(EditSet)
  BY DEF FileTypes, Jobs
<1>2. Tail(job[w].todo) \in Seq(EditSet) /\ Head(job[w].todo) \in EditSet
  BY <1>1, TailFacts
<1>3. job' = [job EXCEPT ![w] = [NoJob EXCEPT !.todo = Tail(job[w].todo)]]
  BY DEF Done
<1> QED
  BY <1>2, <1>3, TurnsFacts DEF Edit

\* Only what w is asked changes, when it had nothing to do.
Asks(w, X) ==
    /\ job[w].todo = <<>> /\ job[w].held = FALSE
    /\ job' \in [Writers -> Jobs]
    /\ job'[w].todo = X /\ job'[w].held = FALSE
    /\ job'[w].conf = job[w].conf /\ job'[w].cred = job[w].cred
    /\ \A v \in Writers : v # w => job'[v] = job[v]
    /\ X \in Seq(EditSet) /\ Chained(X) /\ Begins(X)

LEMMA AsksFacts ==
    ASSUME FileTypes, NEW w \in Writers, NEW X \in Seq(EditSet), Chained(X), Begins(X),
           job[w].todo = <<>>, job' = [job EXCEPT ![w].todo = X]
    PROVE  Asks(w, X)
<1> DEFINE b == [job[w] EXCEPT !.todo = X]
<1>1. job \in [Writers -> Jobs] /\ job[w].held = FALSE
  BY DEF FileTypes
<1>2. job[w] \in Jobs
  BY <1>1
<1>3. b \in Jobs /\ b.todo = X /\ b.held = job[w].held /\ b.conf = job[w].conf /\ b.cred = job[w].cred
  BY <1>2 DEF Jobs
<1>4. job' = [job EXCEPT ![w] = b]
  OBVIOUS
<1> HIDE DEF b
<1>5. job' \in [Writers -> Jobs] /\ job'[w] = b /\ \A v \in Writers : v # w => job'[v] = job[v]
  BY <1>1, <1>3, <1>4
<1> QED
  BY <1>1, <1>3, <1>5 DEF Asks

\* Only what w holds changes: the files as they are.
Reads(w) ==
    /\ job[w].todo # <<>>
    /\ job' \in [Writers -> Jobs]
    /\ job'[w].todo = job[w].todo
    /\ IF Edit(w).op \in {"store", "forget"} THEN job'[w].conf = job[w].conf ELSE job'[w].conf = conf
    /\ IF Edit(w).op \in {"store", "forget", "offer"} THEN job'[w].cred = cred
       ELSE job'[w].cred = job[w].cred
    /\ \A v \in Writers : v # w => job'[v] = job[v]

LEMMA ReadsFacts ==
    ASSUME FileTypes, NEW w \in Writers, Read(w)
    PROVE  Reads(w) /\ UNCHANGED <<conf, cred, att, wizard, inbox, left, history>>
<1> DEFINE C == IF Edit(w).op \in {"store", "forget"} THEN job[w].conf ELSE conf
           K == IF Edit(w).op \in {"store", "forget", "offer"} THEN cred ELSE job[w].cred
           b == [job[w] EXCEPT !.held = TRUE, !.conf = C, !.cred = K]
<1>1. job \in [Writers -> Jobs] /\ conf \in Files /\ cred \in CredFiles
  BY DEF FileTypes
<1>2. job[w] \in Jobs
  BY <1>1
<1>3. job[w].conf \in Files /\ job[w].cred \in CredFiles
  BY <1>2 DEF Jobs
<1>4. C \in Files /\ K \in CredFiles
  BY <1>1, <1>3
<1>5. job' = [job EXCEPT ![w] = b]
  BY <1>1 DEF Read
<1>6. job[w].todo # <<>> /\ UNCHANGED <<conf, cred, att, wizard, inbox, left, history>>
  BY DEF Read
<1>7. b \in Jobs /\ b.todo = job[w].todo /\ b.conf = C /\ b.cred = K
  <2> HIDE DEF C, K
  <2> QED
    BY <1>2, <1>4 DEF Jobs
<1>8. job' \in [Writers -> Jobs] /\ job'[w] = b /\ \A v \in Writers : v # w => job'[v] = job[v]
  <2> HIDE DEF b, C, K
  <2> QED
    BY <1>1, <1>5, <1>7
<1> HIDE DEF b
<1> QED
  BY <1>6, <1>7, <1>8 DEF Reads
-----------------------------------------------------------------------------
(* The kinds of step, as far as files, jobs and history are concerned.        *)

Spare == UNCHANGED <<conf, cred, history>>

\* The edit in hand changes nothing; what follows it does not need it, or the
\* connection it would have saved is the person's own.
Passes(w, X) ==
    /\ Spare
    /\ Turns(w, X) /\ X \in Seq(EditSet) /\ Chained(X)
    /\ job[w].todo # <<>> /\ job[w].held
    /\ \/ Begins(X)
       \/ /\ X = Tail(job[w].todo) /\ Edit(w).op = "connect"
          /\ job[w].conf.providers[Edit(w).id].base = "own"
    /\ X = Tail(job[w].todo) \/ \A n \in 1..Len(X) : X[n].op # "store"

\* The edit in hand is made on the file held, which replaces the one there is.
Acts(w, op) ==
    /\ job[w].todo # <<>> /\ job[w].held /\ Edit(w).op = op
    /\ Edit(w) \in EditSet /\ Tail(job[w].todo) \in Seq(EditSet)
    /\ Turns(w, Tail(job[w].todo))
    /\ Overlaps(w)

Rewrites(w, op) ==
    /\ Acts(w, op)
    /\ conf' \in Files /\ cred' = cred /\ given' = given
    /\ raced' = (raced \/ conf # job[w].conf)

Connects(w) ==
    LET i == Edit(w).id
    IN  /\ Rewrites(w, "connect") /\ i \in Ids
        /\ conf'.providers[i] = [base |-> "preset", enabled |-> "yes"]
        /\ \A j \in Ids : j # i => conf'.providers[j] = job[w].conf.providers[j]
        /\ conf'.keys = job[w].conf.keys /\ wrote' = wrote
        /\ half' = half \cup {i} /\ bare' = bare \ {i}

Disables(w) ==
    LET i == Edit(w).id
    IN  /\ Rewrites(w, "disable") /\ i \in Ids
        /\ conf'.providers[i].base = job[w].conf.providers[i].base
        /\ conf'.providers[i].enabled = "no"
        /\ \A j \in Ids : j # i => conf'.providers[j] = job[w].conf.providers[j]
        /\ conf'.keys = job[w].conf.keys /\ wrote' = wrote
        /\ bare' = IF Based(job[w].conf, i) THEN bare ELSE bare \cup {i}
        /\ half' = half \ {i}

Sets(w) ==
    LET e == Edit(w)
    IN  /\ Rewrites(w, "set") /\ e.key \in Keys /\ e.value \in Values
        /\ conf'.providers = job[w].conf.providers
        /\ conf'.keys = [job[w].conf.keys EXCEPT ![e.key] = e.value]
        /\ wrote' = [wrote EXCEPT ![e.key] = e.value]
        /\ half' = half /\ bare' = bare

Stores(w) ==
    LET e == Edit(w)
    IN  /\ Acts(w, "store") /\ e.id \in Ids /\ e.key \in Attempts \cup {"typed"}
        /\ cred' = [job[w].cred EXCEPT ![e.id] = e.key]
        /\ given' = [given EXCEPT ![e.id] = e.key]
        /\ raced' = (raced \/ cred # job[w].cred)
        /\ half' = half \ {e.id} /\ bare' = bare /\ conf' = conf /\ wrote' = wrote

Forgets(w) ==
    LET i == Edit(w).id
    IN  /\ Acts(w, "forget") /\ i \in Ids
        /\ \/ /\ job[w].cred[i] = None
              /\ cred' = cred /\ given' = given /\ raced' = raced
           \/ /\ cred' = [job[w].cred EXCEPT ![i] = None]
              /\ given' = [given EXCEPT ![i] = None]
              /\ raced' = (raced \/ cred # job[w].cred)
        /\ half' = half /\ bare' = bare /\ conf' = conf /\ wrote' = wrote

Clears(all) ==
    /\ conf' = Empty /\ wrote' = Empty.keys /\ half' = {}
    /\ cred' = IF all THEN NoKeys ELSE cred
    /\ given' = IF all THEN NoKeys ELSE given
    /\ bare' = IF all THEN {} ELSE {i \in Ids : cred[i] # None /\ i \notin Embedded}
    /\ raced' = (raced \/ \E w \in Writers : job[w].todo # <<>>)
    /\ overlapped' = (overlapped \/ raced')
    /\ job' = job

Kills ==
    /\ Spare
    /\ job' \in [Writers -> Jobs]
    /\ \A v \in Writers : job'[v] = job[v] \/ job'[v] = NoJob

\* A login that saves or saved was granted, and verified unless the person
\* said not to; and a login's edits store its own key.
Sound(l, i) ==
    /\ l.at \in {"saving", "saved", "failed"} /\ l.granted /\ l.id = i
    /\ l.verify => l.checked

Owns(X) ==
    \A n \in 1..Len(X) : X[n].op = "store" /\ X[n].key \in Attempts => Sound(att'[X[n].key], X[n].id)

StepKinds ==
    \/ Spare /\ job' = job
    \/ \E w \in Writers : Spare /\ Reads(w)
    \/ \E w \in Writers, X \in Seq(EditSet) : Spare /\ Asks(w, X) /\ Owns(X)
    \/ \E w \in Writers, X \in Seq(EditSet) : Passes(w, X)
    \/ \E w \in Writers : Connects(w) \/ Disables(w) \/ Sets(w) \/ Stores(w) \/ Forgets(w)
    \/ \E all \in BOOLEAN : Clears(all)
    \/ Kills

LEMMA FileFacts ==
    ASSUME NEW c \in Files, NEW i \in Ids, NEW b \in Blocks
    PROVE  /\ [c EXCEPT !.providers[i] = b] \in Files
           /\ [c EXCEPT !.providers[i] = b].keys = c.keys
           /\ [c EXCEPT !.providers[i] = b].providers[i] = b
           /\ \A j \in Ids : j # i => [c EXCEPT !.providers[i] = b].providers[j] = c.providers[j]
<1>1. c.providers \in [Ids -> Blocks]
  BY DEF Files
<1> DEFINE P == [c.providers EXCEPT ![i] = b]
<1>2. P \in [Ids -> Blocks] /\ P[i] = b /\ \A j \in Ids : j # i => P[j] = c.providers[j]
  BY <1>1
<1>3. [c EXCEPT !.providers[i] = b] = [c EXCEPT !.providers = P]
  OBVIOUS
<1> HIDE DEF P
<1>4. /\ [c EXCEPT !.providers = P] \in Files /\ [c EXCEPT !.providers = P].keys = c.keys
      /\ [c EXCEPT !.providers = P].providers = P
  BY <1>2 DEF Files
<1> QED
  BY <1>2, <1>3, <1>4

LEMMA EditKind ==
    ASSUME FileTypes, NEW w \in Writers, EditOf(w)
    PROVE  StepKinds
<1>0. CASE Read(w)
  BY <1>0, ReadsFacts DEF StepKinds, Spare
<1>1. job[w].todo \in Seq(EditSet) /\ Chained(job[w].todo) /\ job[w].conf \in Files /\ job[w].cred \in CredFiles
  BY DEF FileTypes, Jobs
<1>2. ASSUME NEW op, Held(w, op)
      PROVE  job[w].todo # <<>> /\ job[w].held /\ Edit(w).op = op /\ Edit(w) \in EditSet
  BY <1>1, <1>2, TailFacts DEF Held, Edit
<1>3. CASE SaveProviderConnection(w)
  <2> DEFINE i == Edit(w).id
  <2>1. job[w].todo # <<>> /\ job[w].held /\ Edit(w).op = "connect" /\ Edit(w) \in EditSet
    BY <1>2, <1>3 DEF SaveProviderConnection
  <2>2. i \in Ids
    BY <2>1, EditKinds
  <2>3. Done(w)
    BY <1>3 DEF SaveProviderConnection, Pass, WriteConf
  <2>4. Turns(w, Tail(job[w].todo)) /\ Tail(job[w].todo) \in Seq(EditSet) /\ Chained(Tail(job[w].todo))
    BY <1>1, <2>1, <2>3, DoneFacts, TailChained
  <2>5. CASE job[w].conf.providers[i].base = "own" /\ Pass(w)
    <3>1. Passes(w, Tail(job[w].todo))
      BY <2>1, <2>4, <2>5 DEF Passes, Pass, Spare, history
    <3> QED
      BY <2>4, <3>1 DEF StepKinds
  <2>6. CASE /\ WriteConf(w, [job[w].conf EXCEPT !.providers[i] = [base |-> "preset", enabled |-> "yes"]])
             /\ half' = half \cup {i} /\ bare' = bare \ {i} /\ UNCHANGED wrote
    <3>1. [base |-> "preset", enabled |-> "yes"] \in Blocks
      BY DEF Blocks
    <3> DEFINE b == [base |-> "preset", enabled |-> "yes"]
               c == [job[w].conf EXCEPT !.providers[i] = b]
    <3>2. /\ c \in Files /\ c.keys = job[w].conf.keys /\ c.providers[i] = b
          /\ \A j \in Ids : j # i => c.providers[j] = job[w].conf.providers[j]
      BY <1>1, <2>2, <3>1, FileFacts
    <3>3. /\ conf' = c /\ raced' = (raced \/ conf # job[w].conf) /\ Overlaps(w)
          /\ cred' = cred /\ given' = given
      BY <2>6 DEF WriteConf
    <3> HIDE DEF c
    <3>4. Rewrites(w, "connect")
      BY <2>1, <2>4, <3>2, <3>3 DEF Rewrites, Acts
    <3>5. Connects(w)
      BY <2>2, <2>6, <3>2, <3>3, <3>4 DEF Connects
    <3> QED
      BY <3>5 DEF StepKinds
  <2> QED
    BY <1>3, <2>5, <2>6 DEF SaveProviderConnection
<1>4. CASE DisableProviderConnection(w)
  <2> DEFINE i == Edit(w).id
             b == [job[w].conf.providers[i] EXCEPT !.enabled = "no"]
             c == [job[w].conf EXCEPT !.providers[i] = b]
  <2>1. job[w].todo # <<>> /\ job[w].held /\ Edit(w).op = "disable" /\ Edit(w) \in EditSet
    BY <1>2, <1>4 DEF DisableProviderConnection
  <2>2. i \in Ids
    BY <2>1, EditKinds
  <2>3. Done(w)
    BY <1>4 DEF DisableProviderConnection, WriteConf
  <2>4. Turns(w, Tail(job[w].todo)) /\ Tail(job[w].todo) \in Seq(EditSet)
    BY <2>1, <2>3, DoneFacts
  <2>5. job[w].conf.providers[i] \in Blocks
    BY <1>1, <2>2 DEF Files
  <2>6. b \in Blocks /\ b.base = job[w].conf.providers[i].base /\ b.enabled = "no"
    BY <2>5 DEF Blocks, Absent
  <2>7. [job[w].conf EXCEPT !.providers[i].enabled = "no"] = c
    OBVIOUS
  <2> HIDE DEF b
  <2>8. /\ c \in Files /\ c.keys = job[w].conf.keys /\ c.providers[i] = b
        /\ \A j \in Ids : j # i => c.providers[j] = job[w].conf.providers[j]
    BY <1>1, <2>2, <2>6, FileFacts
  <2>9. /\ conf' = c /\ raced' = (raced \/ conf # job[w].conf) /\ Overlaps(w)
        /\ cred' = cred /\ given' = given
    BY <1>4, <2>7 DEF DisableProviderConnection, WriteConf
  <2>10. /\ bare' = IF Based(job[w].conf, i) THEN bare ELSE bare \cup {i}
         /\ half' = half \ {i} /\ wrote' = wrote
    BY <1>4 DEF DisableProviderConnection
  <2> HIDE DEF c
  <2>11. Rewrites(w, "disable")
    BY <2>1, <2>4, <2>8, <2>9 DEF Rewrites, Acts
  <2>12. Disables(w)
    BY <2>2, <2>6, <2>8, <2>9, <2>10, <2>11 DEF Disables
  <2> QED
    BY <2>12 DEF StepKinds
<1>5. CASE SetEntry(w)
  <2> DEFINE e == Edit(w)
             c == [job[w].conf EXCEPT !.keys[e.key] = e.value]
  <2>1. job[w].todo # <<>> /\ job[w].held /\ Edit(w).op = "set" /\ Edit(w) \in EditSet
    BY <1>2, <1>5 DEF SetEntry
  <2>2. e.key \in Keys /\ e.value \in Values
    BY <2>1, EditKinds
  <2>3. Done(w)
    BY <1>5 DEF SetEntry, WriteConf
  <2>4. Turns(w, Tail(job[w].todo)) /\ Tail(job[w].todo) \in Seq(EditSet)
    BY <2>1, <2>3, DoneFacts
  <2>5. c \in Files
    <3>1. c = [job[w].conf EXCEPT !.keys = [job[w].conf.keys EXCEPT ![e.key] = e.value]]
      OBVIOUS
    <3>2. job[w].conf.keys \in [Keys -> Values]
      BY <1>1 DEF Files, Values
    <3>3. [job[w].conf.keys EXCEPT ![e.key] = e.value] \in [Keys -> Values]
      BY <2>2, <3>2
    <3> QED
      BY <1>1, <3>1, <3>3 DEF Files, Values
  <2>6. c.keys = [job[w].conf.keys EXCEPT ![e.key] = e.value] /\ c.providers = job[w].conf.providers
    BY <1>1 DEF Files
  <2>7. /\ conf' = c /\ raced' = (raced \/ conf # job[w].conf) /\ Overlaps(w)
        /\ cred' = cred /\ given' = given
        /\ wrote' = [wrote EXCEPT ![e.key] = e.value] /\ half' = half /\ bare' = bare
    BY <1>5 DEF SetEntry, WriteConf
  <2> HIDE DEF c
  <2>8. Rewrites(w, "set")
    BY <2>1, <2>4, <2>5, <2>7 DEF Rewrites, Acts
  <2>9. Sets(w)
    BY <2>2, <2>6, <2>7, <2>8 DEF Sets
  <2> QED
    BY <2>9 DEF StepKinds
<1>6. CASE OfferDefaultModel(w)
  <2>1. job[w].todo # <<>> /\ job[w].held /\ Edit(w).op = "offer" /\ Edit(w) \in EditSet
    BY <1>2, <1>6 DEF OfferDefaultModel
  <2>2. Edit(w).id \in Ids
    BY <2>1, EditKinds
  <2>3. CASE Pass(w)
    <3>1. Turns(w, Tail(job[w].todo)) /\ Tail(job[w].todo) \in Seq(EditSet)
      BY <2>1, <2>3, DoneFacts DEF Pass
    <3>2. Chained(Tail(job[w].todo)) /\ Begins(Tail(job[w].todo))
      BY <1>1, <2>1, TailChained DEF Begins, Edit
    <3>3. Passes(w, Tail(job[w].todo))
      BY <2>1, <2>3, <3>1, <3>2 DEF Passes, Pass, Spare, history
    <3> QED
      BY <3>1, <3>3 DEF StepKinds
  <2>4. CASE /\ job' = [job EXCEPT ![w] = [NoJob EXCEPT !.todo = <<Set(Default, Edit(w).id)>>]]
             /\ UNCHANGED <<conf, cred, history>>
    <3> DEFINE x == Set(Default, Edit(w).id)
    <3>1. x \in EditSet
      BY <2>2, ConfigAssumption DEF EditSet, Values
    <3>2. x.op = "set"
      BY DEF Set
    <3> HIDE DEF x
    <3>3. <<x>> \in Seq(EditSet) /\ Len(<<x>>) = 1 /\ Head(<<x>>) = x
      BY <3>1
    <3>4. Chained(<<x>>) /\ Begins(<<x>>)
      BY <3>2, <3>3 DEF Chained, Begins
    <3>5. Turns(w, <<x>>)
      BY <2>4, <3>3, TurnsFacts DEF x
    <3>6. \A n \in 1..Len(<<x>>) : <<x>>[n].op # "store"
      <4>1. <<x>>[1] = x /\ \A n \in 1..1 : n = 1
        OBVIOUS
      <4> QED
        BY <3>2, <3>3, <4>1
    <3>7. Passes(w, <<x>>)
      BY <2>1, <2>4, <3>3, <3>4, <3>5, <3>6 DEF Passes, Spare
    <3> QED
      BY <3>3, <3>7 DEF StepKinds
  <2> QED
    BY <1>6, <2>3, <2>4 DEF OfferDefaultModel
<1>7. CASE SaveCredential(w)
  <2>1. job[w].todo # <<>> /\ job[w].held /\ Edit(w).op = "store" /\ Edit(w) \in EditSet
    BY <1>2, <1>7 DEF SaveCredential
  <2>2. Edit(w).id \in Ids /\ Edit(w).key \in Attempts \cup {"typed"}
    BY <2>1, EditKinds
  <2>3. Done(w) /\ Overlaps(w)
    BY <1>7 DEF SaveCredential
  <2>4. Acts(w, "store")
    BY <2>1, <2>3, DoneFacts DEF Acts
  <2>5. Stores(w)
    BY <1>7, <2>2, <2>4 DEF SaveCredential, Stores, KeysWith
  <2> QED
    BY <2>5 DEF StepKinds
<1>8. CASE ForgetCredential(w)
  <2>1. job[w].todo # <<>> /\ job[w].held /\ Edit(w).op = "forget" /\ Edit(w) \in EditSet
    BY <1>2, <1>8 DEF ForgetCredential
  <2>2. Edit(w).id \in Ids
    BY <2>1, EditKinds
  <2>3. Done(w) /\ Overlaps(w)
    BY <1>8 DEF ForgetCredential
  <2>4. Acts(w, "forget")
    BY <2>1, <2>3, DoneFacts DEF Acts
  <2>5. /\ \/ /\ job[w].cred[Edit(w).id] = None
              /\ cred' = cred /\ given' = given /\ raced' = raced
           \/ /\ cred' = [job[w].cred EXCEPT ![Edit(w).id] = None]
              /\ given' = [given EXCEPT ![Edit(w).id] = None]
              /\ raced' = (raced \/ cred # job[w].cred)
        /\ half' = half /\ bare' = bare /\ conf' = conf /\ wrote' = wrote
    <3>1. raced \in BOOLEAN
      BY DEF FileTypes
    <3> QED
      BY <1>8, <3>1 DEF ForgetCredential, KeysWith
  <2>6. Forgets(w)
    BY <2>2, <2>4, <2>5 DEF Forgets
  <2> QED
    BY <2>6 DEF StepKinds
<1> QED
  BY <1>0, <1>3, <1>4, <1>5, <1>6, <1>7, <1>8 DEF EditOf
\* A login has edits to make only while it saves, and its token was granted.
LoginInv ==
    /\ \A a \in Attempts : job[a].todo # <<>> => att[a].at = "saving"
    /\ \A a \in Attempts : att[a].at = "granted" => att[a].granted
    /\ \A m \in inbox : m.kind = "code" /\ m.ok => att[m.of].at = "coded"

LEMMA VerifyAsks ==
    ASSUME FileTypes, LoginTypes, LoginInv, NEW a \in Attempts, att[a].at = "granted",
           job' = [job EXCEPT ![a].todo = <<Connect(att[a].id, att[a].force), Store(att[a].id, a)>>]
    PROVE  /\ Asks(a, <<Connect(att[a].id, att[a].force), Store(att[a].id, a)>>)
           /\ <<Connect(att[a].id, att[a].force), Store(att[a].id, a)>> \in Seq(EditSet)
<1> DEFINE x == Connect(att[a].id, att[a].force)
           y == Store(att[a].id, a)
<1>1. att[a].id \in Ids
  BY DEF LoginTypes
<1>2. att[a].force \in BOOLEAN
  BY DEF LoginTypes, Logs
<1>3. x \in EditSet /\ y \in EditSet
  BY <1>1, <1>2 DEF EditSet
<1>4. x.op = "connect" /\ y.op = "store" /\ x.id = y.id
  BY DEF Connect, Store
<1>5. a \in Writers /\ job[a].todo = <<>>
  BY DEF LoginInv, Writers
<1> HIDE DEF x, y
<1>6. <<x, y>> \in Seq(EditSet) /\ Chained(<<x, y>>) /\ Begins(<<x, y>>)
  BY <1>3, <1>4, PairFacts
<1> QED
  BY <1>5, <1>6, AsksFacts DEF x, y

(* The types of the files and of the jobs.                                 *)
LEMMA FileTypesKept ==
    ASSUME FileTypes, StepKinds
    PROVE  FileTypes'
<1>0. /\ conf \in Files /\ cred \in CredFiles /\ job \in [Writers -> Jobs]
      /\ wrote \in [Keys -> Values] /\ given \in CredFiles
      /\ raced \in BOOLEAN /\ overlapped \in BOOLEAN
      /\ \A w \in Writers : Chained(job[w].todo) /\ (job[w].todo = <<>> => job[w].held = FALSE)
  BY DEF FileTypes
<1>1. ASSUME NEW w \in Writers, NEW X \in Seq(EditSet), Turns(w, X), Chained(X)
      PROVE  /\ job' \in [Writers -> Jobs]
             /\ \A v \in Writers : Chained(job'[v].todo) /\ (job'[v].todo = <<>> => job'[v].held = FALSE)
  BY <1>0, <1>1 DEF Turns
<1>2. ASSUME NEW w \in Writers, NEW op, Acts(w, op)
      PROVE  /\ job' \in [Writers -> Jobs]
             /\ \A v \in Writers : Chained(job'[v].todo) /\ (job'[v].todo = <<>> => job'[v].held = FALSE)
             /\ overlapped' \in BOOLEAN
             /\ job[w].conf \in Files /\ job[w].cred \in CredFiles
  <2>1. job[w].todo \in Seq(EditSet) /\ Chained(job[w].todo)
        /\ job[w].conf \in Files /\ job[w].cred \in CredFiles
    BY <1>0 DEF Jobs
  <2>2. /\ Turns(w, Tail(job[w].todo)) /\ job[w].todo # <<>> /\ Overlaps(w)
        /\ Tail(job[w].todo) \in Seq(EditSet)
    BY <1>2 DEF Acts
  <2>3. Chained(Tail(job[w].todo))
    BY <2>1, <2>2, TailChained
  <2>4. overlapped' \in BOOLEAN
    BY <2>2 DEF Overlaps
  <2> QED
    BY <1>1, <2>1, <2>2, <2>3, <2>4
<1>3. CASE Spare /\ job' = job
  BY <1>0, <1>3 DEF Spare, history, FileTypes
<1>4. ASSUME NEW w \in Writers, Spare, Reads(w) PROVE FileTypes'
  <2>1. job' \in [Writers -> Jobs]
        /\ \A v \in Writers : Chained(job'[v].todo) /\ (job'[v].todo = <<>> => job'[v].held = FALSE)
    BY <1>0, <1>4 DEF Reads
  <2> QED
    BY <1>0, <1>4, <2>1 DEF Spare, history, FileTypes
<1>5. ASSUME NEW w \in Writers, NEW X \in Seq(EditSet), Spare, Asks(w, X) PROVE FileTypes'
  <2>1. job' \in [Writers -> Jobs]
        /\ \A v \in Writers : Chained(job'[v].todo) /\ (job'[v].todo = <<>> => job'[v].held = FALSE)
    BY <1>0, <1>5 DEF Asks
  <2> QED
    BY <1>0, <1>5, <2>1 DEF Spare, history, FileTypes
<1>6. ASSUME NEW w \in Writers, NEW X \in Seq(EditSet), Passes(w, X) PROVE FileTypes'
  <2>1. job' \in [Writers -> Jobs]
        /\ \A v \in Writers : Chained(job'[v].todo) /\ (job'[v].todo = <<>> => job'[v].held = FALSE)
    BY <1>1, <1>6 DEF Passes
  <2> QED
    BY <1>0, <1>6, <2>1 DEF Passes, Spare, history, FileTypes
<1>7. ASSUME NEW w \in Writers, Connects(w) \/ Disables(w) \/ Sets(w) PROVE FileTypes'
  <2>1. PICK op : Rewrites(w, op)
    BY <1>7 DEF Connects, Disables, Sets
  <2>2. conf' \in Files /\ cred' = cred /\ given' = given /\ raced' \in BOOLEAN /\ Acts(w, op)
    BY <2>1 DEF Rewrites
  <2>3. wrote' \in [Keys -> Values]
    <3>1. CASE wrote' = wrote
      BY <1>0, <3>1
    <3>2. CASE Sets(w)
      BY <1>0, <3>2 DEF Sets
    <3> QED
      BY <1>7, <3>1, <3>2 DEF Connects, Disables
  <2> QED
    BY <1>0, <1>2, <2>2, <2>3 DEF FileTypes
<1>8. ASSUME NEW w \in Writers, Stores(w) \/ Forgets(w) PROVE FileTypes'
  <2>1. PICK op : Acts(w, op)
    BY <1>8 DEF Stores, Forgets
  <2>2. job[w].cred \in CredFiles
    BY <1>2, <2>1
  <2>3. conf' = conf /\ wrote' = wrote /\ raced' \in BOOLEAN
    BY <1>0, <1>8 DEF Stores, Forgets
  <2>4. cred' \in CredFiles /\ given' \in CredFiles
    <3>1. CASE Stores(w)
      BY <1>0, <2>2, <3>1 DEF Stores, CredFiles, Stored
    <3>2. CASE Forgets(w)
      BY <1>0, <2>2, <3>2 DEF Forgets, CredFiles, Stored
    <3> QED
      BY <1>8, <3>1, <3>2
  <2> QED
    BY <1>0, <1>2, <2>1, <2>3, <2>4 DEF FileTypes
<1>9. ASSUME NEW all \in BOOLEAN, Clears(all) PROVE FileTypes'
  <2>1. Empty \in Files /\ Empty.keys \in [Keys -> Values] /\ NoKeys \in CredFiles
    BY BlankFacts
  <2>2. cred' \in CredFiles /\ given' \in CredFiles
    BY <1>0, <1>9, <2>1 DEF Clears
  <2>3. raced' \in BOOLEAN /\ overlapped' \in BOOLEAN
    BY <1>9 DEF Clears
  <2> QED
    BY <1>0, <1>9, <2>1, <2>2, <2>3 DEF Clears, FileTypes
<1>10. CASE Kills
  <2>1. \A v \in Writers : Chained(job'[v].todo) /\ (job'[v].todo = <<>> => job'[v].held = FALSE)
    <3>1. Chained(<<>>)
      BY DEF Chained
    <3> QED
      BY <1>0, <1>10, <3>1, NoJobFacts DEF Kills
  <2> QED
    BY <1>0, <1>10, <2>1 DEF Kills, Spare, history, FileTypes
<1> QED
  BY <1>3, <1>4, <1>5, <1>6, <1>7, <1>8, <1>9, <1>10 DEF StepKinds
-----------------------------------------------------------------------------
(* NothingLost needs nothing else: an edit replaces the file it read, or the  *)
(* race is on record.                                                      *)
LEMMA NothingLostKept ==
    ASSUME FileTypes, NothingLost, StepKinds
    PROVE  NothingLost'
<1> SUFFICES ASSUME ~raced' PROVE conf'.keys = wrote' /\ cred' = given'
  BY DEF NothingLost
<1>0. /\ conf \in Files /\ cred \in CredFiles /\ given \in CredFiles /\ wrote \in [Keys -> Values]
      /\ raced \in BOOLEAN
  BY DEF FileTypes
<1>1. CASE Spare
  BY <1>1 DEF Spare, history, NothingLost
<1>2. ASSUME NEW w \in Writers, Connects(w) \/ Disables(w) \/ Sets(w)
      PROVE  conf'.keys = wrote' /\ cred' = given'
  <2>1. raced' = (raced \/ conf # job[w].conf) /\ cred' = cred /\ given' = given
    BY <1>2 DEF Connects, Disables, Sets, Rewrites
  <2>2. ~raced /\ conf = job[w].conf
    BY <2>1
  <2>3. conf.keys = wrote /\ cred = given
    BY <2>2 DEF NothingLost
  <2>4. CASE Connects(w) \/ Disables(w)
    BY <2>1, <2>2, <2>3, <2>4 DEF Connects, Disables
  <2>5. CASE Sets(w)
    BY <2>1, <2>2, <2>3, <2>5 DEF Sets
  <2> QED
    BY <1>2, <2>4, <2>5
<1>3. ASSUME NEW w \in Writers, Stores(w) \/ Forgets(w)
      PROVE  conf'.keys = wrote' /\ cred' = given'
  <2>1. conf' = conf /\ wrote' = wrote
    BY <1>3 DEF Stores, Forgets
  <2>2. CASE cred' = cred /\ given' = given /\ raced' = raced
    BY <2>1, <2>2 DEF NothingLost
  <2>3. CASE raced' = (raced \/ cred # job[w].cred)
    <3>1. ~raced /\ cred = job[w].cred
      BY <2>3
    <3>2. conf.keys = wrote /\ cred = given
      BY <3>1 DEF NothingLost
    <3>3. cred' = given'
      BY <1>3, <3>1, <3>2 DEF Stores, Forgets
    <3> QED
      BY <2>1, <3>2, <3>3
  <2> QED
    BY <1>3, <2>2, <2>3 DEF Stores, Forgets
<1>4. ASSUME NEW all \in BOOLEAN, Clears(all)
      PROVE  conf'.keys = wrote' /\ cred' = given'
  <2>1. raced' = (raced \/ \E w \in Writers : job[w].todo # <<>>)
    BY <1>4 DEF Clears
  <2>2. ~raced
    BY <2>1
  <2> QED
    BY <1>4, <2>2 DEF Clears, NothingLost
<1> QED
  BY <1>1, <1>2, <1>3, <1>4 DEF StepKinds, Passes, Kills

-----------------------------------------------------------------------------
(* While no two programs edit at once: what a program holds is what there is, *)
(* and a pair of edits is never seen half done by the second of them.         *)

Fresh ==
    \A w \in Writers : job[w].todo # <<>> /\ job[w].held =>
        /\ Edit(w).op \notin {"store", "forget"} => job[w].conf = conf
        /\ Edit(w).op \in {"store", "forget"} => job[w].cred = cred

Prepared ==
    \A w \in Writers : job[w].todo # <<>> =>
        /\ Edit(w).op = "store" => Based(conf, Edit(w).id)
        /\ Edit(w).op = "forget" => conf.providers[Edit(w).id].enabled = "no"

Backed ==
    \A i \in Ids : conf.providers[i] = [base |-> "preset", enabled |-> "yes"] /\ cred[i] = None => i \in half

Explained ==
    \A i \in Ids : Declared(conf, cred, i) /\ ~Based(conf, i) => i \in bare

AloneInv == ~overlapped => Fresh /\ Prepared /\ Backed /\ Explained

LEMMA AloneActs ==
    ASSUME NEW w \in Writers, NEW op, Acts(w, op), ~overlapped'
    PROVE  ~overlapped /\ \A v \in Writers : v # w => job[v].todo = <<>> /\ job'[v].todo = <<>>
<1>1. overlapped' = (overlapped \/ \E o \in Writers \ {w} : job[o].todo # <<>>)
  BY DEF Acts, Overlaps
<1>2. \A v \in Writers : v # w => job'[v] = job[v]
  BY DEF Acts, Turns
<1> QED
  BY <1>1, <1>2

\* Steps that leave the files and the history alone need only care for jobs.
LEMMA SpareAlone ==
    ASSUME FileTypes, AloneInv, Spare, ~overlapped', Fresh', Prepared'
    PROVE  AloneInv'
<1>1. /\ conf' = conf /\ cred' = cred /\ half' = half /\ bare' = bare /\ overlapped' = overlapped
  BY DEF Spare, history
<1>2. Backed /\ Explained
  BY <1>1 DEF AloneInv
<1>3. Backed' /\ Explained'
  BY <1>1, <1>2 DEF Backed, Explained, Declared, Based
<1> QED
  BY <1>3 DEF AloneInv

LEMMA SpareKept ==
    ASSUME FileTypes, AloneInv, Spare, ~overlapped',
           \/ job' = job
           \/ \E w \in Writers : Reads(w)
           \/ \E w \in Writers, X \in Seq(EditSet) : Asks(w, X)
           \/ \E w \in Writers, X \in Seq(EditSet) : Passes(w, X)
           \/ Kills
    PROVE  AloneInv'
<1>0. /\ conf' = conf /\ cred' = cred /\ overlapped' = overlapped
      /\ \A w \in Writers : job[w].todo = <<>> => job[w].held = FALSE
  BY DEF Spare, history, FileTypes
<1>1. Fresh /\ Prepared
  BY <1>0 DEF AloneInv
<1>2. CASE job' = job
  <2>1. Fresh' /\ Prepared'
    BY <1>0, <1>1, <1>2 DEF Fresh, Prepared, Edit, Based
  <2> QED
    BY <2>1, SpareAlone
<1>3. ASSUME NEW w \in Writers, Reads(w) PROVE AloneInv'
  <2>1. \A v \in Writers : job'[v].todo = job[v].todo /\ (v # w => job'[v] = job[v])
    BY <1>3 DEF Reads
  <2>2. Prepared'
    BY <1>0, <1>1, <2>1 DEF Prepared, Edit, Based
  <2>3. Fresh'
    <3> SUFFICES ASSUME NEW v \in Writers, job'[v].todo # <<>>, job'[v].held
                 PROVE  /\ Head(job'[v].todo).op \notin {"store", "forget"} => job'[v].conf = conf
                        /\ Head(job'[v].todo).op \in {"store", "forget"} => job'[v].cred = cred
      BY <1>0 DEF Fresh, Edit
    <3>1. CASE v = w
      BY <1>3, <2>1, <3>1 DEF Reads, Edit
    <3>2. CASE v # w
      BY <1>1, <2>1, <3>2 DEF Fresh, Edit
    <3> QED
      BY <3>1, <3>2
  <2> QED
    BY <2>2, <2>3, SpareAlone
<1>4. ASSUME NEW w \in Writers, NEW X \in Seq(EditSet), Asks(w, X) PROVE AloneInv'
  <2>1. /\ job'[w].todo = X /\ job'[w].held = FALSE /\ Begins(X)
        /\ \A v \in Writers : v # w => job'[v] = job[v]
    BY <1>4 DEF Asks
  <2>2. Fresh' /\ Prepared'
    BY <1>0, <1>1, <2>1 DEF Fresh, Prepared, Edit, Based, Begins
  <2> QED
    BY <2>2, SpareAlone
<1>5. ASSUME NEW w \in Writers, NEW X \in Seq(EditSet), Passes(w, X) PROVE AloneInv'
  <2>1. /\ job'[w].todo = X /\ job'[w].held = FALSE
        /\ \A v \in Writers : v # w => job'[v] = job[v]
    BY <1>5 DEF Passes, Turns
  <2>2. Fresh'
    BY <1>0, <1>1, <2>1 DEF Fresh, Edit
  <2>3. X # <<>> => /\ Head(X).op = "store" => Based(conf, Head(X).id)
                    /\ Head(X).op = "forget" => conf.providers[Head(X).id].enabled = "no"
    <3>1. CASE Begins(X)
      BY <3>1 DEF Begins
    <3>2. CASE /\ X = Tail(job[w].todo) /\ Edit(w).op = "connect"
               /\ job[w].conf.providers[Edit(w).id].base = "own"
      <4>1. job[w].todo \in Seq(EditSet) /\ Chained(job[w].todo) /\ job[w].todo # <<>> /\ job[w].held
        BY <1>5 DEF Passes, FileTypes, Jobs
      <4>2. job[w].conf = conf
        BY <1>1, <3>2, <4>1 DEF Fresh
      <4>3. X # <<>> => /\ Head(X).op = "store" => Edit(w).id = Head(X).id
                        /\ Head(X).op = "forget" => Edit(w).op = "disable"
        BY <3>2, <4>1, TailChained DEF Edit
      <4>4. Based(conf, Edit(w).id)
        BY <3>2, <4>2 DEF Based
      <4> QED
        BY <3>2, <4>3, <4>4
    <3> QED
      BY <1>5, <3>1, <3>2 DEF Passes
  <2>4. Prepared'
    <3> SUFFICES ASSUME NEW v \in Writers, job'[v].todo # <<>>
                 PROVE  /\ Head(job'[v].todo).op = "store" => Based(conf, Head(job'[v].todo).id)
                        /\ Head(job'[v].todo).op = "forget" =>
                              conf.providers[Head(job'[v].todo).id].enabled = "no"
      BY <1>0 DEF Prepared, Edit, Based
    <3>1. CASE v = w
      BY <2>1, <2>3, <3>1
    <3>2. CASE v # w
      BY <1>1, <2>1, <3>2 DEF Prepared, Edit
    <3> QED
      BY <3>1, <3>2
  <2> QED
    BY <2>2, <2>4, SpareAlone
<1>6. CASE Kills
  <2>1. \A v \in Writers : job'[v] = job[v] \/ job'[v].todo = <<>>
    BY <1>6, NoJobFacts DEF Kills
  <2>2. Fresh' /\ Prepared'
    BY <1>0, <1>1, <2>1 DEF Fresh, Prepared, Edit, Based
  <2> QED
    BY <2>2, SpareAlone
<1> QED
  BY <1>2, <1>3, <1>4, <1>5, <1>6
\* Steps that edit: nobody else has anything to do, and what is left of the
\* job needs only what this edit made true.
LEMMA ActsPrepared ==
    ASSUME FileTypes, AloneInv, NEW w \in Writers, NEW op, Acts(w, op), ~overlapped',
           op = "connect" => Based(conf', Edit(w).id),
           op = "disable" => conf'.providers[Edit(w).id].enabled = "no"
    PROVE  Fresh' /\ Prepared'
<1>1. \A v \in Writers : v # w => job'[v].todo = <<>>
  BY AloneActs
<1>2. /\ job'[w].todo = Tail(job[w].todo) /\ job'[w].held = FALSE
      /\ job[w].todo # <<>> /\ Edit(w).op = op
  BY DEF Acts, Turns
<1>3. Fresh'
  BY <1>1, <1>2 DEF Fresh
<1>4. job[w].todo \in Seq(EditSet) /\ Chained(job[w].todo)
  BY DEF FileTypes, Jobs
<1>5. job'[w].todo # <<>> =>
        /\ Head(job'[w].todo).op = "store" => op = "connect" /\ Edit(w).id = Head(job'[w].todo).id
        /\ Head(job'[w].todo).op = "forget" => op = "disable" /\ Edit(w).id = Head(job'[w].todo).id
  BY <1>2, <1>4, TailChained DEF Edit
<1>6. Prepared'
  <2> SUFFICES ASSUME job'[w].todo # <<>>
               PROVE  /\ Head(job'[w].todo).op = "store" => Based(conf', Head(job'[w].todo).id)
                      /\ Head(job'[w].todo).op = "forget" =>
                            conf'.providers[Head(job'[w].todo).id].enabled = "no"
    BY <1>1 DEF Prepared, Edit, Based
  <2> QED
    BY <1>5
<1> QED
  BY <1>3, <1>6

LEMMA ConnectAlone ==
    ASSUME FileTypes, AloneInv, NEW w \in Writers, Connects(w), ~overlapped'
    PROVE  AloneInv'
<1> DEFINE i == Edit(w).id
<1>1. Acts(w, "connect") /\ cred' = cred /\ i \in Ids
  BY DEF Connects, Rewrites
<1>2. ~overlapped
  BY <1>1, AloneActs
<1>3. Fresh /\ Prepared /\ Backed /\ Explained
  BY <1>2 DEF AloneInv
<1>4. job[w].conf = conf
  BY <1>1, <1>3 DEF Acts, Fresh
<1>5. /\ conf'.providers[i] = [base |-> "preset", enabled |-> "yes"]
      /\ \A j \in Ids : j # i => conf'.providers[j] = conf.providers[j]
      /\ half' = half \cup {i} /\ bare' = bare \ {i}
  BY <1>4 DEF Connects
<1>6. Based(conf', i)
  BY <1>5 DEF Based
<1>7. Fresh' /\ Prepared'
  BY <1>1, <1>6, ActsPrepared
<1> HIDE DEF i
<1>8. Backed'
  <2> SUFFICES ASSUME NEW j \in Ids, conf'.providers[j] = [base |-> "preset", enabled |-> "yes"],
                      cred[j] = None
               PROVE  j \in half'
    BY <1>1 DEF Backed
  <2>1. CASE j = i
    BY <1>5, <2>1
  <2>2. CASE j # i
    BY <1>3, <1>5, <2>2 DEF Backed
  <2> QED
    BY <2>1, <2>2
<1>9. Explained'
  <2> SUFFICES ASSUME NEW j \in Ids, Declared(conf', cred, j), ~Based(conf', j)
               PROVE  j \in bare'
    BY <1>1 DEF Explained, Declared, Based
  <2>1. j # i /\ conf'.providers[j] = conf.providers[j]
    BY <1>5, <1>6
  <2>2. j \in bare
    BY <1>3, <2>1 DEF Explained, Declared, Based
  <2> QED
    BY <1>5, <2>1, <2>2
<1> QED
  BY <1>7, <1>8, <1>9 DEF AloneInv

LEMMA DisableAlone ==
    ASSUME FileTypes, AloneInv, NEW w \in Writers, Disables(w), ~overlapped'
    PROVE  AloneInv'
<1> DEFINE i == Edit(w).id
<1>1. Acts(w, "disable") /\ cred' = cred /\ i \in Ids
  BY DEF Disables, Rewrites
<1>2. ~overlapped
  BY <1>1, AloneActs
<1>3. Fresh /\ Prepared /\ Backed /\ Explained
  BY <1>2 DEF AloneInv
<1>4. job[w].conf = conf
  BY <1>1, <1>3 DEF Acts, Fresh
<1>5. /\ conf'.providers[i].base = conf.providers[i].base
      /\ conf'.providers[i].enabled = "no"
      /\ \A j \in Ids : j # i => conf'.providers[j] = conf.providers[j]
      /\ half' = half \ {i} /\ bare' = IF Based(conf, i) THEN bare ELSE bare \cup {i}
  BY <1>4 DEF Disables
<1>6. Fresh' /\ Prepared'
  BY <1>1, <1>5, ActsPrepared
<1> HIDE DEF i
<1>7. Backed'
  <2> SUFFICES ASSUME NEW j \in Ids, conf'.providers[j] = [base |-> "preset", enabled |-> "yes"],
                      cred[j] = None
               PROVE  j \in half'
    BY <1>1 DEF Backed
  <2>1. j # i
    <3>1. conf'.providers[j].enabled = "yes"
      OBVIOUS
    <3> QED
      BY <1>5, <3>1
  <2>2. conf.providers[j] = [base |-> "preset", enabled |-> "yes"]
    BY <1>5, <2>1
  <2> QED
    BY <1>3, <1>5, <2>1, <2>2 DEF Backed
<1>8. Explained'
  <2> SUFFICES ASSUME NEW j \in Ids, Declared(conf', cred, j), ~Based(conf', j)
               PROVE  j \in bare'
    BY <1>1 DEF Explained, Declared, Based
  <2>1. CASE j = i
    <3>1. ~Based(conf, i)
      BY <1>5, <2>1 DEF Based
    <3> QED
      BY <1>5, <2>1, <3>1
  <2>2. CASE j # i
    <3>1. j \in bare
      BY <1>3, <1>5, <2>2 DEF Explained, Declared, Based
    <3> QED
      BY <1>5, <3>1
  <2> QED
    BY <2>1, <2>2
<1> QED
  BY <1>6, <1>7, <1>8 DEF AloneInv

LEMMA SetAlone ==
    ASSUME FileTypes, AloneInv, NEW w \in Writers, Sets(w), ~overlapped'
    PROVE  AloneInv'
<1>1. Acts(w, "set") /\ cred' = cred
  BY DEF Sets, Rewrites
<1>2. ~overlapped
  BY <1>1, AloneActs
<1>3. Fresh /\ Prepared /\ Backed /\ Explained
  BY <1>2 DEF AloneInv
<1>4. job[w].conf = conf
  BY <1>1, <1>3 DEF Acts, Fresh
<1>5. conf'.providers = conf.providers /\ half' = half /\ bare' = bare
  BY <1>4 DEF Sets
<1>6. Fresh' /\ Prepared'
  BY <1>1, ActsPrepared
<1>7. Backed' /\ Explained'
  BY <1>1, <1>3, <1>5 DEF Backed, Explained, Declared, Based
<1> QED
  BY <1>6, <1>7 DEF AloneInv

LEMMA StoreAlone ==
    ASSUME FileTypes, AloneInv, NEW w \in Writers, Stores(w), ~overlapped'
    PROVE  AloneInv'
<1> DEFINE i == Edit(w).id
           k == Edit(w).key
<1>1. /\ Acts(w, "store") /\ i \in Ids /\ k \in Attempts \cup {"typed"}
      /\ conf' = conf /\ half' = half \ {i} /\ bare' = bare
  BY DEF Stores
<1>2. ~overlapped
  BY <1>1, AloneActs
<1>3. Fresh /\ Prepared /\ Backed /\ Explained
  BY <1>2 DEF AloneInv
<1>4. job[w].cred = cred /\ Based(conf, i)
  BY <1>1, <1>3 DEF Acts, Fresh, Prepared
<1>5. cred' = [cred EXCEPT ![i] = k] /\ cred \in CredFiles
  BY <1>4 DEF Stores, FileTypes
<1>6. k # None
  BY <1>1, ConfigAssumption DEF None
<1> HIDE DEF i, k
<1>7. cred'[i] # None /\ \A j \in Ids : j # i => cred'[j] = cred[j]
  BY <1>1, <1>5, <1>6 DEF CredFiles
<1>8. Fresh' /\ Prepared'
  BY <1>1, ActsPrepared
<1>9. Backed'
  BY <1>1, <1>3, <1>7 DEF Backed
<1>10. Explained'
  <2> SUFFICES ASSUME NEW j \in Ids, Declared(conf, cred', j), ~Based(conf, j)
               PROVE  j \in bare
    BY <1>1 DEF Explained, Declared, Based
  <2>1. j # i
    BY <1>4
  <2> QED
    BY <1>3, <1>7, <2>1 DEF Explained, Declared
<1> QED
  BY <1>8, <1>9, <1>10 DEF AloneInv

LEMMA ForgetAlone ==
    ASSUME FileTypes, AloneInv, NEW w \in Writers, Forgets(w), ~overlapped'
    PROVE  AloneInv'
<1> DEFINE i == Edit(w).id
<1>1. /\ Acts(w, "forget") /\ i \in Ids
      /\ conf' = conf /\ half' = half /\ bare' = bare
  BY DEF Forgets
<1>2. ~overlapped
  BY <1>1, AloneActs
<1>3. Fresh /\ Prepared /\ Backed /\ Explained
  BY <1>2 DEF AloneInv
<1>4. job[w].cred = cred /\ conf.providers[i].enabled = "no"
  BY <1>1, <1>3 DEF Acts, Fresh, Prepared
<1>5. \A j \in Ids : cred'[j] = cred[j] \/ (j = i /\ cred'[j] = None)
  BY <1>1, <1>4 DEF Forgets, FileTypes, CredFiles
<1>6. Fresh' /\ Prepared'
  BY <1>1, ActsPrepared
<1> HIDE DEF i
<1>7. Backed'
  <2> SUFFICES ASSUME NEW j \in Ids, conf.providers[j] = [base |-> "preset", enabled |-> "yes"],
                      cred'[j] = None
               PROVE  j \in half
    BY <1>1 DEF Backed
  <2>1. conf.providers[j].enabled = "yes"
    OBVIOUS
  <2>2. j # i
    BY <1>4, <2>1
  <2> QED
    BY <1>3, <1>5, <2>2 DEF Backed
<1>8. Explained'
  BY <1>1, <1>3, <1>5 DEF Explained, Declared, Based
<1> QED
  BY <1>6, <1>7, <1>8 DEF AloneInv

LEMMA ClearsAlone ==
    ASSUME FileTypes, AloneInv, NEW all \in BOOLEAN, Clears(all), ~overlapped'
    PROVE  AloneInv'
<1>1. /\ conf' = Empty /\ half' = {} /\ job' = job
      /\ cred' = IF all THEN NoKeys ELSE cred
      /\ bare' = IF all THEN {} ELSE {i \in Ids : cred[i] # None /\ i \notin Embedded}
      /\ raced' = (raced \/ \E w \in Writers : job[w].todo # <<>>)
      /\ overlapped' = (overlapped \/ raced')
  BY DEF Clears
<1>2. \A w \in Writers : job'[w].todo = <<>>
  BY <1>1
<1>3. Fresh' /\ Prepared'
  BY <1>2 DEF Fresh, Prepared
<1>4. \A i \in Ids : conf'.providers[i] = Absent /\ NoKeys[i] = None
  BY <1>1, BlankFacts
<1>5. Backed'
  BY <1>4 DEF Backed, Absent
<1>6. Explained'
  BY <1>1, <1>4 DEF Explained, Declared, Based
<1> QED
  BY <1>3, <1>5, <1>6 DEF AloneInv

LEMMA AloneKept ==
    ASSUME FileTypes, AloneInv, StepKinds
    PROVE  AloneInv'
<1> SUFFICES ASSUME ~overlapped' PROVE AloneInv'
  BY DEF AloneInv
<1>1. CASE \E w \in Writers : Connects(w) \/ Disables(w) \/ Sets(w) \/ Stores(w) \/ Forgets(w)
  BY <1>1, ConnectAlone, DisableAlone, SetAlone, StoreAlone, ForgetAlone
<1>2. CASE \E all \in BOOLEAN : Clears(all)
  BY <1>2, ClearsAlone
<1>3. CASE /\ Spare
           /\ \/ job' = job
              \/ \E w \in Writers : Reads(w)
              \/ \E w \in Writers, X \in Seq(EditSet) : Asks(w, X)
              \/ \E w \in Writers, X \in Seq(EditSet) : Passes(w, X)
              \/ Kills
  BY <1>3, SpareKept
<1> QED
  BY <1>1, <1>2, <1>3 DEF StepKinds, Passes, Kills
-----------------------------------------------------------------------------
(* Logins.  A login that is Sound stays so whatever happens to it afterwards. *)

Stable == \A b \in Attempts, i \in Ids : Sound(att[b], i) => Sound(att'[b], i)

WizardTyped ==
    /\ wizard \in [shows : Attempts \cup {None}, holds : Attempts \cup {None}]
    /\ wizard.shows = None => wizard.holds = None

Codes(m) == m.kind = "code" /\ m.ok

LEMMA MoveKeeps ==
    ASSUME LoginTypes, LoginInv, NEW a \in Attempts, NEW r \in Logs, att' = [att EXCEPT ![a] = r],
           r.elapsed <= PollTimeout, r.at # "off" => r.id \in Ids,
           WizardTyped', inbox' \subseteq Answers,
           \A b \in Attempts : job'[b].todo # <<>> =>
              (b # a /\ job[b].todo # <<>>) \/ (b = a /\ r.at = "saving"),
           r.at = "granted" => r.granted,
           \A m \in inbox' : Codes(m) => (m \in inbox /\ m.of # a) \/ (m.of = a /\ r.at = "coded"),
           \A i \in Ids : Sound(att[a], i) => Sound(r, i)
    PROVE  LoginTypes' /\ LoginInv' /\ Stable
<1>1. att \in [Attempts -> Logs]
  BY DEF LoginTypes
<1>2. att' \in [Attempts -> Logs] /\ att'[a] = r /\ \A b \in Attempts : b # a => att'[b] = att[b]
  BY <1>1
<1>3. LoginTypes'
  <2>1. \A b \in Attempts : att'[b].elapsed <= PollTimeout /\ (att'[b].at # "off" => att'[b].id \in Ids)
    BY <1>2 DEF LoginTypes
  <2> QED
    BY <1>2, <2>1 DEF LoginTypes, WizardTyped
<1>4. LoginInv'
  <2>1. \A b \in Attempts : job'[b].todo # <<>> => att'[b].at = "saving"
    BY <1>2 DEF LoginInv
  <2>2. \A b \in Attempts : att'[b].at = "granted" => att'[b].granted
    BY <1>2 DEF LoginInv
  <2>3. \A m \in inbox' : m.of \in Attempts
    BY DEF Answers
  <2>4. \A m \in inbox' : m.kind = "code" /\ m.ok => att'[m.of].at = "coded"
    <3> SUFFICES ASSUME NEW m \in inbox', Codes(m) PROVE att'[m.of].at = "coded"
      BY DEF Codes
    <3>1. CASE m \in inbox /\ m.of # a
      BY <1>2, <2>3, <3>1 DEF LoginInv, Codes
    <3>2. CASE m.of = a /\ r.at = "coded"
      BY <1>2, <3>2
    <3> QED
      BY <3>1, <3>2
  <2> QED
    BY <2>1, <2>2, <2>4 DEF LoginInv
<1>5. Stable
  BY <1>2 DEF Stable
<1> QED
  BY <1>3, <1>4, <1>5

LEMMA IdleKeeps ==
    ASSUME LoginTypes, LoginInv, att' = att, WizardTyped', inbox' \subseteq inbox,
           \A b \in Attempts : job'[b].todo # <<>> => job[b].todo # <<>>
    PROVE  LoginTypes' /\ LoginInv' /\ Stable
<1>1. LoginTypes'
  BY DEF LoginTypes, WizardTyped
<1>2. LoginInv'
  BY DEF LoginInv
<1>3. Stable
  BY DEF Stable
<1> QED
  BY <1>1, <1>2, <1>3

\* Cancelling marks a log and nothing else; so does starting to wait.
LEMMA MarkFacts ==
    ASSUME NEW l \in Logs, NEW c \in BOOLEAN
    PROVE  /\ [l EXCEPT !.cancelled = c] \in Logs
           /\ [l EXCEPT !.cancelled = c].at = l.at /\ [l EXCEPT !.cancelled = c].id = l.id
           /\ [l EXCEPT !.cancelled = c].elapsed = l.elapsed
           /\ [l EXCEPT !.cancelled = c].granted = l.granted
           /\ [l EXCEPT !.cancelled = c].verify = l.verify
           /\ [l EXCEPT !.cancelled = c].checked = l.checked
  BY DEF Logs

LEMMA CancelKeeps ==
    ASSUME LoginTypes, LoginInv, NEW a \in Attempts, att' = [att EXCEPT ![a].cancelled = TRUE],
           WizardTyped', inbox' \subseteq inbox, job' = job
    PROVE  LoginTypes' /\ LoginInv' /\ Stable
<1> DEFINE r == [att[a] EXCEPT !.cancelled = TRUE]
<1>1. att[a] \in Logs
  BY DEF LoginTypes
<1>2. /\ r \in Logs /\ r.at = att[a].at /\ r.id = att[a].id /\ r.elapsed = att[a].elapsed
      /\ r.granted = att[a].granted /\ r.verify = att[a].verify /\ r.checked = att[a].checked
  BY <1>1, MarkFacts
<1>3. att' = [att EXCEPT ![a] = r]
  OBVIOUS
<1> HIDE DEF r
<1>4. r.elapsed <= PollTimeout /\ (r.at # "off" => r.id \in Ids) /\ inbox' \subseteq Answers
  BY <1>2 DEF LoginTypes
<1>5. \A b \in Attempts : job'[b].todo # <<>> =>
              (b # a /\ job[b].todo # <<>>) \/ (b = a /\ r.at = "saving")
  BY <1>2 DEF LoginInv
<1>6. r.at = "granted" => r.granted
  BY <1>2 DEF LoginInv
<1>7. \A m \in inbox' : Codes(m) => (m \in inbox /\ m.of # a) \/ (m.of = a /\ r.at = "coded")
  BY <1>2 DEF LoginInv, Codes
<1>8. \A i \in Ids : Sound(att[a], i) => Sound(r, i)
  BY <1>2 DEF Sound
<1> QED
  BY <1>2, <1>3, <1>4, <1>5, <1>6, <1>7, <1>8, MoveKeeps

\* A log before its saving is of no provider yet, so it may move freely.
LEMMA EarlyKeeps ==
    ASSUME LoginTypes, LoginInv, NEW a \in Attempts, NEW r \in Logs, att' = [att EXCEPT ![a] = r],
           att[a].at \notin {"saving", "saved", "failed"}, r.at # "saving",
           r.elapsed <= PollTimeout, r.at # "off" => r.id \in Ids,
           r.at = "granted" => r.granted,
           WizardTyped', inbox' \subseteq Answers, job' = job,
           \A m \in inbox' : Codes(m) => (m \in inbox /\ m.of # a) \/ (m.of = a /\ r.at = "coded")
    PROVE  LoginTypes' /\ LoginInv' /\ Stable
<1>1. \A b \in Attempts : job'[b].todo # <<>> => b # a /\ job[b].todo # <<>>
  BY DEF LoginInv
<1>2. \A i \in Ids : ~Sound(att[a], i)
  BY DEF Sound
<1> QED
  BY <1>1, <1>2, MoveKeeps

LEMMA OldCodes ==
    ASSUME LoginTypes, LoginInv, NEW a \in Attempts, att[a].at # "coded"
    PROVE  \A m \in inbox : Codes(m) => m.of # a
  BY DEF LoginInv, Codes

\* What a login sends: an answer of its own, or nothing.
LEMMA SendFacts ==
    ASSUME LoginTypes, NEW a \in Attempts, NEW kind \in {"code", "done"}, NEW ok \in BOOLEAN,
           Send(a, kind, ok)
    PROVE  /\ inbox' \subseteq Answers
           /\ inbox \subseteq inbox'
           /\ \A m \in inbox' : m \in inbox \/ (m = [kind |-> kind, of |-> a, ok |-> ok]
                                                /\ Doors[a] = "wizard")
<1>1. [kind |-> kind, of |-> a, ok |-> ok] \in Answers
  BY DEF Answers
<1>2. inbox \subseteq Answers
  BY DEF LoginTypes
<1> QED
  BY <1>1, <1>2 DEF Send
LEMMA GotoFacts ==
    ASSUME NEW l \in Logs,
           NEW s \in {"off", "asking", "coded", "polling", "granted", "saving", "saved", "failed"}
    PROVE  /\ [l EXCEPT !.at = s] \in Logs
           /\ [l EXCEPT !.at = s].at = s /\ [l EXCEPT !.at = s].id = l.id
           /\ [l EXCEPT !.at = s].elapsed = l.elapsed
           /\ [l EXCEPT !.at = s].granted = l.granted
           /\ [l EXCEPT !.at = s].verify = l.verify
           /\ [l EXCEPT !.at = s].checked = l.checked
  BY DEF Logs

\* A login that gives up before it saves.
LEMMA FailKeeps ==
    ASSUME LoginTypes, LoginInv, NEW a \in Attempts, Goto(a, "failed"),
           att[a].at \in {"asking", "polling", "granted"},
           WizardTyped', job' = job, NEW kind \in {"code", "done"}, Send(a, kind, FALSE)
    PROVE  LoginTypes' /\ LoginInv' /\ Stable
<1> DEFINE r == [att[a] EXCEPT !.at = "failed"]
<1>1. att[a] \in Logs /\ att[a].elapsed <= PollTimeout /\ att[a].id \in Ids
  BY DEF LoginTypes
<1>2. r \in Logs /\ r.at = "failed" /\ r.id = att[a].id /\ r.elapsed = att[a].elapsed
  BY <1>1, GotoFacts
<1>3. att' = [att EXCEPT ![a] = r]
  BY DEF Goto
<1> HIDE DEF r
<1>4. /\ inbox' \subseteq Answers
      /\ \A m \in inbox' : m \in inbox \/ m = [kind |-> kind, of |-> a, ok |-> FALSE]
  BY SendFacts
<1>5. \A m \in inbox' : Codes(m) => m \in inbox /\ m.of # a
  <2>1. ~Codes([kind |-> kind, of |-> a, ok |-> FALSE])
    BY DEF Codes
  <2> QED
    BY <1>4, <2>1, OldCodes
<1> QED
  BY <1>1, <1>2, <1>3, <1>4, <1>5, EarlyKeeps

LEMMA StartLoginKeeps ==
    ASSUME LoginTypes, LoginInv, NEW a \in Attempts, NEW login \in Logins, StartLogin(a, login)
    PROVE  LoginTypes' /\ LoginInv' /\ Stable
<1> DEFINE r == [att[a] EXCEPT !.at = "asking", !.id = login.id, !.force = login.force, !.verify = login.verify]
<1>1. att[a] \in Logs /\ att[a].elapsed <= PollTimeout /\ att[a].at = "off"
  BY DEF LoginTypes, StartLogin
<1>2. login.id \in Ids /\ login.force \in BOOLEAN /\ login.verify \in BOOLEAN
  BY CommandAssumption
<1>3. r \in Logs /\ r.at = "asking" /\ r.id = login.id /\ r.elapsed = att[a].elapsed
  BY <1>1, <1>2 DEF Logs
<1>4. att' = [att EXCEPT ![a] = r] /\ inbox' = inbox /\ job' = job
  BY DEF StartLogin
<1> HIDE DEF r
<1>5. WizardTyped'
  <2>1. wizard' = wizard \/ wizard' = [shows |-> a, holds |-> a]
    BY DEF StartLogin
  <2>2. a # None
    BY ConfigAssumption DEF None
  <2> QED
    BY <2>1, <2>2 DEF WizardTyped, LoginTypes
<1>6. inbox' \subseteq Answers /\ \A m \in inbox' : Codes(m) => m \in inbox /\ m.of # a
  BY <1>1, <1>4, OldCodes DEF LoginTypes
<1> QED
  BY <1>1, <1>2, <1>3, <1>4, <1>5, <1>6, EarlyKeeps

LEMMA RequestKeeps ==
    ASSUME LoginTypes, LoginInv, NEW a \in Attempts, RequestDeviceCode(a)
    PROVE  LoginTypes' /\ LoginInv' /\ Stable
<1>1. /\ att[a].at = "asking" /\ wizard' = wizard /\ job' = job
  BY DEF RequestDeviceCode
<1>2. WizardTyped'
  BY <1>1 DEF LoginTypes, WizardTyped
<1>3. CASE Goto(a, "failed") /\ Send(a, "code", FALSE)
  BY <1>1, <1>2, <1>3, FailKeeps
<1>4. CASE /\ \E interval \in Intervals, expiry \in Expiries :
                att' = [att EXCEPT ![a].at = IF Doors[a] = "wizard" THEN "coded" ELSE "polling",
                                   ![a].interval = EffectiveInterval(interval), ![a].expiry = expiry]
           /\ Send(a, "code", TRUE)
  <2>1. PICK interval \in Intervals, expiry \in Expiries :
                att' = [att EXCEPT ![a].at = IF Doors[a] = "wizard" THEN "coded" ELSE "polling",
                                   ![a].interval = EffectiveInterval(interval), ![a].expiry = expiry]
    BY <1>4
  <2> DEFINE s == IF Doors[a] = "wizard" THEN "coded" ELSE "polling"
             n == EffectiveInterval(interval)
             r == [att[a] EXCEPT !.at = s, !.interval = n, !.expiry = expiry]
  <2>2. n \in Nat /\ expiry \in Nat
    BY ConfigAssumption DEF EffectiveInterval
  <2>3. s \in {"coded", "polling"} /\ (Doors[a] = "wizard" => s = "coded")
    OBVIOUS
  <2>4. att' = [att EXCEPT ![a] = r]
    BY <2>1
  <2>5. att[a] \in Logs /\ att[a].elapsed <= PollTimeout /\ att[a].id \in Ids
    BY <1>1 DEF LoginTypes
  <2> HIDE DEF s, n
  <2>6. r \in Logs /\ r.at = s /\ r.id = att[a].id /\ r.elapsed = att[a].elapsed
    BY <2>2, <2>3, <2>5 DEF Logs
  <2> HIDE DEF r
  <2>7. /\ inbox' \subseteq Answers
        /\ \A m \in inbox' : m \in inbox \/ (m = [kind |-> "code", of |-> a, ok |-> TRUE]
                                             /\ Doors[a] = "wizard")
    BY <1>4, SendFacts
  <2>8. \A m \in inbox' : Codes(m) => (m \in inbox /\ m.of # a) \/ (m.of = a /\ r.at = "coded")
    BY <1>1, <2>3, <2>6, <2>7, OldCodes
  <2>9. r.at # "saving" /\ r.at # "granted" /\ att[a].at \notin {"saving", "saved", "failed"}
    BY <1>1, <2>3, <2>6
  <2> QED
    BY <1>1, <1>2, <2>4, <2>5, <2>6, <2>7, <2>8, <2>9, EarlyKeeps
<1> QED
  BY <1>3, <1>4 DEF RequestDeviceCode

LEMMA PollKeeps ==
    ASSUME LoginTypes, LoginInv, NEW a \in Attempts, Poll(a)
    PROVE  LoginTypes' /\ LoginInv' /\ Stable
<1> DEFINE now == att[a].elapsed + att[a].interval
<1>1. /\ att[a].at = "polling" /\ wizard' = wizard /\ job' = job
  BY DEF Poll
<1>2. WizardTyped'
  BY <1>1 DEF LoginTypes, WizardTyped
<1>3. att[a] \in Logs /\ att[a].elapsed <= PollTimeout /\ att[a].id \in Ids
  BY <1>1 DEF LoginTypes
<1>4. CASE Goto(a, "failed") /\ Send(a, "done", FALSE)
  BY <1>1, <1>2, <1>4, FailKeeps
<1>5. CASE /\ inbox' = inbox
           /\ att' = [att EXCEPT ![a].at = "granted", ![a].granted = TRUE]
  <2> DEFINE r == [att[a] EXCEPT !.at = "granted", !.granted = TRUE]
  <2>1. att' = [att EXCEPT ![a] = r]
    BY <1>5
  <2>2. r \in Logs /\ r.at = "granted" /\ r.granted /\ r.id = att[a].id /\ r.elapsed = att[a].elapsed
    BY <1>3 DEF Logs
  <2> HIDE DEF r
  <2>3. inbox' \subseteq Answers /\ \A m \in inbox' : Codes(m) => m \in inbox /\ m.of # a
    BY <1>1, <1>5, OldCodes DEF LoginTypes
  <2> QED
    BY <1>1, <1>2, <1>3, <2>1, <2>2, <2>3, EarlyKeeps
<1>6. CASE /\ inbox' = inbox /\ ~Late(a, now)
           /\ \E more \in {0, 1} : att' = [att EXCEPT ![a].elapsed = now, ![a].odd = ~@, ![a].interval = @ + more]
  <2>1. PICK more \in {0, 1} : att' = [att EXCEPT ![a].elapsed = now, ![a].odd = ~@, ![a].interval = @ + more]
    BY <1>6
  <2> DEFINE o == ~att[a].odd
             n == att[a].interval + more
             r == [att[a] EXCEPT !.elapsed = now, !.odd = o, !.interval = n]
  <2>2. att' = [att EXCEPT ![a] = r]
    BY <2>1
  <2>3. att[a].elapsed \in Nat /\ att[a].interval \in Nat
    BY <1>3 DEF Logs
  <2>4. now \in Nat /\ n \in Nat /\ o \in BOOLEAN
    BY <2>3
  <2>5. now <= PollTimeout
    <3>1. ~(now > PollTimeout)
      BY <1>6 DEF Late
    <3> HIDE DEF now
    <3> QED
      BY <2>4, <3>1, ConfigAssumption
  <2> HIDE DEF o, n, now
  <2>6. r \in Logs /\ r.at = att[a].at /\ r.id = att[a].id /\ r.elapsed = now
    BY <1>3, <2>4 DEF Logs
  <2> HIDE DEF r
  <2>7. inbox' \subseteq Answers /\ \A m \in inbox' : Codes(m) => m \in inbox /\ m.of # a
    BY <1>1, <1>6, OldCodes DEF LoginTypes
  <2> QED
    BY <1>1, <1>2, <1>3, <2>2, <2>5, <2>6, <2>7, EarlyKeeps
<1> QED
  BY <1>4, <1>5, <1>6 DEF Poll

LEMMA VerifyKeeps ==
    ASSUME FileTypes, LoginTypes, LoginInv, NEW a \in Attempts, NEW ok \in BOOLEAN, VerifyLogin(a, ok)
    PROVE  /\ LoginTypes' /\ LoginInv' /\ Stable
           /\ job' = job \/ (att[a].id \in Ids /\ Sound(att'[a], att[a].id))
<1>1. att[a].at = "granted" /\ wizard' = wizard
  BY DEF VerifyLogin
<1>2. WizardTyped'
  BY <1>1 DEF LoginTypes, WizardTyped
<1>3. att \in [Attempts -> Logs] /\ att[a] \in Logs /\ att[a].elapsed <= PollTimeout /\ att[a].id \in Ids
      /\ att[a].granted
  BY <1>1 DEF LoginTypes, LoginInv
<1>4. CASE Goto(a, "failed") /\ Send(a, "done", FALSE) /\ job' = job
  BY <1>1, <1>2, <1>4, FailKeeps
<1>5. CASE /\ MayStore(a, ok) /\ inbox' = inbox
           /\ att' = [att EXCEPT ![a].at = "saving", ![a].checked = ok]
           /\ job' = [job EXCEPT ![a].todo = <<Connect(att[a].id, att[a].force), Store(att[a].id, a)>>]
  <2> DEFINE r == [att[a] EXCEPT !.at = "saving", !.checked = ok]
  <2>1. att' = [att EXCEPT ![a] = r]
    BY <1>5
  <2>2. /\ r \in Logs /\ r.at = "saving" /\ r.id = att[a].id /\ r.elapsed = att[a].elapsed
        /\ r.granted = att[a].granted /\ r.verify = att[a].verify /\ r.checked = ok
    BY <1>3 DEF Logs
  <2> HIDE DEF r
  <2>3. inbox' \subseteq Answers /\ \A m \in inbox' : Codes(m) => m \in inbox /\ m.of # a
    BY <1>1, <1>5, OldCodes DEF LoginTypes
  <2>4. \A b \in Attempts : b # a => job'[b] = job[b]
    BY <1>5, VerifyAsks, <1>1 DEF Asks, Writers
  <2>5. \A i \in Ids : ~Sound(att[a], i)
    BY <1>1 DEF Sound
  <2>6. LoginTypes' /\ LoginInv' /\ Stable
    BY <1>2, <1>3, <2>1, <2>2, <2>3, <2>4, <2>5, MoveKeeps
  <2>7. att'[a] = r
    BY <1>3, <2>1, <2>2
  <2>8. Sound(r, att[a].id)
    BY <1>3, <1>5, <2>2 DEF Sound, MayStore
  <2> QED
    BY <1>3, <2>6, <2>7, <2>8
<1> QED
  BY <1>4, <1>5 DEF VerifyLogin

LEMMA SavedKeeps ==
    ASSUME LoginTypes, LoginInv, NEW a \in Attempts, LoginSaved(a)
    PROVE  LoginTypes' /\ LoginInv' /\ Stable
<1> DEFINE r == [att[a] EXCEPT !.at = "saved"]
<1>1. /\ att[a].at = "saving" /\ job[a].todo = <<>> /\ wizard' = wizard /\ job' = job
      /\ att' = [att EXCEPT ![a] = r] /\ Send(a, "done", TRUE)
  BY DEF LoginSaved, Goto
<1>2. WizardTyped'
  BY <1>1 DEF LoginTypes, WizardTyped
<1>3. att[a] \in Logs /\ att[a].elapsed <= PollTimeout /\ att[a].id \in Ids
  BY <1>1 DEF LoginTypes
<1>4. /\ r \in Logs /\ r.at = "saved" /\ r.id = att[a].id /\ r.elapsed = att[a].elapsed
      /\ r.granted = att[a].granted /\ r.verify = att[a].verify /\ r.checked = att[a].checked
  BY <1>3, GotoFacts
<1> HIDE DEF r
<1>5. /\ inbox' \subseteq Answers
      /\ \A m \in inbox' : m \in inbox \/ m = [kind |-> "done", of |-> a, ok |-> TRUE]
  BY <1>1, SendFacts
<1>6. \A m \in inbox' : Codes(m) => m \in inbox /\ m.of # a
  <2>1. ~Codes([kind |-> "done", of |-> a, ok |-> TRUE])
    BY DEF Codes
  <2> QED
    BY <1>1, <1>5, <2>1, OldCodes
<1>7. \A b \in Attempts : job'[b].todo # <<>> => b # a /\ job[b].todo # <<>>
  BY <1>1
<1>8. \A i \in Ids : Sound(att[a], i) => Sound(r, i)
  BY <1>4 DEF Sound
<1> QED
  BY <1>1, <1>2, <1>3, <1>4, <1>5, <1>6, <1>7, <1>8, MoveKeeps
\* Closing the wizard marks the login it holds, if it holds one.
LEMMA CloseKeeps ==
    ASSUME LoginTypes, LoginInv, CancelLoginWith(att), job' = job, inbox' \subseteq inbox
    PROVE  LoginTypes' /\ LoginInv' /\ Stable
<1>1. wizard' = [shows |-> None, holds |-> None]
  BY DEF CancelLoginWith, Closed
<1>2. WizardTyped'
  BY <1>1 DEF WizardTyped
<1>3. CASE wizard.holds = None
  BY <1>2, <1>3, IdleKeeps DEF CancelLoginWith
<1>4. CASE wizard.holds # None
  <2>1. wizard.holds \in Attempts
    BY <1>4 DEF LoginTypes
  <2>2. att' = [att EXCEPT ![wizard.holds].cancelled = TRUE]
    BY <1>4 DEF CancelLoginWith
  <2> QED
    BY <1>2, <2>1, <2>2, CancelKeeps
<1> QED
  BY <1>3, <1>4

LEMMA FinishLoginCodeKeeps ==
    ASSUME LoginTypes, LoginInv, NEW m \in inbox, FinishLoginCode(m)
    PROVE  LoginTypes' /\ LoginInv' /\ Stable
<1>1. /\ m.kind = "code" /\ inbox' = inbox \ {m} /\ job' = job /\ inbox' \subseteq inbox
  BY DEF FinishLoginCode
<1>2. CASE UNCHANGED <<wizard, att>>
  <2>1. WizardTyped'
    BY <1>2 DEF LoginTypes, WizardTyped
  <2> QED
    BY <1>1, <1>2, <2>1, IdleKeeps
<1>3. CASE CancelLoginWith(att)
  BY <1>1, <1>3, CloseKeeps
<1>4. CASE /\ wizard # Closed /\ m.ok
           /\ att' = [att EXCEPT ![m.of].at = "polling", ![m.of].cancelled = FALSE]
           /\ wizard' = [wizard EXCEPT !.holds = m.of]
  <2> DEFINE a == m.of
             r == [att[a] EXCEPT !.at = "polling", !.cancelled = FALSE]
  <2>1. inbox \subseteq Answers /\ a \in Attempts
    BY DEF LoginTypes, Answers
  <2>2. att[a].at = "coded"
    BY <1>1, <1>4 DEF LoginInv
  <2>3. att[a] \in Logs /\ att[a].elapsed <= PollTimeout /\ att[a].id \in Ids
    BY <2>1, <2>2 DEF LoginTypes
  <2>4. r \in Logs /\ r.at = "polling" /\ r.id = att[a].id /\ r.elapsed = att[a].elapsed
    BY <2>3 DEF Logs
  <2>5. att' = [att EXCEPT ![a] = r]
    BY <1>4
  <2>6. WizardTyped'
    <3>1. wizard \in [shows : Attempts \cup {None}, holds : Attempts \cup {None}]
          /\ (wizard.shows = None => wizard.holds = None)
      BY DEF LoginTypes
    <3>2. wizard.shows # None
      <4>1. wizard = [shows |-> wizard.shows, holds |-> wizard.holds]
        BY <3>1
      <4> QED
        BY <1>4, <3>1, <4>1 DEF Closed
    <3>3. /\ wizard' \in [shows : Attempts \cup {None}, holds : Attempts \cup {None}]
          /\ wizard'.shows = wizard.shows
      BY <1>4, <2>1, <3>1
    <3> QED
      BY <3>2, <3>3 DEF WizardTyped
  <2> HIDE DEF r
  <2>7. \A x \in inbox' : Codes(x) => x \in inbox /\ x.of # a
    <3> SUFFICES ASSUME NEW x \in inbox', Codes(x), x.of = a PROVE FALSE
      BY <1>1
    <3>1. x \in Answers /\ m \in Answers
      BY <1>1, <2>1
    <3>2. x.kind = m.kind /\ x.of = m.of
      BY <1>1 DEF Codes
    <3>3. x.ok = m.ok
      <4>1. x.ok \in BOOLEAN /\ m.ok \in BOOLEAN
        BY <3>1 DEF Answers
      <4> QED
        BY <1>4, <4>1 DEF Codes
    <3>4. /\ x = [kind |-> x.kind, of |-> x.of, ok |-> x.ok]
          /\ m = [kind |-> m.kind, of |-> m.of, ok |-> m.ok]
      BY <3>1 DEF Answers
    <3>5. x = m
      BY <3>2, <3>3, <3>4
    <3> QED
      BY <1>1, <3>5
  <2>8. inbox' \subseteq Answers
    BY <1>1, <2>1
  <2> QED
    BY <1>1, <2>1, <2>2, <2>3, <2>4, <2>5, <2>6, <2>7, <2>8, EarlyKeeps
<1> QED
  BY <1>2, <1>3, <1>4 DEF FinishLoginCode

LEMMA FinishLoginKeeps ==
    ASSUME LoginTypes, LoginInv, NEW m \in inbox, FinishLogin(m)
    PROVE  LoginTypes' /\ LoginInv' /\ Stable
<1>1. /\ inbox' \subseteq inbox /\ job' = job
  BY DEF FinishLogin
<1>2. CASE UNCHANGED <<wizard, att>>
  <2>1. WizardTyped'
    BY <1>2 DEF LoginTypes, WizardTyped
  <2> QED
    BY <1>1, <1>2, <2>1, IdleKeeps
<1>3. CASE CancelLoginWith(att)
  BY <1>1, <1>3, CloseKeeps
<1> QED
  BY <1>2, <1>3 DEF FinishLogin

LEMMA KillKeeps ==
    ASSUME FileTypes, LoginTypes, LoginInv, NEW w \in Writers, Kill(w)
    PROVE  LoginTypes' /\ LoginInv' /\ Stable
<1> DEFINE W == IF w \in Attempts /\ Doors[w] = "wizard" THEN {a \in Attempts : Doors[a] = "wizard"}
                ELSE {w} \cap Attempts
           L(a) == [att[a] EXCEPT !.at = "failed"]
<1>1. /\ job' = [v \in Writers |-> IF v \in W \cup {w} THEN NoJob ELSE job[v]]
      /\ att' = [a \in Attempts |-> IF a \in W /\ att[a].at # "off" THEN L(a) ELSE att[a]]
      /\ wizard' = IF wizard.shows \in W THEN Closed ELSE wizard
      /\ inbox' = {m \in inbox : m.of \notin W}
  BY DEF Kill
<1>2. W \subseteq Attempts /\ (w \in Attempts => w \in W) /\ Attempts \subseteq Writers
  BY DEF Writers
<1>3. att \in [Attempts -> Logs] /\ inbox \subseteq Answers
  BY DEF LoginTypes
<1>4. ASSUME NEW a \in Attempts
      PROVE  /\ L(a) \in Logs /\ L(a).at = "failed" /\ L(a).id = att[a].id /\ L(a).elapsed = att[a].elapsed
             /\ L(a).granted = att[a].granted /\ L(a).verify = att[a].verify /\ L(a).checked = att[a].checked
  <2>1. att[a] \in Logs
    BY <1>3
  <2> QED
    BY <2>1, GotoFacts
<1> HIDE DEF W, L
<1>5. ASSUME NEW a \in Attempts
      PROVE  /\ att'[a] = L(a) \/ att'[a] = att[a]
             /\ a \notin W => att'[a] = att[a]
  BY <1>1
<1>6. att' \in [Attempts -> Logs]
  BY <1>1, <1>3, <1>4
<1>7. LoginTypes'
  <2>1. \A a \in Attempts : att'[a].elapsed <= PollTimeout /\ (att'[a].at # "off" => att'[a].id \in Ids)
    <3> SUFFICES ASSUME NEW a \in Attempts
                 PROVE  att'[a].elapsed <= PollTimeout /\ (att'[a].at # "off" => att'[a].id \in Ids)
      OBVIOUS
    <3>1. att[a].elapsed <= PollTimeout /\ (att[a].at # "off" => att[a].id \in Ids)
      BY DEF LoginTypes
    <3>2. CASE att'[a] = att[a]
      BY <3>1, <3>2
    <3>3. CASE a \in W /\ att[a].at # "off"
      <4>1. att'[a] = L(a)
        BY <1>1, <3>3
      <4> QED
        BY <1>4, <3>1, <3>3, <4>1
    <3> QED
      BY <1>1, <3>2, <3>3
  <2>2. WizardTyped'
    BY <1>1 DEF WizardTyped, LoginTypes, Closed
  <2>3. inbox' \subseteq Answers
    BY <1>1, <1>3
  <2> QED
    BY <1>6, <2>1, <2>2, <2>3 DEF LoginTypes, WizardTyped
<1>8. LoginInv'
  <2>1. ASSUME NEW a \in Attempts, job'[a].todo # <<>> PROVE att'[a].at = "saving"
    <3>1. a \in Writers
      BY <1>2
    <3>2. a \notin W /\ job'[a] = job[a]
      BY <1>1, <2>1, <3>1, NoJobFacts
    <3> QED
      BY <1>5, <2>1, <3>2 DEF LoginInv
  <2>2. ASSUME NEW a \in Attempts, att'[a].at = "granted" PROVE att'[a].granted
    BY <1>4, <1>5, <2>2 DEF LoginInv
  <2>3. ASSUME NEW m \in inbox', m.kind = "code", m.ok PROVE att'[m.of].at = "coded"
    <3>1. m \in inbox /\ m.of \notin W /\ m.of \in Attempts
      BY <1>1, <1>3 DEF Answers
    <3> QED
      BY <1>5, <2>3, <3>1 DEF LoginInv
  <2> QED
    BY <2>1, <2>2, <2>3 DEF LoginInv
<1>9. Stable
  BY <1>4, <1>5 DEF Stable, Sound
<1> QED
  BY <1>7, <1>8, <1>9

LEMMA LoginsKept ==
    ASSUME FileTypes, LoginTypes, LoginInv, Next
    PROVE  LoginTypes' /\ LoginInv' /\ Stable
<1>1. ASSUME NEW w \in Writers, EditOf(w) PROVE LoginTypes' /\ LoginInv' /\ Stable
  <2>1. att' = att /\ wizard' = wizard /\ inbox' = inbox /\ job[w].todo # <<>>
    BY <1>1 DEF EditOf, Read, SaveProviderConnection, DisableProviderConnection, SetEntry,
       OfferDefaultModel, SaveCredential, ForgetCredential, Pass, WriteConf, Held
  <2>2. \A v \in Writers : v # w => job'[v] = job[v]
    <3>1. CASE Read(w)
      BY <3>1, ReadsFacts DEF Reads
    <3>2. CASE OfferDefaultModel(w)
      BY <3>2 DEF OfferDefaultModel, Pass, Done, FileTypes
    <3>3. CASE SaveProviderConnection(w) \/ DisableProviderConnection(w) \/ SetEntry(w)
                 \/ SaveCredential(w) \/ ForgetCredential(w)
      <4>1. Done(w)
        BY <3>3 DEF SaveProviderConnection, DisableProviderConnection, SetEntry, SaveCredential,
           ForgetCredential, Pass, WriteConf
      <4> QED
        BY <4>1 DEF Done, FileTypes
    <3> QED
      BY <1>1, <3>1, <3>2, <3>3 DEF EditOf
  <2>3. WizardTyped'
    BY <2>1 DEF LoginTypes, WizardTyped
  <2>4. \A b \in Attempts : job'[b].todo # <<>> => job[b].todo # <<>>
    BY <2>1, <2>2 DEF Writers
  <2> QED
    BY <2>1, <2>3, <2>4, IdleKeeps
<1>2. ASSUME NEW p \in Programs, NEW cmd \in Commands, Start(p, cmd)
      PROVE  LoginTypes' /\ LoginInv' /\ Stable
  <2>1. att' = att /\ wizard' = wizard /\ inbox' = inbox /\ job' = [job EXCEPT ![p].todo = Edits(cmd)]
    BY <1>2 DEF Start
  <2>2. \A b \in Attempts : b # p /\ b \in Writers
    BY ConfigAssumption DEF Writers
  <2>3. \A b \in Attempts : job'[b] = job[b]
    BY <2>1, <2>2 DEF FileTypes
  <2>4. WizardTyped'
    BY <2>1 DEF LoginTypes, WizardTyped
  <2> QED
    BY <2>1, <2>3, <2>4, IdleKeeps
<1>3. ASSUME NEW all \in BOOLEAN, Reset(all) PROVE LoginTypes' /\ LoginInv' /\ Stable
  <2>1. att' = att /\ wizard' = wizard /\ inbox' = inbox /\ job' = job
    BY <1>3 DEF Reset
  <2>2. WizardTyped'
    BY <2>1 DEF LoginTypes, WizardTyped
  <2> QED
    BY <2>1, <2>2, IdleKeeps
<1>4. CASE CancelLogin
  <2>1. CancelLoginWith(att) /\ job' = job /\ inbox' \subseteq inbox
    BY <1>4 DEF CancelLogin
  <2> QED
    BY <2>1, CloseKeeps
<1>5. ASSUME NEW a \in Attempts, Interrupt(a) PROVE LoginTypes' /\ LoginInv' /\ Stable
  <2>1. /\ att' = [att EXCEPT ![a].cancelled = TRUE]
        /\ wizard' = wizard /\ inbox' = inbox /\ job' = job
    BY <1>5 DEF Interrupt
  <2>2. WizardTyped'
    BY <2>1 DEF LoginTypes, WizardTyped
  <2> QED
    BY <2>1, <2>2, CancelKeeps
<1> QED
  BY <1>1, <1>2, <1>3, <1>4, <1>5, KillKeeps, StartLoginKeeps, RequestKeeps, PollKeeps, VerifyKeeps,
     SavedKeeps, FinishLoginCodeKeeps, FinishLoginKeeps DEF Next
(* The keys a command stores are typed.                                    *)
LEMMA CommandKeys ==
    ASSUME NEW cmd \in Commands
    PROVE  \A n \in 1..Len(Edits(cmd)) : Edits(cmd)[n].op = "store" => Edits(cmd)[n].key = "typed"
<1>1. CASE cmd \in [do : {"add"}, id : Ids, force : BOOLEAN, verify : BOOLEAN]
  <2> DEFINE x == Connect(cmd.id, cmd.force)
             y == Store(cmd.id, "typed")
             z == Offer(cmd.id)
  <2>1. x.op = "connect" /\ y.key = "typed" /\ z.op = "offer"
    BY DEF Connect, Store, Offer
  <2>2. cmd.do = "add"
    BY <1>1
  <2>3. Edits(cmd) = IF cmd.verify THEN <<x, y, z>> ELSE <<x, y>>
    BY <2>2 DEF Edits, Add
  <2> HIDE DEF x, y, z
  <2>4. CASE Edits(cmd) = <<x, y, z>>
    <3>1. \A n \in 1..3 : n = 1 \/ n = 2 \/ n = 3
      OBVIOUS
    <3>2. Len(<<x, y, z>>) = 3 /\ <<x, y, z>>[1] = x /\ <<x, y, z>>[2] = y /\ <<x, y, z>>[3] = z
      OBVIOUS
    <3> QED
      BY <2>1, <2>4, <3>1, <3>2
  <2>5. CASE Edits(cmd) = <<x, y>>
    <3>1. \A n \in 1..2 : n = 1 \/ n = 2
      OBVIOUS
    <3>2. Len(<<x, y>>) = 2 /\ <<x, y>>[1] = x /\ <<x, y>>[2] = y
      OBVIOUS
    <3> QED
      BY <2>1, <2>5, <3>1, <3>2
  <2> QED
    BY <2>3, <2>4, <2>5
<1>2. CASE cmd \in [do : {"remove"}, id : Ids]
  <2> DEFINE x == Disable(cmd.id)
             y == Forget(cmd.id)
  <2>1. x.op = "disable" /\ y.op = "forget"
    BY DEF Disable, Forget
  <2>2. cmd.do = "remove"
    BY <1>2
  <2>3. Edits(cmd) = <<x, y>>
    BY <2>2 DEF Edits, Remove
  <2> HIDE DEF x, y
  <2>4. \A n \in 1..2 : n = 1 \/ n = 2
    OBVIOUS
  <2>5. Len(<<x, y>>) = 2 /\ <<x, y>>[1] = x /\ <<x, y>>[2] = y
    OBVIOUS
  <2> QED
    BY <2>1, <2>3, <2>4, <2>5
<1>3. CASE cmd \in [do : {"set"}, roles : Seq(Keys), value : Ids \cup {None, "v1", "v2"}]
  <2>1. cmd.do = "set" /\ cmd.roles \in Seq(Keys)
    BY <1>3
  <2> DEFINE s == [n \in 1..Len(cmd.roles) |-> Set(cmd.roles[n], cmd.value)]
  <2>2. DOMAIN cmd.roles = 1..Len(cmd.roles) /\ Len(cmd.roles) \in Nat
    BY <2>1
  <2>3. Edits(cmd) = s
    BY <2>1, <2>2 DEF Edits, SetModels
  <2>4. \A n \in 1..Len(cmd.roles) : s[n].op = "set"
    BY DEF Set
  <2>5. Len(s) = Len(cmd.roles)
    BY <2>2
  <2> HIDE DEF s
  <2> QED
    BY <2>3, <2>4, <2>5
<1> QED
  BY <1>1, <1>2, <1>3, CommandAssumption

LEMMA KindsOfStep ==
    ASSUME FileTypes, LoginTypes, LoginInv, Next
    PROVE  StepKinds
<1>1. ASSUME NEW p \in Programs, NEW cmd \in Commands, Start(p, cmd)
      PROVE  StepKinds
  <2>1. Edits(cmd) \in Seq(EditSet) /\ Chained(Edits(cmd)) /\ Begins(Edits(cmd))
    BY CommandFacts
  <2>2. p \in Writers /\ job[p].todo = <<>> /\ job' = [job EXCEPT ![p].todo = Edits(cmd)]
        /\ Spare
    BY <1>1 DEF Writers, Start, Spare, history
  <2>3. Asks(p, Edits(cmd))
    BY <2>1, <2>2, AsksFacts
  <2>4. Owns(Edits(cmd))
    <3>1. "typed" \notin Attempts
      BY ConfigAssumption
    <3> QED
      BY <3>1, CommandKeys DEF Owns
  <2> QED
    BY <2>1, <2>2, <2>3, <2>4 DEF StepKinds
<1>2. ASSUME NEW w \in Writers, EditOf(w)
      PROVE  StepKinds
  BY <1>2, EditKind
<1>3. ASSUME NEW w \in Writers, Kill(w)
      PROVE  StepKinds
  <2>1. PICK W : job' = [v \in Writers |-> IF v \in W THEN NoJob ELSE job[v]]
    BY <1>3 DEF Kill
  <2>2. job \in [Writers -> Jobs] /\ NoJob \in Jobs
    BY NoJobFacts DEF FileTypes
  <2>3. job' \in [Writers -> Jobs] /\ \A v \in Writers : job'[v] = job[v] \/ job'[v] = NoJob
    BY <2>1, <2>2
  <2>4. Spare
    BY <1>3 DEF Kill, Spare, history
  <2> QED
    BY <2>3, <2>4 DEF StepKinds, Kills
<1>4. ASSUME NEW all \in BOOLEAN, Reset(all)
      PROVE  StepKinds
  <2>1. Clears(all)
    BY <1>4 DEF Reset, Clears
  <2> QED
    BY <2>1 DEF StepKinds
<1>5. ASSUME NEW a \in Attempts, NEW ok \in BOOLEAN, VerifyLogin(a, ok)
      PROVE  StepKinds
  <2>1. Spare /\ att[a].at = "granted"
    BY <1>5 DEF VerifyLogin, Spare, history
  <2>2. a \in Writers
    BY DEF Writers
  <2>3. CASE job' = job
    BY <2>1, <2>3 DEF StepKinds
  <2>4. CASE job' # job /\ job' = [job EXCEPT ![a].todo = <<Connect(att[a].id, att[a].force), Store(att[a].id, a)>>]
    <3> DEFINE x == Connect(att[a].id, att[a].force)
               y == Store(att[a].id, a)
    <3>1. Asks(a, <<x, y>>) /\ <<x, y>> \in Seq(EditSet)
      BY <2>1, <2>4, VerifyAsks
    <3>2. Sound(att'[a], att[a].id)
      BY <1>5, <2>4, VerifyKeeps
    <3>3. x.op = "connect" /\ y.key = a /\ y.id = att[a].id
      BY DEF Connect, Store
    <3> HIDE DEF x, y
    <3>4. Len(<<x, y>>) = 2 /\ <<x, y>>[1] = x /\ <<x, y>>[2] = y
      OBVIOUS
    <3>5. \A n \in 1..2 : n = 1 \/ n = 2
      OBVIOUS
    <3>6. Owns(<<x, y>>)
      BY <3>2, <3>3, <3>4, <3>5 DEF Owns
    <3> QED
      BY <2>1, <2>2, <3>1, <3>6 DEF StepKinds
  <2> QED
    BY <1>5, <2>3, <2>4 DEF VerifyLogin
<1>6. ASSUME NEW a \in Attempts,
             (\E login \in Logins : StartLogin(a, login)) \/ RequestDeviceCode(a) \/ Poll(a)
                \/ LoginSaved(a) \/ Interrupt(a)
      PROVE  StepKinds
  <2>1. Spare /\ job' = job
    BY <1>6 DEF StartLogin, RequestDeviceCode, Poll, LoginSaved, Interrupt, Spare, history
  <2> QED
    BY <2>1 DEF StepKinds
<1>7. ASSUME CancelLogin \/ \E m \in inbox : FinishLoginCode(m) \/ FinishLogin(m)
      PROVE  StepKinds
  <2>1. Spare /\ job' = job
    BY <1>7 DEF CancelLogin, FinishLoginCode, FinishLogin, Spare, history
  <2> QED
    BY <2>1 DEF StepKinds
<1> QED
  BY <1>1, <1>2, <1>3, <1>4, <1>5, <1>6, <1>7 DEF Next-----------------------------------------------------------------------------
(* Every key that is stored, read or about to be stored is a login's own and  *)
(* Sound, or was typed.                                                    *)

Granted(l, k) == \A i \in Ids : k[i] \in Attempts => Sound(l[k[i]], i)
Owned(l, s) == \A n \in 1..Len(s) : s[n].op = "store" /\ s[n].key \in Attempts => Sound(l[s[n].key], s[n].id)
Honest(l, j) == Granted(l, j.cred) /\ Owned(l, j.todo)
VerifiedInv == Granted(att, cred) /\ \A w \in Writers : Honest(att, job[w])

LEMMA GrantedStays ==
    ASSUME Stable, NEW k, Granted(att, k)
    PROVE  Granted(att', k)
  BY DEF Stable, Granted

LEMMA OwnedStays ==
    ASSUME Stable, NEW s \in Seq(EditSet), Owned(att, s)
    PROVE  Owned(att', s)
<1> SUFFICES ASSUME NEW n \in 1..Len(s), s[n].op = "store", s[n].key \in Attempts
             PROVE  Sound(att'[s[n].key], s[n].id)
  BY DEF Owned
<1>1. s[n] \in EditSet
  OBVIOUS
<1>2. s[n].id \in Ids
  BY <1>1, EditKinds
<1> QED
  BY <1>2 DEF Owned, Stable

LEMMA TailOwned ==
    ASSUME NEW l, NEW s \in Seq(EditSet), s # <<>>, Owned(l, s)
    PROVE  /\ Owned(l, Tail(s))
           /\ Head(s).op = "store" /\ Head(s).key \in Attempts => Sound(l[Head(s).key], Head(s).id)
<1>1. /\ Len(Tail(s)) = Len(s) - 1 /\ Len(s) \in Nat /\ Len(s) >= 1 /\ Head(s) = s[1]
      /\ \A n \in 1..(Len(s) - 1) : Tail(s)[n] = s[n + 1]
  BY TailFacts
<1> DEFINE t == Tail(s)
<1> HIDE DEF t
<1>2. Owned(l, t)
  <2> SUFFICES ASSUME NEW n \in 1..Len(t), t[n].op = "store", t[n].key \in Attempts
               PROVE  Sound(l[t[n].key], t[n].id)
    BY DEF Owned
  <2>1. n \in 1..(Len(s) - 1) /\ n + 1 \in 1..Len(s)
    BY <1>1 DEF t
  <2>2. t[n] = s[n + 1]
    BY <1>1, <2>1 DEF t
  <2> QED
    BY <2>1, <2>2 DEF Owned
<1>3. 1 \in 1..Len(s)
  BY <1>1
<1> QED
  BY <1>1, <1>2, <1>3 DEF Owned, t

LEMMA GrantedWith ==
    ASSUME NEW l, NEW k \in CredFiles, Granted(l, k), NEW i \in Ids, NEW x, x \in Attempts => Sound(l[x], i)
    PROVE  Granted(l, [k EXCEPT ![i] = x])
  BY DEF Granted, CredFiles

LEMMA BlankHonest ==
    ASSUME NEW l
    PROVE  Granted(l, NoKeys) /\ Owned(l, <<>>) /\ Honest(l, NoJob)
<1>1. None \notin Attempts
  BY ConfigAssumption
<1>2. Granted(l, NoKeys)
  BY <1>1, BlankFacts DEF Granted
<1>3. Owned(l, <<>>)
  BY DEF Owned
<1> QED
  BY <1>2, <1>3, NoJobFacts DEF Honest

\* What nobody touched stays honest.
LEMMA HonestStays ==
    ASSUME FileTypes, VerifiedInv, Stable
    PROVE  Granted(att', cred) /\ \A v \in Writers : Honest(att', job[v])
<1>1. Granted(att', cred)
  BY GrantedStays DEF VerifiedInv
<1>2. ASSUME NEW v \in Writers PROVE Honest(att', job[v])
  <2>1. job[v].todo \in Seq(EditSet) /\ Granted(att, job[v].cred) /\ Owned(att, job[v].todo)
    BY DEF FileTypes, Jobs, VerifiedInv, Honest
  <2> QED
    BY <2>1, GrantedStays, OwnedStays DEF Honest
<1> QED
  BY <1>1, <1>2

LEMMA TurnsHonest ==
    ASSUME NEW w \in Writers, NEW X, Turns(w, X), Owned(att', X), \A v \in Writers : Honest(att', job[v])
    PROVE  \A v \in Writers : Honest(att', job'[v])
<1>1. Honest(att', job'[w])
  BY BlankHonest DEF Turns, Honest
<1> QED
  BY <1>1 DEF Turns

LEMMA ActsHonest ==
    ASSUME FileTypes, VerifiedInv, Stable, NEW w \in Writers, NEW op, Acts(w, op)
    PROVE  /\ \A v \in Writers : Honest(att', job'[v])
           /\ Edit(w).op = "store" /\ Edit(w).key \in Attempts => Sound(att'[Edit(w).key], Edit(w).id)
           /\ Granted(att', job[w].cred) /\ job[w].cred \in CredFiles
<1>1. \A v \in Writers : Honest(att', job[v])
  BY HonestStays
<1>2. job[w].todo \in Seq(EditSet) /\ job[w].todo # <<>> /\ job[w].cred \in CredFiles
  BY DEF FileTypes, Jobs, Acts
<1>3. Owned(att', job[w].todo) /\ Granted(att', job[w].cred)
  BY <1>1 DEF Honest
<1>4. /\ Owned(att', Tail(job[w].todo))
      /\ Edit(w).op = "store" /\ Edit(w).key \in Attempts => Sound(att'[Edit(w).key], Edit(w).id)
  BY <1>2, <1>3, TailOwned DEF Edit
<1>5. Turns(w, Tail(job[w].todo))
  BY DEF Acts
<1> QED
  BY <1>1, <1>2, <1>3, <1>4, <1>5, TurnsHonest

LEMMA VerifiedKept ==
    ASSUME FileTypes, VerifiedInv, StepKinds, Stable
    PROVE  VerifiedInv'
<1> SUFFICES Granted(att', cred') /\ \A v \in Writers : Honest(att', job'[v])
  BY DEF VerifiedInv
<1>1. Granted(att', cred) /\ \A v \in Writers : Honest(att', job[v])
  BY HonestStays
<1>2. ASSUME NEW w \in Writers, Spare, Reads(w)
      PROVE  Granted(att', cred') /\ \A v \in Writers : Honest(att', job'[v])
  <2>1. /\ cred' = cred /\ job'[w].todo = job[w].todo
        /\ job'[w].cred = cred \/ job'[w].cred = job[w].cred
        /\ \A v \in Writers : v # w => job'[v] = job[v]
    BY <1>2 DEF Spare, Reads
  <2> QED
    BY <1>1, <2>1 DEF Honest
<1>3. ASSUME NEW w \in Writers, NEW X \in Seq(EditSet), Spare, Asks(w, X), Owns(X)
      PROVE  Granted(att', cred') /\ \A v \in Writers : Honest(att', job'[v])
  <2>1. /\ cred' = cred /\ job'[w].todo = X /\ job'[w].cred = job[w].cred
        /\ \A v \in Writers : v # w => job'[v] = job[v]
    BY <1>3 DEF Spare, Asks
  <2>2. Owned(att', X)
    BY <1>3 DEF Owns, Owned
  <2> QED
    BY <1>1, <2>1, <2>2 DEF Honest
<1>4. ASSUME NEW w \in Writers, NEW X \in Seq(EditSet), Passes(w, X)
      PROVE  Granted(att', cred') /\ \A v \in Writers : Honest(att', job'[v])
  <2>1. cred' = cred /\ Turns(w, X) /\ job[w].todo # <<>> /\ job[w].todo \in Seq(EditSet)
    BY <1>4 DEF Passes, Spare, FileTypes, Jobs
  <2>2. Owned(att', job[w].todo)
    BY <1>1 DEF Honest
  <2>3. Owned(att', X)
    <3>1. CASE X = Tail(job[w].todo)
      BY <2>1, <2>2, <3>1, TailOwned
    <3>2. CASE \A n \in 1..Len(X) : X[n].op # "store"
      BY <3>2 DEF Owned
    <3> QED
      BY <1>4, <3>1, <3>2 DEF Passes
  <2> QED
    BY <1>1, <2>1, <2>3, TurnsHonest
<1>5. ASSUME NEW w \in Writers, Connects(w) \/ Disables(w) \/ Sets(w)
      PROVE  Granted(att', cred') /\ \A v \in Writers : Honest(att', job'[v])
  <2>1. PICK op : Acts(w, op) /\ cred' = cred
    BY <1>5 DEF Connects, Disables, Sets, Rewrites
  <2> QED
    BY <1>1, <2>1, ActsHonest
<1>6. ASSUME NEW w \in Writers, Stores(w)
      PROVE  Granted(att', cred') /\ \A v \in Writers : Honest(att', job'[v])
  <2>1. /\ Acts(w, "store") /\ Edit(w).op = "store" /\ Edit(w).id \in Ids
        /\ cred' = [job[w].cred EXCEPT ![Edit(w).id] = Edit(w).key]
    BY <1>6 DEF Stores, Acts
  <2> QED
    BY <2>1, ActsHonest, GrantedWith
<1>7. ASSUME NEW w \in Writers, Forgets(w)
      PROVE  Granted(att', cred') /\ \A v \in Writers : Honest(att', job'[v])
  <2>1. /\ Acts(w, "forget") /\ Edit(w).id \in Ids
        /\ cred' = cred \/ cred' = [job[w].cred EXCEPT ![Edit(w).id] = None]
    BY <1>7 DEF Forgets
  <2>2. None \notin Attempts
    BY ConfigAssumption
  <2> QED
    BY <1>1, <2>1, <2>2, ActsHonest, GrantedWith
<1>8. ASSUME NEW all \in BOOLEAN, Clears(all)
      PROVE  Granted(att', cred') /\ \A v \in Writers : Honest(att', job'[v])
  BY <1>1, <1>8, BlankHonest DEF Clears
<1>9. ASSUME Kills
      PROVE  Granted(att', cred') /\ \A v \in Writers : Honest(att', job'[v])
  BY <1>1, <1>9, BlankHonest DEF Kills, Spare
<1>10. CASE Spare /\ job' = job
  BY <1>1, <1>10 DEF Spare
<1> QED
  BY <1>2, <1>3, <1>4, <1>5, <1>6, <1>7, <1>8, <1>9, <1>10 DEF StepKinds

-----------------------------------------------------------------------------
(* The theorems.                                                           *)

ConfigInv == FileTypes /\ LoginTypes /\ LoginInv /\ NothingLost /\ AloneInv /\ VerifiedInv

LEMMA ConfigInit ==
    ASSUME Init
    PROVE  ConfigInv
<1>1. /\ conf \in FirstFiles /\ conf \in Files /\ cred = NoKeys /\ cred \in CredFiles
      /\ given = NoKeys /\ wrote = conf.keys /\ wrote \in [Keys -> Values]
      /\ raced = FALSE /\ overlapped = FALSE /\ half = {} /\ bare = {}
      /\ inbox = {} /\ wizard = Closed
  BY ConfigAssumption, BlankFacts DEF Init, Files, Values
<1>2. /\ job \in [Writers -> Jobs]
      /\ \A w \in Writers : job[w] = NoJob /\ job[w].todo = <<>> /\ job[w].held = FALSE
  BY NoJobFacts DEF Init
<1>3. \A a \in Attempts : att[a] = NoAttempt
  BY DEF Init
<1>4. NoAttempt \in Logs /\ NoAttempt.at = "off" /\ NoAttempt.elapsed = 0
  BY DEF NoAttempt, Logs
<1>5. att \in [Attempts -> Logs]
  BY <1>4 DEF Init
<1>6. FileTypes
  <2>1. Chained(<<>>)
    BY DEF Chained
  <2> QED
    BY <1>1, <1>2, <2>1 DEF FileTypes
<1>7. LoginTypes
  <2>1. PollTimeout \in Nat
    BY ConfigAssumption
  <2> QED
    BY <1>1, <1>3, <1>4, <1>5, <2>1 DEF LoginTypes, Closed
<1>8. LoginInv
  <2>1. \A a \in Attempts : a \in Writers
    BY DEF Writers
  <2> QED
    BY <1>1, <1>2, <1>3, <1>4, <2>1 DEF LoginInv
<1>9. NothingLost
  BY <1>1 DEF NothingLost
<1>10. AloneInv
  <2>1. Fresh /\ Prepared
    BY <1>2 DEF Fresh, Prepared
  <2>2. Loads(conf, NoKeys) /\ \A i \in Ids : conf.providers[i].base # "preset"
    BY <1>1, FirstAssumption
  <2>3. Backed
    <3> SUFFICES ASSUME NEW i \in Ids, conf.providers[i] = [base |-> "preset", enabled |-> "yes"]
                 PROVE  FALSE
      BY DEF Backed
    <3>1. conf.providers[i].base = "preset"
      OBVIOUS
    <3> QED
      BY <2>2, <3>1
  <2>4. Explained
    BY <1>1, <2>2 DEF Explained, Loads
  <2> QED
    BY <2>1, <2>3, <2>4 DEF AloneInv
<1>11. VerifiedInv
  BY <1>1, <1>2, BlankHonest DEF VerifiedInv
<1> QED
  BY <1>6, <1>7, <1>8, <1>9, <1>10, <1>11 DEF ConfigInv

LEMMA ConfigStep ==
    ASSUME ConfigInv, [Next]_vars
    PROVE  ConfigInv'
<1>1. CASE Next
  <2>1. StepKinds /\ Stable /\ LoginTypes' /\ LoginInv'
    BY <1>1, KindsOfStep, LoginsKept DEF ConfigInv
  <2> QED
    BY <2>1, FileTypesKept, NothingLostKept, AloneKept, VerifiedKept DEF ConfigInv
<1>2. CASE UNCHANGED vars
  <2>1. Spare /\ job' = job /\ att' = att /\ wizard' = wizard /\ inbox' = inbox
    BY <1>2 DEF vars, Spare, history
  <2>2. StepKinds /\ Stable
    BY <2>1 DEF StepKinds, Stable
  <2>3. LoginTypes' /\ LoginInv'
    BY <2>1 DEF ConfigInv, LoginTypes, LoginInv
  <2> QED
    BY <2>2, <2>3, FileTypesKept, NothingLostKept, AloneKept, VerifiedKept DEF ConfigInv
<1> QED
  BY <1>1, <1>2

LEMMA ConfigAlways == Spec => []ConfigInv
<1> QED
  BY ConfigInit, ConfigStep, PTL DEF Spec

(* Whatever the programs, the logins and the kills do, the files hold what    *)
(* the schema knows, each job holds a file, a login has an id and has not     *)
(* waited longer than a device code may be polled (Load, pollLoop).           *)
THEOREM ConfigTypeCorrect == Spec => []TypeOK
<1>1. ASSUME ConfigInv PROVE TypeOK
  <2>1. FileTypes /\ LoginTypes
    BY <1>1 DEF ConfigInv
  <2>2. conf \in Files /\ cred \in [Ids -> Attempts \cup {None, "typed"}]
    BY <2>1 DEF FileTypes, CredFiles, Stored
  <2>3. \A w \in Writers : job[w].conf \in Files
    BY <2>1 DEF FileTypes, Jobs
  <2> QED
    BY <2>1, <2>2, <2>3 DEF TypeOK, LoginTypes
<1> QED
  BY <1>1, ConfigAlways, PTL

(* Edits that race nobody lose nothing; while no two programs edit at once an *)
(* enabled provider has a key or its add was cut, every stored token was      *)
(* granted to its provider and verified unless the person declined it, and    *)
(* the next program's Load succeeds unless a connection was taken away on     *)
(* purpose (SaveProviderConnection, SaveCredential, RemoveCredential, Wait).  *)
THEOREM EditsAlwaysHold == Spec => []EditsHold
<1>1. ASSUME ConfigInv PROVE EditsHold
  <2>1. KeyBacked
    BY <1>1 DEF ConfigInv, AloneInv, Backed, KeyBacked
  <2>2. SavedWasVerified
    BY <1>1 DEF ConfigInv, VerifiedInv, Granted, Sound, SavedWasVerified
  <2>3. StillLoads
    <3> SUFFICES ASSUME ~overlapped, ~Loads(conf, cred) PROVE \E i \in bare : ~Based(conf, i)
      BY DEF StillLoads
    <3>1. Explained
      BY <1>1 DEF ConfigInv, AloneInv
    <3>2. PICK i \in Ids : Declared(conf, cred, i) /\ ~Based(conf, i)
      BY DEF Loads
    <3> QED
      BY <3>1, <3>2 DEF Explained
  <2> QED
    BY <1>1, <2>1, <2>2, <2>3 DEF ConfigInv, EditsHold, KeysAccounted
<1> QED
  BY <1>1, ConfigAlways, PTL
=============================================================================
