--------------------------- MODULE MissionProofs ---------------------------
(* What the guard lets run, and what a session's constraints survive, for    *)
(* every set of callers, requests, configurations and goals.                 *)
EXTENDS Mission, SequenceTheorems, TLAPS

Fields == {"at", "result", "req", "tier", "by", "now", "rules", "scope", "changed"}
Late == {"grant", "review"}

(* What is settled about a call by the places it has passed.                 *)
Passed(g) ==
    LET c == call[g] IN
    /\ DOMAIN c = Fields
    /\ c.at \in {"mission", "scope", "autonomy", "grant", "review"}
    /\ c.result = "none" /\ c.tier \in Tiers
    /\ ~ConfigDenies(c.req)
    /\ c.rules \subseteq missionDeny
    /\ ~c.changed => c.scope = bashScopeAllow
    /\ c.now # "mixed" => c.now = autonomy
    /\ c.at # "mission" => ~MissionHardDeny(c.rules, c.req)
    /\ c.at \notin {"mission", "scope"} =>
        /\ ~c.changed => ~BashScopeHardDeny(c.scope, c.req)
        /\ Mode(c.req, c.tier) # "deny"
    /\ c.at \in Late => (c.now = "Readonly" => c.tier = "Controlled")

(* A call that ran without being always allowed.                            *)
Settled(g) ==
    LET c == call[g] IN
    /\ ~ConfigDenies(c.req)
    /\ ~MissionHardDeny(c.rules, c.req)
    /\ ~c.changed => ~BashScopeHardDeny(c.scope, c.req)
    /\ Mode(c.req, c.tier) # "deny"
    /\ c.now = "Readonly" => c.tier \in {"Safe", "Controlled"}
    /\ c.tier = "Critical" => c.by \in {"person", "config"}
    /\ c.by = "grant" =>
        /\ c.tier = "Sensitive" /\ config.allowSession
        /\ RequestKey(c.req) \in answered
    /\ c.by = "tier" => c.now # "Readonly" \/ c.tier = "Safe"

Returned(g) ==
    /\ call[g].at = "idle" /\ call[g].result \in {"none", "ran", "data", "refused"}
    /\ Ran(g) => Settled(g)

CallInv ==
    /\ DOMAIN call = Callers
    /\ \A g \in Callers : Passed(g) \/ Returned(g)

GrantInv ==
    /\ session \subseteq answered
    /\ session # {} => config.allowSession

TierInv == tiers \in Tierings

GuardInv == CallInv /\ GrantInv /\ TierInv

(* A tier is one of the four.                                               *)
LEMMA TierType == ASSUME TierInv, NEW r PROVE TierFor(r) \in Tiers
<1>1. BashTier(r.command) \in Tiers /\ NativeTier(r.name) \in Tiers
  BY DEF BashTier, NativeTier, Tiers
<1>2. r.name \in DOMAIN tiers => tiers[r.name] \in Tiers
  BY TieringAssumption DEF TierInv
<1> QED
  BY <1>1, <1>2 DEF TierFor

LEMMA GuardInit0 == Init => GuardInv
<1> SUFFICES ASSUME Init PROVE GuardInv
  OBVIOUS
<1>1. PICK c \in Configs : GuardInit(c)
  BY DEF Init
<1>2. DOMAIN call = Callers /\ \A g \in Callers : call[g].at = "idle" /\ call[g].result = "none"
  BY <1>1 DEF GuardInit, Idle
<1> QED
  BY <1>1, <1>2 DEF GuardInit, GuardInv, CallInv, Returned, GrantInv, TierInv, Ran

(* One caller's step, the rest of the guard as it was or with more answers.   *)
LEMMA CallMoves ==
    ASSUME GuardInv, NEW g \in Callers, UNCHANGED <<config, autonomy, tiers, missionDeny, bashScopeAllow>>,
           answered \subseteq answered', GrantInv',
           DOMAIN call' = Callers,
           \A h \in Callers : h # g => call'[h] = call[h],
           Passed(g)' \/ Returned(g)'
    PROVE  GuardInv'
<1>1. ASSUME NEW h \in Callers, h # g, Passed(h) PROVE Passed(h)'
  BY <1>1 DEF Passed, ConfigDenies, Mode
<1>2. ASSUME NEW h \in Callers, h # g, Returned(h) PROVE Returned(h)'
  BY <1>2 DEF Returned, Ran, Settled, ConfigDenies, Mode
<1>3. CallInv'
  BY <1>1, <1>2 DEF GuardInv, CallInv
<1> QED
  BY <1>3 DEF GuardInv, TierInv

-----------------------------------------------------------------------------
(* The three ways a read ends: the call goes on, is denied, or is allowed.    *)
LEMMA Goes ==
    ASSUME GuardInv, NEW g \in Callers, Passed(g), NEW step \in {"scope", "autonomy", "grant", "review"},
           Goto(g, step), UNCHANGED <<guard, answered>>,
           ~MissionHardDeny(call[g].rules, call[g].req),
           step # "scope" =>
              /\ ~call[g].changed => ~BashScopeHardDeny(call[g].scope, call[g].req)
              /\ Mode(call[g].req, call[g].tier) # "deny",
           step \in Late => (call[g].now = "Readonly" => call[g].tier = "Controlled")
    PROVE  GuardInv'
<1>1. DOMAIN call' = Callers /\ \A h \in Callers : h # g => call'[h] = call[h]
  BY DEF Goto, GuardInv, CallInv
<1>2. /\ DOMAIN call'[g] = Fields /\ call'[g].at = step
      /\ \A f \in Fields \ {"at"} : call'[g][f] = call[g][f]
  BY DEF Goto, GuardInv, CallInv, Passed, Fields
<1>3. /\ call'[g].result = call[g].result /\ call'[g].req = call[g].req /\ call'[g].tier = call[g].tier
      /\ call'[g].now = call[g].now /\ call'[g].rules = call[g].rules
      /\ call'[g].scope = call[g].scope /\ call'[g].changed = call[g].changed
  BY <1>2 DEF Fields
<1>4. config' = config /\ autonomy' = autonomy /\ tiers' = tiers /\ missionDeny' = missionDeny
      /\ bashScopeAllow' = bashScopeAllow /\ session' = session /\ answered' = answered
  BY DEF guard
<1>5. Passed(g)'
  BY <1>2, <1>3, <1>4 DEF Passed, ConfigDenies, Mode, Late
<1> QED
  BY <1>1, <1>4, <1>5, CallMoves DEF GuardInv, GrantInv

LEMMA Denies ==
    ASSUME GuardInv, NEW g \in Callers, Passed(g), NEW result \in {"data", "refused"},
           Deny(g, result), UNCHANGED <<guard, answered>>
    PROVE  GuardInv'
<1>1. DOMAIN call' = Callers /\ \A h \in Callers : h # g => call'[h] = call[h]
  BY DEF Deny, GuardInv, CallInv
<1>2. call'[g].at = "idle" /\ call'[g].result = result
  BY DEF Deny, GuardInv, CallInv, Passed, Fields
<1>3. Returned(g)'
  BY <1>2 DEF Returned, Ran
<1> QED
  BY <1>1, <1>2, <1>3, CallMoves DEF guard, GuardInv, GrantInv

LEMMA Allows ==
    ASSUME GuardInv, NEW g \in Callers, Passed(g), NEW by, Allow(g, by),
           UNCHANGED <<config, autonomy, tiers, missionDeny, bashScopeAllow>>,
           answered \subseteq answered', GrantInv',
           call[g].at \notin {"mission", "scope"},
           call[g].now = "Readonly" => call[g].tier \in {"Safe", "Controlled"},
           call[g].tier = "Critical" => by \in {"person", "config"},
           by = "grant" => /\ call[g].tier = "Sensitive" /\ config.allowSession
                           /\ RequestKey(call[g].req) \in answered,
           by = "tier" => call[g].now # "Readonly" \/ call[g].tier = "Safe"
    PROVE  GuardInv'
<1>1. DOMAIN call' = Callers /\ \A h \in Callers : h # g => call'[h] = call[h]
  BY DEF Allow, GuardInv, CallInv
<1>2. /\ call'[g].at = "idle" /\ call'[g].by = by /\ call'[g].result = "ran"
      /\ \A f \in Fields \ {"at", "result", "by"} : call'[g][f] = call[g][f]
  BY DEF Allow, GuardInv, CallInv, Passed, Fields
<1>3. /\ call'[g].req = call[g].req /\ call'[g].tier = call[g].tier
      /\ call'[g].now = call[g].now /\ call'[g].rules = call[g].rules
      /\ call'[g].scope = call[g].scope /\ call'[g].changed = call[g].changed
  BY <1>2 DEF Fields
<1>4. Settled(g)'
  BY <1>2, <1>3 DEF Passed, Settled, ConfigDenies, Mode
<1>5. Returned(g)'
  BY <1>2, <1>4 DEF Returned
<1> QED
  BY <1>1, <1>2, <1>5, CallMoves

LEMMA BeginStep ==
    ASSUME GuardInv, NEW g \in Callers, NEW r \in Requests, Begin(g, r)
    PROVE  GuardInv'
<1>1. UNCHANGED <<config, autonomy, tiers, missionDeny, bashScopeAllow, session, answered>>
  BY DEF Begin
<1>2. DOMAIN InFlight = Callers
  BY DEF InFlight
<1>3. \A h \in Callers : InFlight[h] = IF call[h].at = "idle" THEN Idle ELSE call[h]
  BY DEF InFlight, At
<1>4. /\ DOMAIN call' = Callers
      /\ \A h \in Callers : h # g => call'[h] = IF call[h].at = "idle" THEN Idle ELSE call[h]
  BY <1>2, <1>3 DEF Begin
<1>5. ASSUME NEW h \in Callers, h # g
      PROVE  Passed(h)' \/ Returned(h)'
  <2>1. CASE call[h].at = "idle"
    BY <1>4, <1>5, <2>1 DEF Idle, Returned, Ran
  <2>2. CASE call[h].at # "idle"
    <3>1. Passed(h) /\ call'[h] = call[h]
      BY <1>4, <1>5, <2>2 DEF GuardInv, CallInv, Returned
    <3> QED
      BY <1>1, <3>1 DEF Passed, ConfigDenies, Mode
  <2> QED
    BY <2>1, <2>2
<1>6. Passed(g)' \/ Returned(g)'
  <2>1. CASE r.name = "ask_user" /\ call' = [InFlight EXCEPT ![g] = [Began(r, "idle", "ran") EXCEPT !.by = "always"]]
    <3>1. call'[g] = [Began(r, "idle", "ran") EXCEPT !.by = "always"]
      BY <1>2, <2>1
    <3>2. call'[g].at = "idle" /\ call'[g].result = "ran" /\ call'[g].by = "always"
      BY <3>1 DEF Began
    <3> QED
      BY <3>2 DEF Returned, Ran
  <2>2. CASE call' = [InFlight EXCEPT ![g] = Began(r, "idle", "data")]
    <3>1. call'[g] = Began(r, "idle", "data")
      BY <1>2, <2>2
    <3>2. call'[g].at = "idle" /\ call'[g].result = "data"
      BY <3>1 DEF Began
    <3> QED
      BY <3>2 DEF Returned, Ran
  <2>3. CASE ~ConfigDenies(r) /\ call' = [InFlight EXCEPT ![g] = Began(r, "mission", "none")]
    <3>1. call'[g] = Began(r, "mission", "none")
      BY <1>2, <2>3
    <3>2. /\ DOMAIN call'[g] = Fields /\ call'[g].at = "mission" /\ call'[g].result = "none"
          /\ call'[g].req = r /\ call'[g].tier = TierFor(r)
          /\ call'[g].now = autonomy /\ call'[g].rules = missionDeny /\ call'[g].scope = bashScopeAllow
      BY <3>1 DEF Began, Fields
    <3>3. TierFor(r) \in Tiers
      BY TierType DEF GuardInv
    <3>4. ~ConfigDenies(r)'
      BY <1>1, <2>3 DEF ConfigDenies
    <3> QED
      BY <1>1, <3>2, <3>3, <3>4 DEF Passed, Late
  <2> QED
    BY <2>1, <2>2, <2>3 DEF Begin
<1> QED
  BY <1>1, <1>4, <1>5, <1>6 DEF GuardInv, CallInv, GrantInv, TierInv

LEMMA AuthorizeStep ==
    ASSUME GuardInv, NEW g \in Callers, Authorize(g)
    PROVE  GuardInv'
<1>1. ASSUME call[g].at # "idle" PROVE Passed(g)
  BY <1>1 DEF GuardInv, CallInv, Returned
<1>2. CASE \E r \in Requests : Begin(g, r)
  BY <1>2, BeginStep
<1>3. CASE ReadMission(g)
  <2>1. Passed(g) /\ UNCHANGED <<guard, answered>>
    BY <1>1, <1>3 DEF ReadMission, At, guard
  <2>2. CASE MissionHardDeny(missionDeny, call[g].req) /\ Deny(g, "data")
    BY <2>1, <2>2, Denies
  <2>3. CASE ~MissionHardDeny(missionDeny, call[g].req) /\ Goto(g, "scope")
    <3>1. ~MissionHardDeny(call[g].rules, call[g].req)
      BY <2>1, <2>3 DEF Passed, MissionHardDeny
    <3> QED
      BY <2>1, <2>3, <3>1, Goes DEF Late
  <2> QED
    BY <1>3, <2>2, <2>3 DEF ReadMission
<1>4. CASE ReadScope(g)
  <2>1. Passed(g) /\ call[g].at = "scope" /\ UNCHANGED <<guard, answered>>
    BY <1>1, <1>4 DEF ReadScope, At, guard
  <2>2. CASE Deny(g, "data")
    BY <2>1, <2>2, Denies
  <2>3. CASE /\ ~BashScopeHardDeny(bashScopeAllow, call[g].req)
             /\ Mode(call[g].req, call[g].tier) # "deny"
             /\ Goto(g, "autonomy")
    <3>1. ~MissionHardDeny(call[g].rules, call[g].req)
      BY <2>1 DEF Passed
    <3>2. ~call[g].changed => ~BashScopeHardDeny(call[g].scope, call[g].req)
      BY <2>1, <2>3 DEF Passed
    <3> QED
      BY <2>1, <2>3, <3>1, <3>2, Goes DEF Late
  <2> QED
    BY <1>4, <2>2, <2>3 DEF ReadScope
<1>5. CASE ReadAutonomy(g)
  <2>1. Passed(g) /\ call[g].at = "autonomy" /\ UNCHANGED <<guard, answered>>
    BY <1>1, <1>5 DEF ReadAutonomy, At, guard
  <2>2. GrantInv' /\ UNCHANGED <<config, autonomy, tiers, missionDeny, bashScopeAllow>>
    BY <2>1 DEF GuardInv, GrantInv, guard
  <2>3. call[g].now = "Readonly" => autonomy = "Readonly"
    BY <2>1 DEF Passed
  <2>4. CASE Deny(g, "refused")
    BY <2>1, <2>4, Denies
  <2>5. CASE /\ call[g].tier = "Safe" \/ (autonomy # "Readonly" /\ call[g].tier = "Controlled")
             /\ Allow(g, "tier")
    BY <2>1, <2>2, <2>3, <2>5, Allows
  <2> DEFINE Asks == /\ ~(autonomy = "Readonly" /\ call[g].tier \in {"Sensitive", "Critical"})
                     /\ call[g].tier # "Safe"
  <2>6. ASSUME Asks PROVE call[g].now = "Readonly" => call[g].tier = "Controlled"
    BY <2>1, <2>3, <2>6 DEF Passed, Tiers
  <2>7. CASE Asks /\ Yolo(g) /\ Allow(g, "yolo")
    <3>1. call[g].tier # "Critical"
      BY <2>7 DEF Yolo
    <3> HIDE DEF Asks
    <3> QED
      BY <2>1, <2>2, <2>6, <2>7, <3>1, Allows
  <2>8. CASE Asks /\ Allow(g, "config")
    <3> HIDE DEF Asks
    <3> QED
      BY <2>1, <2>2, <2>6, <2>8, Allows
  <2>9. CASE Asks /\ Goto(g, "grant")
    <3>1. /\ ~MissionHardDeny(call[g].rules, call[g].req)
          /\ ~call[g].changed => ~BashScopeHardDeny(call[g].scope, call[g].req)
          /\ Mode(call[g].req, call[g].tier) # "deny"
      BY <2>1 DEF Passed
    <3> HIDE DEF Asks
    <3> QED
      BY <2>1, <2>6, <2>9, <3>1, Goes
  <2> QED
    BY <1>5, <2>4, <2>5, <2>7, <2>8, <2>9 DEF ReadAutonomy
<1>6. CASE ReadGrant(g)
  <2>1. Passed(g) /\ call[g].at = "grant" /\ UNCHANGED <<guard, answered>>
    BY <1>1, <1>6 DEF ReadGrant, At, guard
  <2>2. GrantInv' /\ UNCHANGED <<config, autonomy, tiers, missionDeny, bashScopeAllow>>
    BY <2>1 DEF GuardInv, GrantInv, guard
  <2>3. call[g].now = "Readonly" => call[g].tier = "Controlled"
    BY <2>1 DEF Passed, Late
  <2>4. CASE Deny(g, "refused")
    BY <2>1, <2>4, Denies
  <2>5. CASE call[g].tier = "Sensitive" /\ RequestKey(call[g].req) \in session /\ Allow(g, "grant")
    <3>1. RequestKey(call[g].req) \in answered /\ config.allowSession
      BY <2>5 DEF GuardInv, GrantInv
    <3> QED
      BY <2>1, <2>2, <2>3, <2>5, <3>1, Allows
  <2>6. CASE Goto(g, "review")
    <3>1. /\ ~MissionHardDeny(call[g].rules, call[g].req)
          /\ ~call[g].changed => ~BashScopeHardDeny(call[g].scope, call[g].req)
          /\ Mode(call[g].req, call[g].tier) # "deny"
      BY <2>1 DEF Passed
    <3> QED
      BY <2>1, <2>3, <2>6, <3>1, Goes
  <2> QED
    BY <1>6, <2>4, <2>5, <2>6 DEF ReadGrant
<1>7. CASE Reviewed(g)
  <2>1. Passed(g) /\ call[g].at = "review" /\ UNCHANGED <<config, autonomy, tiers, missionDeny, bashScopeAllow>>
    BY <1>1, <1>7 DEF Reviewed, At
  <2>2. call[g].now = "Readonly" => call[g].tier = "Controlled"
    BY <2>1 DEF Passed, Late
  <2>3. CASE Deny(g, "refused") /\ UNCHANGED <<session, answered>>
    BY <2>1, <2>3, Denies DEF guard
  <2>4. CASE Allow(g, "person") /\ UNCHANGED <<session, answered>>
    <3>1. GrantInv'
      BY <2>1, <2>4 DEF GuardInv, GrantInv
    <3> QED
      BY <2>1, <2>2, <2>4, <3>1, Allows
  <2>5. CASE /\ Allow(g, "person")
             /\ session' = IF call[g].tier = "Sensitive" /\ config.allowSession
                           THEN session \cup {RequestKey(call[g].req)} ELSE session
             /\ answered' = answered \cup {RequestKey(call[g].req)}
    <3>1. GrantInv'
      BY <2>1, <2>5 DEF GuardInv, GrantInv
    <3> QED
      BY <2>1, <2>2, <2>5, <3>1, Allows
  <2> QED
    BY <1>7, <2>3, <2>4, <2>5 DEF Reviewed
<1> QED
  BY <1>2, <1>3, <1>4, <1>5, <1>6, <1>7 DEF Authorize

-----------------------------------------------------------------------------
(* What others do to the guard leaves a call with what it had settled.       *)
LEMMA SetterStep ==
    ASSUME GuardInv, UNCHANGED <<config, session, answered>>, tiers' \in Tierings,
           missionDeny \subseteq missionDeny', DOMAIN call' = Callers,
           \A g \in Callers : call[g].at = "idle" => call'[g] = Idle,
           \A g \in Callers : call[g].at # "idle" /\ DOMAIN call[g] = Fields =>
              /\ DOMAIN call'[g] = Fields
              /\ \A f \in Fields \ {"changed", "now"} : call'[g][f] = call[g][f]
              /\ call'[g].changed
              /\ \/ call'[g].now = "mixed"
                 \/ call'[g].now = call[g].now /\ (call[g].now = autonomy => call[g].now = autonomy')
    PROVE  GuardInv'
<1>1. ASSUME NEW g \in Callers, call[g].at # "idle" PROVE Passed(g)'
  <2>1. Passed(g)
    BY <1>1 DEF GuardInv, CallInv, Returned
  <2>2. DOMAIN call[g] = Fields
    BY <2>1 DEF Passed
  <2>3. /\ call'[g].at = call[g].at /\ call'[g].result = call[g].result /\ call'[g].req = call[g].req
        /\ call'[g].tier = call[g].tier /\ call'[g].rules = call[g].rules /\ call'[g].scope = call[g].scope
    BY <1>1, <2>2 DEF Fields
  <2>4. DOMAIN call'[g] = Fields /\ call'[g].changed
    BY <1>1, <2>2
  <2>5. \/ call'[g].now = "mixed"
        \/ call'[g].now = call[g].now /\ (call[g].now = autonomy => call[g].now = autonomy')
    BY <1>1, <2>2
  <2>6. call'[g].now # "mixed" => call'[g].now = autonomy'
    BY <2>1, <2>5 DEF Passed
  <2>7. call'[g].at \in Late => (call'[g].now = "Readonly" => call'[g].tier = "Controlled")
    BY <2>1, <2>3, <2>5 DEF Passed
  <2>8. ~ConfigDenies(call[g].req)' /\ (call[g].at \notin {"mission", "scope"} => Mode(call[g].req, call[g].tier)' # "deny")
    BY <2>1, <2>3 DEF Passed, ConfigDenies, Mode
  <2> QED
    BY <2>1, <2>3, <2>4, <2>6, <2>7, <2>8 DEF Passed
<1>2. ASSUME NEW g \in Callers, call[g].at = "idle" PROVE Returned(g)'
  BY <1>2 DEF Returned, Idle, Ran
<1> QED
  BY <1>1, <1>2 DEF GuardInv, CallInv, GrantInv, TierInv

LEMMA SetAutonomyStep == ASSUME GuardInv, NEW a, SetAutonomy(a) PROVE GuardInv'
<1>1. UNCHANGED <<config, session, answered, tiers, missionDeny>> /\ autonomy' = a
  BY DEF SetAutonomy
<1>2. DOMAIN call' = Callers /\ \A g \in Callers : call[g].at = "idle" => call'[g] = Idle
  BY DEF SetAutonomy, At
<1>3. ASSUME NEW g \in Callers, call[g].at # "idle", DOMAIN call[g] = Fields
      PROVE  /\ DOMAIN call'[g] = Fields
             /\ \A f \in Fields \ {"changed", "now"} : call'[g][f] = call[g][f]
             /\ call'[g].changed
             /\ \/ call'[g].now = "mixed"
                \/ call'[g].now = call[g].now /\ (call[g].now = autonomy => call[g].now = autonomy')
  <2>1. call'[g] = [call[g] EXCEPT !.changed = TRUE, !.now = IF @ = a THEN @ ELSE "mixed"]
    BY <1>3 DEF SetAutonomy, At
  <2> QED
    BY <1>1, <1>3, <2>1 DEF Fields
<1> QED
  BY <1>1, <1>2, <1>3, SetterStep DEF GuardInv, TierInv

LEMMA NotedStep ==
    ASSUME GuardInv, call' = Noted, UNCHANGED <<config, session, answered, autonomy>>,
           tiers' \in Tierings, missionDeny \subseteq missionDeny'
    PROVE  GuardInv'
<1>1. DOMAIN call' = Callers /\ \A g \in Callers : call[g].at = "idle" => call'[g] = Idle
  BY DEF Noted, At
<1>2. ASSUME NEW g \in Callers, call[g].at # "idle", DOMAIN call[g] = Fields
      PROVE  /\ DOMAIN call'[g] = Fields
             /\ \A f \in Fields \ {"changed", "now"} : call'[g][f] = call[g][f]
             /\ call'[g].changed
             /\ call'[g].now = call[g].now
  <2>1. call'[g] = [call[g] EXCEPT !.changed = TRUE]
    BY <1>2 DEF Noted, At
  <2> QED
    BY <1>2, <2>1 DEF Fields
<1> QED
  BY <1>1, <1>2, SetterStep

(* A program that starts has no calls and no grants.                        *)
LEMMA RestartStep == ASSUME GuardInv, NEW resumed, Restart(resumed) PROVE GuardInv'
<1>1. session' = {} /\ answered' = {} /\ tiers' \in Tierings
  BY DEF Restart
<1>2. DOMAIN call' = Callers /\ \A g \in Callers : call'[g] = Idle
  BY DEF Restart
<1>3. \A g \in Callers : Returned(g)'
  BY <1>2 DEF Returned, Idle, Ran
<1> QED
  BY <1>1, <1>2, <1>3 DEF GuardInv, CallInv, GrantInv, TierInv

LEMMA GuardKept == ASSUME GuardInv, UNCHANGED guardVars PROVE GuardInv'
<1>1. UNCHANGED <<config, autonomy, tiers, missionDeny, bashScopeAllow, session, call, answered>>
  BY DEF guardVars, guard
<1>2. ASSUME NEW g \in Callers PROVE (Passed(g) => Passed(g)') /\ (Returned(g) => Returned(g)')
  BY <1>1 DEF Passed, Returned, Settled, Ran, ConfigDenies, Mode
<1> QED
  BY <1>1, <1>2 DEF GuardInv, CallInv, GrantInv, TierInv

LEMMA SettersStep ==
    ASSUME GuardInv,
           \/ \E rules : AddMissionRules(rules)
           \/ \E allow : SetBashScope(allow)
           \/ \E t \in Tierings : SetToolTiers(t)
    PROVE  GuardInv'
<1>1. /\ call' = Noted /\ UNCHANGED <<config, session, answered, autonomy>>
      /\ tiers' \in Tierings /\ missionDeny \subseteq missionDeny'
  BY DEF AddMissionRules, SetBashScope, SetToolTiers, GuardInv, TierInv
<1> QED
  BY <1>1, NotedStep

LEMMA GuardStep == GuardInv /\ [Next]_vars => GuardInv'
<1> SUFFICES ASSUME GuardInv, [Next]_vars PROVE GuardInv'
  OBVIOUS
<1>1. CASE \E g \in Callers : Authorize(g)
  BY <1>1, AuthorizeStep
<1>2. CASE \E t \in Tierings : SetToolTiers(t)
  BY <1>2, SettersStep
<1>3. ASSUME NEW w, ResolveTrust(w) \/ PermissionsAutonomy(w) PROVE GuardInv'
  BY <1>3, SetAutonomyStep DEF ResolveTrust, PermissionsAutonomy, SaveAutonomy
<1>4. ASSUME RunTrust \/ (\E w : TrustParent(w)) \/ (\E g : Submit(g)) PROVE GuardInv'
  BY <1>4, GuardKept DEF RunTrust, TrustParent, Submit
<1>5. ASSUME NEW accept, ResolveMission(accept) PROVE GuardInv'
  <2>1. CASE AddMissionRules(DenyRules(goal))
    BY <2>1, SettersStep
  <2>2. CASE UNCHANGED guardVars
    BY <2>2, GuardKept
  <2> QED
    BY <1>5, <2>1, <2>2 DEF ResolveMission
<1>6. ASSUME NEW option, ResolveToolScope(option) PROVE GuardInv'
  BY <1>6, SettersStep DEF ResolveToolScope
<1>7. ASSUME NEW resumed, Restart(resumed) PROVE GuardInv'
  BY <1>7, RestartStep
<1>8. CASE UNCHANGED vars
  BY <1>8, GuardKept DEF vars
<1>9. CASE Person
  BY <1>9, <1>3, <1>4, <1>5, <1>6, <1>7 DEF Person
<1> QED
  BY <1>1, <1>2, <1>8, <1>9 DEF Next

(* Whatever the person, the missions, another program and a sub-agent change  *)
(* between the reads of a call: nothing denied runs, and what runs was        *)
(* earned, for every set of callers, requests and configurations (guard.go,   *)
(* Authorize).                                                              *)
THEOREM OnlyAllowedRuns == Spec => []RunsAllowed
<1>1. Init => GuardInv
  BY GuardInit0
<1>2. GuardInv /\ [Next]_vars => GuardInv'
  BY GuardStep
<1>3. GuardInv => RunsAllowed
  <2> SUFFICES ASSUME GuardInv PROVE RunsAllowed
    OBVIOUS
  <2>1. ASSUME NEW g \in Callers, Ran(g) PROVE Settled(g)
    BY <2>1 DEF GuardInv, CallInv, Passed, Returned, Ran
  <2>2. NothingForbiddenRuns
    BY <2>1 DEF NothingForbiddenRuns, Settled
  <2>3. RunsAreEarned
    BY <2>1 DEF RunsAreEarned, Settled, GuardInv, GrantInv
  <2> QED
    BY <2>2, <2>3 DEF RunsAllowed
<1> QED
  BY <1>1, <1>2, <1>3, PTL DEF Spec

-----------------------------------------------------------------------------
(* What the session's file says, and what the guard has. Between the two      *)
(* dialogs the rules of the goal at hand are already in force and not yet in   *)
(* the record.                                                              *)
IsLog(events) == \E S : events \in Seq(S)

RecordInv ==
    /\ IsLog(log)
    /\ screen # "scope" => applied = {}
    /\ ~unsaved =>
        /\ missionDeny = RulesOf(log) \cup applied
        /\ bashScopeAllow = ScopeIn(log)

\* Replay after one more event: its rules are added, its scope replaces.
LEMMA ReplayAppend ==
    ASSUME NEW events, IsLog(events), NEW e
    PROVE  /\ IsLog(Append(events, e))
           /\ RulesOf(Append(events, e)) = RulesOf(events) \cup e.rules
           /\ ScopeIn(Append(events, e)) = e.scope
<1>1. PICK S : events \in Seq(S)
  BY DEF IsLog
<1>2. events \in Seq(S \cup {e}) /\ e \in S \cup {e}
  <2>1. PICK n \in Nat : events \in [1..n -> S]
    BY <1>1, SeqDef
  <2>2. events \in [1..n -> S \cup {e}]
    BY <2>1
  <2> QED
    BY <2>2, SeqDef
<1>3. /\ Append(events, e) \in Seq(S \cup {e})
      /\ Len(Append(events, e)) = Len(events) + 1
      /\ \A i \in 1..Len(events) : Append(events, e)[i] = events[i]
      /\ Append(events, e)[Len(events) + 1] = e
  BY <1>2, AppendProperties
<1>4. Len(events) \in Nat /\ DOMAIN events = 1..Len(events)
  BY <1>1, LenProperties
<1>5. DOMAIN Append(events, e) = 1..(Len(events) + 1)
  BY <1>3, LenProperties
<1>6. RulesOf(Append(events, e)) = RulesOf(events) \cup e.rules
  <2>1. DOMAIN Append(events, e) = DOMAIN events \cup {Len(events) + 1}
    BY <1>4, <1>5
  <2> QED
    BY <1>3, <1>4, <2>1 DEF RulesOf
<1>7. Append(events, e) # <<>>
  BY <1>3, <1>4, EmptySeq
<1> QED
  BY <1>3, <1>6, <1>7 DEF IsLog, ScopeIn

LEMMA RecordInit == Init => RecordInv
<1> SUFFICES ASSUME Init PROVE RecordInv
  OBVIOUS
<1>1. log = <<>> /\ applied = {} /\ missionDeny = {} /\ bashScopeAllow = {}
  BY DEF Init, GuardInit
<1>2. IsLog(log)
  BY <1>1, EmptySeq DEF IsLog
<1>3. RulesOf(log) = {} /\ ScopeIn(log) = {}
  BY <1>1 DEF RulesOf, ScopeIn
<1> QED
  BY <1>1, <1>2, <1>3 DEF RecordInv

LEMMA RecordStep == RecordInv /\ [Next]_vars => RecordInv'
<1> SUFFICES ASSUME RecordInv, [Next]_vars PROVE RecordInv'
  OBVIOUS
<1>1. ASSUME UNCHANGED <<log, applied, unsaved, missionDeny, bashScopeAllow>>,
             screen' # "scope" => applied = {}
      PROVE  RecordInv'
  BY <1>1 DEF RecordInv
<1>2. CASE \E g \in Callers : Authorize(g) /\ UNCHANGED personVars
  <2>1. UNCHANGED <<missionDeny, bashScopeAllow>>
    BY <1>2 DEF Authorize, Begin, ReadMission, ReadScope, ReadAutonomy, ReadGrant, Reviewed
  <2> QED
    BY <1>1, <1>2, <2>1 DEF personVars, RecordInv
<1>3. ASSUME NEW t, SetToolTiers(t), UNCHANGED <<screen, applied, log, unsaved>> PROVE RecordInv'
  BY <1>1, <1>3 DEF SetToolTiers, RecordInv
<1>4. ASSUME NEW w, ResolveTrust(w) \/ PermissionsAutonomy(w) PROVE RecordInv'
  BY <1>1, <1>4 DEF ResolveTrust, PermissionsAutonomy, SaveAutonomy, SetAutonomy, RecordInv
<1>5. ASSUME RunTrust \/ \E w : TrustParent(w) PROVE RecordInv'
  BY <1>1, <1>5 DEF RunTrust, TrustParent, guardVars, guard, RecordInv
<1>6. ASSUME NEW g, Submit(g) PROVE RecordInv'
  BY <1>1, <1>6 DEF Submit, guardVars, guard, RecordInv
<1>7. ASSUME NEW accept, ResolveMission(accept) PROVE RecordInv'
  <2>1. applied = {} /\ screen' = "scope" /\ UNCHANGED <<log, unsaved, bashScopeAllow>>
    BY <1>7 DEF ResolveMission, RecordInv, AddMissionRules, guardVars, guard
  <2>2. /\ applied' = IF accept THEN DenyRules(goal) ELSE {}
        /\ missionDeny' = IF accept THEN missionDeny \cup DenyRules(goal) ELSE missionDeny
    BY <1>7 DEF ResolveMission, AddMissionRules, guardVars, guard
  <2>3. missionDeny' = missionDeny \cup applied'
    BY <2>2
  <2> QED
    BY <2>1, <2>3 DEF RecordInv
<1>8. ASSUME NEW option, ResolveToolScope(option) PROVE RecordInv'
  <2>1. UNCHANGED missionDeny /\ bashScopeAllow' = ScopeOf(option) /\ applied' = {} /\ screen' = "chat"
    BY <1>8 DEF ResolveToolScope, SetBashScope
  <2>2. CASE log' = Append(log, [rules |-> applied, scope |-> ScopeOf(option)]) /\ UNCHANGED unsaved
    <3>1. /\ IsLog(log') /\ RulesOf(log') = RulesOf(log) \cup applied
          /\ ScopeIn(log') = ScopeOf(option)
      BY <2>2, ReplayAppend DEF RecordInv
    <3> QED
      BY <2>1, <2>2, <3>1 DEF RecordInv
  <2>3. CASE unsaved' = TRUE /\ UNCHANGED log
    BY <2>1, <2>3 DEF RecordInv
  <2> QED
    BY <1>8, <2>2, <2>3 DEF ResolveToolScope
<1>9. ASSUME NEW resumed, Restart(resumed) PROVE RecordInv'
  <2>1. /\ log' = IF resumed THEN log ELSE <<>>
        /\ missionDeny' = RulesOf(log') /\ bashScopeAllow' = ScopeIn(log') /\ applied' = {}
    BY <1>9 DEF Restart
  <2>2. IsLog(log')
    BY <2>1, EmptySeq DEF RecordInv, IsLog
  <2> QED
    BY <2>1, <2>2 DEF RecordInv
<1>10. CASE UNCHANGED vars
  BY <1>1, <1>10 DEF vars, guardVars, guard, personVars, RecordInv
<1>11. CASE Person
  BY <1>11, <1>4, <1>5, <1>6, <1>7, <1>8, <1>9 DEF Person
<1> QED
  BY <1>2, <1>3, <1>10, <1>11 DEF Next

(* What the person accepted outlives the program, for every goal and any      *)
(* number of missions, restarts and records that could not be written         *)
(* (session.go, AppendMission; app.go, replayMissions).                      *)
THEOREM ConstraintsOutlive == Spec => []ConstraintsSurvive
<1>1. Init => RecordInv
  BY RecordInit
<1>2. RecordInv /\ [Next]_vars => RecordInv'
  BY RecordStep
<1>3. RecordInv => ConstraintsSurvive
  BY DEF RecordInv, ConstraintsSurvive
<1> QED
  BY <1>1, <1>2, <1>3, PTL DEF Spec
-----------------------------------------------------------------------------
(* The screens, the autonomy and the word the footer shows for it.           *)
ScreenInv ==
    /\ autonomy \in Autonomies
    /\ screen \in {"chat", "trust", "mission", "scope"}
    /\ footer \in Words \cup {""}

LEMMA WordFacts ==
    /\ \A w : ParseAutonomy(w) \in Autonomies /\ Word(ParseAutonomy(w)) \in Words
    /\ Levels \subseteq Words
  BY MissionAssumption DEF ParseAutonomy, Word, Words, Autonomies

LEMMA ScreenStep == ScreenInv /\ [Next]_vars => ScreenInv'
<1> SUFFICES ASSUME ScreenInv, [Next]_vars PROVE ScreenInv'
  OBVIOUS
<1>1. ASSUME UNCHANGED <<autonomy, footer>>, screen' \in {screen, "chat", "trust", "mission", "scope"}
      PROVE  ScreenInv'
  BY <1>1 DEF ScreenInv
<1>2. CASE \E g \in Callers : Authorize(g) /\ UNCHANGED personVars
  <2>1. UNCHANGED autonomy
    BY <1>2 DEF Authorize, Begin, ReadMission, ReadScope, ReadAutonomy, ReadGrant, Reviewed
  <2> QED
    BY <1>1, <1>2, <2>1 DEF personVars
<1>3. ASSUME NEW t, SetToolTiers(t), UNCHANGED <<screen, footer>> PROVE ScreenInv'
  BY <1>1, <1>3 DEF SetToolTiers
<1>4. ASSUME NEW w \in Levels, ResolveTrust(w) \/ PermissionsAutonomy(w) PROVE ScreenInv'
  <2>1. SaveAutonomy(w) /\ screen' \in {screen, "chat"}
    BY <1>4 DEF ResolveTrust, PermissionsAutonomy
  <2>2. footer' \in Words
    BY <2>1, WordFacts DEF SaveAutonomy
  <2>3. autonomy' \in Autonomies
    BY <2>1, WordFacts DEF SaveAutonomy, SetAutonomy
  <2> QED
    BY <2>1, <2>2, <2>3 DEF ScreenInv
<1>5. ASSUME RunTrust \/ (\E w : TrustParent(w)) \/ (\E g : Submit(g)) PROVE ScreenInv'
  BY <1>1, <1>5 DEF RunTrust, TrustParent, Submit, guardVars, guard
<1>6. ASSUME NEW accept, ResolveMission(accept) PROVE ScreenInv'
  BY <1>1, <1>6 DEF ResolveMission, AddMissionRules, guardVars, guard
<1>7. ASSUME NEW option, ResolveToolScope(option) PROVE ScreenInv'
  BY <1>1, <1>7 DEF ResolveToolScope, SetBashScope
<1>8. ASSUME NEW resumed, Restart(resumed) PROVE ScreenInv'
  BY <1>8, WordFacts DEF Restart, Greet, ScreenInv, Autonomies
<1>9. CASE UNCHANGED vars
  BY <1>1, <1>9 DEF vars, guardVars, guard, personVars
<1>10. CASE Person
  BY <1>10, <1>4, <1>5, <1>6, <1>7, <1>8 DEF Person
<1> QED
  BY <1>2, <1>3, <1>9, <1>10 DEF Next

(* A call has always returned, or is at one of the locks Authorize takes with *)
(* a tier of the four and no result yet, and what the footer shows is an      *)
(* autonomy's word (guard.go, Authorize; trust.go, ParseAutonomy).            *)
THEOREM GuardTypeCorrect == Spec => []TypeOK
<1>1. Init => GuardInv /\ ScreenInv
  <2>1. Init => ScreenInv
    BY DEF Init, GuardInit, ScreenInv, Autonomies
  <2> QED
    BY <2>1, GuardInit0
<1>2. GuardInv /\ ScreenInv /\ [Next]_vars => GuardInv' /\ ScreenInv'
  BY GuardStep, ScreenStep
<1>3. GuardInv /\ ScreenInv => TypeOK
  <2> SUFFICES ASSUME GuardInv, ScreenInv, NEW g \in Callers
               PROVE  /\ call[g].at \in {"idle", "mission", "scope", "autonomy", "grant", "review"}
                      /\ call[g].result \in {"none", "ran", "data", "refused"}
                      /\ call[g].at # "idle" => call[g].result = "none" /\ call[g].tier \in Tiers
    BY DEF TypeOK, ScreenInv
  <2>1. CASE Passed(g)
    BY <2>1 DEF Passed
  <2>2. CASE Returned(g)
    BY <2>2 DEF Returned
  <2> QED
    BY <2>1, <2>2 DEF GuardInv, CallInv
<1> QED
  BY <1>1, <1>2, <1>3, PTL DEF Spec
=============================================================================
