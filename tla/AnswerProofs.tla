---------------------------- MODULE AnswerProofs ----------------------------
(* Which model answers and what of its answer arrives. ModelSwitch: a label  *)
(* that is backed, a turn that nothing disturbs, a selection that is always  *)
(* a row. Stream and Headless: an answer that is whole and in order when it  *)
(* is called complete, and an exit code that may be believed. For every set  *)
(* of models and sessions, every dialect, channel and length of the answer.  *)
EXTENDS ModelSwitch, Headless, SequenceTheorems, FiniteSetTheorems, WellFoundedInduction, TLAPS

(* Every change of model is a switch.                                       *)
LEMMA SwitchBacks == ASSUME NEW ref, Switch(ref) PROVE LabelBacked'
<1>1. PICK ok \in Prepares[ref] : /\ engine' = IF ok THEN ref ELSE engine
                                  /\ model' = ref /\ warned' = ~ok
  BY DEF Switch
<1>2. CASE ok
  BY <1>1, <1>2 DEF LabelBacked
<1>3. CASE ~ok
  BY <1>1, <1>3 DEF LabelBacked
<1> QED
  BY <1>2, <1>3

LEMMA TargetKept == ASSUME LabelBacked, UNCHANGED target PROVE LabelBacked'
BY DEF target, LabelBacked

LEMMA AppliedBacks == ASSUME LabelBacked, NEW ref, ApplyModelChosen(ref) PROVE LabelBacked'
BY SwitchBacks, TargetKept DEF ApplyModelChosen

LEMMA FinishedBacks == ASSUME LabelBacked, NEW now, NEW to, FinishSwitch(now, to) PROVE LabelBacked'
BY SwitchBacks, TargetKept DEF FinishSwitch

LEMMA LabelStep == LabelBacked /\ [Next]_vars => LabelBacked'
<1> SUFFICES ASSUME LabelBacked, [Next]_vars PROVE LabelBacked'
  OBVIOUS
<1>1. CASE UpdatePicker \/ ChooseModel \/ ChooseSession \/ CloseScreen \/ CycleEffort \/ Submit
  BY <1>1, TargetKept DEF UpdatePicker, ChooseModel, ChooseSession, CloseScreen, CycleEffort, Submit
<1>2. ASSUME NEW c, ModelChosen(c) PROVE LabelBacked'
  BY <1>2, AppliedBacks DEF ModelChosen
<1>3. ASSUME NEW c, SessionChosen(c) PROVE LabelBacked'
  BY <1>3, SwitchBacks, TargetKept DEF SessionChosen
<1>4. ASSUME NEW option, ResolveConfirm(option) PROVE LabelBacked'
  BY <1>4, SwitchBacks, FinishedBacks, TargetKept DEF ResolveConfirm
<1>5. ASSUME NEW ok, FinishCompact(ok) PROVE LabelBacked'
  <2>1. CASE UNCHANGED target
    BY <2>1, TargetKept
  <2>2. CASE FinishSwitch(TRUE, compact)
    BY <2>2, FinishedBacks
  <2> QED
    BY <1>5, <2>1, <2>2 DEF FinishCompact
<1>6. ASSUME NEW c, CatalogRefreshed(c) PROVE LabelBacked'
  BY <1>6, TargetKept DEF CatalogRefreshed
<1>7. ASSUME NEW kind, Command(kind) PROVE LabelBacked'
  <2>1. CASE UNCHANGED target
    BY <2>1, TargetKept
  <2>2. CASE \E m \in ToSet(cat) \cup Concealed : ApplyModelChosen(m)
    BY <2>2, AppliedBacks
  <2> QED
    BY <1>7, <2>1, <2>2 DEF Command, OpenPicker
<1>8. ASSUME NEW k, NEW failed, NEW used, EndTurn(k, failed, used) PROVE LabelBacked'
  <2>1. ASSUME NEW c, NEW f, EndOfTurn(c, f) PROVE LabelBacked'
    <3>1. Switch(Fallback) \/ UNCHANGED target
      BY <2>1 DEF EndOfTurn
    <3> QED
      BY <3>1, SwitchBacks, TargetKept
  <2> QED
    BY <1>8, <2>1, TargetKept DEF EndTurn
<1>9. CASE UNCHANGED vars
  BY <1>9, TargetKept DEF vars
<1> QED
  BY <1>1, <1>2, <1>3, <1>4, <1>5, <1>6, <1>7, <1>8, <1>9 DEF Next

(* Label and engine part only where the switch said so, on every way to        *)
(* change model (root.go, switchEngine and its callers).                      *)
THEOREM LabelAlwaysBacked == Spec => []LabelBacked
<1>1. Init => LabelBacked
  BY DEF Init, LabelBacked
<1>2. LabelBacked /\ [Next]_vars => LabelBacked'
  BY LabelStep
<1> QED
  BY <1>1, <1>2, PTL DEF Spec

-----------------------------------------------------------------------------
(* In ModeBusy a turn runs. A turn that leaves the sequence unheard leaves     *)
(* the one that is heard in it.                                             *)
BusyInv ==
    /\ \E S : turns \in Seq(S)
    /\ mode = "busy" => turns # <<>>

LEMMA Removed ==
    ASSUME NEW S, NEW s \in Seq(S), NEW k \in DOMAIN s
    PROVE  RemoveAt(s, k) \in Seq(S) /\ Len(RemoveAt(s, k)) = Len(s) - 1
<1>1. Len(s) \in Nat /\ DOMAIN s = 1..Len(s) /\ k \in 1..Len(s)
  BY LenProperties
<1>0. \A i \in 1..Len(s) : s[i] \in S
  BY ElementOfSeq
<1>2. SubSeq(s, 1, k - 1) \in Seq(S) /\ Len(SubSeq(s, 1, k - 1)) = k - 1
  <2>1. /\ SubSeq(s, 1, k - 1) \in Seq(S)
        /\ Len(SubSeq(s, 1, k - 1)) = IF 1 <= k - 1 THEN (k - 1) - 1 + 1 ELSE 0
    BY <1>0, <1>1, SubSeqProperties
  <2> QED
    BY <1>1, <2>1
<1>3. SubSeq(s, k + 1, Len(s)) \in Seq(S) /\ Len(SubSeq(s, k + 1, Len(s))) = Len(s) - k
  <2>1. /\ SubSeq(s, k + 1, Len(s)) \in Seq(S)
        /\ Len(SubSeq(s, k + 1, Len(s))) = IF k + 1 <= Len(s) THEN Len(s) - (k + 1) + 1 ELSE 0
    BY <1>0, <1>1, SubSeqProperties
  <2> QED
    BY <1>1, <2>1
<1>4. RemoveAt(s, k) = SubSeq(s, 1, k - 1) \o SubSeq(s, k + 1, Len(s))
  BY DEF RemoveAt
<1>5. /\ RemoveAt(s, k) \in Seq(S)
      /\ Len(RemoveAt(s, k)) = Len(SubSeq(s, 1, k - 1)) + Len(SubSeq(s, k + 1, Len(s)))
  BY <1>2, <1>3, <1>4, ConcatProperties
<1> QED
  BY <1>1, <1>2, <1>3, <1>5

LEMMA BusyStep == BusyInv /\ [Next]_vars => BusyInv'
<1> SUFFICES ASSUME BusyInv, [Next]_vars PROVE BusyInv'
  OBVIOUS
<1>1. ASSUME UNCHANGED turns, mode' = "busy" => mode = "busy" PROVE BusyInv'
  BY <1>1 DEF BusyInv
<1>2. CASE UpdatePicker \/ ChooseModel \/ ChooseSession \/ CloseScreen \/ CycleEffort
  BY <1>1, <1>2 DEF UpdatePicker, ChooseModel, ChooseSession, CloseScreen, CycleEffort, Show
<1>3. CASE Submit
  <2> DEFINE e == [model |-> model, engine |-> engine, effort |-> effort]
  <2>1. turns' = Append(turns, e)
    BY <1>3 DEF Submit
  <2>2. PICK S : turns \in Seq(S)
    BY DEF BusyInv
  <2>3. turns \in Seq(S \cup {e})
    <3>1. PICK n \in Nat : turns \in [1..n -> S]
      BY <2>2, SeqDef
    <3>2. turns \in [1..n -> S \cup {e}]
      BY <3>1
    <3> QED
      BY <3>2, SeqDef
  <2>4. e \in S \cup {e}
    OBVIOUS
  <2> HIDE DEF e
  <2>5. turns' \in Seq(S \cup {e}) /\ Len(turns') = Len(turns) + 1 /\ Len(turns) \in Nat
    BY <2>1, <2>3, <2>4, AppendProperties, LenProperties
  <2>6. turns' # <<>>
    BY <2>5, EmptySeq
  <2> QED
    BY <2>5, <2>6 DEF BusyInv
<1>4. ASSUME NEW c, ModelChosen(c) \/ SessionChosen(c) PROVE BusyInv'
  BY <1>1, <1>4 DEF ModelChosen, SessionChosen, ApplyModelChosen, Show
<1>5. ASSUME NEW option, ResolveConfirm(option) PROVE BusyInv'
  BY <1>1, <1>5 DEF ResolveConfirm, StartCompact, Show
<1>6. ASSUME NEW ok, FinishCompact(ok) PROVE BusyInv'
  BY <1>1, <1>6 DEF FinishCompact, Show
<1>7. ASSUME NEW c, CatalogRefreshed(c) PROVE BusyInv'
  BY <1>1, <1>7 DEF CatalogRefreshed
<1>8. ASSUME NEW kind, Command(kind) PROVE BusyInv'
  BY <1>1, <1>8 DEF Command, StartCompact, ApplyModelChosen, OpenPicker, Show
<1>9. ASSUME NEW k \in DOMAIN turns, NEW failed, NEW used, EndTurn(k, failed, used) PROVE BusyInv'
  <2>1. PICK S : turns \in Seq(S)
    BY DEF BusyInv
  <2>2. turns' \in Seq(S) /\ Len(turns') = Len(turns) - 1
    BY <1>9, <2>1, Removed DEF EndTurn
  <2>3. ASSUME mode' = "busy" PROVE turns' # <<>>
    <3>1. ASSUME NEW c, NEW f, EndOfTurn(c, f) PROVE FALSE
      BY <2>3, <3>1 DEF EndOfTurn, StartCompact, Show
    <3>2. mode = "busy" /\ k # Len(turns)
      BY <1>9, <2>3, <3>1 DEF EndTurn
    <3>3. Len(turns) \in Nat /\ k \in 1..Len(turns)
      BY <2>1, LenProperties
    <3>4. Len(turns') > 0
      BY <2>2, <3>2, <3>3
    <3> QED
      BY <3>4, EmptySeq
  <2> QED
    BY <2>2, <2>3 DEF BusyInv
<1>10. CASE UNCHANGED vars
  BY <1>1, <1>10 DEF vars
<1> QED
  BY <1>2, <1>3, <1>4, <1>5, <1>6, <1>7, <1>8, <1>9, <1>10 DEF Next

(* What a step may do under a running turn.                                  *)
Undisturbed ==
    mode = "busy" =>
        /\ turns # <<>>
        /\ \/ UNCHANGED <<mode, conv, target>>
           \/ turns # turns'
           \/ \E c \in chosen : c \notin chosen'

LEMMA UndisturbedStep == BusyInv /\ [Next]_vars => [Undisturbed]_vars
<1> SUFFICES ASSUME BusyInv, Next, mode = "busy"
             PROVE  \/ UNCHANGED <<mode, conv, target>>
                    \/ turns # turns'
                    \/ \E c \in chosen : c \notin chosen'
  BY DEF BusyInv, Undisturbed
<1>1. CASE UpdatePicker \/ ChooseModel \/ ChooseSession \/ CloseScreen \/ CycleEffort \/ Submit
  BY <1>1 DEF UpdatePicker, ChooseModel, ChooseSession, CloseScreen, CycleEffort, Submit
<1>2. ASSUME NEW c \in chosen, ModelChosen(c) \/ SessionChosen(c) PROVE c \notin chosen'
  BY <1>2 DEF ModelChosen, SessionChosen
<1>3. ASSUME NEW option, ResolveConfirm(option) PROVE FALSE
  BY <1>3 DEF ResolveConfirm
<1>4. ASSUME NEW ok, FinishCompact(ok) PROVE UNCHANGED <<mode, conv, target>>
  BY <1>4 DEF FinishCompact
<1>5. ASSUME NEW c, CatalogRefreshed(c) PROVE UNCHANGED <<mode, conv, target>>
  BY <1>5 DEF CatalogRefreshed
<1>6. ASSUME NEW kind, Command(kind) PROVE UNCHANGED <<mode, conv, target>>
  BY <1>6 DEF Command, Allowed
<1>7. ASSUME NEW k \in DOMAIN turns, NEW failed, NEW used, EndTurn(k, failed, used) PROVE turns # turns'
  <2>1. PICK S : turns \in Seq(S)
    BY DEF BusyInv
  <2>2. Len(turns') = Len(turns) - 1 /\ Len(turns) \in Nat
    BY <1>7, <2>1, Removed, LenProperties DEF EndTurn
  <2> QED
    BY <2>2
<1> QED
  BY <1>1, <1>2, <1>3, <1>4, <1>5, <1>6, <1>7 DEF Next

(* While a turn runs, only a choice made before it began changes the screen,   *)
(* the conversation or the model under it (root.go, updateDispatch;           *)
(* slashrun.go, busyAllowedSlashKind), for any number of turns and choices.   *)
THEOREM TurnsAlwaysUndisturbed == Spec => TurnsUndisturbed
<1>1. Init => BusyInv
  <2>1. <<>> \in Seq({})
    BY EmptySeq
  <2> QED
    BY <2>1 DEF Init, BusyInv
<1>2. BusyInv /\ [Next]_vars => BusyInv'
  BY BusyStep
<1>3. BusyInv /\ [Next]_vars => [Undisturbed]_vars
  BY UndisturbedStep
<1> QED
  BY <1>1, <1>2, <1>3, PTL DEF Spec, TurnsUndisturbed, Undisturbed
-----------------------------------------------------------------------------
(* Flattened sequences. FlattenSeq is read off a function that is defined  *)
(* by recursion; that there is one, and what it computes, goes by the       *)
(* first position where it would not be so.                                 *)

(* The running concatenation that FlattenSeq reads its result off.          *)
Joins(ss, f, m) ==
    /\ DOMAIN f = 1..m
    /\ \A i \in 1..m : f[i] = IF i = 1 THEN ss[i] ELSE f[i - 1] \o ss[i]

\* A set of positions has a first one.
LEMMA LeastOne ==
    ASSUME NEW T, T \subseteq Nat, T # {}
    PROVE  \E m \in T : \A k \in T : m <= k
<1>1. PICK m \in T : \A k \in T : <<k, m>> \notin OpToRel(<, Nat)
  BY NatLessThanWellFounded, WFMin
<1>2. \A k \in T : ~(k < m)
  BY <1>1 DEF OpToRel
<1> QED
  BY <1>2

\* Such a function exists: the shortest one that does not would go on from one that does.
LEMMA JoinsExist ==
    ASSUME NEW ss, NEW n \in Nat \ {0}
    PROVE  \E f : Joins(ss, f, n)
<1> DEFINE Bad == {m \in Nat : m > 0 /\ ~\E f : Joins(ss, f, m)}
<1>1. SUFFICES ASSUME Bad # {} PROVE FALSE
  OBVIOUS
<1>2. PICK m \in Bad : \A k \in Bad : m <= k
  <2>1. Bad \subseteq Nat
    OBVIOUS
  <2> HIDE DEF Bad
  <2> QED
    BY <1>1, <2>1, LeastOne
<1>3. CASE m = 1
  <2>1. Joins(ss, [i \in 1..1 |-> ss[i]], 1)
    BY DEF Joins
  <2> QED
    BY <1>2, <1>3, <2>1
<1>4. CASE m # 1
  <2>1. m - 1 \in Nat /\ m - 1 > 0 /\ m \in Nat
    BY <1>2, <1>4
  <2>2. PICK f : Joins(ss, f, m - 1)
    BY <1>2, <2>1
  <2> DEFINE g == [i \in 1..m |-> IF i = m THEN f[m - 1] \o ss[m] ELSE f[i]]
  <2>3. Joins(ss, g, m)
    <3>1. DOMAIN g = 1..m
      OBVIOUS
    <3>2. ASSUME NEW i \in 1..m PROVE g[i] = IF i = 1 THEN ss[i] ELSE g[i - 1] \o ss[i]
      <4>1. CASE i = m
        <5>1. m - 1 \in 1..m /\ m - 1 # m /\ m # 1
          BY <2>1, <1>4
        <5>2. g[m - 1] = f[m - 1] /\ g[i] = f[m - 1] \o ss[m]
          BY <4>1, <5>1
        <5> QED
          BY <4>1, <5>1, <5>2
      <4>2. CASE i # m
        <5>1. i \in 1..(m - 1) /\ (i # 1 => i - 1 \in 1..m /\ i - 1 # m)
          BY <2>1, <4>2
        <5>2. f[i] = IF i = 1 THEN ss[i] ELSE f[i - 1] \o ss[i]
          BY <2>2, <5>1 DEF Joins
        <5> QED
          BY <4>2, <5>1, <5>2
      <4> QED
        BY <4>1, <4>2
    <3> HIDE DEF g
    <3> QED
      BY <3>1, <3>2 DEF Joins
  <2> QED
    BY <1>2, <2>3
<1> QED
  BY <1>3, <1>4

\* FlattenSeq is the last of them.
LEMMA FlattenJoins ==
    ASSUME NEW ss, Len(ss) \in Nat, Len(ss) # 0
    PROVE  \E f : Joins(ss, f, Len(ss)) /\ FlattenSeq(ss) = f[Len(ss)]
<1> DEFINE n == Len(ss)
           fl == CHOOSE g : g = [i \in 1..n |-> IF i = 1 THEN ss[i] ELSE g[i - 1] \o ss[i]]
<1>1. PICK f : Joins(ss, f, n)
  BY JoinsExist
<1>2. \E g : g = [i \in 1..n |-> IF i = 1 THEN ss[i] ELSE g[i - 1] \o ss[i]]
  <2> DEFINE g == [i \in 1..n |-> f[i]]
  <2>1. ASSUME NEW i \in 1..n PROVE g[i] = IF i = 1 THEN ss[i] ELSE g[i - 1] \o ss[i]
    <3>1. i # 1 => i - 1 \in 1..n
      OBVIOUS
    <3> QED
      BY <1>1, <3>1 DEF Joins
  <2>2. g = [i \in 1..n |-> g[i]]
    OBVIOUS
  <2> HIDE DEF g
  <2>3. g = [i \in 1..n |-> IF i = 1 THEN ss[i] ELSE g[i - 1] \o ss[i]]
    BY <2>1, <2>2
  <2> QED
    BY <2>3
<1>3. fl = [i \in 1..n |-> IF i = 1 THEN ss[i] ELSE fl[i - 1] \o ss[i]]
  BY <1>2
<1>4. FlattenSeq(ss) = fl[n]
  BY DEF FlattenSeq
<1> HIDE DEF fl
<1>5. Joins(ss, fl, n)
  BY <1>3 DEF Joins
<1> QED
  BY <1>4, <1>5

\* x is an element of s.
Holds(s, x) == \E k \in DOMAIN s : s[k] = x

LEMMA ConcatHolds ==
    ASSUME NEW S, NEW a \in Seq(S), NEW b \in Seq(S)
    PROVE  a \o b \in Seq(S) /\ \A x : Holds(a \o b, x) <=> Holds(a, x) \/ Holds(b, x)
<1>1. /\ Len(a) \in Nat /\ Len(b) \in Nat /\ DOMAIN a = 1..Len(a) /\ DOMAIN b = 1..Len(b)
      /\ a \o b \in Seq(S) /\ Len(a \o b) = Len(a) + Len(b)
      /\ \A k \in 1..(Len(a) + Len(b)) : (a \o b)[k] = IF k <= Len(a) THEN a[k] ELSE b[k - Len(a)]
  BY LenProperties, ConcatProperties
<1>2. DOMAIN (a \o b) = 1..(Len(a) + Len(b))
  BY <1>1, LenProperties
<1> DEFINE c == a \o b
           L == Len(a)
           E == Len(b)
<1>3. L \in Nat /\ E \in Nat
  BY <1>1
<1>4. \A k \in 1..L : k \in 1..(L + E) /\ c[k] = a[k]
  BY <1>1
<1>5. \A k \in 1..E : L + k \in 1..(L + E) /\ c[L + k] = b[k]
  BY <1>1
<1>6. \A k \in 1..(L + E) : (k \in 1..L /\ c[k] = a[k]) \/ (k - L \in 1..E /\ c[k] = b[k - L])
  BY <1>1
<1> HIDE DEF c, L, E
<1>7. ASSUME NEW x PROVE Holds(c, x) <=> Holds(a, x) \/ Holds(b, x)
  <2>1. DOMAIN c = 1..(L + E) /\ DOMAIN a = 1..L /\ DOMAIN b = 1..E
    BY <1>1, <1>2 DEF c, L, E
  <2>2. ASSUME Holds(c, x) PROVE Holds(a, x) \/ Holds(b, x)
    <3>1. PICK k \in 1..(L + E) : c[k] = x
      BY <2>1, <2>2 DEF Holds
    <3> QED
      BY <1>6, <2>1, <3>1 DEF Holds
  <2>3. ASSUME Holds(a, x) PROVE Holds(c, x)
    <3>1. PICK k \in 1..L : a[k] = x
      BY <2>1, <2>3 DEF Holds
    <3> QED
      BY <1>4, <2>1, <3>1 DEF Holds
  <2>4. ASSUME Holds(b, x) PROVE Holds(c, x)
    <3>1. PICK k \in 1..E : b[k] = x
      BY <2>1, <2>4 DEF Holds
    <3> QED
      BY <1>5, <2>1, <3>1 DEF Holds
  <2> QED
    BY <2>2, <2>3, <2>4
<1> QED
  BY <1>1, <1>7 DEF c

LEMMA JoinedHolds ==
    ASSUME NEW S, NEW ss, NEW n \in Nat, \A j \in 1..n : ss[j] \in Seq(S),
           NEW f, Joins(ss, f, n), NEW m \in 1..n
    PROVE  f[m] \in Seq(S) /\ \A x : Holds(f[m], x) <=> \E j \in 1..m : Holds(ss[j], x)
<1> DEFINE Right(k) == f[k] \in Seq(S) /\ \A x : Holds(f[k], x) <=> \E j \in 1..k : Holds(ss[j], x)
           Bad == {k \in 1..n : ~Right(k)}
<1>1. SUFFICES ASSUME Bad # {} PROVE FALSE
  BY <1>1
<1>2. PICK k \in Bad : \A l \in Bad : k <= l
  <2>1. Bad \subseteq Nat
    OBVIOUS
  <2> HIDE DEF Bad
  <2> QED
    BY <1>1, <2>1, LeastOne
<1>3. k \in 1..n /\ ~Right(k) /\ f[k] = IF k = 1 THEN ss[k] ELSE f[k - 1] \o ss[k]
  BY <1>2 DEF Joins
<1>4. ss[k] \in Seq(S)
  BY <1>3
<1>5. CASE k = 1
  <2>1. \A x : Holds(ss[1], x) <=> \E j \in 1..1 : Holds(ss[j], x)
    OBVIOUS
  <2> QED
    BY <1>3, <1>4, <1>5, <2>1
<1>6. CASE k # 1
  <2>1. k - 1 \in 1..n /\ ~(k <= k - 1)
    BY <1>3, <1>6
  <2>2. Right(k - 1)
    BY <1>2, <2>1
  <2>3. f[k] \in Seq(S) /\ \A x : Holds(f[k], x) <=> Holds(f[k - 1], x) \/ Holds(ss[k], x)
    BY <1>3, <1>4, <1>6, <2>2, ConcatHolds
  <2>4. \A j : j \in 1..k <=> j \in 1..(k - 1) \/ j = k
    BY <1>3
  <2>5. \A x : (\E j \in 1..k : Holds(ss[j], x)) <=> (\E j \in 1..(k - 1) : Holds(ss[j], x)) \/ Holds(ss[k], x)
    BY <2>4
  <2> QED
    BY <1>3, <2>2, <2>3, <2>5
<1> QED
  BY <1>5, <1>6

\* FlattenSeq has the elements of its sequences, and no others.
LEMMA FlattenHolds ==
    ASSUME NEW S, NEW ss \in Seq(Seq(S))
    PROVE  /\ FlattenSeq(ss) \in Seq(S)
           /\ \A x : Holds(FlattenSeq(ss), x) <=> \E j \in DOMAIN ss : Holds(ss[j], x)
<1>1. Len(ss) \in Nat /\ DOMAIN ss = 1..Len(ss) /\ \A j \in 1..Len(ss) : ss[j] \in Seq(S)
  BY LenProperties, ElementOfSeq
<1>2. CASE Len(ss) = 0
  <2>1. FlattenSeq(ss) = ss
    BY <1>2 DEF FlattenSeq
  <2>2. ss = <<>> /\ DOMAIN ss = {}
    BY <1>1, <1>2, EmptySeq
  <2> QED
    BY <2>1, <2>2, EmptySeq DEF Holds
<1>3. CASE Len(ss) # 0
  <2>1. PICK f : Joins(ss, f, Len(ss)) /\ FlattenSeq(ss) = f[Len(ss)]
    BY <1>1, <1>3, FlattenJoins
  <2>2. PICK n \in Nat : n = Len(ss)
    BY <1>1
  <2>3. n \in 1..n /\ Joins(ss, f, n) /\ \A j \in 1..n : ss[j] \in Seq(S)
    BY <1>1, <1>3, <2>1, <2>2
  <2>4. f[n] \in Seq(S) /\ \A x : Holds(f[n], x) <=> \E j \in 1..n : Holds(ss[j], x)
    BY <2>3, JoinedHolds
  <2> QED
    BY <1>1, <2>1, <2>2, <2>4
<1> QED
  BY <1>2, <1>3

\* Among keeps the elements asked for.
LEMMA AmongHolds ==
    ASSUME NEW S, NEW s \in Seq(S), NEW T
    PROVE  Among(s, T) \in Seq(S) /\ \A x : Holds(Among(s, T), x) <=> Holds(s, x) /\ x \in T
<1> DEFINE ss == [k \in DOMAIN s |-> IF s[k] \in T THEN <<s[k]>> ELSE <<>>]
<1>1. Len(s) \in Nat /\ DOMAIN s = 1..Len(s) /\ \A k \in DOMAIN s : s[k] \in S
  BY LenProperties, ElementOfSeq
<1>2. ss \in Seq(Seq(S))
  <2>1. \A k \in 1..Len(s) : ss[k] \in Seq(S)
    BY <1>1
  <2>2. ss \in [1..Len(s) -> Seq(S)]
    BY <1>1, <2>1
  <2> HIDE DEF ss
  <2> QED
    BY <1>1, <2>2, SeqDef
<1>3. Among(s, T) = FlattenSeq(ss)
  BY DEF Among
<1>4. DOMAIN ss = DOMAIN s
  OBVIOUS
<1>5. ASSUME NEW k \in DOMAIN s PROVE \A x : Holds(ss[k], x) <=> s[k] = x /\ x \in T
  <2>1. CASE s[k] \in T
    <3>1. ss[k] = <<s[k]>> /\ DOMAIN <<s[k]>> = {1} /\ <<s[k]>>[1] = s[k]
      BY <2>1
    <3> HIDE DEF ss
    <3> QED
      BY <2>1, <3>1 DEF Holds
  <2>2. CASE s[k] \notin T
    <3>1. ss[k] = <<>> /\ DOMAIN <<>> = {}
      BY <2>2
    <3> HIDE DEF ss
    <3> QED
      BY <2>2, <3>1 DEF Holds
  <2> QED
    BY <2>1, <2>2
<1> HIDE DEF ss
<1>6. \A x : Holds(FlattenSeq(ss), x) <=> \E k \in DOMAIN s : Holds(ss[k], x)
  BY <1>2, <1>4, FlattenHolds
<1>7. FlattenSeq(ss) \in Seq(S)
  BY <1>2, FlattenHolds
<1> QED
  BY <1>3, <1>5, <1>6, <1>7 DEF Holds
-----------------------------------------------------------------------------
(* The rows. Whatever is collapsed, every candidate's provider has a header, *)
(* so a turned header is found again.                                       *)
Providers == {ProviderOf[m] : m \in Models}
AnyRow == [provider : Providers, model : Models \cup {None}]

GroupOf(cands, collapsed, k) ==
    LET g == ProviderOf[cands[k]]
        below == Among(cands, {m \in Models : ProviderOf[m] = g})
    IN  IF ~\A j \in 1..(k - 1) : ProviderOf[cands[j]] # ProviderOf[cands[k]] THEN <<>>
        ELSE <<Row(g, None)>> \o (IF g \in collapsed THEN <<>> ELSE [n \in DOMAIN below |-> Row(g, below[n])])
GroupsOf(cands, collapsed) == [k \in DOMAIN cands |-> GroupOf(cands, collapsed, k)]

LEMMA RowsGroups ==
    ASSUME NEW p, NEW c, NEW h
    PROVE  Rows(p, c, h) = FlattenSeq(GroupsOf(Candidates(p, c, h), p.collapsed))
BY DEF Rows, GroupsOf, GroupOf

LEMMA GroupHolds ==
    ASSUME NEW cands \in Seq(Models), NEW collapsed, NEW k \in DOMAIN cands
    PROVE  /\ GroupOf(cands, collapsed, k) \in Seq(AnyRow)
           /\ \A r : Holds(GroupOf(cands, collapsed, k), r) => r.provider = ProviderOf[cands[k]]
           /\ (\A j \in 1..(k - 1) : ProviderOf[cands[j]] # ProviderOf[cands[k]])
              => Holds(GroupOf(cands, collapsed, k), Row(ProviderOf[cands[k]], None))
<1> DEFINE g == ProviderOf[cands[k]]
           below == Among(cands, {m \in Models : ProviderOf[m] = g})
           head == <<Row(g, None)>>
           tail == IF g \in collapsed THEN <<>> ELSE [n \in DOMAIN below |-> Row(g, below[n])]
           First == \A j \in 1..(k - 1) : ProviderOf[cands[j]] # ProviderOf[cands[k]]
<1>1. GroupOf(cands, collapsed, k) = IF ~First THEN <<>> ELSE head \o tail
  BY DEF GroupOf
<1>2. cands[k] \in Models /\ g \in Providers
  BY ElementOfSeq DEF Providers
<1>3. Row(g, None) \in AnyRow /\ Row(g, None).provider = g
  BY <1>2 DEF Row, AnyRow
<1>4. head \in Seq(AnyRow) /\ DOMAIN head = {1} /\ head[1] = Row(g, None)
  BY <1>3
<1>5. tail \in Seq(AnyRow) /\ \A n \in DOMAIN tail : tail[n].provider = g
  <2>1. below \in Seq(Models)
    BY AmongHolds
  <2>2. Len(below) \in Nat /\ DOMAIN below = 1..Len(below) /\ \A n \in DOMAIN below : below[n] \in Models
    BY <2>1, LenProperties, ElementOfSeq
  <2> HIDE DEF below, g
  <2>3. \A n \in DOMAIN below : Row(g, below[n]) \in AnyRow /\ Row(g, below[n]).provider = g
    BY <1>2, <2>2 DEF Row, AnyRow
  <2>4. [n \in DOMAIN below |-> Row(g, below[n])] \in [1..Len(below) -> AnyRow]
    BY <2>2, <2>3
  <2>5. [n \in DOMAIN below |-> Row(g, below[n])] \in Seq(AnyRow)
    BY <2>2, <2>4, SeqDef
  <2>6. <<>> \in Seq(AnyRow) /\ DOMAIN <<>> = {}
    BY EmptySeq
  <2> QED
    BY <2>3, <2>5, <2>6
<1> HIDE DEF head, tail, g
<1>6. head \o tail \in Seq(AnyRow) /\ \A r : Holds(head \o tail, r) <=> Holds(head, r) \/ Holds(tail, r)
  BY <1>4, <1>5, ConcatHolds
<1>7. <<>> \in Seq(AnyRow) /\ \A r : ~Holds(<<>>, r)
  BY EmptySeq DEF Holds
<1>8. Holds(head, Row(g, None)) /\ \A r : Holds(head, r) \/ Holds(tail, r) => r.provider = g
  BY <1>3, <1>4, <1>5 DEF Holds
<1>9. GroupOf(cands, collapsed, k) \in Seq(AnyRow)
  BY <1>1, <1>6, <1>7
<1>10. \A r : Holds(GroupOf(cands, collapsed, k), r) => r.provider = g
  BY <1>1, <1>6, <1>7, <1>8
<1>11. First => Holds(GroupOf(cands, collapsed, k), Row(g, None))
  BY <1>1, <1>6, <1>8
<1> QED
  BY <1>9, <1>10, <1>11 DEF g

\* The provider of a candidate has its header where that provider is met first.
LEMMA FirstOfGroup ==
    ASSUME NEW cands \in Seq(Models), NEW k \in DOMAIN cands
    PROVE  \E f \in DOMAIN cands : /\ ProviderOf[cands[f]] = ProviderOf[cands[k]]
                                   /\ \A j \in 1..(f - 1) : ProviderOf[cands[j]] # ProviderOf[cands[f]]
<1> DEFINE T == {j \in DOMAIN cands : ProviderOf[cands[j]] = ProviderOf[cands[k]]}
<1>1. DOMAIN cands = 1..Len(cands) /\ Len(cands) \in Nat
  BY LenProperties
<1>2. T \subseteq Nat /\ T # {}
  BY <1>1
<1> HIDE DEF T
<1>3. PICK f \in T : \A j \in T : f <= j
  BY <1>2, LeastOne
<1>4. f \in 1..Len(cands) /\ ProviderOf[cands[f]] = ProviderOf[cands[k]]
  BY <1>1, <1>3 DEF T
<1>5. ASSUME NEW j \in 1..(f - 1) PROVE ProviderOf[cands[j]] # ProviderOf[cands[f]]
  <2>1. j \in 1..Len(cands) /\ ~(f <= j)
    BY <1>1, <1>4
  <2>2. j \notin T
    BY <1>3, <2>1
  <2> QED
    BY <1>1, <1>4, <2>1, <2>2 DEF T
<1> QED
  BY <1>1, <1>4, <1>5

\* The rows are of the candidates' providers, and each of these has its header.
Headed(rows, cands) ==
    /\ \A r : Holds(rows, r) => \E k \in DOMAIN cands : r.provider = ProviderOf[cands[k]]
    /\ \A k \in DOMAIN cands : Holds(rows, Row(ProviderOf[cands[k]], None))

LEMMA RowsAre ==
    ASSUME NEW p, NEW c \in Seq(Models), NEW h
    PROVE  /\ Candidates(p, c, h) \in Seq(Models)
           /\ Rows(p, c, h) \in Seq(AnyRow)
           /\ Headed(Rows(p, c, h), Candidates(p, c, h))
<1> DEFINE cands == Candidates(p, c, h)
           groups == GroupsOf(cands, p.collapsed)
<1>1. cands \in Seq(Models)
  BY AmongHolds DEF Candidates
<1> HIDE DEF cands
<1>2. groups \in Seq(Seq(AnyRow))
  <2>1. Len(cands) \in Nat /\ DOMAIN cands = 1..Len(cands)
    BY <1>1, LenProperties
  <2>2. groups \in [1..Len(cands) -> Seq(AnyRow)]
    BY <1>1, <2>1, GroupHolds DEF GroupsOf
  <2> HIDE DEF groups
  <2> QED
    BY <2>1, <2>2, SeqDef
<1>3. DOMAIN groups = DOMAIN cands /\ \A k \in DOMAIN cands : groups[k] = GroupOf(cands, p.collapsed, k)
  BY DEF GroupsOf
<1>4. Rows(p, c, h) = FlattenSeq(groups)
  BY RowsGroups DEF cands
<1> HIDE DEF groups
<1>5. /\ Rows(p, c, h) \in Seq(AnyRow)
      /\ \A r : Holds(Rows(p, c, h), r) <=> \E k \in DOMAIN cands : Holds(groups[k], r)
  BY <1>2, <1>3, <1>4, FlattenHolds
<1>6. ASSUME NEW r, Holds(Rows(p, c, h), r)
      PROVE  \E k \in DOMAIN cands : r.provider = ProviderOf[cands[k]]
  BY <1>1, <1>3, <1>5, <1>6, GroupHolds
<1>7. ASSUME NEW k \in DOMAIN cands PROVE Holds(Rows(p, c, h), Row(ProviderOf[cands[k]], None))
  <2>1. PICK f \in DOMAIN cands : /\ ProviderOf[cands[f]] = ProviderOf[cands[k]]
                                  /\ \A j \in 1..(f - 1) : ProviderOf[cands[j]] # ProviderOf[cands[f]]
    BY <1>1, FirstOfGroup
  <2>2. Holds(GroupOf(cands, p.collapsed, f), Row(ProviderOf[cands[f]], None))
    BY <1>1, <2>1, GroupHolds
  <2> QED
    BY <1>3, <1>5, <2>1, <2>2
<1> QED
  BY <1>1, <1>5, <1>6, <1>7 DEF cands, Headed

\* The rows do not depend on which of them is selected.
LEMMA SameRows ==
    ASSUME NEW p, NEW q, NEW c, NEW h, q.query = p.query, q.filter = p.filter,
           q.showHidden = p.showHidden
    PROVE  /\ Candidates(q, c, h) = Candidates(p, c, h)
           /\ q.collapsed = p.collapsed => Rows(q, c, h) = Rows(p, c, h)
<1>1. Candidates(q, c, h) = Candidates(p, c, h)
  BY DEF Candidates
<1> QED
  BY <1>1, RowsGroups

-----------------------------------------------------------------------------
(* Types, and a selection that is a row.                                    *)
Selector(p) == DOMAIN p = {"query", "filter", "collapsed", "showHidden", "sel"} /\ p.sel \in Nat \ {0}
\* What may still be chosen, and where a summary that is awaited leads.
ChoicesInv ==
    /\ \A c \in chosen : /\ c.kind = "model" => c.of \in Models
                         /\ c.kind = "session" => c.of \in Sessions
    /\ compact \in Models \cup {None}
    /\ mode = "confirm" => confirm.to \in Models /\ confirm.options # {}
HistoryInv ==
    /\ conv \in [active : Seq(BOOLEAN), measured : Nat]
    /\ mode = "compact" => ~PlanEmpty(conv)
\* The selection of a selector that is shown is one of its rows.
OnARow == mode = "picker" /\ Shown # <<>> => picker.sel \in DOMAIN Shown
ModelsInv == /\ mode \in {"chat", "picker", "confirm", "compact", "resume", "help", "busy"}
             /\ {model, engine} \subseteq Models /\ hidden \subseteq Models /\ cat \in Catalogs
SwitchInv == Selector(picker) /\ ChoicesInv /\ HistoryInv /\ OnARow /\ ModelsInv

LEMMA RebuildFacts ==
    ASSUME NEW p, Selector(p), NEW c \in Seq(Models), NEW h
    PROVE  /\ Selector(Rebuild(p, c, h))
           /\ Rows(Rebuild(p, c, h), c, h) # <<>>
              => Rebuild(p, c, h).sel \in DOMAIN Rows(Rebuild(p, c, h), c, h)
<1> DEFINE n == Len(Rows(p, c, h))
           r == Rebuild(p, c, h)
<1>1. r = [p EXCEPT !.sel = IF n = 0 THEN 1 ELSE IF @ > n THEN n ELSE @]
  BY DEF Rebuild
<1>2. Rows(p, c, h) \in Seq(AnyRow) /\ n \in Nat /\ DOMAIN Rows(p, c, h) = 1..n
  BY RowsAre, LenProperties
<1>3. /\ r.query = p.query /\ r.filter = p.filter /\ r.showHidden = p.showHidden
      /\ r.collapsed = p.collapsed /\ DOMAIN r = DOMAIN p
      /\ r.sel = IF n = 0 THEN 1 ELSE IF p.sel > n THEN n ELSE p.sel
  BY <1>1 DEF Selector
<1> HIDE DEF r, n
<1>4. Rows(r, c, h) = Rows(p, c, h)
  BY <1>3, SameRows
<1>5. Selector(r)
  BY <1>2, <1>3 DEF Selector
<1>6. ASSUME Rows(r, c, h) # <<>> PROVE r.sel \in DOMAIN Rows(r, c, h)
  <2>1. n # 0
    BY <1>2, <1>4, <1>6, EmptySeq DEF n
  <2> QED
    BY <1>2, <1>3, <1>4, <2>1 DEF Selector
<1> QED
  BY <1>5, <1>6 DEF r

\* The same models are asked for, and a row of a provider has its header in others.
SameView(p, q) == q.query = p.query /\ q.filter = p.filter /\ q.showHidden = p.showHidden
HeaderOf(rows, row) == \E k \in DOMAIN rows : rows[k] = Row(row.provider, None)

LEMMA TurnedFacts ==
    ASSUME NEW p, NEW q, NEW c \in Seq(Models), NEW h, SameView(p, q), NEW j \in DOMAIN Rows(p, c, h)
    PROVE  HeaderOf(Rows(q, c, h), Rows(p, c, h)[j])
<1> DEFINE old == Rows(p, c, h)
           new == Rows(q, c, h)
           cands == Candidates(p, c, h)
<1>1. Candidates(q, c, h) = cands
  BY SameRows DEF SameView
<1>2. Headed(old, cands) /\ Headed(new, cands)
  <2>1. Headed(Rows(p, c, h), Candidates(p, c, h)) /\ Headed(Rows(q, c, h), Candidates(q, c, h))
    BY RowsAre
  <2> QED
    BY <1>1, <2>1
<1> HIDE DEF old, new, cands
<1>3. Holds(old, old[j])
  BY DEF Holds, old
<1>4. PICK k \in DOMAIN cands : old[j].provider = ProviderOf[cands[k]]
  BY <1>2, <1>3 DEF Headed
<1>5. Holds(new, Row(old[j].provider, None))
  BY <1>2, <1>4 DEF Headed
<1>6. \E n \in DOMAIN new : new[n] = Row(old[j].provider, None)
  BY <1>5 DEF Holds
<1> QED
  BY <1>6 DEF old, new, HeaderOf

Convs == [active : Seq(BOOLEAN), measured : Nat]

LEMMA CatalogTypes ==
    ASSUME NEW c \in Catalogs
    PROVE  c \in Seq(Models) /\ ToSet(c) \subseteq Models
<1>1. c \in Seq(Models)
  BY SwitchAssumption
<1>2. \A k \in DOMAIN c : c[k] \in Models
  BY <1>1, ElementOfSeq
<1> QED
  BY <1>1, <1>2 DEF ToSet

LEMMA LastOfTypes ==
    ASSUME NEW s \in Seq(BOOLEAN), NEW n \in Nat, n <= Len(s)
    PROVE  LastOf(s, n) \in Seq(BOOLEAN)
<1>1. Len(s) \in Nat /\ DOMAIN s = 1..Len(s) /\ \A k \in 1..Len(s) : s[k] \in BOOLEAN
  BY LenProperties, ElementOfSeq
<1>2. /\ Len(s) - n + 1 \in Int /\ Len(s) \in Int
      /\ \A k \in (Len(s) - n + 1)..Len(s) : s[k] \in BOOLEAN
  BY <1>1
<1>3. SubSeq(s, Len(s) - n + 1, Len(s)) \in Seq(BOOLEAN)
  BY <1>2, SubSeqProperties
<1> QED
  BY <1>3 DEF LastOf

LEMMA CutTypes ==
    ASSUME NEW c \in Convs
    PROVE  /\ Len(c.active) \in Nat
           /\ ~PlanEmpty(c) => Compacted(c) \in Convs
           /\ \A w \in Nat : DropOldest(c, w) \in Convs
<1>1. c.active \in Seq(BOOLEAN) /\ Len(c.active) \in Nat
  BY LenProperties DEF Convs
<1>2. ASSUME ~PlanEmpty(c) PROVE Compacted(c) \in Convs
  <2>1. KeepTurns \in Nat /\ KeepTurns <= Len(c.active)
    BY <1>1, <1>2, SwitchAssumption DEF PlanEmpty
  <2>2. LastOf(c.active, KeepTurns) \in Seq(BOOLEAN)
    BY <1>1, <2>1, LastOfTypes
  <2> QED
    BY <2>2 DEF Compacted, Convs
<1>3. ASSUME NEW w \in Nat PROVE DropOldest(c, w) \in Convs
  <2>1. CASE Len(c.active) <= w
    BY <2>1 DEF DropOldest
  <2>2. CASE ~(Len(c.active) <= w)
    <3>1. LastOf(c.active, w) \in Seq(BOOLEAN)
      BY <1>1, <2>2, LastOfTypes
    <3> QED
      BY <2>2, <3>1 DEF DropOldest, Convs
  <2> QED
    BY <2>1, <2>2
<1> QED
  BY <1>1, <1>2, <1>3

LEMMA SwitchTypes ==
    ASSUME NEW ref \in Models, {model, engine} \subseteq Models, Switch(ref)
    PROVE  {model', engine'} \subseteq Models
BY DEF Switch

LEMMA FinishTypes ==
    ASSUME NEW now, NEW to \in Models \cup {None}, {model, engine} \subseteq Models, FinishSwitch(now, to)
    PROVE  {model', engine'} \subseteq Models
BY SwitchTypes DEF FinishSwitch, target

LEMMA AppliedTypes ==
    ASSUME NEW ref \in Models, {model, engine} \subseteq Models, ApplyModelChosen(ref)
    PROVE  /\ {model', engine'} \subseteq Models /\ mode' \in {"confirm", "chat"}
           /\ mode' = "confirm" => confirm'.to \in Models /\ confirm'.options # {}
<1>1. CASE Show("chat") /\ Switch(ref)
  BY <1>1, SwitchTypes DEF Show
<1>2. ASSUME NEW conflicts, Show("confirm"), UNCHANGED target,
             confirm' = [to |-> ref, options |-> Options(conflicts)]
      PROVE  /\ {model', engine'} \subseteq Models /\ mode' = "confirm"
             /\ confirm'.to \in Models /\ confirm'.options # {}
  <2>1. Options(conflicts) # {}
    BY DEF Options
  <2> QED
    BY <1>2, <2>1 DEF Show, target
<1> QED
  BY <1>1, <1>2 DEF ApplyModelChosen

LEMMA StartTypes ==
    ASSUME NEW c \in Convs, NEW to \in Models \cup {None}, compact \in Models \cup {None},
           StartCompact(c, to)
    PROVE  /\ conv' \in Convs /\ mode' \in {"chat", "compact"} /\ compact' \in Models \cup {None}
           /\ mode' = "compact" => ~PlanEmpty(conv')
<1>1. CASE AtOnce(c)
  BY <1>1, CutTypes DEF StartCompact, Show
<1>2. CASE ~AtOnce(c)
  BY <1>2 DEF StartCompact, Show, AtOnce
<1> QED
  BY <1>1, <1>2

Kept == ModelsInv /\ ChoicesInv /\ HistoryInv

LEMMA KeptTypes ==
    ASSUME Kept
    PROVE  /\ {model, engine} \subseteq Models /\ compact \in Models \cup {None} /\ conv \in Convs
           /\ cat \in Seq(Models) /\ ToSet(cat) \subseteq Models /\ Fallback \in Models
BY CatalogTypes, SwitchAssumption DEF Kept, ModelsInv, ChoicesInv, HistoryInv, Convs

\* A row that is selected, and what it stands for.
LEMMA SelectedRow ==
    ASSUME Kept, NEW k \in DOMAIN Shown
    PROVE  /\ Shown[k].model \in Models \cup {None}
           /\ \E j \in DOMAIN Shown : Shown[j].provider = Shown[k].provider
<1>1. Shown \in Seq(AnyRow)
  BY KeptTypes, RowsAre DEF Shown
<1>2. Shown[k] \in AnyRow
  BY <1>1, ElementOfSeq
<1> QED
  BY <1>2 DEF AnyRow

-----------------------------------------------------------------------------
(* Everything but the selection, step by step.                              *)
LEMMA KeptStays ==
    ASSUME Kept, UNCHANGED <<conv, cat, compact, confirm>>, {model', engine'} \subseteq Models,
           hidden' \subseteq Models, mode' \in {mode, "chat", "picker", "resume", "help", "busy"},
           \A c \in chosen' \ chosen : /\ c.kind = "model" => c.of \in Models
                                       /\ c.kind = "session" => c.of \in Sessions
    PROVE  Kept'
<1>1. \A c \in chosen' : /\ c.kind = "model" => c.of \in Models
                         /\ c.kind = "session" => c.of \in Sessions
  BY DEF Kept, ChoicesInv
<1> QED
  BY <1>1 DEF Kept, ModelsInv, ChoicesInv, HistoryInv, PlanEmpty

\* A conversation changes where it is not awaiting a summary, or is long enough.
LEMMA KeptTalks ==
    ASSUME Kept, conv' \in Convs, UNCHANGED <<cat, hidden>>, {model', engine'} \subseteq Models,
           chosen' \subseteq chosen, compact' \in Models \cup {None},
           mode' \in {"chat", "picker", "confirm", "compact", "resume", "help", "busy"},
           mode' = "compact" => ~PlanEmpty(conv'),
           mode' = "confirm" => confirm'.to \in Models /\ confirm'.options # {}
    PROVE  Kept'
BY DEF Kept, ModelsInv, ChoicesInv, HistoryInv, PlanEmpty, Convs

LEMMA KeptStep == ASSUME SwitchInv, [Next]_vars PROVE Kept'
<1>0. Kept /\ OnARow
  BY DEF SwitchInv, Kept
<1>t. /\ {model, engine} \subseteq Models /\ compact \in Models \cup {None} /\ conv \in Convs
      /\ ToSet(cat) \subseteq Models /\ Fallback \in Models /\ hidden \subseteq Models
  BY <1>0, KeptTypes DEF Kept, ModelsInv
<1>1. CASE UpdatePicker
  <2>1. hidden' \subseteq Models
    <3>1. CASE HideCurrent
      <4>1. Shown # <<>> /\ mode = "picker" /\ Shown[picker.sel].model # None
        BY <1>1, <3>1 DEF HideCurrent, UpdatePicker
      <4>2. Shown[picker.sel].model \in Models
        BY <1>0, <4>1, SelectedRow DEF OnARow
      <4> QED
        BY <1>t, <3>1, <4>2 DEF HideCurrent
    <3> QED
      BY <1>1, <1>t, <3>1 DEF UpdatePicker, Narrow, MoveSel, Fold
  <2> QED
    BY <1>0, <1>1, <1>t, <2>1, KeptStays DEF UpdatePicker, target
<1>2. CASE ChooseModel
  <2>1. Shown[picker.sel].model \in Models
    BY <1>0, <1>2, SelectedRow DEF ChooseModel, OnARow
  <2> QED
    BY <1>0, <1>2, <1>t, <2>1, KeptStays DEF ChooseModel, Choice, target, screens
<1>3. CASE ChooseSession
  BY <1>0, <1>3, <1>t, KeptStays DEF ChooseSession, Choice, target, screens
<1>4. CASE CloseScreen \/ CycleEffort
  BY <1>0, <1>4, <1>t, KeptStays DEF CloseScreen, CycleEffort, Show, target, screens
<1>5. CASE Submit
  <2>1. conv' \in Convs
    <3>1. Grown(conv) \in Nat /\ Append(conv.active, FALSE) \in Seq(BOOLEAN)
      BY <1>t, AppendProperties DEF Grown, Convs
    <3> QED
      BY <1>5, <3>1 DEF Submit, Convs
  <2> QED
    BY <1>0, <1>5, <1>t, <2>1, KeptTalks DEF Submit, Show, target, screens
<1>6. ASSUME NEW c \in chosen, ModelChosen(c) PROVE Kept'
  <2>1. c.of \in Models
    BY <1>0, <1>6 DEF ModelChosen, Kept, ChoicesInv
  <2>2. /\ {model', engine'} \subseteq Models /\ mode' \in {"confirm", "chat"}
        /\ mode' = "confirm" => confirm'.to \in Models /\ confirm'.options # {}
    BY <1>6, <1>t, <2>1, AppliedTypes DEF ModelChosen
  <2> QED
    BY <1>0, <1>6, <1>t, <2>2, KeptTalks DEF ModelChosen
<1>7. ASSUME NEW c \in chosen, SessionChosen(c) PROVE Kept'
  <2>1. c.of.model \in Models /\ c.of.conv \in Convs
    <3>1. c.of \in Sessions
      BY <1>0, <1>7 DEF SessionChosen, Kept, ChoicesInv
    <3> QED
      BY <3>1, SwitchAssumption DEF Convs
  <2>2. {model', engine'} \subseteq Models /\ conv' \in Convs
    <3>1. CASE UNCHANGED <<conv, target>>
      BY <1>t, <3>1 DEF target
    <3>2. CASE conv' = c.of.conv /\ Switch(c.of.model)
      BY <1>t, <2>1, <3>2, SwitchTypes
    <3> QED
      BY <1>7, <3>1, <3>2 DEF SessionChosen
  <2> QED
    BY <1>0, <1>7, <1>t, <2>2, KeptTalks DEF SessionChosen, Show, screens
<1>8. ASSUME NEW option, ResolveConfirm(option) PROVE Kept'
  <2>1. confirm.to \in Models
    BY <1>0, <1>8 DEF ResolveConfirm, Kept, ChoicesInv
  <2>2. /\ UNCHANGED <<cat, hidden, chosen>>
        /\ \/ Show("chat") /\ Switch(confirm.to) /\ UNCHANGED <<conv, compact>>
           \/ StartCompact(conv, confirm.to) /\ FinishSwitch(AtOnce(conv), confirm.to)
           \/ /\ Show("chat") /\ Switch(confirm.to)
              /\ conv' = DropOldest(conv, Window[confirm.to]) /\ UNCHANGED compact
           \/ Show("chat") /\ UNCHANGED <<conv, compact, target>>
    BY <1>8 DEF ResolveConfirm
  <2>3. CASE Show("chat") /\ Switch(confirm.to) /\ UNCHANGED <<conv, compact>>
    BY <1>0, <1>t, <2>1, <2>2, <2>3, SwitchTypes, KeptTalks DEF Show
  <2>4. CASE StartCompact(conv, confirm.to) /\ FinishSwitch(AtOnce(conv), confirm.to)
    <3>1. {model', engine'} \subseteq Models
      BY <1>t, <2>1, <2>4, FinishTypes
    <3>2. /\ conv' \in Convs /\ mode' \in {"chat", "compact"} /\ compact' \in Models \cup {None}
          /\ mode' = "compact" => ~PlanEmpty(conv')
      BY <1>t, <2>1, <2>4, StartTypes
    <3> QED
      BY <1>0, <2>2, <3>1, <3>2, KeptTalks
  <2>5. CASE /\ Show("chat") /\ Switch(confirm.to)
             /\ conv' = DropOldest(conv, Window[confirm.to]) /\ UNCHANGED compact
    <3>1. Window[confirm.to] \in Nat
      BY <2>1, SwitchAssumption
    <3>2. conv' \in Convs
      BY <1>t, <2>5, <3>1, CutTypes
    <3>3. {model', engine'} \subseteq Models
      BY <1>t, <2>1, <2>5, SwitchTypes
    <3> QED
      BY <1>0, <1>t, <2>2, <2>5, <3>2, <3>3, KeptTalks DEF Show
  <2>6. CASE Show("chat") /\ UNCHANGED <<conv, compact, target>>
    BY <1>0, <1>t, <2>2, <2>6, KeptTalks DEF Show, target
  <2> QED
    BY <2>2, <2>3, <2>4, <2>5, <2>6
<1>9. ASSUME NEW ok, FinishCompact(ok) PROVE Kept'
  <2>1. CASE UNCHANGED <<mode, conv, target, compact>>
    BY <1>0, <1>9, <1>t, <2>1, KeptStays DEF FinishCompact, target
  <2>2. CASE mode = "compact" /\ Show("chat") /\ compact' = None
    <3>1. conv' \in Convs /\ {model', engine'} \subseteq Models
      <4>1. CASE conv' = Compacted(conv) /\ FinishSwitch(TRUE, compact)
        <5>1. ~PlanEmpty(conv)
          BY <1>0, <2>2 DEF Kept, HistoryInv
        <5> QED
          BY <1>t, <4>1, <5>1, CutTypes, FinishTypes
      <4>2. CASE UNCHANGED <<conv, target>>
        BY <1>t, <4>2 DEF target
      <4>3. (conv' = Compacted(conv) /\ FinishSwitch(TRUE, compact)) \/ UNCHANGED <<conv, target>>
        BY <1>9 DEF FinishCompact
      <4> QED
        BY <4>1, <4>2, <4>3
    <3> QED
      BY <1>0, <1>9, <2>2, <3>1, KeptTalks DEF FinishCompact, Show
  <2> QED
    BY <1>9, <2>1, <2>2 DEF FinishCompact
<1>10. ASSUME NEW c \in Catalogs, CatalogRefreshed(c) PROVE Kept'
  BY <1>0, <1>10 DEF CatalogRefreshed, Kept, ModelsInv, ChoicesInv, HistoryInv, PlanEmpty, target
<1>11. ASSUME NEW kind, Command(kind) PROVE Kept'
  <2>1. UNCHANGED <<cat, chosen>> /\ mode \in {"chat", "busy"}
    BY <1>11 DEF Command
  <2>2. CASE UNCHANGED <<screens, hidden, conv, target>> /\ mode' \in {mode, "help", "resume"}
    BY <1>0, <1>t, <2>1, <2>2, KeptStays DEF screens, target
  <2>3. CASE conv' = NewConversation /\ UNCHANGED <<mode, screens, hidden, target>>
    <3>1. conv' \in Convs
      BY <2>3, EmptySeq DEF NewConversation, Convs
    <3> QED
      BY <1>0, <1>t, <2>1, <2>3, <3>1, KeptTalks DEF screens, target
  <2>4. CASE hidden' \in {hidden, {}} /\ UNCHANGED <<mode, screens, conv, target>>
    BY <1>0, <1>t, <2>1, <2>4, KeptStays DEF screens, target
  <2>5. CASE StartCompact(conv, None) /\ UNCHANGED <<target, hidden>>
    <3>1. /\ conv' \in Convs /\ mode' \in {"chat", "compact"} /\ compact' \in Models \cup {None}
          /\ mode' = "compact" => ~PlanEmpty(conv')
      BY <1>t, <2>5, StartTypes
    <3> QED
      BY <1>0, <1>t, <2>1, <2>5, <3>1, KeptTalks DEF target
  <2>6. CASE (\E m \in ToSet(cat) \cup Concealed : ApplyModelChosen(m)) /\ UNCHANGED <<compact, hidden, conv>>
    <3>1. PICK m \in ToSet(cat) \cup Concealed : ApplyModelChosen(m)
      BY <2>6
    <3>2. m \in Models
      BY <1>t, SwitchAssumption
    <3>3. /\ {model', engine'} \subseteq Models /\ mode' \in {"confirm", "chat"}
          /\ mode' = "confirm" => confirm'.to \in Models /\ confirm'.options # {}
      BY <1>t, <3>1, <3>2, AppliedTypes
    <3> QED
      BY <1>0, <1>t, <2>1, <2>6, <3>3, KeptTalks
  <2>7. CASE (\E q \in Queries : OpenPicker(q)) /\ UNCHANGED <<compact, hidden, conv>>
    BY <1>0, <1>t, <2>1, <2>7, KeptStays DEF OpenPicker, Show, target
  <2> QED
    BY <1>11, <2>2, <2>3, <2>4, <2>5, <2>6, <2>7 DEF Command, Show
<1>12. ASSUME NEW k, NEW failed, NEW used \in BOOLEAN, EndTurn(k, failed, used) PROVE Kept'
  <2> DEFINE n == Len(conv.active)
             grown == IF used /\ n > 0 THEN [conv.active EXCEPT ![n] = TRUE] ELSE conv.active
  <2>1. n \in Nat /\ conv.active \in Seq(BOOLEAN) /\ conv.measured \in Nat /\ DOMAIN conv.active = 1..n
    BY <1>t, LenProperties DEF Convs
  <2>2. grown \in Seq(BOOLEAN)
    <3>1. CASE used /\ n > 0
      <4>1. [conv.active EXCEPT ![n] = TRUE] \in Seq(BOOLEAN)
        BY <2>1, <3>1, ExceptSeq
      <4> QED
        BY <3>1, <4>1
    <3>2. CASE ~(used /\ n > 0)
      BY <2>1, <3>2
    <3> QED
      BY <3>1, <3>2
  <2>3. UNCHANGED <<cat, hidden, confirm, chosen>>
    BY <1>12 DEF EndTurn
  <2>4. ASSUME NEW c \in Convs, NEW f, EndOfTurn(c, f) PROVE Kept'
    <3>1. {model', engine'} \subseteq Models
      <4>1. Switch(Fallback) \/ UNCHANGED target
        BY <2>4 DEF EndOfTurn
      <4> QED
        BY <1>t, <4>1, SwitchTypes DEF target
    <3>2. /\ conv' \in Convs /\ mode' \in {"chat", "compact"} /\ compact' \in Models \cup {None}
          /\ mode' = "compact" => ~PlanEmpty(conv')
      <4>1. CASE StartCompact(c, None)
        BY <1>t, <4>1, StartTypes
      <4>2. CASE Show("chat") /\ conv' = c /\ UNCHANGED compact
        BY <1>t, <4>2 DEF Show
      <4> QED
        BY <2>4, <4>1, <4>2 DEF EndOfTurn
    <3> QED
      BY <1>0, <2>3, <3>1, <3>2, KeptTalks
  <2>5. \A size \in {conv.measured, n, n + 1} : [active |-> grown, measured |-> size] \in Convs
    BY <2>1, <2>2 DEF Convs
  <2>6. CASE UNCHANGED <<mode, conv, target, compact>>
    BY <1>0, <1>t, <2>3, <2>6, KeptStays DEF target
  <2> HIDE DEF grown
  <2>7. \/ UNCHANGED <<mode, conv, target, compact>>
        \/ EndOfTurn(conv, TRUE)
        \/ \E size \in {conv.measured, n, n + 1} : EndOfTurn([active |-> grown, measured |-> size], FALSE)
    BY <1>12 DEF EndTurn, grown
  <2> QED
    BY <1>t, <2>4, <2>5, <2>6, <2>7
<1>13. CASE UNCHANGED vars
  BY <1>0, <1>13, <1>t, KeptStays DEF vars, target, screens
<1> QED
  BY <1>1, <1>2, <1>3, <1>4, <1>5, <1>6, <1>7, <1>8, <1>9, <1>10, <1>11, <1>12, <1>13 DEF Next

-----------------------------------------------------------------------------
(* The selection, step by step.                                             *)
LEMMA SelectionStays ==
    ASSUME Selector(picker), OnARow, UNCHANGED picker,
           mode' = "picker" => mode = "picker" /\ UNCHANGED <<cat, hidden>>
    PROVE  Selector(picker') /\ OnARow'
BY DEF OnARow, Shown

LEMMA SelectionRebuilt ==
    ASSUME NEW p, Selector(p), cat' \in Seq(Models), picker' = Rebuild(p, cat', hidden')
    PROVE  Selector(picker') /\ OnARow'
BY RebuildFacts DEF OnARow, Shown

LEMMA FoldSelects ==
    ASSUME Kept, Selector(picker), OnARow, mode = "picker", NEW collapse, Fold(collapse), UNCHANGED cat
    PROVE  Selector(picker') /\ OnARow'
<1> DEFINE provider == Shown[picker.sel].provider
           q == [picker EXCEPT !.collapsed = IF collapse THEN @ \cup {provider} ELSE @ \ {provider}]
           rows == Rows(q, cat, hidden)
           k == CHOOSE r \in DOMAIN rows : rows[r] = Row(provider, None)
<1>1. cat \in Seq(Models)
  BY KeptTypes
<1>2. picker.sel \in DOMAIN Shown
  BY DEF Fold, OnARow
<1>3. /\ DOMAIN q = DOMAIN picker /\ q.sel = picker.sel
      /\ q.query = picker.query /\ q.filter = picker.filter /\ q.showHidden = picker.showHidden
  BY DEF Selector
<1>4. picker' = [q EXCEPT !.sel = k] /\ hidden' = hidden
  BY DEF Fold, Turned
<1>5. picker.sel \in DOMAIN Rows(picker, cat, hidden) /\ provider = Rows(picker, cat, hidden)[picker.sel].provider
  BY <1>2 DEF Shown
<1> HIDE DEF q, provider, k
<1>6. \E r \in DOMAIN rows : rows[r] = Row(provider, None)
  <2>1. SameView(picker, q)
    BY <1>3 DEF SameView
  <2>2. HeaderOf(Rows(q, cat, hidden), Rows(picker, cat, hidden)[picker.sel])
    BY <1>1, <1>5, <2>1, TurnedFacts
  <2> QED
    BY <1>5, <2>2 DEF HeaderOf
<1>7. k \in DOMAIN rows
  BY <1>6 DEF k
<1>8. rows \in Seq(AnyRow) /\ DOMAIN rows = 1..Len(rows) /\ Len(rows) \in Nat
  BY <1>1, RowsAre, LenProperties
<1> HIDE DEF rows
<1>9. /\ picker'.sel = k /\ DOMAIN picker' = DOMAIN picker
      /\ picker'.query = q.query /\ picker'.filter = q.filter /\ picker'.showHidden = q.showHidden
      /\ picker'.collapsed = q.collapsed
  BY <1>3, <1>4 DEF Selector
<1>10. Rows(picker', cat, hidden) = rows
  BY <1>9, SameRows DEF rows
<1>11. Selector(picker')
  BY <1>7, <1>8, <1>9 DEF Selector
<1> QED
  BY <1>4, <1>7, <1>9, <1>10, <1>11 DEF OnARow, Shown

LEMMA MoveSelects ==
    ASSUME Kept, Selector(picker), OnARow, mode = "picker", NEW delta \in {1, -1}, MoveSel(delta),
           UNCHANGED cat
    PROVE  Selector(picker') /\ OnARow'
<1> DEFINE n == Len(Shown)
           k == ((picker.sel - 1 + delta) % n) + 1
<1>1. Shown \in Seq(AnyRow)
  BY KeptTypes, RowsAre DEF Shown
<1>2. DOMAIN Shown = 1..n /\ n \in Nat /\ n > 0
  BY <1>1, LenProperties DEF MoveSel
<1>3. picker' = [picker EXCEPT !.sel = k] /\ hidden' = hidden
  BY DEF MoveSel
<1>4. picker.sel - 1 + delta \in Int
  BY DEF Selector
<1> HIDE DEF n
<1>5. k \in 1..n
  BY <1>2, <1>4
<1> HIDE DEF k
<1>6. /\ picker'.sel = k /\ DOMAIN picker' = DOMAIN picker
      /\ picker'.query = picker.query /\ picker'.filter = picker.filter
      /\ picker'.showHidden = picker.showHidden /\ picker'.collapsed = picker.collapsed
  BY <1>3 DEF Selector
<1>7. Rows(picker', cat, hidden) = Shown
  BY <1>6, SameRows DEF Shown
<1>8. Selector(picker')
  BY <1>2, <1>5, <1>6 DEF Selector
<1> QED
  BY <1>2, <1>3, <1>5, <1>6, <1>7, <1>8 DEF OnARow, Shown

LEMMA SelectionStep == ASSUME SwitchInv, [Next]_vars PROVE Selector(picker') /\ OnARow'
<1>0. Kept /\ Selector(picker) /\ OnARow /\ cat \in Seq(Models)
  BY KeptTypes DEF SwitchInv, Kept
<1>1. CASE UpdatePicker
  <2>1. mode = "picker" /\ UNCHANGED cat
    BY <1>1 DEF UpdatePicker
  <2>2. CASE HideCurrent
    <3>1. Selector([picker EXCEPT !.sel = 1])
      BY <1>0 DEF Selector
    <3>2. \E p : Selector(p) /\ picker' = Rebuild(p, cat, hidden')
      BY <1>0, <2>2, <3>1 DEF HideCurrent
    <3> QED
      BY <1>0, <2>1, <3>2, SelectionRebuilt
  <2>3. CASE Narrow
    <3>1. \E p : Selector(p) /\ picker' = Rebuild(p, cat, hidden)
      <4>1. \A q : Selector([picker EXCEPT !.query = q, !.sel = 1])
        BY <1>0 DEF Selector
      <4>2. Selector([picker EXCEPT !.filter = (@ % Len(Filters)) + 1, !.sel = 1])
        BY <1>0 DEF Selector
      <4>3. Selector([picker EXCEPT !.showHidden = ~@, !.sel = 1])
        BY <1>0 DEF Selector
      <4> QED
        BY <2>3, <4>1, <4>2, <4>3 DEF Narrow
    <3>2. UNCHANGED hidden
      BY <2>3 DEF Narrow
    <3> QED
      BY <1>0, <2>1, <3>1, <3>2, SelectionRebuilt
  <2>4. ASSUME NEW d \in {1, -1}, MoveSel(d) PROVE Selector(picker') /\ OnARow'
    BY <1>0, <2>1, <2>4, MoveSelects
  <2>5. ASSUME NEW c \in BOOLEAN, Fold(c) PROVE Selector(picker') /\ OnARow'
    BY <1>0, <2>1, <2>5, FoldSelects
  <2> QED
    BY <1>1, <2>2, <2>3, <2>4, <2>5 DEF UpdatePicker
<1>2. CASE ChooseModel \/ ChooseSession \/ CloseScreen \/ CycleEffort \/ Submit
  BY <1>0, <1>2, SelectionStays DEF ChooseModel, ChooseSession, CloseScreen, CycleEffort, Submit, Show, screens
<1>3. ASSUME NEW c \in chosen, ModelChosen(c) \/ SessionChosen(c) PROVE Selector(picker') /\ OnARow'
  BY <1>0, <1>3, SelectionStays DEF ModelChosen, SessionChosen, ApplyModelChosen, Show, screens
<1>4. ASSUME NEW option, ResolveConfirm(option) PROVE Selector(picker') /\ OnARow'
  BY <1>0, <1>4, SelectionStays DEF ResolveConfirm, StartCompact, Show
<1>5. ASSUME NEW ok, FinishCompact(ok) PROVE Selector(picker') /\ OnARow'
  BY <1>0, <1>5, SelectionStays DEF FinishCompact, Show
<1>6. ASSUME NEW c \in Catalogs, CatalogRefreshed(c) PROVE Selector(picker') /\ OnARow'
  <2>1. CASE mode = "picker"
    BY <1>0, <1>6, <2>1, CatalogTypes, SelectionRebuilt DEF CatalogRefreshed
  <2>2. CASE mode # "picker"
    BY <1>0, <1>6, <2>2, SelectionStays DEF CatalogRefreshed
  <2> QED
    BY <2>1, <2>2
<1>7. ASSUME NEW kind, Command(kind) PROVE Selector(picker') /\ OnARow'
  <2>1. UNCHANGED cat /\ mode \in {"chat", "busy"}
    BY <1>7 DEF Command
  <2>2. CASE UNCHANGED picker /\ mode' # "picker"
    BY <1>0, <2>2, SelectionStays
  <2>3. ASSUME NEW q, OpenPicker(q), UNCHANGED hidden PROVE Selector(picker') /\ OnARow'
    <3>1. Selector(NewPicker(q))
      BY DEF NewPicker, Selector
    <3> QED
      BY <1>0, <2>1, <2>3, <3>1, SelectionRebuilt DEF OpenPicker
  <2>4. CASE (\E m \in ToSet(cat) \cup Concealed : ApplyModelChosen(m)) /\ UNCHANGED picker
    BY <2>2, <2>4 DEF ApplyModelChosen, Show
  <2>5. CASE StartCompact(conv, None) /\ UNCHANGED picker
    BY <2>2, <2>5 DEF StartCompact, Show
  <2> QED
    BY <1>7, <2>1, <2>2, <2>3, <2>4, <2>5 DEF Command, Show, screens
<1>8. ASSUME NEW k, NEW failed, NEW used \in BOOLEAN, EndTurn(k, failed, used)
      PROVE  Selector(picker') /\ OnARow'
  <2>1. UNCHANGED <<picker, cat, hidden>>
    BY <1>8 DEF EndTurn
  <2>2. ASSUME NEW c, NEW f, EndOfTurn(c, f) PROVE mode' # "picker"
    BY <2>2 DEF EndOfTurn, StartCompact, Show
  <2>3. mode' = "picker" => mode = "picker"
    BY <1>8, <2>2 DEF EndTurn
  <2> QED
    BY <1>0, <2>1, <2>3, SelectionStays
<1>9. CASE UNCHANGED vars
  BY <1>0, <1>9, SelectionStays DEF vars, screens
<1> QED
  BY <1>1, <1>2, <1>3, <1>4, <1>5, <1>6, <1>7, <1>8, <1>9 DEF Next

LEMMA SwitchInit == Init => SwitchInv
<1> SUFFICES ASSUME Init PROVE SwitchInv
  OBVIOUS
<1>1. model \in Models /\ cat \in Catalogs
  BY CatalogTypes DEF Init
<1>2. Selector(picker)
  BY DEF Init, NewPicker, Selector
<1>3. ModelsInv /\ OnARow
  BY <1>1 DEF Init, ModelsInv, OnARow
<1>4. ChoicesInv
  BY DEF Init, ChoicesInv
<1>5. HistoryInv
  BY EmptySeq DEF Init, HistoryInv, NewConversation
<1> QED
  BY <1>2, <1>3, <1>4, <1>5 DEF SwitchInv

\* Types, and that the selector, whenever it has rows, points at one of them,
\* through filters, folding, hiding and refreshes of the catalog under it
\* (tui/picker.go, rebuild and selected): for any catalogs, filters and queries.
THEOREM SelectionAlwaysThere == Spec => []TypeOK
<1>1. SwitchInv /\ [Next]_vars => SwitchInv'
  BY KeptStep, SelectionStep DEF SwitchInv, Kept
<1>2. SwitchInv => TypeOK
  <2> SUFFICES ASSUME SwitchInv PROVE TypeOK
    OBVIOUS
  <2>1. mode = "confirm" => confirm # NoDialog
    BY DEF SwitchInv, ChoicesInv, NoDialog
  <2> QED
    BY <2>1 DEF SwitchInv, ModelsInv, HistoryInv, OnARow, TypeOK
<1> QED
  BY SwitchInit, <1>1, <1>2, PTL DEF Spec

\* Two such functions agree where the sequences do.
LEMMA JoinsAgree ==
    ASSUME NEW a, NEW b, NEW f, NEW g, NEW m \in Nat, NEW n \in Nat, m <= n,
           Joins(a, f, m), Joins(b, g, n), \A i \in 1..m : a[i] = b[i]
    PROVE  \A i \in 1..m : f[i] = g[i]
<1> DEFINE Bad == {i \in 1..m : f[i] # g[i]}
<1>1. SUFFICES ASSUME Bad # {} PROVE FALSE
  OBVIOUS
<1>2. PICK i \in Bad : \A k \in Bad : i <= k
  <2>1. Bad \subseteq Nat
    OBVIOUS
  <2> HIDE DEF Bad
  <2> QED
    BY <1>1, <2>1, LeastOne
<1>3. i \in 1..m /\ i \in 1..n /\ f[i] # g[i]
  BY <1>2
<1>4. /\ f[i] = (IF i = 1 THEN a[i] ELSE f[i - 1] \o a[i])
      /\ g[i] = (IF i = 1 THEN b[i] ELSE g[i - 1] \o b[i])
  BY <1>3 DEF Joins
<1>5. i # 1
  BY <1>3, <1>4
<1>6. i - 1 \in 1..m /\ ~(i <= i - 1)
  BY <1>3, <1>5
<1>7. f[i - 1] = g[i - 1]
  BY <1>2, <1>6
<1> QED
  BY <1>3, <1>4, <1>5, <1>7

LEMMA FlatEmpty == FlattenSeq(<<>>) = <<>>
BY DEF FlattenSeq

\* One sequence more is flattened by joining it.
LEMMA FlatAppendIs ==
    ASSUME NEW S, NEW ss \in Seq(Seq(S)), NEW s \in Seq(S)
    PROVE  FlattenSeq(Append(ss, s)) = IF ss = <<>> THEN s ELSE FlattenSeq(ss) \o s
<1> DEFINE tt == Append(ss, s)
<1>0. PICK n \in Nat : n = Len(ss)
  BY LenProperties
<1>1. /\ Len(tt) = n + 1 /\ tt \in Seq(Seq(S))
      /\ \A i \in 1..n : tt[i] = ss[i]
      /\ tt[n + 1] = s
  BY <1>0, AppendProperties
<1> HIDE DEF tt
<1>2. PICK f : Joins(tt, f, Len(tt)) /\ FlattenSeq(tt) = f[Len(tt)]
  BY <1>1, FlattenJoins
<1>3. n + 1 \in 1..Len(tt) /\ n + 1 - 1 = n
  BY <1>1
<1>32. \A i \in 1..Len(tt) : f[i] = IF i = 1 THEN tt[i] ELSE f[i - 1] \o tt[i]
  BY <1>2 DEF Joins
<1>31. f[n + 1] = IF n + 1 = 1 THEN tt[n + 1] ELSE f[n] \o tt[n + 1]
  BY <1>3, <1>32
<1>4. CASE n = 0
  <2>1. ss = <<>>
    BY <1>0, <1>4, EmptySeq
  <2> QED
    BY <1>0, <1>1, <1>2, <1>31, <1>4, <2>1 DEF tt
<1>5. CASE n # 0
  <2>1. ss # <<>>
    BY <1>0, <1>5, EmptySeq
  <2>2. PICK g : Joins(ss, g, n) /\ FlattenSeq(ss) = g[n]
    BY <1>0, <1>5, FlattenJoins
  <2>3. n <= n + 1 /\ n \in 1..n /\ Joins(tt, f, n + 1) /\ \A i \in 1..n : ss[i] = tt[i]
    BY <1>1, <1>2, <1>5
  <2>4. n + 1 \in Nat
    BY <1>1
  <2>5. \A i \in 1..n : g[i] = f[i]
    BY <2>2, <2>3, <2>4, JoinsAgree
  <2>6. f[n] = FlattenSeq(ss)
    BY <2>2, <2>3, <2>5
  <2>7. FlattenSeq(tt) = f[n + 1] /\ n + 1 # 1 /\ tt[n + 1] = s
    BY <1>1, <1>2, <1>5
  <2> QED
    BY <1>1, <1>31, <2>1, <2>6, <2>7 DEF tt
<1> QED
  BY <1>4, <1>5

\* Flattening yields a sequence.
LEMMA FlatType == ASSUME NEW S, NEW ss \in Seq(Seq(S)) PROVE FlattenSeq(ss) \in Seq(S)
<1> DEFINE Bad == {n \in Nat : \E t \in Seq(Seq(S)) : Len(t) = n /\ FlattenSeq(t) \notin Seq(S)}
<1>1. SUFFICES ASSUME Bad # {} PROVE FALSE
  BY LenProperties
<1>2. PICK n \in Bad : \A k \in Bad : n <= k
  <2>1. Bad \subseteq Nat
    OBVIOUS
  <2> HIDE DEF Bad
  <2> QED
    BY <1>1, <2>1, LeastOne
<1>3. PICK t \in Seq(Seq(S)) : Len(t) = n /\ FlattenSeq(t) \notin Seq(S)
  BY <1>2
<1>4. t # <<>>
  BY <1>3, FlatEmpty, EmptySeq
<1>5. PICK u \in Seq(Seq(S)), e \in Seq(S) : t = Append(u, e)
  BY <1>4, SequenceEmptyOrAppend
<1>6. Len(u) \in Nat /\ n = Len(u) + 1
  BY <1>3, <1>5, AppendProperties, LenProperties
<1>7. Len(u) \notin Bad
  <2> HIDE DEF Bad
  <2> QED
    BY <1>2, <1>6
<1>8. FlattenSeq(u) \in Seq(S)
  BY <1>6, <1>7
<1>9. FlattenSeq(t) \in Seq(S)
  BY <1>5, <1>8, FlatAppendIs, ConcatProperties
<1> QED
  BY <1>3, <1>9

LEMMA FlatAppend ==
    ASSUME NEW S, NEW ss \in Seq(Seq(S)), NEW s \in Seq(S)
    PROVE  FlattenSeq(Append(ss, s)) = FlattenSeq(ss) \o s
<1>1. CASE ss = <<>>
  BY <1>1, FlatAppendIs, FlatEmpty, ConcatEmptySeq
<1>2. CASE ss # <<>>
  BY <1>2, FlatAppendIs
<1> QED
  BY <1>1, <1>2

LEMMA FlatConcatStep ==
    ASSUME NEW S, NEW a \in Seq(Seq(S)), NEW u \in Seq(Seq(S)), NEW e \in Seq(S),
           FlattenSeq(a \o u) = FlattenSeq(a) \o FlattenSeq(u)
    PROVE  FlattenSeq(a \o Append(u, e)) = FlattenSeq(a) \o FlattenSeq(Append(u, e))
<1>1. FlattenSeq(a) \in Seq(S) /\ FlattenSeq(u) \in Seq(S) /\ a \o u \in Seq(Seq(S))
  BY FlatType, ConcatProperties
<1>2. a \o Append(u, e) = Append(a \o u, e)
  <2>1. <<e>> \in Seq(Seq(S)) /\ Append(u, e) = u \o <<e>> /\ Append(a \o u, e) = (a \o u) \o <<e>>
    BY <1>1, AppendIsConcat
  <2> QED
    BY <2>1, ConcatAssociative
<1>3. FlattenSeq(a \o Append(u, e)) = (FlattenSeq(a) \o FlattenSeq(u)) \o e
  BY <1>1, <1>2, FlatAppend
<1>4. FlattenSeq(Append(u, e)) = FlattenSeq(u) \o e
  BY FlatAppend
<1> QED
  BY <1>1, <1>3, <1>4, ConcatAssociative

\* The parts of a sequence are flattened apart.
LEMMA FlatConcat ==
    ASSUME NEW S, NEW a \in Seq(Seq(S)), NEW b \in Seq(Seq(S))
    PROVE  FlattenSeq(a \o b) = FlattenSeq(a) \o FlattenSeq(b)
<1> DEFINE Apart(t) == FlattenSeq(a \o t) = FlattenSeq(a) \o FlattenSeq(t)
           Bad == {n \in Nat : \E t \in Seq(Seq(S)) : Len(t) = n /\ ~Apart(t)}
<1>1. SUFFICES ASSUME Bad # {} PROVE FALSE
  BY LenProperties
<1>2. PICK n \in Bad : \A k \in Bad : n <= k
  <2>1. Bad \subseteq Nat
    OBVIOUS
  <2> HIDE DEF Bad
  <2> QED
    BY <1>1, <2>1, LeastOne
<1>3. PICK t \in Seq(Seq(S)) : Len(t) = n /\ ~Apart(t)
  BY <1>2
<1>4. Apart(<<>>)
  <2>1. a \o <<>> = a /\ FlattenSeq(a) \o <<>> = FlattenSeq(a)
    BY FlatType, ConcatEmptySeq
  <2> QED
    BY <2>1, FlatEmpty
<1>5. PICK u \in Seq(Seq(S)), e \in Seq(S) : t = Append(u, e)
  <2>1. t # <<>>
    <3> HIDE DEF Apart
    <3> QED
      BY <1>3, <1>4
  <2> QED
    BY <2>1, SequenceEmptyOrAppend
<1>6. n \in Nat /\ Len(u) \in Nat /\ n = Len(u) + 1
  BY <1>2, <1>3, <1>5, AppendProperties, LenProperties
<1>7. Len(u) \notin Bad
  <2> HIDE DEF Bad
  <2> QED
    BY <1>2, <1>6
<1>8. Apart(u)
  BY <1>6, <1>7
<1>9. Apart(Append(u, e))
  BY <1>8, FlatConcatStep
<1> QED
  BY <1>3, <1>5, <1>9

(* What each entry of s comes to, joined.                                   *)
Mapped(w, s) == [k \in DOMAIN s |-> w[s[k]]]
Maps(T, Y) == [T -> Y]
Flat(w, s) == FlattenSeq(Mapped(w, s))

LEMMA JoinIs ==
    ASSUME NEW Y, NEW p \in Seq(Y), NEW q \in Seq(Y), NEW r \in Seq(Y), Len(r) = Len(p) + Len(q),
           \A i \in 1..Len(p) : r[i] = p[i], \A i \in 1..Len(q) : r[Len(p) + i] = q[i]
    PROVE  r = p \o q
<1>1. Len(p) \in Nat /\ Len(q) \in Nat
  BY LenProperties
<1>2. /\ p \o q \in Seq(Y) /\ Len(p \o q) = Len(p) + Len(q)
      /\ \A i \in 1..(Len(p) + Len(q)) : (p \o q)[i] = IF i <= Len(p) THEN p[i] ELSE q[i - Len(p)]
  BY ConcatProperties
<1>3. ASSUME NEW i \in 1..Len(r) PROVE r[i] = (p \o q)[i]
  <2>1. CASE i <= Len(p)
    BY <1>1, <1>2, <2>1
  <2>2. CASE ~(i <= Len(p))
    <3>1. i - Len(p) \in 1..Len(q) /\ Len(p) + (i - Len(p)) = i
      BY <1>1, <2>2
    <3>2. r[i] = q[i - Len(p)]
      BY <3>1
    <3> QED
      BY <1>1, <1>2, <2>2, <3>2
  <2> QED
    BY <2>1, <2>2
<1> QED
  BY <1>2, <1>3, SeqEqual

LEMMA SameInterval == ASSUME NEW m \in Nat, NEW n \in Nat, 1..m = 1..n PROVE m = n
<1>1. m # 0 => m \in 1..m
  OBVIOUS
<1>2. n # 0 => n \in 1..n
  OBVIOUS
<1>3. m # 0 => m \in 1..n
  BY <1>1
<1>4. n # 0 => n \in 1..m
  BY <1>2
<1> QED
  BY <1>3, <1>4

LEMMA MapType ==
    ASSUME NEW T, NEW Y, NEW w \in Maps(T, Y), NEW s \in Seq(T)
    PROVE  Mapped(w, s) \in Seq(Y) /\ Len(Mapped(w, s)) = Len(s)
           /\ \A k \in 1..Len(s) : Mapped(w, s)[k] = w[s[k]]
<1>1. Len(s) \in Nat /\ DOMAIN s = 1..Len(s) /\ \A k \in 1..Len(s) : s[k] \in T
  BY LenProperties, ElementOfSeq
<1>2. Mapped(w, s) \in [1..Len(s) -> Y] /\ \A k \in 1..Len(s) : Mapped(w, s)[k] = w[s[k]]
  BY <1>1 DEF Mapped, Maps
<1>3. Mapped(w, s) \in Seq(Y)
  BY <1>1, <1>2, SeqDef
<1>4. DOMAIN Mapped(w, s) = 1..Len(Mapped(w, s)) /\ DOMAIN Mapped(w, s) = 1..Len(s) /\ Len(Mapped(w, s)) \in Nat
  BY <1>1, <1>2, <1>3, LenProperties
<1>5. Len(Mapped(w, s)) = Len(s)
  <2>1. PICK m : m = Len(Mapped(w, s)) /\ m \in Nat /\ 1..m = 1..Len(s)
    BY <1>4
  <2> QED
    BY <1>1, <2>1, SameInterval
<1> QED
  BY <1>2, <1>3, <1>5

LEMMA MapConcat ==
    ASSUME NEW T, NEW Y, NEW w \in Maps(T, Y), NEW a \in Seq(T), NEW b \in Seq(T)
    PROVE  Mapped(w, a \o b) = Mapped(w, a) \o Mapped(w, b)
<1>1. PICK m, n : m = Len(a) /\ n = Len(b)
  OBVIOUS
<1>2. PICK p, q, r, c : p = Mapped(w, a) /\ q = Mapped(w, b) /\ c = a \o b /\ r = Mapped(w, c)
  OBVIOUS
<1>3. /\ c \in Seq(T) /\ Len(c) = m + n /\ m \in Nat /\ n \in Nat
      /\ \A i \in 1..(m + n) : c[i] = IF i <= m THEN a[i] ELSE b[i - m]
  BY <1>1, <1>2, ConcatProperties, LenProperties
<1> w \in Maps(T, Y) /\ a \in Seq(T) /\ b \in Seq(T)
  OBVIOUS
<1>4. p \in Seq(Y) /\ Len(p) = m /\ \A k \in 1..m : p[k] = w[a[k]]
  BY <1>1, <1>2, MapType
<1>5. q \in Seq(Y) /\ Len(q) = n /\ \A k \in 1..n : q[k] = w[b[k]]
  BY <1>1, <1>2, MapType
<1>6. r \in Seq(Y) /\ Len(r) = m + n /\ \A k \in 1..(m + n) : r[k] = w[c[k]]
  <2>1. c \in Seq(T) /\ Len(c) = m + n
    BY <1>3
  <2>2. /\ Mapped(w, c) \in Seq(Y) /\ Len(Mapped(w, c)) = Len(c)
        /\ \A k \in 1..Len(c) : Mapped(w, c)[k] = w[c[k]]
    BY <2>1, MapType
  <2> QED
    BY <1>2, <2>1, <2>2
<1>7. ASSUME NEW i \in 1..m PROVE r[i] = p[i]
  <2>1. i \in 1..(m + n) /\ i <= m
    BY <1>3, <1>7
  <2> QED
    BY <1>3, <1>4, <1>6, <1>7, <2>1
<1>8. ASSUME NEW i \in 1..n PROVE r[m + i] = q[i]
  <2>1. m + i \in 1..(m + n) /\ ~(m + i <= m) /\ m + i - m = i
    BY <1>3, <1>8
  <2>2. c[m + i] = b[i]
    BY <1>3, <2>1
  <2> QED
    BY <1>5, <1>6, <1>8, <2>1, <2>2
<1>9. r = p \o q
  <2>1. /\ p \in Seq(Y) /\ q \in Seq(Y) /\ r \in Seq(Y) /\ Len(r) = Len(p) + Len(q)
        /\ \A i \in 1..Len(p) : r[i] = p[i]
        /\ \A i \in 1..Len(q) : r[Len(p) + i] = q[i]
    BY <1>4, <1>5, <1>6, <1>7, <1>8
  <2> QED
    BY <2>1, JoinIs
<1> QED
  BY <1>2, <1>9

LEMMA FlatMapJoin ==
    ASSUME NEW T, NEW X, NEW w \in Maps(T, Seq(X)), NEW a \in Seq(T), NEW b \in Seq(T)
    PROVE  Flat(w, a) \in Seq(X) /\ Flat(w, a \o b) = Flat(w, a) \o Flat(w, b)
<1>1. PICK Y : Y = Seq(X)
  OBVIOUS
<1>2. w \in Maps(T, Y)
  BY <1>1
<1>3. PICK p, q, r : p = Mapped(w, a) /\ q = Mapped(w, b) /\ r = Mapped(w, a \o b)
  OBVIOUS
<1>4. p \in Seq(Y) /\ q \in Seq(Y)
  BY <1>2, <1>3, MapType
<1>5. r = p \o q
  <2>1. Mapped(w, a \o b) = Mapped(w, a) \o Mapped(w, b)
    BY <1>2, MapConcat
  <2> QED
    BY <1>3, <2>1
<1>6. FlattenSeq(p) \in Seq(X) /\ FlattenSeq(p \o q) = FlattenSeq(p) \o FlattenSeq(q)
  BY <1>1, <1>4, FlatType, FlatConcat
<1> QED
  BY <1>3, <1>5, <1>6 DEF Flat

LEMMA FlatMapOne ==
    ASSUME NEW T, NEW X, NEW w \in Maps(T, Seq(X)), NEW e \in T
    PROVE  Flat(w, <<e>>) = w[e] /\ Flat(w, <<>>) = <<>>
<1>1. Mapped(w, <<e>>) = <<w[e]>>
  BY DEF Mapped
<1>2. <<>> \in Seq(Seq(X)) /\ w[e] \in Seq(X) /\ Append(<<>>, w[e]) = <<w[e]>>
  BY EmptySeq DEF Maps
<1>3. FlattenSeq(Append(<<>>, w[e])) = w[e]
  BY <1>2, FlatAppendIs
<1>4. Flat(w, <<e>>) = w[e]
  BY <1>1, <1>2, <1>3 DEF Flat
<1>5. Mapped(w, <<>>) = <<>>
  BY DEF Mapped
<1> QED
  BY <1>4, <1>5, FlatEmpty DEF Flat

\* What an entry more, and an entry less, come to.
LEMMA FlatMapFacts ==
    ASSUME NEW T, NEW X, NEW w \in Maps(T, Seq(X)), NEW a \in Seq(T)
    PROVE  /\ \A e \in T : Flat(w, Append(a, e)) = Flat(w, a) \o w[e]
           /\ a # <<>> => Head(a) \in T /\ Tail(a) \in Seq(T) /\ Flat(w, a) = w[Head(a)] \o Flat(w, Tail(a))
<1>1. ASSUME NEW e \in T PROVE Flat(w, Append(a, e)) = Flat(w, a) \o w[e]
  <2>1. <<e>> \in Seq(T) /\ Append(a, e) = a \o <<e>>
    BY AppendIsConcat
  <2> QED
    <3>1. PICK b : b = <<e>> /\ b \in Seq(T)
      BY <2>1
    <3> w \in Maps(T, Seq(X)) /\ a \in Seq(T)
      OBVIOUS
    <3>11. b \in Seq(T)
      BY <3>1
    <3>2. Flat(w, a \o b) = Flat(w, a) \o Flat(w, b)
      BY <3>11, FlatMapJoin
    <3>3. Flat(w, b) = w[e]
      BY <3>1, FlatMapOne
    <3> QED
      BY <2>1, <3>1, <3>2, <3>3
<1>2. ASSUME a # <<>>
      PROVE  Head(a) \in T /\ Tail(a) \in Seq(T) /\ Flat(w, a) = w[Head(a)] \o Flat(w, Tail(a))
  <2>1. Head(a) \in T /\ Tail(a) \in Seq(T) /\ <<Head(a)>> \in Seq(T)
    BY <1>2, HeadTailProperties
  <2>2. a = <<Head(a)>> \o Tail(a)
    BY <1>2, <2>1
  <2>3. PICK e, b, t : e = Head(a) /\ b = <<e>> /\ t = Tail(a)
    OBVIOUS
  <2>4. e \in T /\ b \in Seq(T) /\ t \in Seq(T)
    BY <2>1, <2>3
  <2> w \in Maps(T, Seq(X))
    OBVIOUS
  <2>5. Flat(w, b \o t) = Flat(w, b) \o Flat(w, t)
    BY <2>4, FlatMapJoin
  <2>6. Flat(w, b) = w[e]
    BY <2>3, <2>4, FlatMapOne
  <2> QED
    BY <2>1, <2>2, <2>3, <2>5, <2>6
<1> QED
  BY <1>1, <1>2

-----------------------------------------------------------------------------
(* The values the variables take.                                            *)
Failures == {"truncated", "broken", "error"}
Payload == Nat \cup Seq(Nat) \cup Failures
Piece == [kind : {"text", "thought", "usage", "call"}, call : 0..MaxPieces]
PieceOf(ev) == [kind |-> IF ev.kind = "stop" THEN "usage" ELSE ev.kind, call |-> ev.call]
Event == [kind : {"none", "text", "thought", "usage", "call", "close", "finish", "stop", "error", "fault", "junk"},
          n : 0..MaxPieces, call : 0..MaxPieces]
Item == {e \in [kind : {"text", "thought", "usage", "call", "error", "done"}, n : Payload] :
            (e.kind = "error" => e.n \in Failures) /\ (e.kind = "usage" => e.n \in Nat \ {0})}
CallEntry == [index : 0..MaxPieces, id : 0..MaxPieces, args : Seq(Nat)]
Text == Seq(Payload)
Openings == [door : {"screen", "text", "json"}, tools : BOOLEAN, save : BOOLEAN, quiet : BOOLEAN, reasoning : BOOLEAN]
Answers == {"none", "complete", "cancelled"} \cup Failures
Printable == [kind : {"text", "thought", "usage", "call", "error", "done", "warning", "meta"} \cup
                    {"none", "close", "finish", "stop", "fault", "junk"}, n : Payload]

WireTypes ==
    /\ dialect \in {"chat", "messages", "generate", "responses"} /\ style \in {"index", "id", "bare"}
    /\ dialect \in Dialects /\ style \in Styles
    /\ sent \in Seq(Piece) /\ Len(sent) <= MaxPieces /\ said \in {"more", "whole", "failed"}
    /\ line \in Event /\ cancelled \in BOOLEAN
Nexts == {"read", "complete"} \cup Failures
Decoders == [at : {"reading", "emitting", "ending", "closed"}, out : Seq(Item), then : Nexts, flush : BOOLEAN]
DecoderTypes ==
    /\ decoder \in Decoders
    /\ calls \in Seq(CallEntry) /\ marked \in BOOLEAN /\ usage \in 0..MaxPieces
ReaderTypes ==
    /\ chan \in Seq(Item) /\ Len(chan) <= EventBuffer
    /\ got \in Text /\ err \in {"none"} \cup Failures
    /\ buf \in [text : Text, thoughts : Text, usage : Nat, done : BOOLEAN, verdict : Answers]
    /\ live \in [text : Text, thoughts : Text, usage : Nat] /\ answer \in Answers
DoorTypes ==
    /\ way \in Openings /\ tries \in 0..MaxRetries /\ store \in BOOLEAN
    /\ phase \in {"screen", "starting", "asking", "waiting", "streaming", "closing", "exited"}
    /\ lines \in Seq(Printable) /\ stored \in Seq([text : Text, aborted : BOOLEAN])
    /\ code \in {-1, 0, 1, 2, 130} /\ (code # -1 <=> phase = "exited")
Types == WireTypes /\ DecoderTypes /\ ReaderTypes /\ DoorTypes

(* What the decoder has in hand.                                             *)
HandOK(d) ==
    /\ d.at = "reading" => d = Reading
    /\ d.at = "emitting" => d.out # <<>>
    /\ d.at = "emitting" /\ d.flush => dialect = "chat" /\ \A k \in DOMAIN d.out : d.out[k].kind = "call"
    /\ d.at = "emitting" /\ ~d.flush =>
          /\ Len(d.out) = 1 /\ d.out[1].kind \notin {"error", "done"}
          /\ d.then # "read" => d.then = "complete" /\ d.out[1].kind = "usage"
    /\ d.at = "ending" => d.out # <<>> /\ \A k \in DOMAIN d.out : d.out[k].kind \in {"error", "done"}
    /\ d.at = "closed" => d.out = <<>>
    /\ d.at \in {"ending", "closed"} => d.then # "read" /\ ~d.flush
OutOK == HandOK(decoder)

(* What the decoder has seen of what was sent.                               *)
PlacesIn(s, P) == FlattenSeq([k \in DOMAIN s |-> IF k \in P THEN <<k>> ELSE <<>>])
MadeIn(s, c) == PlacesIn(s, {k \in DOMAIN s : s[k].call = c})
OfKind(s, kind) == PlacesIn(s, {k \in DOMAIN s : s[k].kind = kind})
CallsIn(s) == {s[k].call : k \in DOMAIN s} \ {0}
heard == IF line.n # 0 THEN Front(sent) ELSE sent
CallCount(s) == Cardinality(CallsIn(s))
Counted(s) ==
    /\ CallsIn(s) = 1..CallCount(s) /\ CallCount(s) \in 0..Len(s)
    /\ \A c \in CallsIn(s) : MadeIn(s, c) # <<>>
CallsCounted == Counted(heard)
PiecesOK == \A k \in DOMAIN sent : sent[k].kind = "call" <=> sent[k].call # 0

Known(kind) ==
    \/ kind \in Content[dialect] \cup Ends[dialect] \cup {"none", "junk"}
    \/ kind = "call" /\ dialect # "responses"
    \/ kind = "close" /\ dialect = "messages"
    \/ kind = "stop" /\ dialect = "responses"
LineOK ==
    /\ line # NoEvent => At("reading")
    /\ line.kind = "none" => line = NoEvent
    /\ Known(line.kind)
    /\ line.n # 0 => line.n = Len(sent) /\ Len(sent) > 0 /\ Last(sent) = PieceOf(line)
                     /\ line.kind \in {"text", "thought", "usage", "call", "stop"}
    /\ line.kind \in {"text", "thought", "usage", "call"} => line.n # 0
    /\ line.kind = "stop" /\ dialect # "responses" => line.n = 0
    /\ line.kind \in {"text", "thought", "usage", "stop"} => line.call = 0
    /\ line.kind = "call" => /\ said = "more"
                             /\ line.call \in 1..(CallCount(heard) + 1)
                             /\ dialect = "chat" /\ style = "bare" => line.call \in {CallCount(heard), CallCount(heard) + 1}
                             /\ dialect = "messages" => \/ line.call = CallCount(heard) + 1
                                                        \/ \E k \in DOMAIN calls : calls[k].index = line.call
                             /\ dialect = "generate" => line.call = CallCount(heard) + 1
    /\ line.kind = "close" => \E k \in DOMAIN calls : calls[k].index = line.call
    /\ line.kind \in {"finish", "stop"} => said = "whole"
    /\ line.kind = "stop" /\ dialect = "messages" => calls = <<>>
    /\ marked => said = "whole"
    /\ decoder.then = "complete" => said = "whole"

Sound == ~cancelled \/ buf.verdict = "complete" \/ answer = "complete"

(* The text and the thoughts on their way.                                   *)
ReadOf(kind) == IF kind = "text" THEN live.text \o buf.text ELSE live.thoughts \o buf.thoughts
Seen(kind) == (ReadOf(kind) \o Numbered(kind, chan)) \o Numbered(kind, decoder.out)
FlowOf(kind) ==
    IF decoder.then \in {"read", "complete"} THEN Seen(kind) = OfKind(heard, kind)
    ELSE IsPrefix(Seen(kind), OfKind(heard, kind)) /\ (~cancelled => Len(OfKind(heard, kind)) <= Len(Seen(kind)) + 1)
Flow == FlowOf("text") /\ FlowOf("thought")

(* The usage that is reported last.                                          *)
Latest(s, d) == IF s = <<>> THEN d ELSE Last(s)
UsageRead == IF buf.usage # 0 THEN buf.usage ELSE live.usage
UsageNow == Latest(Numbered("usage", decoder.out), Latest(Numbered("usage", chan), UsageRead))
UsageOK ==
    /\ dialect \in {"chat", "responses"} => usage = 0
    /\ dialect \in {"messages", "generate"} /\ decoder.then = "read" => UsageNow = 0
    /\ decoder.then = "read" => Latest(OfKind(heard, "usage"), 0) = IF usage # 0 THEN usage ELSE UsageNow
    /\ decoder.then = "complete" => Latest(OfKind(heard, "usage"), 0) = UsageNow

(* The calls: those that are open, and those that are delivered.             *)
Delivered == (got \o Numbered("call", chan)) \o Numbered("call", decoder.out)
Open == IF decoder.flush THEN <<>> ELSE calls
OwnerIn(o, k) == IF dialect = "chat" THEN k ELSE o[k].index
OwnersIn(o) == {OwnerIn(o, k) : k \in DOMAIN o}
Accounted(h, d, o) ==
    /\ Len(d) + Len(o) = CallCount(h)
    /\ \A k \in DOMAIN o : OwnerIn(o, k) \in 1..CallCount(h) /\ o[k].args = MadeIn(h, OwnerIn(o, k))
    /\ \A j, k \in DOMAIN o : OwnerIn(o, j) = OwnerIn(o, k) => j = k
    /\ \A e \in ToSet(d) : \E c \in (1..CallCount(h)) \ OwnersIn(o) : e = MadeIn(h, c)
    /\ \A c \in (1..CallCount(h)) \ OwnersIn(o) : MadeIn(h, c) \in ToSet(d)
Placed(d, o, s, t) ==
    /\ dialect = "chat" => /\ d = <<>> \/ o = <<>>
                           /\ d # <<>> => s # "more"
                           /\ \A k \in DOMAIN o : /\ o[k].index = IF style = "index" THEN k ELSE 0
                                                  /\ o[k].id = IF style = "bare" THEN 0 ELSE k
    /\ dialect \in {"generate", "responses"} => o = <<>>
    /\ t = "complete" => o = <<>>
CallsOK == Accounted(heard, Delivered, Open) /\ Placed(Delivered, Open, said, decoder.then)
CallFlow == Sound /\ decoder.then \in {"read", "complete"} => CallsOK

(* The end.                                                                  *)
HasError(seq) == \E k \in DOMAIN seq : seq[k].kind = "error"
ErrorTold ==
    ~cancelled /\ decoder.at \in {"ending", "closed"} /\ decoder.then # "complete" =>
       err # "none" \/ HasError(chan) \/ HasError(decoder.out)
EndOK ==
    /\ ~buf.done => buf.verdict = "none"
    /\ buf.verdict = "complete" \/ answer = "complete" => At("closed") /\ chan = <<>> /\ decoder.then = "complete"
    /\ answer = "complete" => buf.text = <<>> /\ buf.thoughts = <<>> /\ (buf.usage # 0 => live.usage = buf.usage)
    /\ answer = "cancelled" \/ buf.verdict = "cancelled" => cancelled

StreamInv == OutOK /\ CallsCounted /\ PiecesOK /\ LineOK /\ Flow /\ UsageOK /\ CallFlow /\ ErrorTold /\ EndOK

(* The door without a screen.                                                *)
NothingRead == live = [text |-> <<>>, thoughts |-> <<>>, usage |-> 0]
Untouched == chan = <<>> /\ buf = EmptyBuf /\ NothingRead /\ At("reading")
Saved(text) == Answered(text, FALSE) \in ToSet(stored)
InTurn == {"starting", "asking", "waiting", "streaming"}
PhaseOK ==
    /\ phase = "screen" <=> way.door = "screen"
    /\ phase \in {"starting", "asking", "waiting"} => Untouched
    /\ phase \in InTurn => answer = "none"
    /\ phase = "closing" => answer # "none"
ReadOK ==
    /\ way.door # "screen" /\ ~way.tools => buf = EmptyBuf /\ Printed("text") = live.text
    /\ phase = "streaming" /\ way.tools => NothingRead /\ ~buf.done
    /\ phase \in InTurn /\ way.tools => Printed("text") = <<>>
    /\ way.door # "screen" /\ answer # "none" => buf = EmptyBuf
    /\ way.door # "screen" /\ answer = "complete" => Printed("text") = live.text
QuietOK == phase # "exited" => Printed("error") = <<>> /\ Printed("done") = <<>>
StoredOK ==
    /\ phase # "exited" /\ ~way.tools => stored = <<>>
    /\ phase \in {"asking", "waiting", "streaming", "closing"} /\ way.save /\ ~store => Warned
    /\ phase = "closing" /\ way.tools /\ answer = "complete" /\ way.save /\ ~Warned /\ live.text # <<>> => Saved(live.text)
DoorOK == PhaseOK /\ ReadOK /\ QuietOK /\ StoredOK /\ ExitTells

-----------------------------------------------------------------------------
(* Sequences of numbered things.                                             *)
LEMMA SeqWider == ASSUME NEW S, NEW T, S \subseteq T, NEW s \in Seq(S) PROVE s \in Seq(T)
<1>1. Len(s) \in Nat /\ s \in [1..Len(s) -> S]
  BY LenProperties
<1>2. s \in [1..Len(s) -> T]
  BY <1>1
<1> QED
  BY <1>1, <1>2, SeqDef

LEMMA NothingIn == ASSUME NEW s \in Seq({}) PROVE s = <<>>
<1>1. Len(s) \in Nat /\ s \in [1..Len(s) -> {}]
  BY LenProperties
<1>2. Len(s) = 0
  <2>1. CASE Len(s) # 0
    <3>1. 1 \in 1..Len(s)
      BY <1>1, <2>1
    <3>2. s[1] \in {}
      BY <1>1, <3>1
    <3> QED
      BY <3>2
  <2> QED
    BY <2>1
<1> QED
  BY <1>2, EmptySeq

NumWeight(T, kind) == [e \in T |-> IF e.kind = kind THEN <<e.n>> ELSE <<>>]
LEMMA NumIsFlat ==
    ASSUME NEW T, NEW kind, NEW seq \in Seq(T)
    PROVE  Numbered(kind, seq) = Flat(NumWeight(T, kind), seq)
<1>1. \A k \in DOMAIN seq : seq[k] \in T
  BY ElementOfSeq, LenProperties
<1>2. \A k \in DOMAIN seq : NumWeight(T, kind)[seq[k]] = IF seq[k].kind = kind THEN <<seq[k].n>> ELSE <<>>
  BY <1>1 DEF NumWeight
<1>3. [k \in DOMAIN seq |-> IF seq[k].kind = kind THEN <<seq[k].n>> ELSE <<>>] = Mapped(NumWeight(T, kind), seq)
  BY <1>2 DEF Mapped
<1> QED
  BY <1>3 DEF Flat, Numbered

LEMMA NumWeighs == ASSUME NEW kind PROVE NumWeight(Printable, kind) \in Maps(Printable, Seq(Payload))
<1>1. \A e \in Printable : (IF e.kind = kind THEN <<e.n>> ELSE <<>>) \in Seq(Payload)
  <2> TAKE e \in Printable
  <2>1. e.n \in Payload
    BY DEF Printable
  <2>2. <<e.n>> \in Seq(Payload) /\ <<>> \in Seq(Payload)
    BY <2>1
  <2> QED
    BY <2>2
<1> QED
  BY <1>1 DEF NumWeight, Maps

LEMMA NumJoin ==
    ASSUME NEW kind, NEW a \in Seq(Printable), NEW b \in Seq(Printable)
    PROVE  Numbered(kind, a) \in Seq(Payload) /\ Numbered(kind, a \o b) = Numbered(kind, a) \o Numbered(kind, b)
<1>1. PICK w : w = NumWeight(Printable, kind) /\ w \in Maps(Printable, Seq(Payload))
  BY NumWeighs
<1>2. a \o b \in Seq(Printable)
  BY ConcatProperties
<1>3. Numbered(kind, a) = Flat(w, a) /\ Numbered(kind, b) = Flat(w, b)
  BY <1>1, NumIsFlat
<1>4. Numbered(kind, a \o b) = Flat(w, a \o b)
  BY <1>1, <1>2, NumIsFlat
<1>5. w \in Maps(Printable, Seq(Payload))
  BY <1>1
<1>6. Flat(w, a) \in Seq(Payload) /\ Flat(w, a \o b) = Flat(w, a) \o Flat(w, b)
  BY <1>5, FlatMapJoin
<1> QED
  BY <1>3, <1>4, <1>6

NumOf(kind, e) == IF e.kind = kind THEN <<e.n>> ELSE <<>>
LEMMA NumOne ==
    ASSUME NEW kind, NEW e \in Printable
    PROVE  Numbered(kind, <<e>>) = NumOf(kind, e) /\ Numbered(kind, <<>>) = <<>> /\ NumOf(kind, e) \in Seq(Payload)
<1>1. PICK w : w = NumWeight(Printable, kind) /\ w \in Maps(Printable, Seq(Payload))
  BY NumWeighs
<1>2. w \in Maps(Printable, Seq(Payload))
  BY <1>1
<1>3. Flat(w, <<e>>) = w[e] /\ Flat(w, <<>>) = <<>>
  BY <1>2, FlatMapOne
<1>4. w[e] = NumOf(kind, e)
  BY <1>1 DEF NumWeight, NumOf
<1>5. <<e>> \in Seq(Printable) /\ <<>> \in Seq(Printable)
  OBVIOUS
<1>6. Numbered(kind, <<e>>) = Flat(w, <<e>>) /\ Numbered(kind, <<>>) = Flat(w, <<>>)
  BY <1>1, <1>5, NumIsFlat
<1>7. e.n \in Payload
  BY DEF Printable
<1> QED
  BY <1>3, <1>4, <1>6, <1>7 DEF NumOf

LEMMA NumEmpty == ASSUME NEW kind PROVE Numbered(kind, <<>>) = <<>>
<1>1. [kind |-> "text", n |-> 0] \in Printable
  BY DEF Printable, Payload
<1> QED
  BY <1>1, NumOne

LEMMA NumAppend ==
    ASSUME NEW kind, NEW a \in Seq(Printable), NEW e \in Printable
    PROVE  Append(a, e) \in Seq(Printable) /\ Numbered(kind, Append(a, e)) = Numbered(kind, a) \o NumOf(kind, e)
<1>0. <<e>> \in Seq(Printable) /\ Append(a, e) = a \o <<e>> /\ Append(a, e) \in Seq(Printable)
  BY AppendIsConcat, AppendProperties
<1>1. PICK b : b = <<e>>
  OBVIOUS
<1>2. b \in Seq(Printable)
  BY <1>0, <1>1
<1>3. Numbered(kind, a \o b) = Numbered(kind, a) \o Numbered(kind, b)
  BY <1>2, NumJoin
<1>4. Numbered(kind, <<e>>) = NumOf(kind, e)
  BY NumOne
<1> QED
  BY <1>0, <1>1, <1>3, <1>4

LEMMA NumHead ==
    ASSUME NEW kind, NEW a \in Seq(Printable), a # <<>>
    PROVE  /\ Head(a) \in Printable /\ Tail(a) \in Seq(Printable)
           /\ Numbered(kind, a) = NumOf(kind, Head(a)) \o Numbered(kind, Tail(a))
<1>1. Head(a) \in Printable /\ Tail(a) \in Seq(Printable) /\ a = <<Head(a)>> \o Tail(a)
  BY HeadTailProperties
<1>2. PICK b, t : b = <<Head(a)>> /\ t = Tail(a)
  OBVIOUS
<1>3. b \in Seq(Printable) /\ t \in Seq(Printable)
  BY <1>1, <1>2
<1>4. Numbered(kind, b \o t) = Numbered(kind, b) \o Numbered(kind, t)
  BY <1>3, NumJoin
<1>5. Numbered(kind, b) = NumOf(kind, Head(a))
  BY <1>1, <1>2, NumOne
<1> QED
  BY <1>1, <1>2, <1>4, <1>5

\* Where nothing is of a kind there is nothing of it.
LEMMA NumNone ==
    ASSUME NEW kind, NEW a \in Seq(Printable), \A k \in DOMAIN a : a[k].kind # kind
    PROVE  Numbered(kind, a) = <<>>
<1> DEFINE R == {e \in Printable : e.kind # kind}
<1>1. a \in Seq(R)
  <2>1. Len(a) \in Nat /\ DOMAIN a = 1..Len(a) /\ a \in [1..Len(a) -> Printable]
    BY LenProperties
  <2>2. a \in [1..Len(a) -> R]
    BY <2>1
  <2> QED
    BY <2>1, <2>2, SeqDef
<1>2. NumWeight(R, kind) \in Maps(R, Seq({}))
  <2>1. \A e \in R : (IF e.kind = kind THEN <<e.n>> ELSE <<>>) \in Seq({})
    OBVIOUS
  <2> QED
    BY <2>1 DEF NumWeight, Maps
<1> HIDE DEF R
<1>3. Numbered(kind, a) = Flat(NumWeight(R, kind), a)
  BY <1>1, NumIsFlat
<1>4. Flat(NumWeight(R, kind), a) \in Seq({})
  BY <1>1, <1>2, FlatMapJoin
<1> QED
  BY <1>3, <1>4, NothingIn

\* A sequence of single entries, flattened.
LEMMA SinglesStep ==
    ASSUME NEW S, NEW u \in Seq(S), NEW e \in S,
           FlattenSeq([k \in DOMAIN u |-> <<u[k]>>]) = u
    PROVE  FlattenSeq([k \in DOMAIN Append(u, e) |-> <<Append(u, e)[k]>>]) = Append(u, e)
<1>1. PICK w : w = [x \in S |-> <<x>>]
  OBVIOUS
<1>2. w \in Maps(S, Seq(S))
  BY <1>1 DEF Maps
<1>3. Append(u, e) \in Seq(S)
  BY AppendProperties
<1>4. ASSUME NEW v \in Seq(S) PROVE [k \in DOMAIN v |-> <<v[k]>>] = Mapped(w, v)
  <2>1. \A k \in DOMAIN v : v[k] \in S
    BY ElementOfSeq, LenProperties
  <2>2. \A k \in DOMAIN v : w[v[k]] = <<v[k]>>
    BY <1>1, <2>1
  <2> QED
    BY <2>2 DEF Mapped
<1>5. FlattenSeq([k \in DOMAIN u |-> <<u[k]>>]) = Flat(w, u)
  BY <1>4 DEF Flat
<1>6. FlattenSeq([k \in DOMAIN Append(u, e) |-> <<Append(u, e)[k]>>]) = Flat(w, Append(u, e))
  BY <1>3, <1>4 DEF Flat
<1>7. Flat(w, Append(u, e)) = Flat(w, u) \o w[e]
  BY <1>2, FlatMapFacts
<1>8. w[e] = <<e>> /\ Append(u, e) = u \o <<e>>
  BY <1>1, AppendIsConcat
<1> QED
  BY <1>5, <1>6, <1>7, <1>8

LEMMA Singles ==
    ASSUME NEW S, NEW s \in Seq(S)
    PROVE  FlattenSeq([k \in DOMAIN s |-> <<s[k]>>]) = s
<1> DEFINE Same(t) == FlattenSeq([k \in DOMAIN t |-> <<t[k]>>]) = t
           Bad == {n \in Nat : \E t \in Seq(S) : Len(t) = n /\ ~Same(t)}
<1>1. SUFFICES ASSUME Bad # {} PROVE FALSE
  BY LenProperties
<1>2. PICK n \in Bad : \A k \in Bad : n <= k
  <2>1. Bad \subseteq Nat
    OBVIOUS
  <2> HIDE DEF Bad
  <2> QED
    BY <1>1, <2>1, LeastOne
<1>3. PICK t \in Seq(S) : Len(t) = n /\ ~Same(t)
  BY <1>2
<1>4. Same(<<>>)
  <2>1. [k \in DOMAIN <<>> |-> << <<>>[k] >>] = <<>>
    OBVIOUS
  <2> QED
    BY <2>1, FlatEmpty
<1>5. PICK u \in Seq(S), e \in S : t = Append(u, e)
  <2>1. t # <<>>
    <3> HIDE DEF Same
    <3> QED
      BY <1>3, <1>4
  <2> QED
    BY <2>1, SequenceEmptyOrAppend
<1>6. n \in Nat /\ Len(u) \in Nat /\ n = Len(u) + 1
  BY <1>2, <1>3, <1>5, AppendProperties, LenProperties
<1>7. Len(u) \notin Bad
  <2> HIDE DEF Bad
  <2> QED
    BY <1>2, <1>6
<1>8. Same(u)
  BY <1>6, <1>7
<1>9. Same(Append(u, e))
  BY <1>8, SinglesStep
<1> QED
  BY <1>3, <1>5, <1>9

\* A row of one kind.
LEMMA NumItems ==
    ASSUME NEW kind, NEW ns \in Seq(Payload)
    PROVE  Numbered(kind, Items(kind, ns)) = ns
<1>1. DOMAIN Items(kind, ns) = DOMAIN ns /\ \A k \in DOMAIN ns : Items(kind, ns)[k] = [kind |-> kind, n |-> ns[k]]
  BY DEF Items
<1>2. [k \in DOMAIN Items(kind, ns) |-> IF Items(kind, ns)[k].kind = kind THEN <<Items(kind, ns)[k].n>> ELSE <<>>]
      = [k \in DOMAIN ns |-> <<ns[k]>>]
  BY <1>1
<1> QED
  BY <1>2, Singles DEF Numbered

(* The places in a sequence.                                                 *)
LEMMA PlacesAppend ==
    ASSUME NEW T, NEW s \in Seq(T), NEW e \in T, NEW P, NEW Q, \A k \in 1..Len(s) : k \in P <=> k \in Q
    PROVE  PlacesIn(Append(s, e), Q) = PlacesIn(s, P) \o (IF Len(s) + 1 \in Q THEN <<Len(s) + 1>> ELSE <<>>)
<1>1. PICK t, n : t = Append(s, e) /\ n = Len(s)
  OBVIOUS
<1>2. n \in Nat /\ DOMAIN s = 1..n /\ DOMAIN t = 1..(n + 1)
  BY <1>1, LenProperties, AppendProperties
<1>3. PICK ps, last : ps = [k \in DOMAIN s |-> IF k \in P THEN <<k>> ELSE <<>>]
                      /\ last = IF n + 1 \in Q THEN <<n + 1>> ELSE <<>>
  OBVIOUS
<1>4. last \in Seq(Nat) /\ ps \in [1..n -> Seq(Nat)]
  BY <1>2, <1>3
<1>5. ps \in Seq(Seq(Nat)) /\ Len(ps) = n
  <2>1. ps \in Seq(Seq(Nat))
    BY <1>2, <1>4, SeqDef
  <2>2. Len(ps) \in Nat /\ DOMAIN ps = 1..Len(ps) /\ DOMAIN ps = 1..n
    BY <1>4, <2>1, LenProperties
  <2>3. PICK m : m = Len(ps) /\ m \in Nat /\ 1..m = 1..n
    BY <2>2
  <2> QED
    BY <1>2, <2>1, <2>3, SameInterval
<1>6. /\ Append(ps, last) \in Seq(Seq(Nat)) /\ Len(Append(ps, last)) = n + 1
      /\ \A i \in 1..n : Append(ps, last)[i] = ps[i]
      /\ Append(ps, last)[n + 1] = last
  BY <1>4, <1>5, AppendProperties
<1>7. [k \in DOMAIN t |-> IF k \in Q THEN <<k>> ELSE <<>>] = Append(ps, last)
  <2>1. PICK r, q : r = [k \in 1..(n + 1) |-> IF k \in Q THEN <<k>> ELSE <<>>] /\ q = Append(ps, last)
    OBVIOUS
  <2>2. DOMAIN q = 1..(n + 1) /\ q = [k \in DOMAIN q |-> q[k]]
    BY <1>2, <1>6, <2>1, LenProperties
  <2>3. \A k \in 1..(n + 1) : q[k] = IF k \in Q THEN <<k>> ELSE <<>>
    <3> TAKE k \in 1..(n + 1)
    <3>1. CASE k = n + 1
      BY <1>3, <1>6, <2>1, <3>1
    <3>2. CASE k # n + 1
      <4>1. k \in 1..n
        BY <1>2, <3>2
      <4>2. q[k] = ps[k]
        BY <1>6, <2>1, <4>1
      <4>3. ps[k] = IF k \in P THEN <<k>> ELSE <<>>
        BY <1>2, <1>3, <4>1
      <4>4. k \in P <=> k \in Q
        BY <1>1, <4>1
      <4> QED
        BY <4>2, <4>3, <4>4
    <3> QED
      BY <3>1, <3>2
  <2>4. r = q
    BY <2>1, <2>2, <2>3
  <2> QED
    BY <1>2, <2>1, <2>4
<1>8. FlattenSeq(Append(ps, last)) = FlattenSeq(ps) \o last
  BY <1>4, <1>5, FlatAppend
<1> QED
  BY <1>1, <1>3, <1>7, <1>8 DEF PlacesIn

LEMMA PlacesType ==
    ASSUME NEW T, NEW s \in Seq(T), NEW P
    PROVE  PlacesIn(s, P) \in Seq(P \cap (1..Len(s)))
<1>1. PICK Q : Q = P \cap (1..Len(s))
  OBVIOUS
<1>2. PICK ps : ps = [k \in DOMAIN s |-> IF k \in P THEN <<k>> ELSE <<>>]
  OBVIOUS
<1>3. Len(s) \in Nat /\ DOMAIN s = 1..Len(s)
  BY LenProperties
<1>4. \A k \in 1..Len(s) : (IF k \in P THEN <<k>> ELSE <<>>) \in Seq(Q)
  <2> TAKE k \in 1..Len(s)
  <2>1. k \in P => k \in Q
    BY <1>1
  <2> QED
    BY <2>1
<1>5. ps \in [1..Len(s) -> Seq(Q)]
  BY <1>2, <1>3, <1>4
<1>6. ps \in Seq(Seq(Q))
  BY <1>3, <1>5, SeqDef
<1>7. FlattenSeq(ps) \in Seq(Q)
  BY <1>6, FlatType
<1> QED
  BY <1>1, <1>2, <1>7 DEF PlacesIn

\* What one piece more makes of the pieces of a call and of a kind.
LEMMA MadeAppend ==
    ASSUME NEW s \in Seq(Piece), NEW e \in Piece, NEW c
    PROVE  MadeIn(Append(s, e), c) = MadeIn(s, c) \o (IF e.call = c THEN <<Len(s) + 1>> ELSE <<>>)
<1> DEFINE P == {k \in DOMAIN s : s[k].call = c}
           Q == {k \in DOMAIN Append(s, e) : Append(s, e)[k].call = c}
<1>1. /\ Len(s) \in Nat /\ DOMAIN s = 1..Len(s) /\ DOMAIN Append(s, e) = 1..(Len(s) + 1)
      /\ \A k \in 1..Len(s) : Append(s, e)[k] = s[k]
      /\ Append(s, e)[Len(s) + 1] = e
  BY LenProperties, AppendProperties
<1>2. \A k \in 1..Len(s) : k \in P <=> k \in Q
  BY <1>1
<1>3. Len(s) + 1 \in Q <=> e.call = c
  BY <1>1
<1> HIDE DEF P, Q
<1>4. PlacesIn(Append(s, e), Q) = PlacesIn(s, P) \o (IF Len(s) + 1 \in Q THEN <<Len(s) + 1>> ELSE <<>>)
  BY <1>2, PlacesAppend
<1> QED
  BY <1>3, <1>4 DEF MadeIn, P, Q

LEMMA KindAppend ==
    ASSUME NEW s \in Seq(Piece), NEW e \in Piece, NEW kind
    PROVE  OfKind(Append(s, e), kind) = OfKind(s, kind) \o (IF e.kind = kind THEN <<Len(s) + 1>> ELSE <<>>)
<1> DEFINE P == {k \in DOMAIN s : s[k].kind = kind}
           Q == {k \in DOMAIN Append(s, e) : Append(s, e)[k].kind = kind}
<1>1. /\ Len(s) \in Nat /\ DOMAIN s = 1..Len(s) /\ DOMAIN Append(s, e) = 1..(Len(s) + 1)
      /\ \A k \in 1..Len(s) : Append(s, e)[k] = s[k]
      /\ Append(s, e)[Len(s) + 1] = e
  BY LenProperties, AppendProperties
<1>2. \A k \in 1..Len(s) : k \in P <=> k \in Q
  BY <1>1
<1>3. Len(s) + 1 \in Q <=> e.kind = kind
  BY <1>1
<1> HIDE DEF P, Q
<1>4. PlacesIn(Append(s, e), Q) = PlacesIn(s, P) \o (IF Len(s) + 1 \in Q THEN <<Len(s) + 1>> ELSE <<>>)
  BY <1>2, PlacesAppend
<1> QED
  BY <1>3, <1>4 DEF OfKind, P, Q

LEMMA MadeType ==
    ASSUME NEW s \in Seq(Piece), NEW c
    PROVE  /\ MadeIn(s, c) \in Seq(1..Len(s))
           /\ (\A k \in 1..Len(s) : s[k].call # c) => MadeIn(s, c) = <<>>
<1> DEFINE P == {k \in DOMAIN s : s[k].call = c}
<1>1. Len(s) \in Nat /\ DOMAIN s = 1..Len(s)
  BY LenProperties
<1>2. P \cap (1..Len(s)) \subseteq 1..Len(s)
  OBVIOUS
<1>3. (\A k \in 1..Len(s) : s[k].call # c) => P \cap (1..Len(s)) = {}
  BY <1>1
<1> HIDE DEF P
<1>4. PlacesIn(s, P) \in Seq(P \cap (1..Len(s)))
  BY PlacesType
<1>5. PlacesIn(s, P) \in Seq(1..Len(s))
  BY <1>2, <1>4, SeqWider
<1>6. P \cap (1..Len(s)) = {} => PlacesIn(s, P) = <<>>
  BY <1>4, NothingIn
<1> QED
  BY <1>3, <1>5, <1>6 DEF MadeIn, P

LEMMA KindType == ASSUME NEW s \in Seq(Piece), NEW kind PROVE OfKind(s, kind) \in Seq(1..Len(s))
<1> DEFINE P == {k \in DOMAIN s : s[k].kind = kind}
<1>1. P \cap (1..Len(s)) \subseteq 1..Len(s)
  OBVIOUS
<1> HIDE DEF P
<1>2. PlacesIn(s, P) \in Seq(P \cap (1..Len(s)))
  BY PlacesType
<1>3. PlacesIn(s, P) \in Seq(1..Len(s))
  BY <1>1, <1>2, SeqWider
<1> QED
  BY <1>3 DEF OfKind, P

LEMMA PlacesPayload ==
    ASSUME NEW s \in Seq(Piece), NEW x
    PROVE  MadeIn(s, x) \in Seq(Nat) /\ MadeIn(s, x) \in Payload /\ OfKind(s, x) \in Seq(Payload)
<1>1. Len(s) \in Nat
  BY LenProperties
<1>2. 1..Len(s) \subseteq Nat /\ 1..Len(s) \subseteq Payload
  BY <1>1 DEF Payload
<1>3. MadeIn(s, x) \in Seq(1..Len(s)) /\ OfKind(s, x) \in Seq(1..Len(s))
  BY MadeType, KindType
<1>4. MadeIn(s, x) \in Seq(Nat) /\ OfKind(s, x) \in Seq(Payload)
  BY <1>2, <1>3, SeqWider
<1> QED
  BY <1>4 DEF Payload

(* What is in a sequence.                                                    *)
LEMMA SetOf ==
    ASSUME NEW S, NEW a \in Seq(S), NEW b \in Seq(S)
    PROVE  ToSet(a \o b) = ToSet(a) \cup ToSet(b) /\ ToSet(<<>>) = {}
<1>1. Range(a \o b) = Range(a) \cup Range(b)
  BY RangeConcatenation
<1>2. Range(a \o b) = ToSet(a \o b) /\ Range(a) = ToSet(a) /\ Range(b) = ToSet(b)
  BY DEF Range, ToSet
<1>3. ToSet(<<>>) = {}
  BY DEF ToSet
<1> QED
  BY <1>1, <1>2, <1>3

LEMMA SetOfOne == ASSUME NEW x PROVE ToSet(<<x>>) = {x}
BY DEF ToSet

LEMMA PrefixOf ==
    ASSUME NEW S, NEW a \in Seq(S), NEW b \in Seq(S)
    PROVE  IsPrefix(a, a \o b) /\ IsPrefix(a, a)
<1>1. /\ Len(a) \in Nat /\ Len(b) \in Nat /\ a \o b \in Seq(S) /\ Len(a \o b) = Len(a) + Len(b)
      /\ \A i \in 1..Len(a) : (a \o b)[i] = a[i]
  BY LenProperties, ConcatProperties
<1>2. PICK n, c : n = Len(a) /\ c = a \o b
  OBVIOUS
<1>3. SubSeq(a, 1, n) = a
  BY <1>2, SubSeqFull
<1>4. SubSeq(c, 1, n) = a
  <2>1. CASE n = 0
    <3>1. SubSeq(c, 1, n) = <<>> /\ a = <<>>
      BY <1>1, <1>2, <2>1, SubSeqEmpty, EmptySeq
    <3> QED
      BY <3>1
  <2>2. CASE n # 0
    <3>1. 1 \in 1..Len(a) /\ n \in 1..Len(a)
      BY <1>1, <1>2, <2>2
    <3>2. SubSeq(a \o b, 1, n) = SubSeq(a, 1, n)
      BY <3>1, SubSeqOfConcat1
    <3> QED
      BY <1>2, <1>3, <3>2
  <2> QED
    BY <2>1, <2>2
<1>5. n <= Len(c) /\ n <= n
  BY <1>1, <1>2
<1> QED
  BY <1>2, <1>3, <1>4, <1>5 DEF IsPrefix

LEMMA PrefixLess ==
    ASSUME NEW S, NEW a \in Seq(S), NEW b \in Seq(S), NEW c \in Seq(S), IsPrefix(a \o b, c)
    PROVE  IsPrefix(a, c)
<1>1. /\ Len(a) \in Nat /\ Len(b) \in Nat /\ Len(c) \in Nat /\ a \o b \in Seq(S) /\ Len(a \o b) = Len(a) + Len(b)
      /\ \A i \in 1..Len(a) : (a \o b)[i] = a[i]
  BY LenProperties, ConcatProperties
<1>2. PICK m, n, d : n = Len(a) /\ m = Len(a \o b) /\ d = a \o b
  OBVIOUS
<1>3. m <= Len(c) /\ SubSeq(d, 1, m) = SubSeq(c, 1, m)
  BY <1>2 DEF IsPrefix
<1>4. n \in Nat /\ m \in Nat /\ n <= m /\ n <= Len(c) /\ d \in Seq(S)
  BY <1>1, <1>2, <1>3
<1>5. \A i \in 1..n : a[i] = c[i]
  <2> TAKE i \in 1..n
  <2>1. i \in 1..m /\ a[i] = d[i]
    BY <1>1, <1>2, <1>4
  <2>2. SubSeq(d, 1, m)[i] = d[i] /\ SubSeq(c, 1, m)[i] = c[i]
    BY <1>1, <1>2, <1>3, <1>4, <2>1
  <2> QED
    BY <1>3, <2>1, <2>2
<1>6. /\ SubSeq(a, 1, n) \in Seq(S) /\ Len(SubSeq(a, 1, n)) = n /\ \A i \in 1..n : SubSeq(a, 1, n)[i] = a[i]
      /\ SubSeq(c, 1, n) \in Seq(S) /\ Len(SubSeq(c, 1, n)) = n /\ \A i \in 1..n : SubSeq(c, 1, n)[i] = c[i]
  BY <1>1, <1>2, <1>4
<1>7. SubSeq(a, 1, n) = SubSeq(c, 1, n)
  BY <1>5, <1>6, SeqEqual
<1> QED
  BY <1>2, <1>4, <1>7 DEF IsPrefix

LEMMA LastJoined ==
    ASSUME NEW S, NEW a \in Seq(S), NEW b \in Seq(S), b # <<>>
    PROVE  a \o b # <<>> /\ Last(a \o b) = Last(b)
<1>1. PICK m, n : m = Len(a) /\ n = Len(b)
  OBVIOUS
<1>2. m \in Nat /\ n \in Nat /\ n # 0
  BY <1>1, LenProperties, EmptySeq
<1>3. PICK c : c = a \o b
  OBVIOUS
<1>4. Len(c) = m + n /\ \A i \in 1..(m + n) : c[i] = IF i <= m THEN a[i] ELSE b[i - m]
  BY <1>1, <1>3, ConcatProperties
<1>5. \A i \in 1..(m + n) : i > m => c[i] = b[i - m]
  BY <1>2, <1>4
<1>6. m + n \in 1..(m + n) /\ m + n > m /\ (m + n) - m = n
  BY <1>2
<1>7. c[m + n] = b[n]
  <2>1. PICK j : j = m + n
    OBVIOUS
  <2>2. j \in 1..(m + n) /\ j > m /\ j - m = n
    BY <1>6, <2>1
  <2> QED
    BY <1>5, <2>1, <2>2
<1>8. c # <<>>
  BY <1>2, <1>4, EmptySeq
<1> QED
  BY <1>1, <1>3, <1>4, <1>7, <1>8 DEF Last

(* The last entry of a sequence, or what was there before.                   *)
LEMMA LatestOf ==
    ASSUME NEW S, NEW a \in Seq(S), NEW x \in S, NEW d
    PROVE  Latest(<<>>, d) = d /\ Latest(a \o <<x>>, d) = x /\ Latest(<<x>>, d) = x
           /\ Latest(<<x>> \o a, d) = Latest(a, x)
<1>1. Latest(<<>>, d) = d /\ Latest(<<x>>, d) = x
  BY DEF Latest, Last
<1>2. Latest(a \o <<x>>, d) = x
  <2>1. Append(a, x) = a \o <<x>> /\ Append(a, x) # <<>> /\ Len(Append(a, x)) = Len(a) + 1 /\ Append(a, x)[Len(a) + 1] = x
    BY AppendProperties, AppendIsConcat
  <2> QED
    BY <2>1 DEF Latest, Last
<1>3. Latest(<<x>> \o a, d) = Latest(a, x)
  <2>1. PICK b : b = <<x>>
    OBVIOUS
  <2>2. b \in Seq(S) /\ b # <<>>
    BY <2>1
  <2>3. CASE a = <<>>
    <3>1. b \o a = b
      BY <2>2, <2>3, ConcatEmptySeq
    <3> QED
      BY <1>1, <2>1, <2>3, <3>1 DEF Latest
  <2>4. CASE a # <<>>
    <3>1. b \in Seq(S)
      BY <2>2
    <3>2. b \o a # <<>> /\ Last(b \o a) = Last(a)
      BY <2>4, <3>1, LastJoined
    <3> QED
      BY <2>1, <2>4, <3>2 DEF Latest
  <2> QED
    BY <2>3, <2>4
<1> QED
  BY <1>1, <1>2, <1>3

LEMMA FrontOf == ASSUME NEW S, NEW s \in Seq(S), NEW e \in S PROVE Front(Append(s, e)) = s /\ Last(Append(s, e)) = e
<1>1. PICK t : t = Append(s, e)
  OBVIOUS
<1>2. /\ t \in Seq(S) /\ Len(t) = Len(s) + 1 /\ \A i \in 1..Len(s) : t[i] = s[i]
      /\ t[Len(s) + 1] = e /\ Len(s) \in Nat
  BY <1>1, AppendProperties, LenProperties
<1>3. Len(t) - 1 = Len(s)
  BY <1>2
<1>4. /\ SubSeq(t, 1, Len(s)) \in Seq(S) /\ Len(SubSeq(t, 1, Len(s))) = Len(s)
      /\ \A i \in 1..Len(s) : SubSeq(t, 1, Len(s))[i] = t[i]
  BY <1>2
<1>5. SubSeq(t, 1, Len(s)) = s
  BY <1>2, <1>4, SeqEqual
<1> QED
  BY <1>1, <1>2, <1>3, <1>5 DEF Front, Last

-----------------------------------------------------------------------------
(* What the provider says next.                                              *)
LEMMA ContentIs ==
    ASSUME WireTypes
    PROVE  /\ dialect = "chat" => Content[dialect] = {"text", "thought", "usage"} /\ Ends[dialect] = {"finish", "stop", "error", "fault"}
           /\ dialect = "messages" => Content[dialect] = {"text", "usage"} /\ Ends[dialect] = {"stop", "error"}
           /\ dialect = "generate" => Content[dialect] = {"text", "thought", "usage"} /\ Ends[dialect] = {"finish", "error"}
           /\ dialect = "responses" => Content[dialect] = {"text", "thought"} /\ Ends[dialect] = {"error"}
BY DEF WireTypes, Content, Ends

LEMMA ContentKinds ==
    ASSUME WireTypes
    PROVE  /\ Content[dialect] \subseteq {"text", "thought", "usage"}
           /\ Ends[dialect] \subseteq {"finish", "stop", "error", "fault"}
           /\ "stop" \in Ends[dialect] => dialect \in {"chat", "messages"}
BY ContentIs DEF WireTypes

SaidNow(ev) ==
    /\ At("reading") /\ line = NoEvent /\ line' = ev
    /\ ev \in Event /\ ev.kind # "none" /\ Known(ev.kind)
    /\ ev.n \in {0, Serial} /\ (ev.n # 0 => Serial <= MaxPieces /\ ev.kind \in {"text", "thought", "usage", "call", "stop"})
    /\ ev.kind \in {"text", "thought", "usage", "call"} => ev.n # 0
    /\ ev.kind = "stop" /\ dialect # "responses" => ev.n = 0
    /\ ev.kind \in {"text", "thought", "usage", "stop"} => ev.call = 0
    /\ ev.kind = "call" => said # "whole" /\ ev.call \in CallsToSay
    /\ ev.kind = "close" => \E k \in DOMAIN calls : calls[k].index = ev.call
    /\ ev.kind = "stop" /\ dialect = "messages" => calls = <<>>
    /\ sent' = IF ev.n = 0 THEN sent ELSE Append(sent, PieceOf(ev))
    /\ said' = IF ev.kind \in {"finish", "stop"} THEN "whole" ELSE IF ev.kind \in {"error", "fault"} THEN "failed" ELSE said
    /\ said = "whole" => said' = "whole"
    /\ said # "failed"

LEMMA NewCallIs ==
    ASSUME CallsCounted, line = NoEvent
    PROVE  /\ NewCall = CallCount(sent) + 1 /\ DOMAIN Made = CallsIn(sent) /\ heard = sent
           /\ DOMAIN Made = 1..CallCount(sent) /\ CallCount(sent) \in 0..Len(sent)
<1>1. heard = sent
  BY DEF heard, NoEvent
<1>2. DOMAIN Made = CallsIn(sent)
  BY DEF Made, CallsIn
<1> QED
  BY <1>1, <1>2 DEF NewCall, CallCount, CallsCounted, Counted

LEMMA CallsSaid ==
    ASSUME WireTypes, CallsCounted, line = NoEvent, NEW c \in CallsToSay
    PROVE  /\ dialect # "responses" /\ c \in 1..(CallCount(sent) + 1) /\ CallCount(sent) + 1 \in 1..Serial
           /\ dialect = "chat" /\ style = "bare" => c \in {CallCount(sent), CallCount(sent) + 1}
           /\ dialect = "messages" => c = CallCount(sent) + 1 \/ \E k \in DOMAIN calls : calls[k].index = c
           /\ dialect = "generate" => c = CallCount(sent) + 1
<1>1. dialect # "responses" /\ (c = NewCall \/ (c \in DOMAIN Made /\ MayContinue(c)))
  BY DEF CallsToSay
<1>2. Len(sent) \in Nat /\ DOMAIN calls = DOMAIN calls
  BY LenProperties DEF WireTypes
<1>3. c \in DOMAIN Made /\ MayContinue(c) =>
         /\ dialect = "chat" /\ style = "bare" => c = NewCall - 1
         /\ dialect = "messages" => \E k \in 1..Len(calls) : calls[k].index = c
         /\ dialect # "generate"
  BY DEF MayContinue
<1> QED
  BY <1>1, <1>2, <1>3, NewCallIs DEF Serial

LEMMA SayFacts ==
    ASSUME WireTypes, DecoderTypes, CallsCounted, Say
    PROVE  \E ev \in Event : SaidNow(ev)
<1>1. At("reading") /\ line = NoEvent /\ said # "failed"
  BY DEF Say
<1>2. PICK ev \in Events : /\ Legal(ev) /\ line' = ev
                           /\ sent' = IF ev.n = 0 THEN sent ELSE Append(sent, PieceOf(ev))
                           /\ said' = CASE ev.kind \in {"finish", "stop"} -> "whole"
                                        [] ev.kind \in {"error", "fault"} -> "failed"
                                        [] OTHER -> said
  BY DEF Say, PieceOf
<1>3. ev.n > 0 => Serial <= MaxPieces
  BY <1>2 DEF Legal
<1>4. said = "whole" => ev.kind \in {"usage", "stop", "junk"}
  BY <1>2 DEF Legal
<1>5. ev.kind = "stop" => dialect # "messages" \/ calls = <<>>
  BY <1>2 DEF Legal
<1>6. /\ said' = IF ev.kind \in {"finish", "stop"} THEN "whole" ELSE IF ev.kind \in {"error", "fault"} THEN "failed" ELSE said
      /\ said = "whole" => said' = "whole"
  BY <1>2, <1>4
<1>7. Serial \in Nat \ {0} /\ MaxPieces \in Nat /\ Serial # 0
  <2>1. Len(sent) \in Nat
    BY LenProperties DEF WireTypes
  <2> QED
    BY <2>1, StreamAssumption DEF Serial
<1>8. DOMAIN calls = 1..Len(calls) /\ \A k \in DOMAIN calls : calls[k] \in CallEntry
  BY LenProperties, ElementOfSeq DEF DecoderTypes
<1>9. \/ ev.kind \in Content[dialect] /\ ev.n = Serial /\ ev.call = 0
      \/ ev.kind = "call" /\ ev.n = Serial /\ ev.call \in CallsToSay
      \/ ev.kind \in Ends[dialect] \cup {"junk"} /\ ev.n = 0 /\ ev.call = 0
      \/ ev.kind = "close" /\ dialect = "messages" /\ ev.n = 0 /\ \E k \in DOMAIN calls : ev.call = calls[k].index
      \/ ev.kind = "stop" /\ dialect = "responses" /\ ev.n \in {0, Serial} /\ ev.call = 0
  BY <1>2 DEF Events
<1>91. ev = [kind |-> ev.kind, n |-> ev.n, call |-> ev.call]
  BY <1>2 DEF Events
<1>10. Known(ev.kind) /\ ev.kind # "none"
  <2>1. ev.kind = "call" => dialect # "responses"
    <3>1. CASE ev.kind = "call"
      <4>1. ev.call \in CallsToSay
        BY <1>9, <3>1, ContentKinds
      <4> QED
        BY <4>1, <1>1, CallsSaid
    <3> QED
      BY <3>1
  <2> QED
    BY <1>9, <2>1, ContentKinds DEF Known
<1>11. ev.call \in 0..MaxPieces
  <2>1. CASE ev.kind = "call"
    <3>1. ev.call \in CallsToSay /\ ev.n = Serial
      BY <1>9, <2>1, ContentKinds
    <3>2. ev.call \in 1..(CallCount(sent) + 1) /\ CallCount(sent) + 1 \in 1..Serial
      BY <1>1, <3>1, CallsSaid
    <3> QED
      BY <1>3, <1>7, <3>1, <3>2
  <2>2. CASE ev.kind = "close"
    BY <1>7, <1>8, <1>9, <2>2, ContentKinds DEF CallEntry
  <2>3. CASE ev.kind \notin {"call", "close"}
    BY <1>7, <1>9, <2>3, ContentKinds
  <2> QED
    BY <2>1, <2>2, <2>3
<1>12. ev \in Event
  <2>1. ev.n \in 0..MaxPieces
    BY <1>3, <1>7, <1>9
  <2>2. ev.kind \in {"text", "thought", "usage", "call", "close", "finish", "stop", "error", "fault", "junk"}
    BY <1>9, ContentKinds
  <2> QED
    BY <1>11, <1>91, <2>1, <2>2 DEF Event
<1>13. /\ ev.n \in {0, Serial} /\ (ev.n # 0 => Serial <= MaxPieces /\ ev.kind \in {"text", "thought", "usage", "call", "stop"})
       /\ ev.kind \in {"text", "thought", "usage", "call"} => ev.n # 0
       /\ ev.kind = "stop" /\ dialect # "responses" => ev.n = 0
       /\ ev.kind \in {"text", "thought", "usage", "stop"} => ev.call = 0
       /\ ev.kind = "call" => ev.call \in CallsToSay
       /\ ev.kind = "close" => \E k \in DOMAIN calls : calls[k].index = ev.call
  BY <1>3, <1>7, <1>9, ContentKinds
<1>14. ev.kind = "call" => said # "whole"
  BY <1>4
<1>15. SaidNow(ev)
  BY <1>1, <1>2, <1>5, <1>6, <1>10, <1>12, <1>13, <1>14 DEF SaidNow
<1> QED
  BY <1>12, <1>15

(* What was heard, and the piece that is still in the line.                  *)
LEMMA HeardFacts ==
    ASSUME WireTypes, LineOK
    PROVE  /\ heard \in Seq(Piece)
           /\ line.n = 0 => heard = sent
           /\ line.n # 0 => /\ sent = Append(heard, PieceOf(line)) /\ PieceOf(line) \in Piece
                            /\ line.n = Len(heard) + 1 /\ Len(heard) + 1 = Len(sent)
<1>1. CASE line.n = 0
  BY <1>1 DEF heard, WireTypes
<1>2. CASE line.n # 0
  <2>1. sent \in Seq(Piece) /\ line.n = Len(sent) /\ Len(sent) > 0 /\ Last(sent) = PieceOf(line) /\ heard = Front(sent)
    BY <1>2 DEF WireTypes, LineOK, heard
  <2>2. sent # <<>>
    BY <2>1, EmptySeq
  <2>3. PICK s \in Seq(Piece), e \in Piece : sent = Append(s, e)
    BY <2>1, <2>2, SequenceEmptyOrAppend
  <2>4. Front(sent) = s /\ Last(sent) = e
    BY <2>3, FrontOf
  <2>5. Len(s) \in Nat /\ Len(sent) = Len(s) + 1
    BY <2>3, LenProperties, AppendProperties
  <2> QED
    BY <1>2, <2>1, <2>3, <2>4, <2>5
<1> QED
  BY <1>1, <1>2

LEMMA SaidWire ==
    ASSUME WireTypes, DecoderTypes, CallsCounted, PiecesOK, LineOK, NEW ev \in Event, SaidNow(ev), decoder = Reading,
           UNCHANGED <<protocol, decoding, cancelled>>
    PROVE  WireTypes' /\ heard' = heard /\ heard = sent /\ CallsCounted' /\ PiecesOK' /\ LineOK'
<1>1. line = NoEvent /\ heard = sent
  BY DEF SaidNow, heard, NoEvent
<1>2. sent \in Seq(Piece) /\ Len(sent) \in Nat /\ DOMAIN sent = 1..Len(sent) /\ Serial = Len(sent) + 1 /\ MaxPieces \in Nat
  BY LenProperties, StreamAssumption DEF WireTypes, Serial
<1>3. ev.kind = "call" => ev.call \in 1..(CallCount(sent) + 1)
  BY <1>1, CallsSaid DEF SaidNow
<1>31. ev.n # 0 /\ ev.kind # "call" => ev.call = 0
  BY DEF SaidNow
<1>4. ev.n # 0 => PieceOf(ev) \in Piece /\ (PieceOf(ev).kind = "call" <=> PieceOf(ev).call # 0)
  <2>1. CASE ev.n # 0
    <3>1. ev.kind \in {"text", "thought", "usage", "call", "stop"} /\ ev.call \in 0..MaxPieces
      BY <2>1 DEF SaidNow, Event
    <3>2. ev.kind = "call" => ev.call # 0
      BY <1>1, <1>3, NewCallIs
    <3> QED
      BY <1>31, <2>1, <3>1, <3>2 DEF PieceOf, Piece
  <2> QED
    BY <2>1
<1>5. CASE ev.n = 0
  <2>1. sent' = sent /\ heard' = sent
    BY <1>5 DEF SaidNow, heard
  <2>2. WireTypes'
    BY <2>1 DEF SaidNow, WireTypes, protocol
  <2>3. CallsCounted' /\ PiecesOK'
    BY <1>1, <2>1 DEF CallsCounted, PiecesOK
  <2>4. ev.kind \notin {"text", "thought", "usage", "call"}
    BY <1>5 DEF SaidNow
  <2>5. line' = ev /\ At("reading")' /\ decoder'.then = "read"
    BY DEF SaidNow, decoding, At, Reading
  <2>6. LineOK'
    BY <1>5, <2>4, <2>5 DEF LineOK, SaidNow, protocol, decoding, Known
  <2> QED
    BY <1>1, <2>1, <2>2, <2>3, <2>6
<1>6. CASE ev.n # 0
  <2>1. /\ sent' = Append(sent, PieceOf(ev)) /\ PieceOf(ev) \in Piece /\ line' = ev /\ ev.n = Len(sent) + 1
        /\ Serial <= MaxPieces
    BY <1>2, <1>4, <1>6 DEF SaidNow
  <2>2. /\ sent' \in Seq(Piece) /\ Len(sent') = Len(sent) + 1 /\ sent' # <<>>
        /\ \A i \in 1..Len(sent) : sent'[i] = sent[i]
        /\ sent'[Len(sent) + 1] = PieceOf(ev)
    BY <1>2, <2>1, AppendProperties
  <2>3. Front(sent') = sent /\ Last(sent') = PieceOf(ev)
    BY <1>2, <2>1, FrontOf
  <2>4. heard' = sent
    BY <1>6, <2>1, <2>3 DEF heard
  <2>5. WireTypes'
    BY <1>2, <2>1, <2>2 DEF SaidNow, WireTypes, protocol
  <2>6. CallsCounted'
    BY <1>1, <2>4 DEF CallsCounted
  <2>7. PiecesOK'
    <3>1. DOMAIN sent' = 1..(Len(sent) + 1)
      BY <2>2, LenProperties
    <3> SUFFICES ASSUME NEW k \in 1..(Len(sent) + 1) PROVE sent'[k].kind = "call" <=> sent'[k].call # 0
      BY <3>1 DEF PiecesOK
    <3>2. CASE k = Len(sent) + 1
      BY <1>4, <1>6, <2>2, <3>2
    <3>3. CASE k # Len(sent) + 1
      <4>1. k \in 1..Len(sent)
        BY <1>2, <3>3
      <4> QED
        BY <1>2, <2>2, <4>1 DEF PiecesOK
    <3> QED
      BY <3>2, <3>3
  <2>8. line' = ev /\ At("reading")' /\ decoder'.then = "read"
    BY DEF SaidNow, decoding, At, Reading
  <2>9. ev.kind = "call" => /\ said' = "more"
                            /\ ev.call \in 1..(CallCount(heard)' + 1)
                            /\ dialect = "chat" /\ style = "bare" => ev.call \in {CallCount(heard)', CallCount(heard)' + 1}
                            /\ dialect = "messages" => \/ ev.call = CallCount(heard)' + 1
                                                       \/ \E k \in DOMAIN calls : calls[k].index = ev.call
                            /\ dialect = "generate" => ev.call = CallCount(heard)' + 1
    <3>1. CallCount(heard)' = CallCount(sent)
      BY <2>4 DEF CallCount, CallsIn
    <3>2. ev.kind = "call" => ev.call \in CallsToSay /\ said \notin {"whole", "failed"} /\ said' = said
      BY DEF SaidNow
    <3>3. ev.kind = "call" => said' = "more"
      BY <3>2 DEF WireTypes
    <3> QED
      BY <1>1, <3>1, <3>2, <3>3, CallsSaid
  <2>10. ev.kind \in {"text", "thought", "usage", "call", "stop"} /\ ev.kind \notin {"close", "none", "finish"}
    BY <1>6 DEF SaidNow
  <2>11. ev.n = Len(sent') /\ Len(sent') > 0
    BY <1>2, <2>1, <2>2
  <2>12. LineOK'
    BY <1>6, <2>3, <2>8, <2>9, <2>10, <2>11 DEF LineOK, SaidNow, protocol, decoding, Known
  <2> QED
    BY <1>1, <2>4, <2>5, <2>6, <2>7, <2>12
<1> QED
  BY <1>5, <1>6

\* The piece in the line is heard.
LEMMA HeardCounts ==
    ASSUME WireTypes, LineOK, CallsCounted, line.n # 0
    PROVE  /\ CallsIn(sent) = CallsIn(heard) \cup ({line.call} \ {0})
           /\ CallsIn(sent) = 1..CallCount(sent)
           /\ CallCount(sent) = IF line.call = CallCount(heard) + 1 THEN CallCount(heard) + 1 ELSE CallCount(heard)
           /\ CallCount(sent) \in 0..Len(sent)
           /\ \A c \in CallsIn(sent) : MadeIn(sent, c) # <<>>
           /\ line.call \in 0..(CallCount(heard) + 1)
<1>1. /\ sent = Append(heard, PieceOf(line)) /\ PieceOf(line) \in Piece /\ heard \in Seq(Piece)
      /\ line.n = Len(heard) + 1 /\ Len(heard) + 1 = Len(sent)
  BY HeardFacts
<1>2. PICK n, N : n = Len(heard) /\ N = CallCount(heard)
  OBVIOUS
<1>3. /\ n \in Nat /\ DOMAIN heard = 1..n /\ DOMAIN sent = 1..(n + 1)
      /\ \A i \in 1..n : sent[i] = heard[i]
      /\ sent[n + 1] = PieceOf(line)
  BY <1>1, <1>2, LenProperties, AppendProperties
<1>4. PieceOf(line).call = line.call
  BY DEF PieceOf
<1>5. CallsIn(sent) = CallsIn(heard) \cup ({line.call} \ {0})
  <2>1. \A c : (\E k \in 1..(n + 1) : sent[k].call = c) <=> (\E k \in 1..n : heard[k].call = c) \/ c = line.call
    <3> TAKE c
    <3>1. ASSUME NEW k \in 1..(n + 1), sent[k].call = c PROVE (\E j \in 1..n : heard[j].call = c) \/ c = line.call
      <4>1. CASE k = n + 1
        BY <1>3, <1>4, <3>1, <4>1
      <4>2. CASE k # n + 1
        <5>1. k \in 1..n
          BY <1>3, <4>2
        <5> QED
          BY <1>3, <3>1, <5>1
      <4> QED
        BY <4>1, <4>2
    <3>2. ASSUME NEW k \in 1..n, heard[k].call = c PROVE \E j \in 1..(n + 1) : sent[j].call = c
      <4>1. k \in 1..(n + 1)
        BY <1>3
      <4> QED
        BY <1>3, <3>2, <4>1
    <3>3. n + 1 \in 1..(n + 1) /\ sent[n + 1].call = line.call
      BY <1>3, <1>4
    <3> QED
      BY <3>1, <3>2, <3>3
  <2>2. \A c : c \in CallsIn(sent) <=> (\E k \in 1..(n + 1) : sent[k].call = c) /\ c # 0
    BY <1>3 DEF CallsIn
  <2>3. \A c : c \in CallsIn(heard) <=> (\E k \in 1..n : heard[k].call = c) /\ c # 0
    BY <1>3 DEF CallsIn
  <2> QED
    BY <2>1, <2>2, <2>3
<1>6. line.call = 0 \/ line.call \in 1..(N + 1)
  <2>1. line.kind = "call" => line.call \in 1..(N + 1)
    BY <1>2 DEF LineOK
  <2>2. line.kind # "call" => line.call = 0
    BY DEF LineOK
  <2> QED
    BY <2>1, <2>2
<1>7. CallsIn(heard) = 1..N /\ N \in 0..n
  BY <1>2 DEF CallsCounted, Counted
<1>8. CallsIn(sent) = IF line.call = N + 1 THEN 1..(N + 1) ELSE 1..N
  BY <1>5, <1>6, <1>7
<1>9. \A m \in Nat : Cardinality(1..m) = m
  BY FS_Interval
<1>10. CallCount(sent) = IF line.call = N + 1 THEN N + 1 ELSE N
  BY <1>3, <1>7, <1>8, <1>9 DEF CallCount
<1>11. \A c \in CallsIn(sent) : MadeIn(sent, c) # <<>>
  <2> TAKE c \in CallsIn(sent)
  <2>1. MadeIn(sent, c) = MadeIn(heard, c) \o (IF line.call = c THEN <<n + 1>> ELSE <<>>)
    BY <1>1, <1>2, <1>4, MadeAppend
  <2>2. MadeIn(heard, c) \in Seq(Nat)
    BY <1>1, PlacesPayload
  <2>3. CASE line.call = c
    <3>1. MadeIn(sent, c) = Append(MadeIn(heard, c), n + 1) /\ n + 1 \in Nat
      BY <1>3, <2>1, <2>2, <2>3, AppendIsConcat
    <3> QED
      BY <2>2, <3>1, AppendProperties
  <2>4. CASE line.call # c
    <3>1. c \in CallsIn(heard)
      BY <1>5, <2>4
    <3>2. MadeIn(heard, c) # <<>>
      BY <3>1 DEF CallsCounted, Counted
    <3>3. MadeIn(sent, c) = MadeIn(heard, c)
      BY <2>1, <2>2, <2>4, ConcatEmptySeq
    <3> QED
      BY <3>2, <3>3
  <2> QED
    BY <2>3, <2>4
<1> QED
  BY <1>1, <1>2, <1>3, <1>5, <1>6, <1>7, <1>8, <1>10, <1>11

-----------------------------------------------------------------------------
(* What the decoder does with it.                                            *)
Handed(items, next, flushing) ==
    decoder' = IF items = <<>> THEN Then(next) ELSE [at |-> "emitting", out |-> items, then |-> next, flush |-> flushing]
Fits(items, next, flushing) ==
    /\ items \in Seq(Item) /\ next \in Nexts /\ flushing \in BOOLEAN
    /\ items # <<>> /\ flushing => dialect = "chat" /\ \A k \in DOMAIN items : items[k].kind = "call"
    /\ items # <<>> /\ ~flushing => /\ Len(items) = 1 /\ items[1].kind \notin {"error", "done"}
                                    /\ next # "read" => next = "complete" /\ items[1].kind = "usage"

LEMMA ItemsPrint == Item \subseteq Printable /\ \A s \in Seq(Item) : s \in Seq(Printable)
<1>1. Item \subseteq Printable
  BY DEF Item, Printable
<1> QED
  BY <1>1, SeqWider

LEMMA OneIs ==
    ASSUME NEW kind \in {"text", "thought", "usage", "call", "error", "done"}, NEW n \in Payload,
           kind = "error" => n \in Failures, kind = "usage" => n \in Nat \ {0}
    PROVE  One(kind, n) \in Seq(Item) /\ Len(One(kind, n)) = 1 /\ One(kind, n) # <<>> /\ One(kind, n)[1] = [kind |-> kind, n |-> n]
           /\ DOMAIN One(kind, n) = {1}
<1>1. [kind |-> kind, n |-> n] \in Item
  BY DEF Item
<1> QED
  BY <1>1 DEF One

LEMMA EndingFacts ==
    ASSUME NEW v \in {"complete"} \cup Failures
    PROVE  /\ Ending(v) \in Decoders /\ HandOK(Ending(v))
           /\ Ending(v).at = "ending" /\ Ending(v).then = v /\ Ending(v).flush = FALSE
           /\ v # "complete" /\ ~cancelled => HasError(Ending(v).out)
           /\ \A kind \in {"text", "thought", "usage", "call"} : Numbered(kind, Ending(v).out) = <<>>
<1> DEFINE out == (IF v = "complete" \/ cancelled THEN <<>> ELSE One("error", v)) \o One("done", 0)
<1>1. Ending(v) = [at |-> "ending", then |-> v, flush |-> FALSE, out |-> out]
  BY DEF Ending
<1>2. /\ One("done", 0) \in Seq(Item) /\ Len(One("done", 0)) = 1 /\ One("done", 0)[1] = [kind |-> "done", n |-> 0]
      /\ One("done", 0) # <<>> /\ DOMAIN One("done", 0) = {1}
  BY OneIs DEF Payload
<1>3. v # "complete" => /\ One("error", v) \in Seq(Item) /\ Len(One("error", v)) = 1 /\ One("error", v)[1] = [kind |-> "error", n |-> v]
                        /\ DOMAIN One("error", v) = {1}
  BY OneIs DEF Payload, Failures
<1>4. /\ out \in Seq(Item) /\ out # <<>> /\ \A k \in DOMAIN out : out[k].kind \in {"error", "done"}
      /\ v # "complete" /\ ~cancelled => HasError(out)
  <2>1. CASE v = "complete" \/ cancelled
    <3>1. out = <<>> \o One("done", 0)
      BY <2>1
    <3>2. out = One("done", 0)
      BY <1>2, <3>1, ConcatEmptySeq
    <3> HIDE DEF out
    <3> QED
      BY <1>2, <2>1, <3>2
  <2>2. CASE ~(v = "complete" \/ cancelled)
    <3>1. PICK a, b : a = One("error", v) /\ b = One("done", 0)
      OBVIOUS
    <3>2. out = a \o b /\ a \in Seq(Item) /\ b \in Seq(Item) /\ Len(a) = 1 /\ Len(b) = 1
      BY <1>2, <1>3, <2>2, <3>1
    <3> HIDE DEF out
    <3>21. a \in Seq(Item) /\ b \in Seq(Item)
      BY <3>2
    <3>22. /\ a \o b \in Seq(Item) /\ Len(a \o b) = Len(a) + Len(b)
           /\ \A i \in 1..(Len(a) + Len(b)) : (a \o b)[i] = IF i <= Len(a) THEN a[i] ELSE b[i - Len(a)]
      BY <3>21, ConcatProperties
    <3>3. /\ out \in Seq(Item) /\ Len(out) = 2
          /\ \A i \in 1..2 : out[i] = IF i <= 1 THEN a[i] ELSE b[i - 1]
      BY <3>2, <3>22
    <3>4. DOMAIN out = 1..2 /\ out[1] = a[1] /\ out[2] = b[1]
      BY <3>3, LenProperties
    <3>5. out[1].kind = "error" /\ out[2].kind = "done"
      BY <1>2, <1>3, <2>2, <3>1, <3>4
    <3>6. out # <<>>
      BY <3>3, EmptySeq
    <3> QED
      BY <3>3, <3>4, <3>5, <3>6 DEF HasError
  <2> QED
    BY <2>1, <2>2
<1>5. \A kind \in {"text", "thought", "usage", "call"} : Numbered(kind, out) = <<>>
  <2> TAKE kind \in {"text", "thought", "usage", "call"}
  <2>1. out \in Seq(Printable) /\ \A k \in DOMAIN out : out[k].kind # kind
    BY <1>4, ItemsPrint
  <2> HIDE DEF out
  <2> QED
    BY <2>1, NumNone
<1>6. Ending(v) \in Decoders
  BY <1>1, <1>4 DEF Decoders, Nexts
<1>7. HandOK(Ending(v))
  <2> HIDE DEF out
  <2> QED
    BY <1>1, <1>4 DEF HandOK, Failures
<1> QED
  BY <1>1, <1>4, <1>5, <1>6, <1>7

LEMMA ReadingFacts ==
    /\ Reading \in Decoders /\ HandOK(Reading) /\ Then("read") = Reading
    /\ Reading.at = "reading" /\ Reading.then = "read" /\ Reading.flush = FALSE /\ Reading.out = <<>>
    /\ \A kind : Numbered(kind, Reading.out) = <<>>
<1>1. Reading = [at |-> "reading", out |-> <<>>, then |-> "read", flush |-> FALSE]
  BY DEF Reading
<1>2. Reading \in Decoders /\ HandOK(Reading) /\ Then("read") = Reading
  BY <1>1 DEF Decoders, Nexts, HandOK, Then
<1> QED
  BY <1>1, <1>2, NumEmpty

LEMMA ThenFacts ==
    ASSUME NEW next \in Nexts
    PROVE  /\ Then(next) \in Decoders /\ HandOK(Then(next))
           /\ Then(next).then = next /\ Then(next).flush = FALSE
           /\ Then(next).at = IF next = "read" THEN "reading" ELSE "ending"
           /\ next \notin {"read", "complete"} /\ ~cancelled => HasError(Then(next).out)
           /\ \A kind \in {"text", "thought", "usage", "call"} : Numbered(kind, Then(next).out) = <<>>
<1>1. CASE next = "read"
  BY <1>1, ReadingFacts
<1>2. CASE next # "read"
  <2>1. Then(next) = Ending(next) /\ next \in {"complete"} \cup Failures
    BY <1>2 DEF Then, Nexts
  <2> QED
    BY <1>2, <2>1, EndingFacts
<1> QED
  BY <1>1, <1>2

LEMMA HandedFacts ==
    ASSUME NEW items, NEW next, NEW flushing, Fits(items, next, flushing), Handed(items, next, flushing), UNCHANGED dialect
    PROVE  /\ decoder' \in Decoders /\ OutOK'
           /\ decoder'.then = next /\ decoder'.flush = (flushing /\ items # <<>>)
           /\ decoder'.at \in {"reading", "emitting", "ending"}
           /\ decoder'.at = "reading" => next = "read" /\ items = <<>>
           /\ decoder'.at = "ending" => items = <<>> /\ (next # "complete" /\ ~cancelled => HasError(decoder'.out))
           /\ \A kind \in {"text", "thought", "usage", "call"} : Numbered(kind, decoder'.out) = Numbered(kind, items)
<1>1. items \in Seq(Item) /\ next \in Nexts /\ flushing \in BOOLEAN
  BY DEF Fits
<1>2. CASE items = <<>>
  <2>1. decoder' = Then(next)
    BY <1>2 DEF Handed
  <2>2. \A kind : Numbered(kind, items) = <<>>
    BY <1>2, NumEmpty
  <2>3. OutOK'
    <3>1. HandOK(Then(next))
      BY <1>1, ThenFacts
    <3>2. HandOK(Then(next)) <=> HandOK(decoder)'
      BY <2>1 DEF HandOK, Reading
    <3> QED
      BY <3>1, <3>2 DEF OutOK
  <2> QED
    BY <1>1, <1>2, <2>1, <2>2, <2>3, ThenFacts DEF Nexts
<1>3. CASE items # <<>>
  <2>1. decoder' = [at |-> "emitting", out |-> items, then |-> next, flush |-> flushing]
    BY <1>3 DEF Handed
  <2>2. decoder' \in Decoders
    BY <1>1, <2>1 DEF Decoders
  <2>3. OutOK'
    BY <1>1, <1>3, <2>1 DEF OutOK, HandOK, Fits
  <2> QED
    BY <1>1, <1>3, <2>1, <2>2, <2>3
<1> QED
  BY <1>2, <1>3

CallItems == [k \in DOMAIN calls |-> Called(calls[k])]
Decided(items, next, flushing) ==
    \/ /\ line.kind \in {"text", "thought"} \/ (line.kind = "usage" /\ dialect = "chat")
       /\ items = One(line.kind, line.n) /\ next = "read" /\ ~flushing /\ Keep
    \/ line.kind = "junk" /\ items = <<>> /\ next = "read" /\ ~flushing /\ Keep
    \/ /\ line.kind = "usage" /\ dialect \in {"messages", "generate"}
       /\ items = <<>> /\ next = "read" /\ ~flushing /\ usage' = line.n /\ UNCHANGED <<calls, marked>>
    \/ /\ line.kind = "call" /\ dialect = "chat"
       /\ items = <<>> /\ next = "read" /\ ~flushing /\ Accumulate(Fragment(line)) /\ UNCHANGED <<marked, usage>>
    \/ /\ line.kind = "call" /\ dialect = "messages"
       /\ items = <<>> /\ next = "read" /\ ~flushing /\ UNCHANGED <<marked, usage>>
       /\ calls' = IF Made[line.call][1] = line.n
                   THEN Append(WithoutBlock(line.call), [index |-> line.call, id |-> line.call, args |-> <<line.n>>])
                   ELSE [calls EXCEPT ![Block(line.call)].args = Append(@, line.n)]
    \/ /\ line.kind = "call" /\ dialect = "generate"
       /\ items = <<Called([args |-> <<line.n>>])>> /\ next = "read" /\ ~flushing /\ Keep
    \/ /\ line.kind = "close" /\ dialect = "messages"
       /\ items = <<Called(calls[Block(line.call)])>> /\ next = "read" /\ ~flushing
       /\ calls' = WithoutBlock(line.call) /\ UNCHANGED <<marked, usage>>
    \/ /\ line.kind = "finish" /\ dialect = "chat"
       /\ items = CallItems /\ next = "read" /\ flushing /\ marked' = TRUE /\ UNCHANGED <<calls, usage>>
    \/ /\ line.kind = "finish" /\ dialect = "generate"
       /\ items = <<>> /\ next = "read" /\ ~flushing /\ marked' = TRUE /\ UNCHANGED <<calls, usage>>
    \/ line.kind = "stop" /\ dialect = "chat" /\ items = CallItems /\ next = "complete" /\ flushing /\ Keep
    \/ /\ line.kind = "stop" /\ dialect = "messages"
       /\ items = (IF usage = 0 THEN <<>> ELSE One("usage", usage)) /\ next = "complete" /\ ~flushing /\ Keep
    \/ /\ line.kind = "stop" /\ dialect = "responses"
       /\ items = (IF line.n = 0 THEN <<>> ELSE One("usage", line.n)) /\ next = "complete" /\ ~flushing /\ Keep
    \/ line.kind = "error" /\ dialect = "chat" /\ items = CallItems /\ next = "error" /\ flushing /\ Keep
    \/ line.kind \in {"error", "fault"} /\ items = <<>> /\ next = "error" /\ ~flushing /\ Keep

LEMMA CallItemsFit ==
    ASSUME DecoderTypes, dialect = "chat", NEW next \in Nexts
    PROVE  Fits(CallItems, next, TRUE) /\ (CallItems = <<>> <=> calls = <<>>)
           /\ Len(CallItems) = Len(calls) /\ \A k \in 1..Len(calls) : CallItems[k] = Called(calls[k])
<1>1. /\ Len(calls) \in Nat /\ DOMAIN calls = 1..Len(calls) /\ \A k \in DOMAIN calls : calls[k] \in CallEntry
      /\ calls \in Seq(CallEntry)
  BY LenProperties, ElementOfSeq DEF DecoderTypes
<1>2. \A k \in DOMAIN calls : Called(calls[k]) \in Item /\ Called(calls[k]).kind = "call"
  <2> TAKE k \in DOMAIN calls
  <2>1. calls[k].args \in Payload
    BY <1>1 DEF CallEntry, Payload
  <2> QED
    BY <2>1 DEF Called, Item
<1>3. PICK ci : ci = CallItems
  OBVIOUS
<1>4. ci \in [1..Len(calls) -> Item] /\ \A k \in 1..Len(calls) : ci[k] = Called(calls[k]) /\ ci[k].kind = "call"
  BY <1>1, <1>2, <1>3 DEF CallItems
<1>5. ci \in Seq(Item)
  BY <1>1, <1>4, SeqDef
<1>6. Len(ci) = Len(calls) /\ DOMAIN ci = 1..Len(calls)
  <2>1. Len(ci) \in Nat /\ 1..Len(ci) = 1..Len(calls)
    BY <1>4, <1>5, LenProperties
  <2> QED
    BY <1>1, <1>4, <2>1, SameInterval
<1>7. ci = <<>> <=> calls = <<>>
  BY <1>1, <1>5, <1>6, EmptySeq
<1>8. Fits(ci, next, TRUE)
  BY <1>4, <1>5, <1>6 DEF Fits
<1> QED
  BY <1>3, <1>4, <1>6, <1>7, <1>8

LEMMA FlushHands ==
    ASSUME DecoderTypes, dialect = "chat", NEW next, FlushThen(next)
    PROVE  Handed(CallItems, next, TRUE)
<1>1. CallItems = <<>> <=> calls = <<>>
  <2>1. "read" \in Nexts
    BY DEF Nexts
  <2> QED
    BY <2>1, CallItemsFit
<1> QED
  BY <1>1 DEF FlushThen, Handed, CallItems

LEMMA EmitHands ==
    ASSUME NEW out, NEW next, EmitThen(out, next)
    PROVE  Handed(out, next, FALSE)
BY DEF EmitThen, Handed

LEMMA StayHands ==
    ASSUME decoder = Reading, UNCHANGED decoder
    PROVE  Handed(<<>>, "read", FALSE)
BY ReadingFacts DEF Handed

LEMMA OneFits ==
    ASSUME NEW kind \in {"text", "thought", "usage"}, NEW n \in Nat \ {0}, NEW next \in Nexts,
           next = "read" \/ (next = "complete" /\ kind = "usage")
    PROVE  Fits(One(kind, n), next, FALSE)
<1>1. /\ One(kind, n) \in Seq(Item) /\ Len(One(kind, n)) = 1 /\ One(kind, n) # <<>> /\ One(kind, n)[1] = [kind |-> kind, n |-> n]
  BY OneIs DEF Payload
<1> QED
  BY <1>1 DEF Fits

LEMMA NoneFits == ASSUME NEW next \in Nexts PROVE Fits(<<>>, next, FALSE)
BY DEF Fits

LEMMA CalledFits ==
    ASSUME NEW c, c.args \in Seq(Nat)
    PROVE  Fits(<<Called(c)>>, "read", FALSE) /\ Called(c) = [kind |-> "call", n |-> c.args] /\ Called(c) \in Item
<1>1. Called(c) = [kind |-> "call", n |-> c.args] /\ c.args \in Payload
  BY DEF Called, Payload
<1>2. Called(c) \in Item
  BY <1>1 DEF Item
<1>3. PICK x : x = <<Called(c)>>
  OBVIOUS
<1>4. x \in Seq(Item) /\ Len(x) = 1 /\ x[1].kind = "call" /\ x # <<>>
  BY <1>1, <1>2, <1>3
<1> QED
  BY <1>1, <1>2, <1>3, <1>4 DEF Fits, Nexts

LEMMA BlockIs ==
    ASSUME NEW c, \E k \in DOMAIN calls : calls[k].index = c
    PROVE  Block(c) \in DOMAIN calls /\ calls[Block(c)].index = c
BY DEF Block

LEMMA DispatchIs ==
    ASSUME WireTypes, DecoderTypes, OutOK, LineOK, Dispatch
    PROVE  \E items, next, flushing :
              Fits(items, next, flushing) /\ Handed(items, next, flushing) /\ Decided(items, next, flushing)
<1>1. At("reading") /\ line # NoEvent /\ decoder = Reading
  BY DEF Dispatch, OutOK, HandOK, At
<1>2. /\ line \in Event /\ Known(line.kind) /\ line.kind # "none" /\ line.n \in Nat
      /\ line.kind \in {"text", "thought", "usage", "call"} => line.n # 0
      /\ dialect \in {"chat", "messages", "generate", "responses"} /\ usage \in Nat
  BY <1>1, StreamAssumption DEF WireTypes, LineOK, Event, DecoderTypes
<1>3. "read" \in Nexts /\ "complete" \in Nexts /\ "error" \in Nexts
  BY DEF Nexts, Failures
<1>4. CASE line.kind = "junk" /\ UNCHANGED decoding
  <2>1. Keep /\ Handed(<<>>, "read", FALSE)
    BY <1>1, <1>4, StayHands DEF Keep, decoding
  <2> QED
    BY <1>3, <1>4, <2>1, NoneFits DEF Decided
<1>5. CASE dialect = "chat" /\ Chat(line)
  <2>1. CASE line.kind \in {"text", "thought", "usage"} /\ Pass(line)
    <3>1. Handed(One(line.kind, line.n), "read", FALSE) /\ Keep
      BY <2>1, EmitHands DEF Pass
    <3>2. Fits(One(line.kind, line.n), "read", FALSE)
      BY <1>2, <1>3, <2>1, OneFits
    <3>3. Decided(One(line.kind, line.n), "read", FALSE)
      BY <1>5, <2>1, <3>1 DEF Decided
    <3> QED
      BY <3>1, <3>2, <3>3
  <2>2. CASE line.kind = "call" /\ Accumulate(Fragment(line)) /\ UNCHANGED <<decoder, marked, usage>>
    <3>1. Decided(<<>>, "read", FALSE)
      BY <1>5, <2>2 DEF Decided
    <3> QED
      BY <1>1, <1>3, <2>2, <3>1, StayHands, NoneFits
  <2>3. CASE line.kind = "finish" /\ FlushThen("read") /\ marked' = TRUE /\ UNCHANGED <<calls, usage>>
    <3>1. Decided(CallItems, "read", TRUE)
      BY <1>5, <2>3 DEF Decided
    <3> QED
      BY <1>3, <1>5, <2>3, <3>1, FlushHands, CallItemsFit
  <2>4. CASE line.kind = "stop" /\ FlushThen("complete") /\ Keep
    <3>1. Decided(CallItems, "complete", TRUE)
      BY <1>5, <2>4 DEF Decided
    <3> QED
      BY <1>3, <1>5, <2>4, <3>1, FlushHands, CallItemsFit
  <2>5. CASE line.kind = "error" /\ FlushThen("error") /\ Keep
    <3>1. Decided(CallItems, "error", TRUE)
      BY <1>5, <2>5 DEF Decided
    <3> QED
      BY <1>3, <1>5, <2>5, <3>1, FlushHands, CallItemsFit
  <2>6. CASE line.kind = "fault" /\ EmitThen(<<>>, "error") /\ Keep
    <3>1. Decided(<<>>, "error", FALSE)
      BY <2>6 DEF Decided
    <3> QED
      BY <1>3, <2>6, <3>1, EmitHands, NoneFits
  <2> QED
    BY <1>5, <2>1, <2>2, <2>3, <2>4, <2>5, <2>6 DEF Chat
<1>6. CASE dialect = "messages" /\ Messages(line)
  <2>1. CASE line.kind = "text" /\ Pass(line)
    <3>1. Handed(One(line.kind, line.n), "read", FALSE) /\ Keep
      BY <2>1, EmitHands DEF Pass
    <3>2. Fits(One(line.kind, line.n), "read", FALSE)
      BY <1>2, <1>3, <2>1, OneFits
    <3>3. Decided(One(line.kind, line.n), "read", FALSE)
      BY <2>1, <3>1 DEF Decided
    <3> QED
      BY <3>1, <3>2, <3>3
  <2>2. CASE line.kind = "usage" /\ usage' = line.n /\ UNCHANGED <<decoder, calls, marked>>
    <3>1. Decided(<<>>, "read", FALSE)
      BY <1>6, <2>2 DEF Decided
    <3> QED
      BY <1>1, <1>3, <2>2, <3>1, StayHands, NoneFits
  <2>3. CASE /\ line.kind = "call"
             /\ calls' = IF Made[line.call][1] = line.n
                         THEN Append(WithoutBlock(line.call), [index |-> line.call, id |-> line.call, args |-> <<line.n>>])
                         ELSE [calls EXCEPT ![Block(line.call)].args = Append(@, line.n)]
             /\ UNCHANGED <<decoder, marked, usage>>
    <3>1. Decided(<<>>, "read", FALSE)
      BY <1>6, <2>3 DEF Decided
    <3> QED
      BY <1>1, <1>3, <2>3, <3>1, StayHands, NoneFits
  <2>4. CASE /\ line.kind = "close"
             /\ EmitThen(<<Called(calls[Block(line.call)])>>, "read")
             /\ calls' = WithoutBlock(line.call)
             /\ UNCHANGED <<marked, usage>>
    <3>1. Handed(<<Called(calls[Block(line.call)])>>, "read", FALSE)
      BY <2>4, EmitHands
    <3>2. calls[Block(line.call)].args \in Seq(Nat)
      <4>1. Block(line.call) \in DOMAIN calls
        BY <2>4, BlockIs DEF LineOK
      <4>2. calls[Block(line.call)] \in CallEntry
        BY <4>1, ElementOfSeq, LenProperties DEF DecoderTypes
      <4> QED
        BY <4>2 DEF CallEntry
    <3>3. Fits(<<Called(calls[Block(line.call)])>>, "read", FALSE)
      BY <3>2, CalledFits
    <3>4. Decided(<<Called(calls[Block(line.call)])>>, "read", FALSE)
      BY <1>6, <2>4 DEF Decided
    <3> QED
      BY <3>1, <3>3, <3>4
  <2>5. CASE line.kind = "stop" /\ EmitThen(IF usage = 0 THEN <<>> ELSE One("usage", usage), "complete") /\ Keep
    <3> DEFINE out == IF usage = 0 THEN <<>> ELSE One("usage", usage)
    <3>1. Handed(out, "complete", FALSE)
      BY <2>5, EmitHands
    <3>2. Fits(out, "complete", FALSE)
      BY <1>2, <1>3, OneFits, NoneFits
    <3>3. Decided(out, "complete", FALSE)
      BY <1>6, <2>5 DEF Decided
    <3> QED
      BY <3>1, <3>2, <3>3
  <2>6. CASE line.kind = "error" /\ EmitThen(<<>>, "error") /\ Keep
    <3>1. Decided(<<>>, "error", FALSE)
      BY <2>6 DEF Decided
    <3> QED
      BY <1>3, <2>6, <3>1, EmitHands, NoneFits
  <2> QED
    BY <1>6, <2>1, <2>2, <2>3, <2>4, <2>5, <2>6 DEF Messages
<1>7. CASE dialect = "generate" /\ Generate(line)
  <2>1. CASE line.kind \in {"text", "thought"} /\ Pass(line)
    <3>1. Handed(One(line.kind, line.n), "read", FALSE) /\ Keep
      BY <2>1, EmitHands DEF Pass
    <3>2. Fits(One(line.kind, line.n), "read", FALSE)
      BY <1>2, <1>3, <2>1, OneFits
    <3>3. Decided(One(line.kind, line.n), "read", FALSE)
      BY <2>1, <3>1 DEF Decided
    <3> QED
      BY <3>1, <3>2, <3>3
  <2>2. CASE line.kind = "usage" /\ usage' = line.n /\ UNCHANGED <<decoder, calls, marked>>
    <3>1. Decided(<<>>, "read", FALSE)
      BY <1>7, <2>2 DEF Decided
    <3> QED
      BY <1>1, <1>3, <2>2, <3>1, StayHands, NoneFits
  <2>3. CASE line.kind = "call" /\ EmitThen(<<Called([args |-> <<line.n>>])>>, "read") /\ Keep
    <3>1. Handed(<<Called([args |-> <<line.n>>])>>, "read", FALSE)
      BY <2>3, EmitHands
    <3>2. Fits(<<Called([args |-> <<line.n>>])>>, "read", FALSE)
      <4>1. [args |-> <<line.n>>].args \in Seq(Nat)
        BY <1>2
      <4> QED
        BY <4>1, CalledFits
    <3>3. Decided(<<Called([args |-> <<line.n>>])>>, "read", FALSE)
      BY <1>7, <2>3 DEF Decided
    <3> QED
      BY <3>1, <3>2, <3>3
  <2>4. CASE line.kind = "finish" /\ marked' = TRUE /\ UNCHANGED <<decoder, calls, usage>>
    <3>1. Decided(<<>>, "read", FALSE)
      BY <1>7, <2>4 DEF Decided
    <3> QED
      BY <1>1, <1>3, <2>4, <3>1, StayHands, NoneFits
  <2>5. CASE line.kind = "error" /\ EmitThen(<<>>, "error") /\ Keep
    <3>1. Decided(<<>>, "error", FALSE)
      BY <2>5 DEF Decided
    <3> QED
      BY <1>3, <2>5, <3>1, EmitHands, NoneFits
  <2> QED
    BY <1>7, <2>1, <2>2, <2>3, <2>4, <2>5 DEF Generate
<1>8. CASE dialect = "responses" /\ Responses(line)
  <2>1. CASE line.kind \in {"text", "thought"} /\ Pass(line)
    <3>1. Handed(One(line.kind, line.n), "read", FALSE) /\ Keep
      BY <2>1, EmitHands DEF Pass
    <3>2. Fits(One(line.kind, line.n), "read", FALSE)
      BY <1>2, <1>3, <2>1, OneFits
    <3>3. Decided(One(line.kind, line.n), "read", FALSE)
      BY <2>1, <3>1 DEF Decided
    <3> QED
      BY <3>1, <3>2, <3>3
  <2>2. CASE line.kind = "stop" /\ EmitThen(IF line.n = 0 THEN <<>> ELSE One("usage", line.n), "complete") /\ Keep
    <3> DEFINE out == IF line.n = 0 THEN <<>> ELSE One("usage", line.n)
    <3>1. Handed(out, "complete", FALSE)
      BY <2>2, EmitHands
    <3>2. Fits(out, "complete", FALSE)
      BY <1>2, <1>3, OneFits, NoneFits
    <3>3. Decided(out, "complete", FALSE)
      BY <1>8, <2>2 DEF Decided
    <3> QED
      BY <3>1, <3>2, <3>3
  <2>3. CASE line.kind = "error" /\ EmitThen(<<>>, "error") /\ Keep
    <3>1. Decided(<<>>, "error", FALSE)
      BY <2>3 DEF Decided
    <3> QED
      BY <1>3, <2>3, <3>1, EmitHands, NoneFits
  <2> QED
    BY <1>8, <2>1, <2>2, <2>3 DEF Responses
<1> QED
  BY <1>4, <1>5, <1>6, <1>7, <1>8 DEF Dispatch

(* A fragment that is the first of its call.                                 *)
LEMMA FirstPiece ==
    ASSUME WireTypes, LineOK, CallsCounted, line.kind = "call"
    PROVE  /\ Made[line.call] = MadeIn(heard, line.call) \o <<line.n>>
           /\ line.call \in 1..(CallCount(heard) + 1) /\ CallCount(heard) \in Nat /\ line.n \in Nat /\ line.n # 0
           /\ Made[line.call][1] = line.n <=> line.call = CallCount(heard) + 1
           /\ line.call = CallCount(heard) + 1 => MadeIn(heard, line.call) = <<>>
<1>1. line.n # 0 /\ line.n \in Nat /\ line.call \in 1..(CallCount(heard) + 1)
  BY StreamAssumption DEF LineOK, WireTypes, Event
<1>2. /\ sent = Append(heard, PieceOf(line)) /\ PieceOf(line) \in Piece /\ heard \in Seq(Piece)
      /\ line.n = Len(heard) + 1 /\ Len(heard) \in Nat /\ DOMAIN heard = 1..Len(heard)
  BY <1>1, HeardFacts, LenProperties
<1>3. CallsIn(heard) = 1..CallCount(heard) /\ CallCount(heard) \in Nat
      /\ \A c \in CallsIn(heard) : MadeIn(heard, c) # <<>>
  BY <1>2 DEF CallsCounted, Counted
<1>4. line.call \in CallsIn(sent) /\ PieceOf(line).call = line.call
  BY <1>1, <1>3, HeardCounts DEF PieceOf
<1>5. Made[line.call] = MadeIn(sent, line.call)
  BY <1>4 DEF Made, CallsIn, MadeIn, Places, PlacesIn
<1>6. MadeIn(sent, line.call) = MadeIn(heard, line.call) \o <<line.n>>
  BY <1>2, <1>4, MadeAppend
<1>7. PICK a, n : a = MadeIn(heard, line.call) /\ n = line.n
  OBVIOUS
<1>8. a \in Seq(1..Len(heard)) /\ ((\A k \in 1..Len(heard) : heard[k].call # line.call) => a = <<>>)
  BY <1>2, <1>7, MadeType
<1>9. CASE line.call = CallCount(heard) + 1
  <2>1. line.call \notin CallsIn(heard) /\ line.call # 0
    BY <1>1, <1>3, <1>9
  <2>2. \A k \in 1..Len(heard) : heard[k].call # line.call
    BY <1>2, <2>1 DEF CallsIn
  <2>3. a = <<>>
    BY <1>8, <2>2
  <2>4. <<n>> \in Seq(Nat)
    BY <1>1, <1>7
  <2>5. Made[line.call] = <<n>>
    BY <1>5, <1>6, <1>7, <2>3, <2>4, ConcatEmptySeq
  <2> QED
    BY <1>1, <1>3, <1>5, <1>6, <1>7, <1>9, <2>3, <2>5
<1>10. CASE line.call # CallCount(heard) + 1
  <2>1. line.call \in CallsIn(heard)
    BY <1>1, <1>3, <1>10
  <2>2. a # <<>>
    BY <1>3, <1>7, <2>1
  <2>3. Len(a) \in Nat /\ Len(a) # 0
    BY <1>8, <2>2, EmptySeq, LenProperties
  <2>4. 1 \in 1..Len(a) /\ a[1] \in 1..Len(heard)
    BY <1>8, <2>3, ElementOfSeq
  <2>5. a \in Seq(Nat) /\ <<n>> \in Seq(Nat)
    BY <1>1, <1>2, <1>7, PlacesPayload
  <2>6. (a \o <<n>>)[1] = a[1]
    <3>1. Append(a, n) = a \o <<n>> /\ Append(a, n)[1] = a[1]
      BY <1>1, <1>7, <2>4, <2>5, AppendProperties, AppendIsConcat
    <3> QED
      BY <3>1
  <2>7. a[1] # n
    BY <1>2, <1>7, <2>4
  <2> QED
    BY <1>1, <1>3, <1>5, <1>6, <1>7, <1>10, <2>6, <2>7
<1> QED
  BY <1>9, <1>10

LEMMA RemoveOne ==
    ASSUME NEW S, NEW s \in Seq(S), NEW k \in 1..Len(s)
    PROVE  /\ RemoveAt(s, k) \in Seq(S) /\ Len(RemoveAt(s, k)) = Len(s) - 1 /\ Len(s) \in Nat
           /\ \A i \in 1..(Len(s) - 1) : RemoveAt(s, k)[i] = IF i < k THEN s[i] ELSE s[i + 1]
<1>1. PICK n, a, b : n = Len(s) /\ a = SubSeq(s, 1, k - 1) /\ b = SubSeq(s, k + 1, n)
  OBVIOUS
<1>2. n \in Nat /\ k \in 1..n
  BY <1>1, LenProperties
<1>3. a \in Seq(S) /\ Len(a) = k - 1 /\ \A i \in 1..(k - 1) : a[i] = s[i]
  BY <1>1, <1>2, SMTT(30)
<1>4. b \in Seq(S) /\ Len(b) = n - k /\ \A i \in 1..(n - k) : b[i] = s[k + i]
  BY <1>1, <1>2, SMTT(30)
<1>5. PICK r : r = a \o b
  OBVIOUS
<1>6. /\ r \in Seq(S) /\ Len(r) = n - 1
      /\ \A i \in 1..(n - 1) : r[i] = IF i <= k - 1 THEN a[i] ELSE b[i - (k - 1)]
  <2>1. a \in Seq(S) /\ b \in Seq(S)
    BY <1>3, <1>4
  <2>2. /\ a \o b \in Seq(S) /\ Len(a \o b) = Len(a) + Len(b)
        /\ \A i \in 1..(Len(a) + Len(b)) : (a \o b)[i] = IF i <= Len(a) THEN a[i] ELSE b[i - Len(a)]
    BY <2>1, ConcatProperties
  <2>3. Len(a) + Len(b) = n - 1
    BY <1>2, <1>3, <1>4
  <2> QED
    BY <1>3, <1>5, <2>2, <2>3
<1>7. ASSUME NEW i \in 1..(n - 1) PROVE r[i] = IF i < k THEN s[i] ELSE s[i + 1]
  <2>1. CASE i < k
    <3>1. i \in 1..(k - 1) /\ i <= k - 1
      BY <1>2, <2>1
    <3>2. r[i] = a[i]
      BY <1>6, <3>1
    <3> QED
      BY <1>3, <2>1, <3>1, <3>2
  <2>2. CASE ~(i < k)
    <3>1. PICK j : j = i - (k - 1)
      OBVIOUS
    <3>2. ~(i <= k - 1) /\ j \in 1..(n - k) /\ k + j = i + 1
      BY <1>2, <2>2, <3>1
    <3>3. r[i] = b[j]
      BY <1>6, <3>1, <3>2
    <3>4. b[j] = s[k + j]
      BY <1>4, <3>2
    <3> QED
      BY <2>2, <3>2, <3>3, <3>4
  <2> QED
    BY <2>1, <2>2
<1>8. RemoveAt(s, k) = r
  BY <1>1, <1>5 DEF RemoveAt
<1> QED
  BY <1>1, <1>2, <1>6, <1>7, <1>8

LEMMA WithoutBlockType ==
    ASSUME DecoderTypes, NEW c
    PROVE  WithoutBlock(c) \in Seq(CallEntry)
<1>1. calls \in Seq(CallEntry) /\ DOMAIN calls = 1..Len(calls)
  BY LenProperties DEF DecoderTypes
<1>2. CASE \E k \in DOMAIN calls : calls[k].index = c
  <2>1. Block(c) \in 1..Len(calls) /\ WithoutBlock(c) = RemoveAt(calls, Block(c))
    BY <1>1, <1>2, BlockIs DEF WithoutBlock
  <2> QED
    BY <1>1, <2>1, RemoveOne
<1>3. CASE ~(\E k \in DOMAIN calls : calls[k].index = c)
  BY <1>1, <1>3 DEF WithoutBlock
<1> QED
  BY <1>2, <1>3

LEMMA SlotIn == ASSUME NEW f, DecoderTypes PROVE Slot(f) \subseteq DOMAIN calls
<1>1. DOMAIN calls = 1..Len(calls) /\ Len(calls) \in Nat
  BY LenProperties DEF DecoderTypes
<1>2. {Len(calls)} \ {0} \subseteq DOMAIN calls
  BY <1>1
<1>3. CASE f.index # 0
  BY <1>3 DEF Slot
<1>4. CASE f.index = 0 /\ f.id # 0
  BY <1>4 DEF Slot
<1>5. CASE f.index = 0 /\ f.id = 0
  BY <1>2, <1>5 DEF Slot
<1> QED
  BY <1>3, <1>4, <1>5

LEMMA CallsTyped ==
    ASSUME WireTypes, DecoderTypes, LineOK, CallsCounted, NEW items, NEW next, NEW flushing, Decided(items, next, flushing)
    PROVE  calls' \in Seq(CallEntry) /\ marked' \in BOOLEAN /\ usage' \in 0..MaxPieces
<1>1. calls \in Seq(CallEntry) /\ marked \in BOOLEAN /\ usage \in 0..MaxPieces /\ DOMAIN calls = 1..Len(calls)
      /\ line.n \in 0..MaxPieces /\ line.call \in 0..MaxPieces /\ MaxPieces \in Nat
  BY LenProperties, StreamAssumption DEF DecoderTypes, WireTypes, Event
<1>2. marked' \in BOOLEAN /\ usage' \in 0..MaxPieces
  BY <1>1 DEF Decided, Keep
<1>3. CASE UNCHANGED calls
  BY <1>1, <1>2, <1>3
<1>4. CASE line.kind = "call" /\ dialect = "chat" /\ Accumulate(Fragment(line))
  <2>1. PICK f : f = Fragment(line)
    OBVIOUS
  <2>2. f.index \in 0..MaxPieces /\ f.id \in 0..MaxPieces /\ f.arg \in Nat
    BY <1>1, <2>1 DEF Fragment
  <2>3. CASE Slot(f) = {}
    <3>1. calls' = Append(calls, [index |-> f.index, id |-> f.id, args |-> <<f.arg>>])
      BY <1>4, <2>1, <2>3 DEF Accumulate
    <3>2. [index |-> f.index, id |-> f.id, args |-> <<f.arg>>] \in CallEntry
      BY <2>2 DEF CallEntry
    <3> QED
      BY <1>1, <1>2, <3>1, <3>2, AppendProperties
  <2>4. CASE Slot(f) # {}
    <3>1. PICK k : k \in Slot(f) /\ calls' = [calls EXCEPT ![k].args = Append(@, f.arg), ![k].id = IF f.id # 0 THEN f.id ELSE @]
      BY <1>4, <2>1, <2>4 DEF Accumulate
    <3>2. k \in DOMAIN calls
      BY <3>1, SlotIn
    <3>3. calls[k] \in CallEntry
      BY <1>1, <3>2, ElementOfSeq
    <3>4. PICK e : e = [calls[k] EXCEPT !.args = Append(@, f.arg), !.id = IF f.id # 0 THEN f.id ELSE @]
      OBVIOUS
    <3>41. /\ calls[k] = [index |-> calls[k].index, id |-> calls[k].id, args |-> calls[k].args]
           /\ calls[k].index \in 0..MaxPieces /\ calls[k].id \in 0..MaxPieces /\ calls[k].args \in Seq(Nat)
      BY <3>3 DEF CallEntry
    <3>42. Append(calls[k].args, f.arg) \in Seq(Nat)
      BY <2>2, <3>41, AppendProperties
    <3>43. e = [index |-> calls[k].index, id |-> IF f.id # 0 THEN f.id ELSE calls[k].id, args |-> Append(calls[k].args, f.arg)]
      BY <3>4, <3>41
    <3>5. e \in CallEntry
      BY <2>2, <3>41, <3>42, <3>43 DEF CallEntry
    <3>6. calls' = [calls EXCEPT ![k] = e]
      BY <3>1, <3>4
    <3> QED
      BY <1>1, <1>2, <3>2, <3>5, <3>6, ExceptSeq
  <2> QED
    BY <2>3, <2>4
<1>5. CASE /\ line.kind = "call" /\ dialect = "messages"
           /\ calls' = IF Made[line.call][1] = line.n
                       THEN Append(WithoutBlock(line.call), [index |-> line.call, id |-> line.call, args |-> <<line.n>>])
                       ELSE [calls EXCEPT ![Block(line.call)].args = Append(@, line.n)]
  <2>1. CASE Made[line.call][1] = line.n
    <3>1. [index |-> line.call, id |-> line.call, args |-> <<line.n>>] \in CallEntry
      BY <1>1 DEF CallEntry
    <3> QED
      BY <1>2, <1>5, <2>1, <3>1, WithoutBlockType, AppendProperties
  <2>2. CASE Made[line.call][1] # line.n
    <3>1. line.call # CallCount(heard) + 1
      BY <1>5, <2>2, FirstPiece
    <3>2. \E k \in DOMAIN calls : calls[k].index = line.call
      BY <1>5, <3>1 DEF LineOK
    <3>3. PICK k : k = Block(line.call)
      OBVIOUS
    <3>4. k \in DOMAIN calls /\ calls[k] \in CallEntry
      BY <1>1, <3>2, <3>3, BlockIs, ElementOfSeq
    <3>5. PICK e : e = [calls[k] EXCEPT !.args = Append(@, line.n)]
      OBVIOUS
    <3>51. /\ calls[k] = [index |-> calls[k].index, id |-> calls[k].id, args |-> calls[k].args]
           /\ calls[k].index \in 0..MaxPieces /\ calls[k].id \in 0..MaxPieces /\ calls[k].args \in Seq(Nat)
      BY <3>4 DEF CallEntry
    <3>52. Append(calls[k].args, line.n) \in Seq(Nat)
      BY <1>1, <3>51, AppendProperties
    <3>53. e = [index |-> calls[k].index, id |-> calls[k].id, args |-> Append(calls[k].args, line.n)]
      BY <3>5, <3>51
    <3>6. e \in CallEntry
      BY <3>51, <3>52, <3>53 DEF CallEntry
    <3>7. calls' = [calls EXCEPT ![k] = e]
      BY <1>5, <2>2, <3>3, <3>5
    <3> QED
      BY <1>1, <1>2, <3>4, <3>6, <3>7, ExceptSeq
  <2> QED
    BY <2>1, <2>2
<1>6. CASE calls' = WithoutBlock(line.call)
  BY <1>2, <1>6, WithoutBlockType
<1> QED
  BY <1>3, <1>4, <1>5, <1>6 DEF Decided, Keep

\* Once a piece was dispatched, or dropped, there is none in the line.
LEMMA LineEmptied ==
    ASSUME WireTypes, LineOK, CallsCounted, PiecesOK, line' = NoEvent, UNCHANGED <<protocol, sent, said, cancelled>>,
           marked' => said = "whole", decoder'.then = "complete" => said = "whole"
    PROVE  WireTypes' /\ CallsCounted' /\ PiecesOK' /\ LineOK' /\ heard' = sent
<1>1. heard' = sent /\ line'.n = 0 /\ line'.kind = "none" /\ line' = NoEvent
  BY DEF heard, NoEvent
<1>2. NoEvent \in Event
  BY StreamAssumption DEF NoEvent, Event
<1>3. WireTypes'
  BY <1>2 DEF WireTypes, protocol
<1>4. Counted(sent)
  <2>1. CASE line.n = 0
    BY <2>1 DEF CallsCounted, heard
  <2>2. CASE line.n # 0
    BY <2>2, HeardCounts DEF Counted
  <2> QED
    BY <2>1, <2>2
<1>5. CallsCounted' /\ PiecesOK'
  BY <1>1, <1>4 DEF CallsCounted, PiecesOK
<1>6. LineOK'
  BY <1>1 DEF LineOK, Known, protocol, NoEvent
<1> QED
  BY <1>1, <1>3, <1>5, <1>6

LEMMA DispatchKeeps ==
    ASSUME WireTypes, DecoderTypes, OutOK, CallsCounted, PiecesOK, LineOK, Dispatch
    PROVE  WireTypes' /\ DecoderTypes' /\ OutOK' /\ CallsCounted' /\ PiecesOK' /\ LineOK' /\ heard' = sent
<1>1. PICK items, next, flushing :
         Fits(items, next, flushing) /\ Handed(items, next, flushing) /\ Decided(items, next, flushing)
  BY DispatchIs
<1>2. UNCHANGED <<protocol, sent, said, reading, screen, cancelled>> /\ line' = NoEvent
  BY DEF Dispatch
<1>3. decoder' \in Decoders /\ OutOK' /\ decoder'.then = next
  BY <1>1, <1>2, HandedFacts DEF protocol
<1>4. calls' \in Seq(CallEntry) /\ marked' \in BOOLEAN /\ usage' \in 0..MaxPieces
  BY <1>1, CallsTyped
<1>5. (marked' => said = "whole") /\ (next = "complete" => said = "whole")
  BY <1>1 DEF Decided, LineOK, Keep
<1>6. WireTypes' /\ CallsCounted' /\ PiecesOK' /\ LineOK' /\ heard' = sent
  BY <1>2, <1>3, <1>5, LineEmptied
<1> QED
  BY <1>3, <1>4, <1>6 DEF DecoderTypes

EndedBy(items, verdict, flushing) ==
    /\ verdict \in {"complete"} \cup Failures
    /\ verdict = "complete" => line = NoEvent /\ marked /\ dialect \in {"chat", "generate"}
    /\ dialect = "chat" => items = CallItems /\ flushing
    /\ dialect # "chat" => /\ ~flushing
                           /\ items = IF dialect = "generate" /\ verdict = "complete" /\ usage # 0 THEN One("usage", usage) ELSE <<>>
    /\ UNCHANGED <<calls, marked, usage>>
LEMMA BodyEndsIs ==
    ASSUME WireTypes, DecoderTypes, BodyEnds
    PROVE  \E items, verdict, flushing :
              Fits(items, verdict, flushing) /\ Handed(items, verdict, flushing) /\ EndedBy(items, verdict, flushing)
<1>1. PICK verdict \in {EndOfBody, "broken"} :
          CASE dialect = "chat" -> FlushThen(verdict)
            [] dialect = "generate" /\ verdict = "complete" /\ usage # 0 -> EmitThen(One("usage", usage), verdict)
            [] OTHER -> EmitThen(<<>>, verdict)
  BY DEF BodyEnds
<1>2. UNCHANGED <<calls, marked, usage>>
  BY DEF BodyEnds
<1>3. /\ verdict \in {"complete"} \cup Failures
      /\ verdict = "complete" => line = NoEvent /\ marked /\ dialect \in {"chat", "generate"}
  BY <1>1 DEF EndOfBody, Failures
<1>4. verdict \in Nexts
  BY <1>3 DEF Nexts
<1>5. CASE dialect = "chat"
  <2>1. Handed(CallItems, verdict, TRUE) /\ Fits(CallItems, verdict, TRUE)
    BY <1>1, <1>4, <1>5, FlushHands, CallItemsFit
  <2>2. EndedBy(CallItems, verdict, TRUE)
    BY <1>2, <1>3, <1>5 DEF EndedBy
  <2> QED
    BY <2>1, <2>2
<1>6. CASE dialect = "generate" /\ verdict = "complete" /\ usage # 0
  <2>1. Handed(One("usage", usage), verdict, FALSE)
    BY <1>1, <1>6, EmitHands
  <2>2. Fits(One("usage", usage), verdict, FALSE)
    <3>1. usage \in Nat \ {0}
      BY <1>6, StreamAssumption DEF DecoderTypes
    <3> QED
      BY <1>4, <1>6, <3>1, OneFits
  <2>3. EndedBy(One("usage", usage), verdict, FALSE)
    BY <1>2, <1>3, <1>6 DEF EndedBy
  <2> QED
    BY <2>1, <2>2, <2>3
<1>7. CASE dialect # "chat" /\ ~(dialect = "generate" /\ verdict = "complete" /\ usage # 0)
  <2>1. Handed(<<>>, verdict, FALSE)
    BY <1>1, <1>7, EmitHands
  <2>2. EndedBy(<<>>, verdict, FALSE)
    BY <1>2, <1>3, <1>7 DEF EndedBy
  <2> QED
    BY <1>4, <2>1, <2>2, NoneFits
<1> QED
  BY <1>5, <1>6, <1>7

LEMMA BodyEndsKeeps ==
    ASSUME WireTypes, DecoderTypes, OutOK, CallsCounted, PiecesOK, LineOK, BodyEnds
    PROVE  WireTypes' /\ DecoderTypes' /\ OutOK' /\ CallsCounted' /\ PiecesOK' /\ LineOK' /\ heard' = sent
<1>1. PICK items, verdict, flushing :
         Fits(items, verdict, flushing) /\ Handed(items, verdict, flushing) /\ EndedBy(items, verdict, flushing)
  BY BodyEndsIs
<1>2. UNCHANGED <<protocol, sent, said, reading, screen, cancelled>> /\ line' = NoEvent
  BY DEF BodyEnds
<1>3. decoder' \in Decoders /\ OutOK' /\ decoder'.then = verdict
  BY <1>1, <1>2, HandedFacts DEF protocol
<1>4. calls' \in Seq(CallEntry) /\ marked' \in BOOLEAN /\ usage' \in 0..MaxPieces
  BY <1>1 DEF EndedBy, DecoderTypes
<1>5. (marked' => said = "whole") /\ (verdict = "complete" => said = "whole")
  BY <1>1 DEF EndedBy, LineOK
<1>6. WireTypes' /\ CallsCounted' /\ PiecesOK' /\ LineOK' /\ heard' = sent
  BY <1>2, <1>3, <1>5, LineEmptied
<1> QED
  BY <1>3, <1>4, <1>6 DEF DecoderTypes

(* What is put into the channel.                                             *)
Moved ==
    /\ decoder' \in Decoders /\ OutOK' /\ decoder'.then = decoder.then
    /\ chan' = Append(chan, Head(decoder.out)) /\ Head(decoder.out) \in Item
    /\ \A kind \in {"text", "thought", "usage", "call"} :
          Numbered(kind, decoder.out) = NumOf(kind, Head(decoder.out)) \o Numbered(kind, decoder'.out)
LEMMA Sent1Facts ==
    ASSUME WireTypes, DecoderTypes, OutOK, decoder.at \in {"emitting", "ending"}, Sent1, UNCHANGED dialect
    PROVE  /\ Moved
           /\ calls' = IF decoder.flush /\ Len(decoder.out) = 1 THEN <<>> ELSE calls
           /\ decoder'.flush = (decoder.flush /\ Len(decoder.out) > 1)
           /\ decoder'.at = "closed" => decoder'.out = <<>> /\ At("ending")
           /\ At("ending") => decoder'.at \in {"ending", "closed"}
           /\ decoder'.at \in {"ending", "closed"} /\ ~At("ending") /\ decoder.then # "complete" /\ ~cancelled => HasError(decoder'.out)
           /\ At("ending") /\ HasError(decoder.out) => Head(decoder.out).kind = "error" \/ HasError(decoder'.out)
<1>1. PICK out : out = decoder.out
  OBVIOUS
<1>2. /\ out \in Seq(Item) /\ out # <<>> /\ decoder.then \in Nexts /\ decoder.flush \in BOOLEAN
      /\ decoder.at \in {"reading", "emitting", "ending", "closed"}
      /\ decoder = [at |-> decoder.at, out |-> out, then |-> decoder.then, flush |-> decoder.flush]
  BY <1>1 DEF DecoderTypes, Decoders, OutOK, HandOK
<1>3. /\ Head(out) \in Item /\ Tail(out) \in Seq(Item) /\ Len(out) \in Nat /\ Len(out) # 0 /\ Len(Tail(out)) = Len(out) - 1
      /\ \A i \in 1..(Len(out) - 1) : Tail(out)[i] = out[i + 1]
      /\ Head(out) = out[1] /\ DOMAIN out = 1..Len(out)
  BY <1>2, HeadTailProperties, EmptySeq, LenProperties
<1>4. chan' = Append(chan, Head(out))
  BY <1>1 DEF Sent1
<1>5. \A kind : Numbered(kind, out) = NumOf(kind, Head(out)) \o Numbered(kind, Tail(out))
  BY <1>2, ItemsPrint, NumHead
<1>6. CASE Len(out) > 1
  <2>1. decoder' = [decoder EXCEPT !.out = Tail(@)] /\ UNCHANGED calls
    BY <1>1, <1>6 DEF Sent1
  <2>2. decoder' = [at |-> decoder.at, out |-> Tail(out), then |-> decoder.then, flush |-> decoder.flush]
    BY <1>1, <1>2, <2>1
  <2>3. decoder' \in Decoders
    BY <1>2, <1>3, <2>2 DEF Decoders
  <2>4. Len(Tail(out)) # 0 /\ Tail(out) # <<>> /\ DOMAIN Tail(out) = 1..(Len(out) - 1)
    <3>1. PICK t : t = Tail(out)
      OBVIOUS
    <3>2. t \in Seq(Item) /\ Len(t) # 0 /\ Len(t) = Len(out) - 1
      BY <1>3, <1>6, <3>1
    <3>3. t # <<>> /\ DOMAIN t = 1..Len(t)
      BY <3>2, EmptySeq, LenProperties
    <3> QED
      BY <3>1, <3>2, <3>3
  <2>5. \A k \in DOMAIN Tail(out) : k + 1 \in DOMAIN out /\ Tail(out)[k] = out[k + 1]
    BY <1>3, <2>4
  <2>6. At("emitting") => decoder.flush
    <3>1. Len(out) # 1
      BY <1>3, <1>6
    <3> QED
      BY <1>1, <3>1 DEF OutOK, HandOK, At
  <2>7. OutOK'
    <3>1. At("emitting") => decoder.flush /\ dialect = "chat" /\ \A k \in DOMAIN Tail(out) : Tail(out)[k].kind = "call"
      BY <1>1, <2>5, <2>6 DEF OutOK, HandOK, At
    <3>2. At("ending") => decoder.then # "read" /\ ~decoder.flush /\ \A k \in DOMAIN Tail(out) : Tail(out)[k].kind \in {"error", "done"}
      BY <1>1, <2>5 DEF OutOK, HandOK, At
    <3> QED
      BY <2>2, <2>4, <3>1, <3>2 DEF OutOK, HandOK, At
  <2>8. HasError(out) => Head(out).kind = "error" \/ HasError(Tail(out))
    <3>1. ASSUME NEW k \in DOMAIN out, out[k].kind = "error", k # 1 PROVE HasError(Tail(out))
      <4>1. k - 1 \in DOMAIN Tail(out) /\ Tail(out)[k - 1] = out[k]
        BY <1>3, <2>4, <3>1
      <4> QED
        BY <3>1, <4>1 DEF HasError
    <3> QED
      BY <1>3, <3>1 DEF HasError
  <2>9. decoder'.out = Tail(out) /\ decoder'.flush = decoder.flush /\ decoder'.at = decoder.at
    BY <2>2
  <2>10. Moved
    BY <1>1, <1>3, <1>4, <1>5, <2>2, <2>3, <2>7, <2>9 DEF Moved
  <2>11. calls' = IF decoder.flush /\ Len(decoder.out) = 1 THEN <<>> ELSE calls
    <3>1. Len(out) # 1
      BY <1>3, <1>6
    <3>2. Len(decoder.out) # 1
      BY <1>1, <3>1
    <3>3. calls' = calls
      BY <2>1
    <3> QED
      BY <3>2, <3>3
  <2>12. decoder'.flush = (decoder.flush /\ Len(decoder.out) > 1)
    BY <1>1, <1>2, <1>6, <2>9
  <2>13. decoder'.at \notin {"closed", "reading"} /\ (At("ending") <=> decoder'.at = "ending")
    BY <2>9 DEF At
  <2>14. HasError(decoder.out) => Head(decoder.out).kind = "error" \/ HasError(decoder'.out)
    BY <1>1, <2>8, <2>9
  <2> QED
    BY <2>10, <2>11, <2>12, <2>13, <2>14
<1>7. CASE ~(Len(out) > 1)
  <2>1. /\ decoder' = IF At("ending") THEN [decoder EXCEPT !.at = "closed", !.out = <<>>] ELSE Then(decoder.then)
        /\ calls' = IF decoder.flush THEN <<>> ELSE calls
    BY <1>1, <1>7 DEF Sent1
  <2>2. Len(out) = 1 /\ Tail(out) = <<>>
    BY <1>3, <1>7, EmptySeq
  <2>3. \A kind : Numbered(kind, <<>>) = <<>>
    BY NumEmpty
  <2>4. CASE At("ending")
    <3>1. decoder' = [at |-> "closed", out |-> <<>>, then |-> decoder.then, flush |-> decoder.flush]
      BY <1>2, <2>1, <2>4
    <3>2. decoder' \in Decoders
      BY <1>2, <3>1 DEF Decoders
    <3>3. decoder.then # "read" /\ ~decoder.flush
      BY <2>4 DEF OutOK, HandOK, At
    <3>4. OutOK'
      BY <3>1, <3>3 DEF OutOK, HandOK
    <3>5. HasError(out) => Head(out).kind = "error"
      BY <1>3, <2>2 DEF HasError
    <3>6. decoder'.out = <<>> /\ decoder'.then = decoder.then /\ decoder'.flush = decoder.flush /\ decoder'.at = "closed"
      BY <3>1
    <3>7. Moved
      BY <1>1, <1>3, <1>4, <1>5, <2>2, <3>2, <3>4, <3>6 DEF Moved
    <3>8. calls' = IF decoder.flush /\ Len(decoder.out) = 1 THEN <<>> ELSE calls
      BY <1>1, <2>1, <2>2
    <3>9. decoder'.flush = (decoder.flush /\ Len(decoder.out) > 1)
      BY <1>1, <1>2, <1>7, <3>3, <3>6
    <3>10. HasError(decoder.out) => Head(decoder.out).kind = "error"
      BY <1>1, <3>5
    <3> QED
      BY <2>4, <3>6, <3>7, <3>8, <3>9, <3>10
  <2>5. CASE ~At("ending")
    <3>1. decoder' = Then(decoder.then) /\ At("emitting")
      BY <2>1, <2>5 DEF At
    <3>2. decoder' \in Decoders /\ decoder'.then = decoder.then /\ decoder'.flush = FALSE
          /\ decoder'.at = (IF decoder.then = "read" THEN "reading" ELSE "ending")
          /\ (decoder.then \notin {"read", "complete"} /\ ~cancelled => HasError(decoder'.out))
          /\ \A kind \in {"text", "thought", "usage", "call"} : Numbered(kind, decoder'.out) = <<>>
      BY <1>2, <3>1, ThenFacts
    <3>3. OutOK'
      <4>1. HandOK(Then(decoder.then))
        BY <1>2, ThenFacts
      <4>2. HandOK(Then(decoder.then)) <=> HandOK(decoder)'
        BY <3>1 DEF HandOK, Reading
      <4> QED
        BY <4>1, <4>2 DEF OutOK
    <3>4. \A kind \in {"text", "thought", "usage", "call"} :
              Numbered(kind, out) = NumOf(kind, Head(out)) \o Numbered(kind, decoder'.out)
      <4> TAKE kind \in {"text", "thought", "usage", "call"}
      <4>1. Numbered(kind, Tail(out)) = <<>> /\ Numbered(kind, decoder'.out) = <<>>
        BY <2>2, <2>3, <3>2
      <4> QED
        BY <1>5, <4>1
    <3>5. Moved
      BY <1>1, <1>3, <1>4, <3>2, <3>3, <3>4 DEF Moved
    <3>6. calls' = IF decoder.flush /\ Len(decoder.out) = 1 THEN <<>> ELSE calls
      BY <1>1, <2>1, <2>2
    <3>7. decoder'.flush = (decoder.flush /\ Len(decoder.out) > 1)
      BY <1>1, <1>7, <3>2
    <3>8. decoder'.at # "closed" /\ (decoder'.at = "ending" => decoder.then # "read")
      BY <3>2
    <3> QED
      BY <2>5, <3>2, <3>5, <3>6, <3>7, <3>8
  <2> QED
    BY <2>4, <2>5
<1> QED
  BY <1>6, <1>7

\* What a cancellation leaves out.
LEMMA SkippedFacts ==
    ASSUME WireTypes, DecoderTypes, OutOK, decoder.at \in {"emitting", "ending"}, Skipped, UNCHANGED dialect
    PROVE  /\ decoder' \in Decoders /\ OutOK' /\ UNCHANGED <<chan, calls>> /\ cancelled
           /\ decoder'.then \in {"read", "complete"} =>
                 /\ decoder'.then = decoder.then
                 /\ \A kind \in {"text", "thought", "usage"} : Numbered(kind, decoder.out) = <<>> /\ Numbered(kind, decoder'.out) = <<>>
           /\ decoder.then \notin {"read", "complete"} => decoder'.then \notin {"read", "complete"}
           /\ \A kind \in {"text", "thought", "usage"} : Numbered(kind, decoder'.out) = <<>>
           /\ At("ending") => decoder'.then = decoder.then /\ decoder'.at \in {"ending", "closed"}
<1>1. PICK out : out = decoder.out
  OBVIOUS
<1>2. /\ out \in Seq(Item) /\ out # <<>> /\ decoder.then \in Nexts /\ decoder.flush \in BOOLEAN
      /\ decoder.at \in {"reading", "emitting", "ending", "closed"}
      /\ decoder = [at |-> decoder.at, out |-> out, then |-> decoder.then, flush |-> decoder.flush]
  BY <1>1 DEF DecoderTypes, Decoders, OutOK, HandOK
<1>3. /\ Tail(out) \in Seq(Item) /\ Len(out) \in Nat /\ Len(out) # 0 /\ Len(Tail(out)) = Len(out) - 1
      /\ \A i \in 1..(Len(out) - 1) : Tail(out)[i] = out[i + 1]
      /\ DOMAIN out = 1..Len(out)
  BY <1>2, HeadTailProperties, EmptySeq, LenProperties
<1>4. cancelled /\ UNCHANGED <<chan, calls>>
  BY DEF Skipped
<1>5. ASSUME NEW s \in Seq(Item), \A k \in DOMAIN s : s[k].kind \in {"error", "done", "call"}, NEW kind \in {"text", "thought", "usage"}
      PROVE  Numbered(kind, s) = <<>>
  BY <1>5, ItemsPrint, NumNone
<1>6. CASE At("ending") /\ Len(out) > 1
  <2>1. decoder' = [at |-> decoder.at, out |-> Tail(out), then |-> decoder.then, flush |-> decoder.flush]
    BY <1>1, <1>2, <1>6 DEF Skipped
  <2>2. PICK t : t = Tail(out)
    OBVIOUS
  <2>21. t \in Seq(Item) /\ Len(t) = Len(out) - 1
    BY <1>3, <2>2
  <2>22. PICK n : n = Len(out)
    OBVIOUS
  <2>23. n \in Nat /\ n > 1 /\ Len(t) = n - 1
    BY <1>3, <1>6, <2>21, <2>22
  <2>24. Len(t) # 0
    <3>1. \A i, m \in Nat : i > 1 /\ m = i - 1 => m # 0
      OBVIOUS
    <3>2. Len(t) \in Nat
      BY <2>21, LenProperties
    <3> QED
      BY <2>23, <3>1, <3>2
  <2>3. t \in Seq(Item) /\ Len(t) # 0 /\ Len(t) = Len(out) - 1
    BY <2>21, <2>24
  <2>4. t # <<>> /\ DOMAIN t = 1..(Len(out) - 1)
    BY <2>3, EmptySeq, LenProperties
  <2>5. /\ decoder.then # "read" /\ ~decoder.flush
        /\ \A k \in DOMAIN out : out[k].kind \in {"error", "done"}
    BY <1>1, <1>6 DEF OutOK, HandOK, At
  <2>6. \A k \in DOMAIN t : t[k].kind \in {"error", "done"}
    <3>1. \A k \in DOMAIN t : k + 1 \in DOMAIN out /\ t[k] = out[k + 1]
      BY <1>3, <2>2, <2>4
    <3> QED
      BY <2>5, <3>1
  <2>7. decoder' \in Decoders
    BY <1>2, <1>3, <2>1 DEF Decoders
  <2>8. OutOK'
    BY <1>6, <2>1, <2>2, <2>4, <2>5, <2>6 DEF OutOK, HandOK, At
  <2>9. \A kind \in {"text", "thought", "usage"} : Numbered(kind, out) = <<>> /\ Numbered(kind, t) = <<>>
    BY <1>2, <1>5, <2>3, <2>5, <2>6
  <2>10. decoder'.out = t /\ decoder'.then = decoder.then /\ decoder'.at = "ending"
    BY <1>6, <2>1, <2>2 DEF At
  <2> QED
    BY <1>1, <1>4, <2>7, <2>8, <2>9, <2>10
<1>7. CASE At("ending") /\ ~(Len(out) > 1)
  <2>1. decoder' = [at |-> "closed", out |-> <<>>, then |-> decoder.then, flush |-> decoder.flush]
    BY <1>1, <1>2, <1>7 DEF Skipped
  <2>2. /\ decoder.then # "read" /\ ~decoder.flush
        /\ \A k \in DOMAIN out : out[k].kind \in {"error", "done"}
    BY <1>1, <1>7 DEF OutOK, HandOK, At
  <2>3. decoder' \in Decoders
    BY <1>2, <2>1 DEF Decoders
  <2>4. OutOK'
    BY <2>1, <2>2 DEF OutOK, HandOK
  <2>5. \A kind \in {"text", "thought", "usage"} : Numbered(kind, out) = <<>> /\ Numbered(kind, <<>>) = <<>>
    BY <1>2, <1>5, <2>2, NumEmpty
  <2>6. decoder'.out = <<>> /\ decoder'.then = decoder.then /\ decoder'.at = "closed"
    BY <2>1
  <2> QED
    BY <1>1, <1>4, <2>3, <2>4, <2>5, <2>6
<1>8. CASE ~At("ending") /\ decoder.flush
  <2>1. decoder' = Then(decoder.then) /\ At("emitting")
    BY <1>8 DEF Skipped, At
  <2>2. \A k \in DOMAIN out : out[k].kind = "call"
    BY <1>1, <1>8, <2>1 DEF OutOK, HandOK, At
  <2>3. /\ decoder' \in Decoders /\ decoder'.then = decoder.then /\ HandOK(Then(decoder.then))
        /\ \A kind \in {"text", "thought", "usage"} : Numbered(kind, decoder'.out) = <<>>
    BY <1>2, <2>1, ThenFacts
  <2>4. OutOK'
    <3>1. HandOK(Then(decoder.then)) <=> HandOK(decoder)'
      BY <2>1 DEF HandOK, Reading
    <3> QED
      BY <2>3, <3>1 DEF OutOK
  <2>5. \A kind \in {"text", "thought", "usage"} : Numbered(kind, out) = <<>>
    BY <1>2, <1>5, <2>2
  <2> QED
    BY <1>1, <1>4, <1>8, <2>3, <2>4, <2>5
<1>9. CASE ~At("ending") /\ ~decoder.flush
  <2>1. decoder' = Ending("broken")
    BY <1>9 DEF Skipped
  <2>2. /\ decoder' \in Decoders /\ decoder'.then = "broken" /\ HandOK(Ending("broken"))
        /\ \A kind \in {"text", "thought", "usage"} : Numbered(kind, decoder'.out) = <<>>
    BY <2>1, EndingFacts DEF Failures
  <2>3. OutOK'
    <3>1. HandOK(Ending("broken")) <=> HandOK(decoder)'
      BY <2>1 DEF HandOK, Reading
    <3> QED
      BY <2>2, <3>1 DEF OutOK
  <2> QED
    BY <1>4, <1>9, <2>2, <2>3
<1> QED
  BY <1>6, <1>7, <1>8, <1>9

LEMMA EmitKeeps ==
    ASSUME WireTypes, DecoderTypes, OutOK, CallsCounted, PiecesOK, LineOK, Emit, Len(chan) <= EventBuffer, chan \in Seq(Item)
    PROVE  /\ WireTypes' /\ DecoderTypes' /\ OutOK' /\ CallsCounted' /\ PiecesOK' /\ LineOK'
           /\ line = NoEvent /\ heard' = sent /\ heard = sent /\ chan' \in Seq(Item) /\ Len(chan') <= EventBuffer
<1>1. decoder.at \in {"emitting", "ending"} /\ UNCHANGED <<protocol, wire, marked, usage, got, err, buf, screen, cancelled>>
  BY DEF Emit
<1>2. line = NoEvent /\ line' = NoEvent /\ heard = sent
  BY <1>1 DEF LineOK, At, wire, heard, NoEvent
<1>3. decoder' \in Decoders /\ OutOK' /\ (calls' = calls \/ calls' = <<>>) /\ (decoder'.then = "complete" => decoder.then = "complete")
      /\ chan' \in Seq(Item) /\ Len(chan') <= EventBuffer
  <2>1. CASE Sent1
    <3>1. Moved /\ (calls' = calls \/ calls' = <<>>)
      BY <1>1, <2>1, Sent1Facts DEF protocol
    <3>2. Len(chan) < EventBuffer /\ chan' = Append(chan, Head(decoder.out)) /\ Head(decoder.out) \in Item
      BY <2>1, <3>1 DEF Sent1, Moved
    <3>3. chan' \in Seq(Item) /\ Len(chan') = Len(chan) + 1 /\ Len(chan) \in Nat
      BY <3>2, AppendProperties, LenProperties
    <3>4. Len(chan') <= EventBuffer
      BY <3>2, <3>3, StreamAssumption
    <3> QED
      BY <3>1, <3>3, <3>4 DEF Moved
  <2>2. CASE Skipped
    BY <1>1, <2>2, SkippedFacts DEF protocol
  <2> QED
    BY <2>1, <2>2 DEF Emit
<1>4. (marked' => said = "whole") /\ (decoder'.then = "complete" => said = "whole")
  BY <1>1, <1>3 DEF LineOK
<1>5. UNCHANGED <<protocol, sent, said, cancelled>>
  BY <1>1 DEF wire
<1>6. WireTypes' /\ CallsCounted' /\ PiecesOK' /\ LineOK' /\ heard' = sent
  BY <1>2, <1>4, <1>5, LineEmptied
<1>7. DecoderTypes'
  <2>1. <<>> \in Seq(CallEntry) /\ calls \in Seq(CallEntry) /\ marked \in BOOLEAN /\ usage \in 0..MaxPieces
    BY DEF DecoderTypes
  <2>2. calls' \in Seq(CallEntry)
    BY <1>3, <2>1
  <2>3. marked' = marked /\ usage' = usage
    BY <1>1
  <2> QED
    BY <1>3, <2>1, <2>2, <2>3 DEF DecoderTypes
<1> QED
  BY <1>2, <1>3, <1>6, <1>7

LEMMA SayKeeps ==
    ASSUME WireTypes, DecoderTypes, OutOK, CallsCounted, PiecesOK, LineOK, Say
    PROVE  /\ WireTypes' /\ DecoderTypes' /\ OutOK' /\ CallsCounted' /\ PiecesOK' /\ LineOK' /\ heard' = heard
           /\ (said = "whole" => said' = "whole") /\ (said # "more" => said' # "more") /\ At("reading")
<1>1. UNCHANGED <<protocol, decoding, reading, screen, cancelled>>
  BY DEF Say
<1>2. PICK ev \in Event : SaidNow(ev)
  BY SayFacts
<1>3. decoder = Reading
  BY <1>2 DEF SaidNow, OutOK, HandOK, At
<1>4. WireTypes' /\ heard' = heard /\ CallsCounted' /\ PiecesOK' /\ LineOK'
  BY <1>1, <1>2, <1>3, SaidWire
<1>5. DecoderTypes' /\ OutOK'
  BY <1>1 DEF DecoderTypes, OutOK, HandOK, decoding, protocol, Reading
<1>6. (said = "whole" => said' = "whole") /\ (said # "more" => said' # "more") /\ At("reading")
  BY <1>2 DEF SaidNow, WireTypes
<1> QED
  BY <1>4, <1>5, <1>6

LEMMA AsideKeeps ==
    ASSUME WireTypes, DecoderTypes, OutOK, CallsCounted, PiecesOK, LineOK, UNCHANGED <<protocol, wire, decoding>>, cancelled' \in BOOLEAN
    PROVE  WireTypes' /\ DecoderTypes' /\ OutOK' /\ CallsCounted' /\ PiecesOK' /\ LineOK' /\ heard' = heard
<1>1. heard' = heard
  BY DEF heard, wire
<1>2. WireTypes' /\ DecoderTypes' /\ OutOK' /\ PiecesOK'
  BY DEF WireTypes, DecoderTypes, OutOK, HandOK, PiecesOK, protocol, wire, decoding, Reading
<1>3. CallsCounted'
  BY <1>1 DEF CallsCounted
<1>4. LineOK'
  <2>1. CallCount(heard)' = CallCount(heard)
    BY <1>1 DEF CallCount, CallsIn
  <2> QED
    BY <2>1 DEF LineOK, protocol, wire, decoding, Known, At
<1> QED
  BY <1>1, <1>2, <1>3, <1>4

-----------------------------------------------------------------------------
(* What the reader takes from the channel, and what it makes of it.          *)
TextKinds == {"text", "thought"}
LEMMA JoinThree ==
    ASSUME NEW S, NEW a \in Seq(S), NEW b \in Seq(S), NEW c \in Seq(S)
    PROVE  (a \o b) \o c = a \o (b \o c) /\ a \o <<>> = a /\ <<>> \o a = a /\ a \o b \in Seq(S)
<1>1. (a \o b) \o c = a \o (b \o c)
  BY ConcatAssociative
<1> QED
  BY <1>1, ConcatEmptySeq, ConcatProperties

LEMMA JoinPayload ==
    ASSUME NEW a \in Seq(Payload), NEW b \in Seq(Payload), NEW c \in Seq(Payload)
    PROVE  (a \o b) \o c = a \o (b \o c)
  BY JoinThree

LEMMA ReadTypes ==
    ASSUME ReaderTypes, DecoderTypes
    PROVE  /\ \A kind : /\ ReadOf(kind) \in Text /\ Numbered(kind, chan) \in Text /\ Numbered(kind, decoder.out) \in Text
                        /\ ReadOf(kind) \o Numbered(kind, chan) \in Text /\ Seen(kind) \in Text
           /\ live.text \in Text /\ live.thoughts \in Text /\ buf.text \in Text /\ buf.thoughts \in Text /\ got \in Text
           /\ live.usage \in Nat /\ buf.usage \in Nat /\ UsageRead \in Nat
           /\ live = [text |-> live.text, thoughts |-> live.thoughts, usage |-> live.usage]
           /\ buf = [text |-> buf.text, thoughts |-> buf.thoughts, usage |-> buf.usage, done |-> buf.done, verdict |-> buf.verdict]
<1>1. /\ live.text \in Text /\ live.thoughts \in Text /\ buf.text \in Text /\ buf.thoughts \in Text /\ got \in Text
      /\ live.usage \in Nat /\ buf.usage \in Nat
      /\ live = [text |-> live.text, thoughts |-> live.thoughts, usage |-> live.usage]
      /\ buf = [text |-> buf.text, thoughts |-> buf.thoughts, usage |-> buf.usage, done |-> buf.done, verdict |-> buf.verdict]
  BY DEF ReaderTypes
<1>2. live.text \o buf.text \in Text /\ live.thoughts \o buf.thoughts \in Text
  BY <1>1, ConcatProperties DEF Text
<1>3. ASSUME NEW kind
      PROVE  /\ ReadOf(kind) \in Text /\ Numbered(kind, chan) \in Text /\ Numbered(kind, decoder.out) \in Text
             /\ ReadOf(kind) \o Numbered(kind, chan) \in Text /\ Seen(kind) \in Text
  <2>1. ReadOf(kind) \in Text
    BY <1>2 DEF ReadOf
  <2>2. chan \in Seq(Printable) /\ decoder.out \in Seq(Printable)
    BY ItemsPrint DEF ReaderTypes, DecoderTypes, Decoders
  <2>3. Numbered(kind, chan) \in Text /\ Numbered(kind, decoder.out) \in Text
    BY <2>2, NumJoin DEF Text
  <2>4. ReadOf(kind) \o Numbered(kind, chan) \in Text
    BY <2>1, <2>3, ConcatProperties DEF Text
  <2>5. Seen(kind) \in Text
    BY <2>3, <2>4, ConcatProperties DEF Text, Seen
  <2> QED
    BY <2>1, <2>3, <2>4, <2>5
<1>4. UsageRead \in Nat
  BY <1>1 DEF UsageRead
<1> QED
  BY <1>1, <1>3, <1>4

Aside == UNCHANGED <<protocol, wire, decoding, cancelled>>
Took ==
    /\ chan # <<>> /\ chan' = Tail(chan) /\ Head(chan) \in Item /\ ReaderTypes' /\ Aside
    /\ \A kind \in TextKinds : ReadOf(kind)' = ReadOf(kind) \o NumOf(kind, Head(chan))
    /\ UsageRead' = IF Head(chan).kind = "usage" THEN Head(chan).n ELSE UsageRead
    /\ got' = got \o NumOf("call", Head(chan))
    /\ err' = IF Head(chan).kind = "error" /\ err = "none" THEN Head(chan).n ELSE err
    /\ buf'.done = buf.done /\ buf'.verdict = buf.verdict /\ UNCHANGED answer

LEMMA TakesItem ==
    ASSUME ReaderTypes, chan # <<>>, chan' = Tail(chan), NEW e, e = Head(chan),
           got' = IF e.kind = "call" THEN Append(got, e.n) ELSE got,
           err' = IF e.kind = "error" /\ err = "none" THEN e.n ELSE err
    PROVE  /\ e \in Item /\ e.n \in Payload /\ (e.kind = "usage" => e.n \in Nat \ {0})
           /\ chan' \in Seq(Item) /\ Len(chan') <= EventBuffer
           /\ got' = got \o NumOf("call", e) /\ got' \in Text /\ err' \in {"none"} \cup Failures
<1>1. chan \in Seq(Item) /\ Len(chan) <= EventBuffer /\ got \in Text /\ err \in {"none"} \cup Failures
  BY DEF ReaderTypes
<1>2. e \in Item /\ chan' \in Seq(Item) /\ Len(chan') = Len(chan) - 1 /\ Len(chan) \in Nat
  BY <1>1, HeadTailProperties, LenProperties
<1>3. Len(chan') <= EventBuffer
  BY <1>1, <1>2, StreamAssumption
<1>4. e.n \in Payload /\ (e.kind = "usage" => e.n \in Nat \ {0}) /\ (e.kind = "error" => e.n \in Failures)
  BY <1>2 DEF Item
<1>5. got' = got \o NumOf("call", e) /\ got' \in Text
  <2>1. CASE e.kind = "call"
    <3>1. got' = Append(got, e.n) /\ got' = got \o <<e.n>>
      BY <1>1, <1>4, <2>1, AppendIsConcat DEF Text
    <3> QED
      BY <1>1, <1>4, <2>1, <3>1, AppendProperties DEF Text, NumOf
  <2>2. CASE e.kind # "call"
    BY <1>1, <2>2, ConcatEmptySeq DEF Text, NumOf
  <2> QED
    BY <2>1, <2>2
<1> QED
  BY <1>1, <1>2, <1>3, <1>4, <1>5

LEMMA ReceiveTakes == ASSUME ReaderTypes, DecoderTypes, Receive PROVE Took
<1>1. PICK e : e = Head(chan)
  OBVIOUS
<1>2. /\ chan # <<>> /\ chan' = Tail(chan) /\ UNCHANGED <<protocol, wire, decoding, screen, cancelled>>
      /\ buf' = CASE e.kind = "text" -> [buf EXCEPT !.text = Append(@, e.n)]
                  [] e.kind = "thought" -> [buf EXCEPT !.thoughts = Append(@, e.n)]
                  [] e.kind = "usage" -> [buf EXCEPT !.usage = e.n]
                  [] OTHER -> buf
      /\ got' = IF e.kind = "call" THEN Append(got, e.n) ELSE got
      /\ err' = IF e.kind = "error" /\ err = "none" THEN e.n ELSE err
  BY <1>1 DEF Receive
<1>3. /\ e \in Item /\ e.n \in Payload /\ (e.kind = "usage" => e.n \in Nat \ {0})
      /\ chan' \in Seq(Item) /\ Len(chan') <= EventBuffer
      /\ got' = got \o NumOf("call", e) /\ got' \in Text /\ err' \in {"none"} \cup Failures
  BY <1>1, <1>2, TakesItem
<1>4. /\ live.text \in Text /\ live.thoughts \in Text /\ buf.text \in Text /\ buf.thoughts \in Text
      /\ live.usage \in Nat /\ buf.usage \in Nat
      /\ buf = [text |-> buf.text, thoughts |-> buf.thoughts, usage |-> buf.usage, done |-> buf.done, verdict |-> buf.verdict]
      /\ buf.done \in BOOLEAN /\ buf.verdict \in Answers
  BY ReadTypes DEF ReaderTypes
<1>5. live' = live /\ answer' = answer
  BY <1>2 DEF screen
<1>6. buf' = [text |-> IF e.kind = "text" THEN Append(buf.text, e.n) ELSE buf.text,
              thoughts |-> IF e.kind = "thought" THEN Append(buf.thoughts, e.n) ELSE buf.thoughts,
              usage |-> IF e.kind = "usage" THEN e.n ELSE buf.usage, done |-> buf.done, verdict |-> buf.verdict]
  <2>1. CASE e.kind = "text"
    BY <1>2, <1>4, <2>1
  <2>2. CASE e.kind = "thought"
    BY <1>2, <1>4, <2>2
  <2>3. CASE e.kind = "usage"
    BY <1>2, <1>4, <2>3
  <2>4. CASE e.kind \notin {"text", "thought", "usage"}
    BY <1>2, <1>4, <2>4
  <2> QED
    BY <2>1, <2>2, <2>3, <2>4
<1>7. Append(buf.text, e.n) \in Text /\ Append(buf.thoughts, e.n) \in Text
  BY <1>3, <1>4, AppendProperties DEF Text
<1>8. ReaderTypes'
  <2>1. buf' \in [text : Text, thoughts : Text, usage : Nat, done : BOOLEAN, verdict : Answers]
    BY <1>3, <1>4, <1>6, <1>7
  <2> QED
    BY <1>3, <1>5, <2>1 DEF ReaderTypes
<1>9. ReadOf("text")' = ReadOf("text") \o NumOf("text", e)
  <2>0. live.text \in Seq(Payload) /\ buf.text \in Seq(Payload) /\ e.n \in Payload
    BY <1>3, <1>4 DEF Text
  <2>1. live.text \o Append(buf.text, e.n) = (live.text \o buf.text) \o <<e.n>>
    <3>1. PICK a, b, n : a = live.text /\ b = buf.text /\ n = e.n
      OBVIOUS
    <3>2. a \in Seq(Payload) /\ b \in Seq(Payload) /\ n \in Payload
      BY <2>0, <3>1
    <3>3. PICK c : c = <<n>>
      OBVIOUS
    <3>4. c \in Seq(Payload) /\ Append(b, n) = b \o c
      BY <3>2, <3>3, AppendIsConcat
    <3>5. a \o (b \o c) = (a \o b) \o c
      BY <3>2, <3>4, JoinPayload
    <3> QED
      BY <3>1, <3>3, <3>4, <3>5
  <2>2. (live.text \o buf.text) \o <<>> = live.text \o buf.text
    BY <1>4, ConcatEmptySeq, ConcatProperties DEF Text
  <2> QED
    BY <1>5, <1>6, <2>1, <2>2 DEF ReadOf, NumOf
<1>10. ReadOf("thought")' = ReadOf("thought") \o NumOf("thought", e)
  <2>0. live.thoughts \in Seq(Payload) /\ buf.thoughts \in Seq(Payload) /\ e.n \in Payload
    BY <1>3, <1>4 DEF Text
  <2>1. live.thoughts \o Append(buf.thoughts, e.n) = (live.thoughts \o buf.thoughts) \o <<e.n>>
    <3>1. PICK a, b, n : a = live.thoughts /\ b = buf.thoughts /\ n = e.n
      OBVIOUS
    <3>2. a \in Seq(Payload) /\ b \in Seq(Payload) /\ n \in Payload
      BY <2>0, <3>1
    <3>3. PICK c : c = <<n>>
      OBVIOUS
    <3>4. c \in Seq(Payload) /\ Append(b, n) = b \o c
      BY <3>2, <3>3, AppendIsConcat
    <3>5. a \o (b \o c) = (a \o b) \o c
      BY <3>2, <3>4, JoinPayload
    <3> QED
      BY <3>1, <3>3, <3>4, <3>5
  <2>2. (live.thoughts \o buf.thoughts) \o <<>> = live.thoughts \o buf.thoughts
    BY <1>4, ConcatEmptySeq, ConcatProperties DEF Text
  <2> QED
    BY <1>5, <1>6, <2>1, <2>2 DEF ReadOf, NumOf
<1>11. UsageRead' = IF e.kind = "usage" THEN e.n ELSE UsageRead
  BY <1>3, <1>5, <1>6 DEF UsageRead
<1>12. \A kind \in TextKinds : ReadOf(kind)' = ReadOf(kind) \o NumOf(kind, e)
  BY <1>9, <1>10 DEF TextKinds
<1>13. buf'.done = buf.done /\ buf'.verdict = buf.verdict
  BY <1>6
<1> QED
  BY <1>1, <1>2, <1>3, <1>5, <1>8, <1>11, <1>12, <1>13 DEF Took, Aside

LEMMA LineTakes == ASSUME ReaderTypes, DecoderTypes, ReceiveLine, buf = EmptyBuf PROVE Took
<1>1. PICK e : e = Head(chan)
  OBVIOUS
<1>2. /\ chan # <<>> /\ chan' = Tail(chan) /\ UNCHANGED <<protocol, wire, decoding, buf, answer, cancelled>>
      /\ live' = CASE e.kind = "text" -> [live EXCEPT !.text = Append(@, e.n)]
                   [] e.kind = "thought" -> [live EXCEPT !.thoughts = Append(@, e.n)]
                   [] e.kind = "usage" -> [live EXCEPT !.usage = e.n]
                   [] OTHER -> live
      /\ got' = IF e.kind = "call" THEN Append(got, e.n) ELSE got
      /\ err' = IF e.kind = "error" /\ err = "none" THEN e.n ELSE err
  BY <1>1 DEF ReceiveLine
<1>3. /\ e \in Item /\ e.n \in Payload /\ (e.kind = "usage" => e.n \in Nat \ {0})
      /\ chan' \in Seq(Item) /\ Len(chan') <= EventBuffer
      /\ got' = got \o NumOf("call", e) /\ got' \in Text /\ err' \in {"none"} \cup Failures
  BY <1>1, <1>2, TakesItem
<1>4. /\ live.text \in Text /\ live.thoughts \in Text /\ live.usage \in Nat
      /\ live = [text |-> live.text, thoughts |-> live.thoughts, usage |-> live.usage]
  BY ReadTypes
<1>5. buf' = EmptyBuf /\ answer' = answer /\ EmptyBuf.text = <<>> /\ EmptyBuf.thoughts = <<>> /\ EmptyBuf.usage = 0
  BY <1>2 DEF EmptyBuf
<1>6. live' = [text |-> IF e.kind = "text" THEN Append(live.text, e.n) ELSE live.text,
               thoughts |-> IF e.kind = "thought" THEN Append(live.thoughts, e.n) ELSE live.thoughts,
               usage |-> IF e.kind = "usage" THEN e.n ELSE live.usage]
  <2>1. CASE e.kind = "text"
    BY <1>2, <1>4, <2>1
  <2>2. CASE e.kind = "thought"
    BY <1>2, <1>4, <2>2
  <2>3. CASE e.kind = "usage"
    BY <1>2, <1>4, <2>3
  <2>4. CASE e.kind \notin {"text", "thought", "usage"}
    BY <1>2, <1>4, <2>4
  <2> QED
    BY <2>1, <2>2, <2>3, <2>4
<1>7. Append(live.text, e.n) \in Text /\ Append(live.thoughts, e.n) \in Text
  BY <1>3, <1>4, AppendProperties DEF Text
<1>8. ReaderTypes'
  <2>1. live' \in [text : Text, thoughts : Text, usage : Nat]
    BY <1>3, <1>4, <1>6, <1>7
  <2> QED
    BY <1>2, <1>3, <2>1 DEF ReaderTypes
<1>9. /\ Append(live.text, e.n) \o <<>> = (live.text \o <<>>) \o <<e.n>> /\ live.text \o <<>> = live.text
      /\ Append(live.thoughts, e.n) \o <<>> = (live.thoughts \o <<>>) \o <<e.n>> /\ live.thoughts \o <<>> = live.thoughts
  <2>1. live.text \o <<>> = live.text /\ live.thoughts \o <<>> = live.thoughts
    BY <1>4, ConcatEmptySeq DEF Text
  <2>2. Append(live.text, e.n) \o <<>> = Append(live.text, e.n) /\ Append(live.thoughts, e.n) \o <<>> = Append(live.thoughts, e.n)
    BY <1>7, ConcatEmptySeq DEF Text
  <2>3. Append(live.text, e.n) = live.text \o <<e.n>> /\ Append(live.thoughts, e.n) = live.thoughts \o <<e.n>>
    BY <1>3, <1>4, AppendIsConcat DEF Text
  <2> QED
    BY <2>1, <2>2, <2>3
<1>10. ReadOf("text")' = ReadOf("text") \o NumOf("text", e)
  BY <1>5, <1>6, <1>9 DEF ReadOf, NumOf
<1>11. ReadOf("thought")' = ReadOf("thought") \o NumOf("thought", e)
  BY <1>5, <1>6, <1>9 DEF ReadOf, NumOf
<1>12. UsageRead' = IF e.kind = "usage" THEN e.n ELSE UsageRead
  BY <1>5, <1>6 DEF UsageRead
<1>13. \A kind \in TextKinds : ReadOf(kind)' = ReadOf(kind) \o NumOf(kind, e)
  BY <1>10, <1>11 DEF TextKinds
<1>14. buf'.done = buf.done /\ buf'.verdict = buf.verdict
  BY <1>2
<1> QED
  BY <1>1, <1>2, <1>3, <1>8, <1>12, <1>13, <1>14 DEF Took, Aside

(* The verdict, and what is shown of it.                                     *)
Settled ==
    /\ ReaderTypes' /\ Aside /\ UNCHANGED <<chan, got, err>>
    /\ \A kind \in TextKinds : ReadOf(kind)' = ReadOf(kind)
    /\ UsageRead' = UsageRead /\ (Sound' => Sound)

LEMMA VerdictIs ==
    ASSUME ReaderTypes
    PROVE  Verdict \in Answers /\ Verdict # "none" /\ (Verdict = "cancelled" => cancelled) /\ (cancelled => Verdict = "cancelled")
BY DEF Verdict, ReaderTypes, Answers, Failures

LEMMA EndedWell ==
    ASSUME ReaderTypes, OutOK, ErrorTold, At("closed"), chan = <<>>, Verdict = "complete"
    PROVE  decoder.then = "complete" /\ ~cancelled
<1>1. ~cancelled /\ err = "none"
  BY DEF Verdict, ReaderTypes, Failures
<1>2. decoder.out = <<>> /\ decoder.at = "closed"
  BY DEF OutOK, HandOK, At
<1>3. ~HasError(chan) /\ ~HasError(decoder.out)
  BY <1>2 DEF HasError
<1> QED
  BY <1>1, <1>2, <1>3 DEF ErrorTold

LEMMA FinishSettles ==
    ASSUME ReaderTypes, DecoderTypes, OutOK, ErrorTold, EndOK, Finish
    PROVE  Settled /\ EndOK'
<1>1. /\ At("closed") /\ chan = <<>> /\ ~buf.done
      /\ UNCHANGED <<protocol, wire, decoding, chan, got, err, screen, cancelled>>
      /\ buf' = [buf EXCEPT !.done = TRUE, !.verdict = Verdict]
  BY DEF Finish
<1>2. /\ live' = live /\ answer' = answer /\ decoder' = decoder
  BY <1>1 DEF screen, decoding
<1>3. /\ buf.text \in Text /\ buf.thoughts \in Text /\ buf.usage \in Nat
      /\ buf = [text |-> buf.text, thoughts |-> buf.thoughts, usage |-> buf.usage, done |-> buf.done, verdict |-> buf.verdict]
  BY ReadTypes
<1>4. buf' = [text |-> buf.text, thoughts |-> buf.thoughts, usage |-> buf.usage, done |-> TRUE, verdict |-> Verdict]
  BY <1>1, <1>3
<1>5. Verdict \in Answers
  BY VerdictIs
<1>6. ReaderTypes'
  <2>1. buf' \in [text : Text, thoughts : Text, usage : Nat, done : BOOLEAN, verdict : Answers]
    BY <1>3, <1>4, <1>5
  <2> QED
    BY <1>1, <1>2, <2>1 DEF ReaderTypes
<1>7. Verdict = "complete" => decoder.then = "complete" /\ ~cancelled
  BY <1>1, EndedWell
<1>8. (\A kind \in TextKinds : ReadOf(kind)' = ReadOf(kind)) /\ UsageRead' = UsageRead
  BY <1>2, <1>4 DEF ReadOf, UsageRead
<1>9. Sound' => Sound
  BY <1>1, <1>2, <1>4, <1>7 DEF Sound
<1>10. EndOK'
  BY <1>1, <1>2, <1>4, <1>7, VerdictIs DEF EndOK, At
<1> QED
  BY <1>1, <1>6, <1>8, <1>9, <1>10 DEF Settled, Aside

LEMMA DrainSettles ==
    ASSUME ReaderTypes, DecoderTypes, EndOK, Drain
    PROVE  Settled /\ EndOK'
<1>1. /\ answer = "none" /\ UNCHANGED <<protocol, wire, decoding, chan, got, err, cancelled>>
      /\ live' = [text |-> live.text \o buf.text, thoughts |-> live.thoughts \o buf.thoughts,
                  usage |-> IF buf.usage # 0 THEN buf.usage ELSE live.usage]
      /\ buf' = [buf EXCEPT !.text = <<>>, !.thoughts = <<>>]
      /\ answer' = IF buf.done THEN buf.verdict ELSE "none"
  BY DEF Drain
<1>2. /\ live.text \o buf.text \in Text /\ live.thoughts \o buf.thoughts \in Text
      /\ live.usage \in Nat /\ buf.usage \in Nat
      /\ buf = [text |-> buf.text, thoughts |-> buf.thoughts, usage |-> buf.usage, done |-> buf.done, verdict |-> buf.verdict]
      /\ buf.done \in BOOLEAN /\ buf.verdict \in Answers
  <2>1. live.text \in Text /\ buf.text \in Text /\ live.thoughts \in Text /\ buf.thoughts \in Text
    BY ReadTypes
  <2> QED
    BY <2>1, ReadTypes, ConcatProperties DEF Text, ReaderTypes
<1>3. buf' = [text |-> <<>>, thoughts |-> <<>>, usage |-> buf.usage, done |-> buf.done, verdict |-> buf.verdict]
  BY <1>1, <1>2
<1>4. ReaderTypes'
  <2>1. live' \in [text : Text, thoughts : Text, usage : Nat]
    BY <1>1, <1>2
  <2>2. <<>> \in Text
    BY DEF Text
  <2>3. buf' \in [text : Text, thoughts : Text, usage : Nat, done : BOOLEAN, verdict : Answers]
    BY <1>2, <1>3, <2>2
  <2>4. answer' \in Answers
    BY <1>1, <1>2 DEF Answers
  <2> QED
    BY <1>1, <2>1, <2>3, <2>4 DEF ReaderTypes
<1>5. (live.text \o buf.text) \o <<>> = live.text \o buf.text /\ (live.thoughts \o buf.thoughts) \o <<>> = live.thoughts \o buf.thoughts
  BY <1>2, ConcatEmptySeq DEF Text
<1>6. \A kind \in TextKinds : ReadOf(kind)' = ReadOf(kind)
  BY <1>1, <1>3, <1>5 DEF ReadOf, TextKinds
<1>7. UsageRead' = UsageRead
  BY <1>1, <1>2, <1>3 DEF UsageRead
<1>8. Sound' => Sound
  BY <1>1, <1>3 DEF Sound
<1>9. EndOK'
  BY <1>1, <1>3 DEF EndOK, At, decoding
<1> QED
  BY <1>1, <1>4, <1>6, <1>7, <1>8, <1>9 DEF Settled, Aside

LEMMA TurnSettles ==
    ASSUME ReaderTypes, DecoderTypes, OutOK, ErrorTold, EndOK, AgentTurn, NothingRead
    PROVE  Settled /\ EndOK'
<1>1. /\ At("closed") /\ chan = <<>> /\ UNCHANGED <<protocol, wire, decoding, chan, got, err, cancelled>>
      /\ live' = [text |-> buf.text, thoughts |-> buf.thoughts, usage |-> buf.usage]
      /\ buf' = EmptyBuf /\ answer' = Verdict
  BY DEF AgentTurn
<1>2. live.text = <<>> /\ live.thoughts = <<>> /\ live.usage = 0
  BY DEF NothingRead
<1>3. buf.text \in Text /\ buf.thoughts \in Text /\ buf.usage \in Nat
  BY ReadTypes
<1>4. buf' = [text |-> <<>>, thoughts |-> <<>>, usage |-> 0, done |-> FALSE, verdict |-> "none"]
  BY <1>1 DEF EmptyBuf
<1>5. ReaderTypes'
  <2>1. live' \in [text : Text, thoughts : Text, usage : Nat]
    BY <1>1, <1>3
  <2>2. <<>> \in Text /\ "none" \in Answers
    BY DEF Text, Answers
  <2>3. buf' \in [text : Text, thoughts : Text, usage : Nat, done : BOOLEAN, verdict : Answers]
    BY <1>4, <2>2
  <2> QED
    BY <1>1, <2>1, <2>3, VerdictIs DEF ReaderTypes
<1>6. <<>> \o buf.text = buf.text \o <<>> /\ <<>> \o buf.thoughts = buf.thoughts \o <<>>
  BY <1>3, ConcatEmptySeq DEF Text
<1>7. \A kind \in TextKinds : ReadOf(kind)' = ReadOf(kind)
  BY <1>1, <1>2, <1>4, <1>6 DEF ReadOf, TextKinds
<1>8. UsageRead' = UsageRead
  BY <1>1, <1>2, <1>3, <1>4 DEF UsageRead
<1>9. Verdict = "complete" => decoder.then = "complete" /\ ~cancelled
  BY <1>1, EndedWell
<1>10. Sound' => Sound
  BY <1>1, <1>4, <1>9 DEF Sound
<1>11. EndOK'
  BY <1>1, <1>4, <1>9, VerdictIs DEF EndOK, At, decoding
<1> QED
  BY <1>1, <1>5, <1>7, <1>8, <1>10, <1>11 DEF Settled, Aside

\* A turn that ends where nothing is in the buffer.
LEMMA AnswerSettles ==
    ASSUME ReaderTypes, EndOK, buf = EmptyBuf, answer' \in Answers, UNCHANGED <<protocol, wire, decoding, reading, live, cancelled>>,
           answer' = "cancelled" => cancelled,
           answer' = "complete" => At("closed") /\ chan = <<>> /\ decoder.then = "complete" /\ ~cancelled
    PROVE  Settled /\ EndOK'
<1>1. chan' = chan /\ got' = got /\ err' = err /\ buf' = buf /\ live' = live /\ cancelled' = cancelled /\ decoder' = decoder
  BY DEF reading, decoding
<1>2. buf.text = <<>> /\ buf.thoughts = <<>> /\ buf.usage = 0 /\ buf.done = FALSE /\ buf.verdict = "none"
  BY DEF EmptyBuf
<1>3. ReaderTypes'
  BY <1>1 DEF ReaderTypes
<1>4. (\A kind \in TextKinds : ReadOf(kind)' = ReadOf(kind)) /\ UsageRead' = UsageRead
  BY <1>1 DEF ReadOf, UsageRead
<1>5. Sound' => Sound
  BY <1>1, <1>2 DEF Sound
<1>6. EndOK'
  BY <1>1, <1>2 DEF EndOK, At
<1> QED
  BY <1>1, <1>3, <1>4, <1>5, <1>6 DEF Settled, Aside

LEMMA EndLineSettles ==
    ASSUME ReaderTypes, DecoderTypes, OutOK, ErrorTold, EndOK, EndLine, buf = EmptyBuf
    PROVE  Settled /\ EndOK'
<1>1. /\ At("closed") /\ chan = <<>> /\ answer' = Verdict /\ UNCHANGED <<protocol, wire, decoding, reading, live, cancelled>>
  BY DEF EndLine
<1>2. Verdict = "complete" => decoder.then = "complete" /\ ~cancelled
  BY <1>1, EndedWell
<1> QED
  BY <1>1, <1>2, VerdictIs, AnswerSettles

LEMMA RequestSettles ==
    ASSUME ReaderTypes, EndOK, buf = EmptyBuf, answer = "none", Connect \/ Wait
    PROVE  Settled /\ EndOK'
<1>1. /\ UNCHANGED <<protocol, wire, decoding, reading, live, cancelled>>
      /\ answer' \in {"none", "error", "cancelled"} /\ (answer' = "cancelled" => cancelled)
  BY DEF Connect, Wait
<1> QED
  BY <1>1, AnswerSettles DEF Answers, Failures

(* An error that ended the answer is on its way to the verdict.              *)
LEMMA ErrorJoined ==
    ASSUME NEW s \in Seq(Item), NEW e \in Item
    PROVE  HasError(Append(s, e)) <=> HasError(s) \/ e.kind = "error"
<1>1. PICK t, n : t = Append(s, e) /\ n = Len(s)
  OBVIOUS
<1>2. /\ n \in Nat /\ DOMAIN s = 1..n /\ DOMAIN t = 1..(n + 1)
      /\ \A i \in 1..n : t[i] = s[i]
      /\ t[n + 1] = e
  BY <1>1, LenProperties, AppendProperties
<1>3. ASSUME NEW k \in 1..(n + 1), t[k].kind = "error" PROVE (\E i \in 1..n : s[i].kind = "error") \/ e.kind = "error"
  <2>1. k = n + 1 \/ k \in 1..n
    BY <1>2
  <2> QED
    BY <1>2, <1>3, <2>1
<1>4. \A i \in 1..n : i \in 1..(n + 1)
  BY <1>2
<1>5. n + 1 \in 1..(n + 1)
  BY <1>2
<1> QED
  BY <1>1, <1>2, <1>3, <1>4, <1>5 DEF HasError

LEMMA ErrorTaken ==
    ASSUME NEW s \in Seq(Item), s # <<>>
    PROVE  HasError(s) => Head(s).kind = "error" \/ HasError(Tail(s))
<1>1. PICK t, n : t = Tail(s) /\ n = Len(s)
  OBVIOUS
<1>2. /\ n \in Nat /\ n # 0 /\ DOMAIN s = 1..n /\ DOMAIN t = 1..(n - 1) /\ Head(s) = s[1]
      /\ \A i \in 1..(n - 1) : t[i] = s[i + 1]
  BY <1>1, LenProperties, HeadTailProperties, EmptySeq
<1>3. ASSUME NEW k \in 1..n, s[k].kind = "error", k # 1 PROVE HasError(t)
  <2>1. k - 1 \in 1..(n - 1) /\ (k - 1) + 1 = k
    BY <1>2, <1>3
  <2> QED
    BY <1>2, <1>3, <2>1 DEF HasError
<1> QED
  BY <1>1, <1>2, <1>3 DEF HasError

\* The steps of the decoder do not touch what was read.
LEMMA DecoderSteps ==
    ASSUME ReaderTypes, DecoderTypes, WireTypes, OutOK, LineOK, ErrorTold, EndOK, Say \/ Dispatch \/ BodyEnds \/ Emit
    PROVE  ErrorTold' /\ EndOK'
<1>1. UNCHANGED <<protocol, got, err, buf, screen, cancelled>>
  BY DEF Say, Dispatch, BodyEnds, Emit, reading
<1>2. ~At("closed")
  BY DEF Say, Dispatch, BodyEnds, Emit, At
<1>3. EndOK'
  BY <1>1, <1>2 DEF EndOK, screen
<1>4. CASE Say
  <2>1. decoder' = decoder /\ At("reading")
    BY <1>4 DEF Say, decoding
  <2> QED
    BY <1>3, <2>1 DEF ErrorTold, At
<1>5. CASE Dispatch \/ BodyEnds
  <2>1. PICK items, next, flushing : Fits(items, next, flushing) /\ Handed(items, next, flushing)
    BY <1>5, DispatchIs, BodyEndsIs
  <2>2. /\ decoder'.then = next /\ decoder'.at \in {"reading", "emitting", "ending"}
        /\ decoder'.at = "ending" => (next # "complete" /\ ~cancelled => HasError(decoder'.out))
    BY <1>1, <2>1, HandedFacts DEF protocol
  <2>3. HasError(decoder'.out) <=> HasError(decoder.out)'
    BY DEF HasError
  <2> QED
    BY <1>1, <1>3, <2>2, <2>3 DEF ErrorTold
<1>6. CASE Emit /\ Skipped
  BY <1>1, <1>3, <1>6 DEF ErrorTold, Skipped
<1>7. CASE Emit /\ Sent1
  <2>1. decoder.at \in {"emitting", "ending"} /\ dialect' = dialect
    BY <1>1, <1>7 DEF Emit, protocol
  <2>2. /\ Moved /\ (At("ending") => decoder'.at \in {"ending", "closed"})
        /\ decoder'.at = "closed" => decoder'.out = <<>> /\ At("ending")
        /\ decoder'.at \in {"ending", "closed"} /\ ~At("ending") /\ decoder.then # "complete" /\ ~cancelled => HasError(decoder'.out)
        /\ At("ending") /\ HasError(decoder.out) => Head(decoder.out).kind = "error" \/ HasError(decoder'.out)
    BY <1>7, <2>1, Sent1Facts
  <2>3. decoder'.then = decoder.then /\ chan' = Append(chan, Head(decoder.out)) /\ Head(decoder.out) \in Item /\ chan \in Seq(Item)
    BY <2>2 DEF Moved, ReaderTypes
  <2>4. HasError(chan') <=> HasError(chan) \/ Head(decoder.out).kind = "error"
    BY <2>3, ErrorJoined
  <2>5. (HasError(decoder'.out) <=> HasError(decoder.out)') /\ (HasError(chan') <=> HasError(chan)')
    BY DEF HasError
  <2>6. ErrorTold'
    <3> SUFFICES ASSUME ~cancelled, decoder'.at \in {"ending", "closed"}, decoder.then # "complete"
                 PROVE  err # "none" \/ HasError(chan') \/ HasError(decoder'.out)
      BY <1>1, <2>3, <2>5 DEF ErrorTold
    <3>1. CASE At("ending")
      <4>1. err # "none" \/ HasError(chan) \/ HasError(decoder.out)
        BY <3>1 DEF ErrorTold, At
      <4> QED
        BY <2>2, <2>4, <3>1, <4>1
    <3>2. CASE ~At("ending")
      BY <2>2, <3>2
    <3> QED
      BY <3>1, <3>2
  <2> QED
    BY <1>3, <2>6
<1> QED
  BY <1>4, <1>5, <1>6, <1>7 DEF Emit

LEMMA TookEnds ==
    ASSUME ReaderTypes, ErrorTold, EndOK, Took
    PROVE  ErrorTold' /\ EndOK'
<1>1. /\ chan # <<>> /\ chan' = Tail(chan) /\ chan \in Seq(Item) /\ Head(chan) \in Item
      /\ decoder' = decoder /\ cancelled' = cancelled
      /\ err' = IF Head(chan).kind = "error" /\ err = "none" THEN Head(chan).n ELSE err
      /\ buf'.done = buf.done /\ buf'.verdict = buf.verdict /\ answer' = answer
  BY DEF Took, Aside, decoding, ReaderTypes
<1>2. HasError(chan) => Head(chan).kind = "error" \/ HasError(Tail(chan))
  BY <1>1, ErrorTaken
<1>3. Head(chan).kind = "error" => Head(chan).n # "none"
  BY <1>1 DEF Item, Failures
<1>4. (HasError(Tail(chan)) <=> HasError(chan)') /\ (HasError(decoder.out) <=> HasError(decoder.out)')
  BY <1>1 DEF HasError
<1>5. ErrorTold'
  BY <1>1, <1>2, <1>3, <1>4 DEF ErrorTold
<1>6. EndOK'
  BY <1>1 DEF EndOK
<1> QED
  BY <1>5, <1>6

LEMMA SettledEnds ==
    ASSUME ErrorTold, Settled
    PROVE  ErrorTold'
<1>1. chan' = chan /\ err' = err /\ decoder' = decoder /\ cancelled' = cancelled
  BY DEF Settled, Aside, decoding
<1> QED
  BY <1>1 DEF ErrorTold, HasError

-----------------------------------------------------------------------------
(* The text and the thoughts.                                                *)
LEMMA KindOfLine ==
    ASSUME WireTypes, LineOK, NEW kind \in TextKinds
    PROVE  /\ OfKind(sent, kind) = OfKind(heard, kind) \o NumOf(kind, line) /\ NumOf(kind, line) \in Text
           /\ OfKind(heard, kind) \in Text /\ OfKind(sent, kind) \in Text
           /\ line = NoEvent => NumOf(kind, line) = <<>>
<1>1. heard \in Seq(Piece) /\ sent \in Seq(Piece)
  BY HeardFacts DEF WireTypes
<1>2. OfKind(heard, kind) \in Text /\ OfKind(sent, kind) \in Text
  BY <1>1, PlacesPayload DEF Text
<1>3. kind \in {"text", "thought"} /\ line.n \in Payload
  BY StreamAssumption DEF TextKinds, WireTypes, Event, Payload
<1>4. NumOf(kind, line) \in Text
  BY <1>3 DEF NumOf, Text
<1>5. line = NoEvent => NumOf(kind, line) = <<>>
  BY <1>3 DEF NoEvent, NumOf
<1>6. CASE line.n = 0
  <2>1. heard = sent /\ line.kind # kind
    BY <1>3, <1>6, HeardFacts DEF LineOK
  <2>2. NumOf(kind, line) = <<>>
    BY <2>1 DEF NumOf
  <2>3. OfKind(heard, kind) \o <<>> = OfKind(heard, kind)
    BY <1>2, ConcatEmptySeq DEF Text
  <2> QED
    BY <1>2, <1>4, <1>5, <2>1, <2>2, <2>3
<1>7. CASE line.n # 0
  <2>1. sent = Append(heard, PieceOf(line)) /\ PieceOf(line) \in Piece /\ line.n = Len(heard) + 1
    BY <1>7, HeardFacts
  <2>2. PieceOf(line).kind = kind <=> line.kind = kind
    BY <1>3 DEF PieceOf
  <2>3. OfKind(sent, kind) = OfKind(heard, kind) \o (IF PieceOf(line).kind = kind THEN <<Len(heard) + 1>> ELSE <<>>)
    BY <1>1, <2>1, KindAppend
  <2>4. OfKind(sent, kind) = OfKind(heard, kind) \o NumOf(kind, line)
    BY <2>1, <2>2, <2>3 DEF NumOf
  <2> QED
    BY <1>2, <1>4, <1>5, <2>4
<1> QED
  BY <1>6, <1>7

LEMMA FlushedSilent ==
    ASSUME NEW items, NEW next, Fits(items, next, TRUE), NEW kind, kind # "call"
    PROVE  Numbered(kind, items) = <<>>
<1>1. CASE items = <<>>
  BY <1>1, NumEmpty
<1>2. CASE items # <<>>
  <2>1. items \in Seq(Printable) /\ \A k \in DOMAIN items : items[k].kind # kind
    BY <1>2, ItemsPrint DEF Fits
  <2> QED
    BY <2>1, NumNone
<1> QED
  BY <1>1, <1>2

LEMMA NumOfOne ==
    ASSUME NEW kind, NEW other \in {"text", "thought", "usage", "call", "error", "done"}, NEW n \in Payload
    PROVE  Numbered(kind, One(other, n)) = IF other = kind THEN <<n>> ELSE <<>>
<1>1. [kind |-> other, n |-> n] \in Printable
  BY DEF Printable
<1>2. Numbered(kind, << [kind |-> other, n |-> n] >>) = NumOf(kind, [kind |-> other, n |-> n])
  BY <1>1, NumOne
<1> QED
  BY <1>2 DEF One, NumOf

LEMMA ItemsOfLine ==
    ASSUME WireTypes, DecoderTypes, LineOK, NEW kind \in TextKinds,
           NEW items, NEW next, NEW flushing, Fits(items, next, flushing), Decided(items, next, flushing)
    PROVE  Numbered(kind, items) = NumOf(kind, line)
<1>1. /\ kind \in {"text", "thought"} /\ line.n \in Payload /\ usage \in Payload /\ line.n \in Nat
      /\ \A k : Numbered(k, <<>>) = <<>>
  BY NumEmpty, StreamAssumption DEF TextKinds, WireTypes, Event, Payload, DecoderTypes
<1>2. CASE line.kind \in {"text", "thought"}
  <2>1. items = One(line.kind, line.n)
    BY <1>2 DEF Decided
  <2> QED
    BY <1>1, <1>2, <2>1, NumOfOne DEF NumOf
<1>3. CASE line.kind \notin {"text", "thought"}
  <2>1. NumOf(kind, line) = <<>>
    BY <1>1, <1>3 DEF NumOf
  <2>2. CASE flushing
    <3>1. flushing = TRUE
      BY <2>2 DEF Fits
    <3> QED
      BY <1>1, <2>1, <3>1, FlushedSilent
  <2>3. CASE items = <<>>
    BY <1>1, <2>1, <2>3
  <2>4. CASE \E n \in Payload : items = One("usage", n)
    BY <1>1, <2>1, <2>4, NumOfOne
  <2>5. CASE \E c : items = <<Called(c)>> /\ Called(c) \in Item
    <3>1. PICK c : items = <<Called(c)>> /\ Called(c) \in Item
      BY <2>5
    <3>2. Numbered(kind, <<Called(c)>>) = NumOf(kind, Called(c))
      BY <3>1, ItemsPrint, NumOne
    <3> QED
      BY <1>1, <2>1, <3>1, <3>2 DEF NumOf, Called
  <2>6. items = <<>> \/ flushing \/ (\E n \in Payload : items = One("usage", n)) \/ \E c : items = <<Called(c)>> /\ Called(c) \in Item
    <3>1. CASE line.kind = "usage" /\ dialect = "chat"
      BY <1>1, <3>1 DEF Decided
    <3>2. CASE line.kind = "call" /\ dialect = "generate"
      <4>1. [args |-> <<line.n>>].args \in Seq(Nat) /\ items = <<Called([args |-> <<line.n>>])>>
        BY <1>1, <3>2 DEF Decided
      <4>2. PICK c : c = [args |-> <<line.n>>]
        OBVIOUS
      <4>3. Called(c) \in Item
        BY <4>1, <4>2, CalledFits
      <4> QED
        BY <4>1, <4>2, <4>3
    <3>3. CASE line.kind = "close" /\ dialect = "messages"
      <4>1. items = <<Called(calls[Block(line.call)])>>
        BY <3>3 DEF Decided
      <4>2. PICK x, y : x = items /\ y = Called(calls[Block(line.call)])
        OBVIOUS
      <4>3. x = <<y>> /\ x \in Seq(Item)
        BY <4>1, <4>2 DEF Fits
      <4>4. y \in Item
        <5>1. Head(x) \in Item
          BY <4>3, HeadTailProperties
        <5> QED
          BY <4>3, <5>1
      <4> QED
        BY <4>1, <4>2, <4>4
    <3>4. CASE ~(line.kind = "usage" /\ dialect = "chat") /\ ~(line.kind = "call" /\ dialect = "generate") /\ ~(line.kind = "close" /\ dialect = "messages")
      BY <1>1, <1>3, <3>4 DEF Decided
    <3> QED
      BY <3>1, <3>2, <3>3, <3>4
  <2> QED
    BY <2>2, <2>3, <2>4, <2>5, <2>6
<1> QED
  BY <1>2, <1>3

LEMMA EndedSilent ==
    ASSUME WireTypes, DecoderTypes, NEW kind \in TextKinds,
           NEW items, NEW next, NEW flushing, Fits(items, next, flushing), EndedBy(items, next, flushing)
    PROVE  Numbered(kind, items) = <<>>
<1>1. kind \in {"text", "thought"} /\ usage \in Payload /\ \A k : Numbered(k, <<>>) = <<>>
  BY NumEmpty, StreamAssumption DEF TextKinds, Payload, DecoderTypes
<1>2. CASE flushing
  <2>1. flushing = TRUE
    BY <1>2 DEF Fits
  <2> QED
    BY <1>1, <2>1, FlushedSilent
<1>3. CASE ~flushing
  <2>1. items = <<>> \/ items = One("usage", usage)
    BY <1>3 DEF EndedBy
  <2> QED
    BY <1>1, <2>1, NumOfOne
<1> QED
  BY <1>2, <1>3

\* At the beginning of a line nothing is in hand.
LEMMA ReadingShows ==
    ASSUME ReaderTypes, DecoderTypes, OutOK, At("reading"), NEW kind
    PROVE  Seen(kind) = ReadOf(kind) \o Numbered(kind, chan) /\ decoder.then = "read" /\ decoder = Reading
<1>1. decoder = Reading
  BY DEF OutOK, HandOK, At
<1>2. Numbered(kind, decoder.out) = <<>>
  BY <1>1, ReadingFacts
<1>3. (ReadOf(kind) \o Numbered(kind, chan)) \o <<>> = ReadOf(kind) \o Numbered(kind, chan)
  BY ReadTypes, ConcatEmptySeq DEF Text
<1> QED
  BY <1>1, <1>2, <1>3, ReadingFacts DEF Seen

LEMMA FlowSay ==
    ASSUME heard' = heard, UNCHANGED <<decoder, chan, live, buf>>, cancelled => cancelled', NEW kind \in TextKinds, FlowOf(kind)
    PROVE  FlowOf(kind)'
<1>1. Seen(kind)' = Seen(kind)
  BY DEF Seen, ReadOf
<1>2. OfKind(heard, kind)' = OfKind(heard, kind)
  OBVIOUS
<1> QED
  BY <1>1, <1>2 DEF FlowOf

LEMMA FlowHanded ==
    ASSUME WireTypes, DecoderTypes, ReaderTypes, OutOK, LineOK, At("reading"), heard' = sent, UNCHANGED <<protocol, chan, live, buf, cancelled>>,
           NEW kind \in TextKinds, FlowOf(kind),
           NEW items, NEW next, NEW flushing, Fits(items, next, flushing), Handed(items, next, flushing),
           \/ Numbered(kind, items) = NumOf(kind, line)
           \/ Numbered(kind, items) = <<>> /\ (next = "complete" => line = NoEvent) /\ next # "read"
    PROVE  FlowOf(kind)'
<1>1. PICK had, new, h, s : had = ReadOf(kind) \o Numbered(kind, chan) /\ new = NumOf(kind, line) /\ h = OfKind(heard, kind) /\ s = OfKind(sent, kind)
  OBVIOUS
<1>2. had \in Seq(Payload) /\ new \in Seq(Payload) /\ h \in Seq(Payload) /\ s \in Seq(Payload) /\ s = h \o new
  BY <1>1, ReadTypes, KindOfLine DEF Text
<1>3. had = h
  BY <1>1, ReadingShows DEF FlowOf
<1>4. decoder'.then = next /\ next \in Nexts /\ Numbered(kind, decoder'.out) = Numbered(kind, items)
  BY HandedFacts DEF TextKinds, protocol, Fits
<1>5. Seen(kind)' = had \o Numbered(kind, items)
  BY <1>1, <1>4 DEF Seen, ReadOf
<1>6. OfKind(heard, kind)' = s
  BY <1>1
<1>7. IsPrefix(h, h \o new) /\ IsPrefix(s, s) /\ h \o <<>> = h /\ Len(s) \in Nat /\ Len(s) <= Len(s) + 1
  <2>1. Len(s) \in Nat
    BY <1>2, LenProperties
  <2>2. h \in Seq(Payload) /\ new \in Seq(Payload) /\ s \in Seq(Payload)
    BY <1>2
  <2>3. IsPrefix(h, h \o new)
    BY <2>2, PrefixOf
  <2>4. IsPrefix(s, s)
    BY <2>2, PrefixOf
  <2>5. h \o <<>> = h
    BY <2>2, ConcatEmptySeq
  <2> QED
    BY <2>1, <2>3, <2>4, <2>5
<1>8. CASE Numbered(kind, items) = NumOf(kind, line)
  <2>1. Seen(kind)' = s
    BY <1>1, <1>2, <1>3, <1>5, <1>8
  <2> QED
    BY <1>6, <1>7, <2>1 DEF FlowOf
<1>9. CASE Numbered(kind, items) = <<>> /\ (next = "complete" => line = NoEvent) /\ next # "read"
  <2>1. Seen(kind)' = h
    BY <1>3, <1>5, <1>7, <1>9
  <2>2. line = NoEvent => s = h
    BY <1>1, <1>2, <1>7, KindOfLine
  <2>3. Len(s) <= Len(h) + 1
    <3>1. Len(new) <= 1 /\ Len(new) \in Nat
      BY <1>1 DEF NumOf
    <3>2. Len(h \o new) = Len(h) + Len(new) /\ Len(h) \in Nat
      BY <1>2, ConcatProperties, LenProperties
    <3> QED
      BY <1>2, <3>1, <3>2
  <2>4. IsPrefix(h, s)
    BY <1>2, <1>7
  <2>5. CASE next = "complete"
    <3>1. s = h
      BY <1>9, <2>2, <2>5
    <3> QED
      BY <1>4, <1>6, <2>1, <2>5, <3>1 DEF FlowOf
  <2>6. CASE next # "complete"
    BY <1>4, <1>6, <1>9, <2>1, <2>3, <2>4, <2>6 DEF FlowOf
  <2> QED
    BY <2>5, <2>6
<1> QED
  BY <1>8, <1>9

LEMMA FlowEmit ==
    ASSUME WireTypes, DecoderTypes, ReaderTypes, OutOK, LineOK, Emit, heard' = heard, NEW kind \in TextKinds, FlowOf(kind)
    PROVE  FlowOf(kind)'
<1>1. decoder.at \in {"emitting", "ending"} /\ UNCHANGED <<protocol, live, buf, cancelled>> /\ dialect' = dialect
  BY DEF Emit, screen, protocol
<1>2. PICK r, c, d : r = ReadOf(kind) /\ c = Numbered(kind, chan) /\ d = Numbered(kind, decoder.out)
  OBVIOUS
<1>3. r \in Seq(Payload) /\ c \in Seq(Payload) /\ d \in Seq(Payload) /\ r \o c \in Seq(Payload) /\ Seen(kind) = (r \o c) \o d
  BY <1>2, ReadTypes DEF Text, Seen
<1>4. OfKind(heard, kind)' = OfKind(heard, kind) /\ OfKind(heard, kind) \in Seq(Payload)
  BY KindOfLine DEF Text
<1>5. kind \in {"text", "thought"} /\ ReadOf(kind)' = r
  BY <1>1, <1>2 DEF TextKinds, ReadOf
<1>6. CASE Sent1
  <2>1. Moved
    BY <1>1, <1>6, Sent1Facts
  <2>2. PICK e : e = Head(decoder.out)
    OBVIOUS
  <2>3. e \in Item /\ chan' = Append(chan, e) /\ chan \in Seq(Printable) /\ e \in Printable /\ decoder'.out \in Seq(Printable)
        /\ decoder'.then = decoder.then
    BY <2>1, <2>2, ItemsPrint DEF Moved, ReaderTypes, Decoders
  <2>4. Numbered(kind, chan') = c \o NumOf(kind, e) /\ d = NumOf(kind, e) \o Numbered(kind, decoder'.out)
    <3>1. Numbered(kind, Append(chan, e)) = Numbered(kind, chan) \o NumOf(kind, e)
      BY <2>3, NumAppend
    <3>2. Numbered(kind, decoder.out) = NumOf(kind, Head(decoder.out)) \o Numbered(kind, decoder'.out)
      BY <1>5, <2>1 DEF Moved
    <3>3. Numbered(kind, chan') = Numbered(kind, chan) \o NumOf(kind, e)
      BY <2>3, <3>1
    <3> QED
      BY <1>2, <2>2, <3>2, <3>3
  <2>5. PICK x, y : x = NumOf(kind, e) /\ y = Numbered(kind, decoder'.out)
    OBVIOUS
  <2>6. x \in Seq(Payload) /\ y \in Seq(Payload)
    BY <2>3, <2>5, NumOne, NumJoin
  <2>7. (r \o (c \o x)) \o y = (r \o c) \o (x \o y)
    <3>1. PICK rc : rc = r \o c
      OBVIOUS
    <3>2. r \in Seq(Payload) /\ c \in Seq(Payload) /\ x \in Seq(Payload) /\ y \in Seq(Payload) /\ rc \in Seq(Payload)
      BY <1>3, <2>6, <3>1
    <3>3. (r \o c) \o x = r \o (c \o x)
      BY <3>2, JoinPayload
    <3>4. (rc \o x) \o y = rc \o (x \o y)
      BY <3>2, JoinPayload
    <3> QED
      BY <3>1, <3>3, <3>4
  <2>8. Seen(kind)' = Seen(kind)
    BY <1>3, <1>5, <2>4, <2>5, <2>7 DEF Seen
  <2> QED
    BY <1>1, <1>4, <2>3, <2>8 DEF FlowOf
<1>7. CASE Skipped
  <2>1. /\ UNCHANGED chan /\ cancelled /\ Numbered(kind, decoder'.out) = <<>>
        /\ decoder'.then \in {"read", "complete"} => decoder'.then = decoder.then /\ d = <<>>
    BY <1>1, <1>2, <1>5, <1>7, SkippedFacts
  <2>2. Seen(kind)' = r \o c
    <3>1. (r \o c) \o <<>> = r \o c
      BY <1>3, ConcatEmptySeq
    <3> QED
      BY <1>2, <1>5, <2>1, <3>1 DEF Seen
  <2>3. CASE decoder'.then \in {"read", "complete"}
    <3>1. Seen(kind) = r \o c
      BY <1>3, <2>1, <2>3, ConcatEmptySeq
    <3> QED
      BY <1>4, <2>1, <2>2, <2>3, <3>1 DEF FlowOf
  <2>4. CASE decoder'.then \notin {"read", "complete"}
    <3>1. IsPrefix(Seen(kind), OfKind(heard, kind))
      <4>1. IsPrefix(OfKind(heard, kind), OfKind(heard, kind))
        BY <1>4, PrefixOf
      <4> QED
        BY <4>1 DEF FlowOf
    <3>2. PICK a, s : a = r \o c /\ s = OfKind(heard, kind)
      OBVIOUS
    <3>3. IsPrefix(a \o d, s) /\ a \in Seq(Payload) /\ s \in Seq(Payload)
      BY <1>3, <1>4, <3>1, <3>2
    <3>4. IsPrefix(a, s)
      BY <1>3, <3>3, PrefixLess
    <3> QED
      BY <1>1, <1>4, <2>1, <2>2, <2>4, <3>2, <3>4 DEF FlowOf
  <2> QED
    BY <2>3, <2>4
<1> QED
  BY <1>6, <1>7 DEF Emit

LEMMA AsideHeard == ASSUME Aside PROVE heard' = heard /\ decoder' = decoder /\ cancelled' = cancelled
BY DEF Aside, wire, decoding, heard

LEMMA FlowTook ==
    ASSUME DecoderTypes, ReaderTypes, Took, NEW kind \in TextKinds, FlowOf(kind)
    PROVE  FlowOf(kind)'
<1>1. /\ heard' = heard /\ decoder' = decoder /\ cancelled' = cancelled /\ chan' = Tail(chan) /\ chan # <<>>
      /\ ReadOf(kind)' = ReadOf(kind) \o NumOf(kind, Head(chan)) /\ chan \in Seq(Printable)
  BY AsideHeard, ItemsPrint DEF Took, ReaderTypes
<1>2. PICK r, x, t, d : r = ReadOf(kind) /\ x = NumOf(kind, Head(chan)) /\ t = Numbered(kind, Tail(chan)) /\ d = Numbered(kind, decoder.out)
  OBVIOUS
<1>3. Numbered(kind, chan) = x \o t /\ Head(chan) \in Printable /\ Tail(chan) \in Seq(Printable)
  BY <1>1, <1>2, NumHead
<1>4. r \in Seq(Payload) /\ x \in Seq(Payload) /\ t \in Seq(Payload)
  BY <1>2, <1>3, NumOne, NumJoin, ReadTypes DEF Text
<1>5. (r \o x) \o t = r \o (x \o t)
  BY <1>4, JoinPayload
<1>6. Seen(kind)' = Seen(kind)
  BY <1>1, <1>2, <1>3, <1>5 DEF Seen
<1>7. OfKind(heard, kind)' = OfKind(heard, kind)
  BY <1>1
<1> QED
  BY <1>1, <1>6, <1>7 DEF FlowOf

LEMMA FlowSettled ==
    ASSUME Settled, NEW kind \in TextKinds, FlowOf(kind)
    PROVE  FlowOf(kind)'
<1>1. heard' = heard /\ decoder' = decoder /\ cancelled' = cancelled /\ chan' = chan /\ ReadOf(kind)' = ReadOf(kind)
  BY AsideHeard DEF Settled
<1>2. Seen(kind)' = Seen(kind)
  BY <1>1 DEF Seen
<1>3. OfKind(heard, kind)' = OfKind(heard, kind)
  BY <1>1
<1> QED
  BY <1>1, <1>2, <1>3 DEF FlowOf

-----------------------------------------------------------------------------
(* The usage.                                                                *)
LEMMA LatestJoin ==
    ASSUME NEW S, NEW a \in Seq(S), NEW b \in Seq(S), NEW d
    PROVE  Latest(a \o b, d) = Latest(b, Latest(a, d)) /\ Latest(<<>>, d) = d
<1>1. CASE b = <<>>
  <2>1. a \o <<>> = a
    BY ConcatEmptySeq
  <2>2. a \o b = a
    BY <1>1, <2>1
  <2> QED
    BY <1>1, <2>2 DEF Latest
<1>2. CASE b # <<>>
  <2>1. a \o b # <<>> /\ Last(a \o b) = Last(b)
    BY <1>2, LastJoined
  <2> QED
    BY <1>2, <2>1 DEF Latest
<1> QED
  BY <1>1, <1>2 DEF Latest

LEMMA LatestNum ==
    ASSUME NEW e, NEW d
    PROVE  Latest(NumOf("usage", e), d) = IF e.kind = "usage" THEN e.n ELSE d
<1>1. Latest(<<e.n>>, d) = e.n /\ Latest(<<>>, d) = d
  BY DEF Latest, Last
<1> QED
  BY <1>1 DEF NumOf

UsageBefore == Latest(Numbered("usage", chan), UsageRead)
ReportIn(ev) == IF ev.n # 0 /\ ev.kind \in {"usage", "stop"} THEN <<ev.n>> ELSE <<>>
LEMMA UsageOfLine ==
    ASSUME WireTypes, LineOK
    PROVE  Latest(OfKind(sent, "usage"), 0) = Latest(ReportIn(line), Latest(OfKind(heard, "usage"), 0))
<1>1. heard \in Seq(Piece) /\ sent \in Seq(Piece)
  BY HeardFacts DEF WireTypes
<1>2. CASE line.n = 0
  <2>1. heard = sent /\ ReportIn(line) = <<>>
    BY <1>2, HeardFacts DEF ReportIn
  <2> QED
    BY <2>1 DEF Latest
<1>3. CASE line.n # 0
  <2>1. sent = Append(heard, PieceOf(line)) /\ PieceOf(line) \in Piece /\ line.n = Len(heard) + 1
    BY <1>3, HeardFacts
  <2>2. PieceOf(line).kind = "usage" <=> line.kind \in {"usage", "stop"}
    BY DEF PieceOf
  <2>3. OfKind(sent, "usage") = OfKind(heard, "usage") \o (IF PieceOf(line).kind = "usage" THEN <<Len(heard) + 1>> ELSE <<>>)
    BY <1>1, <2>1, KindAppend
  <2>4. PICK h, r : h = OfKind(heard, "usage") /\ r = ReportIn(line)
    OBVIOUS
  <2>5. OfKind(sent, "usage") = h \o r
    BY <1>3, <2>1, <2>2, <2>3, <2>4 DEF ReportIn
  <2>6. line.n \in Payload
    BY StreamAssumption DEF WireTypes, Event, Payload
  <2>7. h \in Seq(Payload) /\ r \in Seq(Payload)
    BY <1>1, <2>4, <2>6, PlacesPayload DEF ReportIn
  <2>8. Latest(h \o r, 0) = Latest(r, Latest(h, 0))
    BY <2>7, LatestJoin
  <2> QED
    BY <2>4, <2>5, <2>8
<1> QED
  BY <1>2, <1>3

LEMMA UsageFrame ==
    ASSUME UsageOK, heard' = heard, dialect' = dialect, usage' = usage,
           decoder'.then \in {"read", "complete"} => decoder'.then = decoder.then /\ UsageNow' = UsageNow
    PROVE  UsageOK'
<1>1. OfKind(heard, "usage")' = OfKind(heard, "usage")
  OBVIOUS
<1>2. Latest(OfKind(heard, "usage"), 0)' = Latest(OfKind(heard, "usage"), 0)
  BY <1>1 DEF Latest
<1> QED
  BY <1>2 DEF UsageOK

LEMMA UsageSay ==
    ASSUME UsageOK, heard' = heard, UNCHANGED <<dialect, usage, decoder, chan, live, buf>>
    PROVE  UsageOK'
<1>1. UsageNow' = UsageNow
  BY DEF UsageNow, UsageRead
<1> QED
  BY <1>1, UsageFrame

LEMMA ReadingUsage ==
    ASSUME DecoderTypes, OutOK, At("reading")
    PROVE  UsageNow = UsageBefore /\ decoder.then = "read"
<1>1. decoder = Reading
  BY DEF OutOK, HandOK, At
<1>2. Numbered("usage", decoder.out) = <<>> /\ decoder.then = "read"
  BY <1>1, ReadingFacts
<1> QED
  BY <1>2 DEF UsageNow, UsageBefore, Latest

LEMMA UsageHanded ==
    ASSUME UNCHANGED <<dialect, chan, live, buf, cancelled>>,
           NEW items, NEW next, NEW flushing, Fits(items, next, flushing), Handed(items, next, flushing)
    PROVE  /\ UsageNow' = Latest(Numbered("usage", items), UsageBefore) /\ decoder'.then = next
           /\ flushing \/ items = <<>> => UsageNow' = UsageBefore
           /\ \A n \in Payload : items = One("usage", n) => UsageNow' = n
           /\ \A kind \in {"text", "thought", "call"}, n \in Payload : items = One(kind, n) => UsageNow' = UsageBefore
<1>1. Numbered("usage", decoder'.out) = Numbered("usage", items) /\ decoder'.then = next
  BY HandedFacts
<1>2. UsageNow' = Latest(Numbered("usage", items), UsageBefore)
  BY <1>1 DEF UsageNow, UsageBefore, UsageRead
<1>3. flushing \/ items = <<>> => Numbered("usage", items) = <<>>
  <2>1. CASE flushing
    <3>1. flushing = TRUE
      BY <2>1 DEF Fits
    <3> QED
      BY <3>1, FlushedSilent
  <2>2. CASE items = <<>>
    BY <2>2, NumEmpty
  <2> QED
    BY <2>1, <2>2
<1>4. Latest(<<>>, UsageBefore) = UsageBefore /\ \A n : Latest(<<n>>, UsageBefore) = n
  BY DEF Latest, Last
<1>5. ASSUME NEW n \in Payload, items = One("usage", n) PROVE UsageNow' = n
  <2>1. Numbered("usage", items) = <<n>>
    BY <1>5, NumOfOne
  <2> QED
    BY <1>2, <1>4, <2>1
<1>6. ASSUME NEW kind \in {"text", "thought", "call"}, NEW n \in Payload, items = One(kind, n) PROVE UsageNow' = UsageBefore
  <2>1. kind \in {"text", "thought", "usage", "call", "error", "done"} /\ kind # "usage"
    OBVIOUS
  <2>2. Numbered("usage", One(kind, n)) = <<>>
    BY <2>1, NumOfOne
  <2> QED
    BY <1>2, <1>4, <1>6, <2>2
<1> QED
  BY <1>1, <1>2, <1>3, <1>4, <1>5, <1>6

LEMMA CalledIsOne == ASSUME NEW c PROVE <<Called(c)>> = One("call", c.args)
BY DEF Called, One

LEMMA UsageDispatch ==
    ASSUME WireTypes, DecoderTypes, OutOK, LineOK, UsageOK, Dispatch, heard' = sent
    PROVE  UsageOK'
<1>1. PICK items, next, flushing :
         Fits(items, next, flushing) /\ Handed(items, next, flushing) /\ Decided(items, next, flushing)
  BY DispatchIs
<1>2. UNCHANGED <<dialect, chan, live, buf, cancelled>> /\ At("reading")
  BY DEF Dispatch, protocol, reading, screen
<1>3. PICK X, L : X = UsageBefore /\ L = Latest(OfKind(heard, "usage"), 0)
  OBVIOUS
<1>4. /\ dialect \in {"chat", "responses"} => usage = 0
      /\ dialect \in {"messages", "generate"} => X = 0
      /\ L = IF usage # 0 THEN usage ELSE X
  BY <1>2, <1>3, ReadingUsage DEF UsageOK
<1>5. Latest(OfKind(heard, "usage"), 0)' = Latest(ReportIn(line), L)
  <2>1. Latest(OfKind(heard, "usage"), 0)' = Latest(OfKind(sent, "usage"), 0)
    BY DEF Latest
  <2> QED
    BY <1>3, <2>1, UsageOfLine
<1>6. Latest(ReportIn(line), L) = IF line.n # 0 /\ line.kind \in {"usage", "stop"} THEN line.n ELSE L
  BY DEF Latest, Last, ReportIn
<1>7. PICK V : V = UsageNow'
  OBVIOUS
<1>8. /\ decoder'.then = next
      /\ flushing \/ items = <<>> => V = X
      /\ \A n \in Payload : items = One("usage", n) => V = n
      /\ \A kind \in {"text", "thought", "call"}, n \in Payload : items = One(kind, n) => V = X
  BY <1>1, <1>2, <1>3, <1>7, UsageHanded
<1>9. /\ line.n \in Nat /\ line.n \in Payload /\ usage \in Nat /\ usage \in Payload /\ dialect \in {"chat", "messages", "generate", "responses"}
      /\ line.kind = "usage" => line.n # 0
      /\ line.kind = "stop" /\ dialect # "responses" => line.n = 0
  BY StreamAssumption DEF WireTypes, Event, Payload, DecoderTypes, LineOK
<1> DEFINE LL == IF line.n # 0 /\ line.kind \in {"usage", "stop"} THEN line.n ELSE L
<1>10. SUFFICES /\ dialect \in {"chat", "responses"} => usage' = 0
                /\ dialect \in {"messages", "generate"} /\ next = "read" => V = 0
                /\ next = "read" => LL = IF usage' # 0 THEN usage' ELSE V
                /\ next = "complete" => LL = V
  BY <1>2, <1>5, <1>6, <1>7, <1>8 DEF UsageOK
<1>11. CASE line.kind \in {"text", "thought"} /\ items = One(line.kind, line.n) /\ next = "read" /\ Keep
  BY <1>4, <1>8, <1>9, <1>11 DEF Keep
<1>12. CASE line.kind = "usage" /\ dialect = "chat" /\ items = One(line.kind, line.n) /\ next = "read" /\ Keep
  BY <1>4, <1>8, <1>9, <1>12 DEF Keep
<1>13. CASE line.kind = "usage" /\ dialect \in {"messages", "generate"} /\ items = <<>> /\ next = "read" /\ usage' = line.n
  BY <1>4, <1>8, <1>9, <1>13
<1>14. CASE line.kind \notin {"usage", "stop"} /\ (items = <<>> \/ flushing) /\ UNCHANGED usage /\ next \in {"read", "error"}
  BY <1>4, <1>8, <1>9, <1>14
<1>15. CASE line.kind \notin {"usage", "stop"} /\ (\E c : c.args \in Seq(Nat) /\ items = <<Called(c)>>) /\ UNCHANGED usage /\ next = "read"
  <2>1. PICK c : c.args \in Seq(Nat) /\ items = <<Called(c)>>
    BY <1>15
  <2>2. items = One("call", c.args) /\ c.args \in Payload
    BY <2>1, CalledIsOne DEF Payload
  <2>3. V = X
    BY <1>8, <2>2
  <2> QED
    BY <1>4, <1>9, <1>15, <2>3
<1>16. CASE line.kind = "stop" /\ dialect = "chat" /\ flushing /\ next = "complete" /\ Keep
  BY <1>4, <1>8, <1>9, <1>16 DEF Keep
<1>17. CASE /\ line.kind = "stop" /\ dialect = "messages" /\ next = "complete" /\ Keep
            /\ items = (IF usage = 0 THEN <<>> ELSE One("usage", usage))
  BY <1>4, <1>8, <1>9, <1>17 DEF Keep
<1>18. CASE /\ line.kind = "stop" /\ dialect = "responses" /\ next = "complete" /\ Keep
            /\ items = (IF line.n = 0 THEN <<>> ELSE One("usage", line.n))
  BY <1>4, <1>8, <1>9, <1>18 DEF Keep
<1>19. CASE line.kind = "call" /\ dialect = "generate" /\ items = <<Called([args |-> <<line.n>>])>> /\ next = "read" /\ Keep
  <2>1. [args |-> <<line.n>>].args \in Seq(Nat)
    BY <1>9
  <2>2. PICK c : c = [args |-> <<line.n>>]
    OBVIOUS
  <2> QED
    BY <1>15, <1>19, <2>1, <2>2 DEF Keep
<1>20. CASE line.kind = "close" /\ dialect = "messages" /\ items = <<Called(calls[Block(line.call)])>> /\ next = "read" /\ UNCHANGED usage
  <2>1. Block(line.call) \in DOMAIN calls
    BY <1>20, BlockIs DEF LineOK
  <2>2. calls[Block(line.call)] \in CallEntry
    BY <2>1, ElementOfSeq, LenProperties DEF DecoderTypes
  <2>3. calls[Block(line.call)].args \in Seq(Nat)
    BY <2>2 DEF CallEntry
  <2> QED
    BY <1>15, <1>20, <2>3
<1>21. Decided(items, next, flushing)
  BY <1>1
<1> QED
  BY <1>11, <1>12, <1>13, <1>14, <1>16, <1>17, <1>18, <1>19, <1>20, <1>21 DEF Decided, Keep

LEMMA UsageBodyEnds ==
    ASSUME WireTypes, DecoderTypes, OutOK, LineOK, UsageOK, BodyEnds, heard' = sent
    PROVE  UsageOK'
<1>1. PICK items, next, flushing :
         Fits(items, next, flushing) /\ Handed(items, next, flushing) /\ EndedBy(items, next, flushing)
  BY BodyEndsIs
<1>2. UNCHANGED <<dialect, chan, live, buf, cancelled>> /\ At("reading")
  BY DEF BodyEnds, protocol, reading, screen
<1>3. PICK X, L : X = UsageBefore /\ L = Latest(OfKind(heard, "usage"), 0)
  OBVIOUS
<1>4. /\ dialect \in {"chat", "responses"} => usage = 0
      /\ L = IF usage # 0 THEN usage ELSE X
  BY <1>2, <1>3, ReadingUsage DEF UsageOK
<1>5. PICK V : V = UsageNow'
  OBVIOUS
<1>6. /\ decoder'.then = next
      /\ flushing \/ items = <<>> => V = X
      /\ \A n \in Payload : items = One("usage", n) => V = n
  BY <1>1, <1>2, <1>3, <1>5, UsageHanded
<1>7. /\ next \in {"complete"} \cup Failures /\ usage' = usage
      /\ next = "complete" => line = NoEvent /\ dialect \in {"chat", "generate"}
      /\ dialect = "chat" => flushing
      /\ dialect # "chat" => items = IF dialect = "generate" /\ next = "complete" /\ usage # 0 THEN One("usage", usage) ELSE <<>>
  BY <1>1 DEF EndedBy
<1>8. usage \in Payload
  BY StreamAssumption DEF DecoderTypes, Payload
<1>9. next = "complete" => Latest(OfKind(heard, "usage"), 0)' = L
  <2>1. next = "complete" => sent = heard
    BY <1>7 DEF heard, NoEvent
  <2>2. Latest(OfKind(heard, "usage"), 0)' = Latest(OfKind(sent, "usage"), 0)
    BY DEF Latest
  <2> QED
    BY <1>3, <2>1, <2>2
<1>10. next = "complete" => V = L
  BY <1>4, <1>6, <1>7, <1>8
<1>11. next # "read"
  BY <1>7 DEF Failures
<1> QED
  BY <1>2, <1>4, <1>5, <1>6, <1>7, <1>9, <1>10, <1>11 DEF UsageOK

LEMMA UsageEmit ==
    ASSUME WireTypes, DecoderTypes, ReaderTypes, OutOK, UsageOK, Emit, heard' = heard
    PROVE  UsageOK'
<1>1. decoder.at \in {"emitting", "ending"} /\ UNCHANGED <<dialect, usage, live, buf, cancelled>> /\ UsageRead' = UsageRead
  BY DEF Emit, screen, protocol, UsageRead
<1>2. CASE Sent1
  <2>1. Moved
    BY <1>1, <1>2, Sent1Facts
  <2>2. PICK e : e = Head(decoder.out)
    OBVIOUS
  <2>3. e \in Item /\ chan' = Append(chan, e) /\ chan \in Seq(Printable) /\ e \in Printable /\ decoder'.out \in Seq(Printable)
        /\ decoder'.then = decoder.then
    BY <2>1, <2>2, ItemsPrint DEF Moved, ReaderTypes, Decoders
  <2>4. PICK c, x, y : c = Numbered("usage", chan) /\ x = NumOf("usage", e) /\ y = Numbered("usage", decoder'.out)
    OBVIOUS
  <2>5. c \in Seq(Payload) /\ x \in Seq(Payload) /\ y \in Seq(Payload)
    BY <2>3, <2>4, NumOne, NumJoin
  <2>6. Numbered("usage", chan') = c \o x
    <3>1. Numbered("usage", Append(chan, e)) = Numbered("usage", chan) \o NumOf("usage", e)
      BY <2>3, NumAppend
    <3> QED
      BY <2>3, <2>4, <3>1
  <2>7. Numbered("usage", decoder.out) = x \o y
    BY <2>1, <2>2, <2>4 DEF Moved
  <2>8. PICK u : u = UsageRead
    OBVIOUS
  <2>9. Latest(c \o x, u) = Latest(x, Latest(c, u))
    BY <2>5, LatestJoin
  <2>10. Latest(x \o y, Latest(c, u)) = Latest(y, Latest(x, Latest(c, u)))
    BY <2>5, LatestJoin
  <2>11. UsageNow' = UsageNow
    BY <1>1, <2>4, <2>6, <2>7, <2>8, <2>9, <2>10 DEF UsageNow
  <2> QED
    BY <1>1, <2>3, <2>11, UsageFrame
<1>3. CASE Skipped
  <2>1. /\ UNCHANGED chan
        /\ decoder'.then \in {"read", "complete"} =>
              /\ decoder'.then = decoder.then
              /\ Numbered("usage", decoder.out) = <<>> /\ Numbered("usage", decoder'.out) = <<>>
    BY <1>1, <1>3, SkippedFacts
  <2>2. decoder'.then \in {"read", "complete"} => UsageNow' = UsageNow
    BY <1>1, <2>1 DEF UsageNow
  <2> QED
    BY <1>1, <2>1, <2>2, UsageFrame
<1> QED
  BY <1>2, <1>3 DEF Emit

LEMMA UsageTook ==
    ASSUME ReaderTypes, Took, UsageOK
    PROVE  UsageOK'
<1>1. /\ heard' = heard /\ decoder' = decoder /\ chan' = Tail(chan) /\ chan # <<>> /\ chan \in Seq(Printable)
      /\ UsageRead' = IF Head(chan).kind = "usage" THEN Head(chan).n ELSE UsageRead
      /\ dialect' = dialect /\ usage' = usage
  BY AsideHeard, ItemsPrint DEF Took, ReaderTypes, Aside, protocol, decoding
<1>2. PICK x, t, u : x = NumOf("usage", Head(chan)) /\ t = Numbered("usage", Tail(chan)) /\ u = UsageRead
  OBVIOUS
<1>3. Numbered("usage", chan) = x \o t /\ Head(chan) \in Printable /\ Tail(chan) \in Seq(Printable)
  BY <1>1, <1>2, NumHead
<1>4. x \in Seq(Payload) /\ t \in Seq(Payload)
  BY <1>2, <1>3, NumOne, NumJoin
<1>5. Latest(x \o t, u) = Latest(t, Latest(x, u)) /\ Latest(x, u) = IF Head(chan).kind = "usage" THEN Head(chan).n ELSE u
  BY <1>2, <1>4, LatestJoin, LatestNum
<1>6. UsageNow' = UsageNow
  BY <1>1, <1>2, <1>3, <1>5 DEF UsageNow
<1> QED
  BY <1>1, <1>6, UsageFrame

LEMMA UsageSettled == ASSUME Settled, UsageOK PROVE UsageOK'
<1>1. heard' = heard /\ decoder' = decoder /\ chan' = chan /\ UsageRead' = UsageRead /\ dialect' = dialect /\ usage' = usage
  BY AsideHeard DEF Settled, Aside, protocol, decoding
<1>2. UsageNow' = UsageNow
  BY <1>1 DEF UsageNow
<1> QED
  BY <1>1, <1>2, UsageFrame

-----------------------------------------------------------------------------
(* The calls. Which of them are delivered, and which are open.               *)
LEMMA CallsNext ==
    ASSUME UNCHANGED protocol, Accounted(heard', Delivered', Open'), Placed(Delivered', Open', said', decoder'.then)
    PROVE  CallsOK'
<1>1. dialect' = dialect /\ style' = style
  BY DEF protocol
<1>2. Accounted(heard, Delivered, Open)' <=> Accounted(heard', Delivered', Open')
  BY <1>1 DEF Accounted, OwnerIn, OwnersIn
<1>3. Placed(Delivered, Open, said, decoder.then)' <=> Placed(Delivered', Open', said', decoder'.then)
  BY <1>1 DEF Placed
<1> QED
  BY <1>2, <1>3 DEF CallsOK

LEMMA MadeOfLine ==
    ASSUME WireTypes, LineOK, CallsCounted, NEW c \in Nat \ {0}
    PROVE  MadeIn(sent, c) = IF line.n # 0 /\ line.call = c THEN MadeIn(heard, c) \o <<line.n>> ELSE MadeIn(heard, c)
<1>1. CASE line.n = 0
  BY <1>1, HeardFacts
<1>2. CASE line.n # 0
  <2>1. sent = Append(heard, PieceOf(line)) /\ PieceOf(line) \in Piece /\ heard \in Seq(Piece) /\ line.n = Len(heard) + 1
    BY <1>2, HeardFacts
  <2>2. PieceOf(line).call = line.call
    BY DEF PieceOf
  <2>3. MadeIn(sent, c) = MadeIn(heard, c) \o (IF line.call = c THEN <<line.n>> ELSE <<>>)
    BY <2>1, <2>2, MadeAppend
  <2>4. MadeIn(heard, c) \o <<>> = MadeIn(heard, c)
    BY <2>1, PlacesPayload, ConcatEmptySeq
  <2> QED
    BY <1>2, <2>3, <2>4
<1> QED
  BY <1>1, <1>2

LEMMA CountOfLine ==
    ASSUME WireTypes, LineOK, CallsCounted
    PROVE  /\ CallCount(sent) = IF line.n # 0 /\ line.call = CallCount(heard) + 1 THEN CallCount(heard) + 1 ELSE CallCount(heard)
           /\ CallCount(heard) \in Nat
<1>1. CASE line.n = 0
  <2>1. heard = sent /\ Len(heard) \in Nat
    BY <1>1, HeardFacts, LenProperties
  <2> QED
    BY <1>1, <2>1 DEF CallsCounted, Counted
<1>2. CASE line.n # 0
  <2>1. Len(heard) \in Nat
    BY HeardFacts, LenProperties
  <2> QED
    BY <1>2, <2>1, HeardCounts DEF CallsCounted, Counted
<1> QED
  BY <1>1, <1>2

\* What is no piece of a call changes nothing about the calls.
LEMMA QuietCalls ==
    ASSUME WireTypes, LineOK, CallsCounted, NEW d, NEW o, Accounted(heard, d, o), line.n = 0 \/ line.call = 0
    PROVE  Accounted(sent, d, o)
<1>1. PICK N : N = CallCount(heard)
  OBVIOUS
<1>2. N \in Nat /\ CallCount(sent) = N
  BY <1>1, CountOfLine
<1>3. \A c \in 1..N : MadeIn(sent, c) = MadeIn(heard, c)
  <2> TAKE c \in 1..N
  <2>1. c \in Nat \ {0}
    BY <1>2
  <2> QED
    BY <2>1, MadeOfLine
<1>4. /\ Len(d) + Len(o) = N
      /\ \A k \in DOMAIN o : OwnerIn(o, k) \in 1..N /\ o[k].args = MadeIn(heard, OwnerIn(o, k))
      /\ \A j, k \in DOMAIN o : OwnerIn(o, j) = OwnerIn(o, k) => j = k
      /\ \A e \in ToSet(d) : \E c \in (1..N) \ OwnersIn(o) : e = MadeIn(heard, c)
      /\ \A c \in (1..N) \ OwnersIn(o) : MadeIn(heard, c) \in ToSet(d)
  BY <1>1 DEF Accounted
<1> QED
  BY <1>2, <1>3, <1>4 DEF Accounted

ArgsOf(o) == [k \in DOMAIN o |-> o[k].args]
LEMMA ArgsType ==
    ASSUME NEW o \in Seq(CallEntry)
    PROVE  ArgsOf(o) \in Text /\ Len(ArgsOf(o)) = Len(o) /\ ToSet(ArgsOf(o)) = {o[k].args : k \in DOMAIN o}
<1>1. Len(o) \in Nat /\ DOMAIN o = 1..Len(o) /\ \A k \in DOMAIN o : o[k] \in CallEntry
  BY LenProperties, ElementOfSeq
<1>2. \A k \in DOMAIN o : o[k].args \in Payload
  BY <1>1 DEF CallEntry, Payload
<1>3. PICK a : a = ArgsOf(o)
  OBVIOUS
<1>4. a \in [1..Len(o) -> Payload] /\ \A k \in 1..Len(o) : a[k] = o[k].args
  BY <1>1, <1>2, <1>3 DEF ArgsOf
<1>5. a \in Seq(Payload)
  BY <1>1, <1>4, SeqDef
<1>6. Len(a) = Len(o)
  <2>1. Len(a) \in Nat /\ 1..Len(a) = 1..Len(o)
    BY <1>4, <1>5, LenProperties
  <2> QED
    BY <1>1, <2>1, SameInterval
<1>7. ToSet(a) = {o[k].args : k \in DOMAIN o}
  BY <1>1, <1>4 DEF ToSet
<1> QED
  BY <1>3, <1>5, <1>6, <1>7 DEF Text

LEMMA FlushedCalls ==
    ASSUME NEW h, NEW d \in Text, NEW o \in Seq(CallEntry), Accounted(h, d, o)
    PROVE  Accounted(h, d \o ArgsOf(o), <<>>)
<1>1. PICK N, a, D : N = CallCount(h) /\ a = ArgsOf(o) /\ D = d \o a
  OBVIOUS
<1>2. a \in Seq(Payload) /\ d \in Seq(Payload) /\ Len(a) = Len(o) /\ ToSet(a) = {o[k].args : k \in DOMAIN o}
  BY <1>1, ArgsType DEF Text
<1>3. ToSet(D) = ToSet(d) \cup ToSet(a) /\ Len(D) = Len(d) + Len(a) /\ Len(D) \in Nat
  <2>1. d \in Seq(Payload) /\ a \in Seq(Payload) /\ D = d \o a
    BY <1>1, <1>2
  <2>2. ToSet(d \o a) = ToSet(d) \cup ToSet(a)
    BY ONLY <2>1, SetOf
  <2>3. Len(d \o a) = Len(d) + Len(a) /\ d \o a \in Seq(Payload)
    BY <2>1, ConcatProperties
  <2>4. Len(d \o a) \in Nat
    BY <2>3, LenProperties
  <2> QED
    BY <2>1, <2>2, <2>3, <2>4
<1>4. /\ Len(d) + Len(o) = N
      /\ \A k \in DOMAIN o : OwnerIn(o, k) \in 1..N /\ o[k].args = MadeIn(h, OwnerIn(o, k))
      /\ \A e \in ToSet(d) : \E c \in (1..N) \ OwnersIn(o) : e = MadeIn(h, c)
      /\ \A c \in (1..N) \ OwnersIn(o) : MadeIn(h, c) \in ToSet(d)
  BY <1>1 DEF Accounted
<1>5. Len(D) + Len(<<>>) = N
  BY <1>2, <1>3, <1>4
<1>6. OwnersIn(<<>>) = {} /\ DOMAIN <<>> = {}
  BY DEF OwnersIn
<1>7. \A e \in ToSet(D) : \E c \in 1..N : e = MadeIn(h, c)
  BY <1>2, <1>3, <1>4
<1>8. \A c \in 1..N : MadeIn(h, c) \in ToSet(D)
  <2> TAKE c \in 1..N
  <2>1. CASE c \in OwnersIn(o)
    BY <1>2, <1>3, <1>4, <2>1 DEF OwnersIn
  <2>2. CASE c \notin OwnersIn(o)
    BY <1>3, <1>4, <2>2
  <2> QED
    BY <2>1, <2>2
<1> QED
  BY <1>1, <1>5, <1>6, <1>7, <1>8 DEF Accounted

\* The first piece of a call, which becomes an entry.
LEMMA BegunCall ==
    ASSUME WireTypes, LineOK, CallsCounted, line.kind = "call", line.call = CallCount(heard) + 1,
           NEW d \in Text, NEW o \in Seq(CallEntry), NEW e \in CallEntry, Accounted(heard, d, o),
           e.args = <<line.n>>, dialect = "chat" => Len(o) = CallCount(heard), dialect # "chat" => e.index = line.call
    PROVE  Accounted(sent, d, Append(o, e))
<1>1. PICK N, n, p : N = CallCount(heard) /\ n = Len(o) /\ p = Append(o, e)
  OBVIOUS
<1>2. /\ n \in Nat /\ DOMAIN o = 1..n /\ DOMAIN p = 1..(n + 1) /\ Len(p) = n + 1 /\ Len(d) \in Nat
      /\ \A i \in 1..n : p[i] = o[i]
      /\ p[n + 1] = e
  BY <1>1, LenProperties, AppendProperties DEF Text
<1>3. /\ line.n # 0 /\ line.n \in Nat /\ N \in Nat /\ MadeIn(heard, N + 1) = <<>>
  BY <1>1, FirstPiece
<1>4. CallCount(sent) = N + 1
  BY <1>1, <1>3, CountOfLine
<1>5. \A c \in 1..N : MadeIn(sent, c) = MadeIn(heard, c)
  <2> TAKE c \in 1..N
  <2>1. c \in Nat \ {0} /\ c # line.call
    BY <1>1, <1>3
  <2> QED
    BY <2>1, MadeOfLine
<1>6. MadeIn(sent, N + 1) = <<line.n>>
  <2>1. N + 1 \in Nat \ {0} /\ line.call = N + 1
    BY <1>1, <1>3
  <2>2. MadeIn(sent, N + 1) = <<>> \o <<line.n>>
    BY <1>3, <2>1, MadeOfLine
  <2>3. <<line.n>> \in Seq(Nat)
    BY <1>3
  <2> QED
    BY <2>2, <2>3, ConcatEmptySeq
<1>7. /\ Len(d) + n = N
      /\ \A k \in 1..n : OwnerIn(o, k) \in 1..N /\ o[k].args = MadeIn(heard, OwnerIn(o, k))
      /\ \A j, k \in 1..n : OwnerIn(o, j) = OwnerIn(o, k) => j = k
      /\ \A x \in ToSet(d) : \E c \in (1..N) \ OwnersIn(o) : x = MadeIn(heard, c)
      /\ \A c \in (1..N) \ OwnersIn(o) : MadeIn(heard, c) \in ToSet(d)
  BY <1>1, <1>2 DEF Accounted
<1>8. (\A k \in 1..n : OwnerIn(p, k) = OwnerIn(o, k)) /\ OwnerIn(p, n + 1) = N + 1
  <2>1. \A k \in 1..n : OwnerIn(p, k) = OwnerIn(o, k)
    BY <1>2 DEF OwnerIn
  <2>2. dialect = "chat" => n = N
    BY <1>1
  <2>3. OwnerIn(p, n + 1) = N + 1
    BY <1>1, <1>2, <2>2 DEF OwnerIn
  <2> QED
    BY <2>1, <2>3
<1>9. OwnersIn(p) = OwnersIn(o) \cup {N + 1}
  <2>1. \A k : k \in 1..(n + 1) <=> k \in 1..n \/ k = n + 1
    BY <1>2
  <2> QED
    BY <1>2, <1>8, <2>1 DEF OwnersIn
<1>10. OwnersIn(o) \subseteq 1..N
  BY <1>2, <1>7 DEF OwnersIn
<1>11. (1..(N + 1)) \ OwnersIn(p) = (1..N) \ OwnersIn(o)
  BY <1>3, <1>9, <1>10
<1>12. Len(d) + Len(p) = N + 1
  <2>1. Len(d) + n = N
    BY <1>7
  <2> QED
    BY ONLY <1>2, <1>3, <2>1
<1>13. \A k \in 1..(n + 1) : OwnerIn(p, k) \in 1..(N + 1) /\ p[k].args = MadeIn(sent, OwnerIn(p, k))
  <2> TAKE k \in 1..(n + 1)
  <2>1. CASE k = n + 1
    <3>1. N + 1 \in 1..(N + 1)
      BY <1>3
    <3> QED
      BY <1>2, <1>6, <1>8, <2>1, <3>1
  <2>2. CASE k # n + 1
    <3>1. k \in 1..n
      BY <1>2, <2>2
    <3>2. OwnerIn(p, k) \in 1..N /\ p[k].args = MadeIn(heard, OwnerIn(p, k))
      BY <1>2, <1>7, <1>8, <3>1
    <3>3. OwnerIn(p, k) \in 1..(N + 1)
      BY <1>3, <3>2
    <3> QED
      BY <1>5, <3>2, <3>3
  <2> QED
    BY <2>1, <2>2
<1>14. \A j, k \in 1..(n + 1) : OwnerIn(p, j) = OwnerIn(p, k) => j = k
  <2> TAKE j, k \in 1..(n + 1)
  <2>1. (j = n + 1 \/ j \in 1..n) /\ (k = n + 1 \/ k \in 1..n)
    BY <1>2
  <2>2. \A i \in 1..n : OwnerIn(o, i) # N + 1
    BY <1>3, <1>7
  <2> QED
    BY <1>7, <1>8, <2>1, <2>2
<1>15. \A x \in ToSet(d) : \E c \in (1..(N + 1)) \ OwnersIn(p) : x = MadeIn(sent, c)
  BY <1>5, <1>7, <1>11
<1>16. \A c \in (1..(N + 1)) \ OwnersIn(p) : MadeIn(sent, c) \in ToSet(d)
  BY <1>5, <1>7, <1>11
<1> QED
  BY <1>1, <1>2, <1>4, <1>12, <1>13, <1>14, <1>15, <1>16 DEF Accounted

\* A further piece of an open call.
LEMMA LongerCall ==
    ASSUME WireTypes, LineOK, CallsCounted, line.kind = "call", line.call # CallCount(heard) + 1,
           NEW d, NEW o \in Seq(CallEntry), NEW k \in DOMAIN o, NEW e \in CallEntry, Accounted(heard, d, o),
           OwnerIn(o, k) = line.call, e.args = o[k].args \o <<line.n>>, e.index = o[k].index
    PROVE  Accounted(sent, d, [o EXCEPT ![k] = e])
<1>1. PICK N, p : N = CallCount(heard) /\ p = [o EXCEPT ![k] = e]
  OBVIOUS
<1>2. DOMAIN p = DOMAIN o /\ (\A i \in DOMAIN o : i # k => p[i] = o[i]) /\ p[k] = e /\ Len(p) = Len(o)
  <2>1. Len(o) \in Nat /\ p \in Seq(CallEntry) /\ DOMAIN o = 1..Len(o)
    BY <1>1, LenProperties, ExceptSeq
  <2>2. DOMAIN p = DOMAIN o /\ (\A i \in DOMAIN o : i # k => p[i] = o[i]) /\ p[k] = e
    BY <1>1
  <2>3. Len(p) \in Nat /\ 1..Len(p) = 1..Len(o)
    BY <2>1, <2>2, LenProperties
  <2> QED
    BY <2>1, <2>2, <2>3, SameInterval
<1>3. line.n # 0 /\ N \in Nat /\ CallCount(sent) = N
  BY <1>1, FirstPiece, CountOfLine
<1>4. \A c \in 1..N : MadeIn(sent, c) = IF c = line.call THEN MadeIn(heard, c) \o <<line.n>> ELSE MadeIn(heard, c)
  <2> TAKE c \in 1..N
  <2>1. c \in Nat \ {0}
    BY <1>3
  <2> QED
    BY <1>3, <2>1, MadeOfLine
<1>5. \A i \in DOMAIN o : OwnerIn(p, i) = OwnerIn(o, i)
  BY <1>2 DEF OwnerIn
<1>6. OwnersIn(p) = OwnersIn(o) /\ line.call \in OwnersIn(o)
  BY <1>2, <1>5 DEF OwnersIn
<1>7. /\ Len(d) + Len(o) = N
      /\ \A i \in DOMAIN o : OwnerIn(o, i) \in 1..N /\ o[i].args = MadeIn(heard, OwnerIn(o, i))
      /\ \A j, i \in DOMAIN o : OwnerIn(o, j) = OwnerIn(o, i) => j = i
      /\ \A x \in ToSet(d) : \E c \in (1..N) \ OwnersIn(o) : x = MadeIn(heard, c)
      /\ \A c \in (1..N) \ OwnersIn(o) : MadeIn(heard, c) \in ToSet(d)
  BY <1>1 DEF Accounted
<1>8. \A i \in DOMAIN p : OwnerIn(p, i) \in 1..N /\ p[i].args = MadeIn(sent, OwnerIn(p, i))
  <2> TAKE i \in DOMAIN p
  <2>1. CASE i = k
    BY <1>2, <1>4, <1>5, <1>7, <2>1
  <2>2. CASE i # k
    BY <1>2, <1>4, <1>5, <1>7, <2>2
  <2> QED
    BY <2>1, <2>2
<1>9. \A j, i \in DOMAIN p : OwnerIn(p, j) = OwnerIn(p, i) => j = i
  BY <1>2, <1>5, <1>7
<1>10. \A c \in (1..N) \ OwnersIn(o) : MadeIn(sent, c) = MadeIn(heard, c)
  BY <1>4, <1>6
<1>11. Accounted(sent, d, p)
  BY <1>2, <1>3, <1>6, <1>7, <1>8, <1>9, <1>10 DEF Accounted
<1> QED
  BY <1>1, <1>11

\* A call that came whole.
LEMMA WholeCall ==
    ASSUME WireTypes, LineOK, CallsCounted, line.kind = "call", line.call = CallCount(heard) + 1,
           NEW d \in Text, NEW x, x = << <<line.n>> >>, Accounted(heard, d, <<>>)
    PROVE  Accounted(sent, d \o x, <<>>)
<1>1. PICK N, D : N = CallCount(heard) /\ D = d \o x
  OBVIOUS
<1>2. /\ line.n # 0 /\ line.n \in Nat /\ N \in Nat /\ MadeIn(heard, N + 1) = <<>>
  BY <1>1, FirstPiece
<1>3. CallCount(sent) = N + 1
  BY <1>1, <1>2, CountOfLine
<1>4. \A c \in 1..N : MadeIn(sent, c) = MadeIn(heard, c)
  <2> TAKE c \in 1..N
  <2>1. c \in Nat \ {0} /\ c # line.call
    BY <1>1, <1>2
  <2> QED
    BY <2>1, MadeOfLine
<1>5. MadeIn(sent, N + 1) = <<line.n>>
  <2>1. N + 1 \in Nat \ {0} /\ line.call = N + 1
    BY <1>1, <1>2
  <2>2. MadeIn(sent, N + 1) = <<>> \o <<line.n>>
    BY <1>2, <2>1, MadeOfLine
  <2>3. <<line.n>> \in Seq(Nat)
    BY <1>2
  <2> QED
    BY <2>2, <2>3, ConcatEmptySeq
<1>6. <<line.n>> \in Seq(Nat)
  BY <1>2
<1>7. <<line.n>> \in Payload
  BY <1>6 DEF Payload
<1>8. x \in Seq(Payload) /\ Len(x) = 1 /\ ToSet(x) = {<<line.n>>}
  BY <1>7, SetOfOne
<1>9. d \in Seq(Payload) /\ Len(d) \in Nat
  BY LenProperties DEF Text
<1>10. ToSet(D) = ToSet(d) \cup ToSet(x) /\ Len(D) = Len(d) + Len(x)
  <2>1. d \in Seq(Payload) /\ x \in Seq(Payload) /\ D = d \o x
    BY <1>1, <1>8, <1>9
  <2>2. ToSet(d \o x) = ToSet(d) \cup ToSet(x)
    BY ONLY <2>1, SetOf
  <2>3. Len(d \o x) = Len(d) + Len(x) /\ d \o x \in Seq(Payload)
    BY <2>1, ConcatProperties
  <2>4. Len(d \o x) \in Nat
    BY <2>3, LenProperties
  <2> QED
    BY <2>1, <2>2, <2>3, <2>4
<1>11. OwnersIn(<<>>) = {} /\ DOMAIN <<>> = {} /\ Len(<<>>) = 0
  BY DEF OwnersIn
<1>12. /\ Len(d) + 0 = N
       /\ \A e \in ToSet(d) : \E c \in 1..N : e = MadeIn(heard, c)
       /\ \A c \in 1..N : MadeIn(heard, c) \in ToSet(d)
  BY <1>1, <1>11 DEF Accounted
<1>13. Len(D) + 0 = N + 1
  BY <1>8, <1>9, <1>10, <1>12
<1>14. \A c : c \in 1..(N + 1) <=> c \in 1..N \/ c = N + 1
  BY <1>2
<1>15. \A e \in ToSet(D) : \E c \in 1..(N + 1) : e = MadeIn(sent, c)
  BY <1>4, <1>5, <1>8, <1>10, <1>12, <1>14
<1>16. \A c \in 1..(N + 1) : MadeIn(sent, c) \in ToSet(D)
  BY <1>4, <1>5, <1>8, <1>10, <1>12, <1>14
<1> QED
  BY <1>1, <1>3, <1>11, <1>13, <1>15, <1>16 DEF Accounted

\* A call that is closed.
LEMMA ClosedCall ==
    ASSUME dialect # "chat", NEW h, NEW d \in Text, NEW o \in Seq(CallEntry), NEW k \in DOMAIN o, Accounted(h, d, o),
           NEW x, x = <<o[k].args>>
    PROVE  Accounted(h, d \o x, RemoveAt(o, k))
<1>1. PICK N, D, n, p : N = CallCount(h) /\ D = d \o x /\ n = Len(o) /\ p = RemoveAt(o, k)
  OBVIOUS
<1>2. n \in Nat /\ DOMAIN o = 1..n /\ k \in 1..n /\ o[k] \in CallEntry
  BY <1>1, LenProperties, ElementOfSeq
<1>3. p \in Seq(CallEntry) /\ Len(p) = n - 1 /\ \A i \in 1..(n - 1) : p[i] = IF i < k THEN o[i] ELSE o[i + 1]
  BY <1>1, <1>2, RemoveOne
<1>4. DOMAIN p = 1..(n - 1)
  BY <1>3, LenProperties
<1>5. o[k].args \in Payload
  BY <1>2 DEF CallEntry, Payload
<1>6. x \in Seq(Payload) /\ Len(x) = 1 /\ ToSet(x) = {o[k].args}
  BY <1>5, SetOfOne
<1>7. d \in Seq(Payload) /\ Len(d) \in Nat
  BY LenProperties DEF Text
<1>8. ToSet(D) = ToSet(d) \cup ToSet(x) /\ Len(D) = Len(d) + Len(x)
  <2>1. d \in Seq(Payload) /\ x \in Seq(Payload) /\ D = d \o x
    BY <1>1, <1>6, <1>7
  <2>2. ToSet(d \o x) = ToSet(d) \cup ToSet(x)
    BY ONLY <2>1, SetOf
  <2>3. Len(d \o x) = Len(d) + Len(x) /\ d \o x \in Seq(Payload)
    BY <2>1, ConcatProperties
  <2>4. Len(d \o x) \in Nat
    BY <2>3, LenProperties
  <2> QED
    BY <2>1, <2>2, <2>3, <2>4
<1>9. /\ Len(d) + n = N
      /\ \A i \in 1..n : o[i].index \in 1..N /\ o[i].args = MadeIn(h, o[i].index)
      /\ \A j, i \in 1..n : o[j].index = o[i].index => j = i
      /\ \A e \in ToSet(d) : \E c \in (1..N) \ OwnersIn(o) : e = MadeIn(h, c)
      /\ \A c \in (1..N) \ OwnersIn(o) : MadeIn(h, c) \in ToSet(d)
  BY <1>1, <1>2 DEF Accounted, OwnerIn
<1>10. OwnersIn(o) = {o[i].index : i \in 1..n} /\ OwnersIn(p) = {p[i].index : i \in 1..(n - 1)}
  BY <1>2, <1>4 DEF OwnersIn, OwnerIn
<1> DEFINE g(i) == IF i < k THEN i ELSE i + 1
<1>11. \A i \in 1..(n - 1) : g(i) \in 1..n /\ g(i) # k /\ p[i] = o[g(i)]
  BY <1>2, <1>3
<1>12. \A j, i \in 1..(n - 1) : g(j) = g(i) => j = i
  BY <1>2
<1>13. \A j \in 1..n : j # k => \E i \in 1..(n - 1) : g(i) = j
  <2> TAKE j \in 1..n
  <2>1. CASE j < k
    BY <1>2, <2>1
  <2>2. CASE j > k
    <3>1. j - 1 \in 1..(n - 1) /\ g(j - 1) = j
      BY <1>2, <2>2
    <3> QED
      BY <3>1
  <2> QED
    BY <1>2, <2>1, <2>2
<1> HIDE DEF g
<1>14. OwnersIn(p) = OwnersIn(o) \ {o[k].index}
  <2>1. ASSUME NEW c \in OwnersIn(p) PROVE c \in OwnersIn(o) \ {o[k].index}
    <3>1. PICK i \in 1..(n - 1) : c = p[i].index
      BY <1>10, <2>1
    <3>2. g(i) \in 1..n /\ g(i) # k /\ c = o[g(i)].index
      BY <1>11, <3>1
    <3> QED
      BY <1>2, <1>9, <1>10, <3>2
  <2>2. ASSUME NEW c \in OwnersIn(o), c # o[k].index PROVE c \in OwnersIn(p)
    <3>1. PICK j \in 1..n : c = o[j].index
      BY <1>10, <2>2
    <3>2. PICK i \in 1..(n - 1) : g(i) = j
      BY <1>13, <2>2, <3>1
    <3> QED
      BY <1>10, <1>11, <3>1, <3>2
  <2> QED
    BY <2>1, <2>2
<1>15. Len(D) + Len(p) = N
  BY <1>2, <1>3, <1>6, <1>7, <1>8, <1>9
<1>16. \A i \in 1..(n - 1) : OwnerIn(p, i) \in 1..N /\ p[i].args = MadeIn(h, OwnerIn(p, i))
  BY <1>9, <1>11 DEF OwnerIn
<1>17. \A j, i \in 1..(n - 1) : OwnerIn(p, j) = OwnerIn(p, i) => j = i
  BY <1>9, <1>11, <1>12 DEF OwnerIn
<1>18. o[k].index \in 1..N /\ o[k].args = MadeIn(h, o[k].index)
  BY <1>2, <1>9
<1>19. \A e \in ToSet(D) : \E c \in (1..N) \ OwnersIn(p) : e = MadeIn(h, c)
  BY <1>6, <1>8, <1>9, <1>14, <1>18
<1>20. \A c \in (1..N) \ OwnersIn(p) : MadeIn(h, c) \in ToSet(D)
  BY <1>6, <1>8, <1>9, <1>14, <1>18
<1> QED
  BY <1>1, <1>4, <1>15, <1>16, <1>17, <1>19, <1>20 DEF Accounted

\* A fragment finds its call by what names it, and begins one if it is the first.
LEMMA ChatCall ==
    ASSUME WireTypes, DecoderTypes, LineOK, CallsCounted, dialect = "chat", line.kind = "call", Accumulate(Fragment(line)),
           NEW d \in Text, Accounted(heard, d, calls), Placed(d, calls, said, "read")
    PROVE  Accounted(sent, d, calls') /\ Placed(d, calls', said, "read")
<1>1. PICK N, c, f : N = CallCount(heard) /\ c = line.call /\ f = Fragment(line)
  OBVIOUS
<1>2. /\ N \in Nat /\ c \in 1..(N + 1) /\ line.n \in Nat /\ c \in 0..MaxPieces /\ MaxPieces \in Nat
      /\ (Made[line.call][1] = line.n <=> c = N + 1)
      /\ style \in {"index", "id", "bare"} /\ said = "more"
      /\ style = "bare" => c \in {N, N + 1}
  BY <1>1, FirstPiece, StreamAssumption DEF WireTypes, Event, LineOK
<1>3. calls \in Seq(CallEntry) /\ Len(calls) \in Nat /\ DOMAIN calls = 1..Len(calls)
  BY LenProperties DEF DecoderTypes
<1>4. d = <<>> /\ Len(calls) = N
  <2>1. d = <<>>
    BY <1>2 DEF Placed
  <2>2. Len(d) = 0
    BY <2>1
  <2>3. Len(d) + Len(calls) = N
    BY <1>1 DEF Accounted
  <2> QED
    BY <1>2, <1>3, <2>1, <2>2, <2>3
<1>5. \A k \in 1..N : /\ calls[k].index = IF style = "index" THEN k ELSE 0
                      /\ calls[k].id = IF style = "bare" THEN 0 ELSE k
                      /\ calls[k] \in CallEntry
  <2>1. \A k \in 1..N : calls[k] \in CallEntry
    BY <1>3, <1>4, ElementOfSeq
  <2> QED
    BY <1>3, <1>4, <2>1 DEF Placed
<1>6. /\ f.index = IF style = "index" THEN c ELSE 0
      /\ f.id = IF style = "id" \/ (style = "index" /\ c = N + 1) THEN c ELSE 0
      /\ f.named = (c = N + 1) /\ f.arg = line.n
  BY <1>1, <1>2 DEF Fragment
<1>7. CASE c = N + 1
  <2>1. Slot(f) = {}
    <3>1. CASE style = "index"
      <4>1. Slot(f) = {k \in 1..N : calls[k].index = c}
        BY <1>2, <1>3, <1>4, <1>6, <3>1 DEF Slot
      <4> QED
        BY <1>2, <1>5, <1>7, <3>1, <4>1
    <3>2. CASE style = "id"
      <4>1. Slot(f) = {k \in 1..N : calls[k].id = c}
        BY <1>2, <1>3, <1>4, <1>6, <3>2 DEF Slot
      <4> QED
        BY <1>2, <1>5, <1>7, <3>2, <4>1
    <3>3. CASE style = "bare"
      BY <1>6, <1>7, <3>3 DEF Slot
    <3> QED
      BY <1>2, <3>1, <3>2, <3>3
  <2>2. PICK e : e = [index |-> f.index, id |-> f.id, args |-> <<f.arg>>]
    OBVIOUS
  <2>3. calls' = Append(calls, e)
    BY <1>1, <2>1, <2>2 DEF Accumulate
  <2>4. e.args = <<line.n>> /\ e.index = f.index /\ e.id = f.id
    BY <1>6, <2>2
  <2>5. e \in CallEntry
    <3>1. <<line.n>> \in Seq(Nat)
      BY <1>2
    <3> QED
      BY <1>2, <1>6, <2>2, <3>1 DEF CallEntry
  <2>6. Accounted(sent, d, Append(calls, e))
    BY <1>1, <1>3, <1>4, <1>7, <2>4, <2>5, BegunCall
  <2>7. DOMAIN calls' = 1..(N + 1) /\ calls'[N + 1] = e /\ \A k \in 1..N : calls'[k] = calls[k]
    <3>1. /\ Append(calls, e) \in Seq(CallEntry) /\ Len(Append(calls, e)) = Len(calls) + 1
          /\ \A k \in 1..Len(calls) : Append(calls, e)[k] = calls[k]
          /\ Append(calls, e)[Len(calls) + 1] = e
      BY <1>3, <2>5, AppendProperties
    <3> QED
      BY <1>4, <2>3, <3>1, LenProperties
  <2>8. \A k \in 1..(N + 1) : /\ calls'[k].index = IF style = "index" THEN k ELSE 0
                              /\ calls'[k].id = IF style = "bare" THEN 0 ELSE k
    <3> TAKE k \in 1..(N + 1)
    <3>1. CASE k = N + 1
      BY <1>2, <1>6, <1>7, <2>4, <2>7, <3>1
    <3>2. CASE k # N + 1
      <4>1. k \in 1..N
        BY <1>2, <3>2
      <4> QED
        BY <1>5, <2>7, <4>1
    <3> QED
      BY <3>1, <3>2
  <2>9. Placed(d, calls', said, "read")
    BY <1>4, <2>7, <2>8 DEF Placed
  <2> QED
    BY <2>3, <2>6, <2>9
<1>8. CASE c # N + 1
  <2>1. c \in 1..N /\ c # 0
    BY <1>2, <1>8
  <2>2. Slot(f) = {c}
    <3>1. CASE style = "index"
      <4>1. Slot(f) = {k \in 1..N : calls[k].index = c}
        BY <1>2, <1>3, <1>4, <1>6, <3>1 DEF Slot
      <4> QED
        BY <1>5, <2>1, <3>1, <4>1
    <3>2. CASE style = "id"
      <4>1. Slot(f) = {k \in 1..N : calls[k].id = c}
        BY <1>2, <1>3, <1>4, <1>6, <3>2 DEF Slot
      <4> QED
        BY <1>5, <2>1, <3>2, <4>1
    <3>3. CASE style = "bare"
      <4>1. c = N /\ N # 0
        BY <1>2, <1>8, <2>1, <3>3
      <4>2. Slot(f) = {Len(calls)} \ {0}
        BY <1>6, <1>8, <3>3 DEF Slot
      <4> QED
        BY <1>4, <4>1, <4>2
    <3> QED
      BY <1>2, <3>1, <3>2, <3>3
  <2>3. PICK k : k = CHOOSE j \in Slot(f) : TRUE
    OBVIOUS
  <2>4. k = c
    <3>1. k \in Slot(f)
      BY <2>2, <2>3
    <3> QED
      BY <2>2, <3>1
  <2>5. calls' = [calls EXCEPT ![k].args = Append(@, f.arg), ![k].id = IF f.id # 0 THEN f.id ELSE @]
    BY <1>1, <2>2, <2>3 DEF Accumulate
  <2>6. /\ calls[c] = [index |-> calls[c].index, id |-> calls[c].id, args |-> calls[c].args]
        /\ calls[c].index \in 0..MaxPieces /\ calls[c].id \in 0..MaxPieces /\ calls[c].args \in Seq(Nat)
    BY <1>5, <2>1 DEF CallEntry
  <2>15. PICK e : e = [calls[c] EXCEPT !.args = Append(@, f.arg), !.id = IF f.id # 0 THEN f.id ELSE @]
    OBVIOUS
  <2>16. PICK r : r = calls[c]
    OBVIOUS
  <2>7. e = [index |-> calls[c].index, id |-> IF f.id # 0 THEN f.id ELSE calls[c].id, args |-> Append(calls[c].args, line.n)]
    <3>1. r = [index |-> r.index, id |-> r.id, args |-> r.args]
      BY <2>6, <2>16
    <3>2. e = [r EXCEPT !.args = Append(@, line.n), !.id = IF f.id # 0 THEN f.id ELSE @]
      BY <1>6, <2>15, <2>16
    <3>3. e = [index |-> r.index, id |-> IF f.id # 0 THEN f.id ELSE r.id, args |-> Append(r.args, line.n)]
      BY ONLY <3>1, <3>2
    <3> QED
      BY <2>16, <3>3
  <2>8. calls' = [calls EXCEPT ![c] = e]
    BY <2>4, <2>5, <2>15
  <2>9. Append(calls[c].args, line.n) \in Seq(Nat) /\ Append(calls[c].args, line.n) = calls[c].args \o <<line.n>>
    BY <1>2, <2>6, AppendProperties, AppendIsConcat
  <2>10. e \in CallEntry /\ e.index = calls[c].index /\ e.args = calls[c].args \o <<line.n>> /\ e.id = IF f.id # 0 THEN f.id ELSE calls[c].id
    BY <1>2, <1>6, <2>6, <2>7, <2>9 DEF CallEntry
  <2>11. Accounted(sent, d, [calls EXCEPT ![c] = e])
    <3>1. OwnerIn(calls, c) = line.call /\ c \in DOMAIN calls
      BY <1>1, <1>3, <1>4, <2>1 DEF OwnerIn
    <3> QED
      BY <1>1, <1>3, <1>8, <2>10, <3>1, LongerCall
  <2>12. DOMAIN calls' = 1..N /\ calls'[c] = e /\ \A j \in 1..N : j # c => calls'[j] = calls[j]
    BY <1>3, <1>4, <2>1, <2>8
  <2>13. \A j \in 1..N : /\ calls'[j].index = IF style = "index" THEN j ELSE 0
                         /\ calls'[j].id = IF style = "bare" THEN 0 ELSE j
    <3> TAKE j \in 1..N
    <3>1. CASE j = c
      BY <1>2, <1>5, <1>6, <1>8, <2>10, <2>12, <3>1
    <3>2. CASE j # c
      BY <1>5, <2>12, <3>2
    <3> QED
      BY <3>1, <3>2
  <2>14. Placed(d, calls', said, "read")
    BY <1>4, <2>12, <2>13 DEF Placed
  <2> QED
    BY <2>8, <2>11, <2>14
<1> QED
  BY <1>7, <1>8

LEMMA MessagesCall ==
    ASSUME WireTypes, DecoderTypes, LineOK, CallsCounted, dialect = "messages", line.kind = "call",
           calls' = IF Made[line.call][1] = line.n
                    THEN Append(WithoutBlock(line.call), [index |-> line.call, id |-> line.call, args |-> <<line.n>>])
                    ELSE [calls EXCEPT ![Block(line.call)].args = Append(@, line.n)],
           NEW d \in Text, Accounted(heard, d, calls)
    PROVE  Accounted(sent, d, calls')
<1>1. PICK N : N = CallCount(heard)
  OBVIOUS
<1>2. /\ N \in Nat /\ line.call \in 1..(N + 1) /\ line.n \in Nat /\ line.call \in 0..MaxPieces /\ MaxPieces \in Nat
      /\ (Made[line.call][1] = line.n <=> line.call = N + 1)
  BY <1>1, FirstPiece, StreamAssumption DEF WireTypes, Event
<1>3. calls \in Seq(CallEntry) /\ DOMAIN calls = 1..Len(calls)
  BY LenProperties DEF DecoderTypes
<1>4. CASE line.call = N + 1
  <2>1. \A k \in DOMAIN calls : calls[k].index \in 1..N
    BY <1>1 DEF Accounted, OwnerIn
  <2>2. WithoutBlock(line.call) = calls
    BY <1>2, <1>4, <2>1 DEF WithoutBlock
  <2>3. PICK e : e = [index |-> line.call, id |-> line.call, args |-> <<line.n>>]
    OBVIOUS
  <2>4. calls' = Append(calls, e) /\ e.args = <<line.n>> /\ e.index = line.call
    BY <1>2, <1>4, <2>2, <2>3
  <2>5. e \in CallEntry
    <3>1. <<line.n>> \in Seq(Nat)
      BY <1>2
    <3> QED
      BY <1>2, <2>3, <3>1 DEF CallEntry
  <2>6. Accounted(sent, d, Append(calls, e))
    BY <1>1, <1>3, <1>4, <2>4, <2>5, BegunCall
  <2> QED
    BY <2>4, <2>6
<1>5. CASE line.call # N + 1
  <2>1. \E k \in DOMAIN calls : calls[k].index = line.call
    BY <1>1, <1>5 DEF LineOK
  <2>2. PICK k : k = Block(line.call)
    OBVIOUS
  <2>3. k \in DOMAIN calls /\ calls[k].index = line.call
    BY <2>1, <2>2, BlockIs
  <2>4. calls[k] \in CallEntry
    BY <1>3, <2>3, ElementOfSeq
  <2>5. /\ calls[k] = [index |-> calls[k].index, id |-> calls[k].id, args |-> calls[k].args]
        /\ calls[k].index \in 0..MaxPieces /\ calls[k].id \in 0..MaxPieces /\ calls[k].args \in Seq(Nat)
    BY <2>4 DEF CallEntry
  <2>12. PICK e : e = [calls[k] EXCEPT !.args = Append(@, line.n)]
    OBVIOUS
  <2>13. PICK r : r = calls[k]
    OBVIOUS
  <2>6. e = [index |-> calls[k].index, id |-> calls[k].id, args |-> Append(calls[k].args, line.n)]
    <3>1. r = [index |-> r.index, id |-> r.id, args |-> r.args]
      BY <2>5, <2>13
    <3>2. e = [r EXCEPT !.args = Append(@, line.n)]
      BY <2>12, <2>13
    <3>3. e = [index |-> r.index, id |-> r.id, args |-> Append(r.args, line.n)]
      BY ONLY <3>1, <3>2
    <3> QED
      BY <2>13, <3>3
  <2>7. calls' = [calls EXCEPT ![k] = e]
    BY <1>2, <1>5, <2>2, <2>12
  <2>8. Append(calls[k].args, line.n) \in Seq(Nat) /\ Append(calls[k].args, line.n) = calls[k].args \o <<line.n>>
    BY <1>2, <2>5, AppendProperties, AppendIsConcat
  <2>9. e \in CallEntry /\ e.index = calls[k].index /\ e.args = calls[k].args \o <<line.n>>
    BY <2>5, <2>6, <2>8 DEF CallEntry
  <2>10. OwnerIn(calls, k) = line.call
    BY <2>3 DEF OwnerIn
  <2>11. Accounted(sent, d, [calls EXCEPT ![k] = e])
    BY <1>1, <1>3, <1>5, <2>3, <2>9, <2>10, LongerCall
  <2> QED
    BY <2>7, <2>11
<1> QED
  BY <1>4, <1>5

GotNow == got \o Numbered("call", chan)
LEMMA HandedCalls ==
    ASSUME ReaderTypes, DecoderTypes, OutOK, At("reading"), UNCHANGED <<dialect, got, chan, cancelled>>,
           NEW items, NEW next, NEW flushing, Fits(items, next, flushing), Handed(items, next, flushing)
    PROVE  /\ Delivered = GotNow /\ Open = calls /\ GotNow \in Text /\ decoder'.then = next
           /\ Delivered' = GotNow \o Numbered("call", items)
           /\ Open' = IF flushing /\ items # <<>> THEN <<>> ELSE calls'
           /\ Numbered("call", items) = <<>> => Delivered' = GotNow
<1>1. decoder = Reading
  BY DEF OutOK, HandOK, At
<1>2. Numbered("call", decoder.out) = <<>> /\ decoder.flush = FALSE
  BY <1>1, ReadingFacts
<1>3. GotNow \in Text
  BY ReadTypes, ConcatProperties DEF GotNow, Text
<1>4. GotNow \o <<>> = GotNow
  BY <1>3, ConcatEmptySeq DEF Text
<1>5. Delivered = GotNow /\ Open = calls
  BY <1>2, <1>4 DEF Delivered, Open, GotNow
<1>6. decoder'.then = next /\ decoder'.flush = (flushing /\ items # <<>>) /\ Numbered("call", decoder'.out) = Numbered("call", items)
  BY HandedFacts
<1>7. Delivered' = GotNow \o Numbered("call", items)
  BY <1>6 DEF Delivered, GotNow
<1>8. Open' = IF flushing /\ items # <<>> THEN <<>> ELSE calls'
  BY <1>6 DEF Open
<1> QED
  BY <1>3, <1>4, <1>5, <1>6, <1>7, <1>8

LEMMA FlushedArgs ==
    ASSUME DecoderTypes
    PROVE  Numbered("call", CallItems) = ArgsOf(calls) /\ ArgsOf(calls) \in Text
<1>1. calls \in Seq(CallEntry)
  BY DEF DecoderTypes
<1>2. ArgsOf(calls) \in Seq(Payload)
  BY <1>1, ArgsType DEF Text
<1>3. CallItems = Items("call", ArgsOf(calls))
  BY DEF CallItems, Items, ArgsOf, Called
<1>4. PICK ns : ns = ArgsOf(calls)
  OBVIOUS
<1>5. Numbered("call", Items("call", ns)) = ns
  BY <1>2, <1>4, NumItems
<1> QED
  BY <1>2, <1>3, <1>4, <1>5 DEF Text

\* Every call that is open is flushed.
LEMMA FlushedOut ==
    ASSUME ReaderTypes, DecoderTypes, OutOK, At("reading"), UNCHANGED <<protocol, got, chan, cancelled, calls>>, dialect = "chat", CallsOK,
           NEW next, Fits(CallItems, next, TRUE), Handed(CallItems, next, TRUE), heard' = heard, said' # "more"
    PROVE  CallsOK'
<1>1. dialect' = dialect
  BY DEF protocol
<1>2. /\ Delivered = GotNow /\ Open = calls /\ GotNow \in Text
      /\ Delivered' = GotNow \o Numbered("call", CallItems)
      /\ Open' = IF CallItems # <<>> THEN <<>> ELSE calls'
  BY <1>1, HandedCalls
<1>3. CallItems = <<>> <=> calls = <<>>
  <2>1. "read" \in Nexts
    BY DEF Nexts
  <2> QED
    BY <2>1, CallItemsFit
<1>4. Open' = <<>> /\ Delivered' = GotNow \o ArgsOf(calls)
  BY <1>2, <1>3, FlushedArgs
<1>5. Accounted(heard, GotNow, calls) /\ calls \in Seq(CallEntry)
  BY <1>2 DEF CallsOK, DecoderTypes
<1>6. Accounted(heard, GotNow \o ArgsOf(calls), <<>>)
  BY <1>2, <1>5, FlushedCalls
<1>7. Accounted(heard', Delivered', Open')
  BY <1>4, <1>6
<1>8. Placed(Delivered', Open', said', decoder'.then)
  <2>1. DOMAIN <<>> = {}
    OBVIOUS
  <2> QED
    BY <1>4, <2>1 DEF Placed
<1> QED
  BY <1>7, <1>8, CallsNext

\* What is not about the calls leaves them as they are.
LEMMA CallsSteady ==
    ASSUME CallsOK, UNCHANGED protocol, heard' = heard, Delivered' = Delivered, Open' = Open,
           said # "more" => said' # "more", decoder'.then = "complete" => Open = <<>>
    PROVE  CallsOK'
<1>1. Accounted(heard', Delivered', Open')
  BY DEF CallsOK
<1>2. Placed(Delivered', Open', said', decoder'.then)
  BY DEF CallsOK, Placed
<1> QED
  BY <1>1, <1>2, CallsNext

LEMMA CallFlowSteady ==
    ASSUME CallFlow, UNCHANGED protocol, heard' = heard, decoder' = decoder, calls' = calls, Delivered' = Delivered,
           said # "more" => said' # "more", Sound' => Sound
    PROVE  CallFlow'
<1>1. Open' = Open
  BY DEF Open
<1>2. SUFFICES ASSUME Sound', decoder'.then \in {"read", "complete"} PROVE CallsOK'
  BY DEF CallFlow
<1>3. CallsOK
  BY <1>2 DEF CallFlow
<1>4. decoder'.then = "complete" => Open = <<>>
  BY <1>3 DEF CallsOK, Placed
<1> QED
  BY <1>1, <1>3, <1>4, CallsSteady

LEMMA QuietHanded ==
    ASSUME WireTypes, ReaderTypes, DecoderTypes, OutOK, LineOK, CallsCounted, CallsOK, At("reading"),
           UNCHANGED <<protocol, got, chan, cancelled, calls, said>>, heard' = sent, line.n = 0 \/ line.call = 0,
           NEW items, NEW next, NEW flushing, Fits(items, next, flushing), Handed(items, next, flushing),
           ~flushing, Numbered("call", items) = <<>>, next = "complete" => calls = <<>>
    PROVE  CallsOK'
<1>1. dialect' = dialect
  BY DEF protocol
<1>2. /\ Delivered = GotNow /\ Open = calls /\ GotNow \in Text /\ decoder'.then = next
      /\ Delivered' = GotNow /\ Open' = calls
  BY <1>1, HandedCalls
<1>3. Accounted(heard, GotNow, calls) /\ Placed(GotNow, calls, said, decoder.then)
  BY <1>2 DEF CallsOK
<1>4. Accounted(sent, GotNow, calls)
  BY <1>3, QuietCalls
<1>5. Placed(GotNow, calls, said, next)
  BY <1>3 DEF Placed
<1> QED
  BY <1>2, <1>4, <1>5, CallsNext

LEMMA CallDispatch ==
    ASSUME WireTypes, DecoderTypes, ReaderTypes, OutOK, LineOK, CallsCounted, CallFlow, Dispatch, heard' = sent
    PROVE  CallFlow'
<1>1. PICK items, next, flushing :
         Fits(items, next, flushing) /\ Handed(items, next, flushing) /\ Decided(items, next, flushing)
  BY DispatchIs
<1>2. /\ UNCHANGED <<protocol, got, chan, cancelled, said>> /\ dialect' = dialect /\ At("reading")
      /\ UNCHANGED <<buf, answer>>
  BY DEF Dispatch, protocol, reading, screen
<1>3. PICK G : G = GotNow
  OBVIOUS
<1>4. /\ Delivered = G /\ Open = calls /\ G \in Text /\ decoder'.then = next
      /\ Delivered' = G \o Numbered("call", items)
      /\ Open' = IF flushing /\ items # <<>> THEN <<>> ELSE calls'
      /\ Numbered("call", items) = <<>> => Delivered' = G
  BY <1>1, <1>2, <1>3, HandedCalls
<1>5. decoder.then = "read"
  BY <1>2, ReadingUsage
<1>6. SUFFICES ASSUME Sound', next \in {"read", "complete"} PROVE CallsOK'
  BY <1>4 DEF CallFlow
<1>7. CallsOK
  BY <1>2, <1>5, <1>6 DEF CallFlow, Sound
<1>8. Accounted(heard, G, calls) /\ Placed(G, calls, said, "read")
  BY <1>4, <1>5, <1>7 DEF CallsOK
<1>9. /\ line.n \in Nat /\ line.n \in Payload /\ usage \in Payload /\ calls \in Seq(CallEntry)
      /\ dialect \in {"chat", "messages", "generate", "responses"} /\ Numbered("call", <<>>) = <<>>
  BY NumEmpty, StreamAssumption DEF WireTypes, Event, Payload, DecoderTypes
<1>10. /\ line.kind \in {"text", "thought", "usage", "stop"} => line.call = 0
       /\ line.kind \in {"finish", "junk", "close"} => line.n = 0
       /\ line.kind = "stop" /\ dialect # "responses" => line.n = 0
       /\ line.kind \in {"finish", "stop"} => said = "whole"
       /\ line.kind = "stop" /\ dialect = "messages" => calls = <<>>
  BY DEF LineOK
<1>11. \A kind \in {"text", "thought", "usage"}, n \in Payload : Numbered("call", One(kind, n)) = <<>>
  <2> TAKE kind \in {"text", "thought", "usage"}, n \in Payload
  <2>1. kind \in {"text", "thought", "usage", "call", "error", "done"} /\ kind # "call"
    OBVIOUS
  <2> QED
    BY <2>1, NumOfOne
<1>12. ASSUME line.n = 0 \/ line.call = 0, UNCHANGED calls, ~flushing, next = "complete" => calls = <<>>,
              items = <<>> \/ \E kind \in {"text", "thought", "usage"}, n \in Payload : items = One(kind, n)
       PROVE  CallsOK'
  <2>1. Numbered("call", items) = <<>>
    BY <1>9, <1>11, <1>12
  <2> QED
    BY <1>1, <1>2, <1>7, <1>12, <2>1, QuietHanded
<1>13. CASE /\ line.kind \in {"text", "thought"} \/ (line.kind = "usage" /\ dialect = "chat")
            /\ items = One(line.kind, line.n) /\ next = "read" /\ ~flushing /\ Keep
  BY <1>9, <1>10, <1>12, <1>13 DEF Keep
<1>14. CASE line.kind = "junk" /\ items = <<>> /\ next = "read" /\ ~flushing /\ Keep
  BY <1>10, <1>12, <1>14 DEF Keep
<1>15. CASE line.kind = "usage" /\ items = <<>> /\ next = "read" /\ ~flushing /\ UNCHANGED calls
  BY <1>10, <1>12, <1>15
<1>16. CASE line.kind = "call" /\ dialect = "chat" /\ items = <<>> /\ next = "read" /\ Accumulate(Fragment(line))
  <2>1. Accounted(sent, G, calls') /\ Placed(G, calls', said, "read")
    BY <1>4, <1>8, <1>16, ChatCall
  <2>2. Delivered' = G /\ Open' = calls'
    BY <1>4, <1>9, <1>16
  <2> QED
    BY <1>2, <1>4, <1>16, <2>1, <2>2, CallsNext
<1>17. CASE /\ line.kind = "call" /\ dialect = "messages" /\ items = <<>> /\ next = "read"
            /\ calls' = IF Made[line.call][1] = line.n
                        THEN Append(WithoutBlock(line.call), [index |-> line.call, id |-> line.call, args |-> <<line.n>>])
                        ELSE [calls EXCEPT ![Block(line.call)].args = Append(@, line.n)]
  <2>1. Accounted(sent, G, calls')
    BY <1>4, <1>8, <1>17, MessagesCall
  <2>2. Placed(G, calls', said, "read")
    BY <1>17 DEF Placed
  <2>3. Delivered' = G /\ Open' = calls'
    BY <1>4, <1>9, <1>17
  <2> QED
    BY <1>2, <1>4, <1>17, <2>1, <2>2, <2>3, CallsNext
<1>18. CASE /\ line.kind = "call" /\ dialect = "generate"
            /\ items = <<Called([args |-> <<line.n>>])>> /\ next = "read" /\ ~flushing /\ Keep
  <2>1. PICK x : x = << <<line.n>> >>
    OBVIOUS
  <2>2. <<line.n>> \in Payload
    <3>1. <<line.n>> \in Seq(Nat)
      BY <1>9
    <3> QED
      BY <3>1 DEF Payload
  <2>3. Numbered("call", items) = x
    <3>1. items = One("call", <<line.n>>)
      BY <1>18 DEF Called, One
    <3> QED
      BY <2>1, <2>2, <3>1, NumOfOne
  <2>4. calls = <<>> /\ calls' = <<>> /\ line.call = CallCount(heard) + 1
    BY <1>8, <1>18 DEF Placed, LineOK, Keep
  <2>5. Delivered' = G \o x /\ Open' = <<>>
    BY <1>4, <1>18, <2>3, <2>4
  <2>6. Accounted(sent, G \o x, <<>>)
    BY <1>4, <1>8, <1>18, <2>1, <2>4, WholeCall
  <2>7. Placed(G \o x, <<>>, said, "read")
    BY <1>18 DEF Placed
  <2> QED
    BY <1>2, <1>4, <1>18, <2>5, <2>6, <2>7, CallsNext
<1>19. CASE /\ line.kind = "close" /\ dialect = "messages"
            /\ items = <<Called(calls[Block(line.call)])>> /\ next = "read" /\ ~flushing
            /\ calls' = WithoutBlock(line.call)
  <2>1. \E k \in DOMAIN calls : calls[k].index = line.call
    BY <1>19 DEF LineOK
  <2>2. PICK k : k = Block(line.call)
    OBVIOUS
  <2>3. k \in DOMAIN calls /\ calls' = RemoveAt(calls, k)
    BY <1>19, <2>1, <2>2, BlockIs DEF WithoutBlock
  <2>4. calls[k] \in CallEntry
    BY <1>9, <2>3, ElementOfSeq, LenProperties
  <2>5. PICK x, a : x = <<calls[k].args>> /\ a = calls[k].args
    OBVIOUS
  <2>6. a \in Payload
    BY <2>4, <2>5 DEF CallEntry, Payload
  <2>7. Numbered("call", items) = x
    <3>1. items = One("call", a)
      BY <1>19, <2>2, <2>5, CalledIsOne
    <3> QED
      BY <2>5, <2>6, <3>1, NumOfOne
  <2>8. Accounted(sent, G, calls)
    BY <1>8, <1>10, <1>19, QuietCalls
  <2>9. Accounted(sent, G \o x, RemoveAt(calls, k))
    BY <1>4, <1>9, <1>19, <2>3, <2>5, <2>8, ClosedCall
  <2>10. Delivered' = G \o x /\ Open' = RemoveAt(calls, k)
    BY <1>4, <1>19, <2>3, <2>7
  <2>11. Placed(G \o x, RemoveAt(calls, k), said, "read")
    BY <1>19 DEF Placed
  <2> QED
    BY <1>2, <1>4, <1>19, <2>9, <2>10, <2>11, CallsNext
<1>20. CASE /\ line.kind \in {"finish", "stop"} /\ dialect = "chat"
            /\ items = CallItems /\ flushing /\ UNCHANGED calls
  <2>1. heard' = heard
    BY <1>10, <1>20 DEF heard
  <2>2. flushing = TRUE /\ said' # "more"
    BY <1>1, <1>2, <1>10, <1>20 DEF Fits
  <2> QED
    BY <1>1, <1>2, <1>7, <1>20, <2>1, <2>2, FlushedOut
<1>21. CASE line.kind = "finish" /\ items = <<>> /\ next = "read" /\ ~flushing /\ UNCHANGED calls
  BY <1>10, <1>12, <1>21
<1>22. CASE /\ line.kind = "stop" /\ dialect = "messages"
            /\ items = (IF usage = 0 THEN <<>> ELSE One("usage", usage)) /\ ~flushing /\ Keep
  BY <1>9, <1>10, <1>12, <1>22 DEF Keep
<1>23. CASE /\ line.kind = "stop" /\ dialect = "responses"
            /\ items = (IF line.n = 0 THEN <<>> ELSE One("usage", line.n)) /\ ~flushing /\ Keep
  <2>1. calls = <<>>
    BY <1>8, <1>23 DEF Placed
  <2> QED
    BY <1>9, <1>10, <1>12, <1>23, <2>1 DEF Keep
<1>24. Decided(items, next, flushing) /\ next # "error"
  BY <1>1, <1>6
<1> QED
  BY <1>13, <1>14, <1>15, <1>16, <1>17, <1>18, <1>19, <1>20, <1>21, <1>22, <1>23, <1>24 DEF Decided, Keep

LEMMA CallBodyEnds ==
    ASSUME WireTypes, DecoderTypes, ReaderTypes, OutOK, LineOK, CallsCounted, CallFlow, BodyEnds, heard' = sent
    PROVE  CallFlow'
<1>1. PICK items, next, flushing :
         Fits(items, next, flushing) /\ Handed(items, next, flushing) /\ EndedBy(items, next, flushing)
  BY BodyEndsIs
<1>2. /\ UNCHANGED <<protocol, got, chan, cancelled, said>> /\ dialect' = dialect /\ At("reading")
      /\ UNCHANGED <<buf, answer>>
  BY DEF BodyEnds, protocol, reading, screen
<1>3. decoder.then = "read" /\ decoder'.then = next /\ Open = calls /\ UNCHANGED calls
  BY <1>1, <1>2, ReadingUsage, HandedCalls DEF EndedBy
<1>4. SUFFICES ASSUME Sound', next = "complete" PROVE CallsOK'
  BY <1>1, <1>3 DEF CallFlow, EndedBy, Failures
<1>5. CallsOK
  BY <1>2, <1>3, <1>4 DEF CallFlow, Sound
<1>6. line = NoEvent /\ marked /\ dialect \in {"chat", "generate"} /\ line.n = 0 /\ heard = sent /\ said = "whole"
  BY <1>1, <1>4 DEF EndedBy, NoEvent, heard, LineOK
<1>7. CASE dialect = "chat"
  <2>1. items = CallItems /\ flushing = TRUE /\ heard' = heard /\ said' # "more"
    BY <1>1, <1>2, <1>6, <1>7 DEF EndedBy, Fits
  <2> QED
    BY <1>1, <1>2, <1>3, <1>5, <1>7, <2>1, FlushedOut
<1>8. CASE dialect = "generate"
  <2>1. ~flushing /\ (items = <<>> \/ items = One("usage", usage)) /\ calls = <<>>
    BY <1>1, <1>3, <1>5, <1>8 DEF EndedBy, CallsOK, Placed
  <2>2. usage \in Payload
    BY StreamAssumption DEF DecoderTypes, Payload
  <2>3. Numbered("call", items) = <<>>
    <3>1. Numbered("call", One("usage", usage)) = <<>>
      BY <2>2, NumOfOne
    <3> QED
      BY <2>1, <3>1, NumEmpty
  <2> QED
    BY <1>1, <1>2, <1>3, <1>5, <1>6, <2>1, <2>3, QuietHanded
<1> QED
  BY <1>6, <1>7, <1>8

LEMMA CallEmit ==
    ASSUME WireTypes, DecoderTypes, ReaderTypes, OutOK, EndOK, Emit, heard' = heard, CallFlow
    PROVE  CallFlow'
<1>1. /\ decoder.at \in {"emitting", "ending"} /\ UNCHANGED <<protocol, said, got, buf, answer, cancelled>> /\ dialect' = dialect
      /\ ~At("closed")
  BY DEF Emit, screen, protocol, wire, At
<1>2. CASE Sent1
  <2>1. /\ Moved /\ calls' = (IF decoder.flush /\ Len(decoder.out) = 1 THEN <<>> ELSE calls)
        /\ decoder'.flush = (decoder.flush /\ Len(decoder.out) > 1)
    BY <1>1, <1>2, Sent1Facts
  <2>2. PICK e : e = Head(decoder.out)
    OBVIOUS
  <2>3. e \in Item /\ chan' = Append(chan, e) /\ chan \in Seq(Printable) /\ e \in Printable /\ decoder'.out \in Seq(Printable)
        /\ decoder'.then = decoder.then
    BY <2>1, <2>2, ItemsPrint DEF Moved, ReaderTypes, Decoders
  <2>4. PICK c, d, x, y : c = Numbered("call", chan) /\ d = Numbered("call", decoder.out) /\ x = NumOf("call", e) /\ y = Numbered("call", decoder'.out)
    OBVIOUS
  <2>5. Numbered("call", chan') = c \o x /\ d = x \o y
    <3>1. Numbered("call", Append(chan, e)) = Numbered("call", chan) \o NumOf("call", e)
      BY <2>3, NumAppend
    <3>2. Numbered("call", decoder.out) = NumOf("call", Head(decoder.out)) \o Numbered("call", decoder'.out)
      BY <2>1 DEF Moved
    <3>3. Numbered("call", chan') = Numbered("call", chan) \o NumOf("call", e)
      BY <2>3, <3>1
    <3> QED
      BY <2>2, <2>4, <3>2, <3>3
  <2>6. x \in Seq(Payload) /\ y \in Seq(Payload) /\ c \in Seq(Payload) /\ got \in Seq(Payload) /\ got \o c \in Seq(Payload)
    <3>1. x \in Seq(Payload) /\ y \in Seq(Payload)
      BY <2>3, <2>4, NumOne, NumJoin
    <3>2. c \in Seq(Payload) /\ got \in Seq(Payload)
      BY <2>4, ReadTypes DEF Text
    <3> QED
      BY <3>1, <3>2, ConcatProperties
  <2>7. (got \o (c \o x)) \o y = (got \o c) \o (x \o y)
    <3>1. PICK rc : rc = got \o c
      OBVIOUS
    <3>2. got \in Seq(Payload) /\ c \in Seq(Payload) /\ x \in Seq(Payload) /\ y \in Seq(Payload) /\ rc \in Seq(Payload)
      BY <2>6, <3>1
    <3>3. (got \o c) \o x = got \o (c \o x)
      BY <3>2, JoinPayload
    <3>4. (rc \o x) \o y = rc \o (x \o y)
      BY <3>2, JoinPayload
    <3> QED
      BY <3>1, <3>3, <3>4
  <2>8. Delivered' = Delivered
    BY <1>1, <2>4, <2>5, <2>7 DEF Delivered
  <2>9. Len(decoder.out) \in Nat /\ Len(decoder.out) # 0
    BY <1>1, EmptySeq, LenProperties DEF DecoderTypes, Decoders, OutOK, HandOK
  <2>10. Open' = Open
    <3>1. CASE decoder.flush
      <4>1. CASE Len(decoder.out) > 1
        BY <2>1, <3>1, <4>1 DEF Open
      <4>2. CASE ~(Len(decoder.out) > 1)
        <5>1. ASSUME NEW n \in Nat, n # 0, ~(n > 1) PROVE n = 1
          BY <5>1
        <5>2. Len(decoder.out) = 1
          BY ONLY <2>9, <4>2, <5>1
        <5> QED
          BY <2>1, <3>1, <5>2 DEF Open
      <4> QED
        BY <4>1, <4>2
    <3>2. CASE ~decoder.flush
      BY <2>1, <3>2 DEF Open
    <3> QED
      BY <3>1, <3>2
  <2>11. SUFFICES ASSUME Sound', decoder'.then \in {"read", "complete"} PROVE CallsOK'
    BY DEF CallFlow
  <2>12. CallsOK
    BY <1>1, <2>3, <2>11 DEF CallFlow, Sound
  <2>13. decoder'.then = "complete" => Open = <<>>
    BY <2>3, <2>12 DEF CallsOK, Placed
  <2> QED
    BY <1>1, <2>8, <2>10, <2>12, <2>13, CallsSteady
<1>3. CASE Skipped
  <2>1. cancelled /\ cancelled'
    BY <1>1, <1>3 DEF Skipped
  <2>2. ~Sound'
    BY <1>1, <2>1 DEF Sound, EndOK
  <2> QED
    BY <2>2 DEF CallFlow
<1> QED
  BY <1>2, <1>3 DEF Emit

LEMMA CallTook ==
    ASSUME DecoderTypes, ReaderTypes, Took, CallFlow
    PROVE  CallFlow'
<1>1. /\ heard' = heard /\ decoder' = decoder /\ cancelled' = cancelled /\ chan' = Tail(chan) /\ chan # <<>>
      /\ got' = got \o NumOf("call", Head(chan)) /\ chan \in Seq(Printable)
      /\ UNCHANGED <<protocol, said, calls, answer>> /\ buf'.verdict = buf.verdict
  BY AsideHeard, ItemsPrint DEF Took, ReaderTypes, Aside, wire, decoding
<1>2. PICK x, t, d : x = NumOf("call", Head(chan)) /\ t = Numbered("call", Tail(chan)) /\ d = Numbered("call", decoder.out)
  OBVIOUS
<1>3. Numbered("call", chan) = x \o t /\ Head(chan) \in Printable /\ Tail(chan) \in Seq(Printable)
  BY <1>1, <1>2, NumHead
<1>4. got \in Seq(Payload) /\ x \in Seq(Payload) /\ t \in Seq(Payload)
  BY <1>2, <1>3, NumOne, NumJoin, ReadTypes DEF Text
<1>5. (got \o x) \o t = got \o (x \o t)
  BY <1>4, JoinPayload
<1>6. Delivered' = Delivered
  BY <1>1, <1>2, <1>3, <1>5 DEF Delivered
<1>7. Sound' => Sound
  BY <1>1 DEF Sound
<1> QED
  BY <1>1, <1>6, <1>7, CallFlowSteady

LEMMA CallSettled == ASSUME Settled, CallFlow PROVE CallFlow'
<1>1. /\ heard' = heard /\ decoder' = decoder /\ UNCHANGED <<protocol, said, calls, chan, got>> /\ (Sound' => Sound)
  BY AsideHeard DEF Settled, Aside, wire, decoding
<1>2. Delivered' = Delivered
  BY <1>1 DEF Delivered
<1> QED
  BY <1>1, <1>2, CallFlowSteady

-----------------------------------------------------------------------------
(* The stream as a whole: every step keeps what is known of it.              *)
StreamTypes == WireTypes /\ DecoderTypes /\ ReaderTypes
SInv == StreamTypes /\ StreamInv
Wired == WireTypes /\ DecoderTypes /\ OutOK /\ CallsCounted /\ PiecesOK /\ LineOK

LEMMA InvIs == SInv <=> Wired /\ ReaderTypes /\ FlowOf("text") /\ FlowOf("thought") /\ UsageOK /\ CallFlow /\ ErrorTold /\ EndOK
BY DEF SInv, StreamTypes, StreamInv, Wired, Flow

LEMMA InvAfter ==
    ASSUME Wired', ReaderTypes', \A kind \in TextKinds : FlowOf(kind)', UsageOK', CallFlow', ErrorTold', EndOK'
    PROVE  SInv'
<1>1. (SInv <=> Wired /\ ReaderTypes /\ FlowOf("text") /\ FlowOf("thought") /\ UsageOK /\ CallFlow /\ ErrorTold /\ EndOK)'
  BY DEF SInv, StreamTypes, StreamInv, Wired, Flow
<1>2. FlowOf("text")' /\ FlowOf("thought")'
  BY DEF TextKinds
<1> QED
  BY <1>1, <1>2

LEMMA InvNow ==
    ASSUME SInv
    PROVE  /\ WireTypes /\ DecoderTypes /\ ReaderTypes /\ OutOK /\ CallsCounted /\ PiecesOK /\ LineOK
           /\ UsageOK /\ CallFlow /\ ErrorTold /\ EndOK
           /\ \A kind \in TextKinds : FlowOf(kind)
BY InvIs DEF Wired, TextKinds

LEMMA StreamSay ==
    ASSUME SInv, Say PROVE SInv'
<1>1. /\ WireTypes /\ DecoderTypes /\ ReaderTypes /\ OutOK /\ CallsCounted /\ PiecesOK /\ LineOK
      /\ UsageOK /\ CallFlow /\ ErrorTold /\ EndOK /\ \A kind \in TextKinds : FlowOf(kind)
  BY InvNow
<1>2. UNCHANGED <<protocol, dialect, decoder, calls, marked, usage, chan, got, err, buf, live, answer, cancelled>>
  BY DEF Say, protocol, decoding, reading, screen
<1>3. Wired' /\ heard' = heard /\ (said # "more" => said' # "more")
  BY <1>1, SayKeeps DEF Wired
<1>4. ReaderTypes'
  BY <1>1, <1>2 DEF ReaderTypes
<1>5. \A kind \in TextKinds : FlowOf(kind)'
  BY <1>1, <1>2, <1>3, FlowSay
<1>6. UsageOK'
  BY <1>1, <1>2, <1>3, UsageSay
<1>7. CallFlow'
  <2>1. Delivered' = Delivered /\ (Sound' => Sound)
    BY <1>2 DEF Delivered, Sound
  <2> QED
    BY <1>1, <1>2, <1>3, <2>1, CallFlowSteady
<1>8. ErrorTold' /\ EndOK'
  BY <1>1, DecoderSteps
<1> QED
  BY <1>3, <1>4, <1>5, <1>6, <1>7, <1>8, InvAfter

LEMMA StreamDispatch ==
    ASSUME SInv, Dispatch PROVE SInv'
<1>1. /\ WireTypes /\ DecoderTypes /\ ReaderTypes /\ OutOK /\ CallsCounted /\ PiecesOK /\ LineOK
      /\ UsageOK /\ CallFlow /\ ErrorTold /\ EndOK /\ \A kind \in TextKinds : FlowOf(kind)
  BY InvNow
<1>2. UNCHANGED <<protocol, chan, got, err, buf, live, answer, cancelled>> /\ At("reading")
  BY DEF Dispatch, reading, screen
<1>3. Wired' /\ heard' = sent
  BY <1>1, DispatchKeeps DEF Wired
<1>4. ReaderTypes'
  BY <1>1, <1>2 DEF ReaderTypes
<1>5. ASSUME NEW kind \in TextKinds PROVE FlowOf(kind)'
  <2>1. PICK items, next, flushing :
           Fits(items, next, flushing) /\ Handed(items, next, flushing) /\ Decided(items, next, flushing)
    BY <1>1, DispatchIs
  <2>2. Numbered(kind, items) = NumOf(kind, line)
    BY <1>1, <2>1, ItemsOfLine
  <2> QED
    BY <1>1, <1>2, <1>3, <2>1, <2>2, FlowHanded
<1>6. UsageOK'
  BY <1>1, <1>3, UsageDispatch
<1>7. CallFlow'
  BY <1>1, <1>3, CallDispatch
<1>8. ErrorTold' /\ EndOK'
  BY <1>1, DecoderSteps
<1> QED
  BY <1>3, <1>4, <1>5, <1>6, <1>7, <1>8, InvAfter

LEMMA StreamBodyEnds ==
    ASSUME SInv, BodyEnds PROVE SInv'
<1>1. /\ WireTypes /\ DecoderTypes /\ ReaderTypes /\ OutOK /\ CallsCounted /\ PiecesOK /\ LineOK
      /\ UsageOK /\ CallFlow /\ ErrorTold /\ EndOK /\ \A kind \in TextKinds : FlowOf(kind)
  BY InvNow
<1>2. UNCHANGED <<protocol, chan, got, err, buf, live, answer, cancelled>> /\ At("reading")
  BY DEF BodyEnds, reading, screen
<1>3. Wired' /\ heard' = sent
  BY <1>1, BodyEndsKeeps DEF Wired
<1>4. ReaderTypes'
  BY <1>1, <1>2 DEF ReaderTypes
<1>5. ASSUME NEW kind \in TextKinds PROVE FlowOf(kind)'
  <2>1. PICK items, next, flushing :
           Fits(items, next, flushing) /\ Handed(items, next, flushing) /\ EndedBy(items, next, flushing)
    BY <1>1, BodyEndsIs
  <2>2. Numbered(kind, items) = <<>>
    BY <1>1, <2>1, EndedSilent
  <2>3. next # "read" /\ (next = "complete" => line = NoEvent)
    BY <2>1 DEF EndedBy, Failures
  <2> QED
    BY <1>1, <1>2, <1>3, <2>1, <2>2, <2>3, FlowHanded
<1>6. UsageOK'
  BY <1>1, <1>3, UsageBodyEnds
<1>7. CallFlow'
  BY <1>1, <1>3, CallBodyEnds
<1>8. ErrorTold' /\ EndOK'
  BY <1>1, DecoderSteps
<1> QED
  BY <1>3, <1>4, <1>5, <1>6, <1>7, <1>8, InvAfter

LEMMA StreamEmit ==
    ASSUME SInv, Emit PROVE SInv'
<1>1. /\ WireTypes /\ DecoderTypes /\ ReaderTypes /\ OutOK /\ CallsCounted /\ PiecesOK /\ LineOK
      /\ UsageOK /\ CallFlow /\ ErrorTold /\ EndOK /\ \A kind \in TextKinds : FlowOf(kind)
  BY InvNow
<1>2. UNCHANGED <<got, err, buf, live, answer>>
  BY DEF Emit, screen
<1>3. Wired' /\ heard' = heard /\ chan' \in Seq(Item) /\ Len(chan') <= EventBuffer
  <2>1. chan \in Seq(Item) /\ Len(chan) <= EventBuffer
    BY <1>1 DEF ReaderTypes
  <2> QED
    BY <1>1, <2>1, EmitKeeps DEF Wired
<1>4. ReaderTypes'
  BY <1>1, <1>2, <1>3 DEF ReaderTypes
<1>5. \A kind \in TextKinds : FlowOf(kind)'
  BY <1>1, <1>3, FlowEmit
<1>6. UsageOK'
  BY <1>1, <1>3, UsageEmit
<1>7. CallFlow'
  BY <1>1, <1>3, CallEmit
<1>8. ErrorTold' /\ EndOK'
  BY <1>1, DecoderSteps
<1> QED
  BY <1>3, <1>4, <1>5, <1>6, <1>7, <1>8, InvAfter

LEMMA AsideWired ==
    ASSUME SInv, UNCHANGED <<protocol, wire, decoding>>, cancelled' \in BOOLEAN
    PROVE  Wired' /\ heard' = heard
<1>1. WireTypes /\ DecoderTypes /\ OutOK /\ CallsCounted /\ PiecesOK /\ LineOK
  BY InvNow
<1> QED
  BY <1>1, AsideKeeps DEF Wired

LEMMA StreamTook ==
    ASSUME SInv, Took PROVE SInv'
<1>1. /\ WireTypes /\ DecoderTypes /\ ReaderTypes
      /\ UsageOK /\ CallFlow /\ ErrorTold /\ EndOK /\ \A kind \in TextKinds : FlowOf(kind)
  BY InvNow
<1>2. ReaderTypes' /\ UNCHANGED <<protocol, wire, decoding>> /\ cancelled' \in BOOLEAN
  BY <1>1 DEF Took, Aside, WireTypes
<1>3. Wired'
  BY <1>2, AsideWired
<1>4. \A kind \in TextKinds : FlowOf(kind)'
  BY <1>1, FlowTook
<1>5. UsageOK' /\ CallFlow' /\ ErrorTold' /\ EndOK'
  BY <1>1, UsageTook, CallTook, TookEnds
<1> QED
  BY <1>2, <1>3, <1>4, <1>5, InvAfter

LEMMA StreamSettled ==
    ASSUME SInv, Settled, EndOK' PROVE SInv'
<1>1. WireTypes /\ UsageOK /\ CallFlow /\ ErrorTold /\ \A kind \in TextKinds : FlowOf(kind)
  BY InvNow
<1>2. ReaderTypes' /\ UNCHANGED <<protocol, wire, decoding>> /\ cancelled' \in BOOLEAN
  BY <1>1 DEF Settled, Aside, WireTypes
<1>3. Wired'
  BY <1>2, AsideWired
<1>4. \A kind \in TextKinds : FlowOf(kind)'
  BY <1>1, FlowSettled
<1>5. UsageOK' /\ CallFlow' /\ ErrorTold'
  BY <1>1, UsageSettled, CallSettled, SettledEnds
<1> QED
  BY <1>2, <1>3, <1>4, <1>5, InvAfter

\* A cancellation, or a step of somebody else.
LEMMA StreamCancelled ==
    ASSUME SInv, UNCHANGED <<protocol, wire, decoding, reading, screen>>, cancelled' \in BOOLEAN, cancelled => cancelled'
    PROVE  SInv'
<1>1. /\ WireTypes /\ DecoderTypes /\ ReaderTypes
      /\ UsageOK /\ CallFlow /\ ErrorTold /\ EndOK /\ \A kind \in TextKinds : FlowOf(kind)
  BY InvNow
<1>2. UNCHANGED <<protocol, dialect, said, decoder, calls, usage, chan, got, err, buf, live, answer>>
  BY DEF wire, protocol, decoding, reading, screen
<1>3. Wired' /\ heard' = heard
  BY AsideWired
<1>4. ReaderTypes'
  BY <1>1, <1>2 DEF ReaderTypes
<1>5. \A kind \in TextKinds : FlowOf(kind)'
  BY <1>1, <1>2, <1>3, FlowSay
<1>6. UsageOK'
  BY <1>1, <1>2, <1>3, UsageSay
<1>7. CallFlow'
  <2>1. Delivered' = Delivered /\ (Sound' => Sound)
    BY <1>2 DEF Delivered, Sound
  <2> QED
    BY <1>1, <1>2, <1>3, <2>1, CallFlowSteady
<1>8. ErrorTold' /\ EndOK'
  BY <1>1, <1>2 DEF ErrorTold, EndOK, HasError, At
<1> QED
  BY <1>3, <1>4, <1>5, <1>6, <1>7, <1>8, InvAfter

LEMMA StreamIdle == ASSUME SInv, UNCHANGED streamVars PROVE SInv'
<1>1. UNCHANGED <<protocol, wire, decoding, reading, screen>> /\ cancelled' = cancelled /\ cancelled \in BOOLEAN
  BY InvNow DEF streamVars, WireTypes
<1> QED
  BY <1>1, StreamCancelled

LEMMA StepKeepsStream == ASSUME SInv, StreamNext PROVE SInv'
<1>1. WireTypes /\ DecoderTypes /\ ReaderTypes /\ OutOK /\ ErrorTold /\ EndOK
  BY InvNow
<1>2. CASE Receive
  BY <1>1, <1>2, ReceiveTakes, StreamTook
<1>3. CASE Finish
  BY <1>1, <1>3, FinishSettles, StreamSettled
<1>4. CASE Drain
  BY <1>1, <1>4, DrainSettles, StreamSettled
<1>5. CASE Cancel
  <2>1. UNCHANGED <<protocol, wire, decoding, reading, screen>> /\ cancelled' = TRUE
    BY <1>5 DEF Cancel
  <2> QED
    BY <2>1, StreamCancelled
<1> QED
  BY <1>2, <1>3, <1>4, <1>5, StreamSay, StreamDispatch, StreamBodyEnds, StreamEmit DEF StreamNext

-----------------------------------------------------------------------------
(* What follows from it.                                                     *)
LEMMA TypesFollow == ASSUME SInv PROVE StreamTypeOK
<1>1. WireTypes /\ DecoderTypes /\ ReaderTypes /\ OutOK
  BY InvNow
<1>2. dialect \in Dialects /\ style \in Styles /\ Len(sent) <= MaxPieces /\ said \in {"more", "whole", "failed"} /\ cancelled \in BOOLEAN
  BY <1>1 DEF WireTypes
<1>3. \A k \in DOMAIN sent : sent[k].kind \in {"text", "thought", "usage", "call"} /\ sent[k].call \in 0..MaxPieces
  <2>1. \A k \in DOMAIN sent : sent[k] \in Piece
    BY <1>1, ElementOfSeq, LenProperties DEF WireTypes
  <2> QED
    BY <2>1 DEF Piece
<1>4. /\ decoder.at \in {"reading", "emitting", "ending", "closed"}
      /\ decoder.then \in {"read", "complete", "truncated", "broken", "error"}
      /\ marked \in BOOLEAN /\ usage \in {0} \cup Numbers
  BY <1>1, StreamAssumption DEF DecoderTypes, Decoders, Nexts, Failures, Numbers
<1>5. decoder.at \in {"emitting", "ending"} <=> decoder.out # <<>>
  BY <1>1, <1>4, ReadingFacts DEF OutOK, HandOK
<1>6. /\ Len(chan) <= EventBuffer /\ err \in {"none", "truncated", "broken", "error"}
      /\ answer \in {"none", "complete", "cancelled", "truncated", "broken", "error"}
  BY <1>1 DEF ReaderTypes, Failures, Answers
<1> QED
  BY <1>2, <1>3, <1>4, <1>5, <1>6 DEF StreamTypeOK

LEMMA SentIs == SentOf("text") = OfKind(sent, "text") /\ SentOf("thought") = OfKind(sent, "thought") /\ SentOf("usage") = OfKind(sent, "usage")
BY DEF SentOf, OfKind, Places, PlacesIn

\* The piece that is in the line is what the rest of it lacks.
LEMMA OnTheWay ==
    ASSUME WireTypes, DecoderTypes, ReaderTypes, LineOK, NEW kind \in TextKinds
    PROVE  OnItsWay(kind, ReadOf(kind)) = Seen(kind) \o NumOf(kind, line)
<1>1. PICK z, r, w : z = [kind |-> line.kind, n |-> Len(sent)] /\ r = ReadOf(kind) /\ w = <<z>>
  OBVIOUS
<1>2. Len(sent) \in Nat /\ kind \in {"text", "thought"}
  BY LenProperties DEF WireTypes, TextKinds
<1>3. z \in Printable
  <2>1. line.kind \in {"none", "text", "thought", "usage", "call", "close", "finish", "stop", "error", "fault", "junk"}
    BY DEF WireTypes, Event
  <2>2. Len(sent) \in Payload
    BY <1>2 DEF Payload
  <2> QED
    BY <1>1, <2>1, <2>2 DEF Printable
<1>4. chan \in Seq(Printable) /\ decoder.out \in Seq(Printable) /\ w \in Seq(Printable)
  BY <1>1, <1>3, ItemsPrint DEF ReaderTypes, DecoderTypes, Decoders
<1>5. PICK m : m = chan \o decoder.out
  OBVIOUS
<1>6. m \in Seq(Printable)
  BY <1>4, <1>5, ConcatProperties
<1>7. PICK c, d, x : c = Numbered(kind, chan) /\ d = Numbered(kind, decoder.out) /\ x = Numbered(kind, w)
  OBVIOUS
<1>8. Numbered(kind, m) = c \o d
  BY <1>4, <1>5, <1>7, NumJoin
<1>9. Numbered(kind, m \o w) = (c \o d) \o x
  BY <1>4, <1>6, <1>7, <1>8, NumJoin
<1>10. c \in Seq(Payload) /\ d \in Seq(Payload) /\ x \in Seq(Payload) /\ r \in Seq(Payload)
  BY <1>1, <1>4, <1>7, NumJoin, ReadTypes DEF Text
<1>11. x = NumOf(kind, line)
  <2>1. x = NumOf(kind, z)
    BY <1>1, <1>3, <1>7, NumOne
  <2>2. line.kind = kind => line.n = Len(sent)
    BY <1>2 DEF LineOK
  <2> QED
    BY <1>1, <2>1, <2>2 DEF NumOf
<1>12. r \o ((c \o d) \o x) = ((r \o c) \o d) \o x
  <2>1. PICK cd, rc : cd = c \o d /\ rc = r \o c
    OBVIOUS
  <2>2. cd \in Seq(Payload) /\ rc \in Seq(Payload)
    BY <1>10, <2>1, ConcatProperties
  <2>3. (r \o cd) \o x = r \o (cd \o x)
    BY <1>10, <2>2, JoinPayload
  <2>4. (r \o c) \o d = r \o (c \o d)
    BY <1>10, JoinPayload
  <2> QED
    BY <2>1, <2>3, <2>4
<1>13. OnItsWay(kind, r) = r \o Numbered(kind, m \o w)
  BY <1>1, <1>5 DEF OnItsWay
<1> QED
  BY <1>1, <1>7, <1>9, <1>11, <1>12, <1>13 DEF Seen

LEMMA OrderOf ==
    ASSUME SInv, NEW kind \in TextKinds
    PROVE  /\ IsPrefix(OnItsWay(kind, ReadOf(kind)), OfKind(sent, kind))
           /\ ~cancelled => Len(OfKind(sent, kind)) <= Len(OnItsWay(kind, ReadOf(kind))) + 1
<1>1. WireTypes /\ DecoderTypes /\ ReaderTypes /\ OutOK /\ LineOK /\ FlowOf(kind)
  BY InvNow
<1>2. PICK s, h, x, t, o : s = OfKind(sent, kind) /\ h = OfKind(heard, kind) /\ x = NumOf(kind, line) /\ t = Seen(kind) /\ o = OnItsWay(kind, ReadOf(kind))
  OBVIOUS
<1>3. s = h \o x /\ x \in Seq(Payload) /\ h \in Seq(Payload) /\ s \in Seq(Payload) /\ (line = NoEvent => x = <<>>)
  BY <1>1, <1>2, KindOfLine DEF Text
<1>4. o = t \o x /\ t \in Seq(Payload)
  BY <1>1, <1>2, OnTheWay, ReadTypes DEF Text
<1>5. IsPrefix(s, s) /\ Len(s) \in Nat
  <2>1. s \in Seq(Payload)
    BY <1>3
  <2>2. IsPrefix(s, s)
    BY <2>1, PrefixOf
  <2> QED
    BY <2>1, <2>2, LenProperties
<1>6. CASE line # NoEvent
  <2>1. decoder.then = "read"
    BY <1>1, <1>6, ReadingFacts DEF LineOK, OutOK, HandOK, At
  <2>2. t = h
    BY <1>1, <1>2, <2>1 DEF FlowOf
  <2>3. o = s
    BY <1>3, <1>4, <2>2
  <2> QED
    BY <1>2, <1>5, <2>3
<1>7. CASE line = NoEvent
  <2>1. s = h /\ o = t
    <3>1. h \o <<>> = h /\ t \o <<>> = t
      <4>1. h \in Seq(Payload) /\ t \in Seq(Payload)
        BY <1>3, <1>4
      <4> QED
        BY <4>1, ConcatEmptySeq
    <3> QED
      BY <1>3, <1>4, <1>7, <3>1
  <2>2. CASE decoder.then \in {"read", "complete"}
    <3>1. t = h
      BY <1>1, <1>2, <2>2 DEF FlowOf
    <3> QED
      BY <1>2, <1>5, <2>1, <3>1
  <2>3. CASE decoder.then \notin {"read", "complete"}
    <3>1. IsPrefix(t, h) /\ (~cancelled => Len(h) <= Len(t) + 1)
      BY <1>1, <1>2, <2>3 DEF FlowOf
    <3> QED
      BY <1>2, <2>1, <3>1
  <2> QED
    BY <2>2, <2>3
<1> QED
  BY <1>6, <1>7

LEMMA OrderFollows == ASSUME SInv PROVE InOrder
<1>1. SUFFICES ASSUME NEW kind \in {"text", "thought"}
               PROVE  LET there == OnItsWay(kind, live[IF kind = "text" THEN kind ELSE "thoughts"] \o
                                                  buf[IF kind = "text" THEN kind ELSE "thoughts"])
                      IN /\ IsPrefix(there, SentOf(kind))
                         /\ ~cancelled => Len(SentOf(kind)) <= Len(there) + 1
  BY DEF InOrder
<1>2. live[IF kind = "text" THEN kind ELSE "thoughts"] \o buf[IF kind = "text" THEN kind ELSE "thoughts"] = ReadOf(kind)
  BY DEF ReadOf
<1>3. SentOf(kind) = OfKind(sent, kind) /\ kind \in TextKinds
  BY SentIs DEF TextKinds
<1> QED
  BY <1>2, <1>3, OrderOf

LEMMA WholeFollows == ASSUME SInv PROVE WholeAnswer
<1>1. SUFFICES ASSUME answer = "complete"
               PROVE  /\ said = "whole"
                      /\ live.text = SentOf("text") /\ live.thoughts = SentOf("thought")
                      /\ SentOf("usage") # <<>> => live.usage = Last(SentOf("usage"))
                      /\ ToSet(got) = {Made[c] : c \in DOMAIN Made} /\ Len(got) = Cardinality(DOMAIN Made)
  BY DEF WholeAnswer
<1>2. WireTypes /\ DecoderTypes /\ ReaderTypes /\ OutOK /\ LineOK /\ CallsCounted /\ UsageOK /\ CallFlow /\ EndOK /\ \A kind \in TextKinds : FlowOf(kind)
  BY InvNow
<1>3. /\ decoder.at = "closed" /\ chan = <<>> /\ decoder.then = "complete"
      /\ buf.text = <<>> /\ buf.thoughts = <<>> /\ (buf.usage # 0 => live.usage = buf.usage)
  BY <1>1, <1>2 DEF EndOK, At
<1>4. /\ line = NoEvent /\ said = "whole" /\ decoder.out = <<>> /\ decoder.flush = FALSE
  BY <1>2, <1>3 DEF LineOK, At, OutOK, HandOK, DecoderTypes, Decoders
<1>5. heard = sent
  BY <1>4 DEF heard, NoEvent
<1>6. \A kind : Numbered(kind, chan) = <<>> /\ Numbered(kind, decoder.out) = <<>>
  BY <1>3, <1>4, NumEmpty
<1>7. live.text \in Seq(Payload) /\ live.thoughts \in Seq(Payload) /\ got \in Seq(Payload)
  BY <1>2, ReadTypes DEF Text
<1>8. live.text \o <<>> = live.text /\ live.thoughts \o <<>> = live.thoughts /\ got \o <<>> = got
  BY <1>7, ConcatEmptySeq
<1>9. Seen("text") = live.text /\ Seen("thought") = live.thoughts
  BY <1>3, <1>6, <1>8 DEF Seen, ReadOf
<1>10. live.text = SentOf("text") /\ live.thoughts = SentOf("thought")
  BY <1>2, <1>3, <1>5, <1>9, SentIs DEF FlowOf, TextKinds
<1>11. SentOf("usage") # <<>> => live.usage = Last(SentOf("usage"))
  <2>1. Latest(OfKind(heard, "usage"), 0) = UsageNow
    BY <1>2, <1>3 DEF UsageOK
  <2>2. UsageNow = UsageRead
    BY <1>6 DEF UsageNow, Latest
  <2>3. UsageRead = live.usage
    BY <1>3 DEF UsageRead
  <2> QED
    BY <1>5, <2>1, <2>2, <2>3, SentIs DEF Latest
<1>12. Accounted(sent, got, <<>>)
  <2>1. CallsOK
    BY <1>1, <1>2, <1>3 DEF CallFlow, Sound
  <2>2. Delivered = got
    BY <1>6, <1>8 DEF Delivered
  <2>3. Accounted(sent, got, Open) /\ Open = <<>>
    BY <1>3, <1>5, <2>1, <2>2 DEF CallsOK, Placed
  <2> QED
    BY <2>3
<1>13. PICK N : N = CallCount(sent)
  OBVIOUS
<1>14. CallsIn(sent) = 1..N /\ DOMAIN Made = 1..N /\ Cardinality(DOMAIN Made) = N
  BY <1>2, <1>4, <1>5, <1>13, NewCallIs DEF CallsCounted, Counted, CallCount
<1>15. \A c \in 1..N : Made[c] = MadeIn(sent, c)
  BY <1>14 DEF Made, CallsIn, MadeIn, Places, PlacesIn
<1>16. OwnersIn(<<>>) = {} /\ Len(<<>>) = 0
  BY DEF OwnersIn
<1>17. /\ Len(got) + 0 = N
       /\ \A e \in ToSet(got) : \E c \in 1..N : e = MadeIn(sent, c)
       /\ \A c \in 1..N : MadeIn(sent, c) \in ToSet(got)
  BY <1>12, <1>13, <1>16 DEF Accounted
<1>18. Len(got) = N
  BY <1>7, <1>17, LenProperties
<1>19. ToSet(got) = {Made[c] : c \in DOMAIN Made}
  BY <1>14, <1>15, <1>17
<1> QED
  BY <1>4, <1>10, <1>11, <1>14, <1>18, <1>19

LEMMA FaithfulFollows == ASSUME SInv PROVE AnswerFaithful
BY OrderFollows, WholeFollows DEF AnswerFaithful

LEMMA StreamStarts == ASSUME StreamInit PROVE SInv
<1>1. PICK E : E = <<>>
  OBVIOUS
<1>2. /\ dialect \in Dialects /\ style \in Styles
      /\ sent = E /\ said = "more" /\ line = NoEvent /\ decoder = Reading /\ calls = E /\ marked = FALSE /\ usage = 0
      /\ chan = E /\ got = E /\ err = "none" /\ buf = EmptyBuf
      /\ live = [text |-> E, thoughts |-> E, usage |-> 0] /\ answer = "none" /\ cancelled = FALSE
  BY <1>1 DEF StreamInit
<1>3. Len(E) = 0 /\ DOMAIN E = {} /\ E \in Seq(Piece) /\ E \in Seq(Item) /\ E \in Seq(CallEntry) /\ E \in Text /\ E = <<>>
  BY <1>1 DEF Text
<1>4. heard = E
  BY <1>2 DEF heard, NoEvent
<1>5. WireTypes
  <2>1. NoEvent \in Event
    BY StreamAssumption DEF NoEvent, Event
  <2>2. sent \in Seq(Piece) /\ Len(sent) = 0
    BY <1>2, <1>3
  <2>3. Len(sent) <= MaxPieces
    BY <2>2, StreamAssumption
  <2>4. dialect \in {"chat", "messages", "generate", "responses"} /\ style \in {"index", "id", "bare"}
    BY <1>2, StreamAssumption
  <2> QED
    BY <1>2, <2>1, <2>2, <2>3, <2>4 DEF WireTypes
<1>6. DecoderTypes /\ OutOK /\ decoder.then = "read" /\ decoder.at = "reading" /\ decoder.flush = FALSE /\ decoder.out = <<>>
  <2>1. decoder \in Decoders /\ decoder.then = "read" /\ decoder.at = "reading" /\ decoder.flush = FALSE /\ decoder.out = <<>>
    BY <1>2, ReadingFacts
  <2>2. OutOK
    BY <1>2, ReadingFacts DEF OutOK
  <2>3. calls \in Seq(CallEntry) /\ marked \in BOOLEAN /\ usage \in 0..MaxPieces
    <3>1. 0 \in 0..MaxPieces
      BY StreamAssumption
    <3>2. calls \in Seq(CallEntry)
      BY <1>2, <1>3
    <3> QED
      BY <1>2, <3>1, <3>2
  <2> QED
    BY <2>1, <2>2, <2>3 DEF DecoderTypes
<1>7. ReaderTypes
  <2>1. EmptyBuf \in [text : Text, thoughts : Text, usage : Nat, done : BOOLEAN, verdict : Answers]
    BY <1>1, <1>3 DEF EmptyBuf, Answers
  <2>2. [text |-> E, thoughts |-> E, usage |-> 0] \in [text : Text, thoughts : Text, usage : Nat]
    BY <1>3
  <2> QED
    BY <1>2, <1>3, <2>1, <2>2, StreamAssumption DEF ReaderTypes, Answers
<1>8. CallsIn(E) = {} /\ CallCount(E) = 0
  <2>1. CallsIn(E) = {}
    BY <1>3 DEF CallsIn
  <2> QED
    BY <2>1, FS_EmptySet DEF CallCount
<1>9. CallsCounted
  <2>1. 1..0 = {} /\ 0 \in 0..0
    OBVIOUS
  <2>2. Counted(E)
    BY <1>3, <1>8, <2>1 DEF Counted
  <2> QED
    BY <1>4, <2>2 DEF CallsCounted
<1>10. PiecesOK
  BY <1>2, <1>3 DEF PiecesOK
<1>11. LineOK
  BY <1>2, <1>6 DEF LineOK, Known, NoEvent
<1>12. \A kind : OfKind(E, kind) = <<>> /\ Numbered(kind, E) = <<>>
  <2> TAKE kind
  <2>1. OfKind(E, kind) = FlattenSeq([k \in DOMAIN E |-> IF k \in {j \in DOMAIN E : E[j].kind = kind} THEN <<k>> ELSE <<>>])
    BY DEF OfKind, PlacesIn
  <2>2. [k \in DOMAIN E |-> IF k \in {j \in DOMAIN E : E[j].kind = kind} THEN <<k>> ELSE <<>>] = <<>>
    BY <1>3
  <2>3. Numbered(kind, E) = <<>>
    BY <1>3, NumEmpty
  <2> QED
    BY <2>1, <2>2, <2>3, FlatEmpty
<1>13. <<>> \o <<>> = <<>>
  OBVIOUS
<1>14. \A kind \in TextKinds : FlowOf(kind)
  <2> TAKE kind \in TextKinds
  <2>1. ReadOf(kind) = <<>>
    BY <1>1, <1>2, <1>13 DEF ReadOf, EmptyBuf
  <2>2. Seen(kind) = <<>>
    BY <1>2, <1>3, <1>6, <1>12, <1>13, <2>1, NumEmpty DEF Seen
  <2> QED
    BY <1>4, <1>6, <1>12, <2>2 DEF FlowOf
<1>15. UsageOK
  <2>1. UsageNow = 0
    BY <1>2, <1>3, <1>6, <1>12 DEF UsageNow, UsageRead, Latest, EmptyBuf
  <2> QED
    BY <1>2, <1>4, <1>6, <1>12, <2>1 DEF UsageOK, Latest
<1>16. CallFlow
  <2>1. Delivered = <<>> /\ Open = E
    BY <1>2, <1>3, <1>6, <1>12, <1>13 DEF Delivered, Open
  <2>2. Accounted(E, <<>>, E)
    <3>1. ToSet(<<>>) = {} /\ OwnersIn(E) = {} /\ 1..0 = {} /\ Len(<<>>) = 0
      BY <1>3 DEF ToSet, OwnersIn
    <3> QED
      BY <1>3, <1>8, <3>1 DEF Accounted
  <2>3. Placed(<<>>, E, said, decoder.then)
    BY <1>3 DEF Placed
  <2> QED
    BY <1>4, <2>1, <2>2, <2>3 DEF CallFlow, CallsOK
<1>17. ErrorTold /\ EndOK
  BY <1>2, <1>6 DEF ErrorTold, EndOK, EmptyBuf
<1> QED
  BY <1>5, <1>6, <1>7, <1>9, <1>10, <1>11, <1>14, <1>15, <1>16, <1>17, InvIs DEF Wired, TextKinds

-----------------------------------------------------------------------------
(* What is printed.                                                          *)
AllKinds == {"text", "thought", "usage", "call", "error", "done", "warning", "meta"}
LEMMA EmptyBoth ==
    ASSUME NEW S, NEW a \in Seq(S), NEW b \in Seq(S)
    PROVE  a \o b = <<>> <=> a = <<>> /\ b = <<>>
<1>1. /\ Len(a) \in Nat /\ Len(b) \in Nat /\ a \o b \in Seq(S) /\ Len(a \o b) = Len(a) + Len(b)
      /\ (Len(a) = 0 <=> a = <<>>) /\ (Len(b) = 0 <=> b = <<>>)
  BY LenProperties, ConcatProperties, EmptySeq
<1>2. PICK c : c = a \o b
  OBVIOUS
<1>3. c \in Seq(S) /\ Len(c) = Len(a) + Len(b)
  BY <1>1, <1>2
<1>4. c = <<>> <=> Len(c) = 0
  BY <1>3, EmptySeq
<1> QED
  BY <1>1, <1>2, <1>3, <1>4

Loud(items) == FlattenSeq([k \in DOMAIN items |-> IF Silent(items[k].kind) THEN <<>> ELSE <<items[k]>>])
LoudWeight(T) == [e \in T |-> IF Silent(e.kind) THEN <<>> ELSE <<e>>]
LEMMA LoudIsFlat == ASSUME NEW T, NEW a \in Seq(T) PROVE Loud(a) = Flat(LoudWeight(T), a)
<1>1. \A k \in DOMAIN a : a[k] \in T
  BY ElementOfSeq, LenProperties
<1>2. \A k \in DOMAIN a : LoudWeight(T)[a[k]] = IF Silent(a[k].kind) THEN <<>> ELSE <<a[k]>>
  BY <1>1 DEF LoudWeight
<1>3. [k \in DOMAIN a |-> IF Silent(a[k].kind) THEN <<>> ELSE <<a[k]>>] = Mapped(LoudWeight(T), a)
  BY <1>2 DEF Mapped
<1> QED
  BY <1>3 DEF Flat, Loud

LEMMA LoudWeighs == ASSUME NEW T PROVE LoudWeight(T) \in Maps(T, Seq(T))
<1>1. \A e \in T : (IF Silent(e.kind) THEN <<>> ELSE <<e>>) \in Seq(T)
  <2> TAKE e \in T
  <2>1. <<e>> \in Seq(T) /\ <<>> \in Seq(T)
    OBVIOUS
  <2> QED
    BY <2>1
<1> QED
  BY <1>1 DEF LoudWeight, Maps

LEMMA LoudJoin ==
    ASSUME NEW a \in Seq(Printable), NEW b \in Seq(Printable)
    PROVE  Loud(a) \in Seq(Printable) /\ Loud(a \o b) = Loud(a) \o Loud(b) /\ a \o b \in Seq(Printable)
<1>1. PICK w : w = LoudWeight(Printable) /\ w \in Maps(Printable, Seq(Printable))
  BY LoudWeighs
<1>2. a \o b \in Seq(Printable)
  BY ConcatProperties
<1>3. Loud(a) = Flat(w, a) /\ Loud(b) = Flat(w, b)
  BY <1>1, LoudIsFlat
<1>4. Loud(a \o b) = Flat(w, a \o b)
  BY <1>1, <1>2, LoudIsFlat
<1>5. Flat(w, a) \in Seq(Printable) /\ Flat(w, a \o b) = Flat(w, a) \o Flat(w, b)
  <2>1. PICK T, X : T = Printable /\ X = Printable
    OBVIOUS
  <2>2. w \in Maps(T, Seq(X)) /\ a \in Seq(T) /\ b \in Seq(T)
    BY <1>1, <2>1
  <2>3. Flat(w, a) \in Seq(X) /\ Flat(w, a \o b) = Flat(w, a) \o Flat(w, b)
    BY ONLY <2>2, FlatMapJoin
  <2> QED
    BY <2>1, <2>3
<1> QED
  BY <1>2, <1>3, <1>4, <1>5

LEMMA LoudOne ==
    ASSUME NEW e \in Printable
    PROVE  Loud(<<e>>) = (IF Silent(e.kind) THEN <<>> ELSE <<e>>) /\ Loud(<<>>) = <<>>
<1>1. PICK w : w = LoudWeight(Printable) /\ w \in Maps(Printable, Seq(Printable))
  BY LoudWeighs
<1>2. w \in Maps(Printable, Seq(Printable))
  BY <1>1
<1>3. <<e>> \in Seq(Printable) /\ <<>> \in Seq(Printable)
  OBVIOUS
<1>4. Loud(<<e>>) = Flat(w, <<e>>) /\ Loud(<<>>) = Flat(w, <<>>)
  BY <1>1, <1>3, LoudIsFlat
<1>5. Flat(w, <<e>>) = w[e] /\ Flat(w, <<>>) = <<>>
  BY <1>2, FlatMapOne
<1>6. w[e] = IF Silent(e.kind) THEN <<>> ELSE <<e>>
  BY <1>1 DEF LoudWeight
<1> QED
  BY <1>4, <1>5, <1>6

LEMMA LoudItems ==
    ASSUME NEW kind \in AllKinds, NEW ns \in Seq(Payload)
    PROVE  Items(kind, ns) \in Seq(Printable) /\ Loud(Items(kind, ns)) = IF Silent(kind) THEN <<>> ELSE Items(kind, ns)
<1>1. PICK s : s = Items(kind, ns)
  OBVIOUS
<1>2. Len(ns) \in Nat /\ DOMAIN ns = 1..Len(ns) /\ \A k \in DOMAIN ns : ns[k] \in Payload
  BY LenProperties, ElementOfSeq
<1>3. DOMAIN s = 1..Len(ns) /\ \A k \in 1..Len(ns) : s[k] = [kind |-> kind, n |-> ns[k]] /\ s[k].kind = kind /\ s[k] \in Printable
  BY <1>1, <1>2 DEF Items, Printable, AllKinds
<1>4. s \in Seq(Printable)
  <2>1. s \in [1..Len(ns) -> Printable]
    BY <1>1, <1>2, <1>3 DEF Items
  <2> QED
    BY <1>2, <2>1, SeqDef
<1>5. CASE Silent(kind)
  <2>1. PICK p : p = [k \in DOMAIN s |-> IF Silent(s[k].kind) THEN <<>> ELSE <<s[k]>>]
    OBVIOUS
  <2>2. p \in [1..Len(ns) -> Seq({})]
    <3>1. p = [k \in 1..Len(ns) |-> <<>>]
      BY <1>3, <1>5, <2>1
    <3> QED
      BY <3>1
  <2>3. p \in Seq(Seq({}))
    BY <1>2, <2>2, SeqDef
  <2>4. FlattenSeq(p) \in Seq({})
    BY <2>3, FlatType
  <2>5. FlattenSeq(p) = <<>>
    BY <2>4, NothingIn
  <2> QED
    BY <1>1, <1>4, <1>5, <2>1, <2>5 DEF Loud
<1>6. CASE ~Silent(kind)
  <2>1. [k \in DOMAIN s |-> IF Silent(s[k].kind) THEN <<>> ELSE <<s[k]>>] = [k \in DOMAIN s |-> <<s[k]>>]
    BY <1>3, <1>6
  <2>2. Loud(s) = s
    BY <1>4, <2>1, Singles DEF Loud
  <2> QED
    BY <1>1, <1>4, <1>6, <2>2
<1> QED
  BY <1>5, <1>6

(* The lines of one kind among what is said.                                 *)
Told(kind, a) == Numbered(kind, Loud(a))
LEMMA ToldJoin ==
    ASSUME NEW kind, NEW a \in Seq(Printable), NEW b \in Seq(Printable)
    PROVE  Told(kind, a \o b) = Told(kind, a) \o Told(kind, b) /\ Told(kind, a) \in Seq(Payload) /\ Told(kind, b) \in Seq(Payload)
           /\ a \o b \in Seq(Printable)
<1>1. PICK x, y : x = Loud(a) /\ y = Loud(b)
  OBVIOUS
<1>2. x \in Seq(Printable) /\ y \in Seq(Printable) /\ Loud(a \o b) = x \o y /\ a \o b \in Seq(Printable)
  BY <1>1, LoudJoin
<1>3. x \in Seq(Printable) /\ y \in Seq(Printable)
  BY <1>2
<1>4. Numbered(kind, x \o y) = Numbered(kind, x) \o Numbered(kind, y) /\ Numbered(kind, x) \in Seq(Payload) /\ Numbered(kind, y) \in Seq(Payload)
  BY <1>3, NumJoin
<1> QED
  BY <1>1, <1>2, <1>4 DEF Told

LEMMA ToldOne ==
    ASSUME NEW kind, NEW other \in AllKinds, NEW n \in Payload
    PROVE  /\ One(other, n) \in Seq(Printable) /\ Told(kind, <<>>) = <<>>
           /\ Told(kind, One(other, n)) = IF other = kind /\ ~Silent(kind) THEN <<n>> ELSE <<>>
<1>1. PICK e : e = [kind |-> other, n |-> n]
  OBVIOUS
<1>2. e \in Printable /\ One(other, n) = <<e>>
  BY <1>1 DEF Printable, AllKinds, One
<1>3. Loud(One(other, n)) = (IF Silent(other) THEN <<>> ELSE <<e>>) /\ Loud(<<>>) = <<>>
  <2>1. Loud(<<e>>) = (IF Silent(e.kind) THEN <<>> ELSE <<e>>) /\ Loud(<<>>) = <<>>
    BY <1>2, LoudOne
  <2>2. e.kind = other
    BY <1>1
  <2> QED
    BY <1>2, <2>1, <2>2
<1>4. Numbered(kind, <<e>>) = (IF other = kind THEN <<n>> ELSE <<>>) /\ Numbered(kind, <<>>) = <<>>
  BY <1>1, <1>2, NumOne, NumEmpty DEF NumOf
<1>5. One(other, n) \in Seq(Printable)
  BY <1>2
<1> QED
  BY <1>3, <1>4, <1>5 DEF Told

LEMMA ToldItems ==
    ASSUME NEW kind, NEW other \in AllKinds, NEW ns \in Seq(Payload)
    PROVE  /\ Items(other, ns) \in Seq(Printable)
           /\ Told(kind, Items(other, ns)) = IF other = kind /\ ~Silent(kind) THEN ns ELSE <<>>
<1>1. PICK s : s = Items(other, ns)
  OBVIOUS
<1>2. s \in Seq(Printable) /\ Loud(s) = IF Silent(other) THEN <<>> ELSE s
  BY <1>1, LoudItems
<1>3. other # kind => Numbered(kind, s) = <<>>
  <2>1. \A k \in DOMAIN s : s[k].kind = other
    BY <1>1 DEF Items
  <2> QED
    BY <1>2, <2>1, NumNone
<1>4. Numbered(other, s) = ns /\ Numbered(kind, <<>>) = <<>>
  BY <1>1, NumItems, NumEmpty
<1> QED
  BY <1>1, <1>2, <1>3, <1>4 DEF Told

LEMMA ToldWarning ==
    ASSUME NEW kind, NEW unless \in BOOLEAN
    PROVE  /\ Warning(unless) \in Seq(Printable)
           /\ Told(kind, Warning(unless)) = IF ~unless /\ kind = "warning" /\ ~Silent(kind) THEN <<0>> ELSE <<>>
<1>1. "warning" \in AllKinds /\ 0 \in Payload /\ <<>> \in Seq(Printable)
  BY DEF AllKinds, Payload
<1>2. /\ One("warning", 0) \in Seq(Printable) /\ Told(kind, <<>>) = <<>>
      /\ Told(kind, One("warning", 0)) = IF "warning" = kind /\ ~Silent(kind) THEN <<0>> ELSE <<>>
  BY <1>1, ToldOne
<1> QED
  BY <1>1, <1>2 DEF Warning

LEMMA PrintedNow ==
    ASSUME lines \in Seq(Printable), NEW items, items \in Seq(Printable), Emits(items)
    PROVE  /\ lines' = lines \o Loud(items) /\ Loud(items) \in Seq(Printable) /\ lines' \in Seq(Printable)
           /\ \A kind : Printed(kind) \in Seq(Payload) /\ Told(kind, items) \in Seq(Payload) /\ Printed(kind)' = Printed(kind) \o Told(kind, items)
           /\ \A kind : Told(kind, items) = <<>> => Printed(kind)' = Printed(kind)
           /\ \A kind : Printed(kind)' = <<>> => Printed(kind) = <<>> /\ Told(kind, items) = <<>>
           /\ \A kind : Printed(kind) = <<>> => Printed(kind)' = Told(kind, items)
<1>1. PICK x : x = Loud(items)
  OBVIOUS
<1>2. lines' = lines \o x /\ x \in Seq(Printable)
  BY <1>1, LoudJoin DEF Emits, Loud
<1>3. lines \o x \in Seq(Printable)
  BY <1>2, ConcatProperties
<1>4. ASSUME NEW kind
      PROVE  /\ Printed(kind) \in Seq(Payload) /\ Told(kind, items) \in Seq(Payload) /\ Printed(kind)' = Printed(kind) \o Told(kind, items)
             /\ Told(kind, items) = <<>> => Printed(kind)' = Printed(kind)
             /\ Printed(kind)' = <<>> => Printed(kind) = <<>> /\ Told(kind, items) = <<>>
             /\ Printed(kind) = <<>> => Printed(kind)' = Told(kind, items)
  <2>1. PICK p, t : p = Printed(kind) /\ t = Told(kind, items)
    OBVIOUS
  <2>2. /\ Numbered(kind, lines) \in Seq(Payload) /\ Numbered(kind, x) \in Seq(Payload)
        /\ Numbered(kind, lines \o x) = Numbered(kind, lines) \o Numbered(kind, x)
    BY <1>2, NumJoin
  <2>3. p \in Seq(Payload) /\ t \in Seq(Payload) /\ p = Numbered(kind, lines) /\ t = Numbered(kind, x)
    BY <1>1, <2>1, <2>2 DEF Printed, Told
  <2>4. Printed(kind)' = p \o t
    <3>1. Printed(kind)' = Numbered(kind, lines')
      BY DEF Printed
    <3> QED
      BY <1>2, <2>2, <2>3, <3>1
  <2>5. (p \o t = <<>> => p = <<>> /\ t = <<>>) /\ p \o <<>> = p /\ <<>> \o t = t
    <3>1. p \in Seq(Payload) /\ t \in Seq(Payload)
      BY <2>3
    <3> QED
      BY <3>1, EmptyBoth, ConcatEmptySeq
  <2> QED
    BY <2>1, <2>3, <2>4, <2>5
<1> QED
  BY <1>1, <1>2, <1>3, <1>4

LEMMA Audible ==
    /\ ~Silent("text") /\ ~Silent("error") /\ ~Silent("call") /\ (Silent("warning") <=> way.door = "text" /\ way.quiet)
    /\ way.door # "text" => \A kind : ~Silent(kind)
BY DEF Silent

-----------------------------------------------------------------------------
(* The door without a screen.                                                *)
LEMMA DoorNow ==
    ASSUME DoorTypes
    PROVE  /\ way.door \in {"screen", "text", "json"} /\ way.tools \in BOOLEAN /\ way.save \in BOOLEAN /\ way.quiet \in BOOLEAN
           /\ lines \in Seq(Printable) /\ store \in BOOLEAN /\ (code # -1 <=> phase = "exited")
           /\ phase \in {"screen", "starting", "asking", "waiting", "streaming", "closing", "exited"}
BY DEF DoorTypes, Openings

\* A step that prints nothing and does not end.
LEMMA DoorIdle ==
    ASSUME DoorTypes, DoorOK, phase # "exited", UNCHANGED headless,
           way.door # "screen" => live' = live /\ answer' = answer /\ buf'.done = buf.done,
           phase \in {"starting", "asking", "waiting"} => UNCHANGED <<chan, buf, live, answer, decoder>>,
           way.door # "screen" /\ ~(phase = "streaming" /\ way.tools) => buf' = buf
    PROVE  DoorTypes' /\ DoorOK'
<1>1. UNCHANGED <<way, phase, tries, store, lines, stored, code>>
  BY DEF headless, ending
<1>2. DoorTypes'
  BY <1>1 DEF DoorTypes
<1>3. \A kind : Printed(kind)' = Printed(kind)
  BY <1>1 DEF Printed, Numbered
<1>4. Warned' <=> Warned
  BY <1>1, <1>3 DEF Warned
<1>5. PhaseOK'
  BY <1>1 DEF DoorOK, PhaseOK, Untouched, NothingRead, At, InTurn
<1>6. ReadOK'
  BY <1>1, <1>3 DEF DoorOK, PhaseOK, ReadOK, NothingRead, InTurn
<1>7. QuietOK'
  BY <1>1, <1>3 DEF DoorOK, QuietOK
<1>8. StoredOK'
  BY <1>1, <1>4 DEF DoorOK, PhaseOK, StoredOK, Saved
<1>9. ExitTells'
  BY <1>1 DEF ExitTells
<1> QED
  BY <1>2, <1>5, <1>6, <1>7, <1>8, <1>9 DEF DoorOK

\* What was printed before is there: a person who was warned stays warned.
LEMMA WarnedStays ==
    ASSUME lines \in Seq(Printable), NEW items, items \in Seq(Printable), Emits(items), way' = way
    PROVE  (Warned => Warned') /\ (Told("warning", items) # <<>> => Warned')
<1>1. Printed("warning")' = <<>> => Printed("warning") = <<>> /\ Told("warning", items) = <<>>
  BY PrintedNow
<1> QED
  BY <1>1 DEF Warned

LEMMA StartDoor ==
    ASSUME DoorTypes, DoorOK, Start
    PROVE  DoorTypes' /\ DoorOK'
<1>1. /\ phase = "starting" /\ UNCHANGED <<way, tries, stored>> /\ UNCHANGED streamVars
      /\ lines \in Seq(Printable) /\ answer = "none" /\ Untouched /\ way.door # "screen"
      /\ way.door \in {"screen", "text", "json"} /\ way.save \in BOOLEAN
      /\ Printed("error") = <<>> /\ Printed("done") = <<>>
  BY DoorNow DEF Start, DoorOK, PhaseOK, QuietOK, InTurn
<1>2. UNCHANGED <<chan, buf, live, answer, decoder, cancelled>>
  BY <1>1 DEF streamVars, reading, screen, decoding
<1>3. ~way.tools => buf = EmptyBuf /\ Printed("text") = live.text
  BY <1>1 DEF DoorOK, ReadOK
<1>4. way.tools => Printed("text") = <<>>
  BY <1>1 DEF DoorOK, ReadOK, InTurn
<1>5. ~way.tools => stored = <<>>
  BY <1>1 DEF DoorOK, StoredOK
<1>6. 0 \in Payload /\ "error" \in AllKinds /\ "meta" \in AllKinds
  BY DEF Payload, AllKinds
<1>7. CASE \E c \in {1, 2} : phase' = "exited" /\ code' = c /\ Emits(One("error", 0)) /\ UNCHANGED store
  <2>1. PICK items : items = One("error", 0)
    OBVIOUS
  <2>2. items \in Seq(Printable) /\ Emits(items) /\ phase' = "exited" /\ code' \in {1, 2} /\ store' = store
    BY <1>6, <1>7, <2>1, ToldOne
  <2>3. Told("error", items) = <<0>> /\ Told("text", items) = <<>>
    BY <1>6, <2>1, ToldOne, Audible
  <2>4. Printed("error")' = <<0>> /\ Printed("text")' = Printed("text") /\ lines' \in Seq(Printable)
    BY <1>1, <2>2, <2>3, PrintedNow
  <2>5. DoorTypes'
    BY <1>1, <2>2, <2>4 DEF DoorTypes
  <2>6. PhaseOK'
    BY <1>1, <2>2 DEF PhaseOK, InTurn
  <2>7. ReadOK'
    BY <1>1, <1>2, <1>3, <2>2, <2>4 DEF ReadOK, InTurn
  <2>8. QuietOK' /\ StoredOK'
    BY <2>2 DEF QuietOK, StoredOK
  <2>9. ExitTells'
    <3>1. Len(Printed("error")') = 1
      BY <2>4
    <3>2. answer' = "none" /\ code' # 0 /\ code' # 130
      BY <1>1, <1>2, <2>2
    <3> QED
      BY <3>1, <3>2 DEF ExitTells
  <2> QED
    BY <2>5, <2>6, <2>7, <2>8, <2>9 DEF DoorOK
<1>8. CASE \E opens, writes \in BOOLEAN :
             /\ phase' = "asking" /\ store' = (way.save /\ opens)
             /\ Emits(Warning(way.save => opens) \o One("meta", 0) \o Warning(store' => writes))
             /\ UNCHANGED code
  <2>1. PICK opens \in BOOLEAN, writes \in BOOLEAN :
             /\ phase' = "asking" /\ store' = (way.save /\ opens)
             /\ Emits((Warning(way.save => opens) \o One("meta", 0)) \o Warning(store' => writes))
             /\ UNCHANGED code
    BY <1>8
  <2>2. PICK a, b, c, ab, items : /\ a = Warning(way.save => opens) /\ b = One("meta", 0) /\ c = Warning(store' => writes)
                                  /\ ab = a \o b /\ items = ab \o c
    OBVIOUS
  <2>3. (way.save => opens) \in BOOLEAN /\ (store' => writes) \in BOOLEAN /\ store' \in BOOLEAN
    BY <1>1, <2>1
  <2>4. /\ a \in Seq(Printable) /\ c \in Seq(Printable)
        /\ \A kind \in {"text", "error", "done"} : Told(kind, a) = <<>> /\ Told(kind, c) = <<>>
        /\ Told("warning", a) = IF ~(way.save => opens) /\ ~Silent("warning") THEN <<0>> ELSE <<>>
    BY <2>2, <2>3, ToldWarning
  <2>5. b \in Seq(Printable) /\ \A kind \in {"text", "error", "done"} : Told(kind, b) = <<>>
    BY <1>6, <2>2, ToldOne
  <2>6. a \in Seq(Printable) /\ b \in Seq(Printable) /\ c \in Seq(Printable)
    BY <2>4, <2>5
  <2>7. ab \in Seq(Printable) /\ \A kind : Told(kind, ab) = Told(kind, a) \o Told(kind, b) /\ Told(kind, a) \in Seq(Payload) /\ Told(kind, b) \in Seq(Payload)
    <3>1. a \o b \in Seq(Printable) /\ \A kind : Told(kind, a \o b) = Told(kind, a) \o Told(kind, b) /\ Told(kind, a) \in Seq(Payload) /\ Told(kind, b) \in Seq(Payload)
      BY <2>6, ToldJoin
    <3> QED
      BY <2>2, <3>1
  <2>8. items \in Seq(Printable) /\ \A kind : Told(kind, items) = Told(kind, ab) \o Told(kind, c) /\ Told(kind, ab) \in Seq(Payload) /\ Told(kind, c) \in Seq(Payload)
    <3>1. ab \in Seq(Printable) /\ c \in Seq(Printable)
      BY <2>6, <2>7
    <3>2. ab \o c \in Seq(Printable) /\ \A kind : Told(kind, ab \o c) = Told(kind, ab) \o Told(kind, c) /\ Told(kind, ab) \in Seq(Payload) /\ Told(kind, c) \in Seq(Payload)
      BY <3>1, ToldJoin
    <3> QED
      BY <2>2, <3>2
  <2>9. \A kind \in {"text", "error", "done"} : Told(kind, items) = <<>>
    <3>1. <<>> \o <<>> = <<>>
      OBVIOUS
    <3> QED
      BY <2>4, <2>5, <2>7, <2>8, <3>1
  <2>10. Told("warning", a) # <<>> => Told("warning", items) # <<>>
    <3>1. PICK x, y, z, xy : x = Told("warning", a) /\ y = Told("warning", b) /\ z = Told("warning", c) /\ xy = Told("warning", ab)
      OBVIOUS
    <3>2. x \in Seq(Payload) /\ y \in Seq(Payload) /\ z \in Seq(Payload) /\ xy \in Seq(Payload) /\ xy = x \o y /\ Told("warning", items) = xy \o z
      BY <2>7, <2>8, <3>1
    <3>3. xy \o z = <<>> => xy = <<>>
      BY <3>2, EmptyBoth
    <3>4. xy = <<>> => x = <<>>
      <4>1. x \o y = <<>> => x = <<>>
        BY <3>2, EmptyBoth
      <4> QED
        BY <3>2, <4>1
    <3> QED
      BY <3>1, <3>2, <3>3, <3>4
  <2>11. Emits(items)
    BY <2>1, <2>2
  <2>12. lines' \in Seq(Printable) /\ \A kind \in {"text", "error", "done"} : Printed(kind)' = Printed(kind)
    BY <1>1, <2>8, <2>9, <2>11, PrintedNow
  <2>13. way.save /\ ~store' => Warned'
    <3> SUFFICES ASSUME way.save, ~store' PROVE Warned'
      OBVIOUS
    <3>1. ~opens
      BY <2>1
    <3>2. CASE Silent("warning")
      <4>1. way.door = "text" /\ way.quiet /\ way' = way
        BY <1>1, <3>2, Audible
      <4>2. way'.door = "text" /\ way'.quiet
        BY <4>1
      <4> QED
        BY <4>2 DEF Warned
    <3>3. CASE ~Silent("warning")
      <4>1. Told("warning", a) = <<0>>
        BY <2>4, <3>1, <3>3
      <4>2. Told("warning", items) # <<>> /\ items \in Seq(Printable)
        <5>1. <<0>> # <<>>
          OBVIOUS
        <5> QED
          BY <2>8, <2>10, <4>1, <5>1
      <4> QED
        BY <1>1, <2>11, <4>2, WarnedStays
    <3> QED
      BY <3>2, <3>3
  <2>14. DoorTypes'
    BY <1>1, <2>1, <2>3, <2>12 DEF DoorTypes
  <2>15. PhaseOK'
    BY <1>1, <1>2, <2>1 DEF PhaseOK, InTurn, Untouched, NothingRead, At
  <2>16. ReadOK'
    BY <1>1, <1>2, <1>3, <1>4, <2>1, <2>12 DEF ReadOK, InTurn
  <2>17. QuietOK'
    BY <1>1, <2>12 DEF QuietOK
  <2>18. StoredOK'
    BY <1>1, <1>5, <2>1, <2>13 DEF StoredOK
  <2>19. ExitTells'
    BY <2>1 DEF ExitTells
  <2> QED
    BY <2>14, <2>15, <2>16, <2>17, <2>18, <2>19 DEF DoorOK
<1> QED
  BY <1>7, <1>8 DEF Start

\* The steps of the stream that the door only watches.
LEMMA ScreenDoor == ASSUME DoorTypes, DoorOK, phase = "screen", UNCHANGED headless PROVE DoorTypes' /\ DoorOK'
<1>1. way.door = "screen"
  BY DEF DoorOK, PhaseOK
<1> QED
  BY <1>1, DoorIdle

LEMMA LinesDoor ==
    ASSUME DoorTypes, DoorOK, SayLine \/ DispatchLine \/ BodyEndsLine \/ EmitLine
    PROVE  DoorTypes' /\ DoorOK'
<1>1. phase = "streaming" /\ UNCHANGED headless
  BY DEF SayLine, DispatchLine, BodyEndsLine, EmitLine, Streaming
<1>2. UNCHANGED <<buf, live, answer>>
  BY DEF SayLine, DispatchLine, BodyEndsLine, EmitLine, Say, Dispatch, BodyEnds, Emit, reading, screen
<1> QED
  BY <1>1, <1>2, DoorIdle

LEMMA AgentReceiveDoor ==
    ASSUME DoorTypes, DoorOK, AgentReceive, Took
    PROVE  DoorTypes' /\ DoorOK'
<1>1. phase = "streaming" /\ way.tools /\ UNCHANGED headless /\ UNCHANGED <<live, answer>>
  BY DEF AgentReceive, Streaming, Receive, screen
<1>2. buf'.done = buf.done
  BY DEF Took
<1> QED
  BY <1>1, <1>2, DoorIdle

LEMMA SignalDoor == ASSUME DoorTypes, DoorOK, Signal PROVE DoorTypes' /\ DoorOK'
<1>1. phase # "exited" /\ UNCHANGED headless /\ UNCHANGED <<chan, buf, live, answer, decoder>>
  BY DEF Signal, reading, screen, decoding
<1> QED
  BY <1>1, DoorIdle

LEMMA StillDoor == ASSUME DoorTypes, DoorOK, UNCHANGED hvars PROVE DoorTypes' /\ DoorOK'
<1>1. UNCHANGED headless /\ UNCHANGED <<chan, buf, live, answer, decoder, sent, cancelled>>
  BY DEF hvars, streamVars, reading, screen, decoding, wire
<1>2. CASE phase # "exited"
  BY <1>1, <1>2, DoorIdle
<1>3. CASE phase = "exited"
  <2>1. UNCHANGED <<way, phase, tries, store, lines, stored, code>>
    BY <1>1 DEF headless, ending
  <2>2. \A kind : Printed(kind)' = Printed(kind)
    BY <2>1 DEF Printed, Numbered
  <2>3. Warned' <=> Warned
    BY <2>1, <2>2 DEF Warned
  <2>4. SentOf("text")' = SentOf("text")
    BY <1>1 DEF SentOf, Places
  <2>5. ExitTells'
    BY <1>1, <2>1, <2>2, <2>3, <2>4 DEF DoorOK, ExitTells
  <2>6. PhaseOK' /\ QuietOK' /\ StoredOK' /\ DoorTypes'
    BY <1>1, <1>3, <2>1 DEF DoorOK, PhaseOK, QuietOK, StoredOK, InTurn, DoorTypes
  <2>7. ReadOK'
    BY <1>1, <1>3, <2>1, <2>2 DEF DoorOK, ReadOK, InTurn
  <2> QED
    BY <2>5, <2>6, <2>7 DEF DoorOK
<1> QED
  BY <1>2, <1>3

\* The request, before anything of the answer is there.
LEMMA RequestDoor ==
    ASSUME DoorTypes, DoorOK, phase \in {"asking", "waiting"}, UNCHANGED <<decoder, chan, buf, live, way, store, stored, code>>,
           lines' \in Seq(Printable), \A kind \in {"text", "error", "done"} : Printed(kind)' = Printed(kind), Warned => Warned',
           tries' \in 0..MaxRetries,
           \/ phase' \in {"asking", "waiting", "streaming"} /\ answer' = "none"
           \/ phase' = "closing" /\ answer' \in {"error", "cancelled"}
    PROVE  DoorTypes' /\ DoorOK'
<1>1. /\ way.door # "screen" /\ Untouched /\ NothingRead /\ buf = EmptyBuf /\ ~buf.done /\ code = -1
      /\ answer = "none" /\ Printed("error") = <<>> /\ Printed("done") = <<>>
  BY DEF DoorOK, PhaseOK, QuietOK, Untouched, DoorTypes, EmptyBuf, InTurn
<1>2. (~way.tools => Printed("text") = live.text) /\ (way.tools => Printed("text") = <<>>)
  BY <1>1 DEF DoorOK, ReadOK, InTurn
<1>3. (~way.tools => stored = <<>>) /\ (way.save /\ ~store => Warned)
  BY DEF DoorOK, StoredOK
<1>4. DoorTypes'
  BY <1>1 DEF DoorTypes
<1>5. PhaseOK'
  BY <1>1 DEF PhaseOK, InTurn, Untouched, NothingRead, At
<1>6. ReadOK'
  BY <1>1, <1>2 DEF ReadOK, InTurn, NothingRead
<1>7. QuietOK' /\ ExitTells'
  BY <1>1 DEF QuietOK, ExitTells
<1>8. StoredOK'
  BY <1>3 DEF StoredOK
<1> QED
  BY <1>4, <1>5, <1>6, <1>7, <1>8 DEF DoorOK

LEMMA ConnectDoor == ASSUME DoorTypes, DoorOK, Connect PROVE DoorTypes' /\ DoorOK'
<1>1. /\ phase = "asking" /\ UNCHANGED <<decoder, chan, buf, live, way, store, stored, code>>
      /\ lines \in Seq(Printable) /\ tries \in 0..MaxRetries
  BY DEF Connect, decoding, reading, DoorTypes
<1>2. answer = "none"
  BY <1>1 DEF DoorOK, PhaseOK, InTurn
<1>3. ASSUME UNCHANGED <<lines, tries>>,
             \/ phase' = "streaming" /\ answer' = "none"
             \/ phase' = "closing" /\ answer' \in {"error", "cancelled"}
      PROVE  DoorTypes' /\ DoorOK'
  <2>1. \A kind : Printed(kind)' = Printed(kind)
    BY <1>3 DEF Printed, Numbered
  <2>2. Warned' <=> Warned
    BY <1>1, <2>1 DEF Warned
  <2> QED
    BY <1>1, <1>3, <2>1, <2>2, RequestDoor
<1>4. ASSUME tries < MaxRetries, phase' = "waiting", tries' = tries + 1, Emits(One("warning", tries')), answer' = answer
      PROVE  DoorTypes' /\ DoorOK'
  <2>1. tries' \in 0..MaxRetries /\ tries' \in Payload /\ "warning" \in AllKinds
    BY <1>1, <1>4, HeadlessAssumption DEF Payload, AllKinds
  <2>2. PICK items : items = One("warning", tries')
    OBVIOUS
  <2>3. items \in Seq(Printable) /\ \A kind \in {"text", "error", "done"} : Told(kind, items) = <<>>
    BY <2>1, <2>2, ToldOne
  <2>4. Emits(items)
    BY <1>4, <2>2
  <2>5. lines' \in Seq(Printable) /\ \A kind \in {"text", "error", "done"} : Printed(kind)' = Printed(kind)
    BY <1>1, <2>3, <2>4, PrintedNow
  <2>6. Warned => Warned'
    BY <1>1, <2>3, <2>4, WarnedStays
  <2> QED
    BY <1>1, <1>2, <1>4, <2>1, <2>5, <2>6, RequestDoor
<1> QED
  BY <1>2, <1>3, <1>4 DEF Connect

LEMMA WaitDoor == ASSUME DoorTypes, DoorOK, Wait PROVE DoorTypes' /\ DoorOK'
<1>1. /\ phase = "waiting" /\ UNCHANGED <<decoder, chan, buf, live, way, store, stored, code, lines, tries>>
      /\ lines \in Seq(Printable) /\ tries \in 0..MaxRetries
  BY DEF Wait, decoding, reading, ending, DoorTypes
<1>2. answer = "none"
  BY <1>1 DEF DoorOK, PhaseOK, InTurn
<1>3. \A kind : Printed(kind)' = Printed(kind)
  BY <1>1 DEF Printed, Numbered
<1>4. Warned' <=> Warned
  BY <1>1, <1>3 DEF Warned
<1>5. \/ phase' = "asking" /\ answer' = "none"
      \/ phase' = "closing" /\ answer' = "cancelled"
  BY <1>2 DEF Wait
<1> QED
  BY <1>1, <1>3, <1>4, <1>5, RequestDoor

\* Without tools the message holds what was printed.
LEMMA LineDoor ==
    ASSUME ReaderTypes, DoorTypes, DoorOK, ReceiveLine
    PROVE  DoorTypes' /\ DoorOK'
<1>1. PICK e : e = Head(chan)
  OBVIOUS
<1>2. /\ phase = "streaming" /\ ~way.tools /\ chan # <<>> /\ lines \in Seq(Printable)
      /\ live' = CASE e.kind = "text" -> [live EXCEPT !.text = Append(@, e.n)]
                   [] e.kind = "thought" -> [live EXCEPT !.thoughts = Append(@, e.n)]
                   [] e.kind = "usage" -> [live EXCEPT !.usage = e.n]
                   [] OTHER -> live
      /\ IF e.kind \in {"text", "thought", "usage", "call"} THEN Emits(<<e>>) ELSE UNCHANGED lines
      /\ UNCHANGED <<buf, answer, way, phase, tries, store, stored, code>>
  BY <1>1 DEF ReceiveLine, DoorTypes
<1>3. e \in Item
  BY <1>1, <1>2, HeadTailProperties DEF ReaderTypes
<1>4. e.n \in Payload /\ e = [kind |-> e.kind, n |-> e.n] /\ e.kind \in AllKinds
  BY <1>3 DEF Item, AllKinds
<1>5. live.text \in Seq(Payload) /\ live'.text = IF e.kind = "text" THEN Append(live.text, e.n) ELSE live.text
  <2>1. live \in [text : Text, thoughts : Text, usage : Nat]
    BY DEF ReaderTypes
  <2>2. live.text \in Text
    BY <2>1
  <2> QED
    BY <1>2, <2>1, <2>2 DEF Text
<1>6. /\ phase # "screen" /\ way.door # "screen" /\ answer = "none" /\ buf = EmptyBuf /\ Printed("text") = live.text
      /\ Printed("error") = <<>> /\ Printed("done") = <<>> /\ stored = <<>> /\ (way.save /\ ~store => Warned)
  BY <1>2 DEF DoorOK, PhaseOK, ReadOK, QuietOK, StoredOK, InTurn
<1>7. /\ lines' \in Seq(Printable) /\ Printed("text")' = live'.text /\ Printed("error")' = <<>> /\ Printed("done")' = <<>>
      /\ (Warned => Warned')
  <2>1. CASE e.kind \in {"text", "thought", "usage", "call"}
    <3>1. PICK items : items = One(e.kind, e.n)
      OBVIOUS
    <3>2. items = <<e>> /\ items \in Seq(Printable) /\ \A kind : Told(kind, items) = IF e.kind = kind /\ ~Silent(kind) THEN <<e.n>> ELSE <<>>
      <4>1. One(e.kind, e.n) \in Seq(Printable) /\ \A kind : Told(kind, One(e.kind, e.n)) = IF e.kind = kind /\ ~Silent(kind) THEN <<e.n>> ELSE <<>>
        BY <1>4, ToldOne
      <4>2. One(e.kind, e.n) = <<e>>
        BY <1>4 DEF One
      <4> QED
        BY <3>1, <4>1, <4>2
    <3>3. Emits(items) /\ items \in Seq(Printable)
      BY <1>2, <2>1, <3>2
    <3>4. lines' \in Seq(Printable) /\ \A kind \in {"text", "error", "done"} : Printed(kind)' = Printed(kind) \o Told(kind, items)
      BY <1>2, <3>3, PrintedNow
    <3>5. Warned => Warned'
      BY <1>2, <3>3, WarnedStays
    <3>6. Told("error", items) = <<>> /\ Told("done", items) = <<>>
      BY <2>1, <3>2
    <3>7. <<>> \o <<>> = <<>>
      OBVIOUS
    <3>8. Printed("text")' = live'.text
      <4>1. CASE e.kind = "text"
        <5>1. Told("text", items) = <<e.n>>
          BY <3>2, <4>1, Audible
        <5>2. Append(live.text, e.n) = live.text \o <<e.n>>
          BY <1>4, <1>5, AppendIsConcat
        <5> QED
          BY <1>5, <1>6, <3>4, <4>1, <5>1, <5>2
      <4>2. CASE e.kind # "text"
        <5>1. Told("text", items) = <<>>
          BY <3>2, <4>2
        <5>2. live.text \o <<>> = live.text
          BY <1>5, ConcatEmptySeq
        <5> QED
          BY <1>5, <1>6, <3>4, <4>2, <5>1, <5>2
      <4> QED
        BY <4>1, <4>2
    <3> QED
      BY <1>6, <3>4, <3>5, <3>6, <3>7, <3>8
  <2>2. CASE e.kind \notin {"text", "thought", "usage", "call"}
    <3>1. lines' = lines
      BY <1>2, <2>2
    <3>2. \A kind : Printed(kind)' = Printed(kind)
      BY <3>1 DEF Printed, Numbered
    <3>3. Warned' <=> Warned
      BY <1>2, <3>2 DEF Warned
    <3>4. live'.text = live.text
      BY <1>5, <2>2
    <3> QED
      BY <1>2, <1>6, <3>1, <3>2, <3>3, <3>4
  <2> QED
    BY <2>1, <2>2
<1>8. DoorTypes'
  BY <1>2, <1>7 DEF DoorTypes
<1>9. PhaseOK' /\ QuietOK' /\ ExitTells'
  BY <1>2, <1>6, <1>7 DEF PhaseOK, QuietOK, ExitTells, InTurn
<1>10. ReadOK' /\ StoredOK'
  BY <1>2, <1>6, <1>7 DEF ReadOK, StoredOK, InTurn
<1> QED
  BY <1>8, <1>9, <1>10 DEF DoorOK

LEMMA EndLineDoor ==
    ASSUME ReaderTypes, DoorTypes, DoorOK, EndLine
    PROVE  DoorTypes' /\ DoorOK'
<1>1. /\ phase = "streaming" /\ phase' = "closing" /\ ~way.tools /\ answer' = Verdict
      /\ UNCHANGED <<buf, live, way, tries, store, lines, stored, code>>
  BY DEF EndLine, reading, ending
<1>2. answer' # "none"
  BY <1>1, VerdictIs
<1>3. \A kind : Printed(kind)' = Printed(kind)
  BY <1>1 DEF Printed, Numbered
<1>4. Warned' <=> Warned
  BY <1>1, <1>3 DEF Warned
<1>5. DoorTypes'
  BY <1>1 DEF DoorTypes
<1>6. PhaseOK' /\ QuietOK' /\ ExitTells'
  BY <1>1, <1>2, <1>3 DEF DoorOK, PhaseOK, QuietOK, ExitTells, InTurn
<1>7. ReadOK'
  BY <1>1, <1>3 DEF DoorOK, ReadOK, InTurn
<1>8. StoredOK'
  BY <1>1, <1>4 DEF DoorOK, StoredOK
<1> QED
  BY <1>5, <1>6, <1>7, <1>8 DEF DoorOK

\* The kinds of three things said one after the other.
LEMMA ToldThree ==
    ASSUME NEW a, NEW b, NEW c, a \in Seq(Printable), b \in Seq(Printable), c \in Seq(Printable)
    PROVE  /\ (a \o b) \o c \in Seq(Printable)
           /\ \A kind : /\ Told(kind, a) = <<>> /\ Told(kind, b) = <<>> => Told(kind, (a \o b) \o c) = Told(kind, c)
                        /\ Told(kind, a) = <<>> /\ Told(kind, c) = <<>> => Told(kind, (a \o b) \o c) = Told(kind, b)
                        /\ Told(kind, b) = <<>> /\ Told(kind, c) = <<>> => Told(kind, (a \o b) \o c) = Told(kind, a)
                        /\ Told(kind, (a \o b) \o c) = <<>> => Told(kind, a) = <<>> /\ Told(kind, b) = <<>> /\ Told(kind, c) = <<>>
<1>1. PICK ab : ab = a \o b
  OBVIOUS
<1>2. ab \in Seq(Printable)
  BY <1>1, ConcatProperties
<1>3. ab \o c \in Seq(Printable)
  BY <1>2, ConcatProperties
<1>4. ASSUME NEW kind
      PROVE  /\ Told(kind, a) = <<>> /\ Told(kind, b) = <<>> => Told(kind, ab \o c) = Told(kind, c)
             /\ Told(kind, a) = <<>> /\ Told(kind, c) = <<>> => Told(kind, ab \o c) = Told(kind, b)
             /\ Told(kind, b) = <<>> /\ Told(kind, c) = <<>> => Told(kind, ab \o c) = Told(kind, a)
             /\ Told(kind, ab \o c) = <<>> => Told(kind, a) = <<>> /\ Told(kind, b) = <<>> /\ Told(kind, c) = <<>>
  <2>1. PICK x, y, z, xy : x = Told(kind, a) /\ y = Told(kind, b) /\ z = Told(kind, c) /\ xy = Told(kind, ab)
    OBVIOUS
  <2>2. xy = x \o y /\ x \in Seq(Payload) /\ y \in Seq(Payload)
    <3>1. Told(kind, a \o b) = Told(kind, a) \o Told(kind, b) /\ Told(kind, a) \in Seq(Payload) /\ Told(kind, b) \in Seq(Payload)
      BY ToldJoin
    <3> QED
      BY <1>1, <2>1, <3>1
  <2>3. Told(kind, ab \o c) = xy \o z /\ xy \in Seq(Payload) /\ z \in Seq(Payload)
    <3>1. Told(kind, ab \o c) = Told(kind, ab) \o Told(kind, c) /\ Told(kind, ab) \in Seq(Payload) /\ Told(kind, c) \in Seq(Payload)
      BY <1>2, ToldJoin
    <3> QED
      BY <2>1, <3>1
  <2>4. x \o y = <<>> <=> x = <<>> /\ y = <<>>
    BY <2>2, EmptyBoth
  <2>5. xy \o z = <<>> <=> xy = <<>> /\ z = <<>>
    BY <2>3, EmptyBoth
  <2>6. \A s \in Seq(Payload) : s \o <<>> = s /\ <<>> \o s = s
    BY ConcatEmptySeq
  <2>7. x = <<>> /\ y = <<>> => xy \o z = z
    BY <2>2, <2>3, <2>6
  <2>8. x = <<>> /\ z = <<>> => xy \o z = y
    BY <2>2, <2>3, <2>6
  <2>9. y = <<>> /\ z = <<>> => xy \o z = x
    BY <2>2, <2>3, <2>6
  <2>10. xy \o z = <<>> => x = <<>> /\ y = <<>> /\ z = <<>>
    BY <2>2, <2>4, <2>5
  <2> QED
    BY <2>1, <2>3, <2>7, <2>8, <2>9, <2>10
<1> QED
  BY <1>1, <1>3, <1>4

LEMMA AppendedIn ==
    ASSUME NEW T, NEW s \in Seq(T), NEW e \in T
    PROVE  Append(s, e) \in Seq(T) /\ e \in ToSet(Append(s, e))
<1>1. PICK n \in Nat : n = Len(s)
  BY LenProperties
<1>2. Append(s, e) \in Seq(T) /\ Len(Append(s, e)) = n + 1 /\ Append(s, e)[n + 1] = e
  BY <1>1, AppendProperties
<1>3. n + 1 \in DOMAIN Append(s, e)
  BY <1>2, LenProperties
<1> QED
  BY <1>2, <1>3 DEF ToSet

LEMMA ToldNothing == <<>> \in Seq(Printable) /\ \A kind : Told(kind, <<>>) = <<>>
<1>1. "done" \in AllKinds /\ 0 \in Payload
  BY DEF AllKinds, Payload
<1>2. ASSUME NEW kind PROVE Told(kind, <<>>) = <<>>
  BY <1>1, ToldOne
<1> QED
  BY <1>2

\* With tools the answer is printed, and saved, once it is whole.
LEMMA TurnDoor ==
    ASSUME WireTypes, ReaderTypes, DoorTypes, DoorOK, AgentTurn
    PROVE  DoorTypes' /\ DoorOK'
<1>1. PICK adds : adds = IF cancelled THEN buf.text # <<>> ELSE err = "none" /\ buf.text \o buf.thoughts # <<>>
  OBVIOUS
<1>2. PICK writes \in BOOLEAN :
        /\ stored' = IF adds /\ store /\ writes THEN Append(stored, Answered(buf.text, cancelled)) ELSE stored
        /\ Emits((IF adds THEN Items("thought", buf.thoughts) \o Items("text", buf.text) \o Warning(store => writes) ELSE <<>>)
                 \o (IF buf.usage = 0 THEN <<>> ELSE One("usage", buf.usage)))
  BY <1>1 DEF AgentTurn
<1>3. /\ phase = "streaming" /\ phase' = "closing" /\ way.tools
      /\ live' = [text |-> buf.text, thoughts |-> buf.thoughts, usage |-> buf.usage]
      /\ buf' = EmptyBuf /\ answer' = Verdict /\ UNCHANGED <<way, tries, store, code>>
  BY DEF AgentTurn
<1>4. /\ buf.text \in Seq(Payload) /\ buf.thoughts \in Seq(Payload) /\ buf.usage \in Payload /\ live'.text = buf.text
      /\ cancelled \in BOOLEAN /\ store \in BOOLEAN /\ lines \in Seq(Printable) /\ adds \in BOOLEAN
  <2>1. buf.text \in Text /\ buf.thoughts \in Text /\ buf.usage \in Nat
    BY DEF ReaderTypes
  <2> QED
    BY <1>1, <1>3, <2>1 DEF Text, Payload, WireTypes, DoorTypes
<1>5. /\ way.door # "screen" /\ Printed("text") = <<>> /\ Printed("error") = <<>> /\ Printed("done") = <<>>
      /\ (way.save /\ ~store => Warned)
  BY <1>3 DEF DoorOK, PhaseOK, ReadOK, QuietOK, StoredOK, InTurn
<1>6. answer' # "none" /\ (answer' = "complete" => ~cancelled /\ err = "none")
  <2>1. Verdict # "none"
    BY VerdictIs
  <2>2. Verdict = "complete" => ~cancelled /\ err = "none"
    BY DEF Verdict, ReaderTypes, Failures
  <2> QED
    BY <1>3, <2>1, <2>2
<1>7. answer' = "complete" /\ ~adds => buf.text = <<>>
  <2>1. buf.text \o buf.thoughts = <<>> => buf.text = <<>>
    BY <1>4, EmptyBoth
  <2> QED
    BY <1>1, <1>6, <2>1
<1>8. PICK t, x, w, a, u, items :
        /\ t = Items("thought", buf.thoughts) /\ x = Items("text", buf.text) /\ w = Warning(store => writes)
        /\ a = IF adds THEN (t \o x) \o w ELSE <<>>
        /\ u = IF buf.usage = 0 THEN <<>> ELSE One("usage", buf.usage)
        /\ items = a \o u
  OBVIOUS
<1>9. Emits(items)
  BY <1>2, <1>8
<1>10. "thought" \in AllKinds /\ "text" \in AllKinds /\ "usage" \in AllKinds /\ (store => writes) \in BOOLEAN /\ ~Silent("text")
  BY <1>2, <1>4, Audible DEF AllKinds
<1>11. t \in Seq(Printable) /\ \A kind : Told(kind, t) = IF "thought" = kind /\ ~Silent(kind) THEN buf.thoughts ELSE <<>>
  BY <1>4, <1>8, <1>10, ToldItems
<1>12. x \in Seq(Printable) /\ \A kind : Told(kind, x) = IF "text" = kind /\ ~Silent(kind) THEN buf.text ELSE <<>>
  BY <1>4, <1>8, <1>10, ToldItems
<1>13. w \in Seq(Printable) /\ \A kind : Told(kind, w) = IF ~(store => writes) /\ kind = "warning" /\ ~Silent(kind) THEN <<0>> ELSE <<>>
  BY <1>8, <1>10, ToldWarning
<1>14. u \in Seq(Printable) /\ \A kind : kind # "usage" => Told(kind, u) = <<>>
  <2>1. One("usage", buf.usage) \in Seq(Printable) /\ \A kind : kind # "usage" => Told(kind, One("usage", buf.usage)) = <<>>
    BY <1>4, <1>10, ToldOne
  <2>2. <<>> \in Seq(Printable) /\ \A kind : Told(kind, <<>>) = <<>>
    BY ToldNothing
  <2> QED
    BY <1>8, <2>1, <2>2
<1>15. /\ a \in Seq(Printable) /\ (~adds => \A kind : Told(kind, a) = <<>>)
       /\ adds => /\ Told("text", a) = buf.text /\ Told("error", a) = <<>> /\ Told("done", a) = <<>>
                  /\ Told("warning", a) = Told("warning", w)
  <2>1. CASE adds
    <3>1. t \in Seq(Printable) /\ x \in Seq(Printable) /\ w \in Seq(Printable) /\ a = (t \o x) \o w
      BY <1>8, <1>11, <1>12, <1>13, <2>1
    <3>2. /\ a \in Seq(Printable)
          /\ \A kind : /\ Told(kind, t) = <<>> /\ Told(kind, x) = <<>> => Told(kind, a) = Told(kind, w)
                       /\ Told(kind, t) = <<>> /\ Told(kind, w) = <<>> => Told(kind, a) = Told(kind, x)
      BY <3>1, ToldThree
    <3>3. \A kind \in {"text", "error", "done", "warning"} : Told(kind, t) = <<>>
      BY <1>11
    <3>4. \A kind \in {"error", "done", "warning"} : Told(kind, x) = <<>>
      BY <1>12
    <3>5. \A kind \in {"text", "error", "done"} : Told(kind, w) = <<>>
      BY <1>13
    <3>6. Told("text", x) = buf.text
      BY <1>10, <1>12
    <3> QED
      BY <2>1, <3>2, <3>3, <3>4, <3>5, <3>6
  <2>2. CASE ~adds
    <3>1. <<>> \in Seq(Printable) /\ \A kind : Told(kind, <<>>) = <<>>
      BY ToldNothing
    <3> QED
      BY <1>8, <2>2, <3>1
  <2> QED
    BY <2>1, <2>2
<1>16. /\ items \in Seq(Printable)
       /\ \A kind : Told(kind, items) = Told(kind, a) \o Told(kind, u) /\ Told(kind, a) \in Seq(Payload)
  <2>1. a \in Seq(Printable) /\ u \in Seq(Printable)
    BY <1>14, <1>15
  <2>2. a \o u \in Seq(Printable) /\ \A kind : Told(kind, a \o u) = Told(kind, a) \o Told(kind, u) /\ Told(kind, a) \in Seq(Payload)
    BY <2>1, ToldJoin
  <2> QED
    BY <1>8, <2>2
<1>17. \A kind \in {"text", "error", "done", "warning"} : Told(kind, items) = Told(kind, a)
  <2>1. \A s \in Seq(Payload) : s \o <<>> = s
    BY ConcatEmptySeq
  <2> QED
    BY <1>14, <1>16, <2>1
<1>18. /\ lines' \in Seq(Printable) /\ Printed("text")' = Told("text", items)
       /\ Printed("error")' = Told("error", items) /\ Printed("done")' = Told("done", items)
  BY <1>4, <1>5, <1>9, <1>16, PrintedNow
<1>19. (Warned => Warned') /\ (Told("warning", items) # <<>> => Warned')
  BY <1>3, <1>4, <1>9, <1>16, WarnedStays
<1>20. stored' \in Seq([text : Text, aborted : BOOLEAN])
  <2>1. stored \in Seq([text : Text, aborted : BOOLEAN]) /\ Answered(buf.text, cancelled) \in [text : Text, aborted : BOOLEAN]
    BY <1>4 DEF DoorTypes, Answered, Text
  <2> QED
    BY <1>2, <2>1, AppendedIn
<1>21. DoorTypes'
  BY <1>3, <1>18, <1>20 DEF DoorTypes
<1>22. PhaseOK'
  BY <1>3, <1>5, <1>6 DEF PhaseOK, InTurn
<1>23. ReadOK'
  <2>1. answer' = "complete" => Printed("text")' = live'.text
    <3>1. CASE adds
      BY <1>4, <1>15, <1>17, <1>18, <3>1
    <3>2. CASE ~adds
      BY <1>4, <1>7, <1>15, <1>17, <1>18, <3>2
    <3> QED
      BY <1>4, <3>1, <3>2
  <2> QED
    BY <1>3, <2>1 DEF ReadOK, InTurn
<1>24. QuietOK'
  BY <1>4, <1>15, <1>17, <1>18 DEF QuietOK
<1>25. ASSUME answer' = "complete", way.save, ~Warned', buf.text # <<>> PROVE Answered(buf.text, FALSE) \in ToSet(stored')
  <2>1. adds /\ store /\ ~cancelled
    BY <1>4, <1>5, <1>6, <1>7, <1>19, <1>25
  <2>2. ~Silent("warning")
    <3> SUFFICES ASSUME Silent("warning") PROVE Warned'
      BY <1>25
    <3>1. way'.door = "text" /\ way'.quiet
      BY <1>3, Audible
    <3> QED
      BY <3>1 DEF Warned
  <2>3. writes
    <3> SUFFICES ASSUME ~writes PROVE FALSE
      OBVIOUS
    <3>1. Told("warning", w) = <<0>> /\ <<0>> # <<>>
      BY <1>13, <2>1, <2>2
    <3>2. Told("warning", items) # <<>>
      BY <1>15, <1>17, <2>1, <3>1
    <3> QED
      BY <1>19, <1>25, <3>2
  <2>4. stored' = Append(stored, Answered(buf.text, FALSE))
    BY <1>2, <1>4, <2>1, <2>3
  <2>5. stored \in Seq([text : Text, aborted : BOOLEAN]) /\ Answered(buf.text, FALSE) \in [text : Text, aborted : BOOLEAN]
    BY <1>4 DEF DoorTypes, Answered, Text
  <2>6. Answered(buf.text, FALSE) \in ToSet(stored')
    BY <2>4, <2>5, AppendedIn
  <2> QED
    BY <2>6
<1>26. StoredOK'
  <2>1. answer' = "complete" /\ way.save /\ ~Warned' /\ live'.text # <<>> => Saved(live.text)'
    BY <1>4, <1>25 DEF Saved, Answered
  <2>2. way.save /\ ~store => Warned'
    BY <1>5, <1>19
  <2> QED
    BY <1>3, <2>1, <2>2 DEF StoredOK
<1>27. ExitTells'
  BY <1>3 DEF ExitTells
<1> QED
  BY <1>21, <1>22, <1>23, <1>24, <1>26, <1>27 DEF DoorOK

LEMMA LastOfJoin == ASSUME NEW T, NEW s \in Seq(T), NEW e \in T PROVE Last(s \o <<e>>) = e
<1>1. PICK t, n : t = Append(s, e) /\ n = Len(s)
  OBVIOUS
<1>2. n \in Nat /\ t \in Seq(T) /\ Len(t) = n + 1 /\ t[n + 1] = e
  BY <1>1, LenProperties, AppendProperties
<1>3. s \o <<e>> = t
  BY <1>1, AppendIsConcat
<1> QED
  BY <1>2, <1>3 DEF Last

\* The end of the program says what became of the answer.
LEMMA CloseDoor ==
    ASSUME SInv, DoorTypes, DoorOK, Close
    PROVE  DoorTypes' /\ DoorOK'
<1>1. PICK saves : saves = (store /\ ~way.tools /\ (live.text \o live.thoughts \o got # <<>> \/ cancelled))
  OBVIOUS
<1>2. PICK writes \in BOOLEAN :
        /\ stored' = IF saves /\ writes THEN Append(stored, Answered(live.text, cancelled)) ELSE stored
        /\ Emits((Warning(saves => writes)
                 \o (IF answer \in {"complete", "cancelled"} THEN <<>> ELSE One("error", 0))) \o One("done", 0))
  BY <1>1 DEF Close
<1>3. /\ phase = "closing" /\ phase' = "exited" /\ UNCHANGED <<way, tries, store>> /\ UNCHANGED streamVars
      /\ code' = IF cancelled THEN 130 ELSE IF answer = "complete" THEN 0 ELSE 1
  BY DEF Close
<1>4. UNCHANGED <<sent, live, answer, buf, cancelled>>
  BY <1>3 DEF streamVars, wire, screen, reading
<1>5. /\ WireTypes /\ ReaderTypes /\ EndOK /\ WholeAnswer
      /\ cancelled \in BOOLEAN /\ store \in BOOLEAN /\ saves \in BOOLEAN /\ lines \in Seq(Printable)
      /\ stored \in Seq([text : Text, aborted : BOOLEAN])
  <2>1. WireTypes /\ ReaderTypes /\ EndOK
    BY InvNow
  <2>2. WholeAnswer
    BY FaithfulFollows DEF AnswerFaithful
  <2> QED
    BY <1>1, <2>1, <2>2 DEF WireTypes, DoorTypes
<1>6. live.text \in Seq(Payload) /\ live.thoughts \in Seq(Payload) /\ got \in Seq(Payload) /\ live.text \in Text
  BY <1>5 DEF ReaderTypes, Text
<1>7. /\ way.door # "screen" /\ answer # "none" /\ Printed("error") = <<>> /\ Printed("done") = <<>>
      /\ (~way.tools => stored = <<>>) /\ (way.save /\ ~store => Warned)
  BY <1>3 DEF DoorOK, PhaseOK, QuietOK, StoredOK
<1>8. /\ buf = EmptyBuf /\ (~way.tools \/ answer = "complete" => Printed("text") = live.text)
      /\ way.tools /\ answer = "complete" /\ way.save /\ ~Warned /\ live.text # <<>> => Answered(live.text, FALSE) \in ToSet(stored)
  BY <1>3, <1>7 DEF DoorOK, ReadOK, StoredOK, Saved
<1>9. PICK w, x, d, wx, items :
        /\ w = Warning(saves => writes) /\ x = IF answer \in {"complete", "cancelled"} THEN <<>> ELSE One("error", 0)
        /\ d = One("done", 0) /\ wx = w \o x /\ items = wx \o d
  OBVIOUS
<1>10. "done" \in AllKinds /\ "error" \in AllKinds /\ 0 \in Payload /\ (saves => writes) \in BOOLEAN
  BY <1>2, <1>5 DEF AllKinds, Payload
<1>11. w \in Seq(Printable) /\ \A kind : Told(kind, w) = IF ~(saves => writes) /\ kind = "warning" /\ ~Silent(kind) THEN <<0>> ELSE <<>>
  BY <1>9, <1>10, ToldWarning
<1>12. /\ x \in Seq(Printable) /\ (\A kind : kind # "error" => Told(kind, x) = <<>>)
       /\ Told("error", x) = IF answer \in {"complete", "cancelled"} THEN <<>> ELSE <<0>>
  <2>1. /\ One("error", 0) \in Seq(Printable) /\ \A kind : kind # "error" => Told(kind, One("error", 0)) = <<>>
        /\ Told("error", One("error", 0)) = <<0>>
    BY <1>10, ToldOne, Audible
  <2>2. CASE answer \in {"complete", "cancelled"}
    <3>1. x = <<>>
      BY <1>9, <2>2
    <3> QED
      BY <2>2, <3>1, ToldNothing
  <2>3. CASE answer \notin {"complete", "cancelled"}
    <3>1. x = One("error", 0)
      BY <1>9, <2>3
    <3> QED
      BY <2>1, <2>3, <3>1
  <2> QED
    BY <2>2, <2>3
<1>13. d \in Seq(Printable) /\ \A kind : Told(kind, d) = IF "done" = kind /\ ~Silent(kind) THEN <<0>> ELSE <<>>
  BY <1>9, <1>10, ToldOne
<1>14. w \in Seq(Printable) /\ x \in Seq(Printable) /\ d \in Seq(Printable) /\ wx \in Seq(Printable)
  BY <1>9, <1>11, <1>12, <1>13, ConcatProperties
<1>15. /\ items \in Seq(Printable)
       /\ \A kind : /\ Told(kind, w) = <<>> /\ Told(kind, x) = <<>> => Told(kind, items) = Told(kind, d)
                    /\ Told(kind, w) = <<>> /\ Told(kind, d) = <<>> => Told(kind, items) = Told(kind, x)
                    /\ Told(kind, items) = <<>> => Told(kind, w) = <<>>
  <2>1. /\ (w \o x) \o d \in Seq(Printable)
        /\ \A kind : /\ Told(kind, w) = <<>> /\ Told(kind, x) = <<>> => Told(kind, (w \o x) \o d) = Told(kind, d)
                     /\ Told(kind, w) = <<>> /\ Told(kind, d) = <<>> => Told(kind, (w \o x) \o d) = Told(kind, x)
                     /\ Told(kind, (w \o x) \o d) = <<>> => Told(kind, w) = <<>>
    BY <1>14, ToldThree
  <2> QED
    BY <1>9, <2>1
<1>16. Emits(items)
  BY <1>2, <1>9
<1>17. Told("text", items) = <<>> /\ Told("error", items) = Told("error", x) /\ Told("done", items) = Told("done", d)
  <2>1. \A kind \in {"text", "error", "done"} : Told(kind, w) = <<>>
    BY <1>11
  <2>2. Told("text", x) = <<>> /\ Told("done", x) = <<>>
    BY <1>12
  <2>3. Told("text", d) = <<>> /\ Told("error", d) = <<>>
    BY <1>13
  <2> QED
    BY <1>15, <2>1, <2>2, <2>3
<1>18. /\ lines' \in Seq(Printable) /\ Printed("text")' = Printed("text") /\ lines' = lines \o Loud(items)
       /\ Printed("error")' = Told("error", x) /\ Printed("done")' = Told("done", d)
  BY <1>5, <1>7, <1>15, <1>16, <1>17, PrintedNow
<1>19. (Warned => Warned') /\ (Told("warning", items) # <<>> => Warned')
  BY <1>3, <1>5, <1>15, <1>16, WarnedStays
<1>20. DoorTypes'
  <2>1. Answered(live.text, cancelled) \in [text : Text, aborted : BOOLEAN]
    BY <1>5, <1>6 DEF Answered
  <2>2. stored' \in Seq([text : Text, aborted : BOOLEAN])
    BY <1>2, <1>5, <2>1, AppendedIn
  <2> QED
    BY <1>3, <1>18, <2>2 DEF DoorTypes
<1>21. PhaseOK' /\ QuietOK' /\ StoredOK'
  BY <1>3, <1>7 DEF PhaseOK, QuietOK, StoredOK, InTurn
<1>22. ReadOK'
  BY <1>3, <1>4, <1>8, <1>18 DEF ReadOK, InTurn
<1>23. ASSUME answer = "complete", way.save, ~Warned', live.text # <<>>, ~cancelled
       PROVE  Answered(live.text, FALSE) \in ToSet(stored')
  <2>1. ~Warned /\ store
    BY <1>7, <1>19, <1>23
  <2>2. CASE way.tools
    <3>1. stored' = stored
      BY <1>1, <1>2, <2>2
    <3> QED
      BY <1>8, <1>23, <2>1, <2>2, <3>1
  <2>3. CASE ~way.tools
    <3>1. saves
      <4>1. PICK lt : lt = live.text \o live.thoughts
        OBVIOUS
      <4>2. lt \in Seq(Payload) /\ lt # <<>>
        <5>1. live.text \o live.thoughts = <<>> => live.text = <<>>
          BY <1>6, EmptyBoth
        <5>2. live.text \o live.thoughts \in Seq(Payload)
          BY <1>6, ConcatProperties
        <5> QED
          BY <1>23, <4>1, <5>1, <5>2
      <4>3. lt \o got # <<>>
        BY <1>6, <4>2, EmptyBoth
      <4> QED
        BY <1>1, <2>1, <2>3, <4>1, <4>3
    <3>2. ~Silent("warning")
      <4> SUFFICES ASSUME Silent("warning") PROVE Warned'
        BY <1>23
      <4>1. way'.door = "text" /\ way'.quiet
        BY <1>3, Audible
      <4> QED
        BY <4>1 DEF Warned
    <3>3. writes
      <4> SUFFICES ASSUME ~writes PROVE FALSE
        OBVIOUS
      <4>1. Told("warning", w) = <<0>> /\ <<0>> # <<>>
        BY <1>11, <3>1, <3>2
      <4>2. Told("warning", items) # <<>>
        BY <1>15, <4>1
      <4> QED
        BY <1>19, <1>23, <4>2
    <3>4. stored' = Append(stored, Answered(live.text, FALSE))
      BY <1>2, <1>5, <1>23, <3>1, <3>3
    <3>5. Answered(live.text, FALSE) \in [text : Text, aborted : BOOLEAN]
      BY <1>6 DEF Answered
    <3> QED
      BY <1>5, <3>4, <3>5, AppendedIn
  <2> QED
    BY <2>2, <2>3
<1>24. SentOf("text")' = SentOf("text")
  BY <1>4 DEF SentOf, Places
<1>25. code' = 0 =>
              /\ answer' = "complete" /\ Printed("text")' = SentOf("text")' /\ Printed("error")' = <<>>
              /\ way'.save /\ ~Warned' /\ SentOf("text")' # <<>> => (Answered(SentOf("text"), FALSE) \in ToSet(stored))'
  <2> SUFFICES ASSUME code' = 0
               PROVE  /\ answer' = "complete" /\ Printed("text")' = SentOf("text")' /\ Printed("error")' = <<>>
                      /\ way'.save /\ ~Warned' /\ SentOf("text")' # <<>> => (Answered(SentOf("text"), FALSE) \in ToSet(stored))'
    OBVIOUS
  <2>1. ~cancelled /\ answer = "complete"
    BY <1>3
  <2>2. live.text = SentOf("text")
    BY <1>5, <2>1 DEF WholeAnswer
  <2>3. Printed("text")' = SentOf("text") /\ Printed("error")' = <<>>
    BY <1>8, <1>12, <1>18, <2>1, <2>2
  <2>4. way.save /\ ~Warned' /\ SentOf("text") # <<>> => Answered(SentOf("text"), FALSE) \in ToSet(stored')
    BY <1>23, <2>1, <2>2
  <2>5. (Answered(SentOf("text"), FALSE) \in ToSet(stored))' <=> Answered(SentOf("text"), FALSE) \in ToSet(stored')
    BY <1>24 DEF Answered
  <2> QED
    BY <1>3, <1>4, <1>24, <2>1, <2>3, <2>4, <2>5
<1>26. code' \in {1, 2} => Len(Printed("error")') = 1 /\ answer' # "complete"
  <2> SUFFICES ASSUME code' \in {1, 2} PROVE Len(Printed("error")') = 1 /\ answer' # "complete"
    OBVIOUS
  <2>1. ~cancelled /\ answer # "complete"
    BY <1>3
  <2>2. answer # "cancelled"
    BY <1>5, <2>1 DEF EndOK
  <2>3. Printed("error")' = <<0>>
    BY <1>12, <1>18, <2>1, <2>2
  <2> QED
    BY <1>4, <2>1, <2>3
<1>27. code' = 130 => cancelled' /\ (~way'.tools => \A m \in ToSet(stored') : m.aborted)
  <2> SUFFICES ASSUME code' = 130 PROVE cancelled' /\ (~way'.tools => \A m \in ToSet(stored') : m.aborted)
    OBVIOUS
  <2>1. cancelled = TRUE
    BY <1>3, <1>5
  <2>2. ASSUME ~way.tools, NEW m \in ToSet(stored') PROVE m.aborted
    <3>1. PICK a : a = Answered(live.text, TRUE)
      OBVIOUS
    <3>2. stored' = <<>> \/ stored' = Append(<<>>, a)
      BY <1>2, <1>7, <2>1, <2>2, <3>1
    <3>3. Append(<<>>, a) = <<a>>
      OBVIOUS
    <3>4. ToSet(<<>>) = {} /\ ToSet(<<a>>) = {a}
      BY DEF ToSet
    <3>5. m = a
      BY <2>2, <3>2, <3>3, <3>4
    <3> QED
      BY <3>1, <3>5 DEF Answered
  <2> QED
    BY <1>3, <1>4, <2>1, <2>2
<1>28. ~way'.tools /\ answer' # "none" => Printed("text")' = live'.text
  BY <1>3, <1>4, <1>8, <1>18
<1>29. way'.door = "json" => Last(lines)'.kind = "done" /\ Len(Printed("done")') = 1
  <2> SUFFICES ASSUME way.door = "json" PROVE Last(lines)'.kind = "done" /\ Len(Printed("done")') = 1
    BY <1>3
  <2>1. \A kind : ~Silent(kind)
    BY Audible
  <2>2. Printed("done")' = <<0>>
    BY <1>13, <1>18, <2>1
  <2>3. PICK e, q : e = [kind |-> "done", n |-> 0] /\ q = Loud(wx)
    OBVIOUS
  <2>4. d = <<e>> /\ e \in Printable /\ e.kind = "done"
    BY <1>9, <1>10, <2>3 DEF One, Printable
  <2>5. Loud(d) = <<e>>
    BY <2>1, <2>4, LoudOne
  <2>6. q \in Seq(Printable) /\ Loud(items) = q \o <<e>>
    <3>1. Loud(wx) \in Seq(Printable) /\ Loud(wx \o d) = Loud(wx) \o Loud(d)
      BY <1>14, LoudJoin
    <3> QED
      BY <1>9, <2>3, <2>5, <3>1
  <2>7. lines \o (q \o <<e>>) = (lines \o q) \o <<e>>
    <3>1. <<e>> \in Seq(Printable)
      BY <2>4
    <3> QED
      BY <1>5, <2>6, <3>1, JoinThree
  <2>8. PICK r : r = lines \o q
    OBVIOUS
  <2>9. r \in Seq(Printable)
    BY <1>5, <2>6, <2>8, ConcatProperties
  <2>10. Last(r \o <<e>>) = e
    BY <2>4, <2>9, LastOfJoin
  <2>11. Last(lines') = e
    BY <1>18, <2>6, <2>7, <2>8, <2>10
  <2> QED
    BY <2>2, <2>4, <2>11
<1>30. ExitTells'
  BY <1>25, <1>26, <1>27, <1>28, <1>29 DEF ExitTells
<1> QED
  BY <1>20, <1>21, <1>22, <1>30 DEF DoorOK

LEMMA DoorStarts == ASSUME HInit PROVE DoorTypes /\ DoorOK
<1>1. /\ way \in Ways /\ phase = (IF way.door = "screen" THEN "screen" ELSE "starting")
      /\ tries = 0 /\ store = FALSE /\ lines = <<>> /\ stored = <<>> /\ code = -1
      /\ chan = <<>> /\ buf = EmptyBuf /\ NothingRead /\ At("reading") /\ answer = "none"
  BY ReadingFacts DEF HInit, StreamInit, NothingRead, At
<1>2. way \in Openings
  BY <1>1, HeadlessAssumption DEF Openings
<1>3. \A kind : Printed(kind) = <<>>
  BY <1>1, NumEmpty DEF Printed
<1>4. DoorTypes
  <2>1. lines \in Seq(Printable) /\ stored \in Seq([text : Text, aborted : BOOLEAN])
    BY <1>1
  <2>2. tries \in 0..MaxRetries
    BY <1>1, HeadlessAssumption
  <2> QED
    BY <1>1, <1>2, <2>1, <2>2 DEF DoorTypes
<1>5. PhaseOK
  BY <1>1 DEF PhaseOK, Untouched, InTurn
<1>6. ReadOK
  BY <1>1, <1>3 DEF ReadOK, InTurn, NothingRead, EmptyBuf
<1>7. QuietOK /\ StoredOK /\ ExitTells
  BY <1>1, <1>3 DEF QuietOK, StoredOK, ExitTells
<1> QED
  BY <1>4, <1>5, <1>6, <1>7 DEF DoorOK

(* The inductive invariant of the program: the stream, and the door.         *)
HInv == SInv /\ DoorTypes /\ DoorOK

LEMMA HInvStarts == ASSUME HInit PROVE HInv
BY StreamStarts, DoorStarts DEF HInv, HInit

LEMMA HInvHolds == ASSUME HInv, [HNext]_hvars PROVE HInv'
<1>1. SInv /\ DoorTypes /\ DoorOK
  BY DEF HInv
<1>2. WireTypes /\ DecoderTypes /\ ReaderTypes /\ OutOK /\ ErrorTold /\ EndOK
  BY <1>1, InvNow
<1>3. CASE Screen(StreamNext)
  <2>1. phase = "screen" /\ StreamNext /\ UNCHANGED headless
    BY <1>3 DEF Screen
  <2> QED
    BY <1>1, <2>1, StepKeepsStream, ScreenDoor DEF HInv
<1>4. CASE Start
  <2>1. UNCHANGED streamVars
    BY <1>4 DEF Start
  <2> QED
    BY <1>1, <1>4, <2>1, StreamIdle, StartDoor DEF HInv
<1>5. CASE Connect \/ Wait
  <2>1. buf = EmptyBuf /\ answer = "none"
    BY <1>1, <1>5 DEF Connect, Wait, DoorOK, PhaseOK, Untouched, InTurn
  <2>2. Settled /\ EndOK'
    BY <1>2, <1>5, <2>1, RequestSettles
  <2> QED
    BY <1>1, <1>5, <2>2, StreamSettled, ConnectDoor, WaitDoor DEF HInv
<1>6. CASE SayLine \/ DispatchLine \/ BodyEndsLine \/ EmitLine
  <2>1. StreamNext
    BY <1>6 DEF SayLine, DispatchLine, BodyEndsLine, EmitLine, StreamNext
  <2> QED
    BY <1>1, <1>6, <2>1, StepKeepsStream, LinesDoor DEF HInv
<1>7. CASE ReceiveLine
  <2>1. buf = EmptyBuf
    BY <1>1, <1>7 DEF ReceiveLine, DoorOK, PhaseOK, ReadOK
  <2>2. Took
    BY <1>2, <1>7, <2>1, LineTakes
  <2> QED
    BY <1>1, <1>2, <1>7, <2>2, StreamTook, LineDoor DEF HInv
<1>8. CASE EndLine
  <2>1. buf = EmptyBuf
    BY <1>1, <1>8 DEF EndLine, DoorOK, PhaseOK, ReadOK
  <2>2. Settled /\ EndOK'
    BY <1>2, <1>8, <2>1, EndLineSettles
  <2> QED
    BY <1>1, <1>2, <1>8, <2>2, StreamSettled, EndLineDoor DEF HInv
<1>9. CASE AgentReceive
  <2>1. Receive
    BY <1>9 DEF AgentReceive
  <2>2. Took
    BY <1>2, <2>1, ReceiveTakes
  <2> QED
    BY <1>1, <1>9, <2>2, StreamTook, AgentReceiveDoor DEF HInv
<1>10. CASE AgentTurn
  <2>1. NothingRead
    BY <1>1, <1>10 DEF AgentTurn, DoorOK, ReadOK
  <2>2. Settled /\ EndOK'
    BY <1>2, <1>10, <2>1, TurnSettles
  <2> QED
    BY <1>1, <1>2, <1>10, <2>2, StreamSettled, TurnDoor DEF HInv
<1>11. CASE Close
  <2>1. UNCHANGED streamVars
    BY <1>11 DEF Close
  <2> QED
    BY <1>1, <1>11, <2>1, StreamIdle, CloseDoor DEF HInv
<1>12. CASE Signal
  <2>1. UNCHANGED <<protocol, wire, decoding, reading, screen>> /\ cancelled' = TRUE
    BY <1>12 DEF Signal
  <2> QED
    BY <1>1, <1>12, <2>1, StreamCancelled, SignalDoor DEF HInv
<1>13. CASE UNCHANGED hvars
  <2>1. UNCHANGED streamVars
    BY <1>13 DEF hvars
  <2> QED
    BY <1>1, <1>13, <2>1, StreamIdle, StillDoor DEF HInv
<1> QED
  BY <1>3, <1>4, <1>5, <1>6, <1>7, <1>8, <1>9, <1>10, <1>11, <1>12, <1>13 DEF HNext

THEOREM ProgramInvariant == HFairSpec => []HInv
<1>1. HInit => HInv
  BY HInvStarts
<1>2. HInv /\ [HNext]_hvars => HInv'
  BY HInvHolds
<1> QED
  BY <1>1, <1>2, PTL DEF HFairSpec

(* The types of the two modules: the channel of an answer is bounded, and    *)
(* there is an exit code exactly when the program is over.                   *)
THEOREM ProgramTypes == HFairSpec => []HTypeOK
<1>1. ASSUME HInv PROVE HTypeOK
  <2>1. StreamTypeOK /\ DoorTypes
    BY <1>1, TypesFollow DEF HInv
  <2>2. \A m \in ToSet(stored) : m.aborted \in BOOLEAN
    <3>1. \A k \in DOMAIN stored : stored[k] \in [text : Text, aborted : BOOLEAN]
      <4>1. PICK M : M = [text : Text, aborted : BOOLEAN]
        OBVIOUS
      <4>2. stored \in Seq(M)
        BY <2>1, <4>1 DEF DoorTypes
      <4>3. \A k \in DOMAIN stored : stored[k] \in M
        BY <4>2, ElementOfSeq, LenProperties
      <4> QED
        BY <4>1, <4>3
    <3> QED
      BY <3>1 DEF ToSet
  <2> QED
    BY <2>1, <2>2 DEF HTypeOK, DoorTypes
<1>2. HInv => HTypeOK
  BY <1>1
<1> QED
  BY <1>2, ProgramInvariant, PTL

(* engine/engine.go, the streams of the four providers: what is read is what *)
(* the provider sent, in its order and without a gap, and an answer that is  *)
(* called complete has all its text, its calls and its last usage.           *)
THEOREM FaithfulAnswers == HFairSpec => []AnswerFaithful
<1>1. HInv => AnswerFaithful
  BY FaithfulFollows DEF HInv
<1> QED
  BY <1>1, ProgramInvariant, PTL

(* app/headless.go, app/sink.go: a script may believe the exit code, however *)
(* long the answer and whatever the provider, the store and the signals did. *)
THEOREM ExitCodesTell == HFairSpec => []ExitTells
<1>1. HInv => ExitTells
  BY DEF HInv, DoorOK
<1> QED
  BY <1>1, ProgramInvariant, PTL
=============================================================================
