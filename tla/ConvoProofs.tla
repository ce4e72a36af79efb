----------------------------- MODULE ConvoProofs -----------------------------
(***************************************************************************)
(* Theorems about package convo.  Conversation: what a history and what is *)
(* recorded of it keep, for any number of turns, compactions, commands and *)
(* restarts, and any compact.keep_last_turns.  SessionStore: what the      *)
(* session files keep, for any number of programs that write beside one    *)
(* another, fail and die, and any session.keep_last.                       *)
(***************************************************************************)
EXTENDS Conversation, SessionStore, FiniteSetTheorems, FunctionTheorems, WellFoundedInduction, TLAPS

-----------------------------------------------------------------------------
(* Sequences.                                                              *)

LEMMA JoinedFacts ==
    ASSUME NEW S, NEW a \in Seq(S), NEW b \in Seq(S)
    PROVE  /\ a \o b \in Seq(S) /\ Len(a \o b) = Len(a) + Len(b)
           /\ Len(a) \in Nat /\ Len(b) \in Nat
           /\ DOMAIN a = 1..Len(a) /\ DOMAIN b = 1..Len(b)
           /\ DOMAIN (a \o b) = 1..(Len(a) + Len(b))
           /\ \A k \in 1..Len(a) : (a \o b)[k] = a[k]
           /\ \A k \in 1..Len(b) : (a \o b)[Len(a) + k] = b[k]
  BY SMTT(30)

LEMMA AppendIsJoin ==
    ASSUME NEW S, NEW a \in Seq(S), NEW x \in S
    PROVE  Append(a, x) = a \o <<x>> /\ <<x>> \in Seq(S) /\ Len(<<x>>) = 1 /\ <<x>>[1] = x
  BY SMTT(30)

LEMMA ShorterFacts ==
    ASSUME NEW S, NEW a \in Seq(S), a # <<>>
    PROVE  /\ SubSeq(a, 1, Len(a) - 1) \in Seq(S) /\ Len(a) \in Nat /\ Len(a) > 0
           /\ DOMAIN SubSeq(a, 1, Len(a) - 1) = 1..(Len(a) - 1)
           /\ \A k \in 1..(Len(a) - 1) : SubSeq(a, 1, Len(a) - 1)[k] = a[k]
  BY SMTT(30)

-----------------------------------------------------------------------------
(* Messages.                                                               *)

LEMMA MessageFacts ==
    ASSUME NEW n \in Nat, NEW role \in {"user", "assistant", "tool"}
    PROVE  /\ Message(n, role) \in Messages
           /\ Message(n, role).n = n /\ Message(n, role).role = role
           /\ ~Message(n, role).calls /\ ~Message(n, role).cut /\ Message(n, role).replaces = {}
  BY DEF Message, Messages

Summary(n, p) == [Message(n, "assistant") EXCEPT !.replaces = p]

LEMMA SummaryFacts ==
    ASSUME NEW n \in Nat, NEW p \in SUBSET Nat
    PROVE  /\ Summary(n, p) \in Messages
           /\ Summary(n, p).n = n /\ Summary(n, p).role = "assistant"
           /\ ~Summary(n, p).calls /\ Summary(n, p).replaces = p
  BY DEF Summary, Message, Messages

(* A call that was not cut stands right before its reply, and a reply right   *)
(* after its call.                                                         *)
Open(m, k) == m[k].calls /\ ~m[k].cut
Paired(m) ==
    /\ \A k \in DOMAIN m : Open(m, k) =>
          k + 1 \in DOMAIN m /\ m[k + 1].role = "tool" /\ m[k + 1].to = m[k].n
    /\ \A k \in DOMAIN m : m[k].role = "tool" =>
          k - 1 \in DOMAIN m /\ Open(m, k - 1) /\ m[k].to = m[k - 1].n
    /\ \A k \in DOMAIN m : m[k].calls => m[k].role = "assistant"

NoSummary(m) == \A k \in DOMAIN m : m[k].replaces = {}

Kinds == {"user", "answer", "call", "cut", "reply"}

LEMMA SaidFacts ==
    ASSUME NEW n \in Nat \ {0}, NEW kind \in Kinds
    PROVE  /\ Said(n, kind) \in Messages /\ Said(n, kind).n = n /\ Said(n, kind).replaces = {}
           /\ (Said(n, kind).calls /\ ~Said(n, kind).cut) <=> kind = "call"
           /\ Said(n, kind).role = "tool" <=> kind = "reply"
           /\ Said(n, kind).calls => Said(n, kind).role = "assistant"
           /\ kind = "reply" => Said(n, kind).to = n - 1
<1>1. CASE kind = "user"
  BY <1>1 DEF Said, Message, Messages
<1>2. CASE kind = "answer"
  BY <1>2 DEF Said, Message, Messages
<1>3. CASE kind = "call"
  <2>1. Said(n, kind) = [n |-> n, role |-> "assistant", calls |-> TRUE, cut |-> FALSE,
                         to |-> 0, replaces |-> {}]
    BY <1>3 DEF Said, Message
  <2> DEFINE s == Said(n, kind)
  <2>2. s \in Messages
    BY <2>1 DEF Messages
  <2>3. s.n = n /\ s.role = "assistant" /\ s.replaces = {} /\ s.to = 0
    BY <2>1
  <2>4. s.calls = TRUE /\ s.cut = FALSE
    BY <2>1
  <2> HIDE DEF s
  <2>5. (s.calls /\ ~s.cut) <=> kind = "call"
    BY <1>3, <2>4
  <2> QED
    BY <1>3, <2>2, <2>3, <2>4, <2>5 DEF s
<1>4. CASE kind = "cut"
  <2>1. Said(n, kind) = [n |-> n, role |-> "assistant", calls |-> TRUE, cut |-> TRUE,
                         to |-> 0, replaces |-> {}]
    BY <1>4 DEF Said, Message
  <2> DEFINE s == Said(n, kind)
  <2>2. s \in Messages
    BY <2>1 DEF Messages
  <2>3. s.n = n /\ s.role = "assistant" /\ s.replaces = {} /\ s.to = 0
    BY <2>1
  <2>4. s.calls = TRUE /\ s.cut = TRUE
    BY <2>1
  <2> HIDE DEF s
  <2>5. (s.calls /\ ~s.cut) <=> kind = "call"
    BY <1>4, <2>4
  <2> QED
    BY <1>4, <2>2, <2>3, <2>4, <2>5 DEF s
<1>5. CASE kind = "reply"
  <2>1. Said(n, kind) = [n |-> n, role |-> "tool", calls |-> FALSE, cut |-> FALSE,
                         to |-> n - 1, replaces |-> {}]
    BY <1>5 DEF Said, Message
  <2> DEFINE s == Said(n, kind)
  <2>2. s \in Messages
    BY <2>1 DEF Messages
  <2>3. s.n = n /\ s.role = "tool" /\ s.replaces = {} /\ s.to = n - 1
    BY <2>1
  <2>4. s.calls = FALSE /\ s.cut = FALSE
    BY <2>1
  <2> HIDE DEF s
  <2>5. (s.calls /\ ~s.cut) <=> kind = "call"
    BY <1>5, <2>4
  <2> QED
    BY <1>5, <2>2, <2>3, <2>4, <2>5 DEF s
<1> QED
  BY <1>1, <1>2, <1>3, <1>4, <1>5 DEF Kinds

(* What a turn leaves: numbered on from the messages produced, paired, and    *)
(* no summary.                                                             *)
LEMMA TurnFacts ==
    ASSUME NEW turn \in Turns, produced \in Nat
    PROVE  /\ FromTurn(turn) \in Seq(Messages) /\ Len(FromTurn(turn)) = Len(turn)
           /\ Len(turn) \in Nat
           /\ \A k \in 1..Len(turn) : FromTurn(turn)[k].n = produced + k
           /\ NoSummary(FromTurn(turn)) /\ Paired(FromTurn(turn))
<1> DEFINE ft == FromTurn(turn)
<1>1. /\ turn \in Seq(Kinds) /\ Len(turn) \in Nat /\ DOMAIN turn = 1..Len(turn)
      /\ \A k \in 1..Len(turn) : turn[k] = "call" => k + 1 \in 1..Len(turn) /\ turn[k + 1] = "reply"
      /\ \A k \in 1..Len(turn) : turn[k] = "reply" => k - 1 \in 1..Len(turn) /\ turn[k - 1] = "call"
  <2> USE DEF Kinds
  <2>1. CASE turn = <<>>
    BY <2>1
  <2>2. CASE turn = <<"answer">>
    BY <2>2
  <2>3. CASE turn = <<"cut">>
    BY <2>3
  <2>4. CASE turn = <<"call", "reply">>
    BY <2>4
  <2>5. CASE turn = <<"call", "reply", "answer">>
    BY <2>5
  <2>6. CASE turn = <<"call", "reply", "user", "answer">>
    BY <2>6
  <2> QED
    BY <2>1, <2>2, <2>3, <2>4, <2>5, <2>6 DEF Turns
<1>2. ASSUME NEW k \in 1..Len(turn)
      PROVE  /\ ft[k] \in Messages /\ ft[k].n = produced + k /\ ft[k].replaces = {}
             /\ (ft[k].calls /\ ~ft[k].cut) <=> turn[k] = "call"
             /\ ft[k].role = "tool" <=> turn[k] = "reply"
             /\ ft[k].calls => ft[k].role = "assistant"
             /\ turn[k] = "reply" => ft[k].to = produced + k - 1
  <2>1. produced + k \in Nat \ {0} /\ turn[k] \in Kinds
    BY <1>1
  <2>2. ft[k] = Said(produced + k, turn[k])
    BY <1>1 DEF FromTurn
  <2> QED
    BY <2>1, <2>2, SaidFacts
<1>3. ft \in Seq(Messages) /\ Len(ft) = Len(turn) /\ DOMAIN ft = 1..Len(turn)
  <2>1. DOMAIN ft = 1..Len(turn)
    BY <1>1 DEF FromTurn
  <2>2. ft \in [1..Len(turn) -> Messages]
    <3>1. ft = [k \in 1..Len(turn) |-> Said(produced + k, turn[k])]
      BY <1>1 DEF FromTurn
    <3>2. \A k \in 1..Len(turn) : Said(produced + k, turn[k]) \in Messages
      <4> SUFFICES ASSUME NEW k \in 1..Len(turn) PROVE Said(produced + k, turn[k]) \in Messages
        OBVIOUS
      <4>1. produced + k \in Nat \ {0} /\ turn[k] \in Kinds
        BY <1>1
      <4> QED
        BY <4>1, SaidFacts
    <3> HIDE DEF ft
    <3> QED
      BY <3>1, <3>2
  <2> HIDE DEF ft
  <2> QED
    BY <1>1, <2>1, <2>2
<1> HIDE DEF ft
<1>4. NoSummary(ft)
  BY <1>2, <1>3 DEF NoSummary
<1>5. Paired(ft)
  <2>1. ASSUME NEW k \in DOMAIN ft, Open(ft, k)
        PROVE  k + 1 \in DOMAIN ft /\ ft[k + 1].role = "tool" /\ ft[k + 1].to = ft[k].n
    <3>1. k \in 1..Len(turn) /\ turn[k] = "call"
      BY <1>2, <1>3, <2>1 DEF Open
    <3>2. k + 1 \in 1..Len(turn) /\ turn[k + 1] = "reply"
      BY <1>1, <3>1
    <3>3. ft[k + 1].to = produced + (k + 1) - 1 /\ ft[k + 1].role = "tool" /\ ft[k].n = produced + k
      BY <1>2, <3>1, <3>2
    <3>4. produced + (k + 1) - 1 = produced + k
      BY <3>1
    <3> QED
      BY <1>3, <3>2, <3>3, <3>4
  <2>2. ASSUME NEW k \in DOMAIN ft, ft[k].role = "tool"
        PROVE  k - 1 \in DOMAIN ft /\ Open(ft, k - 1) /\ ft[k].to = ft[k - 1].n
    <3>1. k \in 1..Len(turn) /\ turn[k] = "reply"
      BY <1>2, <1>3, <2>2
    <3>2. k - 1 \in 1..Len(turn) /\ turn[k - 1] = "call"
      BY <1>1, <3>1
    <3>3. ft[k].to = produced + k - 1 /\ ft[k - 1].n = produced + (k - 1)
          /\ ft[k - 1].calls /\ ~ft[k - 1].cut
      BY <1>2, <3>1, <3>2
    <3>4. produced + k - 1 = produced + (k - 1)
      BY <3>1
    <3> QED
      BY <1>3, <3>2, <3>3, <3>4 DEF Open
  <2>3. \A k \in DOMAIN ft : ft[k].calls => ft[k].role = "assistant"
    BY <1>2, <1>3
  <2> QED
    BY <2>1, <2>2, <2>3 DEF Paired
<1> QED
  BY <1>1, <1>2, <1>3, <1>4, <1>5 DEF ft
-----------------------------------------------------------------------------
(* A coherent history: every compaction in it took calls with their replies,  *)
(* nothing from the last turns, and nothing another one took.                *)

Questions(m) == {k \in DOMAIN m : m[k].role = "user"}
Since(m, q) == {p \in Questions(m) : p >= q}

Aligned(m) ==
    \A j \in DOMAIN m :
        /\ m[j].replaces \subseteq 1..(j - 1)
        /\ \A k \in DOMAIN m : Open(m, k) => (k \in m[j].replaces <=> k + 1 \in m[j].replaces)

TurnsKept(m) ==
    \A q \in Questions(m) : Cardinality(Since(m, q)) <= KeepTurns => q \notin Replaced(m)

Once(m) == \A j, k \in DOMAIN m : j # k => m[j].replaces \cap m[k].replaces = {}

Coherent(m) == Paired(m) /\ Aligned(m) /\ TurnsKept(m) /\ Once(m)

LEMMA ReplacedIs ==
    ASSUME NEW m
    PROVE  \A x : x \in Replaced(m) <=> \E j \in DOMAIN m : x \in m[j].replaces
  BY DEF Replaced

LEMMA SinceFinite ==
    ASSUME NEW m \in Seq(Messages), NEW q
    PROVE  IsFiniteSet(Questions(m)) /\ IsFiniteSet(Since(m, q)) /\ Cardinality(Since(m, q)) \in Nat
<1>1. IsFiniteSet(1..Len(m))
  <2>1. Len(m) \in Int
    OBVIOUS
  <2> QED
    BY <2>1, FS_Interval
<1>2. Questions(m) \subseteq 1..Len(m) /\ Since(m, q) \subseteq 1..Len(m)
  BY DEF Questions, Since
<1>3. IsFiniteSet(Questions(m)) /\ IsFiniteSet(Since(m, q))
  BY <1>1, <1>2, FS_Subset
<1> QED
  BY <1>3, FS_CardinalityType

LEMMA PlainCoherent ==
    ASSUME NEW m \in Seq(Messages), NoSummary(m), Paired(m)
    PROVE  Coherent(m)
<1>1. Replaced(m) = {}
  BY ReplacedIs DEF NoSummary
<1>2. Aligned(m) /\ TurnsKept(m) /\ Once(m)
  BY <1>1 DEF NoSummary, Aligned, TurnsKept, Once
<1> QED
  BY <1>2 DEF Coherent

(* What a turn or a question adds.                                         *)
LEMMA JoinedCoherent ==
    ASSUME NEW m \in Seq(Messages), NEW e \in Seq(Messages), Coherent(m), Paired(e), NoSummary(e)
    PROVE  Coherent(m \o e)
<1> DEFINE M == m \o e
           L == Len(m)
           E == Len(e)
<1>0. /\ M \in Seq(Messages) /\ L \in Nat /\ E \in Nat
      /\ DOMAIN m = 1..L /\ DOMAIN e = 1..E /\ DOMAIN M = 1..(L + E)
      /\ \A k \in 1..L : M[k] = m[k]
      /\ \A k \in 1..E : M[L + k] = e[k]
  BY JoinedFacts
<1>1. Paired(m) /\ Aligned(m) /\ TurnsKept(m) /\ Once(m)
  BY DEF Coherent
<1> HIDE DEF M, L, E
<1>2. ASSUME NEW k \in DOMAIN M
      PROVE  \/ k \in 1..L /\ M[k] = m[k]
             \/ \E i \in 1..E : k = L + i /\ M[k] = e[i]
  <2>1. CASE k <= L
    BY <1>0, <2>1
  <2>2. CASE k > L
    <3>1. k - L \in 1..E /\ k = L + (k - L)
      BY <1>0, <2>2
    <3>2. M[k] = e[k - L]
      BY <1>0, <3>1
    <3> QED
      BY <3>1, <3>2
  <2> QED
    BY <1>0, <2>1, <2>2
<1>3. ASSUME NEW k \in DOMAIN M, M[k].replaces # {}
      PROVE  k \in 1..L /\ M[k] = m[k]
  BY <1>0, <1>2, <1>3 DEF NoSummary
<1>4. Paired(M)
  <2>1. ASSUME NEW k \in DOMAIN M, Open(M, k)
        PROVE  k + 1 \in DOMAIN M /\ M[k + 1].role = "tool" /\ M[k + 1].to = M[k].n
    <3>1. CASE k \in 1..L /\ M[k] = m[k]
      <4>1. k + 1 \in 1..L /\ m[k + 1].role = "tool" /\ m[k + 1].to = m[k].n
        BY <1>0, <1>1, <2>1, <3>1 DEF Paired, Open
      <4> QED
        BY <1>0, <3>1, <4>1
    <3>2. CASE \E i \in 1..E : k = L + i /\ M[k] = e[i]
      <4>1. PICK i \in 1..E : k = L + i /\ M[k] = e[i]
        BY <3>2
      <4>2. i + 1 \in 1..E /\ e[i + 1].role = "tool" /\ e[i + 1].to = e[i].n
        BY <1>0, <2>1, <4>1 DEF Paired, Open
      <4>3. k + 1 = L + (i + 1) /\ M[L + (i + 1)] = e[i + 1] /\ k + 1 \in 1..(L + E)
        BY <1>0, <4>1, <4>2
      <4> QED
        BY <1>0, <4>1, <4>2, <4>3
    <3> QED
      BY <1>2, <3>1, <3>2
  <2>2. ASSUME NEW k \in DOMAIN M, M[k].role = "tool"
        PROVE  k - 1 \in DOMAIN M /\ Open(M, k - 1) /\ M[k].to = M[k - 1].n
    <3>1. CASE k \in 1..L /\ M[k] = m[k]
      <4>1. k - 1 \in 1..L /\ Open(m, k - 1) /\ m[k].to = m[k - 1].n
        BY <1>0, <1>1, <2>2, <3>1 DEF Paired
      <4> QED
        BY <1>0, <3>1, <4>1 DEF Open
    <3>2. CASE \E i \in 1..E : k = L + i /\ M[k] = e[i]
      <4>1. PICK i \in 1..E : k = L + i /\ M[k] = e[i]
        BY <3>2
      <4>2. i - 1 \in 1..E /\ Open(e, i - 1) /\ e[i].to = e[i - 1].n
        BY <1>0, <2>2, <4>1 DEF Paired
      <4>3. k - 1 = L + (i - 1) /\ k - 1 \in 1..(L + E)
        <5>1. L \in Nat /\ E \in Nat
          BY <1>0
        <5>2. k = L + i /\ i \in 1..E /\ i - 1 \in 1..E
          BY <4>1, <4>2
        <5> HIDE DEF L, E, M
        <5> QED
          BY <5>1, <5>2
      <4>4. M[k - 1] = e[i - 1]
        BY <1>0, <4>2, <4>3
      <4>5. k - 1 \in DOMAIN M
        BY <1>0, <4>3
      <4> QED
        BY <4>1, <4>2, <4>4, <4>5 DEF Open
    <3> QED
      BY <1>2, <3>1, <3>2
  <2>3. ASSUME NEW k \in DOMAIN M PROVE M[k].calls => M[k].role = "assistant"
    <3>1. CASE k \in 1..L /\ M[k] = m[k]
      BY <1>0, <1>1, <3>1 DEF Paired
    <3>2. CASE \E i \in 1..E : k = L + i /\ M[k] = e[i]
      BY <1>0, <3>2 DEF Paired
    <3> QED
      BY <1>2, <3>1, <3>2
  <2> QED
    BY <2>1, <2>2, <2>3 DEF Paired
<1>5. Replaced(M) = Replaced(m)
  <2>1. ASSUME NEW x PROVE x \in Replaced(M) <=> x \in Replaced(m)
    <3>1. x \in Replaced(m) => x \in Replaced(M)
      BY <1>0, ReplacedIs
    <3>2. x \in Replaced(M) => x \in Replaced(m)
      BY <1>0, <1>3, ReplacedIs
    <3> QED
      BY <3>1, <3>2
  <2> QED
    BY <2>1
<1>6. Aligned(M)
  <2> SUFFICES ASSUME NEW j \in DOMAIN M, M[j].replaces # {}
               PROVE  /\ M[j].replaces \subseteq 1..(j - 1)
                      /\ \A k \in DOMAIN M : Open(M, k) =>
                            (k \in M[j].replaces <=> k + 1 \in M[j].replaces)
    BY DEF Aligned
  <2>1. j \in 1..L /\ M[j] = m[j] /\ m[j].replaces \subseteq 1..(j - 1)
    BY <1>0, <1>1, <1>3 DEF Aligned
  <2>2. ASSUME NEW k \in DOMAIN M, Open(M, k)
        PROVE  k \in M[j].replaces <=> k + 1 \in M[j].replaces
    <3>1. CASE k \in 1..L /\ M[k] = m[k]
      BY <1>0, <1>1, <2>1, <2>2, <3>1 DEF Aligned, Open
    <3>2. CASE k > L
      <4>1. k \notin 1..(j - 1) /\ k + 1 \notin 1..(j - 1)
        BY <1>0, <2>1, <3>2
      <4> QED
        BY <2>1, <4>1
    <3> QED
      BY <1>0, <1>2, <3>1, <3>2
  <2> QED
    BY <2>1, <2>2
<1>7. TurnsKept(M)
  <2> SUFFICES ASSUME NEW q \in Questions(M), Cardinality(Since(M, q)) <= KeepTurns, q \in Replaced(m)
               PROVE  FALSE
    BY <1>5 DEF TurnsKept
  <2>1. PICK j \in DOMAIN m : q \in m[j].replaces
    BY ReplacedIs
  <2>2. q \in 1..(j - 1) /\ j \in 1..L
    BY <1>0, <1>1, <2>1 DEF Aligned
  <2>3. q \in 1..L /\ q \in Questions(m)
    BY <1>0, <2>2 DEF Questions
  <2>4. Since(m, q) \subseteq Since(M, q)
    BY <1>0 DEF Since, Questions
  <2>5. Cardinality(Since(m, q)) <= Cardinality(Since(M, q))
        /\ Cardinality(Since(m, q)) \in Nat /\ Cardinality(Since(M, q)) \in Nat
    BY <1>0, <2>4, SinceFinite, FS_Subset
  <2>6. Cardinality(Since(m, q)) <= KeepTurns
    BY <2>5, KeepTurnsAssumption
  <2> QED
    BY <1>1, <2>3, <2>6 DEF TurnsKept
<1>8. Once(M)
  <2> SUFFICES ASSUME NEW j \in DOMAIN M, NEW k \in DOMAIN M, j # k,
                      M[j].replaces # {}, M[k].replaces # {}
               PROVE  M[j].replaces \cap M[k].replaces = {}
    BY DEF Once
  <2> QED
    BY <1>0, <1>1, <1>3 DEF Once
<1> QED
  BY <1>4, <1>6, <1>7, <1>8 DEF Coherent, M

(* What /retry takes away.                                                 *)
LEMMA ShorterCoherent ==
    ASSUME NEW m \in Seq(Messages), m # <<>>, Coherent(m), m[Len(m)].role = "assistant"
    PROVE  Coherent(SubSeq(m, 1, Len(m) - 1))
<1> DEFINE s == SubSeq(m, 1, Len(m) - 1)
           L == Len(m)
<1>0. /\ s \in Seq(Messages) /\ L \in Nat /\ L > 0 /\ DOMAIN m = 1..L /\ DOMAIN s = 1..(L - 1)
      /\ \A k \in 1..(L - 1) : s[k] = m[k]
      /\ m[L].role = "assistant"
  BY ShorterFacts
<1>1. Paired(m) /\ Aligned(m) /\ TurnsKept(m) /\ Once(m)
  BY DEF Coherent
<1> HIDE DEF s, L
<1>2. \A k \in 1..(L - 1) : k \in 1..L
  BY <1>0
<1>3. Paired(s)
  <2>1. ASSUME NEW k \in DOMAIN s, Open(s, k)
        PROVE  k + 1 \in DOMAIN s /\ s[k + 1].role = "tool" /\ s[k + 1].to = s[k].n
    <3>1. k + 1 \in 1..L /\ m[k + 1].role = "tool" /\ m[k + 1].to = m[k].n
      BY <1>0, <1>1, <1>2, <2>1 DEF Paired, Open
    <3>2. k + 1 # L
      BY <1>0, <3>1
    <3>3. k + 1 \in 1..(L - 1)
      BY <1>0, <3>1, <3>2
    <3> QED
      BY <1>0, <3>1, <3>3
  <2>2. ASSUME NEW k \in DOMAIN s, s[k].role = "tool"
        PROVE  k - 1 \in DOMAIN s /\ Open(s, k - 1) /\ s[k].to = s[k - 1].n
    <3>1. k - 1 \in 1..L /\ Open(m, k - 1) /\ m[k].to = m[k - 1].n
      BY <1>0, <1>1, <1>2, <2>2 DEF Paired
    <3>2. k - 1 \in 1..(L - 1)
      BY <1>0, <3>1
    <3> QED
      BY <1>0, <3>1, <3>2 DEF Open
  <2>3. \A k \in DOMAIN s : s[k].calls => s[k].role = "assistant"
    BY <1>0, <1>1, <1>2 DEF Paired
  <2> QED
    BY <2>1, <2>2, <2>3 DEF Paired
<1>4. Aligned(s)
  BY <1>0, <1>1, <1>2 DEF Aligned, Open
<1>5. \A x \in Replaced(s) : x \in Replaced(m)
  BY <1>0, <1>2, ReplacedIs
<1>6. TurnsKept(s)
  <2>1. Questions(s) = Questions(m)
    <3>1. \A k \in 1..L : m[k].role = "user" => k \in 1..(L - 1)
      BY <1>0
    <3> QED
      BY <1>0, <1>2, <3>1 DEF Questions
  <2>2. \A q : Since(s, q) = Since(m, q)
    BY <2>1 DEF Since
  <2> QED
    BY <1>1, <1>5, <2>1, <2>2 DEF TurnsKept
<1>7. Once(s)
  BY <1>0, <1>1, <1>2 DEF Once
<1> QED
  BY <1>3, <1>4, <1>6, <1>7 DEF Coherent, s
(* What a compaction plans to take: messages no summary stands for, calls     *)
(* with their replies, and no question of the last turns.                    *)
LEMMA PlanFacts ==
    ASSUME NEW m \in Seq(Messages), Coherent(m), NEW P, P = PlanCompact(m)
    PROVE  /\ P \subseteq Active(m) /\ P \subseteq 1..Len(m)
           /\ \A k \in DOMAIN m : Open(m, k) => (k \in P <=> k + 1 \in P)
           /\ \A q \in Questions(m) : Cardinality(Since(m, q)) <= KeepTurns => q \notin P
<1> DEFINE starts == {k \in Active(m) : m[k].role = "user"}
           From(b) == {s \in starts : s >= b}
           keep   == {b \in starts : Cardinality(From(b)) = KeepTurns}
<1>1. P \subseteq Active(m)
  BY DEF PlanCompact
<1>2. Active(m) \subseteq DOMAIN m /\ DOMAIN m = 1..Len(m) /\ Len(m) \in Nat
  BY DEF Active
<1>3. ASSUME NEW k \in Active(m)
      PROVE  k \in P <=> Cardinality(starts) > KeepTurns /\ \E b \in keep : k < b
  BY DEF PlanCompact
<1>4. Paired(m) /\ Aligned(m)
  BY DEF Coherent
<1>5. keep \subseteq starts /\ starts \subseteq Questions(m)
  BY <1>2 DEF Questions
<1>6. ASSUME NEW k \in DOMAIN m, Open(m, k)
      PROVE  k \in P <=> k + 1 \in P
  <2>1. k + 1 \in DOMAIN m /\ m[k + 1].role = "tool"
    BY <1>4, <1>6 DEF Paired
  <2>2. k \in Active(m) <=> k + 1 \in Active(m)
    <3>1. k \in Replaced(m) <=> k + 1 \in Replaced(m)
      BY <1>4, <1>6, ReplacedIs DEF Aligned
    <3> QED
      BY <2>1, <3>1 DEF Active
  <2>3. k + 1 \notin keep
    BY <2>1, <1>5 DEF Questions
  <2>4. \A b \in keep : b \in 1..Len(m)
    BY <1>2, <1>5 DEF Questions
  <2> HIDE DEF keep, starts, From
  <2>5. (\E b \in keep : k < b) <=> (\E b \in keep : k + 1 < b)
    BY <1>2, <2>3, <2>4
  <2>6. k \notin Active(m) => k \notin P /\ k + 1 \notin P
    BY <1>1, <2>2
  <2> QED
    BY <1>3, <2>2, <2>5, <2>6
<1>7. ASSUME NEW q \in Questions(m), Cardinality(Since(m, q)) <= KeepTurns, q \in P
      PROVE  FALSE
  <2>1. PICK b \in keep : q < b
    BY <1>1, <1>3, <1>7
  <2>2. b \in starts /\ Cardinality(From(b)) = KeepTurns
    BY <2>1
  <2>3. q \in Int /\ b \in Int
    BY <1>2, <1>5, <2>2 DEF Questions
  <2>4. From(b) \subseteq Since(m, q) /\ q \notin From(b) /\ q \in Since(m, q)
    <3>1. \A s \in starts : s \in Questions(m) /\ s \in Int
      BY <1>2, <1>5 DEF Questions
    <3>2. \A s \in Int : s >= b => s >= q
      <4>1. q < b
        BY <2>1
      <4> HIDE DEF keep
      <4> QED
        BY <2>3, <4>1
    <3>3. ~(q >= b) /\ q >= q
      BY <2>1, <2>3
    <3> QED
      BY <3>1, <3>2, <3>3, <1>7 DEF Since
  <2> HIDE DEF From, keep, starts
  <2>5. IsFiniteSet(From(b)) /\ IsFiniteSet(Since(m, q))
    BY <2>4, SinceFinite, FS_Subset
  <2>6. Cardinality(From(b) \cup {q}) = KeepTurns + 1
    BY <2>2, <2>4, <2>5, FS_AddElement
  <2>7. Cardinality(From(b) \cup {q}) <= Cardinality(Since(m, q))
    BY <2>4, <2>5, FS_Subset
  <2>8. Cardinality(Since(m, q)) \in Nat
    BY SinceFinite
  <2> QED
    BY <1>7, <2>6, <2>7, <2>8, KeepTurnsAssumption
<1> QED
  BY <1>1, <1>2, <1>6, <1>7

(* What applying a plan adds, with the strategy that asks no model and with   *)
(* the answer to a summary: the plan is a fact about the history at hand.     *)
LEMMA SummarisedCoherent ==
    ASSUME NEW m \in Seq(Messages), NEW n \in Nat, NEW P, P = PlanCompact(m), Coherent(m)
    PROVE  Coherent(Append(m, Summary(n, P)))
<1> DEFINE M == Append(m, Summary(n, P))
           L == Len(m)
<1>0. /\ M \in Seq(Messages) /\ L \in Nat /\ DOMAIN m = 1..L /\ DOMAIN M = 1..(L + 1)
      /\ \A k \in 1..L : M[k] = m[k]
      /\ M[L + 1] = Summary(n, P)
  <2>1. P \in SUBSET Nat
    BY PlanFacts
  <2>2. Summary(n, P) \in Messages
    BY <2>1, SummaryFacts
  <2> HIDE DEF Summary
  <2> QED
    BY <2>2, SMTT(30)
<1>1. Paired(m) /\ Aligned(m) /\ TurnsKept(m) /\ Once(m)
  BY DEF Coherent
<1>2. /\ P \subseteq Active(m) /\ P \subseteq 1..L
      /\ \A k \in DOMAIN m : Open(m, k) => (k \in P <=> k + 1 \in P)
      /\ \A q \in Questions(m) : Cardinality(Since(m, q)) <= KeepTurns => q \notin P
  BY PlanFacts
<1>3. /\ M[L + 1].role = "assistant" /\ M[L + 1].replaces = P
      /\ ~M[L + 1].calls
  <2>1. P \in SUBSET Nat
    BY <1>0, <1>2
  <2> QED
    BY <1>0, <2>1, SummaryFacts
<1> HIDE DEF M, L, Summary
<1>4. \A k \in DOMAIN M : k \in 1..L \/ k = L + 1
  BY <1>0
<1>5. 1..L \subseteq DOMAIN M /\ L + 1 \in DOMAIN M /\ L + 1 \notin 1..L
  BY <1>0
<1>6. Paired(M)
  <2>1. ASSUME NEW k \in DOMAIN M, Open(M, k)
        PROVE  k + 1 \in DOMAIN M /\ M[k + 1].role = "tool" /\ M[k + 1].to = M[k].n
    <3>1. k \in 1..L /\ Open(m, k)
      BY <1>0, <1>3, <1>4, <2>1 DEF Open
    <3>2. k + 1 \in 1..L /\ m[k + 1].role = "tool" /\ m[k + 1].to = m[k].n
      BY <1>0, <1>1, <3>1 DEF Paired
    <3> QED
      BY <1>0, <1>5, <3>1, <3>2
  <2>2. ASSUME NEW k \in DOMAIN M, M[k].role = "tool"
        PROVE  k - 1 \in DOMAIN M /\ Open(M, k - 1) /\ M[k].to = M[k - 1].n
    <3>1. k \in 1..L /\ m[k].role = "tool"
      BY <1>0, <1>3, <1>4, <2>2
    <3>2. k - 1 \in 1..L /\ Open(m, k - 1) /\ m[k].to = m[k - 1].n
      BY <1>0, <1>1, <3>1 DEF Paired
    <3> QED
      BY <1>0, <1>5, <3>1, <3>2 DEF Open
  <2>3. ASSUME NEW k \in DOMAIN M PROVE M[k].calls => M[k].role = "assistant"
    BY <1>0, <1>1, <1>3, <1>4 DEF Paired
  <2> QED
    BY <2>1, <2>2, <2>3 DEF Paired
<1>7. ASSUME NEW x PROVE x \in Replaced(M) <=> x \in Replaced(m) \/ x \in P
  BY <1>0, <1>3, <1>4, <1>5, ReplacedIs
<1>8. Questions(M) = Questions(m)
  BY <1>0, <1>3, <1>4, <1>5 DEF Questions
<1>9. Aligned(M)
  <2> SUFFICES ASSUME NEW j \in DOMAIN M
               PROVE  /\ M[j].replaces \subseteq 1..(j - 1)
                      /\ \A k \in DOMAIN M : Open(M, k) =>
                            (k \in M[j].replaces <=> k + 1 \in M[j].replaces)
    BY DEF Aligned
  <2>1. ASSUME NEW k \in DOMAIN M, Open(M, k) PROVE k \in 1..L /\ Open(m, k)
    BY <1>0, <1>3, <1>4, <2>1 DEF Open
  <2>2. CASE j \in 1..L
    BY <1>0, <1>1, <2>1, <2>2 DEF Aligned
  <2>3. CASE j = L + 1
    <3>1. j - 1 = L
      BY <1>0, <2>3
    <3> QED
      BY <1>0, <1>2, <1>3, <2>1, <2>3, <3>1
  <2> QED
    BY <1>4, <2>2, <2>3
<1>10. TurnsKept(M)
  <2>1. \A q : Since(M, q) = Since(m, q)
    BY <1>8 DEF Since
  <2> QED
    BY <1>1, <1>2, <1>7, <1>8, <2>1 DEF TurnsKept
<1>11. Once(M)
  <2>1. \A k \in 1..L : P \cap m[k].replaces = {}
    BY <1>0, <1>2, ReplacedIs DEF Active
  <2> SUFFICES ASSUME NEW j \in DOMAIN M, NEW k \in DOMAIN M, j # k
               PROVE  M[j].replaces \cap M[k].replaces = {}
    BY DEF Once
  <2>2. CASE j \in 1..L /\ k \in 1..L
    BY <1>0, <1>1, <2>2 DEF Once
  <2>3. CASE j = L + 1 \/ k = L + 1
    BY <1>0, <1>3, <1>4, <2>1, <2>3
  <2> QED
    BY <1>4, <2>2, <2>3
<1> QED
  BY <1>6, <1>9, <1>10, <1>11 DEF Coherent, M
-----------------------------------------------------------------------------
(* Files.                                                                  *)

LEMMA UpdatedFacts ==
    ASSUME NEW T, NEW fs \in Seq(T), NEW r \in 1..Len(fs), NEW x \in T
    PROVE  /\ [fs EXCEPT ![r] = x] \in Seq(T) /\ Len([fs EXCEPT ![r] = x]) = Len(fs)
           /\ DOMAIN [fs EXCEPT ![r] = x] = 1..Len(fs)
           /\ [fs EXCEPT ![r] = x][r] = x
           /\ \A k \in 1..Len(fs) : k # r => [fs EXCEPT ![r] = x][k] = fs[k]
  BY SMTT(30)

LEMMA MemberFacts ==
    ASSUME NEW T, NEW fs \in Seq(T)
    PROVE  DOMAIN fs = 1..Len(fs) /\ Len(fs) \in Nat /\ \A k \in DOMAIN fs : fs[k] \in T
  OBVIOUS

LEMMA LongerFacts ==
    ASSUME NEW T, NEW fs \in Seq(T), NEW x \in T
    PROVE  /\ Append(fs, x) \in Seq(T) /\ Len(Append(fs, x)) = Len(fs) + 1
           /\ DOMAIN Append(fs, x) = 1..(Len(fs) + 1)
           /\ Append(fs, x)[Len(fs) + 1] = x
           /\ \A k \in 1..Len(fs) : Append(fs, x)[k] = fs[k]
  BY SMTT(30)

(* Recording something: one file, the recorder's, grows at its end.           *)
LEMMA RecordFacts ==
    ASSUME files \in Seq(Seq(Messages)), rec \in 0..Len(files),
           NEW new \in Seq(Messages), new # <<>>, Record(new)
    PROVE  /\ files' \in Seq(Seq(Messages))
           /\ DOMAIN files = 1..Len(files) /\ DOMAIN files' = 1..Len(files')
           /\ Len(files) \in Nat /\ Len(files') \in Nat /\ Len(files) <= Len(files')
           /\ rec' \in 1..Len(files') /\ latest' = rec'
           /\ \A id \in DOMAIN files' : id # rec' => id \in DOMAIN files /\ files'[id] = files[id]
           /\ \E g \in Seq(Messages) :
                 /\ files'[rec'] = g \o new
                 /\ g = <<>> \/ (rec' \in DOMAIN files /\ g = files[rec'])
           /\ rec' \in DOMAIN files => files'[rec'] = files[rec'] \o new
<1>1. Len(files) \in Nat /\ DOMAIN files = 1..Len(files)
  OBVIOUS
<1>2. CASE rec = 0
  <2>1. rec' = Len(files) + 1 /\ files' = Append(files, new) /\ latest' = rec'
    BY <1>2 DEF Record
  <2>2. /\ files' \in Seq(Seq(Messages)) /\ Len(files') = Len(files) + 1
        /\ DOMAIN files' = 1..(Len(files) + 1) /\ files'[Len(files) + 1] = new
        /\ \A k \in 1..Len(files) : files'[k] = files[k]
    BY <2>1, LongerFacts
  <2>3. <<>> \in Seq(Messages) /\ <<>> \o new = new
    OBVIOUS
  <2>4. rec' \notin DOMAIN files
    BY <1>1, <2>1
  <2>5. \A id \in 1..(Len(files) + 1) : id # rec' => id \in 1..Len(files)
    BY <1>1, <2>1
  <2>6. Len(files) + 1 \in Nat /\ Len(files) <= Len(files) + 1 /\ rec' \in 1..(Len(files) + 1)
    BY <1>1, <2>1
  <2>7. files'[rec'] = <<>> \o new
    BY <2>1, <2>2, <2>3
  <2>8. \A id \in DOMAIN files' : id # rec' => id \in DOMAIN files /\ files'[id] = files[id]
    BY <1>1, <2>2, <2>5
  <2> QED
    BY <1>1, <2>1, <2>2, <2>3, <2>4, <2>6, <2>7, <2>8, Zenon
<1>3. CASE rec # 0
  <2>0. rec \in 1..Len(files)
    BY <1>1, <1>3
  <2>1. rec' = rec /\ latest' = rec' /\ files' = [files EXCEPT ![rec] = files[rec] \o new]
    BY <1>3 DEF Record
  <2>2. files[rec] \in Seq(Messages)
    BY <2>0
  <2>3. files[rec] \o new \in Seq(Messages)
    BY <2>2, JoinedFacts
  <2>4. /\ files' \in Seq(Seq(Messages)) /\ Len(files') = Len(files)
        /\ DOMAIN files' = 1..Len(files) /\ files'[rec] = files[rec] \o new
        /\ \A k \in 1..Len(files) : k # rec => files'[k] = files[k]
    BY <2>0, <2>1, <2>3, UpdatedFacts
  <2>5. rec' \in 1..Len(files') /\ Len(files) <= Len(files')
    BY <1>1, <2>0, <2>1, <2>4
  <2>6. \A id \in DOMAIN files' : id # rec' => id \in DOMAIN files /\ files'[id] = files[id]
    BY <1>1, <2>1, <2>4
  <2> QED
    BY <1>1, <2>1, <2>2, <2>4, <2>5, <2>6
<1> QED
  BY <1>2, <1>3

-----------------------------------------------------------------------------
(* The kinds of step, as far as the history and the files are concerned.      *)

Fresh(new) ==
    /\ new \in Seq(Messages) /\ Paired(new) /\ NoSummary(new)
    /\ \A k \in DOMAIN new : new[k].n = produced + k

\* Something is said: it joins the history and is recorded.
Says(new) ==
    /\ Fresh(new)
    /\ msgs' = msgs \o new
    /\ Record(new)
    /\ produced' = produced + Len(new)
    /\ mode # "compact" /\ mode' # "compact" /\ plan' = plan

\* The history becomes something it was, or a file; nothing is recorded.
Recalls ==
    /\ \/ msgs' = msgs
       \/ /\ msgs # <<>> /\ msgs[Len(msgs)].role = "assistant"
          /\ msgs' = SubSeq(msgs, 1, Len(msgs) - 1)
       \/ msgs' = <<>>
       \/ \E id \in DOMAIN files : msgs' = files[id]
    /\ UNCHANGED <<files, produced>>
    /\ mode' # "compact"
    /\ (plan' = plan /\ mode # "compact") \/ plan' = {}

\* A summary of p joins the history; nothing is recorded.
Summarises(p) ==
    /\ msgs' = Append(msgs, Summary(produced + 1, p))
    /\ produced' = produced + 1
    /\ UNCHANGED files
    /\ p # {}
    /\ mode' # "compact"
    /\ (plan' = plan /\ mode # "compact") \/ plan' = {}

\* A compaction waits for its summary.
Plans ==
    /\ plan' = PlanCompact(msgs) /\ PlanCompact(msgs) # {}
    /\ mode' = "compact"
    /\ UNCHANGED <<msgs, files, produced>>

\* Nothing of it changes.
Stays == UNCHANGED <<msgs, files, produced, mode, plan>>

PlanInv ==
    IF mode = "compact" THEN plan = PlanCompact(msgs) /\ plan # {} ELSE plan = {}

StepKinds ==
    \/ \E new \in Seq(Messages) : Says(new)
    \/ Recalls
    \/ Summarises(PlanCompact(msgs))
    \/ ("switch" \in setup.commands /\ \E k \in DOMAIN msgs : Summarises(1..k))
    \/ Plans
    \/ Stays

LEMMA PlanInHistory ==
    ASSUME NEW m \in Seq(Messages)
    PROVE  PlanCompact(m) \subseteq DOMAIN m /\ DOMAIN m = 1..Len(m) /\ Len(m) \in Nat
<1>1. PlanCompact(m) \subseteq Active(m) /\ Active(m) \subseteq DOMAIN m
  BY DEF PlanCompact, Active
<1> QED
  BY <1>1
LEMMA SubmitSays ==
    ASSUME TypeOK, PlanInv, Submit
    PROVE  \E new \in Seq(Messages) : Says(new)
<1> DEFINE u == Message(produced + 1, "user")
<1>1. produced \in Nat /\ produced + 1 \in Nat /\ msgs \in Seq(Messages)
  BY DEF TypeOK
<1>2. u \in Messages /\ u.n = produced + 1 /\ u.role = "user" /\ ~u.calls /\ u.replaces = {}
  BY <1>1, MessageFacts
<1>3. msgs' = Append(msgs, u) /\ Record(<<u>>) /\ produced' = produced + 1
  BY DEF Submit
<1>4. mode = "chat" /\ mode' = "busy" /\ plan' = plan
  BY DEF Submit, compVars
<1> HIDE DEF u
<1>5. <<u>> \in Seq(Messages) /\ Len(<<u>>) = 1 /\ DOMAIN <<u>> = {1} /\ <<u>>[1] = u
  BY <1>2
<1>6. msgs' = msgs \o <<u>>
  BY <1>1, <1>2, <1>3, AppendIsJoin
<1>7. Paired(<<u>>) /\ NoSummary(<<u>>)
  BY <1>2, <1>5 DEF Paired, NoSummary, Open
<1>8. Fresh(<<u>>)
  BY <1>2, <1>5, <1>7 DEF Fresh
<1>9. Says(<<u>>)
  BY <1>3, <1>4, <1>5, <1>6, <1>8 DEF Says
<1> QED
  BY <1>5, <1>9

LEMMA EndTurnSays ==
    ASSUME TypeOK, PlanInv, EndTurn
    PROVE  \E new \in Seq(Messages) : Says(new)
<1>1. PICK turn \in Turns :
          /\ msgs' = msgs \o FromTurn(turn)
          /\ Record(FromTurn(turn))
          /\ produced' = produced + Len(turn)
  BY DEF EndTurn
<1>2. mode = "busy" /\ mode' = "chat" /\ plan' = plan
  BY DEF EndTurn, compVars
<1>3. produced \in Nat
  BY DEF TypeOK
<1> DEFINE ft == FromTurn(turn)
<1>4. /\ ft \in Seq(Messages) /\ Len(ft) = Len(turn)
      /\ \A k \in 1..Len(turn) : ft[k].n = produced + k
      /\ NoSummary(ft) /\ Paired(ft)
  BY <1>3, TurnFacts
<1>5. msgs' = msgs \o ft /\ Record(ft) /\ produced' = produced + Len(ft)
  BY <1>1, <1>4
<1> HIDE DEF ft
<1>6. DOMAIN ft = 1..Len(turn)
  BY <1>4
<1>7. Fresh(ft)
  BY <1>4, <1>6 DEF Fresh
<1>8. Says(ft)
  BY <1>2, <1>5, <1>7 DEF Says
<1> QED
  BY <1>4, <1>8

LEMMA CommandRecalls ==
    ASSUME TypeOK, PlanInv, Retry \/ NewConversation \/ ResumeChosen \/ Restart
    PROVE  Recalls
<1>1. CASE Retry
  BY <1>1 DEF Retry, Recalls, compVars, diskVars
<1>2. CASE NewConversation
  BY <1>2 DEF NewConversation, Recalls, compVars, diskVars
<1>3. CASE ResumeChosen
  BY <1>3 DEF ResumeChosen, Recalls, compVars, diskVars
<1>4. CASE Restart
  <2>1. files' = files /\ produced' = produced /\ mode' = "chat" /\ plan' = {}
    BY <1>4 DEF Restart
  <2>2. CASE msgs' = <<>>
    BY <2>1, <2>2 DEF Recalls
  <2>3. CASE latest # 0 /\ msgs' = files[latest]
    <3>1. latest \in DOMAIN files
      <4>1. latest \in 0..Len(files) /\ files \in Seq(Seq(Messages))
        BY DEF TypeOK
      <4> QED
        BY <2>3, <4>1
    <3> QED
      BY <2>1, <2>3, <3>1 DEF Recalls
  <2> QED
    BY <1>4, <2>2, <2>3 DEF Restart
<1> QED
  BY <1>1, <1>2, <1>3, <1>4

LEMMA AppliedIs ==
    ASSUME NEW p, ApplySummary(p)
    PROVE  msgs' = Append(msgs, Summary(produced + 1, p)) /\ produced' = produced + 1
  BY DEF ApplySummary, Summary

LEMMA KindsOfStep ==
    ASSUME TypeOK, PlanInv, Next
    PROVE  StepKinds
<1>1. CASE Submit
  BY <1>1, SubmitSays DEF StepKinds
<1>2. CASE EndTurn
  BY <1>2, EndTurnSays DEF StepKinds
<1>3. CASE Retry \/ NewConversation \/ ResumeChosen \/ Restart
  BY <1>3, CommandRecalls DEF StepKinds
<1>4. CASE StartCompact
  <2>1. mode = "chat" /\ plan = {} /\ files' = files /\ PlanCompact(msgs) # {}
    BY <1>4 DEF StartCompact, PlanInv, diskVars
  <2>2. CASE ApplySummary(PlanCompact(msgs)) /\ UNCHANGED <<mode, plan, answers>>
    BY <2>1, <2>2, AppliedIs DEF StepKinds, Summarises
  <2>3. CASE plan' = PlanCompact(msgs) /\ mode' = "compact" /\ UNCHANGED <<msgs, produced>>
    BY <2>1, <2>3 DEF StepKinds, Plans
  <2> QED
    BY <1>4, <2>2, <2>3 DEF StartCompact
<1>5. CASE CancelCompact
  <2>1. Recalls
    BY <1>5 DEF CancelCompact, Recalls, diskVars
  <2> QED
    BY <2>1 DEF StepKinds
<1>6. CASE CompactDone
  <2>1. files' = files
    BY <1>6 DEF CompactDone, diskVars
  <2>2. CASE mode # "compact"
    BY <1>6, <2>1, <2>2 DEF CompactDone, StepKinds, Stays
  <2>3. CASE mode = "compact"
    <3>1. plan = PlanCompact(msgs) /\ plan # {} /\ mode' = "chat" /\ plan' = {}
      BY <1>6, <2>3 DEF CompactDone, PlanInv
    <3>2. CASE ApplySummary(plan)
      <4>1. Summarises(plan)
        BY <2>1, <3>1, <3>2, AppliedIs DEF Summarises
      <4> QED
        BY <3>1, <4>1 DEF StepKinds
    <3>3. CASE UNCHANGED <<msgs, produced>>
      BY <2>1, <3>1, <3>3 DEF StepKinds, Recalls
    <3> QED
      BY <1>6, <2>3, <3>2, <3>3 DEF CompactDone
  <2> QED
    BY <2>2, <2>3
<1>7. CASE DropOldest
  <2>1. /\ "switch" \in setup.commands /\ mode = "chat" /\ mode' = "chat"
        /\ files' = files /\ plan' = plan
    BY <1>7 DEF DropOldest, compVars, diskVars
  <2>2. PICK k \in DOMAIN msgs : ApplySummary(1..k)
    BY <1>7 DEF DropOldest
  <2>3. 1..k # {}
    <3>1. k \in Nat /\ 1 <= k
      BY DEF TypeOK
    <3> QED
      BY <3>1
  <2>4. Summarises(1..k)
    BY <2>1, <2>2, <2>3, AppliedIs DEF Summarises
  <2> QED
    BY <2>1, <2>4 DEF StepKinds
<1> QED
  BY <1>1, <1>2, <1>3, <1>4, <1>5, <1>6, <1>7 DEF Next, Step

-----------------------------------------------------------------------------
(* Types.                                                                  *)

LEMMA HistoryTyped ==
    ASSUME TypeOK, PlanInv, StepKinds
    PROVE  /\ msgs' \in Seq(Messages) /\ files' \in Seq(Seq(Messages)) /\ produced' \in Nat
           /\ plan' \subseteq DOMAIN msgs' /\ PlanInv'
<1>1. msgs \in Seq(Messages) /\ files \in Seq(Seq(Messages)) /\ produced \in Nat
      /\ rec \in 0..Len(files)
  BY DEF TypeOK
<1>2. PlanCompact(msgs) \subseteq DOMAIN msgs /\ DOMAIN msgs = 1..Len(msgs) /\ Len(msgs) \in Nat
  BY <1>1, PlanInHistory
<1>3. ASSUME NEW p \in SUBSET Nat, Summarises(p)
      PROVE  /\ msgs' \in Seq(Messages) /\ files' \in Seq(Seq(Messages)) /\ produced' \in Nat
             /\ plan' \subseteq DOMAIN msgs' /\ PlanInv'
  <2>0. produced + 1 \in Nat
    BY <1>1
  <2>1. Summary(produced + 1, p) \in Messages /\ produced + 1 \in Nat
    BY <2>0, SummaryFacts
  <2>2. msgs' \in Seq(Messages)
    BY <1>1, <1>3, <2>1, LongerFacts DEF Summarises
  <2>3. plan' = {} /\ mode' # "compact"
    BY <1>3 DEF Summarises, PlanInv
  <2> QED
    BY <1>1, <1>3, <2>1, <2>2, <2>3 DEF Summarises, PlanInv
<1>4. CASE \E new \in Seq(Messages) : Says(new)
  <2>1. PICK new \in Seq(Messages) : Says(new)
    BY <1>4
  <2>2. msgs' \in Seq(Messages) /\ Len(new) \in Nat
    BY <1>1, <2>1, JoinedFacts DEF Says
  <2>3. produced' \in Nat
    BY <1>1, <2>1, <2>2 DEF Says
  <2>4. plan' = {} /\ mode' # "compact"
    BY <2>1 DEF Says, PlanInv
  <2>5. files' \in Seq(Seq(Messages))
    <3>1. CASE new = <<>>
      BY <1>1, <2>1, <3>1 DEF Says, Record, diskVars
    <3>2. CASE new # <<>>
      BY <1>1, <2>1, <3>2, RecordFacts DEF Says
    <3> QED
      BY <3>1, <3>2
  <2> QED
    BY <2>2, <2>3, <2>4, <2>5 DEF PlanInv
<1>5. CASE Recalls
  <2>1. plan' = {} /\ mode' # "compact"
    BY <1>5 DEF Recalls, PlanInv
  <2>2. msgs' \in Seq(Messages)
    <3>1. CASE msgs' = SubSeq(msgs, 1, Len(msgs) - 1) /\ msgs # <<>>
      BY <1>1, <3>1, ShorterFacts
    <3>2. CASE \E id \in DOMAIN files : msgs' = files[id]
      <4>1. PICK id \in DOMAIN files : msgs' = files[id]
        BY <3>2
      <4>2. \A j \in DOMAIN files : files[j] \in Seq(Messages)
        BY <1>1, MemberFacts, Zenon
      <4> QED
        BY <4>1, <4>2, Zenon
    <3>3. CASE msgs' = msgs \/ msgs' = <<>>
      <4>1. <<>> \in Seq(Messages)
        OBVIOUS
      <4> QED
        BY <1>1, <3>3, <4>1, Zenon
    <3> QED
      BY <1>5, <3>1, <3>2, <3>3 DEF Recalls
  <2> QED
    BY <1>1, <1>5, <2>1, <2>2 DEF Recalls, PlanInv
<1>6. CASE Summarises(PlanCompact(msgs))
  <2>1. PlanCompact(msgs) \in SUBSET Nat
    BY <1>2
  <2> QED
    BY <1>3, <1>6, <2>1
<1>7. CASE \E k \in DOMAIN msgs : Summarises(1..k)
  <2>1. \A k : 1..k \in SUBSET Nat
    OBVIOUS
  <2> QED
    BY <1>3, <1>7, <2>1
<1>8. CASE Plans
  BY <1>1, <1>2, <1>8 DEF Plans, PlanInv
<1>9. CASE Stays
  <2>1. msgs' = msgs /\ files' = files /\ produced' = produced /\ mode' = mode /\ plan' = plan
    BY <1>9 DEF Stays
  <2>2. plan' \subseteq DOMAIN msgs'
    BY <2>1 DEF TypeOK
  <2>3. PlanInv'
    BY <2>1 DEF PlanInv
  <2> QED
    BY <1>1, <2>1, <2>2, <2>3
<1> QED
  BY <1>4, <1>5, <1>6, <1>7, <1>8, <1>9 DEF StepKinds
(* TypeOK: messages are what the program says or sums up, a plan lies in the  *)
(* history, and the recorder holds one of the files.                         *)
THEOREM HistoryTypeCorrect == Spec => []TypeOK
<1>1. Init => TypeOK /\ PlanInv
  <2> SUFFICES ASSUME Init PROVE TypeOK /\ PlanInv
    OBVIOUS
  <2>1. <<>> \in Seq(Messages) /\ <<>> \in Seq(Seq(Messages)) /\ Len(<<>>) = 0
    OBVIOUS
  <2> QED
    BY <2>1 DEF Init, TypeOK, PlanInv
<1>2. TypeOK /\ PlanInv /\ [Next]_vars => TypeOK' /\ PlanInv'
  <2> SUFFICES ASSUME TypeOK, PlanInv, [Next]_vars PROVE TypeOK' /\ PlanInv'
    OBVIOUS
  <2>1. CASE UNCHANGED vars
    BY <2>1 DEF vars, TypeOK, PlanInv
  <2>2. CASE Next
    <3>1. /\ msgs' \in Seq(Messages) /\ files' \in Seq(Seq(Messages)) /\ produced' \in Nat
          /\ plan' \subseteq DOMAIN msgs' /\ PlanInv'
      BY <2>2, KindsOfStep, HistoryTyped
    <3>2. mode' \in {"chat", "busy", "compact"}
      <4>1. mode \in {"chat", "busy", "compact"}
        BY DEF TypeOK
      <4> QED
        BY <2>2, <4>1 DEF Next, Step, Submit, EndTurn, Retry, NewConversation, ResumeChosen, Restart,
              StartCompact, CancelCompact, CompactDone, DropOldest
    <3>3. /\ asked' \in Nat /\ answers' \subseteq 1..asked'
          /\ applied' \subseteq (1..asked') \X (1..asked')
      <4>1. /\ asked \in Nat /\ answers \subseteq 1..asked
            /\ applied \subseteq (1..asked) \X (1..asked)
        BY DEF TypeOK
      <4>2. CASE StartCompact
        <5>1. asked' = asked + 1 /\ applied' = applied
              /\ (answers' = answers \/ answers' = answers \cup {asked'})
          BY <4>2 DEF StartCompact
        <5>2. 1..asked \subseteq 1..(asked + 1) /\ asked + 1 \in 1..(asked + 1) /\ asked + 1 \in Nat
          BY <4>1
        <5> QED
          BY <4>1, <5>1, <5>2
      <4>3. CASE CompactDone
        <5>1. asked' = asked
          BY <4>3 DEF CompactDone
        <5>2. PICK a \in answers : /\ answers' = answers \ {a}
                                   /\ applied' = applied \/ applied' = applied \cup {<<asked, a>>}
          BY <4>3 DEF CompactDone
        <5>3. asked \in 1..asked /\ a \in 1..asked
          BY <4>1, <5>2
        <5> QED
          BY <4>1, <5>1, <5>2, <5>3
      <4>4. CASE Restart
        BY <4>1, <4>4 DEF Restart
      <4>5. CASE Submit \/ EndTurn \/ Retry \/ NewConversation \/ ResumeChosen \/ DropOldest
        BY <4>1, <4>5 DEF Submit, EndTurn, Retry, NewConversation, ResumeChosen, DropOldest, compVars
      <4>6. CASE CancelCompact
        BY <4>1, <4>6 DEF CancelCompact
      <4> QED
        BY <2>2, <4>2, <4>3, <4>4, <4>5, <4>6 DEF Next, Step
    <3>4. latest' \in 0..Len(files') /\ rec' \in 0..Len(files')
      <4>1. latest \in 0..Len(files) /\ rec \in 0..Len(files) /\ files \in Seq(Seq(Messages))
        BY DEF TypeOK
      <4>2. Len(files) \in Nat
        BY <4>1, MemberFacts
      <4>3. CASE Submit \/ EndTurn
        <5>1. PICK new \in Seq(Messages) : Record(new)
          BY <4>3, SubmitSays, EndTurnSays DEF Says
        <5>2. CASE new = <<>>
          BY <4>1, <5>1, <5>2 DEF Record, diskVars
        <5>3. CASE new # <<>>
          <6>1. rec' \in 1..Len(files') /\ latest' = rec' /\ Len(files') \in Nat
            BY <4>1, <5>1, <5>3, RecordFacts
          <6> QED
            BY <6>1
        <5> QED
          BY <5>2, <5>3
      <4>4. CASE Restart
        BY <4>1, <4>2, <4>4 DEF Restart
      <4>5. CASE Retry \/ NewConversation \/ ResumeChosen \/ StartCompact \/ CancelCompact
                 \/ CompactDone \/ DropOldest
        BY <4>1, <4>5 DEF Retry, NewConversation, ResumeChosen, StartCompact, CancelCompact,
              CompactDone, DropOldest, diskVars
      <4> QED
        BY <2>2, <4>3, <4>4, <4>5 DEF Next, Step
    <3> QED
      BY <3>1, <3>2, <3>3, <3>4 DEF TypeOK
  <2> QED
    BY <2>1, <2>2
<1> QED
  BY <1>1, <1>2, PTL DEF Spec
-----------------------------------------------------------------------------
(* Coherence.  Outside the swap dialog's cut every history is coherent, those *)
(* in the files included: no summary is recorded, so a file has none.         *)

FilesPlain == \A id \in DOMAIN files : NoSummary(files[id]) /\ Paired(files[id])

CoherentInv == "switch" \notin setup.commands => Coherent(msgs)

LEMMA JoinedPlain ==
    ASSUME NEW a \in Seq(Messages), NEW b \in Seq(Messages),
           NoSummary(a), Paired(a), NoSummary(b), Paired(b)
    PROVE  NoSummary(a \o b) /\ Paired(a \o b)
<1>1. Paired(a \o b)
  BY PlainCoherent, JoinedCoherent DEF Coherent
<1>2. NoSummary(a \o b)
  <2> DEFINE M == a \o b
  <2>1. /\ DOMAIN M = 1..(Len(a) + Len(b)) /\ Len(a) \in Nat /\ Len(b) \in Nat
        /\ DOMAIN a = 1..Len(a) /\ DOMAIN b = 1..Len(b)
        /\ \A k \in 1..Len(a) : M[k] = a[k]
        /\ \A k \in 1..Len(b) : M[Len(a) + k] = b[k]
    BY JoinedFacts
  <2> HIDE DEF M
  <2> SUFFICES ASSUME NEW k \in DOMAIN M PROVE M[k].replaces = {}
    BY DEF NoSummary, M
  <2>2. CASE k <= Len(a)
    BY <2>1, <2>2 DEF NoSummary
  <2>3. CASE k > Len(a)
    <3>1. k - Len(a) \in 1..Len(b) /\ k = Len(a) + (k - Len(a))
      BY <2>1, <2>3
    <3>2. M[k] = b[k - Len(a)]
      BY <2>1, <3>1
    <3> QED
      BY <2>1, <3>1, <3>2 DEF NoSummary
  <2> QED
    BY <2>1, <2>2, <2>3
<1> QED
  BY <1>1, <1>2

LEMMA FilesStayPlain ==
    ASSUME TypeOK, FilesPlain, StepKinds
    PROVE  FilesPlain'
<1>1. files \in Seq(Seq(Messages)) /\ rec \in 0..Len(files)
  BY DEF TypeOK
<1>2. CASE files' = files
  BY <1>2 DEF FilesPlain
<1>3. CASE \E new \in Seq(Messages) : Says(new)
  <2>1. PICK new \in Seq(Messages) : Says(new)
    BY <1>3
  <2>2. Record(new) /\ NoSummary(new) /\ Paired(new)
    BY <2>1 DEF Says, Fresh
  <2>3. CASE new = <<>>
    BY <1>2, <2>2, <2>3 DEF Record, diskVars
  <2>4. CASE new # <<>>
    <3>1. /\ \A id \in DOMAIN files' : id # rec' => id \in DOMAIN files /\ files'[id] = files[id]
          /\ \E g \in Seq(Messages) :
                 /\ files'[rec'] = g \o new
                 /\ g = <<>> \/ (rec' \in DOMAIN files /\ g = files[rec'])
      BY <1>1, <2>2, <2>4, RecordFacts
    <3>2. PICK g \in Seq(Messages) :
                 /\ files'[rec'] = g \o new
                 /\ g = <<>> \/ (rec' \in DOMAIN files /\ g = files[rec'])
      BY <3>1
    <3>3. NoSummary(g) /\ Paired(g)
      <4>1. CASE g = <<>>
        BY <4>1 DEF NoSummary, Paired
      <4>2. CASE rec' \in DOMAIN files /\ g = files[rec']
        BY <4>2 DEF FilesPlain
      <4> QED
        BY <3>2, <4>1, <4>2
    <3>4. NoSummary(g \o new) /\ Paired(g \o new)
      BY <2>2, <3>3, JoinedPlain
    <3> QED
      BY <3>1, <3>2, <3>4, Zenon DEF FilesPlain
  <2> QED
    BY <2>3, <2>4
<1>4. (\E new \in Seq(Messages) : Says(new)) \/ files' = files
  BY DEF StepKinds, Recalls, Summarises, Plans, Stays
<1> QED
  BY <1>2, <1>3, <1>4

LEMMA HistoryStaysCoherent ==
    ASSUME TypeOK, FilesPlain, CoherentInv, StepKinds, setup' = setup
    PROVE  CoherentInv'
<1> SUFFICES ASSUME "switch" \notin setup.commands PROVE Coherent(msgs')
  BY DEF CoherentInv
<1>1. msgs \in Seq(Messages) /\ files \in Seq(Seq(Messages)) /\ produced \in Nat /\ Coherent(msgs)
  BY DEF TypeOK, CoherentInv
<1>2. CASE \E new \in Seq(Messages) : Says(new)
  BY <1>1, <1>2, JoinedCoherent DEF Says, Fresh
<1>3. CASE Recalls
  <2>1. CASE msgs' = <<>>
    <3>1. <<>> \in Seq(Messages) /\ NoSummary(<<>>) /\ Paired(<<>>)
      BY DEF NoSummary, Paired
    <3> QED
      BY <2>1, <3>1, PlainCoherent
  <2>2. CASE \E id \in DOMAIN files : msgs' = files[id]
    <3>1. \A j \in DOMAIN files : files[j] \in Seq(Messages)
      BY <1>1, MemberFacts, Zenon
    <3>2. \A j \in DOMAIN files : Coherent(files[j])
      BY <3>1, PlainCoherent DEF FilesPlain
    <3> QED
      BY <2>2, <3>2, Zenon
  <2>3. CASE /\ msgs # <<>> /\ msgs[Len(msgs)].role = "assistant"
             /\ msgs' = SubSeq(msgs, 1, Len(msgs) - 1)
    BY <1>1, <2>3, ShorterCoherent
  <2> QED
    BY <1>1, <1>3, <2>1, <2>2, <2>3 DEF Recalls
<1>4. CASE Summarises(PlanCompact(msgs))
  <2>1. produced + 1 \in Nat
    BY <1>1
  <2> QED
    BY <1>1, <1>4, <2>1, SummarisedCoherent DEF Summarises
<1>5. CASE Plans \/ Stays
  BY <1>1, <1>5 DEF Plans, Stays
<1> QED
  BY <1>2, <1>3, <1>4, <1>5 DEF StepKinds

LEMMA CoherentMeans ==
    ASSUME msgs \in Seq(Messages), Coherent(msgs)
    PROVE  ToolPairsTravel /\ LastTurnsKept /\ SummarisedOnce
<1>1. Paired(msgs) /\ Aligned(msgs) /\ TurnsKept(msgs) /\ Once(msgs)
  BY DEF Coherent
<1>2. ASSUME NEW k \in DOMAIN msgs, Open(msgs, k)
      PROVE  k \in Active(msgs) <=> k + 1 \in Active(msgs)
  <2>1. k + 1 \in DOMAIN msgs
    BY <1>1, <1>2 DEF Paired
  <2>2. k \in Replaced(msgs) <=> k + 1 \in Replaced(msgs)
    BY <1>1, <1>2, ReplacedIs DEF Aligned
  <2> QED
    BY <2>1, <2>2 DEF Active
<1>3. ASSUME NEW k \in DOMAIN msgs, msgs[k].role = "tool", k \in Active(msgs)
      PROVE  \E c \in Active(msgs) : msgs[c].n = msgs[k].to
  <2>1. k - 1 \in DOMAIN msgs /\ Open(msgs, k - 1) /\ msgs[k].to = msgs[k - 1].n
    BY <1>1, <1>3 DEF Paired
  <2>2. (k - 1) + 1 = k
    <3>1. k \in Int
      OBVIOUS
    <3> QED
      BY <3>1
  <2>3. k - 1 \in Active(msgs)
    BY <1>2, <1>3, <2>1, <2>2
  <2> QED
    BY <2>1, <2>3
<1>4. ASSUME NEW k \in DOMAIN msgs, Open(msgs, k), k \in Active(msgs)
      PROVE  \E r \in Active(msgs) : msgs[r].to = msgs[k].n
  <2>1. k + 1 \in Active(msgs) /\ msgs[k + 1].to = msgs[k].n
    BY <1>1, <1>2, <1>4 DEF Paired
  <2> QED
    BY <2>1
<1>5. ToolPairsTravel
  BY <1>3, <1>4 DEF ToolPairsTravel, Open
<1>6. LastTurnsKept
  BY <1>1 DEF LastTurnsKept, TurnsKept, Questions, Since, Active
<1>7. SummarisedOnce
  BY <1>1 DEF SummarisedOnce, Once
<1> QED
  BY <1>5, <1>6, <1>7

(* CompactionCoherent: over any mixture of late answers, retries, resumes and *)
(* restarts, calls travel with their replies, the last turns stay, and no     *)
(* message is in two summaries.                                              *)
THEOREM CompactionAlwaysCoherent == Spec => []CompactionCoherent
<1>1. Init => PlanInv /\ FilesPlain /\ CoherentInv
  <2> SUFFICES ASSUME Init PROVE PlanInv /\ FilesPlain /\ CoherentInv
    OBVIOUS
  <2>1. <<>> \in Seq(Messages) /\ NoSummary(<<>>) /\ Paired(<<>>)
    BY DEF NoSummary, Paired
  <2>2. Coherent(<<>>)
    BY <2>1, PlainCoherent
  <2>3. PlanInv /\ msgs = <<>>
    BY DEF Init, PlanInv
  <2>4. FilesPlain
    <3>1. files = <<>>
      BY DEF Init
    <3>2. \A x : x \notin DOMAIN <<>>
      OBVIOUS
    <3> QED
      BY <3>1, <3>2 DEF FilesPlain
  <2> QED
    BY <2>2, <2>3, <2>4 DEF CoherentInv
<1>2. TypeOK /\ PlanInv /\ FilesPlain /\ CoherentInv /\ [Next]_vars
        => PlanInv' /\ FilesPlain' /\ CoherentInv'
  <2> SUFFICES ASSUME TypeOK, PlanInv, FilesPlain, CoherentInv, [Next]_vars
               PROVE  PlanInv' /\ FilesPlain' /\ CoherentInv'
    OBVIOUS
  <2>1. CASE UNCHANGED vars
    BY <2>1 DEF vars, PlanInv, FilesPlain, CoherentInv
  <2>2. CASE Next
    <3>1. StepKinds /\ setup' = setup
      BY <2>2, KindsOfStep DEF Next
    <3> QED
      BY <3>1, HistoryTyped, FilesStayPlain, HistoryStaysCoherent
  <2> QED
    BY <2>1, <2>2
<1>3. TypeOK /\ CoherentInv => CompactionCoherent
  BY CoherentMeans DEF TypeOK, CoherentInv, CompactionCoherent
<1> QED
  BY <1>1, <1>2, <1>3, HistoryTypeCorrect, PTL DEF Spec
-----------------------------------------------------------------------------
(* The record.  Everything in a file was numbered at most produced, so what   *)
(* is said next is new to every file; and what a file holds, it keeps.        *)

Names(f) == {f[k].n : k \in DOMAIN f}

Ascends(f) == \A j, k \in DOMAIN f : j < k => f[j].n < f[k].n

UpTo(f, p) == \A k \in DOMAIN f : f[k].n \in Nat /\ f[k].n <= p

InFile(m, f) == \E j \in DOMAIN f : f[j] = m

RecordInv ==
    /\ \A id \in DOMAIN files : Ascends(files[id]) /\ UpTo(files[id], produced)
    /\ \A a, b \in DOMAIN files : a # b => Names(files[a]) \cap Names(files[b]) = {}
    /\ \A k \in DOMAIN msgs : ~IsSummary(msgs[k]) =>
          \E id \in DOMAIN files : InFile(msgs[k], files[id])

LEMMA JoinedRecord ==
    ASSUME produced \in Nat, NEW g \in Seq(Messages), NEW new \in Seq(Messages),
           Ascends(g), UpTo(g, produced), Fresh(new)
    PROVE  /\ Ascends(g \o new) /\ UpTo(g \o new, produced + Len(new))
           /\ \A x \in Names(g \o new) : x \in Names(g) \/ x > produced
           /\ \A m : InFile(m, g) \/ InFile(m, new) => InFile(m, g \o new)
<1> DEFINE M == g \o new
           L == Len(g)
           E == Len(new)
<1>0. /\ L \in Nat /\ E \in Nat
      /\ DOMAIN g = 1..L /\ DOMAIN new = 1..E /\ DOMAIN M = 1..(L + E)
      /\ \A k \in 1..L : M[k] = g[k]
      /\ \A k \in 1..E : M[L + k] = new[k]
  BY JoinedFacts
<1>1. \A k \in 1..E : new[k].n = produced + k
  BY <1>0 DEF Fresh
<1>2. \A k \in 1..L : g[k].n \in Nat /\ g[k].n <= produced
  BY <1>0 DEF UpTo
<1> HIDE DEF M, L, E
<1>3. ASSUME NEW k \in DOMAIN M
      PROVE  \/ k \in 1..L /\ M[k] = g[k]
             \/ k > L /\ k - L \in 1..E /\ M[k] = new[k - L]
  <2>1. CASE k <= L
    BY <1>0, <2>1
  <2>2. CASE k > L
    <3>1. k - L \in 1..E /\ k = L + (k - L)
      BY <1>0, <2>2
    <3>2. M[k] = new[k - L]
      BY <1>0, <3>1
    <3> QED
      BY <2>2, <3>1, <3>2
  <2> QED
    BY <1>0, <2>1, <2>2
<1>4. ASSUME NEW k \in DOMAIN M
      PROVE  \/ k \in 1..L /\ M[k] = g[k] /\ M[k].n \in Nat /\ M[k].n <= produced
             \/ k > L /\ k \in Nat /\ M[k].n = produced + (k - L) /\ k - L \in 1..E
  <2>1. CASE k \in 1..L /\ M[k] = g[k]
    BY <1>2, <2>1
  <2>2. CASE k > L /\ k - L \in 1..E /\ M[k] = new[k - L]
    <3>1. M[k].n = produced + (k - L)
      BY <1>1, <2>2
    <3>2. k \in Nat
      BY <1>0
    <3> QED
      BY <2>2, <3>1, <3>2
  <2> QED
    BY <1>3, <2>1, <2>2
<1>5. Ascends(M)
  <2> SUFFICES ASSUME NEW j \in DOMAIN M, NEW k \in DOMAIN M, j < k PROVE M[j].n < M[k].n
    BY DEF Ascends
  <2>0. j \in Nat /\ k \in Nat
    BY <1>0
  <2>1. CASE k \in 1..L /\ M[k] = g[k]
    <3>1. j \in 1..L
      BY <1>0, <2>0, <2>1
    <3> QED
      BY <1>0, <2>1, <3>1 DEF Ascends
  <2>2. CASE k > L /\ M[k].n = produced + (k - L) /\ k - L \in 1..E
    <3>1. CASE M[j].n \in Nat /\ M[j].n <= produced
      <4> DEFINE a == M[j].n
                 b == M[k].n
      <4>1. a \in Nat /\ a <= produced /\ b = produced + (k - L) /\ k > L
        BY <2>2, <3>1
      <4> HIDE DEF a, b
      <4>2. a < b
        BY <1>0, <2>0, <4>1
      <4> QED
        BY <4>2 DEF a, b
    <3>2. CASE j > L /\ M[j].n = produced + (j - L)
      <4>1. produced + (j - L) < produced + (k - L)
        BY <1>0, <2>0
      <4> QED
        BY <2>2, <3>2, <4>1
    <3> QED
      BY <1>4, <3>1, <3>2
  <2> QED
    BY <1>4, <2>1, <2>2
<1>6. UpTo(M, produced + E)
  <2> SUFFICES ASSUME NEW k \in DOMAIN M PROVE M[k].n \in Nat /\ M[k].n <= produced + E
    BY DEF UpTo
  <2> DEFINE a == M[k].n
  <2>1. \/ a \in Nat /\ a <= produced
        \/ a = produced + (k - L) /\ k - L \in 1..E
    BY <1>4
  <2> HIDE DEF a
  <2>2. a \in Nat /\ a <= produced + E
    BY <1>0, <2>1
  <2> QED
    BY <2>2 DEF a
<1>7. ASSUME NEW x \in Names(M) PROVE x \in Names(g) \/ x > produced
  <2>1. PICK k \in DOMAIN M : x = M[k].n
    BY DEF Names
  <2>2. CASE k \in 1..L /\ M[k] = g[k]
    BY <1>0, <2>1, <2>2 DEF Names
  <2>3. CASE M[k].n = produced + (k - L) /\ k - L \in 1..E
    <3>1. x = produced + (k - L) /\ k - L \in 1..E
      BY <2>1, <2>3
    <3> QED
      BY <1>0, <3>1
  <2> QED
    BY <1>4, <2>2, <2>3
<1>8. ASSUME NEW m, InFile(m, g) \/ InFile(m, new) PROVE InFile(m, M)
  <2>1. CASE InFile(m, g)
    <3>1. PICK j \in 1..L : g[j] = m
      BY <1>0, <2>1 DEF InFile
    <3>2. j \in DOMAIN M /\ M[j] = m
      BY <1>0, <3>1
    <3> QED
      BY <3>2 DEF InFile
  <2>2. CASE InFile(m, new)
    <3>1. PICK j \in 1..E : new[j] = m
      BY <1>0, <2>2 DEF InFile
    <3>2. L + j \in DOMAIN M /\ M[L + j] = m
      BY <1>0, <3>1
    <3> QED
      BY <3>2 DEF InFile
  <2> QED
    BY <1>8, <2>1, <2>2
<1> QED
  BY <1>5, <1>6, <1>7, <1>8 DEF M, E
LEMMA UpToGrows ==
    ASSUME NEW f, NEW p \in Nat, NEW q \in Nat, p <= q, UpTo(f, p)
    PROVE  UpTo(f, q)
<1> SUFFICES ASSUME NEW k \in DOMAIN f PROVE f[k].n \in Nat /\ f[k].n <= q
  BY DEF UpTo
<1> DEFINE a == f[k].n
<1>1. a \in Nat /\ a <= p
  BY DEF UpTo
<1> HIDE DEF a
<1>2. a \in Nat /\ a <= q
  BY <1>1
<1> QED
  BY <1>2 DEF a

LEMMA SaysRecorded ==
    ASSUME TypeOK, RecordInv, NEW new \in Seq(Messages), Says(new)
    PROVE  RecordInv'
<1>1. /\ msgs \in Seq(Messages) /\ files \in Seq(Seq(Messages)) /\ produced \in Nat
      /\ rec \in 0..Len(files)
  BY DEF TypeOK
<1>2. /\ Fresh(new) /\ msgs' = msgs \o new /\ Record(new) /\ produced' = produced + Len(new)
  BY DEF Says
<1>3. CASE new = <<>>
  <2>1. msgs' = msgs /\ produced' = produced /\ files' = files
    <3>1. Len(<<>>) = 0 /\ msgs \o <<>> = msgs
      BY <1>1
    <3> QED
      BY <1>1, <1>2, <1>3, <3>1 DEF Record, diskVars
  <2> QED
    BY <2>1 DEF RecordInv
<1>4. CASE new # <<>>
  <2>1. /\ \A id \in DOMAIN files' : id # rec' => id \in DOMAIN files /\ files'[id] = files[id]
        /\ \E g \in Seq(Messages) :
               /\ files'[rec'] = g \o new
               /\ g = <<>> \/ (rec' \in DOMAIN files /\ g = files[rec'])
        /\ rec' \in DOMAIN files => files'[rec'] = files[rec'] \o new
        /\ DOMAIN files = 1..Len(files) /\ DOMAIN files' = 1..Len(files')
        /\ Len(files) \in Nat /\ Len(files') \in Nat /\ Len(files) <= Len(files')
        /\ rec' \in 1..Len(files')
    BY <1>1, <1>2, <1>4, RecordFacts
  <2>2. PICK g \in Seq(Messages) :
               /\ files'[rec'] = g \o new
               /\ g = <<>> \/ (rec' \in DOMAIN files /\ g = files[rec'])
    BY <2>1
  <2>3. DOMAIN files \subseteq DOMAIN files' /\ rec' \in DOMAIN files'
    BY <2>1
  <2>4. Len(new) \in Nat /\ produced' \in Nat /\ produced <= produced'
    <3>1. Len(new) \in Nat
      OBVIOUS
    <3> QED
      BY <1>1, <1>2, <3>1
  <2>5. /\ Ascends(g) /\ UpTo(g, produced)
        /\ \A id \in DOMAIN files' : id # rec' => Names(g) \cap Names(files[id]) = {}
    <3>1. CASE g = <<>>
      <4>1. \A x : x \notin DOMAIN <<>>
        OBVIOUS
      <4> QED
        BY <3>1, <4>1 DEF Ascends, UpTo, Names
    <3>2. CASE rec' \in DOMAIN files /\ g = files[rec']
      BY <2>1, <3>2 DEF RecordInv
    <3> QED
      BY <2>2, <3>1, <3>2
  <2>6. /\ Ascends(g \o new) /\ UpTo(g \o new, produced')
        /\ \A x \in Names(g \o new) : x \in Names(g) \/ x > produced
        /\ \A m : InFile(m, g) \/ InFile(m, new) => InFile(m, g \o new)
    BY <1>1, <1>2, <2>5, JoinedRecord
  <2>7. ASSUME NEW id \in DOMAIN files', id # rec'
        PROVE  /\ id \in DOMAIN files /\ files'[id] = files[id]
               /\ Ascends(files[id]) /\ UpTo(files[id], produced)
               /\ Names(files'[rec']) \cap Names(files'[id]) = {}
    <3>1. id \in DOMAIN files /\ files'[id] = files[id]
      BY <2>1, <2>7
    <3>2. Ascends(files[id]) /\ UpTo(files[id], produced)
      BY <3>1 DEF RecordInv
    <3>3. \A x \in Names(files[id]) : x \in Nat /\ x <= produced
      BY <3>2 DEF UpTo, Names
    <3>4. ASSUME NEW x \in Names(g \o new), x \in Names(files[id]) PROVE FALSE
      <4>1. x \in Nat /\ x <= produced
        BY <3>3, <3>4
      <4>2. ~(x > produced)
        BY <1>1, <4>1
      <4> QED
        BY <2>5, <2>6, <2>7, <3>4, <4>2
    <3> QED
      BY <2>2, <3>1, <3>2, <3>4
  <2>8. \A id \in DOMAIN files' : Ascends(files'[id]) /\ UpTo(files'[id], produced')
    <3> SUFFICES ASSUME NEW id \in DOMAIN files'
                 PROVE  Ascends(files'[id]) /\ UpTo(files'[id], produced')
      OBVIOUS
    <3>1. CASE id = rec'
      BY <2>2, <2>6, <3>1
    <3>2. CASE id # rec'
      <4>1. files'[id] = files[id] /\ Ascends(files[id]) /\ UpTo(files[id], produced)
        BY <2>7, <3>2
      <4>2. UpTo(files[id], produced')
        BY <1>1, <2>4, <4>1, UpToGrows
      <4> QED
        BY <4>1, <4>2
    <3> QED
      BY <3>1, <3>2
  <2>9. \A a, b \in DOMAIN files' : a # b => Names(files'[a]) \cap Names(files'[b]) = {}
    <3> SUFFICES ASSUME NEW a \in DOMAIN files', NEW b \in DOMAIN files', a # b
                 PROVE  Names(files'[a]) \cap Names(files'[b]) = {}
      OBVIOUS
    <3>1. CASE a = rec'
      BY <2>7, <3>1
    <3>2. CASE b = rec'
      BY <2>7, <3>2
    <3>3. CASE a # rec' /\ b # rec'
      <4>1. a \in DOMAIN files /\ files'[a] = files[a] /\ b \in DOMAIN files /\ files'[b] = files[b]
        BY <2>7, <3>3
      <4> QED
        BY <4>1 DEF RecordInv
    <3> QED
      BY <3>1, <3>2, <3>3
  <2>10. ASSUME NEW m, NEW id \in DOMAIN files, InFile(m, files[id])
         PROVE  \E i \in DOMAIN files' : InFile(m, files'[i])
    <3>1. CASE id = rec'
      <4>1. files'[id] = files[id] \o new /\ files[id] \in Seq(Messages)
            /\ Ascends(files[id]) /\ UpTo(files[id], produced)
        <5>1. \A j \in DOMAIN files : files[j] \in Seq(Messages)
          BY <1>1, MemberFacts, Zenon
        <5> QED
          BY <2>1, <3>1, <5>1 DEF RecordInv
      <4>2. InFile(m, files[id] \o new)
        BY <1>1, <1>2, <2>10, <4>1, JoinedRecord
      <4> QED
        BY <2>3, <4>1, <4>2
    <3>2. CASE id # rec'
      BY <2>3, <2>7, <2>10, <3>2
    <3> QED
      BY <3>1, <3>2
  <2>11. ASSUME NEW k \in DOMAIN msgs', ~IsSummary(msgs'[k])
         PROVE  \E id \in DOMAIN files' : InFile(msgs'[k], files'[id])
    <3> DEFINE M == msgs \o new
               L == Len(msgs)
               E == Len(new)
    <3>0. /\ L \in Nat /\ E \in Nat
          /\ DOMAIN msgs = 1..L /\ DOMAIN new = 1..E /\ DOMAIN M = 1..(L + E)
          /\ \A i \in 1..L : M[i] = msgs[i]
          /\ \A i \in 1..E : M[L + i] = new[i]
      BY <1>1, JoinedFacts
    <3>1. msgs' = M
      BY <1>2
    <3> HIDE DEF M, L, E
    <3>2. CASE k <= L
      <4>1. k \in DOMAIN msgs /\ msgs'[k] = msgs[k]
        BY <2>11, <3>0, <3>1, <3>2
      <4>2. PICK id \in DOMAIN files : InFile(msgs[k], files[id])
        BY <2>11, <4>1 DEF RecordInv
      <4> QED
        BY <2>10, <4>1, <4>2
    <3>3. CASE k > L
      <4>1. k - L \in 1..E /\ k = L + (k - L)
        BY <2>11, <3>0, <3>1, <3>3
      <4>2. msgs'[k] = new[k - L] /\ k - L \in DOMAIN new
        BY <3>0, <3>1, <4>1
      <4>3. InFile(msgs'[k], new)
        BY <4>2 DEF InFile
      <4>4. InFile(msgs'[k], files'[rec'])
        BY <2>2, <2>6, <4>3
      <4> QED
        BY <2>3, <4>4
    <3>4. k \in Nat
      BY <2>11, <3>0, <3>1
    <3> QED
      BY <3>0, <3>2, <3>3, <3>4
  <2> QED
    BY <2>8, <2>9, <2>11 DEF RecordInv
<1> QED
  BY <1>3, <1>4
(* What leaves the files alone needs one thing: each message of the history   *)
(* that is no summary was in it before, or is in a file.                     *)
LEMMA NothingRecorded ==
    ASSUME TypeOK, RecordInv, files' = files, produced' \in Nat, produced <= produced',
           \A k \in DOMAIN msgs' : ~IsSummary(msgs'[k]) =>
              \/ \E j \in DOMAIN msgs : msgs'[k] = msgs[j]
              \/ \E id \in DOMAIN files : InFile(msgs'[k], files[id])
    PROVE  RecordInv'
<1>1. \A id \in DOMAIN files' : Ascends(files'[id]) /\ UpTo(files'[id], produced')
  <2> SUFFICES ASSUME NEW id \in DOMAIN files
               PROVE  Ascends(files[id]) /\ UpTo(files[id], produced')
    OBVIOUS
  <2>1. Ascends(files[id]) /\ UpTo(files[id], produced) /\ produced \in Nat
    BY DEF RecordInv, TypeOK
  <2> QED
    BY <2>1, UpToGrows
<1>2. \A a, b \in DOMAIN files' : a # b => Names(files'[a]) \cap Names(files'[b]) = {}
  BY DEF RecordInv
<1>3. ASSUME NEW k \in DOMAIN msgs', ~IsSummary(msgs'[k])
      PROVE  \E id \in DOMAIN files' : InFile(msgs'[k], files'[id])
  <2>1. CASE \E j \in DOMAIN msgs : msgs'[k] = msgs[j]
    BY <1>3, <2>1 DEF RecordInv
  <2>2. CASE \E id \in DOMAIN files : InFile(msgs'[k], files[id])
    BY <2>2
  <2> QED
    BY <1>3, <2>1, <2>2
<1> QED
  BY <1>1, <1>2, <1>3 DEF RecordInv

LEMMA RecallsRecorded ==
    ASSUME TypeOK, RecordInv, Recalls
    PROVE  RecordInv'
<1>1. msgs \in Seq(Messages) /\ produced \in Nat /\ files' = files /\ produced' = produced
  BY DEF TypeOK, Recalls
<1>2. produced' \in Nat /\ produced <= produced'
  BY <1>1
<1>3. ASSUME NEW k \in DOMAIN msgs'
      PROVE  \/ \E j \in DOMAIN msgs : msgs'[k] = msgs[j]
             \/ \E id \in DOMAIN files : InFile(msgs'[k], files[id])
  <2>1. CASE msgs' = msgs
    BY <1>3, <2>1
  <2>2. CASE msgs # <<>> /\ msgs' = SubSeq(msgs, 1, Len(msgs) - 1)
    <3>1. /\ Len(msgs) \in Nat
          /\ DOMAIN SubSeq(msgs, 1, Len(msgs) - 1) = 1..(Len(msgs) - 1)
          /\ \A i \in 1..(Len(msgs) - 1) : SubSeq(msgs, 1, Len(msgs) - 1)[i] = msgs[i]
      BY <1>1, <2>2, ShorterFacts
    <3>2. k \in 1..(Len(msgs) - 1) /\ msgs'[k] = msgs[k]
      BY <1>3, <2>2, <3>1
    <3>3. k \in DOMAIN msgs
      BY <1>1, <3>1, <3>2
    <3> QED
      BY <3>2, <3>3
  <2>3. CASE msgs' = <<>>
    <3>1. \A x : x \notin DOMAIN <<>>
      OBVIOUS
    <3> QED
      BY <1>3, <2>3, <3>1
  <2>4. CASE \E id \in DOMAIN files : msgs' = files[id]
    BY <1>3, <2>4 DEF InFile
  <2> QED
    BY <2>1, <2>2, <2>3, <2>4 DEF Recalls
<1> QED
  BY <1>1, <1>2, <1>3, NothingRecorded

LEMMA SummaryUnrecorded ==
    ASSUME TypeOK, RecordInv, NEW p \in SUBSET Nat, Summarises(p)
    PROVE  RecordInv'
<1>1. msgs \in Seq(Messages) /\ produced \in Nat
  BY DEF TypeOK
<1>2. produced + 1 \in Nat /\ produced <= produced + 1
  BY <1>1
<1>3. /\ Summary(produced + 1, p) \in Messages
      /\ Summary(produced + 1, p).replaces = p
  BY <1>2, SummaryFacts
<1> DEFINE s == Summary(produced + 1, p)
<1>4. msgs' = Append(msgs, s) /\ produced' = produced + 1 /\ files' = files /\ p # {}
  BY DEF Summarises
<1>5. s \in Messages /\ IsSummary(s)
  BY <1>3, <1>4 DEF IsSummary
<1> HIDE DEF s
<1>6. /\ DOMAIN Append(msgs, s) = 1..(Len(msgs) + 1) /\ Len(msgs) \in Nat
      /\ Append(msgs, s)[Len(msgs) + 1] = s
      /\ \A k \in 1..Len(msgs) : Append(msgs, s)[k] = msgs[k]
  BY <1>1, <1>5, LongerFacts
<1>7. ASSUME NEW k \in DOMAIN msgs', ~IsSummary(msgs'[k])
      PROVE  \E j \in DOMAIN msgs : msgs'[k] = msgs[j]
  <2>1. k # Len(msgs) + 1
    BY <1>4, <1>5, <1>6, <1>7
  <2>2. k \in 1..Len(msgs)
    BY <1>4, <1>6, <2>1
  <2>3. k \in DOMAIN msgs /\ msgs'[k] = msgs[k]
    BY <1>1, <1>4, <1>6, <2>2
  <2> QED
    BY <2>3
<1> QED
  BY <1>2, <1>4, <1>7, NothingRecorded

LEMMA RecordKept ==
    ASSUME TypeOK, RecordInv, StepKinds
    PROVE  RecordInv'
<1>1. msgs \in Seq(Messages) /\ produced \in Nat
  BY DEF TypeOK
<1>2. PlanCompact(msgs) \subseteq DOMAIN msgs /\ DOMAIN msgs = 1..Len(msgs)
  BY <1>1, PlanInHistory
<1>3. CASE Summarises(PlanCompact(msgs))
  <2>1. PlanCompact(msgs) \in SUBSET Nat
    BY <1>2
  <2> QED
    BY <1>3, <2>1, SummaryUnrecorded
<1>4. CASE \E k \in DOMAIN msgs : Summarises(1..k)
  <2>1. \A k : 1..k \in SUBSET Nat
    OBVIOUS
  <2> QED
    BY <1>4, <2>1, SummaryUnrecorded
<1>5. CASE Plans \/ Stays
  BY <1>5 DEF Plans, Stays, RecordInv
<1> QED
  BY <1>3, <1>4, <1>5, SaysRecorded, RecallsRecorded DEF StepKinds

(* RecordedOnce: a message that was said is in one file, once, in the order   *)
(* things were said, over any mixture of retries, resumes and restarts.       *)
THEOREM AlwaysRecordedOnce == Spec => []RecordedOnce
<1>1. Init => PlanInv /\ RecordInv
  <2> SUFFICES ASSUME Init PROVE PlanInv /\ RecordInv
    OBVIOUS
  <2>1. \A x : x \notin DOMAIN <<>>
    OBVIOUS
  <2>2. files = <<>> /\ msgs = <<>> /\ PlanInv
    BY DEF Init, PlanInv
  <2> QED
    BY <2>1, <2>2 DEF RecordInv
<1>2. TypeOK /\ PlanInv /\ RecordInv /\ [Next]_vars => PlanInv' /\ RecordInv'
  <2> SUFFICES ASSUME TypeOK, PlanInv, RecordInv, [Next]_vars PROVE PlanInv' /\ RecordInv'
    OBVIOUS
  <2>1. CASE UNCHANGED vars
    BY <2>1 DEF vars, PlanInv, RecordInv
  <2>2. CASE Next
    BY <2>2, KindsOfStep, HistoryTyped, RecordKept
  <2> QED
    BY <2>1, <2>2
<1>3. RecordInv => RecordedOnce
  BY DEF RecordInv, RecordedOnce, Ascends, Names, InFile
<1> QED
  BY <1>1, <1>2, <1>3, HistoryTypeCorrect, PTL DEF Spec

-----------------------------------------------------------------------------
(* The session files.  What reading, writing and removing them changes.    *)

\* A set of numbers has a least one.
LEMMA LeastOne ==
    ASSUME NEW T, T \subseteq Nat, T # {}
    PROVE  \E m \in T : \A k \in T : m <= k
<1>1. PICK m \in T : \A k \in T : <<k, m>> \notin OpToRel(<, Nat)
  BY NatLessThanWellFounded, WFMin
<1>2. \A k \in T : ~(k < m)
  BY <1>1 DEF OpToRel
<1> QED
  BY <1>2

LEMMA PathFacts ==
    /\ \A i \in Nat, j \in Nat : /\ Session(i) = Session(j) => i = j
                                 /\ Temp(i) = Temp(j) => i = j
                                 /\ Session(i) # Temp(j)
    /\ \A i \in Nat : /\ Session(i) \in Paths /\ Temp(i) \in Paths
                      /\ Session(i)[1] = "session" /\ Session(i)[2] = i
                      /\ Temp(i)[1] = "temp" /\ Temp(i)[2] = i
    /\ \A p \in Paths : p[2] \in Nat /\ p \in {Session(p[2]), Temp(p[2])}
BY DEF Session, Temp, Paths

LEMMA PutFacts ==
    ASSUME NEW p, NEW f \in Files, Put(p, f), clock \in Nat
    PROVE  /\ DOMAIN disk' = DOMAIN disk \cup {p}
           /\ \A q \in DOMAIN disk : q # p => disk'[q] = disk[q]
           /\ disk'[p] \in Files /\ disk'[p] = [f EXCEPT !.time = clock + 1]
           /\ disk'[p].id = f.id /\ disk'[p].whole = f.whole /\ disk'[p].named = f.named
           /\ disk'[p].messages = f.messages /\ disk'[p].missions = f.missions
           /\ disk'[p].torn = f.torn /\ disk'[p].time = clock + 1
           /\ clock' = clock + 1
<1>1. /\ DOMAIN disk' = DOMAIN disk \cup {p}
      /\ \A q \in DOMAIN disk : q # p => disk'[q] = disk[q]
      /\ disk'[p] = [f EXCEPT !.time = clock + 1] /\ clock' = clock + 1
  BY DEF Put
<1>2. clock + 1 \in Nat
  OBVIOUS
<1> QED
  BY <1>1, <1>2 DEF Files

LEMMA RemoveFacts ==
    ASSUME NEW p, Remove(p)
    PROVE  /\ DOMAIN disk' = DOMAIN disk \ {p}
           /\ \A q \in DOMAIN disk : q # p => disk'[q] = disk[q]
           /\ clock' = clock
BY DEF Remove

LEMMA HeadedFacts ==
    ASSUME NEW id \in Nat, NEW named \in BOOLEAN
    PROVE  /\ Headed(id, named) \in Files /\ Scrap(id) \in Files
           /\ Headed(id, named).id = id /\ Headed(id, named).whole /\ Headed(id, named).named = named
           /\ Headed(id, named).messages = {} /\ Headed(id, named).missions = {} /\ ~Headed(id, named).torn
           /\ Scrap(id).id = id /\ ~Scrap(id).whole /\ Scrap(id).torn
<1>1. ASSUME NEW i \in Nat, NEW n \in BOOLEAN
      PROVE  /\ Headed(i, n) \in Files
             /\ Headed(i, n).id = i /\ Headed(i, n).whole /\ Headed(i, n).named = n
             /\ Headed(i, n).messages = {} /\ Headed(i, n).missions = {} /\ ~Headed(i, n).torn
  BY DEF Headed, Files
<1>2. ASSUME NEW f \in Files
      PROVE  LET g == [f EXCEPT !.whole = FALSE, !.torn = TRUE]
             IN  g \in Files /\ g.id = f.id /\ g.whole = FALSE /\ g.torn = TRUE
  BY DEF Files
<1>3. Headed(id, FALSE) \in Files /\ Headed(id, FALSE).id = id
  BY <1>1
<1>4. Scrap(id) \in Files /\ Scrap(id).id = id /\ ~Scrap(id).whole /\ Scrap(id).torn
  BY <1>2, <1>3 DEF Scrap
<1> QED
  BY <1>1, <1>4

LEMMA WrittenFacts ==
    ASSUME NEW f \in Files, NEW kind \in {"messages", "missions"}, NEW n \in Nat
    PROVE  /\ Written(f, kind, n) \in Files
           /\ Written(f, kind, n).id = f.id /\ Written(f, kind, n).whole = f.whole
           /\ Written(f, kind, n).named = f.named /\ ~Written(f, kind, n).torn
           /\ Written(f, kind, n).messages \cup Written(f, kind, n).missions =
                  f.messages \cup f.missions \cup (IF f.torn THEN {} ELSE {n})
<1>1. CASE kind = "messages"
  BY <1>1 DEF Written, Files
<1>2. CASE kind = "missions"
  BY <1>2 DEF Written, Files
<1> QED
  BY <1>1, <1>2

LEMMA RewrittenFacts ==
    ASSUME NEW f \in Files
    PROVE  /\ Rewritten(f) \in Files /\ [f EXCEPT !.torn = TRUE] \in Files
           /\ Rewritten(f).id = f.id /\ Rewritten(f).whole = f.whole /\ Rewritten(f).named
           /\ Rewritten(f).messages = f.messages /\ Rewritten(f).missions = f.missions
           /\ ~Rewritten(f).torn
BY DEF Rewritten, Files

-----------------------------------------------------------------------------
(* What holds whoever writes beside. A session's file carries its id; times *)
(* tell files apart; a temporary file under way has its session's header;   *)
(* what was recorded or titled is in a file that loads.                     *)

FilesInv ==
    /\ \A id \in Nat : Exists(id) => /\ id \in 1..sessions
                                     /\ disk[Session(id)].id \in {0, id}
                                     /\ disk[Session(id)].whole => disk[Session(id)].id = id
    /\ \A n \in Nat : Temp(n) \in DOMAIN disk => n \in 1..names
    /\ \A p \in DOMAIN disk : disk[p].time <= clock
    /\ \A p, q \in DOMAIN disk : disk[p].time = disk[q].time => p = q

Renaming(r) ==
    pc[r] = "rename" => LET t == Temp(temp[r])
                        IN  /\ t \in DOMAIN disk /\ disk[t].whole /\ disk[t].named
                            /\ disk[t].id = conv[r]

RecorderInv(r) ==
    /\ conv[r] <= sessions
    /\ conv[r] # 0 /\ Exists(conv[r]) => disk[Session(conv[r])].whole
    /\ pc[r] \in {"append", "turn", "list", "rename"} => conv[r] # 0
    /\ pc[r] \in {"list", "delete"} => KeepLast > 0
    /\ pc[r] # "delete" => victims[r] = {}
    /\ r \notin bound.recorders => pc[r] = "off"
    /\ Renaming(r)

OwnTemp == \A r, q \in Recorders : pc[r] = "rename" /\ pc[q] = "rename" /\ temp[r] = temp[q] => r = q

ToldInv ==
    /\ IsFiniteSet(acked) /\ acked \subseteq (1..sessions) \X (1..entries)
    /\ titled \subseteq 1..sessions
    /\ ConversationLoads /\ NamePersisted

StoreInv ==
    /\ StoreTypeOK /\ FilesInv /\ OwnTemp /\ ToldInv
    /\ \A r \in Recorders : RecorderInv(r)

LEMMA BoundTypes ==
    ASSUME StoreTypeOK
    PROVE  bound.recorders \subseteq Recorders /\ {bound.entries, bound.names, bound.faults} \subseteq Nat
BY LimitAssumption DEF StoreTypeOK

\* Of some files one was written last, and one first.
LEMMA Youngest ==
    ASSUME StoreTypeOK, FilesInv, NEW T, T \subseteq DOMAIN disk, T # {}
    PROVE  \E p \in T : \A q \in T : disk[q].time <= disk[p].time
<1> DEFINE Ages == {clock - disk[p].time : p \in T}
<1>1. clock \in Nat /\ \A p \in T : disk[p].time \in Nat /\ disk[p].time <= clock
  BY DEF StoreTypeOK, Files, FilesInv
<1>2. Ages \subseteq Nat /\ Ages # {}
  BY <1>1
<1>3. PICK m \in Ages : \A k \in Ages : m <= k
  <2> HIDE DEF Ages
  <2> QED
    BY <1>2, LeastOne
<1>4. PICK p \in T : m = clock - disk[p].time
  BY <1>3
<1>5. ASSUME NEW q \in T PROVE disk[q].time <= disk[p].time
  <2>1. m <= clock - disk[q].time
    BY <1>3
  <2> HIDE DEF Ages
  <2> QED
    BY <1>1, <1>4, <2>1
<1> QED
  BY <1>5

LEMMA Oldest ==
    ASSUME StoreTypeOK, NEW T, T \subseteq DOMAIN disk, T # {}
    PROVE  \E p \in T : \A q \in T : disk[p].time <= disk[q].time
<1> DEFINE Times == {disk[p].time : p \in T}
<1>1. Times \subseteq Nat /\ Times # {}
  BY DEF StoreTypeOK, Files
<1>2. PICK m \in Times : \A k \in Times : m <= k
  <2> HIDE DEF Times
  <2> QED
    BY <1>1, LeastOne
<1> QED
  BY <1>2

LEMMA LatestFacts ==
    ASSUME StoreTypeOK, FilesInv, List # {}
    PROVE  Latest \in List /\ Newer(Latest) = {}
<1>1. PICK p \in List : \A q \in List : disk[q].time <= disk[p].time
  <2>1. List \subseteq DOMAIN disk
    BY DEF List
  <2> QED
    BY <2>1, Youngest
<1>2. \A q \in List : disk[q].time \in Nat
  BY DEF List, StoreTypeOK, Files
<1>3. Newer(p) = {}
  BY <1>1, <1>2 DEF Newer
<1> QED
  BY <1>3 DEF Latest

LEMMA StoreTypesKept ==
    ASSUME StoreInv, [StoreNext]_storeVars
    PROVE  StoreTypeOK'
<1> USE DEF Go, PCs
<1>1. /\ StoreTypeOK /\ DOMAIN disk \subseteq Paths /\ IsFiniteSet(DOMAIN disk)
      /\ \A p \in DOMAIN disk : disk[p] \in Files
      /\ clock \in Nat /\ sessions \in Nat /\ entries \in Nat /\ names \in Nat /\ faults \in Nat
      /\ conv \in [Recorders -> Nat] /\ temp \in [Recorders -> Nat] /\ pending \in [Recorders -> BOOLEAN]
      /\ pc \in [Recorders -> PCs]
      /\ victims \in [Recorders -> SUBSET [id : Nat \ {0}, time : Nat]]
      /\ acked \subseteq Nat \X Nat /\ titled \subseteq Nat /\ bound \in Bounds
  BY DEF StoreInv, StoreTypeOK
<1>p. ASSUME NEW p \in Paths, NEW f \in Files, Put(p, f)
      PROVE  /\ DOMAIN disk' \subseteq Paths /\ IsFiniteSet(DOMAIN disk')
             /\ \A q \in DOMAIN disk' : disk'[q] \in Files
             /\ clock' \in Nat
  <2>1. /\ DOMAIN disk' = DOMAIN disk \cup {p} /\ clock' = clock + 1
        /\ \A q \in DOMAIN disk : q # p => disk'[q] = disk[q]
        /\ disk'[p] \in Files
    <3>1. clock \in Nat
      BY <1>1
    <3> QED
      BY <1>p, <3>1, PutFacts
  <2> QED
    BY <1>1, <2>1, FS_AddElement
<1>r. ASSUME NEW p, Remove(p)
      PROVE  /\ DOMAIN disk' \subseteq Paths /\ IsFiniteSet(DOMAIN disk')
             /\ \A q \in DOMAIN disk' : disk'[q] \in Files
             /\ clock' \in Nat
  <2>1. /\ DOMAIN disk' = DOMAIN disk \ {p} /\ clock' = clock
        /\ \A q \in DOMAIN disk : q # p => disk'[q] = disk[q]
    BY <1>r, RemoveFacts
  <2> QED
    BY <1>1, <2>1, FS_RemoveElement
<1>2. CASE UNCHANGED storeVars
  BY <1>1, <1>2 DEF storeVars, StoreTypeOK
<1>3. ASSUME NEW r \in Recorders, Acts(r), bound' = bound PROVE StoreTypeOK'
  <2>0. RecorderInv(r) /\ FilesInv
    BY DEF StoreInv
  <2>1. CASE Quit(r) \/ TurnWritten(r)
    BY <1>1, <1>3, <2>1 DEF Quit, TurnWritten, StoreTypeOK, dir, recorder
  <2>14. CASE Start(r)
    BY <1>1, <1>3, <2>14 DEF Start, StoreTypeOK, dir
  <2>13. CASE NamePending(r)
    BY <1>1, <1>3, <2>13 DEF NamePending, StoreTypeOK, dir
  <2>2. CASE Resume(r)
    <3>1. Latest \in List
      BY <1>1, <2>0, <2>2, LatestFacts DEF Resume
    <3>2. disk[Latest].id \in Nat
      BY <1>1, <3>1 DEF List, Files
    <3> QED
      BY <1>1, <1>3, <2>2, <3>2 DEF Resume, StoreTypeOK, dir
  <2>3. CASE New(r)
    <3>1. sessions' \in Nat /\ Session(sessions') \in Paths /\ Headed(sessions', FirstTitle(r)) \in Files
      BY <1>1, <2>3, HeadedFacts, PathFacts DEF New, FirstTitle
    <3>2. titled' \subseteq Nat /\ conv' \in [Recorders -> Nat]
      BY <1>1, <2>3, <3>1 DEF New
    <3> QED
      BY <1>1, <1>3, <1>p, <2>3, <3>1, <3>2 DEF New, StoreTypeOK
  <2>4. CASE NewTorn(r)
    <3>1. sessions' \in Nat /\ Session(sessions') \in Paths
      BY <1>1, <2>4, PathFacts DEF NewTorn
    <3>2. \A id \in {0, sessions'} : Scrap(id) \in Files
      BY <3>1, HeadedFacts
    <3>3. PICK id \in {0, sessions'} : Put(Session(sessions'), Scrap(id))
      BY <2>4 DEF NewTorn
    <3>4. faults' \in Nat /\ UNCHANGED <<recorder, entries, names, acked, titled>> /\ pc' \in [Recorders -> PCs]
      BY <1>1, <2>4 DEF NewTorn
    <3> QED
      BY <1>1, <1>3, <1>p, <3>1, <3>2, <3>3, <3>4 DEF StoreTypeOK, recorder
  <2>5. CASE AppendLine(r)
    <3>0. entries' \in Nat /\ UNCHANGED <<recorder, sessions, names, faults, titled>>
      BY <1>1, <2>5 DEF AppendLine
    <3>1. CASE Session(conv[r]) \notin DOMAIN disk
      BY <1>1, <1>3, <2>5, <3>0, <3>1 DEF AppendLine, StoreTypeOK, dir, recorder
    <3>2. CASE Session(conv[r]) \in DOMAIN disk
      <4>1. PICK kind \in {"messages", "missions"} :
                Put(Session(conv[r]), Written(disk[Session(conv[r])], kind, entries'))
        BY <2>5, <3>2 DEF AppendLine
      <4>2. Written(disk[Session(conv[r])], kind, entries') \in Files /\ Session(conv[r]) \in Paths
        BY <1>1, <3>0, <3>2, WrittenFacts
      <4>3. acked' \subseteq Nat \X Nat
        BY <1>1, <2>5, <3>0, <3>2 DEF AppendLine
      <4>4. pc' \in [Recorders -> PCs]
        BY <1>1, <2>5, <3>2 DEF AppendLine, Appended
      <4> QED
        BY <1>1, <1>3, <1>p, <3>0, <4>1, <4>2, <4>3, <4>4 DEF StoreTypeOK, recorder
    <3> QED
      BY <3>1, <3>2
  <2>6. CASE AppendTorn(r)
    <3>1. [disk[Session(conv[r])] EXCEPT !.torn = TRUE] \in Files /\ Session(conv[r]) \in Paths
      BY <1>1, <2>6, RewrittenFacts DEF AppendTorn
    <3>2. entries' \in Nat /\ faults' \in Nat /\ pc' \in [Recorders -> PCs]
          /\ UNCHANGED <<recorder, sessions, names, acked, titled>>
      BY <1>1, <2>6 DEF AppendTorn
    <3> QED
      BY <1>1, <1>3, <1>p, <2>6, <3>1, <3>2 DEF AppendTorn, StoreTypeOK, recorder
  <2>7. CASE RotateList(r)
    <3>1. \A p \in Surplus : [id |-> disk[p].id, time |-> disk[p].time] \in [id : Nat \ {0}, time : Nat]
      BY <1>1 DEF Surplus, List, Files
    <3>2. victims' \in [Recorders -> SUBSET [id : Nat \ {0}, time : Nat]]
      BY <1>1, <2>7, <3>1 DEF RotateList
    <3> QED
      BY <1>1, <1>3, <2>7, <3>2 DEF RotateList, StoreTypeOK, dir
  <2>8. CASE Delete(r)
    <3>1. PICK v \in victims[r] : Remove(Session(v.id)) /\ victims' = [victims EXCEPT ![r] = @ \ {v}]
      BY <2>8 DEF Delete
    <3>2. pc' \in [Recorders -> PCs] /\ UNCHANGED <<conv, pending, temp, sessions, entries, names, faults, acked, titled>>
      BY <1>1, <2>8 DEF Delete
    <3> QED
      BY <1>1, <1>3, <1>r, <3>1, <3>2 DEF StoreTypeOK
  <2>9. CASE NameWrite(r)
    <3>0. disk[Session(conv[r])] \in Files /\ names' \in Nat
      BY <1>1, <2>9 DEF NameWrite, Loads
    <3>1. Temp(names') \in Paths /\ Rewritten(disk[Session(conv[r])]) \in Files
      BY <3>0, PathFacts, RewrittenFacts
    <3> QED
      BY <1>1, <1>3, <1>p, <2>9, <3>0, <3>1 DEF NameWrite, StoreTypeOK
  <2>10. CASE NameRename(r)
    <3>1. Temp(temp[r]) \in DOMAIN disk /\ Session(conv[r]) \in Paths
      BY <1>1, <2>0, <2>10, PathFacts DEF NameRename, RecorderInv, Renaming
    <3>2. disk' = [p \in (DOMAIN disk \cup {Session(conv[r])}) \ {Temp(temp[r])} |->
                      IF p = Session(conv[r]) THEN disk[Temp(temp[r])] ELSE disk[p]]
      BY <2>10 DEF NameRename
    <3>3. IsFiniteSet(DOMAIN disk \cup {Session(conv[r])})
      BY <1>1, FS_AddElement
    <3>4. IsFiniteSet(DOMAIN disk') /\ DOMAIN disk' \subseteq Paths
      BY <1>1, <3>1, <3>2, <3>3, FS_RemoveElement
    <3>5. \A p \in DOMAIN disk' : disk'[p] \in Files
      BY <1>1, <3>1, <3>2
    <3>6. titled' \subseteq Nat
      BY <1>1, <2>10 DEF NameRename
    <3> QED
      BY <1>1, <1>3, <2>10, <3>4, <3>5, <3>6 DEF NameRename, StoreTypeOK
  <2>11. CASE NameFails(r)
    BY <1>1, <1>3, <1>r, <2>11 DEF NameFails, StoreTypeOK
  <2>12. CASE Die(r)
    <3>1. /\ faults' \in Nat /\ pc' \in [Recorders -> PCs] /\ temp' \in [Recorders -> Nat]
          /\ victims' \in [Recorders -> SUBSET [id : Nat \ {0}, time : Nat]]
          /\ UNCHANGED <<conv, pending, sessions, entries, names, acked, titled>>
      BY <1>1, <2>12 DEF Die
    <3>2. CASE pc[r] # "rename"
      BY <1>1, <1>3, <2>12, <3>1, <3>2 DEF Die, StoreTypeOK, dir
    <3>3. CASE pc[r] = "rename"
      <4>1. PICK f \in {Scrap(0), Scrap(conv[r]), disk[Temp(temp[r])]} : Put(Temp(temp[r]), f)
        BY <2>12, <3>3 DEF Die
      <4>2. Temp(temp[r]) \in DOMAIN disk
        BY <2>0, <3>3 DEF RecorderInv, Renaming
      <4>3. f \in Files /\ Temp(temp[r]) \in Paths
        BY <1>1, <4>2, HeadedFacts
      <4> QED
        BY <1>1, <1>3, <1>p, <3>1, <4>1, <4>3 DEF StoreTypeOK
    <3> QED
      BY <3>2, <3>3
  <2> QED
    BY <1>3, <2>1, <2>2, <2>3, <2>4, <2>5, <2>6, <2>7, <2>8, <2>9, <2>10, <2>11, <2>12, <2>13, <2>14 DEF Acts
<1>4. bound.recorders \subseteq Recorders
  BY <1>1, BoundTypes
<1> QED
  BY <1>2, <1>3, <1>4 DEF StoreNext

\* What a step of recorder r may do to the directory.
Rests == disk' = disk /\ clock' = clock /\ sessions' = sessions /\ names' = names
Creates(f) ==
    /\ Put(Session(sessions'), f) /\ sessions' = sessions + 1 /\ names' = names
    /\ f.id \in {0, sessions'} /\ (f.whole => f.id = sessions')
Extends(r, f) ==
    /\ Session(conv[r]) \in DOMAIN disk /\ Put(Session(conv[r]), f)
    /\ sessions' = sessions /\ names' = names /\ conv[r] # 0
    /\ LET d == disk[Session(conv[r])] IN f.id = d.id /\ f.whole = d.whole /\ f.named = d.named
Copies(r, f) ==
    /\ Session(conv[r]) \in DOMAIN disk /\ Put(Temp(names'), f)
    /\ sessions' = sessions /\ names' = names + 1
    /\ LET d == disk[Session(conv[r])]
       IN  /\ f.id = conv[r] /\ f.whole /\ f.named /\ ~f.torn
           /\ f.messages = d.messages /\ f.missions = d.missions
Cuts(r, f) ==
    /\ pc[r] = "rename" /\ Temp(temp[r]) \in DOMAIN disk /\ Put(Temp(temp[r]), f)
    /\ sessions' = sessions /\ names' = names
Drops(p) == Remove(p) /\ sessions' = sessions /\ names' = names
Moves(r) ==
    /\ Temp(temp[r]) \in DOMAIN disk
    /\ disk' = [p \in (DOMAIN disk \cup {Session(conv[r])}) \ {Temp(temp[r])} |->
                   IF p = Session(conv[r]) THEN disk[Temp(temp[r])] ELSE disk[p]]
    /\ clock' = clock /\ sessions' = sessions /\ names' = names

LEMMA AppendKinds ==
    ASSUME StoreInv, NEW r \in Recorders, MayAppend(r), Session(conv[r]) \in DOMAIN disk
    PROVE  /\ AppendLine(r) => \E kind \in {"messages", "missions"} :
                                  Extends(r, Written(disk[Session(conv[r])], kind, entries'))
           /\ AppendTorn(r) => Extends(r, [disk[Session(conv[r])] EXCEPT !.torn = TRUE])
<1>1. conv[r] # 0
  BY DEF MayAppend, StoreInv, RecorderInv
<1>2. disk[Session(conv[r])] \in Files /\ entries \in Nat
  BY DEF StoreInv, StoreTypeOK
<1>3. ASSUME AppendLine(r)
      PROVE  \E kind \in {"messages", "missions"} : Extends(r, Written(disk[Session(conv[r])], kind, entries'))
  <2>1. PICK kind \in {"messages", "missions"} : Put(Session(conv[r]), Written(disk[Session(conv[r])], kind, entries'))
    BY <1>3 DEF AppendLine
  <2>2. entries' \in Nat
    BY <1>2, <1>3 DEF AppendLine
  <2>3. LET f == Written(disk[Session(conv[r])], kind, entries')
            d == disk[Session(conv[r])]
        IN  f.id = d.id /\ f.whole = d.whole /\ f.named = d.named
    BY <1>2, <2>2, WrittenFacts
  <2> QED
    BY <1>1, <1>3, <2>1, <2>3 DEF AppendLine, Extends
<1>4. ASSUME AppendTorn(r) PROVE Extends(r, [disk[Session(conv[r])] EXCEPT !.torn = TRUE])
  <2>1. LET d == disk[Session(conv[r])]
            f == [d EXCEPT !.torn = TRUE]
        IN  f.id = d.id /\ f.whole = d.whole /\ f.named = d.named
    BY <1>2 DEF Files
  <2> QED
    BY <1>1, <1>4, <2>1 DEF AppendTorn, Extends
<1> QED
  BY <1>3, <1>4

LEMMA DirKinds ==
    ASSUME StoreInv, NEW r \in Recorders, Acts(r)
    PROVE  \/ Rests
           \/ \E f \in Files : Creates(f) \/ Extends(r, f) \/ Copies(r, f) \/ Cuts(r, f)
           \/ \E v \in victims[r] : Drops(Session(v.id))
           \/ pc[r] = "rename" /\ (Drops(Temp(temp[r])) \/ Moves(r))
<1>1. /\ \A p \in DOMAIN disk : disk[p] \in Files
      /\ sessions \in Nat /\ names \in Nat /\ entries \in Nat /\ conv[r] \in Nat /\ pending[r] \in BOOLEAN
  BY DEF StoreInv, StoreTypeOK
<1>2. RecorderInv(r) /\ Renaming(r)
  BY DEF StoreInv, RecorderInv
<1>3. CASE Start(r) \/ Resume(r) \/ Quit(r) \/ TurnWritten(r) \/ RotateList(r) \/ NamePending(r)
  BY <1>3 DEF Start, Resume, Quit, TurnWritten, RotateList, NamePending, dir, recorder, Rests
<1>4. CASE New(r)
  <2>1. sessions' \in Nat
    BY <1>1, <1>4 DEF New
  <2>2. LET f == Headed(sessions', FirstTitle(r)) IN f \in Files /\ f.id = sessions'
    BY <1>1, <2>1, HeadedFacts DEF FirstTitle
  <2>3. Creates(Headed(sessions', FirstTitle(r)))
    BY <1>4, <2>2 DEF New, Creates
  <2> QED
    BY <2>2, <2>3
<1>5. CASE NewTorn(r)
  <2>1. sessions' \in Nat
    BY <1>1, <1>5 DEF NewTorn
  <2>2. \A id \in {0, sessions'} : Scrap(id) \in Files /\ Scrap(id).id = id /\ ~Scrap(id).whole
    BY <2>1, HeadedFacts
  <2>3. PICK id \in {0, sessions'} : Put(Session(sessions'), Scrap(id))
    BY <1>5 DEF NewTorn
  <2>4. Creates(Scrap(id))
    BY <1>5, <2>2, <2>3 DEF NewTorn, Creates
  <2> QED
    BY <2>2, <2>3, <2>4
<1>6. CASE AppendLine(r) \/ AppendTorn(r)
  <2>1. CASE Session(conv[r]) \in DOMAIN disk
    <3>1. \A kind \in {"messages", "missions"} : Written(disk[Session(conv[r])], kind, entries') \in Files
      <4>1. entries' \in Nat
        BY <1>1, <1>6 DEF AppendLine, AppendTorn
      <4> QED
        BY <1>1, <2>1, <4>1, WrittenFacts
    <3>2. [disk[Session(conv[r])] EXCEPT !.torn = TRUE] \in Files
      BY <1>1, <2>1, RewrittenFacts
    <3>3. MayAppend(r)
      BY <1>6 DEF AppendLine, AppendTorn
    <3> QED
      BY <1>6, <2>1, <3>1, <3>2, <3>3, AppendKinds
  <2>2. CASE Session(conv[r]) \notin DOMAIN disk
    BY <1>6, <2>2 DEF AppendLine, AppendTorn, dir, Rests
  <2> QED
    BY <2>1, <2>2
<1>7. CASE Delete(r)
  BY <1>7 DEF Delete, Drops
<1>8. CASE NameWrite(r)
  <2>1. disk[Session(conv[r])] \in Files /\ Session(conv[r]) \in DOMAIN disk /\ disk[Session(conv[r])].whole
    BY <1>1, <1>8 DEF NameWrite, Loads
  <2>2. disk[Session(conv[r])].id = conv[r]
    BY <1>1, <2>1 DEF StoreInv, FilesInv, Exists
  <2>3. Copies(r, Rewritten(disk[Session(conv[r])])) /\ Rewritten(disk[Session(conv[r])]) \in Files
    BY <1>8, <2>1, <2>2, RewrittenFacts DEF NameWrite, Copies
  <2> QED
    BY <2>3
<1>9. CASE NameRename(r)
  BY <1>2, <1>9 DEF NameRename, Moves, Renaming
<1>10. CASE NameFails(r)
  BY <1>10 DEF NameFails, Drops
<1>11. CASE Die(r)
  <2>1. CASE pc[r] # "rename"
    BY <1>11, <2>1 DEF Die, dir, Rests
  <2>2. CASE pc[r] = "rename"
    <3>1. PICK f \in {Scrap(0), Scrap(conv[r]), disk[Temp(temp[r])]} : Put(Temp(temp[r]), f)
      BY <1>11, <2>2 DEF Die
    <3>2. f \in Files /\ Temp(temp[r]) \in DOMAIN disk
      BY <1>1, <1>2, <2>2, HeadedFacts DEF Renaming
    <3> QED
      BY <1>11, <2>2, <3>1, <3>2 DEF Die, Cuts
  <2> QED
    BY <2>1, <2>2
<1> QED
  BY <1>3, <1>4, <1>5, <1>6, <1>7, <1>8, <1>9, <1>10, <1>11 DEF Acts

LEMMA FilesKept ==
    ASSUME StoreInv, NEW r \in Recorders, Acts(r)
    PROVE  FilesInv'
<1>1. /\ \A p \in DOMAIN disk : disk[p] \in Files /\ disk[p].time \in Nat /\ p \in Paths
      /\ sessions \in Nat /\ names \in Nat /\ clock \in Nat /\ conv[r] \in Nat /\ temp[r] \in Nat
  BY DEF StoreInv, StoreTypeOK, Files
<1>2. /\ \A id \in Nat : Session(id) \in DOMAIN disk => /\ id \in 1..sessions
                                                        /\ disk[Session(id)].id \in {0, id}
                                                        /\ disk[Session(id)].whole => disk[Session(id)].id = id
      /\ \A n \in Nat : Temp(n) \in DOMAIN disk => n \in 1..names
      /\ \A p \in DOMAIN disk : disk[p].time <= clock
      /\ \A p, q \in DOMAIN disk : disk[p].time = disk[q].time => p = q
  BY DEF StoreInv, FilesInv, Exists
<1> DEFINE Named(d, s) == \A id \in Nat : Session(id) \in DOMAIN d =>
                              /\ id \in 1..s /\ d[Session(id)].id \in {0, id}
                              /\ d[Session(id)].whole => d[Session(id)].id = id
           Counted(d, n) == \A k \in Nat : Temp(k) \in DOMAIN d => k \in 1..n
           Timed(d, t) == /\ \A p \in DOMAIN d : d[p].time <= t
                          /\ \A p, q \in DOMAIN d : d[p].time = d[q].time => p = q
<1>g. SUFFICES Named(disk', sessions') /\ Counted(disk', names') /\ Timed(disk', clock')
  BY DEF FilesInv, Exists
<1>p. ASSUME NEW p \in Paths, NEW f \in Files, Put(p, f)
      PROVE  /\ DOMAIN disk' = DOMAIN disk \cup {p}
             /\ \A q \in DOMAIN disk : q # p => disk'[q] = disk[q]
             /\ disk'[p].id = f.id /\ disk'[p].whole = f.whole
             /\ Timed(disk', clock')
  <2>1. /\ DOMAIN disk' = DOMAIN disk \cup {p}
        /\ \A q \in DOMAIN disk : q # p => disk'[q] = disk[q]
        /\ disk'[p].id = f.id /\ disk'[p].whole = f.whole
        /\ disk'[p].time = clock + 1 /\ clock' = clock + 1
    <3>1. clock \in Nat
      BY <1>1
    <3> QED
      BY <1>p, <3>1, PutFacts
  <2>2. \A q \in DOMAIN disk' : q # p => q \in DOMAIN disk /\ disk'[q].time = disk[q].time
    BY <2>1
  <2>3. \A q \in DOMAIN disk' : disk'[q].time <= clock + 1 /\ (q # p => disk'[q].time <= clock)
    BY <1>1, <1>2, <2>1, <2>2
  <2>4. \A a, b \in DOMAIN disk' : disk'[a].time = disk'[b].time => a = b
    BY <1>1, <1>2, <2>1, <2>2, <2>3
  <2> QED
    BY <2>1, <2>3, <2>4
<1>d. ASSUME NEW p, Drops(p)
      PROVE  Named(disk', sessions') /\ Counted(disk', names') /\ Timed(disk', clock')
  <2>1. /\ DOMAIN disk' = DOMAIN disk \ {p} /\ clock' = clock /\ sessions' = sessions /\ names' = names
        /\ \A q \in DOMAIN disk : q # p => disk'[q] = disk[q]
    BY <1>d, RemoveFacts DEF Drops
  <2>2. \A q \in DOMAIN disk' : q \in DOMAIN disk /\ disk'[q] = disk[q]
    BY <2>1
  <2>3. Named(disk', sessions') /\ Counted(disk', names')
    BY <1>2, <2>1, <2>2
  <2>4. Timed(disk', clock')
    BY <1>2, <2>1, <2>2
  <2> QED
    BY <2>3, <2>4
<1>3. CASE Rests
  BY <1>2, <1>3 DEF Rests
<1>4. ASSUME NEW f \in Files, Creates(f)
      PROVE  Named(disk', sessions') /\ Counted(disk', names') /\ Timed(disk', clock')
  <2>1. sessions' = sessions + 1 /\ names' = names /\ Session(sessions') \in Paths
    BY <1>1, <1>4, PathFacts DEF Creates
  <2>2. /\ DOMAIN disk' = DOMAIN disk \cup {Session(sessions')}
        /\ \A q \in DOMAIN disk : q # Session(sessions') => disk'[q] = disk[q]
        /\ disk'[Session(sessions')].id = f.id /\ disk'[Session(sessions')].whole = f.whole
        /\ Timed(disk', clock')
    BY <1>4, <1>p, <2>1 DEF Creates
  <2>3. Named(disk', sessions')
    <3> TAKE id \in Nat
    <3> HAVE Session(id) \in DOMAIN disk'
    <3>1. CASE id = sessions'
      BY <1>1, <1>4, <2>1, <2>2, <3>1 DEF Creates
    <3>2. CASE id # sessions'
      <4>1. Session(id) # Session(sessions')
        BY <1>1, <2>1, <3>2, PathFacts
      <4> QED
        BY <1>1, <1>2, <2>1, <2>2, <4>1
    <3> QED
      BY <3>1, <3>2
  <2>4. Counted(disk', names')
    BY <1>1, <1>2, <2>1, <2>2, PathFacts
  <2> QED
    BY <2>2, <2>3, <2>4
<1>5. ASSUME NEW f \in Files, Extends(r, f)
      PROVE  Named(disk', sessions') /\ Counted(disk', names') /\ Timed(disk', clock')
  <2> DEFINE s == Session(conv[r])
  <2>1. sessions' = sessions /\ names' = names /\ s \in Paths /\ s \in DOMAIN disk
    BY <1>1, <1>5 DEF Extends
  <2>2. /\ DOMAIN disk' = DOMAIN disk \cup {s}
        /\ \A q \in DOMAIN disk : q # s => disk'[q] = disk[q]
        /\ disk'[s].id = f.id /\ disk'[s].whole = f.whole
        /\ Timed(disk', clock')
    BY <1>5, <1>p, <2>1 DEF Extends
  <2>3. f.id = disk[s].id /\ f.whole = disk[s].whole
    BY <1>5 DEF Extends
  <2>4. \A q \in DOMAIN disk : disk'[q].id = disk[q].id /\ disk'[q].whole = disk[q].whole
    BY <2>2, <2>3
  <2> HIDE DEF s
  <2>5. DOMAIN disk' = DOMAIN disk
    BY <2>1, <2>2
  <2>6. Named(disk', sessions')
    BY <1>2, <2>1, <2>4, <2>5
  <2> QED
    BY <1>2, <2>1, <2>2, <2>5, <2>6
<1>6. ASSUME NEW f \in Files, Copies(r, f)
      PROVE  Named(disk', sessions') /\ Counted(disk', names') /\ Timed(disk', clock')
  <2>1. sessions' = sessions /\ names' = names + 1 /\ names' \in Nat /\ Temp(names') \in Paths
    BY <1>1, <1>6, PathFacts DEF Copies
  <2>2. /\ DOMAIN disk' = DOMAIN disk \cup {Temp(names')}
        /\ \A q \in DOMAIN disk : q # Temp(names') => disk'[q] = disk[q]
        /\ Timed(disk', clock')
    BY <1>6, <1>p, <2>1 DEF Copies
  <2>3. Named(disk', sessions')
    <3>1. \A id \in Nat : Session(id) # Temp(names')
      BY <2>1, PathFacts
    <3> QED
      BY <1>2, <2>1, <2>2, <3>1
  <2>4. Counted(disk', names')
    <3>1. \A k \in Nat : Temp(k) = Temp(names') => k = names'
      BY <2>1, PathFacts
    <3> QED
      BY <1>1, <1>2, <2>1, <2>2, <3>1
  <2> QED
    BY <2>2, <2>3, <2>4
<1>7. ASSUME NEW f \in Files, Cuts(r, f)
      PROVE  Named(disk', sessions') /\ Counted(disk', names') /\ Timed(disk', clock')
  <2>1. sessions' = sessions /\ names' = names /\ Temp(temp[r]) \in Paths /\ Temp(temp[r]) \in DOMAIN disk
    BY <1>1, <1>7, PathFacts DEF Cuts
  <2>2. /\ DOMAIN disk' = DOMAIN disk \cup {Temp(temp[r])}
        /\ \A q \in DOMAIN disk : q # Temp(temp[r]) => disk'[q] = disk[q]
        /\ Timed(disk', clock')
    BY <1>7, <1>p, <2>1 DEF Cuts
  <2>3. Named(disk', sessions')
    <3>1. \A id \in Nat : Session(id) # Temp(temp[r])
      BY <1>1, PathFacts
    <3> QED
      BY <1>2, <2>1, <2>2, <3>1
  <2>4. Counted(disk', names')
    BY <1>2, <2>1, <2>2
  <2> QED
    BY <2>2, <2>3, <2>4
<1>8. ASSUME Moves(r), Renaming(r), pc[r] = "rename", conv[r] # 0, conv[r] <= sessions
      PROVE  Named(disk', sessions') /\ Counted(disk', names') /\ Timed(disk', clock')
  <2> DEFINE s == Session(conv[r])
             t == Temp(temp[r])
  <2>1. sessions' = sessions /\ names' = names /\ clock' = clock /\ t \in DOMAIN disk /\ s # t
    BY <1>1, <1>8, PathFacts DEF Moves
  <2>2. /\ DOMAIN disk' = (DOMAIN disk \cup {s}) \ {t} /\ disk'[s] = disk[t]
        /\ \A q \in DOMAIN disk' : q # s => q \in DOMAIN disk /\ q # t /\ disk'[q] = disk[q]
    BY <1>8, <2>1 DEF Moves
  <2>3. disk[t].id = conv[r] /\ disk[t].whole
    BY <1>8 DEF Renaming
  <2>4. Named(disk', sessions')
    <3> TAKE id \in Nat
    <3> HAVE Session(id) \in DOMAIN disk'
    <3>1. CASE id = conv[r]
      BY <1>1, <1>8, <2>1, <2>2, <2>3, <3>1
    <3>2. CASE id # conv[r]
      <4>1. Session(id) # s
        BY <1>1, <3>2, PathFacts
      <4> QED
        BY <1>2, <2>1, <2>2, <4>1
    <3> QED
      BY <3>1, <3>2
  <2>5. Counted(disk', names')
    <3>1. \A k \in Nat : Temp(k) # s
      BY <1>1, PathFacts
    <3> QED
      BY <1>2, <2>1, <2>2, <3>1
  <2>6. Timed(disk', clock')
    <3> HIDE DEF s, t
    <3> QED
      BY <1>2, <2>1, <2>2
  <2> QED
    BY <2>4, <2>5, <2>6
<1>9. pc[r] = "rename" => Renaming(r) /\ conv[r] # 0 /\ conv[r] <= sessions
  BY DEF StoreInv, RecorderInv
<1> QED
  BY <1>3, <1>4, <1>5, <1>6, <1>7, <1>8, <1>9, <1>d, DirKinds

\* A session's file changes only at its end, or is replaced by one that has its
\* title; a temporary file is touched by its own recorder only.
LEMMA FilesStay ==
    ASSUME StoreInv, NEW r \in Recorders, Acts(r)
    PROVE  /\ \A id \in 1..sessions : Exists(id)' =>
                 \/ pc[r] = "rename" /\ id = conv[r] /\ (disk[Session(id)].whole)' /\ (disk[Session(id)].named)'
                 \/ /\ Exists(id) /\ (disk[Session(id)].whole)' = disk[Session(id)].whole
                    /\ (disk[Session(id)].named)' = disk[Session(id)].named
           /\ \A n \in Nat : Temp(n) \in DOMAIN disk /\ ~(pc[r] = "rename" /\ temp[r] = n) =>
                 Temp(n) \in DOMAIN disk' /\ disk'[Temp(n)] = disk[Temp(n)]
           /\ sessions' \in {sessions, sessions + 1}
<1>1. /\ \A p \in DOMAIN disk : disk[p] \in Files /\ disk[p].time \in Nat /\ p \in Paths
      /\ sessions \in Nat /\ names \in Nat /\ clock \in Nat /\ conv[r] \in Nat /\ temp[r] \in Nat
      /\ victims[r] \subseteq [id : Nat \ {0}, time : Nat]
  BY DEF StoreInv, StoreTypeOK, Files
<1> DEFINE Kept(id) == /\ Exists(id) /\ (disk[Session(id)].whole)' = disk[Session(id)].whole
                       /\ (disk[Session(id)].named)' = disk[Session(id)].named
           Temps == \A n \in Nat : Temp(n) \in DOMAIN disk /\ ~(pc[r] = "rename" /\ temp[r] = n) =>
                       Temp(n) \in DOMAIN disk' /\ disk'[Temp(n)] = disk[Temp(n)]
<1>d. ASSUME NEW p, Drops(p)
      PROVE  /\ DOMAIN disk' = DOMAIN disk \ {p} /\ sessions' = sessions
             /\ \A q \in DOMAIN disk : q # p => disk'[q] = disk[q]
  BY <1>d, RemoveFacts DEF Drops
<1>p. ASSUME NEW p, NEW f \in Files, Put(p, f)
      PROVE  /\ DOMAIN disk' = DOMAIN disk \cup {p}
             /\ \A q \in DOMAIN disk : q # p => disk'[q] = disk[q]
             /\ disk'[p].whole = f.whole /\ disk'[p].named = f.named
  <2>1. clock \in Nat
    BY <1>1
  <2> QED
    BY <1>p, <2>1, PutFacts
<1>i. \A id \in 1..sessions : id \in Nat
  BY <1>1
<1>3. ASSUME NEW f \in Files, Creates(f)
      PROVE  (\A id \in 1..sessions : Exists(id)' => Kept(id)) /\ Temps /\ sessions' = sessions + 1
  <2>1. sessions' = sessions + 1 /\ sessions' \in Nat
    BY <1>1, <1>3 DEF Creates
  <2>2. /\ DOMAIN disk' = DOMAIN disk \cup {Session(sessions')}
        /\ \A q \in DOMAIN disk : q # Session(sessions') => disk'[q] = disk[q]
    BY <1>3, <1>p DEF Creates
  <2>3. \A id \in 1..sessions : Session(id) # Session(sessions')
    BY <1>1, <2>1, PathFacts
  <2>4. \A n \in Nat : Temp(n) # Session(sessions')
    BY <2>1, PathFacts
  <2> QED
    BY <2>1, <2>2, <2>3, <2>4 DEF Exists
<1>4. ASSUME NEW f \in Files, Extends(r, f)
      PROVE  (\A id \in 1..sessions : Exists(id)' => Kept(id)) /\ Temps /\ sessions' = sessions
  <2> DEFINE s == Session(conv[r])
  <2>1. /\ DOMAIN disk' = DOMAIN disk \cup {s} /\ s \in DOMAIN disk /\ sessions' = sessions
        /\ \A q \in DOMAIN disk : q # s => disk'[q] = disk[q]
        /\ disk'[s].whole = disk[s].whole /\ disk'[s].named = disk[s].named
    BY <1>4, <1>p DEF Extends
  <2>2. \A n \in Nat : Temp(n) # s
    BY <1>1, PathFacts
  <2> HIDE DEF s
  <2>3. \A q \in DOMAIN disk' : q \in DOMAIN disk /\ disk'[q].whole = disk[q].whole /\ disk'[q].named = disk[q].named
    BY <2>1
  <2> QED
    BY <2>1, <2>2, <2>3 DEF Exists
<1>5. ASSUME NEW f \in Files, Copies(r, f)
      PROVE  (\A id \in 1..sessions : Exists(id)' => Kept(id)) /\ Temps /\ sessions' = sessions
  <2>1. names' = names + 1 /\ names' \in Nat /\ sessions' = sessions
    BY <1>1, <1>5 DEF Copies
  <2>2. /\ DOMAIN disk' = DOMAIN disk \cup {Temp(names')}
        /\ \A q \in DOMAIN disk : q # Temp(names') => disk'[q] = disk[q]
    BY <1>5, <1>p DEF Copies
  <2>3. \A id \in Nat : Session(id) # Temp(names')
    BY <2>1, PathFacts
  <2>4. \A n \in Nat : Temp(n) \in DOMAIN disk => Temp(n) # Temp(names')
    <3>1. \A n \in Nat : Temp(n) \in DOMAIN disk => n \in 1..names
      BY DEF StoreInv, FilesInv
    <3>2. \A n \in Nat : Temp(n) = Temp(names') => n = names'
      BY <2>1, PathFacts
    <3> QED
      BY <1>1, <2>1, <3>1, <3>2
  <2> QED
    BY <1>i, <2>1, <2>2, <2>3, <2>4 DEF Exists
<1>6. ASSUME pc[r] = "rename",
             \/ \E f \in Files : Cuts(r, f)
             \/ Drops(Temp(temp[r]))
      PROVE  (\A id \in 1..sessions : Exists(id)' => Kept(id)) /\ Temps /\ sessions' = sessions
  <2> DEFINE t == Temp(temp[r])
  <2>1. /\ DOMAIN disk' \subseteq DOMAIN disk \cup {t} /\ DOMAIN disk \ {t} \subseteq DOMAIN disk'
        /\ \A q \in DOMAIN disk : q # t => disk'[q] = disk[q]
        /\ sessions' = sessions
    BY <1>6, <1>p, <1>d DEF Cuts
  <2>2. \A id \in Nat : Session(id) # t
    BY <1>1, PathFacts
  <2>3. \A n \in Nat : Temp(n) = t => n = temp[r]
    BY <1>1, PathFacts
  <2> HIDE DEF t
  <2> QED
    BY <1>i, <1>6, <2>1, <2>2, <2>3 DEF Exists
<1>7. ASSUME NEW v \in victims[r], Drops(Session(v.id))
      PROVE  (\A id \in 1..sessions : Exists(id)' => Kept(id)) /\ Temps /\ sessions' = sessions
  <2>1. \A n \in Nat : Temp(n) # Session(v.id)
    BY <1>1, PathFacts
  <2> QED
    BY <1>7, <1>d, <2>1 DEF Exists
<1>8. ASSUME pc[r] = "rename", Moves(r)
      PROVE  /\ \A id \in 1..sessions : Exists(id)' =>
                    \/ id = conv[r] /\ (disk[Session(id)].whole)' /\ (disk[Session(id)].named)'
                    \/ Kept(id)
             /\ Temps /\ sessions' = sessions
  <2> DEFINE s == Session(conv[r])
             t == Temp(temp[r])
  <2>1. s # t /\ (\A id \in Nat : Session(id) = s => id = conv[r]) /\ (\A n \in Nat : Temp(n) = t => n = temp[r])
        /\ (\A n \in Nat : Temp(n) # s) /\ (\A id \in Nat : Session(id) # t)
    BY <1>1, PathFacts
  <2>2. /\ DOMAIN disk' = (DOMAIN disk \cup {s}) \ {t} /\ disk'[s] = disk[t]
        /\ \A q \in DOMAIN disk : q # s /\ q # t => disk'[q] = disk[q]
        /\ sessions' = sessions
    BY <1>8, <2>1 DEF Moves
  <2>3. disk[t].whole /\ disk[t].named
    BY <1>8 DEF StoreInv, RecorderInv, Renaming
  <2> HIDE DEF t
  <2>4. ASSUME NEW id \in 1..sessions, Exists(id)'
        PROVE  \/ id = conv[r] /\ (disk[Session(id)].whole)' /\ (disk[Session(id)].named)'
               \/ Kept(id)
    <3>1. CASE id = conv[r]
      BY <2>2, <2>3, <3>1
    <3>2. CASE id # conv[r]
      <4>1. Session(id) # s
        BY <1>i, <2>1, <3>2
      <4> HIDE DEF s
      <4> QED
        BY <1>i, <2>1, <2>2, <2>4, <4>1 DEF Exists
    <3> QED
      BY <3>1, <3>2
  <2> HIDE DEF s
  <2>5. Temps
    BY <1>8, <2>1, <2>2
  <2> QED
    BY <2>2, <2>4, <2>5
<1> DEFINE Moved(id) == pc[r] = "rename" /\ id = conv[r] /\ (disk[Session(id)].whole)' /\ (disk[Session(id)].named)'
<1> DEFINE Good == (\A id \in 1..sessions : Exists(id)' => Moved(id) \/ Kept(id)) /\ Temps /\ sessions' \in {sessions, sessions + 1}
<1>9. ASSUME Rests PROVE Good
  BY <1>9 DEF Rests, Exists
<1>10. ASSUME NEW f \in Files, Creates(f) \/ Extends(r, f) \/ Copies(r, f) \/ Cuts(r, f) PROVE Good
  <2>1. CASE Cuts(r, f)
    <3>1. pc[r] = "rename"
      BY <2>1 DEF Cuts
    <3> HIDE DEF Kept, Temps, Moved
    <3> QED
      BY <1>6, <2>1, <3>1
  <2> HIDE DEF Kept, Temps, Moved
  <2> QED
    BY <1>3, <1>4, <1>5, <1>10, <2>1
<1>11. ASSUME NEW v \in victims[r], Drops(Session(v.id)) PROVE Good
  <2> HIDE DEF Kept, Temps, Moved
  <2> QED
    BY <1>7, <1>11
<1>12. ASSUME pc[r] = "rename", Drops(Temp(temp[r])) \/ Moves(r) PROVE Good
  <2>1. CASE Moves(r)
    <3>1. \A id \in 1..sessions : Exists(id)' =>
              Moved(id) \/ Kept(id)
      <4> HIDE DEF Kept, Temps
      <4> QED
        BY <1>8, <1>12, <2>1
    <3>2. Temps /\ sessions' = sessions
      <4> HIDE DEF Kept, Temps
      <4> QED
        BY <1>8, <1>12, <2>1
    <3> HIDE DEF Kept, Temps, Moved
    <3> QED
      BY <3>1, <3>2
  <2> HIDE DEF Kept, Temps, Moved
  <2> QED
    BY <1>6, <1>12, <2>1
<1>13. Good
  <2> HIDE DEF Good
  <2> QED
    BY <1>9, <1>10, <1>11, <1>12, DirKinds
<1> QED
  BY <1>13

LEMMA OthersStay ==
    ASSUME NEW r \in Recorders, NEW q \in Recorders, q # r, Acts(r), StoreTypeOK
    PROVE  pc'[q] = pc[q] /\ conv'[q] = conv[q] /\ temp'[q] = temp[q] /\ victims'[q] = victims[q]
<1> USE DEF Go, recorder
<1>1. /\ pc \in [Recorders -> PCs] /\ conv \in [Recorders -> Nat] /\ temp \in [Recorders -> Nat]
      /\ victims \in [Recorders -> SUBSET [id : Nat \ {0}, time : Nat]]
  BY DEF StoreTypeOK
<1>2. CASE Start(r) \/ Resume(r) \/ Quit(r) \/ Die(r)
  BY <1>1, <1>2 DEF Start, Resume, Quit, Die
<1>3. CASE New(r) \/ NewTorn(r) \/ AppendLine(r) \/ AppendTorn(r) \/ TurnWritten(r)
  BY <1>1, <1>3 DEF New, NewTorn, AppendLine, AppendTorn, TurnWritten
<1>4. CASE RotateList(r) \/ Delete(r)
  BY <1>1, <1>4 DEF RotateList, Delete
<1>5. CASE NamePending(r) \/ NameWrite(r) \/ NameRename(r) \/ NameFails(r)
  BY <1>1, <1>5 DEF NamePending, NameWrite, NameRename, NameFails
<1> QED
  BY <1>2, <1>3, <1>4, <1>5 DEF Acts

LEMMA WholeStays ==
    ASSUME StoreInv, NEW r \in Recorders, Acts(r), NEW id \in 1..sessions, Session(id) \in DOMAIN disk',
           Exists(id) => disk[Session(id)].whole
    PROVE  disk'[Session(id)].whole
BY FilesStay DEF Exists

LEMMA OthersKept ==
    ASSUME StoreInv, NEW r \in Recorders, Acts(r), bound' = bound, NEW q \in Recorders, q # r
    PROVE  RecorderInv(q)'
<1>1. pc'[q] = pc[q] /\ conv'[q] = conv[q] /\ temp'[q] = temp[q] /\ victims'[q] = victims[q]
  BY OthersStay DEF StoreInv
<1>2. RecorderInv(q) /\ conv[q] \in Nat /\ temp[q] \in Nat /\ sessions \in Nat
  BY DEF StoreInv, StoreTypeOK
<1>3. conv[q] <= sessions /\ sessions' \in {sessions, sessions + 1}
  BY <1>2, FilesStay DEF RecorderInv
<1>4. ASSUME conv[q] # 0, Session(conv[q]) \in DOMAIN disk' PROVE disk'[Session(conv[q])].whole
  <2>1. conv[q] \in 1..sessions
    BY <1>2, <1>3, <1>4
  <2>2. Exists(conv[q]) => disk[Session(conv[q])].whole
    BY <1>2, <1>4 DEF RecorderInv
  <2> QED
    BY <1>4, <2>1, <2>2, WholeStays
<1>5. Renaming(q)'
  <2> SUFFICES ASSUME pc[q] = "rename"
               PROVE  LET t == Temp(temp[q])
                      IN  /\ t \in DOMAIN disk' /\ disk'[t].whole /\ disk'[t].named
                          /\ disk'[t].id = conv[q]
    BY <1>1 DEF Renaming
  <2>1. ~(pc[r] = "rename" /\ temp[r] = temp[q])
    BY DEF StoreInv, OwnTemp
  <2>2. Temp(temp[q]) \in DOMAIN disk /\ disk[Temp(temp[q])].whole /\ disk[Temp(temp[q])].named
        /\ disk[Temp(temp[q])].id = conv[q]
    BY <1>2 DEF RecorderInv, Renaming
  <2> QED
    BY <1>2, <2>1, <2>2, FilesStay
<1>6. conv[q] <= sessions'
  BY <1>2, <1>3
<1>7. conv[q] # 0 /\ Session(conv[q]) \in DOMAIN disk' => disk'[Session(conv[q])].whole
  BY <1>4
<1> QED
  BY <1>1, <1>2, <1>5, <1>6, <1>7 DEF RecorderInv, Exists, Session

LEMMA OwnKept ==
    ASSUME StoreInv, NEW r \in bound.recorders, r \in Recorders, Acts(r), bound' = bound
    PROVE  RecorderInv(r)'
<1> USE DEF Go
<1>1. /\ pc \in [Recorders -> PCs] /\ conv \in [Recorders -> Nat] /\ temp \in [Recorders -> Nat]
      /\ victims \in [Recorders -> SUBSET [id : Nat \ {0}, time : Nat]]
      /\ sessions \in Nat /\ names \in Nat /\ clock \in Nat
      /\ \A p \in DOMAIN disk : disk[p] \in Files
  BY DEF StoreInv, StoreTypeOK
<1>2. RecorderInv(r) /\ FilesInv
  BY DEF StoreInv
<1>3. conv'[r] \in Nat /\ conv'[r] <= sessions' /\ (conv'[r] # 0 /\ Session(conv'[r]) \in DOMAIN disk' => disk'[Session(conv'[r])].whole)
  <2>1. conv[r] \in Nat /\ conv[r] <= sessions /\ sessions' \in {sessions, sessions + 1}
        /\ (conv[r] # 0 /\ Exists(conv[r]) => disk[Session(conv[r])].whole)
    BY <1>1, <1>2, FilesStay DEF RecorderInv
  <2>2. CASE conv'[r] = conv[r]
    <3>1. ASSUME conv[r] # 0, Session(conv[r]) \in DOMAIN disk' PROVE disk'[Session(conv[r])].whole
      <4>1. conv[r] \in 1..sessions
        BY <1>1, <2>1, <3>1
      <4> QED
        BY <2>1, <3>1, <4>1, WholeStays
    <3>2. conv[r] # 0 /\ Session(conv[r]) \in DOMAIN disk' => disk'[Session(conv[r])].whole
      BY <3>1
    <3>3. conv[r] <= sessions'
      BY <1>1, <2>1
    <3> QED
      BY <2>1, <2>2, <3>2, <3>3 DEF Exists, Session
  <2>3. CASE Start(r)
    BY <1>1, <2>1, <2>3 DEF Start
  <2>4. CASE Resume(r)
    <3>1. /\ disk' = disk /\ sessions' = sessions /\ Latest \in List
      BY <1>2, <2>4, LatestFacts DEF Resume, dir, StoreInv
    <3> DEFINE id == disk[Latest].id
    <3>2. id \in Nat /\ conv'[r] = IF Loads(Session(id)) THEN id ELSE 0
      BY <1>1, <2>4, <3>1 DEF Resume, List, Files
    <3>3. Loads(Session(id)) => id <= sessions
      BY <1>1, <1>2, <3>2 DEF Loads, FilesInv, Exists
    <3>4. Loads(Session(id)) => disk'[Session(id)].whole
      BY <3>1 DEF Loads
    <3> HIDE DEF id
    <3> QED
      BY <1>1, <3>1, <3>2, <3>3, <3>4 DEF Exists, Session
  <2>5. CASE New(r)
    <3>1. conv'[r] = sessions' /\ sessions' = sessions + 1 /\ sessions' \in Nat
      BY <1>1, <2>5 DEF New
    <3>2. Headed(sessions', FirstTitle(r)) \in Files /\ Headed(sessions', FirstTitle(r)).whole
      BY <3>1, HeadedFacts DEF FirstTitle, StoreInv, StoreTypeOK
    <3>3. Put(Session(sessions'), Headed(sessions', FirstTitle(r)))
      BY <2>5 DEF New
    <3>4. disk'[Session(sessions')].whole
      BY <1>1, <3>2, <3>3, PutFacts
    <3> QED
      BY <3>1, <3>4
  <2>6. conv' = conv \/ Start(r) \/ Resume(r) \/ New(r)
    BY DEF Acts, Quit, Die, NewTorn, AppendLine, AppendTorn, TurnWritten, RotateList, Delete,
           NamePending, NameWrite, NameRename, NameFails, recorder
  <2> QED
    BY <2>2, <2>3, <2>4, <2>5, <2>6
<1>4. Renaming(r)'
  <2>1. CASE NameWrite(r)
    <3>1. disk[Session(conv[r])] \in Files /\ disk[Session(conv[r])].whole /\ Session(conv[r]) \in DOMAIN disk
      BY <1>1, <2>1 DEF NameWrite, Loads
    <3>2. disk[Session(conv[r])].id = conv[r]
      BY <1>1, <1>2, <3>1 DEF FilesInv, Exists
    <3>3. Put(Temp(names'), Rewritten(disk[Session(conv[r])])) /\ temp'[r] = names' /\ conv' = conv
      BY <1>1, <2>1 DEF NameWrite
    <3>4. LET f == Rewritten(disk[Session(conv[r])]) IN f \in Files /\ f.whole /\ f.named /\ f.id = conv[r]
      BY <3>1, <3>2, RewrittenFacts
    <3> DEFINE f == Rewritten(disk[Session(conv[r])])
    <3>5. LET t == Temp(names') IN t \in DOMAIN disk' /\ disk'[t].whole /\ disk'[t].named /\ disk'[t].id = conv[r]
      <4>1. f \in Files /\ Put(Temp(names'), f) /\ clock \in Nat
        BY <1>1, <3>3, <3>4
      <4> HIDE DEF f
      <4>2. /\ DOMAIN disk' = DOMAIN disk \cup {Temp(names')}
            /\ disk'[Temp(names')].id = f.id /\ disk'[Temp(names')].whole = f.whole
            /\ disk'[Temp(names')].named = f.named
        BY <4>1, PutFacts
      <4>3. f.whole /\ f.named /\ f.id = conv[r]
        BY <3>4 DEF f
      <4> QED
        BY <4>2, <4>3
    <3> QED
      BY <3>3, <3>5 DEF Renaming
  <2>2. CASE ~NameWrite(r)
    <3>1. pc'[r] # "rename"
      BY <1>1, <2>2 DEF Acts, Start, Resume, Quit, Die, New, NewTorn, AppendLine, AppendTorn, TurnWritten,
                        RotateList, Delete, NamePending, NameRename, NameFails, Appended
    <3> QED
      BY <3>1 DEF Renaming
  <2> QED
    BY <2>1, <2>2
<1>5. pc'[r] \in {"append", "turn", "list", "rename"} => conv'[r] # 0
  <2>1. MayAppend(r) => conv[r] # 0
    BY <1>2 DEF MayAppend, RecorderInv
  <2>2. CASE Start(r) \/ Resume(r) \/ Quit(r) \/ Die(r) \/ RotateList(r) \/ Delete(r) \/ NamePending(r) \/ NameRename(r) \/ NameFails(r)
    BY <1>1, <2>2 DEF Start, Resume, Quit, Die, RotateList, Delete, NamePending, NameRename, NameFails
  <2>3. CASE New(r) \/ NewTorn(r)
    BY <1>1, <2>3 DEF New, NewTorn
  <2>4. CASE AppendLine(r) \/ AppendTorn(r) \/ NameWrite(r)
    BY <1>1, <2>1, <2>4 DEF AppendLine, AppendTorn, NameWrite, recorder
  <2>5. CASE TurnWritten(r)
    BY <1>1, <1>2, <2>5 DEF TurnWritten, recorder, RecorderInv
  <2> QED
    BY <2>2, <2>3, <2>4, <2>5 DEF Acts
<1>6. pc'[r] \in {"list", "delete"} => KeepLast > 0
  BY <1>1, <1>2 DEF Acts, Start, Resume, Quit, Die, New, NewTorn, AppendLine, AppendTorn, TurnWritten,
                    RotateList, Delete, NamePending, NameWrite, NameRename, NameFails, Appended, RecorderInv
<1>7. pc'[r] # "delete" => victims'[r] = {}
  <2>1. CASE RotateList(r) \/ Delete(r)
    BY <1>1, <2>1 DEF RotateList, Delete
  <2>2. CASE Die(r)
    BY <1>1, <2>2 DEF Die
  <2>3. CASE ~(RotateList(r) \/ Delete(r) \/ Die(r))
    <3>1. victims' = victims /\ pc[r] # "delete"
      BY <2>3 DEF Acts, Start, Resume, Quit, New, NewTorn, AppendLine, AppendTorn, TurnWritten,
                    NamePending, NameWrite, NameRename, NameFails, recorder, MayAppend
    <3> QED
      BY <1>2, <3>1 DEF RecorderInv
  <2> QED
    BY <2>1, <2>2, <2>3
<1> QED
  BY <1>3, <1>4, <1>5, <1>6, <1>7 DEF RecorderInv, Exists, Session

LEMMA OwnTempKept ==
    ASSUME StoreInv, NEW r \in Recorders, Acts(r)
    PROVE  OwnTemp'
<1> USE DEF Go
<1>1. pc \in [Recorders -> PCs] /\ temp \in [Recorders -> Nat] /\ names \in Nat
  BY DEF StoreInv, StoreTypeOK
<1>2. \A q \in Recorders : pc[q] = "rename" => temp[q] \in 1..names
  BY <1>1 DEF StoreInv, RecorderInv, Renaming, FilesInv
<1>3. \A p, q \in Recorders : pc[p] = "rename" /\ pc[q] = "rename" /\ temp[p] = temp[q] => p = q
  BY DEF StoreInv, OwnTemp
<1>4. \A q \in Recorders : q # r => pc'[q] = pc[q] /\ temp'[q] = temp[q]
  BY OthersStay DEF StoreInv
<1>5. CASE NameWrite(r)
  <2>1. temp'[r] = names + 1
    BY <1>1, <1>5 DEF NameWrite
  <2>2. \A q \in Recorders : q # r /\ pc'[q] = "rename" => temp'[q] # temp'[r]
    BY <1>1, <1>2, <1>4, <2>1
  <2> QED
    BY <1>3, <1>4, <2>2 DEF OwnTemp
<1>6. CASE ~NameWrite(r)
  <2>1. pc'[r] # "rename"
    BY <1>1, <1>6 DEF Acts, Start, Resume, Quit, Die, New, NewTorn, AppendLine, AppendTorn, TurnWritten,
                      RotateList, Delete, NamePending, NameRename, NameFails, Appended
  <2> QED
    BY <1>3, <1>4, <2>1 DEF OwnTemp
<1> QED
  BY <1>5, <1>6

LEMMA ToldKept ==
    ASSUME StoreInv, NEW r \in Recorders, Acts(r)
    PROVE  ToldInv'
<1> USE DEF Go
<1>1. /\ pc \in [Recorders -> PCs] /\ conv \in [Recorders -> Nat] /\ temp \in [Recorders -> Nat]
      /\ pending \in [Recorders -> BOOLEAN]
      /\ sessions \in Nat /\ entries \in Nat /\ names \in Nat /\ clock \in Nat
  BY DEF StoreInv, StoreTypeOK
<1>2. IsFiniteSet(acked) /\ acked \subseteq (1..sessions) \X (1..entries) /\ titled \subseteq 1..sessions
  BY DEF StoreInv, ToldInv
<1>3. \A a \in acked : Session(a[1]) \in DOMAIN disk => disk[Session(a[1])].whole
  BY DEF StoreInv, ToldInv, ConversationLoads, Loads, Exists
<1>4. \A id \in titled : Session(id) \in DOMAIN disk => disk[Session(id)].whole /\ disk[Session(id)].named
  BY DEF StoreInv, ToldInv, NamePersisted, Exists
<1>5. sessions' \in {sessions, sessions + 1}
  BY FilesStay
<1>6. RecorderInv(r)
  BY DEF StoreInv
<1>7. \A a \in acked : Session(a[1]) \in DOMAIN disk' => disk'[Session(a[1])].whole
  <2> TAKE a \in acked
  <2>1. a[1] \in 1..sessions
    BY <1>2
  <2> QED
    BY <1>3, <2>1, WholeStays DEF Exists
<1>8. \A id \in titled : Session(id) \in DOMAIN disk' => disk'[Session(id)].whole /\ disk'[Session(id)].named
  BY <1>2, <1>4, FilesStay DEF Exists
<1>9. /\ IsFiniteSet(acked') /\ acked' \subseteq (1..sessions') \X (1..entries')
      /\ \A a \in acked' : Session(a[1]) \in DOMAIN disk' => disk'[Session(a[1])].whole
  <2>1. CASE AppendLine(r)
    <3> DEFINE a == <<conv[r], entries'>>
    <3>1. acked' \in {acked, acked \cup {a}} /\ sessions' = sessions /\ entries' = entries + 1
      BY <2>1 DEF AppendLine
    <3>2. conv[r] \in 1..sessions
      BY <1>1, <1>6, <2>1 DEF AppendLine, MayAppend, RecorderInv
    <3>3. Session(conv[r]) \in DOMAIN disk' => disk'[Session(conv[r])].whole
      <4>1. Exists(conv[r]) => disk[Session(conv[r])].whole
        BY <1>1, <1>6, <3>2 DEF RecorderInv
      <4> QED
        BY <3>2, <4>1, WholeStays
    <3>4. IsFiniteSet(acked \cup {a})
      BY <1>2, FS_AddElement
    <3>5. a \in (1..sessions') \X (1..entries')
      BY <1>1, <3>1, <3>2
    <3>6. acked \subseteq (1..sessions') \X (1..entries')
      BY <1>1, <1>2, <3>1
    <3>7. a[1] = conv[r]
      OBVIOUS
    <3> HIDE DEF a
    <3> QED
      BY <1>2, <1>7, <3>1, <3>3, <3>4, <3>5, <3>6, <3>7
  <2>2. CASE ~AppendLine(r)
    <3>1. acked' = acked /\ entries' \in {entries, entries + 1}
      BY <2>2 DEF Acts, Start, Resume, Quit, Die, New, NewTorn, AppendTorn, TurnWritten,
                  RotateList, Delete, NamePending, NameWrite, NameRename, NameFails
    <3> QED
      BY <1>1, <1>2, <1>5, <1>7, <3>1
  <2> QED
    BY <2>1, <2>2
<1>10. /\ titled' \subseteq 1..sessions'
       /\ \A id \in titled' : Session(id) \in DOMAIN disk' => disk'[Session(id)].whole /\ disk'[Session(id)].named
  <2>1. CASE New(r)
    <3>1. sessions' = sessions + 1 /\ sessions' \in Nat /\ titled' = IF pending[r] THEN titled \cup {sessions'} ELSE titled
      BY <1>1, <2>1 DEF New
    <3>2. ASSUME pending[r] PROVE disk'[Session(sessions')].whole /\ disk'[Session(sessions')].named
      <4> DEFINE h == Headed(sessions', FirstTitle(r))
      <4>1. h \in Files /\ h.whole /\ h.named
        BY <1>1, <3>1, <3>2, HeadedFacts DEF FirstTitle
      <4>2. Put(Session(sessions'), h)
        BY <2>1 DEF New
      <4> HIDE DEF h
      <4> QED
        BY <1>1, <4>1, <4>2, PutFacts
    <3> QED
      BY <1>1, <1>2, <1>8, <3>1, <3>2
  <2>2. CASE NameRename(r)
    <3>1. titled' = titled \cup {conv[r]} /\ sessions' = sessions
      BY <2>2 DEF NameRename
    <3>2. conv[r] \in 1..sessions
      BY <1>1, <1>6, <2>2 DEF NameRename, RecorderInv
    <3>3. disk[Temp(temp[r])].whole /\ disk[Temp(temp[r])].named
      BY <1>6, <2>2 DEF NameRename, RecorderInv, Renaming
    <3>4. Session(conv[r]) \in DOMAIN disk' => disk'[Session(conv[r])] = disk[Temp(temp[r])]
      BY <2>2 DEF NameRename
    <3> QED
      BY <1>2, <1>8, <3>1, <3>2, <3>3, <3>4
  <2>3. CASE ~New(r) /\ ~NameRename(r)
    <3>1. titled' = titled
      BY <2>3 DEF Acts, Start, Resume, Quit, Die, NewTorn, AppendLine, AppendTorn, TurnWritten,
                  RotateList, Delete, NamePending, NameWrite, NameFails
    <3> QED
      BY <1>1, <1>2, <1>5, <1>8, <3>1
  <2> QED
    BY <2>1, <2>2, <2>3
<1> QED
  BY <1>9, <1>10 DEF ToldInv, ConversationLoads, NamePersisted, Loads, Exists

LEMMA StoreInvInit ==
    ASSUME StoreInit
    PROVE  StoreInv
<1>1. DOMAIN disk = {} /\ IsFiniteSet(DOMAIN disk) /\ IsFiniteSet(acked)
  BY FS_EmptySet DEF StoreInit
<1>2. StoreTypeOK
  BY <1>1 DEF StoreInit, StoreTypeOK, PCs
<1>3. FilesInv /\ OwnTemp /\ ToldInv
  BY <1>1 DEF StoreInit, FilesInv, OwnTemp, ToldInv, ConversationLoads, NamePersisted, Exists
<1>4. \A r \in Recorders : RecorderInv(r)
  BY <1>1 DEF StoreInit, RecorderInv, Renaming, Exists
<1> QED
  BY <1>2, <1>3, <1>4 DEF StoreInv

LEMMA StoreInvKept ==
    ASSUME StoreInv, [StoreNext]_storeVars
    PROVE  StoreInv'
<1>1. CASE UNCHANGED storeVars
  BY <1>1 DEF storeVars, StoreInv, StoreTypeOK, FilesInv, OwnTemp, ToldInv, ConversationLoads, NamePersisted,
              RecorderInv, Renaming, Exists, Loads
<1>2. ASSUME NEW r \in bound.recorders, Acts(r), bound' = bound PROVE StoreInv'
  <2>1. r \in Recorders
    BY BoundTypes DEF StoreInv
  <2>2. StoreTypeOK'
    BY <1>2, StoreTypesKept DEF StoreNext
  <2>3. FilesInv' /\ OwnTemp' /\ ToldInv'
    BY <1>2, <2>1, FilesKept, OwnTempKept, ToldKept
  <2>4. \A q \in Recorders : RecorderInv(q)'
    BY <1>2, <2>1, OthersKept, OwnKept
  <2> QED
    BY <2>2, <2>3, <2>4 DEF StoreInv
<1> QED
  BY <1>1, <1>2 DEF StoreNext

\* Whatever the recorders interleave, fail at or die of, the directory and what
\* each of them knows of it keep their types.
THEOREM StoreTypeCorrect == StoreSpec => []StoreTypeOK
<1>1. StoreInv => StoreTypeOK
  BY DEF StoreInv
<1> QED
  BY <1>1, StoreInvInit, StoreInvKept, PTL DEF StoreSpec

-----------------------------------------------------------------------------
(* What rotation picks: more recent files than the surplus ones are many.  *)

LEMMA ListFacts ==
    ASSUME StoreTypeOK
    PROVE  /\ List \subseteq DOMAIN disk /\ IsFiniteSet(List) /\ IsFiniteSet(Surplus)
           /\ \A p \in List : disk[p].time \in Nat
           /\ \A p : IsFiniteSet(Newer(p)) /\ Cardinality(Newer(p)) \in Nat
<1>1. List \subseteq DOMAIN disk /\ Surplus \subseteq List /\ \A p : Newer(p) \subseteq List
  BY DEF List, Surplus, Newer
<1>2. IsFiniteSet(List)
  BY <1>1, FS_Subset DEF StoreTypeOK
<1>3. IsFiniteSet(Surplus) /\ \A p : IsFiniteSet(Newer(p)) /\ Cardinality(Newer(p)) \in Nat
  BY <1>1, <1>2, FS_Subset, FS_CardinalityType
<1>4. \A p \in List : disk[p].time \in Nat
  BY <1>1 DEF StoreTypeOK, Files
<1> QED
  BY <1>1, <1>2, <1>3, <1>4

\* Behind the KeepLast most recent files, those that are surplus and more
\* recent come first.
LEMMA SurplusBehind ==
    ASSUME StoreTypeOK, FilesInv, KeepLast \in Nat, NEW p \in Surplus
    PROVE  LET ahead == {q \in Surplus : disk[q].time > disk[p].time}
           IN  /\ IsFiniteSet(ahead) /\ Cardinality(ahead) \in Nat
               /\ Cardinality(Newer(p)) >= KeepLast + Cardinality(ahead)
<1> DEFINE ahead == {q \in Surplus : disk[q].time > disk[p].time}
<1>1. /\ List \subseteq DOMAIN disk /\ Surplus \subseteq List /\ ahead \subseteq Surplus /\ ahead \subseteq Newer(p)
      /\ \A q \in Surplus : Cardinality(Newer(q)) >= KeepLast
  BY DEF List, Surplus, Newer
<1>2. /\ \A q \in List : disk[q].time \in Nat
      /\ IsFiniteSet(Surplus) /\ \A q : IsFiniteSet(Newer(q)) /\ Cardinality(Newer(q)) \in Nat
  BY ListFacts
<1>3. IsFiniteSet(ahead) /\ Cardinality(ahead) \in Nat
  BY <1>1, <1>2, FS_Subset, FS_CardinalityType
<1>4. ASSUME ahead = {} PROVE Cardinality(Newer(p)) >= KeepLast + Cardinality(ahead)
  <2>1. Cardinality(ahead) = 0 /\ Cardinality(Newer(p)) >= KeepLast /\ Cardinality(Newer(p)) \in Nat
    BY <1>1, <1>2, <1>4, FS_EmptySet
  <2> HIDE DEF ahead
  <2> QED
    BY <2>1
<1>5. ASSUME ahead # {} PROVE Cardinality(Newer(p)) >= KeepLast + Cardinality(ahead)
  <2>1. PICK q \in ahead : \A s \in ahead : disk[s].time <= disk[q].time
    <3>1. ahead \subseteq DOMAIN disk
      BY <1>1
    <3> HIDE DEF ahead
    <3> QED
      BY <1>5, <3>1, Youngest
  <2>2. disk[q].time > disk[p].time /\ q \in List /\ disk[q].time \in Nat /\ disk[p].time \in Nat
    BY <1>1, <1>2
  <2>3. Newer(q) \cup ahead \subseteq Newer(p)
    BY <1>1, <1>2, <2>2 DEF Newer
  <2>4. Newer(q) \cap ahead = {}
    <3> SUFFICES ASSUME NEW s \in Newer(q), s \in ahead PROVE FALSE
      OBVIOUS
    <3>1. disk[s].time > disk[q].time /\ disk[s].time \in Nat
      BY <1>2 DEF Newer
    <3>2. disk[s].time <= disk[q].time
      BY <2>1
    <3> QED
      BY <2>2, <3>1, <3>2
  <2> HIDE DEF ahead
  <2>5. Cardinality(Newer(q) \cup ahead) = Cardinality(Newer(q)) + Cardinality(ahead)
    <3>1. Cardinality(Newer(q) \cap ahead) = 0
      BY <2>4, FS_EmptySet
    <3>2. Cardinality(Newer(q) \cup ahead) =
              Cardinality(Newer(q)) + Cardinality(ahead) - Cardinality(Newer(q) \cap ahead)
      BY <1>2, <1>3, FS_Union
    <3> QED
      BY <1>2, <1>3, <3>1, <3>2
  <2>6. Cardinality(Newer(q) \cup ahead) <= Cardinality(Newer(p))
    BY <1>2, <2>3, FS_Subset
  <2>7. Cardinality(Newer(q)) >= KeepLast
    BY <1>1
  <2> QED
    BY <1>2, <1>3, <2>5, <2>6, <2>7
<1> QED
  BY <1>3, <1>4, <1>5

\* What rotation leaves is no more than KeepLast files.
LEMMA NotSurplus ==
    ASSUME StoreTypeOK, FilesInv, KeepLast > 0
    PROVE  IsFiniteSet(List \ Surplus) /\ Cardinality(List \ Surplus) <= KeepLast
<1> DEFINE left == List \ Surplus
<1>1. /\ List \subseteq DOMAIN disk /\ left \subseteq List
      /\ \A p \in left : ~(Cardinality(Newer(p)) >= KeepLast)
  BY DEF List, Surplus
<1>2. /\ IsFiniteSet(List) /\ \A q \in List : disk[q].time \in Nat
      /\ \A q : IsFiniteSet(Newer(q)) /\ Cardinality(Newer(q)) \in Nat
  BY ListFacts
<1>3. IsFiniteSet(left) /\ Cardinality(left) \in Nat
  BY <1>1, <1>2, FS_Subset, FS_CardinalityType
<1>4. CASE left = {}
  BY <1>3, <1>4, FS_EmptySet, KeepAssumption
<1>5. CASE left # {}
  <2> HIDE DEF left
  <2>1. PICK p \in left : \A q \in left : disk[p].time <= disk[q].time
    BY <1>1, <1>5, Oldest
  <2>2. left \ {p} \subseteq Newer(p)
    <3> SUFFICES ASSUME NEW q \in left, q # p PROVE q \in List /\ disk[q].time > disk[p].time
      BY DEF Newer
    <3>1. disk[q].time # disk[p].time
      BY <1>1 DEF FilesInv
    <3> QED
      BY <1>1, <1>2, <2>1, <3>1
  <2>3. Cardinality(left \ {p}) <= Cardinality(Newer(p)) /\ Cardinality(left \ {p}) = Cardinality(left) - 1
    BY <1>2, <1>3, <2>2, FS_Subset, FS_RemoveElement
  <2>4. Cardinality(Newer(p)) < KeepLast
    BY <1>1, <1>2, KeepAssumption
  <2> QED
    BY <1>2, <1>3, <2>3, <2>4, KeepAssumption DEF left
<1> QED
  BY <1>4, <1>5

-----------------------------------------------------------------------------
(* A recorder alone in the directory.  It keeps the session it writes to;   *)
(* the file it rotates after is the most recent one; a rewrite under way    *)
(* has what the session has; and every victim has KeepLast more recent      *)
(* files behind the victims that go before it, unless a leftover temporary  *)
(* file lists its session too.                                              *)

LiveInv(r) ==
    /\ pc[r] \in {"append", "rename"} => Exists(conv[r])
    /\ pc[r] # "off" /\ conv[r] # 0 => Exists(conv[r]) \/ Leftover(conv[r])
    /\ pc[r] \in {"turn", "list"} /\ Exists(conv[r]) => Newer(Session(conv[r])) = {}

CopyInv(r) ==
    pc[r] = "rename" => LET s == Session(conv[r])
                            t == Temp(temp[r])
                        IN  ~disk[t].torn /\ disk[t].messages = disk[s].messages /\ disk[t].missions = disk[s].missions

VictimsInv(r) ==
    /\ IsFiniteSet(victims[r])
    /\ \A v, w \in victims[r] : v.time = w.time => v = w
    /\ \A v \in victims[r] : ~Leftover(v.id) =>
          /\ v.id # conv[r]
          /\ Exists(v.id) => Cardinality(Newer(Session(v.id))) >=
                                 KeepLast + Cardinality({w \in victims[r] : w.time > v.time})

AloneInv == \A r \in Recorders : bound.recorders = {r} => LiveInv(r) /\ CopyInv(r) /\ VictimsInv(r)

LEMMA LeftoverStays ==
    ASSUME StoreInv, NEW r \in Recorders, Acts(r), pc[r] # "rename", NEW id, Leftover(id)
    PROVE  \E p \in List' : p[1] = "temp" /\ disk'[p].id = id
<1>1. PICK p \in DOMAIN disk : disk[p].id # 0 /\ p[1] = "temp" /\ disk[p].id = id
  BY DEF Leftover, List
<1>2. p \in Paths
  BY DEF StoreInv, StoreTypeOK
<1>3. p = Temp(p[2]) /\ p[2] \in Nat
  <2>1. p[2] \in Nat /\ p \in {Session(p[2]), Temp(p[2])}
    BY <1>2, PathFacts
  <2>2. Session(p[2])[1] = "session"
    BY <2>1, PathFacts
  <2> QED
    BY <1>1, <2>1, <2>2
<1>4. Temp(p[2]) \in DOMAIN disk' /\ disk'[Temp(p[2])] = disk[Temp(p[2])]
  BY <1>3, FilesStay
<1> QED
  BY <1>1, <1>3, <1>4 DEF List

\* What a step leaves of the session it works on, and where the recorder goes.
LEMMA SessionStays ==
    ASSUME StoreInv, NEW r \in Recorders, Acts(r), NEW id \in Nat, Exists(id)
    PROVE  \/ Session(id) \in DOMAIN disk'
           \/ Delete(r) /\ \E v \in victims[r] : v.id = id /\ \A w \in victims[r] : w.time <= v.time
<1>1. names \in Nat /\ sessions \in Nat /\ conv[r] \in Nat /\ temp[r] \in Nat
  BY DEF StoreInv, StoreTypeOK
<1>2. \A n \in Nat : Session(id) # Temp(n)
  BY PathFacts
<1>3. CASE Delete(r)
  <2>1. PICK v \in victims[r] : Remove(Session(v.id)) /\ \A w \in victims[r] : w.time <= v.time
    BY <1>3 DEF Delete
  <2>2. v.id \in Nat
    BY <2>1 DEF StoreInv, StoreTypeOK
  <2>3. Session(id) = Session(v.id) => id = v.id
    BY <2>2, PathFacts
  <2> QED
    BY <1>3, <2>1, <2>3 DEF Remove, Exists
<1>4. ASSUME NEW p, NEW f, Put(p, f) PROVE Session(id) \in DOMAIN disk'
  BY <1>4 DEF Put, Exists
<1>5. CASE Start(r) \/ Resume(r) \/ Quit(r) \/ TurnWritten(r) \/ RotateList(r) \/ NamePending(r)
  BY <1>5 DEF Start, Resume, Quit, TurnWritten, RotateList, NamePending, dir, Exists
<1>6. CASE New(r) \/ NewTorn(r) \/ AppendTorn(r) \/ NameWrite(r)
  BY <1>4, <1>6 DEF New, NewTorn, AppendTorn, NameWrite
<1>7. CASE AppendLine(r)
  BY <1>4, <1>7 DEF AppendLine, dir, Exists
<1>8. CASE NameRename(r) \/ NameFails(r)
  BY <1>1, <1>2, <1>8 DEF NameRename, NameFails, Remove, Exists
<1>9. CASE Die(r)
  BY <1>4, <1>9 DEF Die, dir, Exists
<1> QED
  BY <1>3, <1>5, <1>6, <1>7, <1>8, <1>9 DEF Acts

LEMMA LiveStays ==
    ASSUME StoreInv, NEW r \in Recorders, Acts(r), bound.recorders = {r}, bound' = bound,
           LiveInv(r), VictimsInv(r)
    PROVE  LiveInv(r)'
<1> USE DEF Go
<1>1. /\ pc \in [Recorders -> PCs] /\ conv \in [Recorders -> Nat] /\ temp \in [Recorders -> Nat]
      /\ victims \in [Recorders -> SUBSET [id : Nat \ {0}, time : Nat]]
      /\ sessions \in Nat /\ names \in Nat /\ clock \in Nat
      /\ \A p \in DOMAIN disk : disk[p] \in Files
  BY DEF StoreInv, StoreTypeOK
<1>2. RecorderInv(r) /\ FilesInv
  BY DEF StoreInv
<1>3. FilesInv' /\ StoreTypeOK'
  <2>1. StoreNext
    BY DEF StoreNext
  <2> QED
    BY <2>1, FilesKept, StoreTypesKept
<1>p. ASSUME NEW p, NEW f, Put(p, f) PROVE p \in DOMAIN disk'
  BY <1>p DEF Put
<1>4. pc'[r] \in {"append", "rename"} => Session(conv'[r]) \in DOMAIN disk'
  <2>1. CASE New(r)
    BY <1>1, <1>p, <2>1 DEF New
  <2>2. CASE NameWrite(r)
    BY <1>1, <1>p, <2>2, SessionStays DEF NameWrite, Loads, Exists, Put
  <2>3. CASE ~New(r) /\ ~NameWrite(r)
    <3>1. pc'[r] \notin {"append", "rename"}
      BY <1>1, <2>3 DEF Acts, Start, Resume, Quit, Die, NewTorn, AppendLine, AppendTorn, TurnWritten,
                        RotateList, Delete, NamePending, NameRename, NameFails, Appended
    <3> QED
      BY <3>1
  <2> QED
    BY <2>1, <2>2, <2>3
<1> DEFINE Left(id) == \E p \in List' : p[1] = "temp" /\ disk'[p].id = id
<1>5. ASSUME pc'[r] # "off", conv'[r] # 0
      PROVE  Session(conv'[r]) \in DOMAIN disk' \/ Left(conv'[r])
  <2>1. CASE New(r)
    BY <1>1, <1>4, <2>1 DEF New
  <2>2. CASE Start(r) \/ Quit(r) \/ Die(r) \/ NewTorn(r)
    BY <1>1, <1>5, <2>2 DEF Start, Quit, Die, NewTorn, recorder
  <2>3. CASE Resume(r)
    <3> DEFINE id == disk[Latest].id
    <3>1. conv'[r] = IF Loads(Session(id)) THEN id ELSE 0
      BY <1>1, <2>3 DEF Resume
    <3>2. disk' = disk
      BY <2>3 DEF Resume, dir
    <3> QED
      BY <1>5, <3>1, <3>2 DEF Loads
  <2>4. CASE ~New(r) /\ ~Start(r) /\ ~Quit(r) /\ ~Die(r) /\ ~NewTorn(r) /\ ~Resume(r)
    <3>1. conv' = conv /\ pc[r] # "off"
      BY <1>1, <1>5, <2>4 DEF Acts, AppendLine, AppendTorn, TurnWritten, MayAppend,
                        RotateList, Delete, NamePending, NameWrite, NameRename, NameFails, recorder
    <3>2. Exists(conv[r]) \/ Leftover(conv[r])
      BY <1>5, <3>1 DEF LiveInv
    <3>3. pc[r] = "rename" => Exists(conv[r])
      BY DEF LiveInv
    <3>4. Leftover(conv[r]) /\ pc[r] # "rename" => Left(conv[r])
      BY LeftoverStays
    <3>5. CASE Exists(conv[r]) /\ Session(conv[r]) \notin DOMAIN disk'
      <4>1. PICK v \in victims[r] : v.id = conv[r] /\ Delete(r)
        BY <1>1, <3>5, SessionStays
      <4>2. Leftover(conv[r]) /\ pc[r] # "rename"
        BY <4>1 DEF VictimsInv, Delete
      <4> QED
        BY <3>1, <3>4, <4>2
    <3> QED
      BY <3>1, <3>2, <3>3, <3>4, <3>5
  <2> QED
    BY <2>1, <2>2, <2>3, <2>4
<1>6. ASSUME pc'[r] \in {"turn", "list"}, Session(conv'[r]) \in DOMAIN disk'
      PROVE  {p \in List' : disk'[p].time > disk'[Session(conv'[r])].time} = {}
  <2>1. CASE TurnWritten(r)
    <3>1. pc[r] = "turn" /\ disk' = disk /\ conv' = conv
      BY <2>1 DEF TurnWritten, dir, recorder
    <3>2. Newer(Session(conv[r])) = {}
      BY <1>6, <3>1 DEF LiveInv, Exists
    <3> QED
      BY <3>1, <3>2 DEF Newer, List
  <2>2. CASE AppendLine(r) \/ AppendTorn(r)
    <3> DEFINE s == Session(conv[r])
    <3>0. conv' = conv
      BY <2>2 DEF AppendLine, AppendTorn, recorder
    <3>1. s \in DOMAIN disk
      BY <1>6, <2>2, <3>0 DEF AppendLine, AppendTorn, dir
    <3>2. \E f : Put(s, f)
      BY <2>2, <3>1 DEF AppendLine, AppendTorn
    <3>3. PICK f : Put(s, f)
      BY <3>2
    <3>4. disk'[s] = [f EXCEPT !.time = clock + 1] /\ clock' = clock + 1 /\ s \in DOMAIN disk'
      BY <3>3 DEF Put
    <3>5. \A p \in DOMAIN disk' : disk'[p] \in Files /\ disk'[p].time \in Nat /\ disk'[p].time <= clock'
      BY <1>3 DEF StoreTypeOK, Files, FilesInv
    <3>6. clock' <= disk'[s].time /\ clock' \in Nat
      <4> HIDE DEF s
      <4>1. disk'[s] \in Files
        BY <3>4, <3>5
      <4>2. "time" \in DOMAIN disk'[s] /\ DOMAIN disk'[s] = DOMAIN f
        BY <3>4, <4>1 DEF Files
      <4>3. disk'[s].time = clock + 1
        BY <3>4, <4>2
      <4> QED
        BY <1>1, <3>4, <4>3
    <3>7. List' \subseteq DOMAIN disk'
      BY DEF List
    <3> QED
      BY <3>0, <3>4, <3>5, <3>6, <3>7
  <2>3. CASE ~TurnWritten(r) /\ ~AppendLine(r) /\ ~AppendTorn(r)
    <3>1. pc'[r] \notin {"turn", "list"}
      BY <1>1, <2>3 DEF Acts, Start, Resume, Quit, Die, New, NewTorn,
                        RotateList, Delete, NamePending, NameWrite, NameRename, NameFails
    <3> QED
      BY <1>6, <3>1
  <2> QED
    BY <2>1, <2>2, <2>3
<1> QED
  BY <1>4, <1>5, <1>6 DEF LiveInv, Exists, Leftover, Newer

LEMMA CopyStays ==
    ASSUME StoreInv, NEW r \in Recorders, Acts(r)
    PROVE  CopyInv(r)'
<1> USE DEF Go
<1>1. /\ pc \in [Recorders -> PCs] /\ conv \in [Recorders -> Nat] /\ temp \in [Recorders -> Nat]
      /\ names \in Nat /\ clock \in Nat /\ \A p \in DOMAIN disk : disk[p] \in Files
  BY DEF StoreInv, StoreTypeOK
<1>2. CASE NameWrite(r)
  <2> DEFINE s == Session(conv[r])
             t == Temp(names')
  <2>1. /\ names' \in Nat /\ s \in DOMAIN disk /\ Put(t, Rewritten(disk[s]))
        /\ temp'[r] = names' /\ conv' = conv
    BY <1>1, <1>2 DEF NameWrite, Loads
  <2>2. s # t
    BY <1>1, <2>1, PathFacts
  <2>3. disk[s] \in Files
    BY <1>1, <2>1
  <2> HIDE DEF s, t
  <2>4. LET f == Rewritten(disk[s])
        IN  f \in Files /\ ~f.torn /\ f.messages = disk[s].messages /\ f.missions = disk[s].missions
    BY <2>3, RewrittenFacts
  <2> DEFINE f == Rewritten(disk[s])
  <2>5. f \in Files /\ Put(t, f)
    BY <2>1, <2>4
  <2> HIDE DEF f
  <2>6. disk'[t].torn = f.torn /\ disk'[t].messages = f.messages /\ disk'[t].missions = f.missions
        /\ disk'[s] = disk[s]
    <3>1. clock \in Nat
      BY <1>1
    <3>2. /\ \A q \in DOMAIN disk : q # t => disk'[q] = disk[q]
          /\ disk'[t].torn = f.torn /\ disk'[t].messages = f.messages /\ disk'[t].missions = f.missions
      BY <2>5, <3>1, PutFacts
    <3> QED
      BY <2>1, <2>2, <3>2
  <2>7. ~disk'[t].torn /\ disk'[t].messages = disk'[s].messages /\ disk'[t].missions = disk'[s].missions
    BY <2>4, <2>6 DEF f
  <2> QED
    BY <2>1, <2>7 DEF CopyInv, s, t
<1>3. CASE ~NameWrite(r)
  <2>1. pc'[r] # "rename"
    BY <1>1, <1>3 DEF Acts, Start, Resume, Quit, Die, New, NewTorn, AppendLine, AppendTorn, TurnWritten,
                      RotateList, Delete, NamePending, NameRename, NameFails, Appended
  <2> QED
    BY <2>1 DEF CopyInv
<1> QED
  BY <1>2, <1>3

LEMMA VictimsListed ==
    ASSUME StoreInv, NEW r \in Recorders, RotateList(r), LiveInv(r)
    PROVE  VictimsInv(r)'
<1> DEFINE V == {[id |-> disk[p].id, time |-> disk[p].time] : p \in Surplus}
<1>0. StoreTypeOK /\ FilesInv /\ RecorderInv(r)
  BY DEF StoreInv
<1>1. /\ victims \in [Recorders -> SUBSET [id : Nat \ {0}, time : Nat]] /\ conv[r] \in Nat
      /\ DOMAIN disk \subseteq Paths
  BY <1>0 DEF StoreTypeOK
<1>2. disk' = disk /\ conv' = conv /\ pc[r] = "list" /\ victims'[r] = V
  BY <1>1 DEF RotateList, dir
<1>3. KeepLast > 0 /\ KeepLast \in Nat
  BY <1>0, <1>2, KeepAssumption DEF RecorderInv
<1>4. /\ Surplus \subseteq List /\ List \subseteq DOMAIN disk /\ IsFiniteSet(Surplus)
      /\ \A p : IsFiniteSet(Newer(p)) /\ Cardinality(Newer(p)) \in Nat
      /\ \A p \in Surplus : Cardinality(Newer(p)) >= KeepLast /\ disk[p].id # 0 /\ disk[p].time \in Nat
  BY <1>0, ListFacts DEF Surplus, List
<1>5. IsFiniteSet(V)
  <2> DEFINE f == [p \in Surplus |-> [id |-> disk[p].id, time |-> disk[p].time]]
  <2>1. f \in Surjection(Surplus, V)
    BY DEF Surjection
  <2> HIDE DEF f, V
  <2> QED
    BY <1>4, <2>1, FS_Surjection
<1>6. \A v, w \in V : v.time = w.time => v = w
  BY <1>0, <1>4 DEF FilesInv
<1>7. ASSUME NEW v \in V, ~Leftover(v.id)
      PROVE  /\ v.id # conv[r]
             /\ Cardinality(Newer(Session(v.id))) >= KeepLast + Cardinality({w \in V : w.time > v.time})
  <2>1. PICK p \in Surplus : v = [id |-> disk[p].id, time |-> disk[p].time]
    BY <1>7
  <2>2. v.id = disk[p].id /\ v.time = disk[p].time /\ p \in List /\ p \in Paths /\ p \in DOMAIN disk /\ v.id # 0
    BY <1>1, <1>4, <2>1
  <2>3. p[1] # "temp"
    BY <1>7, <2>2 DEF Leftover
  <2>4. p[2] \in Nat /\ p = Session(p[2])
    BY <2>2, <2>3, PathFacts
  <2>5. v.id = p[2] /\ p = Session(v.id) /\ Exists(v.id)
    BY <1>0, <2>2, <2>4 DEF FilesInv, Exists
  <2>6. v.id # conv[r]
    <3>1. SUFFICES ASSUME v.id = conv[r] PROVE FALSE
      OBVIOUS
    <3>2. Newer(p) = {}
      BY <1>2, <2>5, <3>1 DEF LiveInv
    <3>3. Cardinality(Newer(p)) = 0
      BY <3>2, FS_EmptySet
    <3> QED
      BY <1>3, <1>4, <3>3
  <2> DEFINE ahead == {q \in Surplus : disk[q].time > disk[p].time}
             W == {w \in V : w.time > v.time}
             f == [q \in ahead |-> [id |-> disk[q].id, time |-> disk[q].time]]
  <2>7. IsFiniteSet(ahead) /\ Cardinality(ahead) \in Nat /\ Cardinality(Newer(p)) >= KeepLast + Cardinality(ahead)
    BY <1>0, <1>3, SurplusBehind
  <2>8. f \in Surjection(ahead, W)
    <3>1. \A q \in ahead : f[q] \in W
      BY <2>2
    <3>2. ASSUME NEW w \in W PROVE \E q \in ahead : f[q] = w
      <4>1. PICK q \in Surplus : w = [id |-> disk[q].id, time |-> disk[q].time]
        OBVIOUS
      <4>2. q \in ahead
        BY <2>2, <4>1
      <4> QED
        BY <4>1, <4>2
    <3> QED
      BY <3>1, <3>2 DEF Surjection
  <2>9. Cardinality(W) <= Cardinality(ahead) /\ Cardinality(W) \in Nat
    <3> HIDE DEF f, W, ahead
    <3> QED
      BY <2>7, <2>8, FS_Surjection, FS_CardinalityType
  <2>10. Cardinality(Newer(p)) >= KeepLast + Cardinality(W)
    <3> HIDE DEF f, W, ahead
    <3> QED
      BY <1>3, <1>4, <2>7, <2>9
  <2> QED
    BY <2>5, <2>6, <2>10
<1>8. \A v \in victims'[r] : Leftover(v.id)' = Leftover(v.id) /\ Newer(Session(v.id))' = Newer(Session(v.id))
  BY <1>2 DEF Leftover, List, Newer
<1> HIDE DEF V
<1> QED
  BY <1>2, <1>5, <1>6, <1>7, <1>8 DEF VictimsInv

LEMMA VictimGone ==
    ASSUME StoreInv, NEW r \in Recorders, Delete(r), VictimsInv(r)
    PROVE  VictimsInv(r)'
<1>1. /\ victims \in [Recorders -> SUBSET [id : Nat \ {0}, time : Nat]] /\ StoreTypeOK
      /\ KeepLast \in Int
  BY KeepAssumption DEF StoreInv, StoreTypeOK
<1> DEFINE vs == victims[r]
<1>2. PICK v \in vs : /\ \A w \in vs : w.time <= v.time
                      /\ Remove(Session(v.id)) /\ victims' = [victims EXCEPT ![r] = @ \ {v}]
  BY DEF Delete
<1>3. victims'[r] = vs \ {v} /\ conv' = conv /\ pc[r] = "delete"
  BY <1>1, <1>2 DEF Delete
<1>4. /\ DOMAIN disk' = DOMAIN disk \ {Session(v.id)}
      /\ \A q \in DOMAIN disk : q # Session(v.id) => disk'[q] = disk[q]
  BY <1>2, RemoveFacts
<1>5. IsFiniteSet(vs) /\ (\A u, w \in vs : u.time = w.time => u = w) /\ \A u \in vs : u.time \in Nat /\ u.id \in Nat
  BY <1>1 DEF VictimsInv
<1>6. IsFiniteSet(vs \ {v})
  BY <1>5, FS_RemoveElement
<1>7. ASSUME NEW u \in vs \ {v}, ~ \E p \in List' : p[1] = "temp" /\ disk'[p].id = u.id
      PROVE  /\ u.id # conv[r]
             /\ Session(u.id) \in DOMAIN disk' =>
                    Cardinality({p \in List' : disk'[p].time > disk'[Session(u.id)].time})
                        >= KeepLast + Cardinality({w \in vs \ {v} : w.time > u.time})
  <2>1. ~Leftover(u.id)
    BY <1>3, <1>7, LeftoverStays DEF Acts
  <2>2. u.id # conv[r] /\ (Exists(u.id) => Cardinality(Newer(Session(u.id))) >=
                                             KeepLast + Cardinality({w \in vs : w.time > u.time}))
    BY <2>1 DEF VictimsInv
  <2>3. ASSUME Session(u.id) \in DOMAIN disk'
        PROVE  Cardinality({p \in List' : disk'[p].time > disk'[Session(u.id)].time})
                   >= KeepLast + Cardinality({w \in vs \ {v} : w.time > u.time})
    <3> DEFINE W == {w \in vs : w.time > u.time}
               W2 == {w \in vs \ {v} : w.time > u.time}
               N == Newer(Session(u.id))
               N2 == {p \in List' : disk'[p].time > disk'[Session(u.id)].time}
    <3>1. Exists(u.id) /\ Session(u.id) # Session(v.id) /\ disk'[Session(u.id)] = disk[Session(u.id)]
      BY <1>4, <2>3 DEF Exists
    <3>2. IsFiniteSet(N) /\ Cardinality(N) \in Nat
      BY <1>1, ListFacts
    <3>3. v \in W /\ W2 = W \ {v} /\ IsFiniteSet(W) /\ Cardinality(W) \in Nat
      <4>1. v \in W
        BY <1>2, <1>5
      <4>2. IsFiniteSet(W)
        BY <1>5, FS_Subset
      <4> QED
        BY <4>1, <4>2, FS_CardinalityType
    <3>4. Cardinality(W2) = Cardinality(W) - 1
      BY <3>3, FS_RemoveElement
    <3>5. N2 = N \ {Session(v.id)}
      BY <1>4, <3>1 DEF List, Newer
    <3>6. Cardinality(N2) >= Cardinality(N) - 1 /\ Cardinality(N2) \in Nat
      <4> HIDE DEF N, N2
      <4>1. /\ IsFiniteSet(N \ {Session(v.id)})
            /\ \/ Cardinality(N \ {Session(v.id)}) = Cardinality(N) - 1
               \/ Cardinality(N \ {Session(v.id)}) = Cardinality(N)
        BY <3>2, FS_RemoveElement
      <4>2. Cardinality(N2) \in Nat
        BY <3>5, <4>1, FS_CardinalityType
      <4> QED
        BY <3>2, <3>5, <4>1, <4>2
    <3>7. Cardinality(N) >= KeepLast + Cardinality(W)
      BY <2>2, <3>1
    <3> HIDE DEF N, N2, W, W2
    <3>8. Cardinality(N2) >= KeepLast + Cardinality(W2)
      BY <1>1, <3>2, <3>3, <3>4, <3>6, <3>7
    <3> QED
      BY <3>8 DEF N2, W2
  <2> QED
    BY <2>2, <2>3
<1> HIDE DEF vs
<1>8. \A u, w \in vs \ {v} : u.time = w.time => u = w
  BY <1>5
<1> QED
  BY <1>3, <1>6, <1>7, <1>8 DEF VictimsInv, Leftover, Newer, Exists

LEMMA AloneKept ==
    ASSUME StoreInv, AloneInv, [StoreNext]_storeVars
    PROVE  AloneInv'
<1> USE DEF Go
<1>1. CASE UNCHANGED storeVars
  BY <1>1 DEF storeVars, AloneInv, LiveInv, CopyInv, VictimsInv, Exists, Leftover, Newer, List
<1>2. ASSUME NEW r \in Recorders, Acts(r), bound' = bound, bound.recorders = {r}
      PROVE  (LiveInv(r) /\ CopyInv(r) /\ VictimsInv(r))'
  <2>1. LiveInv(r) /\ VictimsInv(r)
    BY <1>2 DEF AloneInv
  <2>2. LiveInv(r)' /\ CopyInv(r)'
    BY <1>2, <2>1, LiveStays, CopyStays
  <2>3. VictimsInv(r)'
    <3>1. CASE RotateList(r) \/ Delete(r)
      BY <2>1, <3>1, VictimsListed, VictimGone
    <3>2. CASE ~RotateList(r) /\ ~Delete(r)
      <4>1. pc \in [Recorders -> PCs]
        BY DEF StoreInv, StoreTypeOK
      <4>2. pc'[r] # "delete"
        BY <1>2, <3>2, <4>1 DEF Acts, Start, Resume, Quit, Die, New, NewTorn, AppendLine, AppendTorn, TurnWritten,
                                NamePending, NameWrite, NameRename, NameFails, Appended
      <4>3. victims'[r] = {}
        BY <1>2, <4>2, OwnKept DEF RecorderInv
      <4> QED
        BY <4>3, FS_EmptySet DEF VictimsInv
    <3> QED
      BY <3>1, <3>2
  <2> QED
    BY <2>2, <2>3
<1>3. ASSUME NEW q \in bound.recorders, Acts(q), bound' = bound, NEW r \in Recorders, bound'.recorders = {r}
      PROVE  (LiveInv(r) /\ CopyInv(r) /\ VictimsInv(r))'
  BY <1>2, <1>3
<1> QED
  BY <1>1, <1>3 DEF StoreNext, AloneInv

-----------------------------------------------------------------------------
(* What deaths and failed writes have cost so far: the entries lost, and    *)
(* the unfinished lines, each of which will cost one entry.                 *)

Costs == {c \in (1..sessions) \X (0..entries) :
             /\ Exists(c[1])
             /\ \/ c \in acked /\ c[2] \notin Loaded(c[1])
                \/ c[2] = 0 /\ disk[Session(c[1])].torn}

CostInv == Alone \/ names = 0 => Cardinality(Costs) <= faults

LEMMA CostsFinite ==
    ASSUME StoreTypeOK
    PROVE  IsFiniteSet(Costs) /\ Cardinality(Costs) \in Nat
<1>1. sessions \in Int /\ entries \in Int /\ 1 \in Int /\ 0 \in Int
  BY DEF StoreTypeOK
<1>2. IsFiniteSet(1..sessions) /\ IsFiniteSet(0..entries)
  BY <1>1, FS_Interval
<1>3. IsFiniteSet((1..sessions) \X (0..entries))
  BY <1>2, FS_Product
<1>4. IsFiniteSet(Costs)
  BY <1>3, FS_Subset DEF Costs
<1> QED
  BY <1>4, FS_CardinalityType

\* A file that has no fewer entries and no new unfinished line costs no more.
LEMMA NoNewCost ==
    ASSUME StoreInv, NEW c \in Costs', c \in acked' => c \in acked,
           Session(c[1]) \in DOMAIN disk,
           LET d == disk[Session(c[1])]
               e == disk'[Session(c[1])]
           IN  d.messages \cup d.missions \subseteq e.messages \cup e.missions /\ (e.torn => d.torn)
    PROVE  c \in Costs
<1>1. sessions \in Nat /\ entries \in Nat /\ acked \subseteq (1..sessions) \X (1..entries)
  BY DEF StoreInv, StoreTypeOK, ToldInv
<1>2. c = <<c[1], c[2]>> /\ c[1] \in Nat
  BY DEF Costs
<1>3. c[1] \in 1..sessions
  BY <1>2 DEF StoreInv, FilesInv, Exists
<1>4. CASE c \in acked
  <2>1. c \in (1..sessions) \X (0..entries)
    BY <1>1, <1>4
  <2>2. c[2] # 0
    BY <1>1, <1>4
  <2>3. c[2] \notin (disk'[Session(c[1])].messages \cup disk'[Session(c[1])].missions)
    BY <2>2 DEF Costs, Loaded
  <2> QED
    BY <1>4, <2>1, <2>3 DEF Costs, Exists, Loaded
<1>5. CASE c \notin acked
  <2>1. c[2] = 0 /\ disk'[Session(c[1])].torn
    BY <1>5 DEF Costs
  <2>2. c \in (1..sessions) \X (0..entries)
    BY <1>1, <1>2, <1>3, <2>1
  <2> QED
    BY <2>1, <2>2 DEF Costs, Exists
<1> QED
  BY <1>4, <1>5

\* A step costs nothing, replaces one cost by another, or is a fault and costs
\* one entry.
LEMMA CostStep ==
    ASSUME StoreInv, NEW r \in Recorders, Acts(r), NameRename(r) => LiveInv(r) /\ CopyInv(r)
    PROVE  \/ Costs' \subseteq Costs /\ faults' \in {faults, faults + 1}
           \/ \E b : Costs' \subseteq Costs \cup {b} /\ faults' = faults + 1
           \/ \E a \in Costs : \E b : Costs' \subseteq (Costs \ {a}) \cup {b} /\ faults' = faults
<1> USE DEF Go
<1>1. /\ \A p \in DOMAIN disk : disk[p] \in Files
      /\ conv[r] \in Nat /\ temp[r] \in Nat /\ pending[r] \in BOOLEAN
      /\ sessions \in Nat /\ entries \in Nat /\ names \in Nat /\ clock \in Nat
      /\ acked \subseteq (1..sessions) \X (1..entries)
  BY DEF StoreInv, StoreTypeOK, ToldInv
<1>2. \A c \in Costs' : c = <<c[1], c[2]>> /\ c[1] \in Nat /\ Session(c[1]) \in DOMAIN disk'
  BY DEF Costs, Exists
<1>3. \A i \in Nat, j \in Nat : Session(i) # Temp(j) /\ (Session(i) = Session(j) => i = j)
  BY PathFacts
<1>s. ASSUME acked' = acked,
             \A c \in Costs' : Session(c[1]) \in DOMAIN disk /\ disk'[Session(c[1])] = disk[Session(c[1])]
      PROVE  Costs' \subseteq Costs
  BY <1>s, NoNewCost
<1>p. ASSUME NEW p, NEW f \in Files, Put(p, f)
      PROVE  /\ DOMAIN disk' = DOMAIN disk \cup {p}
             /\ \A q \in DOMAIN disk : q # p => disk'[q] = disk[q]
             /\ disk'[p].messages = f.messages /\ disk'[p].missions = f.missions /\ disk'[p].torn = f.torn
  BY <1>1, <1>p, PutFacts
<1>4. CASE Start(r) \/ Resume(r) \/ Quit(r) \/ TurnWritten(r) \/ RotateList(r) \/ NamePending(r)
  <2>1. disk' = disk /\ acked' = acked /\ faults' = faults
    BY <1>4 DEF Start, Resume, Quit, TurnWritten, RotateList, NamePending, dir, recorder
  <2> QED
    BY <1>2, <1>s, <2>1
<1>5. CASE New(r)
  <2> DEFINE h == Headed(sessions', FirstTitle(r))
  <2>1. sessions' = sessions + 1 /\ sessions' \in Nat /\ acked' = acked /\ faults' = faults
    BY <1>1, <1>5 DEF New
  <2>2. h \in Files /\ ~h.torn /\ Put(Session(sessions'), h)
    BY <1>1, <1>5, <2>1, HeadedFacts DEF FirstTitle, New
  <2> HIDE DEF h
  <2>3. /\ DOMAIN disk' = DOMAIN disk \cup {Session(sessions')} /\ ~disk'[Session(sessions')].torn
        /\ \A q \in DOMAIN disk : q # Session(sessions') => disk'[q] = disk[q]
    BY <1>p, <2>2
  <2>4. ASSUME NEW c \in Costs' PROVE c[1] # sessions'
    <3>1. c \notin acked' => disk'[Session(c[1])].torn
      BY DEF Costs
    <3>2. c \in acked' => c[1] <= sessions
      BY <1>1, <2>1
    <3> QED
      BY <1>1, <2>1, <2>3, <3>1, <3>2
  <2>5. \A c \in Costs' : Session(c[1]) \in DOMAIN disk /\ disk'[Session(c[1])] = disk[Session(c[1])]
    BY <1>2, <1>3, <2>1, <2>3, <2>4
  <2> QED
    BY <1>s, <2>1, <2>5
<1>6. CASE NewTorn(r)
  <2>1. sessions' = sessions + 1 /\ sessions' \in Nat /\ acked' = acked /\ faults' = faults + 1
    BY <1>1, <1>6 DEF NewTorn
  <2>2. PICK id \in {0, sessions'} : Put(Session(sessions'), Scrap(id))
    BY <1>6 DEF NewTorn
  <2>3. Scrap(id) \in Files
    BY <2>1, HeadedFacts
  <2>4. /\ DOMAIN disk' = DOMAIN disk \cup {Session(sessions')}
        /\ \A q \in DOMAIN disk : q # Session(sessions') => disk'[q] = disk[q]
    BY <1>p, <2>2, <2>3
  <2>5. ASSUME NEW c \in Costs', c # <<sessions', 0>> PROVE c \in Costs
    <3>1. c[1] # sessions'
      <4>1. c \in acked' => c[1] <= sessions
        BY <1>1, <2>1
      <4>2. c \notin acked' => c[2] = 0
        BY DEF Costs
      <4> QED
        BY <1>1, <1>2, <2>1, <2>5, <4>1, <4>2
    <3>2. Session(c[1]) \in DOMAIN disk /\ disk'[Session(c[1])] = disk[Session(c[1])]
      BY <1>2, <1>3, <2>1, <2>4, <3>1
    <3> QED
      BY <2>1, <3>2, NoNewCost
  <2>6. Costs' \subseteq Costs \cup {<<sessions', 0>>}
    BY <2>5
  <2> QED
    BY <2>1, <2>6
<1>7. CASE AppendLine(r) /\ Session(conv[r]) \notin DOMAIN disk
  <2>1. disk' = disk /\ acked' = acked /\ faults' = faults
    BY <1>7 DEF AppendLine, dir
  <2> QED
    BY <1>2, <1>s, <2>1
<1>8. CASE AppendLine(r) /\ Session(conv[r]) \in DOMAIN disk
  <2> DEFINE s == Session(conv[r])
             b == <<conv[r], entries'>>
             a == <<conv[r], 0>>
  <2>1. acked' = acked \cup {b} /\ faults' = faults /\ entries' = entries + 1 /\ entries' \in Nat
    BY <1>1, <1>8 DEF AppendLine
  <2>2. PICK kind \in {"messages", "missions"} : Put(s, Written(disk[s], kind, entries'))
    BY <1>8 DEF AppendLine
  <2>3. /\ DOMAIN disk' = DOMAIN disk \cup {s} /\ s \in DOMAIN disk
        /\ \A q \in DOMAIN disk : q # s => disk'[q] = disk[q]
        /\ ~disk'[s].torn
        /\ disk'[s].messages \cup disk'[s].missions =
               disk[s].messages \cup disk[s].missions \cup (IF disk[s].torn THEN {} ELSE {entries'})
    <3> DEFINE f == Written(disk[s], kind, entries')
    <3>1. disk[s] \in Files
      BY <1>1, <1>8
    <3> HIDE DEF s
    <3>2. /\ f \in Files /\ ~f.torn
          /\ f.messages \cup f.missions = disk[s].messages \cup disk[s].missions \cup (IF disk[s].torn THEN {} ELSE {entries'})
      BY <2>1, <3>1, WrittenFacts
    <3>3. Put(s, f)
      BY <2>2
    <3> HIDE DEF f
    <3>4. /\ DOMAIN disk' = DOMAIN disk \cup {s}
          /\ \A q \in DOMAIN disk : q # s => disk'[q] = disk[q]
          /\ disk'[s].messages = f.messages /\ disk'[s].missions = f.missions /\ disk'[s].torn = f.torn
      BY <1>p, <3>2, <3>3
    <3>5. s \in DOMAIN disk
      BY <1>8 DEF s
    <3> QED
      BY <3>2, <3>4, <3>5
  <2>4. ASSUME NEW c \in Costs', c # b PROVE c \in Costs /\ c # a
    <3>1. c \in acked' => c \in acked
      BY <2>1, <2>4
    <3>2. CASE c[1] = conv[r]
      <4>1. c \in Costs
        BY <2>3, <3>1, <3>2, NoNewCost
      <4>2. c \in acked
        BY <2>3, <3>1, <3>2 DEF Costs
      <4>3. c[2] # 0
        BY <1>1, <4>2
      <4> QED
        BY <4>1, <4>3
    <3>3. CASE c[1] # conv[r]
      <4>1. Session(c[1]) # s
        BY <1>1, <1>2, <1>3, <3>3
      <4>2. Session(c[1]) \in DOMAIN disk /\ disk'[Session(c[1])] = disk[Session(c[1])]
        BY <1>2, <2>3, <4>1
      <4>3. c \in Costs
        BY <3>1, <4>2, NoNewCost
      <4> QED
        BY <3>3, <4>3
    <3> QED
      BY <3>2, <3>3
  <2>5. CASE disk[s].torn
    <3>1. conv[r] \in 1..sessions
      BY <1>1, <1>8 DEF StoreInv, FilesInv, Exists
    <3>2. a \in (1..sessions) \X (0..entries) /\ a[1] = conv[r] /\ a[2] = 0
      BY <1>1, <3>1
    <3>3. a \in Costs
      BY <1>8, <2>5, <3>2 DEF Costs, Exists
    <3>4. Costs' \subseteq (Costs \ {a}) \cup {b}
      BY <2>4
    <3> QED
      BY <2>1, <3>3, <3>4
  <2>6. CASE ~disk[s].torn
    <3>1. entries' \in disk'[s].messages \cup disk'[s].missions
      BY <2>3, <2>6
    <3>2. b \notin Costs'
      BY <1>1, <2>1, <2>3, <3>1 DEF Costs, Loaded
    <3> QED
      BY <2>1, <2>4, <3>2
  <2> QED
    BY <2>5, <2>6
<1>9. CASE AppendTorn(r)
  <2> DEFINE s == Session(conv[r])
             b == <<conv[r], 0>>
  <2>1. acked' = acked /\ faults' = faults + 1 /\ s \in DOMAIN disk /\ Put(s, [disk[s] EXCEPT !.torn = TRUE])
    BY <1>9 DEF AppendTorn
  <2>2. /\ DOMAIN disk' = DOMAIN disk \cup {s}
        /\ \A q \in DOMAIN disk : q # s => disk'[q] = disk[q]
        /\ disk'[s].messages = disk[s].messages /\ disk'[s].missions = disk[s].missions
    <3>1. disk[s] \in Files
      BY <1>1, <2>1
    <3> DEFINE f == [disk[s] EXCEPT !.torn = TRUE]
    <3> HIDE DEF s
    <3>2. f \in Files /\ f.messages = disk[s].messages /\ f.missions = disk[s].missions
      BY <3>1 DEF Files
    <3>3. Put(s, f)
      BY <2>1
    <3> HIDE DEF f
    <3> QED
      BY <1>p, <3>2, <3>3
  <2>3. ASSUME NEW c \in Costs', c # b PROVE c \in Costs
    <3>1. CASE c[1] = conv[r]
      <4>1. c[2] # 0
        BY <1>2, <2>3, <3>1
      <4>2. c \in acked /\ c[2] \notin (disk'[s].messages \cup disk'[s].missions)
        BY <2>1, <3>1, <4>1 DEF Costs, Loaded
      <4>3. c \in (1..sessions) \X (0..entries)
        BY <1>1, <4>2
      <4> QED
        BY <2>1, <2>2, <3>1, <4>2, <4>3 DEF Costs, Exists, Loaded
    <3>2. CASE c[1] # conv[r]
      <4>1. Session(c[1]) # s
        BY <1>1, <1>2, <1>3, <3>2
      <4>2. Session(c[1]) \in DOMAIN disk /\ disk'[Session(c[1])] = disk[Session(c[1])]
        BY <1>2, <2>1, <2>2, <4>1
      <4> QED
        BY <2>1, <4>2, NoNewCost
    <3> QED
      BY <3>1, <3>2
  <2>4. Costs' \subseteq Costs \cup {b}
    BY <2>3
  <2> QED
    BY <2>1, <2>4
<1>10. CASE Delete(r)
  <2>1. PICK v \in victims[r] : Remove(Session(v.id))
    BY <1>10 DEF Delete
  <2>2. acked' = acked /\ faults' = faults
    BY <1>10 DEF Delete
  <2>3. \A c \in Costs' : Session(c[1]) \in DOMAIN disk /\ disk'[Session(c[1])] = disk[Session(c[1])]
    BY <1>2, <2>1, RemoveFacts
  <2> QED
    BY <1>s, <2>2, <2>3
<1>11. CASE NameWrite(r)
  <2> DEFINE f == Rewritten(disk[Session(conv[r])])
  <2>1. acked' = acked /\ faults' = faults /\ names' \in Nat /\ Session(conv[r]) \in DOMAIN disk /\ Put(Temp(names'), f)
    BY <1>1, <1>11 DEF NameWrite, Loads
  <2>2. f \in Files
    BY <1>1, <2>1, RewrittenFacts
  <2> HIDE DEF f
  <2>3. \A c \in Costs' : Session(c[1]) \in DOMAIN disk /\ disk'[Session(c[1])] = disk[Session(c[1])]
    <3>1. /\ DOMAIN disk' = DOMAIN disk \cup {Temp(names')}
          /\ \A q \in DOMAIN disk : q # Temp(names') => disk'[q] = disk[q]
      BY <1>p, <2>1, <2>2
    <3> QED
      BY <1>2, <1>3, <2>1, <3>1
  <2> QED
    BY <1>s, <2>1, <2>3
<1>12. CASE NameRename(r)
  <2> DEFINE s == Session(conv[r])
             t == Temp(temp[r])
  <2>1. /\ acked' = acked /\ faults' = faults /\ pc[r] = "rename"
        /\ disk' = [p \in (DOMAIN disk \cup {s}) \ {t} |-> IF p = s THEN disk[t] ELSE disk[p]]
    BY <1>12 DEF NameRename
  <2>2. s \in DOMAIN disk /\ s # t
    BY <1>1, <1>3, <1>12, <2>1 DEF LiveInv, Exists
  <2>3. ~disk[t].torn /\ disk[t].messages = disk[s].messages /\ disk[t].missions = disk[s].missions
    BY <1>12, <2>1 DEF CopyInv
  <2>4. /\ DOMAIN disk' \subseteq DOMAIN disk /\ disk'[s] = disk[t]
        /\ \A q \in DOMAIN disk' : q # s => disk'[q] = disk[q]
    BY <2>1, <2>2
  <2>5. ASSUME NEW c \in Costs' PROVE c \in Costs
    <3>1. Session(c[1]) \in DOMAIN disk /\ Session(c[1]) \in DOMAIN disk'
      BY <1>2, <2>4
    <3>2. CASE Session(c[1]) = s
      <4> HIDE DEF s, t
      <4> QED
        BY <2>1, <2>3, <2>4, <3>1, <3>2, NoNewCost
    <3>3. CASE Session(c[1]) # s
      <4> HIDE DEF s, t
      <4> QED
        BY <2>1, <2>4, <3>1, <3>3, NoNewCost
    <3> QED
      BY <3>2, <3>3
  <2> QED
    BY <2>1, <2>5
<1>13. CASE NameFails(r)
  <2>1. acked' = acked /\ faults' = faults + 1 /\ Remove(Temp(temp[r]))
    BY <1>13 DEF NameFails
  <2>2. \A c \in Costs' : Session(c[1]) \in DOMAIN disk /\ disk'[Session(c[1])] = disk[Session(c[1])]
    BY <1>2, <2>1, RemoveFacts
  <2> QED
    BY <1>s, <2>1, <2>2
<1>14. CASE Die(r)
  <2>1. acked' = acked /\ faults' = faults + 1
    BY <1>14 DEF Die
  <2>2. \A c \in Costs' : Session(c[1]) \in DOMAIN disk /\ disk'[Session(c[1])] = disk[Session(c[1])]
    <3>1. CASE pc[r] # "rename"
      BY <1>2, <1>14, <3>1 DEF Die, dir
    <3>2. CASE pc[r] = "rename"
      <4>1. PICK f : Put(Temp(temp[r]), f)
        BY <1>14, <3>2 DEF Die
      <4>2. /\ DOMAIN disk' = DOMAIN disk \cup {Temp(temp[r])}
            /\ \A q \in DOMAIN disk : q # Temp(temp[r]) => disk'[q] = disk[q]
        BY <4>1 DEF Put
      <4> QED
        BY <1>1, <1>2, <1>3, <4>2
    <3> QED
      BY <3>1, <3>2
  <2> QED
    BY <1>s, <2>1, <2>2
<1> QED
  BY <1>4, <1>5, <1>6, <1>7, <1>8, <1>9, <1>10, <1>11, <1>12, <1>13, <1>14 DEF Acts

LEMMA RenameNumbered ==
    ASSUME StoreInv, NEW r \in Recorders, NameRename(r)
    PROVE  names # 0
<1>1. Temp(temp[r]) \in DOMAIN disk /\ temp[r] \in Nat /\ names \in Nat
  BY DEF StoreInv, StoreTypeOK, RecorderInv, Renaming, NameRename
<1>2. temp[r] \in 1..names
  BY <1>1 DEF StoreInv, FilesInv
<1> QED
  BY <1>1, <1>2

LEMMA CostKept ==
    ASSUME StoreInv, AloneInv, CostInv, [StoreNext]_storeVars
    PROVE  CostInv'
<1>1. CASE UNCHANGED storeVars
  BY <1>1 DEF storeVars, CostInv, Costs, Alone, Exists, Loaded
<1>2. ASSUME NEW r \in bound.recorders, Acts(r), bound' = bound, Alone \/ names' = 0 PROVE Cardinality(Costs') <= faults'
  <2>1. r \in Recorders /\ names \in Nat /\ names' \in {names, names + 1} /\ (Alone \/ names = 0)
    <3>1. r \in Recorders /\ names \in Nat
      BY BoundTypes DEF StoreInv, StoreTypeOK
    <3>2. names' \in {names, names + 1}
      BY <1>2 DEF Acts, Start, Resume, Quit, Die, New, NewTorn, AppendLine, AppendTorn, TurnWritten, RotateList,
                  Delete, NamePending, NameWrite, NameRename, NameFails
    <3> QED
      BY <1>2, <3>1, <3>2
  <2>2. NameRename(r) => LiveInv(r) /\ CopyInv(r)
    <3>1. CASE Alone
      BY <3>1 DEF Alone, AloneInv
    <3>2. ASSUME NameRename(r), names = 0 PROVE FALSE
      BY <2>1, <3>2, RenameNumbered
    <3> QED
      BY <2>1, <3>1, <3>2
  <2>3. IsFiniteSet(Costs) /\ Cardinality(Costs) \in Nat /\ Cardinality(Costs) <= faults /\ faults \in Nat
    BY <2>1, CostsFinite DEF StoreInv, StoreTypeOK, CostInv
  <2>4. ASSUME NEW S, IsFiniteSet(S), Costs' \subseteq S PROVE Cardinality(Costs') <= Cardinality(S) /\ Cardinality(Costs') \in Nat
    <3>1. IsFiniteSet(Costs') /\ Cardinality(Costs') <= Cardinality(S)
      BY <2>4, FS_Subset
    <3> QED
      BY <3>1, FS_CardinalityType
  <2>5. CASE Costs' \subseteq Costs /\ faults' \in {faults, faults + 1}
    <3>1. Cardinality(Costs') <= Cardinality(Costs) /\ Cardinality(Costs') \in Nat
      BY <2>3, <2>4, <2>5
    <3> QED
      BY <2>3, <2>5, <3>1
  <2>6. ASSUME NEW b, Costs' \subseteq Costs \cup {b}, faults' = faults + 1 PROVE Cardinality(Costs') <= faults'
    <3>1. IsFiniteSet(Costs \cup {b}) /\ Cardinality(Costs \cup {b}) <= Cardinality(Costs) + 1
      <4>1. /\ IsFiniteSet(Costs \cup {b})
            /\ Cardinality(Costs \cup {b}) = IF b \in Costs THEN Cardinality(Costs) ELSE Cardinality(Costs) + 1
        BY <2>3, FS_AddElement
      <4> QED
        BY <2>3, <4>1
    <3>2. Cardinality(Costs \cup {b}) \in Nat
      BY <3>1, FS_CardinalityType
    <3>3. Cardinality(Costs') <= Cardinality(Costs \cup {b}) /\ Cardinality(Costs') \in Nat
      BY <2>4, <2>6, <3>1
    <3> QED
      BY <2>3, <2>6, <3>1, <3>2, <3>3
  <2>7. ASSUME NEW a \in Costs, NEW b, Costs' \subseteq (Costs \ {a}) \cup {b}, faults' = faults PROVE Cardinality(Costs') <= faults'
    <3>1. IsFiniteSet(Costs \ {a}) /\ Cardinality(Costs \ {a}) = Cardinality(Costs) - 1
      BY <2>3, FS_RemoveElement
    <3>2. IsFiniteSet((Costs \ {a}) \cup {b}) /\ Cardinality((Costs \ {a}) \cup {b}) <= Cardinality(Costs)
      <4>1. Cardinality(Costs \ {a}) \in Nat
        BY <3>1, FS_CardinalityType
      <4>2. /\ IsFiniteSet((Costs \ {a}) \cup {b})
            /\ Cardinality((Costs \ {a}) \cup {b}) =
                   IF b \in Costs \ {a} THEN Cardinality(Costs \ {a}) ELSE Cardinality(Costs \ {a}) + 1
        BY <3>1, FS_AddElement
      <4> QED
        BY <2>3, <3>1, <4>1, <4>2
    <3>3. Cardinality((Costs \ {a}) \cup {b}) \in Nat
      BY <3>2, FS_CardinalityType
    <3>4. Cardinality(Costs') <= Cardinality((Costs \ {a}) \cup {b}) /\ Cardinality(Costs') \in Nat
      BY <2>4, <2>7, <3>2
    <3> QED
      BY <2>3, <2>7, <3>2, <3>3, <3>4
  <2> QED
    BY <1>2, <2>1, <2>2, <2>5, <2>6, <2>7, CostStep
<1> QED
  BY <1>1, <1>2 DEF StoreNext, CostInv, Alone

-----------------------------------------------------------------------------
(* Without faults: the sessions nobody is about to write to or to delete    *)
(* are KeepLast at most, or a recorder is on its way to rotate.             *)

Spare == {id \in 1..sessions :
             /\ Exists(id)
             /\ \A q \in Recorders : ~(pc[q] = "append" /\ conv[q] = id)
             /\ \A q \in Recorders : \A v \in victims[q] : v.id # id}

Rotating == \E q \in Recorders : pc[q] \in {"turn", "list"}

Quiet == KeepLast > 0 /\ faults = 0 /\ (Alone \/ names = 0)

RetainInv ==
    /\ \A q \in Interactive : pc[q] # "turn"
    /\ Quiet => /\ \A id \in 1..sessions : Exists(id) => disk[Session(id)].whole
                /\ \A n \in Nat : Temp(n) \in DOMAIN disk => \E q \in Recorders : pc[q] = "rename" /\ temp[q] = n
                /\ Rotating \/ Cardinality(Spare) <= KeepLast

LEMMA SpareFinite ==
    ASSUME StoreTypeOK
    PROVE  IsFiniteSet(Spare) /\ Cardinality(Spare) \in Nat
<1>1. sessions \in Int /\ 1 \in Int
  BY DEF StoreTypeOK
<1>2. IsFiniteSet(1..sessions)
  BY <1>1, FS_Interval
<1>3. IsFiniteSet(Spare)
  BY <1>2, FS_Subset DEF Spare
<1> QED
  BY <1>3, FS_CardinalityType

\* A step is no fault when it leaves none behind.
LEMMA QuietStep ==
    ASSUME StoreInv, NEW r \in Recorders, Acts(r), bound' = bound, Quiet'
    PROVE  /\ Quiet
           /\ Start(r) \/ Resume(r) \/ Quit(r) \/ New(r) \/ AppendLine(r) \/ TurnWritten(r) \/ RotateList(r)
              \/ Delete(r) \/ NamePending(r) \/ NameWrite(r) \/ NameRename(r)
           /\ NameWrite(r) \/ NameRename(r) => Alone
<1>1. faults \in Nat /\ names \in Nat /\ temp \in [Recorders -> Nat]
  BY DEF StoreInv, StoreTypeOK
<1>2. KeepLast > 0 /\ faults' = 0 /\ (Alone \/ names' = 0)
  BY DEF Quiet, Alone
<1>3. ~NewTorn(r) /\ ~AppendTorn(r) /\ ~NameFails(r) /\ ~Die(r)
  BY <1>1, <1>2 DEF NewTorn, AppendTorn, NameFails, Die
<1>4. /\ Start(r) \/ Resume(r) \/ Quit(r) \/ New(r) \/ AppendLine(r) \/ TurnWritten(r) \/ RotateList(r)
         \/ Delete(r) \/ NamePending(r) \/ NameWrite(r) \/ NameRename(r)
  BY <1>3 DEF Acts
<1>5. faults' = faults /\ names' \in {names, names + 1} /\ (names' = names \/ NameWrite(r))
  BY <1>4 DEF Start, Resume, Quit, New, AppendLine, TurnWritten, RotateList,
              Delete, NamePending, NameWrite, NameRename
<1>6. NameWrite(r) \/ NameRename(r) => names' # 0
  <2>1. CASE NameWrite(r)
    BY <1>1, <2>1 DEF NameWrite
  <2>2. CASE NameRename(r)
    BY <2>2, RenameNumbered DEF NameRename
  <2> QED
    BY <2>1, <2>2
<1> QED
  BY <1>1, <1>2, <1>4, <1>5, <1>6 DEF Quiet

\* What rotation has listed but not picked is KeepLast sessions at most.
LEMMA SpareListed ==
    ASSUME StoreInv, NEW r \in Recorders, RotateList(r), \A id \in 1..sessions : Exists(id) => disk[Session(id)].whole
    PROVE  Cardinality(Spare') <= KeepLast
<1>0. StoreTypeOK /\ FilesInv /\ RecorderInv(r)
  BY DEF StoreInv
<1>1. /\ victims \in [Recorders -> SUBSET [id : Nat \ {0}, time : Nat]] /\ sessions \in Nat
  BY <1>0 DEF StoreTypeOK
<1>2. /\ disk' = disk /\ sessions' = sessions /\ pc[r] = "list"
      /\ victims'[r] = {[id |-> disk[p].id, time |-> disk[p].time] : p \in Surplus}
  BY <1>1 DEF RotateList, dir
<1>3. KeepLast > 0
  BY <1>0, <1>2 DEF RecorderInv
<1>4. ASSUME NEW id \in Spare' PROVE Session(id) \in List \ Surplus /\ id \in Nat
  <2>1. id \in 1..sessions /\ Session(id) \in DOMAIN disk /\ \A v \in victims'[r] : v.id # id
    BY <1>2 DEF Spare, Exists
  <2>2. disk[Session(id)].whole
    BY <2>1 DEF Exists
  <2>3. disk[Session(id)].id = id /\ id # 0 /\ id \in Nat
    BY <1>0, <1>1, <2>1, <2>2 DEF FilesInv, Exists
  <2>4. Session(id) \notin Surplus
    <3> DEFINE w == [id |-> disk[Session(id)].id, time |-> disk[Session(id)].time]
    <3>1. w \notin victims'[r]
      BY <2>1, <2>3
    <3> QED
      BY <1>2, <3>1
  <2> QED
    BY <2>1, <2>3, <2>4 DEF List
<1>5. IsFiniteSet(List \ Surplus) /\ Cardinality(List \ Surplus) <= KeepLast
  BY <1>0, <1>3, NotSurplus
<1> DEFINE f == [id \in Spare' |-> Session(id)]
<1>6. f \in Injection(Spare', List \ Surplus)
  <2>1. f \in [Spare' -> List \ Surplus]
    BY <1>4
  <2>2. \A i, j \in Spare' : f[i] = f[j] => i = j
    BY <1>4, PathFacts
  <2> QED
    BY <2>1, <2>2 DEF Injection, IsInjective
<1>7. Cardinality(Spare') <= Cardinality(List \ Surplus) /\ IsFiniteSet(Spare')
  <2> HIDE DEF f
  <2> QED
    BY <1>5, <1>6, FS_Injection
<1>8. Cardinality(Spare') \in Nat /\ Cardinality(List \ Surplus) \in Nat
  BY <1>5, <1>7, FS_CardinalityType
<1> QED
  BY <1>5, <1>7, <1>8, KeepAssumption

\* A step that does not list for rotation makes no session spare, or is on the
\* way to rotate.
LEMMA SpareStays ==
    ASSUME StoreInv, AloneInv, NEW r \in Recorders, Acts(r), bound' = bound, Quiet', ~RotateList(r), RetainInv
    PROVE  pc'[r] \in {"turn", "list"} \/ (Spare' \subseteq Spare /\ pc[r] \notin {"turn", "list"})
<1> USE DEF Go
<1>1. /\ pc \in [Recorders -> PCs] /\ conv \in [Recorders -> Nat] /\ temp \in [Recorders -> Nat]
      /\ victims \in [Recorders -> SUBSET [id : Nat \ {0}, time : Nat]]
      /\ sessions \in Nat /\ names \in Nat /\ clock \in Nat
  BY DEF StoreInv, StoreTypeOK
<1>2. RecorderInv(r) /\ KeepLast > 0
  BY DEF StoreInv, Quiet
<1>3. \A q \in Recorders : q # r => pc'[q] = pc[q] /\ conv'[q] = conv[q] /\ victims'[q] = victims[q]
  BY OthersStay DEF StoreInv
<1>4. \A i \in Nat, j \in Nat : Session(i) # Temp(j) /\ (Session(i) = Session(j) => i = j)
  BY PathFacts
<1>5. ASSUME NEW id \in Spare', Session(id) \in DOMAIN disk, id \in 1..sessions,
             ~(pc[r] = "append" /\ conv[r] = id), \A v \in victims[r] : v.id # id
      PROVE  id \in Spare
  <2>1. \A q \in Recorders : ~(pc[q] = "append" /\ conv[q] = id) /\ \A v \in victims[q] : v.id # id
    BY <1>3, <1>5 DEF Spare
  <2> QED
    BY <1>5, <2>1 DEF Spare, Exists
<1>6. CASE Start(r) \/ Resume(r) \/ Quit(r) \/ NamePending(r)
  <2>1. disk' = disk /\ sessions' = sessions /\ victims[r] = {} /\ pc[r] \notin {"append", "turn", "list"}
    BY <1>2, <1>6 DEF Start, Resume, Quit, NamePending, dir, recorder, RecorderInv
  <2>2. \A id \in Spare' : id \in 1..sessions /\ Session(id) \in DOMAIN disk
    BY <2>1 DEF Spare, Exists
  <2> QED
    BY <1>5, <2>1, <2>2
<1>7. CASE New(r)
  <2>1. /\ sessions' = sessions + 1 /\ sessions' \in Nat /\ pc[r] = "idle" /\ victims[r] = {}
        /\ pc'[r] = "append" /\ conv'[r] = sessions'
        /\ DOMAIN disk' = DOMAIN disk \cup {Session(sessions')}
    BY <1>1, <1>2, <1>7 DEF New, RecorderInv, Put
  <2>2. ASSUME NEW id \in Spare' PROVE id \in 1..sessions /\ Session(id) \in DOMAIN disk
    <3>1. id \in 1..sessions' /\ Session(id) \in DOMAIN disk' /\ id # sessions'
      BY <2>1 DEF Spare, Exists
    <3> QED
      BY <1>1, <1>4, <2>1, <3>1
  <2> QED
    BY <1>5, <2>1, <2>2
<1>8. CASE AppendLine(r)
  <2>1. CASE Session(conv[r]) \in DOMAIN disk
    BY <1>1, <1>2, <1>8, <2>1 DEF AppendLine, Appended
  <2>2. CASE Session(conv[r]) \notin DOMAIN disk
    <3>1. disk' = disk /\ sessions' = sessions /\ victims' = victims /\ pc[r] \in {"append", "turn", "idle"}
      BY <1>8, <2>2 DEF AppendLine, dir, recorder, MayAppend
    <3>2. \A id \in Spare' : id \in 1..sessions /\ Session(id) \in DOMAIN disk
      BY <3>1 DEF Spare, Exists
    <3>3. \A id \in Spare' : ~(pc[r] = "append" /\ conv[r] = id)
      BY <2>2, <3>2
    <3>4. victims[r] = {}
      BY <1>2, <3>1 DEF RecorderInv
    <3>5. CASE pc[r] = "turn"
      <4>1. r \notin Interactive
        BY <3>5 DEF RetainInv
      <4> QED
        BY <1>1, <1>8, <2>2, <4>1 DEF AppendLine
    <3> QED
      BY <1>5, <3>1, <3>2, <3>3, <3>4, <3>5
  <2> QED
    BY <2>1, <2>2
<1>9. CASE TurnWritten(r)
  BY <1>1, <1>2, <1>9 DEF TurnWritten
<1>10. CASE Delete(r)
  <2>1. PICK v \in victims[r] : Remove(Session(v.id)) /\ victims' = [victims EXCEPT ![r] = @ \ {v}]
    BY <1>10 DEF Delete
  <2>2. pc[r] = "delete" /\ sessions' = sessions /\ victims'[r] = victims[r] \ {v}
        /\ DOMAIN disk' = DOMAIN disk \ {Session(v.id)}
    BY <1>1, <1>10, <2>1, RemoveFacts DEF Delete
  <2>3. ASSUME NEW id \in Spare' PROVE id \in 1..sessions /\ Session(id) \in DOMAIN disk /\ \A w \in victims[r] : w.id # id
    <3>1. id \in 1..sessions /\ Session(id) \in DOMAIN disk' /\ \A w \in victims'[r] : w.id # id
      BY <2>2 DEF Spare, Exists
    <3>2. v.id # id
      BY <2>2, <3>1
    <3> QED
      BY <2>2, <3>1, <3>2
  <2> QED
    BY <1>5, <2>2, <2>3
<1>11. CASE NameWrite(r) \/ NameRename(r)
  <2>1. sessions' = sessions /\ pc[r] \in {"idle", "rename"} /\ victims[r] = {}
    BY <1>2, <1>11 DEF NameWrite, NameRename, RecorderInv
  <2>2. ASSUME NEW id \in Spare' PROVE id \in 1..sessions /\ Session(id) \in DOMAIN disk
    <3>1. id \in 1..sessions /\ Session(id) \in DOMAIN disk' /\ id \in Nat
      BY <1>1, <2>1 DEF Spare, Exists
    <3>2. CASE NameWrite(r)
      BY <1>1, <1>4, <3>1, <3>2 DEF NameWrite, Put
    <3>3. CASE NameRename(r)
      <4>1. Alone
        BY <1>11, QuietStep
      <4>2. r \in bound.recorders
        BY <1>2, <3>3 DEF NameRename, RecorderInv
      <4>3. LiveInv(r)
        BY <4>1, <4>2 DEF Alone, AloneInv
      <4>4. Session(conv[r]) \in DOMAIN disk
        BY <3>3, <4>3 DEF NameRename, LiveInv, Exists
      <4> QED
        BY <3>1, <3>3, <4>4 DEF NameRename
    <3> QED
      BY <1>11, <3>2, <3>3
  <2> QED
    BY <1>5, <2>1, <2>2
<1> QED
  BY <1>6, <1>7, <1>8, <1>9, <1>10, <1>11, QuietStep

LEMMA RetainKept ==
    ASSUME StoreInv, AloneInv, RetainInv, [StoreNext]_storeVars
    PROVE  RetainInv'
<1> USE DEF Go
<1>1. CASE UNCHANGED storeVars
  BY <1>1 DEF storeVars, RetainInv, Quiet, Alone, Rotating, Spare, Exists
<1>2. ASSUME NEW r \in bound.recorders, Acts(r), bound' = bound PROVE RetainInv'
  <2>1. r \in Recorders
    BY BoundTypes DEF StoreInv
  <2>2. /\ pc \in [Recorders -> PCs] /\ temp \in [Recorders -> Nat] /\ pending \in [Recorders -> BOOLEAN]
        /\ sessions \in Nat /\ names \in Nat /\ clock \in Nat /\ StoreTypeOK
    BY DEF StoreInv, StoreTypeOK
  <2>3. \A q \in Recorders : q # r => pc'[q] = pc[q] /\ temp'[q] = temp[q]
    BY <1>2, <2>1, <2>2, OthersStay
  <2>4. \A q \in Interactive : pc'[q] # "turn"
    <3>1. \A q \in Interactive : q \in Recorders /\ pc[q] # "turn"
      BY RecorderAssumption DEF RetainInv
    <3>2. r \in Interactive => pc'[r] # "turn"
      BY <1>2, <2>1, <2>2, <3>1 DEF Acts, Start, Resume, Quit, Die, New, NewTorn, AppendLine, AppendTorn, TurnWritten,
                        RotateList, Delete, NamePending, NameWrite, NameRename, NameFails, Appended
    <3> QED
      BY <2>3, <3>1, <3>2
  <2>5. ASSUME Quiet'
        PROVE  /\ \A id \in 1..sessions' : Session(id) \in DOMAIN disk' => disk'[Session(id)].whole
               /\ \A n \in Nat : Temp(n) \in DOMAIN disk' => \E q \in Recorders : pc'[q] = "rename" /\ temp'[q] = n
               /\ Rotating' \/ Cardinality(Spare') <= KeepLast
    <3>1. Quiet
      BY <1>2, <2>1, <2>5, QuietStep
    <3>2. /\ Start(r) \/ Resume(r) \/ Quit(r) \/ New(r) \/ AppendLine(r) \/ TurnWritten(r) \/ RotateList(r)
             \/ Delete(r) \/ NamePending(r) \/ NameWrite(r) \/ NameRename(r)
      BY <1>2, <2>1, <2>5, QuietStep
    <3>3. /\ \A id \in 1..sessions : Exists(id) => disk[Session(id)].whole
          /\ \A n \in Nat : Temp(n) \in DOMAIN disk => \E q \in Recorders : pc[q] = "rename" /\ temp[q] = n
          /\ Rotating \/ Cardinality(Spare) <= KeepLast
      BY <3>1 DEF RetainInv
    <3>4. \A id \in 1..sessions : Session(id) \in DOMAIN disk' => disk'[Session(id)].whole
      BY <1>2, <2>1, <3>3, WholeStays
    <3>5. ASSUME NEW id \in 1..sessions', Session(id) \in DOMAIN disk' PROVE disk'[Session(id)].whole
      <4>1. CASE New(r)
        <5> DEFINE h == Headed(sessions', FirstTitle(r))
        <5>1. sessions' = sessions + 1 /\ sessions' \in Nat /\ Put(Session(sessions'), h)
          BY <2>2, <4>1 DEF New
        <5>2. h \in Files /\ h.whole
          BY <2>1, <2>2, <5>1, HeadedFacts DEF FirstTitle
        <5> HIDE DEF h
        <5>3. disk'[Session(sessions')].whole
          BY <2>2, <5>1, <5>2, PutFacts
        <5> QED
          BY <2>2, <3>4, <3>5, <5>1, <5>3
      <4>2. CASE ~New(r)
        <5>1. sessions' = sessions
          BY <3>2, <4>2 DEF Start, Resume, Quit, AppendLine, TurnWritten, RotateList,
                            Delete, NamePending, NameWrite, NameRename
        <5> QED
          BY <3>4, <3>5, <5>1
      <4> QED
        BY <4>1, <4>2
    <3>6. ASSUME NEW n \in Nat, Temp(n) \in DOMAIN disk' PROVE \E q \in Recorders : pc'[q] = "rename" /\ temp'[q] = n
      <4>0. \A i \in Nat, j \in Nat : Session(i) # Temp(j) /\ (Temp(i) = Temp(j) => i = j)
        BY PathFacts
      <4>1. CASE NameWrite(r) /\ n = names'
        BY <2>1, <2>2, <4>1 DEF NameWrite
      <4>2. CASE ~(NameWrite(r) /\ n = names')
        <5>1. Temp(n) \in DOMAIN disk /\ (NameRename(r) => n # temp[r])
          <6>1. CASE NameWrite(r)
            <7>1. DOMAIN disk' = DOMAIN disk \cup {Temp(names')} /\ names' \in Nat
              BY <2>2, <6>1 DEF NameWrite, Put
            <7> QED
              BY <3>6, <4>0, <4>2, <6>1, <7>1 DEF NameWrite, NameRename
          <6>2. CASE NameRename(r)
            <7>1. DOMAIN disk' = (DOMAIN disk \cup {Session(conv[r])}) \ {Temp(temp[r])} /\ conv[r] \in Nat
              BY <2>1, <2>2, <6>2 DEF NameRename, StoreTypeOK
            <7> QED
              BY <3>6, <4>0, <6>2, <7>1
          <6>3. CASE New(r)
            <7>1. DOMAIN disk' = DOMAIN disk \cup {Session(sessions')} /\ sessions' \in Nat /\ pc[r] # "rename"
              BY <2>2, <6>3 DEF New, Put
            <7> QED
              BY <3>6, <4>0, <7>1 DEF NameRename
          <6>4. CASE AppendLine(r)
            <7>1. DOMAIN disk' \subseteq DOMAIN disk \cup {Session(conv[r])} /\ conv[r] \in Nat /\ pc[r] # "rename"
              BY <2>1, <2>2, <6>4 DEF AppendLine, Put, dir, MayAppend, StoreTypeOK
            <7> QED
              BY <3>6, <4>0, <7>1 DEF NameRename
          <6>5. CASE Start(r) \/ Resume(r) \/ Quit(r) \/ TurnWritten(r) \/ RotateList(r) \/ NamePending(r)
            BY <3>6, <6>5 DEF Start, Resume, Quit, TurnWritten, RotateList, NamePending, dir, recorder, NameRename
          <6>6. CASE Delete(r)
            BY <3>6, <6>6 DEF Delete, Remove, NameRename
          <6> QED
            BY <3>2, <6>1, <6>2, <6>3, <6>4, <6>5, <6>6
        <5>2. PICK q \in Recorders : pc[q] = "rename" /\ temp[q] = n
          BY <3>3, <5>1
        <5>3. q # r
          BY <3>2, <5>1, <5>2 DEF Start, Resume, Quit, New, AppendLine, TurnWritten, RotateList,
                                  Delete, NamePending, NameWrite, MayAppend
        <5> QED
          BY <2>3, <5>2, <5>3
      <4> QED
        BY <4>1, <4>2
    <3>7. Rotating' \/ Cardinality(Spare') <= KeepLast
      <4>1. CASE RotateList(r)
        BY <2>1, <3>3, <4>1, SpareListed
      <4>2. CASE ~RotateList(r)
        <5>1. pc'[r] \in {"turn", "list"} \/ (Spare' \subseteq Spare /\ pc[r] \notin {"turn", "list"})
          BY <1>2, <2>1, <2>5, <4>2, SpareStays
        <5>2. CASE Spare' \subseteq Spare /\ pc[r] \notin {"turn", "list"} /\ ~Rotating
          <6>1. IsFiniteSet(Spare) /\ Cardinality(Spare) \in Nat /\ Cardinality(Spare) <= KeepLast
            BY <2>2, <3>3, <5>2, SpareFinite
          <6>2. Cardinality(Spare') <= Cardinality(Spare) /\ IsFiniteSet(Spare')
            BY <5>2, <6>1, FS_Subset
          <6>3. Cardinality(Spare') \in Nat
            BY <6>2, FS_CardinalityType
          <6> QED
            BY <6>1, <6>2, <6>3, KeepAssumption
        <5>3. CASE pc[r] \notin {"turn", "list"} /\ Rotating
          BY <2>3, <5>3 DEF Rotating
        <5> QED
          BY <2>1, <5>1, <5>2, <5>3 DEF Rotating
      <4> QED
        BY <4>1, <4>2
    <3> QED
      BY <3>5, <3>6, <3>7
  <2> QED
    BY <2>4, <2>5 DEF RetainInv, Exists
<1> QED
  BY <1>1, <1>2 DEF StoreNext

-----------------------------------------------------------------------------
StoreKept == StoreInv /\ AloneInv /\ CostInv /\ RetainInv

LEMMA StoreKeptInit ==
    ASSUME StoreInit
    PROVE  StoreKept
<1>1. StoreInv /\ DOMAIN disk = {} /\ sessions = 0 /\ faults = 0
  BY StoreInvInit DEF StoreInit
<1>2. \A r \in Recorders : pc[r] = "off" /\ conv[r] = 0 /\ victims[r] = {}
  BY DEF StoreInit
<1>3. AloneInv
  BY <1>2, FS_EmptySet DEF AloneInv, LiveInv, CopyInv, VictimsInv
<1>4. Costs = {} /\ Spare = {}
  BY <1>1 DEF Costs, Spare, Exists
<1>5. Cardinality(Costs) = 0 /\ Cardinality(Spare) = 0
  BY <1>4, FS_EmptySet
<1>6. CostInv
  BY <1>1, <1>5 DEF CostInv
<1>7. RetainInv
  BY <1>1, <1>2, <1>5, RecorderAssumption, KeepAssumption DEF RetainInv, Quiet, Exists
<1> QED
  BY <1>1, <1>3, <1>6, <1>7 DEF StoreKept

LEMMA StoreKeptStep ==
    ASSUME StoreKept, [StoreNext]_storeVars
    PROVE  StoreKept'
BY StoreInvKept, AloneKept, CostKept, RetainKept DEF StoreKept

LEMMA LossFew ==
    ASSUME StoreInv, CostInv, Alone \/ names = 0
    PROVE  LossBounded
<1>1. /\ sessions \in Nat /\ entries \in Nat /\ faults \in Nat /\ acked \subseteq (1..sessions) \X (1..entries)
      /\ IsFiniteSet(Costs) /\ Cardinality(Costs) \in Nat /\ Cardinality(Costs) <= faults
  BY CostsFinite DEF StoreInv, StoreTypeOK, ToldInv, CostInv
<1>2. Lost \subseteq Costs
  BY <1>1 DEF Lost, Costs
<1>3. Cardinality(Lost) <= Cardinality(Costs) /\ IsFiniteSet(Lost)
  BY <1>1, <1>2, FS_Subset
<1>4. Cardinality(Lost) \in Nat
  BY <1>3, FS_CardinalityType
<1> QED
  BY <1>1, <1>3, <1>4 DEF LossBounded

LEMMA AtRest ==
    ASSUME StoreInv, RetainInv
    PROVE  RetentionBounded
<1> SUFFICES ASSUME Quiet, \A r \in Recorders : pc[r] \in {"off", "idle"} PROVE Cardinality(List) <= KeepLast
  BY DEF RetentionBounded, Quiet
<1>1. /\ StoreTypeOK /\ FilesInv /\ DOMAIN disk \subseteq Paths /\ \A q \in Recorders : victims[q] = {}
  BY DEF StoreInv, StoreTypeOK, RecorderInv
<1>2. ~Rotating /\ Cardinality(Spare) <= KeepLast /\ \A n \in Nat : Temp(n) \notin DOMAIN disk
  BY DEF RetainInv, Rotating
<1>3. ASSUME NEW p \in List PROVE p[2] \in Spare /\ p = Session(p[2])
  <2>1. p \in DOMAIN disk /\ p \in Paths
    BY <1>1 DEF List
  <2>2. p[2] \in Nat /\ p = Session(p[2])
    BY <1>2, <2>1, PathFacts
  <2>3. p[2] \in 1..sessions /\ Exists(p[2])
    BY <1>1, <2>1, <2>2 DEF FilesInv, Exists
  <2> QED
    BY <1>1, <2>2, <2>3 DEF Spare
<1> DEFINE f == [p \in List |-> p[2]]
<1>4. f \in Injection(List, Spare)
  <2>1. f \in [List -> Spare]
    BY <1>3
  <2>2. \A p, q \in List : f[p] = f[q] => p = q
    BY <1>3
  <2> QED
    BY <2>1, <2>2 DEF Injection, IsInjective
<1>5. IsFiniteSet(Spare) /\ Cardinality(Spare) \in Nat
  BY <1>1, SpareFinite
<1>6. Cardinality(List) <= Cardinality(Spare) /\ IsFiniteSet(List)
  <2> HIDE DEF f
  <2> QED
    BY <1>4, <1>5, FS_Injection
<1>7. Cardinality(List) \in Nat
  BY <1>6, FS_CardinalityType
<1> QED
  BY <1>2, <1>5, <1>6, <1>7, KeepAssumption

\* What convo/store.go promises: a session that recorded an entry loads, a title
\* told to be set is set, a fault costs one entry at most unless a session is renamed
\* beside others, alone the session in use stays, and at rest no more than KeepLast
\* sessions are listed.
THEOREM StoreAlwaysKeeps == StoreSpec => []StoreKeeps
<1>1. ASSUME StoreKept PROVE StoreKeeps
  <2>1. StoreInv /\ AloneInv /\ CostInv /\ RetainInv
    BY <1>1 DEF StoreKept
  <2>2. ConversationLoads /\ NamePersisted /\ RetentionBounded
    BY <2>1, AtRest DEF StoreInv, ToldInv
  <2>3. ASSUME Alone PROVE LiveKept
    <3>1. PICK q \in Recorders : bound.recorders = {q}
      BY <2>3 DEF Alone
    <3>2. LiveInv(q) /\ \A r \in Recorders : r # q => pc[r] = "off"
      BY <2>1, <3>1 DEF AloneInv, StoreInv, RecorderInv
    <3> QED
      BY <3>2 DEF LiveKept, LiveInv
  <2> QED
    BY <2>1, <2>2, <2>3, LossFew DEF StoreKeeps
<1>2. StoreKept => StoreKeeps
  BY <1>1
<1> QED
  BY <1>2, StoreKeptInit, StoreKeptStep, PTL DEF StoreSpec

\* Alone, a session whose file is removed had KeepLast more recent ones listed
\* at that moment, unless a leftover temporary file lists it too.
THEOREM RecentAlwaysKept == StoreSpec => KeepsRecent
<1> DEFINE Recent == \A id \in 1..MaxSessions :
                         Alone /\ Exists(id) /\ ~Exists(id)' /\ ~Leftover(id)
                             => Cardinality(Newer(Session(id))) >= KeepLast
<1>1. ASSUME StoreKept, [StoreNext]_storeVars PROVE [Recent]_storeVars
  <2>1. SUFFICES ASSUME NEW id \in 1..MaxSessions, Alone, Exists(id), ~Exists(id)', ~Leftover(id), StoreNext
                 PROVE  Cardinality(Newer(Session(id))) >= KeepLast
    <3>1. CASE UNCHANGED storeVars
      BY <3>1
    <3> QED
      BY <1>1, <3>1
  <2>2. PICK r \in bound.recorders : Acts(r)
    BY <2>1 DEF StoreNext
  <2>3. r \in Recorders /\ StoreInv /\ VictimsInv(r) /\ id \in Nat
    BY <1>1, <2>1, <2>2, LimitAssumption DEF Alone, StoreKept, AloneInv
  <2>4. PICK v \in victims[r] : v.id = id /\ \A w \in victims[r] : w.time <= v.time
    BY <2>1, <2>2, <2>3, SessionStays DEF Exists
  <2>5. \A w \in victims[r] : w.time \in Nat
    BY <2>3 DEF StoreInv, StoreTypeOK
  <2>6. {w \in victims[r] : w.time > v.time} = {}
    BY <2>4, <2>5
  <2>7. Cardinality({w \in victims[r] : w.time > v.time}) = 0
    BY <2>6, FS_EmptySet
  <2>8. Cardinality(Newer(Session(id))) >= KeepLast + Cardinality({w \in victims[r] : w.time > v.time})
    BY <2>1, <2>3, <2>4 DEF VictimsInv
  <2> QED
    BY <2>7, <2>8, KeepAssumption
<1> QED
  BY <1>1, StoreKeptInit, StoreKeptStep, PTL DEF StoreSpec, KeepsRecent
=============================================================================
