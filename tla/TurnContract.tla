---------------------------- MODULE TurnContract ----------------------------
(***************************************************************************)
(* What an agent turn promises whoever owns the history, whatever the      *)
(* model asks for and however the turn ends: the history only grows; the   *)
(* calls of an answer are replied to once each, in the order asked, right  *)
(* behind it and before anything else is said; and a turn that ends        *)
(* replies to the rest first.  The one exception is an answer cut while it *)
(* streams: its calls stay without replies, and nothing follows them.      *)
(***************************************************************************)
EXTENDS Integers, Sequences

CONSTANTS
    Call,       \* calls the model may make
    Verdict     \* how a turn may end

VARIABLES
    log,        \* what was said, asked and replied
    due,        \* the calls without a reply, in the order asked
    verdict
vars == <<log, due, verdict>>

Words        == [kind |-> "words", calls |-> <<>>]
Asked(calls) == [kind |-> "asked", calls |-> calls]
Cut(calls)   == [kind |-> "cut", calls |-> calls]
Replied(c)   == [kind |-> "replied", calls |-> <<c>>]
Replies(calls) == [k \in DOMAIN calls |-> Replied(calls[k])]

Init == log = <<Words>> /\ due = <<>> /\ verdict = "running"

\* The user says more, between answers only.
Say == /\ verdict = "running" /\ due = <<>>
       /\ log' = log \o [k \in 1..(Len(log') - Len(log)) |-> Words]
       /\ UNCHANGED <<due, verdict>>

\* The model asks for a batch once the one before it has its replies.
Ask == /\ verdict = "running" /\ due = <<>>
       /\ due' \in Seq(Call) \ {<<>>}
       /\ log' = Append(log, Asked(due'))
       /\ UNCHANGED verdict

\* The oldest call without a reply gets its own.
Reply == /\ verdict = "running" /\ due # <<>>
         /\ log' = Append(log, Replied(Head(due)))
         /\ due' = Tail(due)
         /\ UNCHANGED verdict

Ends == verdict = "running" /\ verdict' \in Verdict /\ due' = <<>>

\* The turn ends: every call that is due gets its reply.
Finish == Ends /\ log' = log \o Replies(due)

\* It ends with an answer, and with the replies to what that asks for.
Answer ==
    /\ Ends /\ due = <<>> /\ Len(log') > Len(log)
    /\ LET calls == log'[Len(log) + 1].calls
       IN  calls \in Seq(Call) /\ log' = Append(log, Asked(calls)) \o Replies(calls)

\* The user cuts an answer while it streams.
CutOff ==
    /\ Ends /\ verdict' = "aborted" /\ due = <<>> /\ Len(log') > Len(log)
    /\ LET calls == log'[Len(log) + 1].calls
       IN  calls \in Seq(Call) /\ log' = Append(log, Cut(calls))

Next == Say \/ Ask \/ Reply \/ Finish \/ Answer \/ CutOff
Spec == Init /\ [][Next]_vars
=============================================================================
