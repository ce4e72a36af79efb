------------------------------- MODULE Matching ------------------------------
(* catalog/resolve.go: how well a query matches a reference. matchQuality   *)
(* is a dynamic program over the runes that are not separators; here a rune *)
(* is a member of a small set, a reference a sequence of runes and the set  *)
(* of positions that start a word. Scores are hundredths.                   *)
EXTENDS Integers, Sequences, FiniteSetsExt, SequencesExt

Match == 100
WordStart == 60
Contiguous == 40
Gap == 4

StartBonus(starts, j) == IF j \in starts THEN WordStart ELSE 0

(* score[i] gives the positions the i-th rune may land on, each with what    *)
(* the first i runes are worth there; other positions are at minus infinity.*)
FirstRow(rune, target, starts) ==
    [j \in {j \in 1 .. Len(target) : target[j] = rune} |-> Match + StartBonus(starts, j)]

(* The best of the row before, charged for the runes skipped, and the       *)
(* contiguity bonus if that best is the neighbour.                          *)
Earlier(row, j) == {k \in DOMAIN row : k < j}
Charged(row, k, j) == row[k] - Gap * (j - 1 - k)
FromNeighbour(row, j) ==
    j - 1 \in DOMAIN row /\ \A k \in Earlier(row, j - 1) : Charged(row, k, j) < Charged(row, j - 1, j)
NextRow(row, rune, target, starts) ==
    [j \in {j \in 1 .. Len(target) : target[j] = rune /\ Earlier(row, j) # {}} |->
        Max({Charged(row, k, j) : k \in Earlier(row, j)}) + Match + StartBonus(starts, j)
        + IF FromNeighbour(row, j) THEN Contiguous ELSE 0]

Score(query, target, starts) ==
    LET score[i \in 1 .. Len(query)] ==
            IF i = 1 THEN FirstRow(query[i], target, starts)
            ELSE NextRow(score[i - 1], query[i], target, starts)
    IN  score

LastRow(query, target, starts) == Score(query, target, starts)[Len(query)]
Matches(query, target, starts) ==
    Len(query) \in 1 .. Len(target) /\ DOMAIN LastRow(query, target, starts) # {}
Quality(query, target, starts) == Max(Range(LastRow(query, target, starts)))

(* The reference definition: every way of placing the query on the target.  *)
Placements(query, target) ==
    {at \in [1 .. Len(query) -> 1 .. Len(target)] :
        /\ \A i \in 1 .. Len(query) : query[i] = target[at[i]]
        /\ \A i \in 1 .. Len(query) - 1 : at[i] < at[i + 1]}
Gain(at, starts, i) ==
    Match + StartBonus(starts, at[i])
    + IF i = 1 THEN 0 ELSE IF at[i] = at[i - 1] + 1 THEN Contiguous ELSE -Gap * (at[i] - at[i - 1] - 1)
Worth(at, starts) ==
    LET sum[i \in 0 .. Len(at)] == IF i = 0 THEN 0 ELSE sum[i - 1] + Gain(at, starts, i)
    IN  sum[Len(at)]

(* A match is found exactly when there is a placement, is never worth more  *)
(* than the best one, and misses it by less than a contiguity bonus for each*)
(* rune after the first (a run that begins late loses to an earlier word).  *)
MatchedAsPlaced(query, target, starts) ==
    LET worths == {Worth(at, starts) : at \in Placements(query, target)}
    IN  /\ Matches(query, target, starts) <=> Len(query) > 0 /\ worths # {}
        /\ Matches(query, target, starts) =>
              LET found == Quality(query, target, starts)
              IN  found <= Max(worths) /\ Max(worths) - found <= Contiguous * (Len(query) - 1)
=============================================================================
