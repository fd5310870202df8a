----------------------------- MODULE MCAdvisor ------------------------------
(***************************************************************************)
(* A small instance of Advisor, and of the monitor in it, for TLC.         *)
(***************************************************************************)
EXTENDS Advisor

CONSTANTS a, b

ByName == [m \in Markets |-> IF m = a THEN 1 ELSE 2]
OneTheme == [m \in Markets |-> "macro"]
AThenB == [m \in Markets |-> IF m = a THEN 3 ELSE 4]

ARow(row, mid) == [row |-> row, mid |-> IF row = "priced" THEN mid ELSE 0, half |-> 1]

\* A tick with a row of either token, as given; the midpoints add up to 100.
ATick(m, time, mid, arb, yes, no) ==
    [market |-> m, time |-> time, arb |-> arb,
     token |-> [side \in Sides |-> IF side = "yes" THEN ARow(yes, mid) ELSE ARow(no, 100 - mid)]]

\* A bet on YES of a, whose NO book was one-sided.  Of b a bet on NO; another, by a
\* scan that could not have the NO book, so that it is the older row that prices
\* it; and, at the moment a resolves, a bet on YES and an arbitrage, with a NO book
\* that has no midpoint.
FewQuotes ==
    {ATick(a, 1, 8, NoArb, "priced", "unpriced"), ATick(b, 1, 94, NoArb, "priced", "priced"),
     ATick(b, 2, 88, NoArb, "priced", "missing"),
     ATick(b, 3, 10, [edge |-> 20, capital |-> 480], "priced", "unpriced")}

FewRecords ==
    {[id |-> 1, estimate |-> 80, outcome |-> 0], [id |-> 2, estimate |-> 90, outcome |-> 1]}

\* The first directional bets win, or lose.
AllWonOrLost == {[m \in Markets |-> IF m = a THEN 1 ELSE 0], [m \in Markets |-> IF m = a THEN 0 ELSE 1]}

\* Beside the scanners: the three of b; biased bettors like the last two as well.
ScannedQuotes == {q \in FewQuotes : q.market = b}

\* Two arbitrages of one market in one millisecond.
TwoSets == {[market |-> b, seen |-> [yes |-> 40, no |-> n]] : n \in {40, 55}}

AConfig(bankroll, frac, cap) == [bankroll |-> bankroll, frac |-> frac, cap |-> cap]
ReplayConfig == AConfig(1000, 100, 50)
BoldConfig == {AConfig(2000, 50, 100)}

=============================================================================
