------------------------------ MODULE MCLedger ------------------------------
(***************************************************************************)
(* Instances of Ledger for TLC.                                            *)
(***************************************************************************)
EXTENDS Ledger, TLC

CONSTANTS m1, m2

Prediction(m, t, side) == [strategy |-> "extreme_correction", market |-> m, time |-> t, side |-> side]
Arbitrage(m, t) == [strategy |-> "set_arb", market |-> m, time |-> t, side |-> "set"]

\* A prediction that fires again, for the other side.
FlippingFeed == {Prediction(m1, 1, "yes"), Prediction(m1, 2, "no")}

\* A prediction, a newer one of another market, and an arbitrage that fires
\* again after both.
CrowdedFeed ==
    {Prediction(m1, 1, "no"), Prediction(m2, 2, "yes"), Arbitrage(m1, 3), Arbitrage(m1, 4)}

\* Positions of either kind: one that a resolution decides, one that none does.
OneBet == {[id |-> 1, market |-> m1, side |-> "no"]}
TwoBets == OneBet \cup {[id |-> 2, market |-> m1, side |-> "set"]}

Symmetry == Permutations(Watchers) \cup Permutations(Capturers)
=============================================================================
