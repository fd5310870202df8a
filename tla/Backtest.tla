------------------------------ MODULE Backtest ------------------------------
(***************************************************************************)
(* The replay of stored quotes into bets: build_candidates                 *)
(* (backtest/engine.py) and simulate (math/backtest.py), as functions of   *)
(* the quotes and of how the markets came out.                             *)
(*                                                                         *)
(* Prices and probabilities are per cent, money is whole units: what a     *)
(* division leaves is dropped, where the code rounds at 28 digits.         *)
(***************************************************************************)
EXTENDS Integers, Sequences, FiniteSetsExt

CONSTANTS
    Markets,
    Order,            \* a rank per market: that of load_tracked_markets
    Tag,              \* a theme per market
    ResolveTime,      \* the resolutions file: a time for some of the markets
    Bankroll,         \* initial_bankroll
    FracDivisor,      \* 1 / kelly_frac
    Cap, CorrCap,     \* kelly_cap and corr_cap_frac
    Margin,           \* model_error_margin
    Costs             \* slippage and gas

\* A list ranks a market once, and only markets resolve.
ASSUME BacktestAssumption ==
    /\ \A m, n \in Markets : Order[m] \in Int /\ (Order[m] = Order[n] => m = n)
    /\ DOMAIN ResolveTime \subseteq Markets
    /\ \A m \in DOMAIN ResolveTime : ResolveTime[m] \in Int
    /\ Bankroll \in Nat
    /\ FracDivisor \in Nat \ {0}
    /\ Cap \in 0..100 /\ CorrCap \in 0..100
    /\ Margin \in Nat /\ Costs \in Nat

Outcomes == [DOMAIN ResolveTime -> {0, 1}]

\* What stands for an arbitrage that a tick does not show.
NoArb == [edge |-> 0, capital |-> 0]

Sides == {"yes", "no"}

\* A tick is what one scan stored of a market: a row for each token, with a
\* midpoint and half a spread of its own if the book had both sides, and none for
\* a token whose book could not be had; and the arbitrage that two rows show.
Rows(ticks, side) == {q \in ticks : q.token[side].row # "missing"}

IsPriced(q, side) == q.token[side].row = "priced"

\* The price that the strategies look at.
Mid(q) == q.token["yes"].mid

-----------------------------------------------------------------------------
(* Candidates.                                                             *)

Lo == 15
Hi == 85
NudgeMin == 3
NudgeMax == 8

\* evaluate_extreme_correction moves a price in the outer bands inwards, the
\* further out the more.
Extreme(m) == m < Lo \/ m > Hi

Nudge(m) ==
    LET out == IF m < Lo THEN Lo - m ELSE m - Hi
    IN NudgeMin + (out * (NudgeMax - NudgeMin)) \div Lo

FairValue(m) == IF m < Lo THEN m + Nudge(m) ELSE m - Nudge(m)

\* The side that a correction of a price favours, and its chances.
Favoured(m) == IF FairValue(m) > m THEN "yes" ELSE "no"

Chance(m) == IF Favoured(m) = "yes" THEN FairValue(m) ELSE 100 - FairValue(m)

AskPrice(q, side) == q.token[side].mid + q.token[side].half

\* A bet on the side that a correction favours, at that token's own price.
DirectionalCandidate(q) ==
    LET side == Favoured(Mid(q))
    IN [market |-> q.market, time |-> q.time, kind |-> "directional",
        side |-> IF side = "yes" THEN 1 ELSE 0, ask |-> AskPrice(q, side), p |-> Chance(Mid(q))]

ArbCandidate(q) ==
    [market |-> q.market, time |-> q.time, kind |-> "arb",
     edge |-> q.arb.edge, capital |-> q.arb.capital]

\* Ticks of a market before it resolves, with rows of both tokens.
Ticks(quotes, m) ==
    {q \in Rows(quotes, "yes") \cap Rows(quotes, "no") : q.market = m /\ q.time < ResolveTime[m]}

\* The newest.
Latest(ticks) == {q \in ticks : \A other \in ticks : other.time <= q.time}

First(ticks) == {q \in ticks : \A other \in ticks : q.time <= other.time}

\* An extreme price, and one to be had for the token that is then to be bought.
Correctable(q) == IsPriced(q, "yes") /\ Extreme(Mid(q)) /\ IsPriced(q, Favoured(Mid(q)))

\* build_candidates: of each market the first tick of either kind.
Candidates(quotes, universe) ==
    UNION {  {DirectionalCandidate(q) : q \in First({t \in Ticks(quotes, m) : Correctable(t)})}
        \cup {ArbCandidate(q) : q \in First({t \in Ticks(quotes, m) : t.arb # NoArb})}
           : m \in universe \cap DOMAIN ResolveTime}

-----------------------------------------------------------------------------
(* Sizing.                                                                 *)

Least(a, b) == IF a <= b THEN a ELSE b
Most(a, b) == IF a <= b THEN b ELSE a

\* edge_gate, on the lower bound of the probability.
EdgeGate(c) == c.p - Margin > c.ask + Costs

\* position_size: fractional Kelly at the ask, with a hard cap.
PositionSize(c, cash) ==
    IF EdgeGate(c)
    THEN Least((cash * (c.p - c.ask)) \div (FracDivisor * (100 - c.ask)), (cash * Cap) \div 100)
    ELSE 0

\* What the theme of a market may still take.
Allowed(c, cash, exposure) ==
    Most(0, (cash * CorrCap) \div 100 - exposure[Tag[c.market]])

\* _entry_stake: the whole set or none, and no more than the theme may take.
EntryStake(c, cash, exposure) ==
    IF c.kind = "arb"
    THEN IF c.edge > 0 /\ c.capital <= Least(cash, Allowed(c, cash, exposure)) THEN c.capital ELSE 0
    ELSE Least(PositionSize(c, cash), Allowed(c, cash, exposure))

\* realized_pnl, all costs in the price.
RealizedPnl(c, stake, outcome) ==
    IF c.kind = "arb" THEN c.edge
    ELSE IF outcome = c.side THEN (stake * 100) \div (c.ask + Costs) - stake ELSE -stake

-----------------------------------------------------------------------------
(* simulate.                                                               *)

Entry(c) == [at |-> c.time, phase |-> 1, bet |-> c]
Resolution(c) == [at |-> ResolveTime[c.market], phase |-> 0, bet |-> c]

\* The order in which build_candidates lists them.
Listed(c, d) ==
    \/ Order[c.market] < Order[d.market]
    \/ c.market = d.market /\ c.time < d.time
    \/ c.market = d.market /\ c.time = d.time /\ c.kind = "directional" /\ d.kind = "arb"

\* By time; resolutions before entries; else as listed.
Before(e, f) ==
    \/ e.at < f.at
    \/ e.at = f.at /\ e.phase < f.phase
    \/ e.at = f.at /\ e.phase = f.phase /\ Listed(e.bet, f.bet)

Events(candidates) ==
    LET all == {Entry(c) : c \in candidates} \cup {Resolution(c) : c \in candidates}
    IN [n \in 1..Cardinality(all) |->
          CHOOSE e \in all : Cardinality({f \in all : Before(f, e)}) = n - 1]

Themes == {Tag[m] : m \in Markets}

Opening ==
    [cash |-> Bankroll, open |-> {}, exposure |-> [t \in Themes |-> 0],
     taken |-> {}, pnl |-> 0, curve |-> <<Bankroll>>]

TakeEntry(sim, c) ==
    LET stake == EntryStake(c, sim.cash, sim.exposure)
    IN IF stake > 0
       THEN [sim EXCEPT !.cash = @ - stake,
                        !.open = @ \cup {[bet |-> c, stake |-> stake]},
                        !.taken = @ \cup {[bet |-> c, stake |-> stake]},
                        !.exposure[Tag[c.market]] = @ + stake]
       ELSE sim

Locked(open) == MapThenSumSet(LAMBDA o : o.stake, open)

\* Mutant: the theme stays as exposed as it was.
TakeResolutionExposed(sim, c, outcome) ==
    IF \E o \in sim.open : o.bet = c
    THEN LET o == CHOOSE o \in sim.open : o.bet = c
             pnl == RealizedPnl(c, o.stake, outcome[c.market])
             cash == sim.cash + o.stake + pnl
         IN [sim EXCEPT !.cash = cash, !.open = @ \ {o}, !.pnl = @ + pnl,
                        !.curve = Append(@, cash + Locked(sim.open \ {o}))]
    ELSE sim

\* Of a bet that was taken: capital and profit come back, equity is sampled.
TakeResolution(sim, c, outcome) ==
    IF \E o \in sim.open : o.bet = c
    THEN LET o == CHOOSE o \in sim.open : o.bet = c
             pnl == RealizedPnl(c, o.stake, outcome[c.market])
             cash == sim.cash + o.stake + pnl
         IN [sim EXCEPT !.cash = cash,
                        !.open = @ \ {o},
                        !.exposure[Tag[c.market]] = @ - o.stake,
                        !.pnl = @ + pnl,
                        !.curve = Append(@, cash + Locked(sim.open \ {o}))]
    ELSE sim

\* Mutant: a bet is settled when it is entered.
AdvanceAtOnce(sim, e, outcome) ==
    IF e.phase = 1 THEN TakeResolution(TakeEntry(sim, e.bet), e.bet, outcome) ELSE sim

Advance(sim, e, outcome) ==
    IF e.phase = 1 THEN TakeEntry(sim, e.bet) ELSE TakeResolution(sim, e.bet, outcome)

\* The state of the simulation after each event.
Simulate(candidates, outcome) ==
    LET events == Events(candidates)
        after[n \in 0..Len(events)] ==
            IF n = 0 THEN Opening ELSE Advance(after[n - 1], events[n], outcome)
    IN after

Final(candidates, outcome) ==
    Simulate(candidates, outcome)[2 * Cardinality(candidates)]

\* max_drawdown reaches a threshold: some fall from some peak does.
DrawdownReaches(curve, threshold) ==
    \E i, j \in DOMAIN curve :
       i <= j /\ (curve[i] - curve[j]) * 100 >= threshold * curve[i]

-----------------------------------------------------------------------------
(* What a replay must be.                                                  *)

\* Money is neither made nor lost, never owed, and the exposure of a theme is
\* what is open in it; in the end nothing is.
Solvent(candidates, outcome) ==
    LET sims == Simulate(candidates, outcome)
    IN /\ \A n \in DOMAIN sims :
             LET sim == sims[n]
             IN /\ sim.cash >= 0
                /\ sim.cash + Locked(sim.open) = Bankroll + sim.pnl
                /\ \A t \in Themes :
                      sim.exposure[t] = Locked({o \in sim.open : Tag[o.bet.market] = t})
       /\ sims[2 * Cardinality(candidates)].open = {}

Flipped(outcome, m) == [outcome EXCEPT ![m] = 1 - @]

TakenBefore(sim, t) == {o \in sim.taken : o.bet.time < t}

\* How a market comes out matters to no bet entered before it does.
Causal(candidates, outcome) ==
    LET final == Final(candidates, outcome)
    IN \A m \in DOMAIN ResolveTime :
          TakenBefore(final, ResolveTime[m])
          = TakenBefore(Final(candidates, Flipped(outcome, m)), ResolveTime[m])
=============================================================================
