------------------------------ MODULE Advisor -------------------------------
(***************************************************************************)
(* The scanners that write signals (signals/engine.py and                  *)
(* signals/price_engine.py) and the API that lists and opens them with     *)
(* live sizing (api/signals.py, advisor/), over the store that the monitor *)
(* reads as well.  Scanners and requests read the store in one statement   *)
(* after another, at READ COMMITTED: the store, the books and the          *)
(* configuration change in between.                                        *)
(*                                                                         *)
(* The monitor and the scanners share nothing but the store: a behaviour   *)
(* has either the monitor, or the price scanner and the API, or the book   *)
(* scanner.                                                                *)
(***************************************************************************)
EXTENDS Monitor

CONSTANTS
    Scanned,          \* ticks that are stored beside the scanners
    Configs,          \* what a user may save: bankroll, frac and cap
    Defaults,         \* UserConfig.from_settings
    NoRow,            \* nothing saved, nothing asked for
    Asks,             \* what a token may cost on the exchange
    ArbsBeside,       \* arbitrages that the book scanner may store beside
    MinMultiplier,    \* of suggest_kelly_fraction
    ListLimit,        \* limit of a listing
    DetailLimit,      \* how far back get_signal looks: 500
    MaxScans,         \* bounds: cycles of a scanner,
    MaxChanges        \* and what others change meanwhile

Sets == [Sides -> Asks]

ConfigType == [bankroll: Nat, frac: 0..100, cap: 0..100]

ASSUME AdvisorAssumption ==
    /\ Scanned \subseteq Quotes
    /\ Configs \subseteq ConfigType /\ Defaults \in ConfigType
    /\ NoRow \notin Configs
    /\ Asks # {} /\ Asks \subseteq 1..100
    /\ \A arb \in ArbsBeside : arb.market \in Markets /\ arb.seen \in Sets
    /\ \A arb \in ArbsBeside : arb.seen["yes"] + arb.seen["no"] + Costs < 100
    /\ MinMultiplier \in 0..100
    /\ ListLimit \in Nat /\ DetailLimit \in Nat /\ ListLimit <= DetailLimit
    /\ MaxScans \in Nat /\ MaxChanges \in Nat

VARIABLES
    deployed,    \* who runs beside the store
    books,       \* what a token of a market costs on the exchange
    signals,     \* the table
    scan,        \* the cycle of the scanner: what it has read
    offered,     \* history: all that was there to be read since the cycle began
    saved,       \* the user_config row
    req,         \* the request that the API serves: what it has read
    page,        \* what the last listing showed
    scans,       \* cycles begun: what a signal is stamped with
    changes

scanners == <<books, signals, scan, offered>>
api == <<saved, req, page>>
advisorVars == <<vars, deployed, scanners, api, scans, changes>>

\* What the store, the exchange and the users do while the scanners and the API run.
Change ==
    /\ deployed # "monitor"
    /\ changes < MaxChanges
    /\ changes' = changes + 1
    /\ UNCHANGED scans

-----------------------------------------------------------------------------
(* Signals.                                                                *)

RowsOf(m, side) == Rows({q \in quotes : q.market = m}, side)

\* load_latest_quotes: of a token of each market the newest row, of whatever tick.
NewestRows(markets, side) == UNION {Latest(RowsOf(m, side)) : m \in markets}

LongshotLo == 5
LongshotHi == 15
FavouriteLo == 75
FavouriteHi == 92

Biased(m) == m \in LongshotLo..LongshotHi \/ m \in FavouriteLo..FavouriteHi

EdgeScore(m) ==
    IF m >= FavouriteLo
    THEN (100 * (m - FavouriteLo)) \div (FavouriteHi - FavouriteLo)
    ELSE (100 * (LongshotHi - m)) \div (LongshotHi - LongshotLo)

\* A row, with what it was made of: a tick, or a price of either token.
Signal(strategy, m, at, seen) == [strategy |-> strategy, market |-> m, at |-> at, seen |-> seen]

Corrections(ticks, at) ==
    {Signal("extreme_correction", q.market, at, q) :
        q \in {t \in ticks : IsPriced(t, "yes") /\ Extreme(Mid(t))}}

Longshots(ticks, at) ==
    {Signal("favourite_longshot", q.market, at, q) :
        q \in {t \in ticks : IsPriced(t, "yes") /\ Biased(Mid(t))}}

\* The long set; the module Arb has both and the depth of the books.
NetOfSet(seen) == 100 - (seen["yes"] + seen["no"]) - Costs

NoBook == 0

\* The YES and the NO leg of one market.
Legs(legs) ==
    {p \in legs \X legs : p[1].market = p[2].market /\ p[1].side = "yes" /\ p[2].side = "no"}

SetOf(p) == [yes |-> p[1].price, no |-> p[2].price]

\* Mutant: a leg without a book costs nothing.
ArbsMissingLegs(legs, at) ==
    {Signal("set_arb", p[1].market, at, SetOf(p)) : p \in {p \in Legs(legs) : NetOfSet(SetOf(p)) > 0}}

Arbs(legs, at) ==
    {Signal("set_arb", p[1].market, at, SetOf(p)) :
        p \in {p \in Legs(legs) :
                  p[1].price # NoBook /\ p[2].price # NoBook /\ NetOfSet(SetOf(p)) > 0}}

-----------------------------------------------------------------------------
(* The scanners.                                                           *)

Idle == [pc |-> "idle", markets |-> {}, latest |-> {}, legs |-> {}]

Leg(m, side, price) == [market |-> m, side |-> side, price |-> price]

\* What there is to be read.
Current ==
    IF deployed = "prices"
    THEN NewestRows(Markets, "yes")
    ELSE {Leg(m, side, books[m][side]) : m \in Markets, side \in Sides}

Remember == offered' = IF scan'.pc = "idle" THEN {} ELSE offered \cup Current'

\* A cycle begins, in a later millisecond than the last: the loop has slept.
BeginScan ==
    /\ deployed # "monitor"
    /\ scan.pc = "idle"
    /\ scans < MaxScans
    /\ scans' = scans + 1
    /\ scan' = [Idle EXCEPT !.pc = "markets"]
    /\ UNCHANGED <<vars, deployed, books, signals, api, changes>>
    /\ Remember

\* load_tracked_markets.
LoadMarkets ==
    /\ scan.pc = "markets"
    /\ scan' = [scan EXCEPT !.pc = IF deployed = "prices" THEN "quotes" ELSE "books",
                            !.markets = tracked]
    /\ UNCHANGED <<vars, deployed, books, signals, offered, api, scans, changes>>

LoadLatest ==
    /\ scan.pc = "quotes"
    /\ scan' = [scan EXCEPT !.pc = "insert", !.latest = NewestRows(scan.markets, "yes")]
    /\ UNCHANGED <<vars, deployed, books, signals, offered, api, scans, changes>>

Fetched(m, side) == \E l \in scan.legs : l.market = m /\ l.side = side

\* fetch_books, of all markets at once and of each market YES first.  A book
\* that cannot be had, after retries or at once, is of its token alone.
FetchLeg(m, side) ==
    /\ scan.pc = "books"
    /\ m \in scan.markets /\ ~Fetched(m, side)
    /\ side = "no" => Fetched(m, "yes")
    /\ \E price \in {books[m][side], NoBook} :
          scan' = [scan EXCEPT !.legs = @ \cup {Leg(m, side, price)}]
    /\ UNCHANGED <<vars, deployed, books, signals, offered, api, scans, changes>>

Evaluated ==
    \/ scan.pc = "insert"
    \/ scan.pc = "books" /\ \A m \in scan.markets : Fetched(m, "no")

Flagged ==
    Corrections(scan.latest, scans) \cup Longshots(scan.latest, scans) \cup Arbs(scan.legs, scans)

\* insert_signals, of all that was flagged in one transaction.
InsertSignals ==
    /\ Evaluated
    /\ signals' = signals \cup Flagged
    /\ scan' = Idle
    /\ offered' = {}
    /\ UNCHANGED <<vars, deployed, books, api, scans, changes>>

\* The exception of a cycle: the loop sleeps and goes on.
FailScan ==
    /\ scan.pc # "idle"
    /\ scan' = Idle
    /\ offered' = {}
    /\ UNCHANGED <<vars, deployed, books, signals, api, scans, changes>>

-----------------------------------------------------------------------------
(* Others: the exchange, and who writes the store.                         *)

MoveBook(m, side, price) ==
    /\ Change
    /\ deployed = "books"
    /\ books[m][side] # price
    /\ books' = [books EXCEPT ![m][side] = price]
    /\ UNCHANGED <<vars, deployed, signals, scan, api>>
    /\ Remember

\* Beside the price scanner, the book scanner stores an arbitrage: with the time
\* of the last price scan, so that the order of the two is open.
InsertArb(arb) ==
    /\ Change
    /\ deployed = "prices"
    /\ signals' = signals \cup {Signal("set_arb", arb.market, scans, arb.seen)}
    /\ UNCHANGED <<vars, deployed, books, scan, offered, api>>

StoreChanges ==
    /\ Change
    /\ \/ \E m \in Markets : Relist(m)
       \/ deployed = "prices" /\ \E q \in Scanned : StoreQuote(q)
       \/ deployed = "prices" /\ \E r \in Records : JournalRecord(r)
    /\ UNCHANGED <<deployed, books, signals, scan, api>>
    /\ Remember

\* put_config.
PutConfig(c) ==
    /\ Change
    /\ deployed = "prices"
    /\ saved' = c
    /\ UNCHANGED <<vars, deployed, scanners, req, page>>

-----------------------------------------------------------------------------
(* list_signals and get_signal.                                            *)

\* make_signal_id.
Id(s) == [strategy |-> s.strategy, market |-> s.market, at |-> s.at]

Quiet == [pc |-> "idle", want |-> NoRow, cfg |-> Defaults, rows |-> {},
          markets |-> {}, latest |-> [side \in Sides |-> {}], frac |-> 0]

\* Mutant: the quotes are read before the signals that they are to size.
NextReadQuotesFirst(statement) ==
    CASE statement = "config" -> "markets" [] statement = "markets" -> "quotes" [] statement = "quotes" -> "signals"
      [] statement = "signals" -> "calibration" [] OTHER -> "done"

\* One statement after another.
NextRead(statement) ==
    CASE statement = "config" -> "signals" [] statement = "signals" -> "markets" [] statement = "markets" -> "quotes"
      [] statement = "quotes" -> "calibration" [] OTHER -> "done"

UnchangedButReq == UNCHANGED <<vars, deployed, scanners, saved, scans, changes>>

\* A request comes in: for a listing, or for a signal that one has shown.
Ask(id) ==
    /\ deployed = "prices"
    /\ req.pc \in {"idle", "done"}
    /\ req' = [Quiet EXCEPT !.pc = "config", !.want = id]
    /\ UNCHANGED page /\ UnchangedButReq

EffectiveConfig == IF saved = NoRow THEN Defaults ELSE saved

\* load_user_config.
ReadConfig ==
    /\ req.pc = "config"
    /\ req' = [req EXCEPT !.pc = NextRead(@), !.cfg = EffectiveConfig]
    /\ UNCHANGED page /\ UnchangedButReq

\* load_signals: the newest rows; of those with one time, any.
Recent(table, limit) ==
    {rows \in SUBSET table :
        /\ Cardinality(rows) = Least(limit, Cardinality(table))
        /\ \A s \in rows, other \in table \ rows : other.at <= s.at}

ReadList ==
    /\ req.pc = "signals" /\ req.want = NoRow
    /\ \E rows \in Recent(signals, ListLimit) :
          req' = [req EXCEPT !.pc = NextRead(@), !.rows = rows]
    /\ UNCHANGED page /\ UnchangedButReq

\* Mutant: the newest rows of any strategy.
SearchedOfAll(id) == Recent(signals, DetailLimit)

Searched(id) == Recent({s \in signals : s.strategy = id.strategy}, DetailLimit)

\* The row with the id that was asked for; without one the answer is a 404.
ReadMatch ==
    /\ req.pc = "signals" /\ req.want # NoRow
    /\ \E rows \in Searched(req.want) :
          LET match == {s \in rows : Id(s) = req.want}
          IN IF match = {}
             THEN req' = [req EXCEPT !.pc = "done"]
             ELSE \E s \in match : req' = [req EXCEPT !.pc = NextRead(@), !.rows = {s}]
    /\ UNCHANGED page /\ UnchangedButReq

ReadMarkets ==
    /\ req.pc = "markets"
    /\ req' = [req EXCEPT !.pc = NextRead(@), !.markets = tracked]
    /\ UNCHANGED page /\ UnchangedButReq

ReadQuotes ==
    /\ req.pc = "quotes"
    /\ req' = [req EXCEPT !.pc = NextRead(@),
                          !.latest = [side \in Sides |-> NewestRows(req.markets, side)]]
    /\ UNCHANGED page /\ UnchangedButReq

\* Mutant: the fraction may be raised.
MultiplierUnclamped ==
    (10000 * MapThenSumSet(LAMBDA r : r.outcome, Confident))
        \div MapThenSumSet(LAMBDA r : r.estimate, Confident)

\* suggest_kelly_fraction: realized over claimed, per cent.
Multiplier ==
    Most(MinMultiplier,
         Least(100, (10000 * MapThenSumSet(LAMBDA r : r.outcome, Confident))
                        \div MapThenSumSet(LAMBDA r : r.estimate, Confident)))

\* effective_kelly_frac.
EffectiveFrac(base) == IF Confident = {} THEN base ELSE (base * Multiplier) \div 100

\* The answer goes out.
ReadCalibration ==
    /\ req.pc = "calibration"
    /\ req' = [req EXCEPT !.pc = NextRead(@), !.frac = EffectiveFrac(req.cfg.frac)]
    /\ page' = IF req.want = NoRow THEN req.rows ELSE page
    /\ UnchangedButReq

\* A statement fails and the request with it.
FailRequest ==
    /\ req.pc \notin {"idle", "done"}
    /\ req' = Quiet
    /\ UNCHANGED page /\ UnchangedButReq

-----------------------------------------------------------------------------
(* advise.                                                                 *)

\* Mutant: what is bought is the YES token.
BetOnYes(s, q) == [p |-> Chance(Mid(s.seen)), ask |-> AskPrice(q, "yes")]

BetSide(s) == Favoured(Mid(s.seen))

\* The bet of _advise_directional: the estimate is the signal's, the price that
\* of a row of the token to be bought.
Bet(s, q) == [p |-> Chance(Mid(s.seen)), ask |-> AskPrice(q, BetSide(s))]

Threshold(bet) == bet.ask + Costs
PLo(bet) == bet.p - Margin

\* position_size, with the user's bankroll and cap, per cent.
AdvisedStake(bet, cfg, frac) ==
    IF EdgeGate(bet)
    THEN Least((cfg.bankroll * frac * (bet.p - bet.ask)) \div (100 * (100 - bet.ask)),
               (cfg.bankroll * cfg.cap) \div 100)
    ELSE 0

\* expected_value, of a stake at an all-in price.
ExpectedValue(stake, ask, p) == (stake * (p - ask)) \div ask

Confidence(pLo, threshold) ==
    IF threshold >= 100 THEN 0
    ELSE Most(0, Least(100, (100 * (pLo - threshold)) \div (100 - threshold)))

Advice(s, net, stake, confidence, gate, ev) ==
    [signal |-> s, net |-> net, stake |-> stake, confidence |-> confidence, gate |-> gate, ev |-> ev]

\* The conservative one of _directional_economics.
DirectionalEv(bet, stake) ==
    IF Threshold(bet) \in 1..100
    THEN ExpectedValue(stake, Threshold(bet), Most(0, Least(100, PLo(bet))))
    ELSE 0

AdviseDirectional(s, q, cfg, frac) ==
    LET bet == Bet(s, q)
        stake == AdvisedStake(bet, cfg, frac)
    IN Advice(s, PLo(bet) - Threshold(bet), stake, Confidence(PLo(bet), Threshold(bet)), EdgeGate(bet),
              DirectionalEv(bet, stake))

\* Mutant: a correction that is not sized keeps the edge of its signal.
DegradedScored(s) == Advice(s, Nudge(Mid(s.seen)), 0, 0, FALSE, 0)

\* Without a priced row of its token a correction is shown, and not sized.
Degraded(s) == Advice(s, 0, 0, 0, FALSE, 0)

AdviseArb(s) == Advice(s, NetOfSet(s.seen), 0, 100, TRUE, NetOfSet(s.seen))

AdviseLongshot(s) == Advice(s, 0, 0, EdgeScore(Mid(s.seen)), FALSE, 0)

\* _enrich and _advise_directional: the row that prices a bet, the newest of its
\* token, if the market is tracked and that row has a price.
QuotesFor(s) ==
    {q \in req.latest[BetSide(s)] :
        q.market = s.market /\ q.market \in req.markets /\ IsPriced(q, BetSide(s))}

Enriched(s) ==
    CASE s.strategy = "set_arb" -> {AdviseArb(s)}
      [] s.strategy = "favourite_longshot" -> {AdviseLongshot(s)}
      [] OTHER -> IF QuotesFor(s) = {} THEN {Degraded(s)}
                  ELSE {AdviseDirectional(s, q, req.cfg, req.frac) : q \in QuotesFor(s)}

Answer == UNION {Enriched(s) : s \in req.rows}

SafetyTier(a) == IF a.signal.strategy = "set_arb" THEN 0 ELSE IF a.gate THEN 1 ELSE 2

\* The order of rank_signals, as far as its key decides it.
Precedes(sort, a, b) ==
    IF sort = "safety" /\ SafetyTier(a) # SafetyTier(b)
    THEN SafetyTier(a) < SafetyTier(b)
    ELSE a.net > b.net

SafeOnly(answer) == {a \in answer : SafetyTier(a) <= 1}

-----------------------------------------------------------------------------
AdvisorInit ==
    /\ Init
    /\ deployed \in {"monitor", "prices", "books"}
    /\ deployed # "monitor" => outcome = CHOOSE h \in Histories : TRUE
    /\ books = [m \in Markets |-> [side \in Sides |-> CHOOSE price \in Asks : TRUE]]
    /\ signals = {}
    /\ scan = Idle /\ offered = {}
    /\ saved = NoRow
    /\ req = Quiet /\ page = {}
    /\ scans = 0 /\ changes = 0

Watching(step) == deployed = "monitor" /\ step /\ UNCHANGED <<deployed, scanners, api, scans, changes>>

Scan ==
    \/ BeginScan
    \/ LoadMarkets
    \/ LoadLatest
    \/ \E m \in Markets, side \in Sides : FetchLeg(m, side)
    \/ InsertSignals
    \/ FailScan

Request ==
    \/ \E id \in {NoRow} \cup {Id(s) : s \in page} : Ask(id)
    \/ ReadConfig
    \/ ReadList
    \/ ReadMatch
    \/ ReadMarkets
    \/ ReadQuotes
    \/ ReadCalibration
    \/ FailRequest

\* Time passes; the monitor's ages have stopped.
Idling == deployed # "monitor" /\ Tick /\ UNCHANGED <<deployed, scanners, api, scans, changes>>

Others ==
    \/ Idling
    \/ StoreChanges
    \/ \E m \in Markets, side \in Sides, price \in Asks : MoveBook(m, side, price)
    \/ \E arb \in ArbsBeside : InsertArb(arb)
    \/ \E c \in Configs : PutConfig(c)

AdvisorNext == Watching(Next) \/ Scan \/ Request \/ Others

AdvisorSpec == AdvisorInit /\ [][AdvisorNext]_advisorVars

\* Of the monitor's loop and the time it lives in, as in the module Monitor.
AdvisorFairSpec ==
    AdvisorSpec /\ WF_advisorVars(Watching(Cycle)) /\ WF_advisorVars(Watching(Tick))

-----------------------------------------------------------------------------
Priced == {"extreme_correction", "favourite_longshot"}

SignalType ==
         [strategy: Priced, market: Markets, at: Nat, seen: Quotes]
    \cup [strategy: {"set_arb"}, market: Markets, at: Nat, seen: Sets]

ScanType ==
    [pc: {"idle", "markets", "quotes", "books", "insert"}, markets: SUBSET Markets,
     latest: SUBSET Quotes, legs: SUBSET [market: Markets, side: Sides, price: Asks \cup {NoBook}]]

IdType == [strategy: Priced \cup {"set_arb"}, market: Markets, at: Nat]

ReqType ==
    [pc: {"idle", "config", "signals", "markets", "quotes", "calibration", "done"},
     want: {NoRow} \cup IdType, cfg: ConfigType, rows: SUBSET SignalType,
     markets: SUBSET Markets, latest: [Sides -> SUBSET Quotes], frac: 0..100]

\* The shape of every variable, the monitor's included.
AdvisorTypeOK ==
    /\ TypeOK
    /\ deployed \in {"monitor", "prices", "books"}
    /\ books \in [Markets -> Sets]
    /\ signals \subseteq SignalType
    /\ scan \in ScanType
    /\ saved \in Configs \cup {NoRow}
    /\ req \in ReqType /\ page \subseteq SignalType
    /\ scans \in 0..MaxScans /\ changes \in 0..MaxChanges

\* What a signal of a scan was made of was there to be read while the cycle ran:
\* nothing is left of an earlier cycle or made of a book
\* that could not be had.  (Not that the two books of a set were there at once.)
Evidence(s) ==
    IF s.strategy = "set_arb" THEN {Leg(s.market, side, s.seen[side]) : side \in Sides} ELSE {s.seen}

SignalsAreEarned ==
    [][scan.pc # "idle" /\ scan'.pc = "idle"
          => \A s \in signals' \ signals : s.at = scans /\ Evidence(s) \subseteq offered]_advisorVars

\* The row that sizes a correction is at least what there was of its token when
\* the signal was raised, whatever is stored, listed or scanned between the
\* statements of a request.  So a bet on YES is never sized on an older tick than
\* its signal's; a bet on NO may be, when that tick has no row of the NO token.
SizedAsOfRaising ==
    req.pc = "done" => \A s \in req.rows : s.strategy = "extreme_correction" =>
        \A q \in QuotesFor(s) : \A r \in RowsOf(s.market, BetSide(s)) :
            r.time <= s.seen.time => r.time <= q.time

\* A stake is advised on a tracked market only, never beyond the user's own cap
\* and fraction, whatever the journal says, and never on a bet that is expected
\* to lose at the lower bound of the estimate.
StakesAreModest ==
    req.pc = "done" => \A a \in Answer :
        /\ a.stake \in 0..(req.cfg.bankroll * req.cfg.cap) \div 100
        /\ a.ev >= 0 \/ a.stake = 0
        /\ a.stake > 0 => /\ a.signal.market \in req.markets
                          /\ \E q \in QuotesFor(a.signal) :
                                a.stake <= AdvisedStake(Bet(a.signal, q), req.cfg, req.cfg.frac)

\* The bets that pay, at what is known to the request.
Pays(a) ==
    \/ a.signal.strategy = "set_arb"
    \/ /\ a.signal.strategy = "extreme_correction"
       /\ \E q \in QuotesFor(a.signal) : PLo(Bet(a.signal, q)) > Threshold(Bet(a.signal, q))

\* In either order, all that pays comes before all that does not: what is shown
\* for its strength alone (a longshot's edge is 0, as advisor/view.py:184-187 has
\* it, and not its score, as models/advisor.py:72-74 does), what is not sized, and
\* what its costs eat up.  And the list of safe bets has the first, and no other.
PayingFirst ==
    req.pc = "done" =>
        /\ \A a, b \in Answer : Pays(a) /\ ~Pays(b) =>
              \A sort \in {"net_edge", "safety"} : Precedes(sort, a, b)
        /\ SafeOnly(Answer) = {a \in Answer : Pays(a)}

\* What was listed can be opened, and shows a signal of that id: unless, by the
\* time it is, as many newer ones of its strategy are stored as are looked through.
ListedCanBeOpened ==
    req.pc = "done" /\ req.want # NoRow =>
        \/ \E s \in req.rows : Id(s) = req.want
        \/ Cardinality({s \in signals : s.strategy = req.want.strategy /\ s.at >= req.want.at})
               > DetailLimit

\* The configuration that is the replay's own.
LikeReplay(cfg) == cfg.bankroll = Bankroll /\ cfg.cap = Cap /\ cfg.frac * FracDivisor = 100

\* If the row that sizes is of the tick that raised the signal, the advisor and the
\* replay size alike (advisor/view.py:5-8), with the replay's configuration and no
\* shrinking.  (The replay takes up a tick with rows of both tokens only.)
AgreesWithReplay ==
    req.pc = "done" => \A a \in Answer :
        /\ a.signal.strategy = "extreme_correction" /\ a.signal.seen \in QuotesFor(a.signal)
        /\ LikeReplay(req.cfg) /\ req.frac = req.cfg.frac
        => a.stake = PositionSize(DirectionalCandidate(a.signal.seen), Bankroll)

\* The monitor among them.
DeployedMonitorAnnounces == deployed = "monitor" => BreachIsAnnounced
=============================================================================
