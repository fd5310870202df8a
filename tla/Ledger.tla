------------------------------- MODULE Ledger -------------------------------
(***************************************************************************)
(* The books of the quant service: the calibration journal, the operator's *)
(* positions and the paper trades, and the processes that write them.      *)
(*                                                                         *)
(*   - watchers, the resolution poller and its one-shot CLI, journal the   *)
(*     prediction of each resolved market, close the positions on it and   *)
(*     close the paper trades (ingestion/resolution_engine.py);            *)
(*   - capturers, the paper poller and its one-shot CLI, log the trades    *)
(*     the advisor recommends (paper/engine.py);                           *)
(*   - discovery changes the tracked markets, the scanners store signals,  *)
(*     the API records the operator's bets, and markets resolve.           *)
(*                                                                         *)
(* Every pass reads in one transaction, waits for the network, and writes  *)
(* in another (or later in the same one, without locks): what it writes is *)
(* decided on what it read, and nothing is checked again.  A transaction   *)
(* that writes is one step.  Money is not computed: a result is "win" or   *)
(* "loss" of the stake, or the edge of a set arbitrage, as "detected" when *)
(* the signal was stored or as "rechecked" on a fresh book.                *)
(***************************************************************************)
EXTENDS Naturals, FiniteSets

CONSTANTS
    Markets,
    Followed,    \* bound: those that discovery may track and that may resolve;
                 \* the others have been dropped, and have their rows only
    Feed,        \* the signals the scanners may store
    Bets,        \* positions the operator may record: id, market, side
    Watchers,
    Capturers,
    Poller,      \* the watcher that runs the loop
    NoOne,       \* no process, no market
    FillCheck,   \* settings.arb_fill_check_enabled
    JournalLimit,   \* how many predictions the journal pass loads: 500
    CaptureLimit    \* how many signals a capture loads: 200

Strategies == {"extreme_correction", "set_arb", "favourite_longshot"}
Outcomes == {"yes", "no"}
Sides == Outcomes \cup {"set"}

\* A signal is named by strategy, market and time; its side is the advised one.
SignalType == [strategy: Strategies, market: Markets, time: Nat, side: Sides]

ASSUME LedgerAssumption ==
    /\ Followed \subseteq Markets
    /\ Feed \subseteq SignalType
    /\ \A s, t \in Feed :
          s.strategy = t.strategy /\ s.market = t.market /\ s.time = t.time => s = t
    /\ \A s \in Feed : s.side = "set" <=> s.strategy = "set_arb"
    /\ \A b \in Bets : b.market \in Markets /\ b.side \in Sides
    /\ Poller \in Watchers
    /\ NoOne \notin Capturers \cup Markets
    /\ FillCheck \in BOOLEAN
    /\ JournalLimit \in Nat /\ CaptureLimit \in Nat

VARIABLES
    resolution,   \* what Gamma says of each market
    tracked,      \* markets with tracked = true
    signals,      \* the signals stored
    journal,      \* how many calibration rows of each content there are
    bets,         \* the positions
    papers,       \* the paper trades, by the signal they were advised by
    stage,        \* where each watcher is in its cycle
    due,          \* its read for the journal: the predictions to score
    openBets,     \* its read for the settlement of positions
    openPapers,   \* its read for the settlement of paper trades
    picked        \* what a capturer selected and has not inserted yet

world == <<resolution, tracked, signals>>
cycle == <<stage, due, openBets, openPapers>>
vars == <<world, journal, bets, papers, cycle, picked>>

-----------------------------------------------------------------------------
(* Rows.  "by" names the process that wrote a row; no column holds it.     *)

JournalRow == [by: Watchers, signal: Feed, outcome: Outcomes]

BetRow == [status: {"none", "open", "closed"}, market: Markets \cup {NoOne}, side: Sides,
           outcome: Outcomes \cup {"none"}, pnl: {"none", "win", "loss"}]

PaperRow == [status: {"none", "open", "closed", "expired"}, edge: {"none", "detected", "rechecked"},
             outcome: Outcomes \cup {"none"},
             pnl: {"none", "win", "loss", "detected", "rechecked"},
             by: Capturers \cup {NoOne}]

NoBet == [status |-> "none", market |-> NoOne, side |-> "set", outcome |-> "none", pnl |-> "none"]

NoPaper == [status |-> "none", edge |-> "none", outcome |-> "none", pnl |-> "none", by |-> NoOne]

\* Mutant: every closed market counts as decided, a tie too.
DecidedOrTied == {m \in Markets : resolution[m] # "pending"}

\* resolved_outcome: prices of exactly 0 and 1; a tie stays undecided for ever.
Decided == {m \in Markets : resolution[m] \in Outcomes}

\* Mutant: a NO position is scored as if it were a YES position.
PnlOfYes(side, outcome) == IF outcome = "yes" THEN "win" ELSE "loss"

SettledPnl(side, outcome) == IF side = outcome THEN "win" ELSE "loss"

Journaled(m) == \E r \in JournalRow : journal[r] > 0 /\ r.signal.market = m

-----------------------------------------------------------------------------
(* The world around the books.                                             *)

\* A market closes on Polymarket, with or without a winner, once.
Resolve(m) ==
    /\ resolution[m] = "pending"
    /\ \E o \in Outcomes \cup {"tie"} : resolution' = [resolution EXCEPT ![m] = o]
    /\ UNCHANGED <<tracked, signals, journal, bets, papers, cycle, picked>>

\* Discovery tracks the markets it selected among the active ones and no other.
Discover ==
    /\ \E universe \in SUBSET {m \in Followed : resolution[m] = "pending"} : tracked' = universe
    /\ UNCHANGED <<resolution, signals, journal, bets, papers, cycle, picked>>

\* A scanner stores a signal, perhaps of a market discovery has just dropped.
Emit(s) ==
    /\ s \notin signals
    /\ signals' = signals \cup {s}
    /\ UNCHANGED <<resolution, tracked, journal, bets, papers, cycle, picked>>

\* POST /positions: an open position with a fresh id.
CreatePosition(b) ==
    /\ bets[b].status = "none"
    /\ bets' = [bets EXCEPT ![b] = [NoBet EXCEPT !.status = "open", !.market = b.market, !.side = b.side]]
    /\ UNCHANGED <<world, journal, papers, cycle, picked>>

-----------------------------------------------------------------------------
(* A watcher's cycle: three passes, each with its read and its write.  The *)
(* read of a pass belongs to the step that writes the pass before it: the  *)
(* two touch different tables, and what others do between them could as    *)
(* well have been done before.  A pass writes what Gamma answered for, got,*)
(* which may leave out markets: an answer older than the write, or a row   *)
(* that did not parse.                                                     *)

\* load_signals: the newest rows; of those with one time, any.
Newest(rows, limit) ==
    {read \in SUBSET rows : /\ IF limit < Cardinality(rows) THEN Cardinality(read) = limit
                                                            ELSE read = rows
                            /\ \A s \in read, t \in rows \ read : t.time <= s.time}

Predictions == {s \in signals : s.strategy = "extreme_correction"}

\* Mutant: the strategy is looked at only after the newest rows are loaded.
ReadOfAll ==
    {{s \in read : s.strategy = "extreme_correction"} : read \in Newest(signals, JournalLimit)}

\* load_signals(strategy, limit): a prediction that as many newer ones have
\* followed, of whatever markets, is not in it.
ReadPredictions == Newest(Predictions, JournalLimit)

Latest(read, s) == \A t \in read : t.market = s.market => t.time <= s.time

\* Mutant: the journal is not consulted.
DueAgain(read) == {s \in read : s.market \in tracked /\ Latest(read, s)}

\* The newest loaded prediction of each tracked market without a journal row.
Due(read) == {s \in read : s.market \in tracked /\ ~Journaled(s.market) /\ Latest(read, s)}

OpenDirectional == {b \in Bets : bets[b].status = "open" /\ bets[b].side \in Outcomes}

OpenTrades == {s \in Feed : papers[s].status = "open"}

BeginCycle(w) ==
    /\ stage[w] = "idle"
    /\ stage' = [stage EXCEPT ![w] = "journal"]
    /\ \E read \in ReadPredictions : due' = [due EXCEPT ![w] = Due(read)]
    /\ UNCHANGED <<world, journal, bets, papers, openBets, openPapers, picked>>

\* The rows of run_resolution_scan_once; the table has no key to refuse one.
NewRows(w, got) ==
    {r \in JournalRow : /\ r.by = w
                        /\ r.signal \in due[w]
                        /\ r.signal.market \in got
                        /\ r.outcome = resolution[r.signal.market]}

Journal(w, got) ==
    /\ stage[w] = "journal"
    /\ stage' = [stage EXCEPT ![w] = "bets"]
    /\ journal' = [r \in JournalRow |-> IF r \in NewRows(w, got) THEN journal[r] + 1 ELSE journal[r]]
    /\ due' = [due EXCEPT ![w] = {}]
    /\ openBets' = [openBets EXCEPT ![w] = OpenDirectional]
    /\ UNCHANGED <<world, bets, papers, openPapers, picked>>

\* settle_position: an UPDATE by id, whatever the row's status is by now.
ClosedBet(row) ==
    [row EXCEPT !.status = "closed", !.outcome = resolution[row.market],
                !.pnl = SettledPnl(row.side, resolution[row.market])]

SettleBets(w, got) ==
    /\ stage[w] = "bets"
    /\ stage' = [stage EXCEPT ![w] = "papers"]
    /\ bets' = [b \in Bets |-> IF b \in openBets[w] /\ bets[b].market \in got
                               THEN ClosedBet(bets[b]) ELSE bets[b]]
    /\ openBets' = [openBets EXCEPT ![w] = {}]
    /\ openPapers' = [openPapers EXCEPT ![w] = OpenTrades]
    /\ UNCHANGED <<world, journal, papers, due, picked>>

\* settle_paper_trade: a set arbitrage is paid its edge, whatever the outcome.
ClosedPaper(s) ==
    IF s.side = "set"
    THEN [papers[s] EXCEPT !.status = "closed", !.pnl = papers[s].edge]
    ELSE [papers[s] EXCEPT !.status = "closed", !.outcome = resolution[s.market],
                           !.pnl = SettledPnl(s.side, resolution[s.market])]

SettlePapers(w, got) ==
    /\ stage[w] = "papers"
    /\ stage' = [stage EXCEPT ![w] = "idle"]
    /\ papers' = [s \in Feed |-> IF s \in openPapers[w] /\ (s.side = "set" \/ s.market \in got)
                                 THEN ClosedPaper(s) ELSE papers[s]]
    /\ openPapers' = [openPapers EXCEPT ![w] = {}]
    /\ UNCHANGED <<world, journal, bets, due, openBets, picked>>

\* A request or a statement fails: the passes left are skipped, the loop goes on.
FailCycle(w) ==
    /\ stage[w] # "idle"
    /\ stage' = [stage EXCEPT ![w] = "idle"]
    /\ due' = [due EXCEPT ![w] = {}]
    /\ openBets' = [openBets EXCEPT ![w] = {}]
    /\ openPapers' = [openPapers EXCEPT ![w] = {}]
    /\ UNCHANGED <<world, journal, bets, papers, picked>>

-----------------------------------------------------------------------------
(* Paper capture.                                                          *)

Key(s) == <<s.strategy, s.market>>

OpenKeys == {Key(s) : s \in OpenTrades}

\* What paper_trade_from_advice makes a trade of, of what was loaded: gated, the
\* predictions that pass the cost gate at the present quotes, which only tracked
\* markets have; every set arbitrage; never a longshot.
Actionable(read, gated) ==
    {s \in read : \/ s.strategy = "extreme_correction" /\ s \in gated /\ s.market \in tracked
                  \/ s.strategy = "set_arb"}

\* An arbitrage of a market that is not tracked cannot be re-checked.
CanRecheck(s) == s.side = "set" /\ FillCheck => s.market \in tracked

\* Mutant: the open trades are not consulted.
SelectedAgain(advised) ==
    {s \in advised : /\ \A t \in advised : Key(t) = Key(s) => t.time <= s.time
                     /\ CanRecheck(s)}

\* select_new_paper_trades: the newest of each key that has no open trade.
Selected(advised) ==
    {s \in advised : /\ \A t \in advised : Key(t) = Key(s) => t.time <= s.time
                     /\ Key(s) \notin OpenKeys
                     /\ CanRecheck(s)}

SelectTrades(c) ==
    /\ picked[c] = {}
    /\ \E read \in Newest(signals, CaptureLimit) :
          \E gated \in SUBSET read :
             picked' = [picked EXCEPT ![c] = Selected(Actionable(read, gated))]
    /\ UNCHANGED <<world, journal, bets, papers, cycle>>

\* What the re-check on fresh books says: "retry" when a book is missing.
Verdicts(s) == IF s.side = "set" /\ FillCheck THEN {"ok", "expired", "retry"} ELSE {"unchecked"}

\* Mutant: a failed re-check is noted and the trade stays open.
NewTradeOpen(c, verdict) ==
    [NoPaper EXCEPT !.status = "open",
                    !.edge = IF verdict = "ok" THEN "rechecked" ELSE "detected",
                    !.by = c]

NewTrade(c, verdict) ==
    [NoPaper EXCEPT !.status = IF verdict = "expired" THEN "expired" ELSE "open",
                    !.edge = IF verdict = "ok" THEN "rechecked" ELSE "detected",
                    !.by = c]

\* Mutant: on conflict, the row is updated.
Upserted(c, s, verdict) == IF verdict = "retry" THEN papers[s] ELSE NewTrade(c, verdict)

\* insert_paper_trades: a row whose id exists is left alone.
Inserted(c, s, verdict) ==
    IF verdict = "retry" \/ papers[s].status # "none" THEN papers[s] ELSE NewTrade(c, verdict)

CaptureTrades(c) ==
    /\ picked[c] # {}
    /\ \E verdict \in [picked[c] -> {"ok", "expired", "retry", "unchecked"}] :
          /\ \A s \in picked[c] : verdict[s] \in Verdicts(s)
          /\ papers' = [s \in Feed |-> IF s \in picked[c] THEN Inserted(c, s, verdict[s])
                                       ELSE papers[s]]
    /\ picked' = [picked EXCEPT ![c] = {}]
    /\ UNCHANGED <<world, journal, bets, cycle>>

FailCapture(c) ==
    /\ picked[c] # {}
    /\ picked' = [picked EXCEPT ![c] = {}]
    /\ UNCHANGED <<world, journal, bets, papers, cycle>>

-----------------------------------------------------------------------------
Init ==
    /\ resolution = [m \in Markets |-> "pending"]
    /\ tracked \in SUBSET Followed
    /\ signals = {}
    /\ journal = [r \in JournalRow |-> 0]
    /\ bets = [b \in Bets |-> NoBet]
    /\ papers = [s \in Feed |-> NoPaper]
    /\ stage = [w \in Watchers |-> "idle"]
    /\ due = [w \in Watchers |-> {}]
    /\ openBets = [w \in Watchers |-> {}]
    /\ openPapers = [w \in Watchers |-> {}]
    /\ picked = [c \in Capturers |-> {}]

WorldNext ==
    \/ \E m \in Followed : Resolve(m)
    \/ Discover
    \/ \E s \in Feed : Emit(s)
    \/ \E b \in Bets : CreatePosition(b)

Cycle(w) ==
    \/ BeginCycle(w)
    \/ \E got \in SUBSET Decided : Journal(w, got) \/ SettleBets(w, got) \/ SettlePapers(w, got)
    \/ FailCycle(w)

Capture(c) == SelectTrades(c) \/ CaptureTrades(c) \/ FailCapture(c)

Next == WorldNext \/ (\E w \in Watchers : Cycle(w)) \/ (\E c \in Capturers : Capture(c))

\* The loop begins a cycle again, and a pass of it that Gamma may answer in
\* full as often as one likes is answered in full at last: outages end.
Fairness ==
    /\ WF_vars(BeginCycle(Poller))
    /\ SF_vars(Journal(Poller, Decided))
    /\ SF_vars(SettleBets(Poller, Decided))
    /\ SF_vars(SettlePapers(Poller, Decided))

Spec == Init /\ [][Next]_vars
FairSpec == Spec /\ Fairness

-----------------------------------------------------------------------------
(* Properties.                                                             *)

TypeOK ==
    /\ resolution \in [Markets -> Outcomes \cup {"pending", "tie"}]
    /\ tracked \subseteq Markets
    /\ signals \subseteq Feed
    /\ journal \in [JournalRow -> Nat]
    /\ bets \in [Bets -> BetRow]
    /\ papers \in [Feed -> PaperRow]
    /\ stage \in [Watchers -> {"idle", "journal", "bets", "papers"}]
    /\ due \in [Watchers -> SUBSET Feed]
    /\ openBets \in [Watchers -> SUBSET Bets]
    /\ openPapers \in [Watchers -> SUBSET Feed]
    /\ picked \in [Capturers -> SUBSET Feed]

\* A watcher journals a market at most once, however often it runs, whatever
\* fails in between and whatever other watchers write: with one watcher there
\* is one calibration row per market.
JournaledOncePerWatcher ==
    \A q, r \in JournalRow :
        /\ journal[r] <= 1
        /\ journal[q] > 0 /\ journal[r] > 0 /\ q.by = r.by /\ q.signal.market = r.signal.market
           => q = r

\* A capturer has at most one open trade per strategy and market: with one
\* capturer there is one open trade per key.
OneOpenTradePerCapturer ==
    \A s, t \in OpenTrades : Key(s) = Key(t) /\ papers[s].by = papers[t].by => s = t

\* The three books tell the same story: every outcome in them is the market's,
\* every closed bet and prediction is scored for its own side, a set arbitrage
\* is scored without an outcome, and nothing else carries a result.
RecordsAgree ==
    /\ \A r \in JournalRow : journal[r] > 0 => resolution[r.signal.market] = r.outcome
    /\ \A b \in Bets :
          IF bets[b].status = "closed"
          THEN /\ bets[b].outcome = resolution[bets[b].market]
               /\ bets[b].side \in Outcomes
               /\ bets[b].pnl = "win" <=> bets[b].side = resolution[bets[b].market]
          ELSE bets[b].outcome = "none" /\ bets[b].pnl = "none"
    /\ \A s \in Feed :
          IF papers[s].status = "closed"
          THEN IF s.side = "set"
               THEN papers[s].outcome = "none" /\ papers[s].pnl \in {"detected", "rechecked"}
               ELSE /\ papers[s].outcome = resolution[s.market]
                    /\ papers[s].pnl = "win" <=> s.side = resolution[s.market]
          ELSE papers[s].outcome = "none" /\ papers[s].pnl = "none"

\* With the fill check, no paper P&L rests on the edge of the stored signal.
PaidAtRecheckedEdge ==
    FillCheck => \A s \in Feed : papers[s].pnl # "detected"

\* A row that is closed or expired is never written again with other content,
\* whichever runs overlap: settlement by id without a status check is harmless.
SettledIsFinal ==
    [][/\ \A b \in Bets : bets[b].status = "closed" => bets'[b] = bets[b]
       /\ \A s \in Feed : papers[s].status \in {"closed", "expired"} => papers'[s] = papers[s]]_vars

\* The bets and trades whose market is decided are closed in the end, and every
\* set arbitrage is, tracked market or not, and paid at the edge of its re-check.
EverythingSettles ==
    /\ \A b \in Bets :
          b \in OpenDirectional /\ bets[b].market \in Decided ~> bets[b].status = "closed"
    /\ \A s \in Feed :
          s \in OpenTrades /\ (s.side = "set" \/ s.market \in Decided)
          ~> /\ papers[s].status = "closed"
             /\ FillCheck /\ s.side = "set" => papers[s].pnl = "rechecked"

\* Predictions of a market that the journal pass may no longer load: as many
\* others are not older.
PushedOut(m) ==
    \A s \in Predictions : s.market = m =>
       Cardinality({t \in Predictions : t # s /\ t.time >= s.time}) >= JournalLimit

\* A decided market with a prediction is journaled in the end, unless discovery
\* drops the market first, or newer predictions of other markets push those of
\* the market out of what the journal pass loads (resolution_engine.py:62).
PredictionsJournaled ==
    \A m \in Markets :
        m \in Decided \cap tracked /\ ~PushedOut(m) ~> Journaled(m) \/ m \notin tracked \/ PushedOut(m)

\* What resolution_engine.py says of itself (lines 7-8): a market already in
\* the journal is skipped, so re-running never double-counts.
NeverDoubleCounted ==
    \A q, r \in JournalRow :
        journal[q] > 0 /\ journal[r] > 0 /\ q.signal.market = r.signal.market => q = r

\* What paper/capture.py says of itself (lines 15-16): at most one open paper
\* trade per strategy per market at a time.
AtMostOneOpenTrade == \A s, t \in OpenTrades : Key(s) = Key(t) => s = t
=============================================================================
