---------------------------- MODULE LedgerProofs ----------------------------
(***************************************************************************)
(* Proofs about Ledger, for any number of markets, signals, positions,     *)
(* watchers and capturers.  The inductive invariant says, next to what the *)
(* books hold, what a process may still believe while it waits between its *)
(* read and its write: JournalInv for the journal, BetsInv and PapersInv   *)
(* for the settlements, CaptureInv for paper capture.                      *)
(***************************************************************************)
EXTENDS Ledger, TLAPS

\* A watcher's own rows are on other markets than its due predictions, which
\* are on different markets.
JournalInv ==
    /\ JournaledOncePerWatcher
    /\ \A r \in JournalRow : journal[r] > 0 => r.outcome = resolution[r.signal.market]
    /\ \A w \in Watchers : \A s \in due[w] : \A r \in JournalRow :
          journal[r] > 0 /\ r.by = w => r.signal.market # s.market
    /\ \A w \in Watchers : \A s, t \in due[w] : s.market = t.market => s = t

\* A position a watcher believes open may be closed by now, never gone.
BetOK(b) ==
    /\ bets[b].status # "none" => bets[b].market \in Markets
    /\ bets[b].status = "closed" =>
          /\ bets[b].side \in Outcomes
          /\ bets[b].market \in Decided
          /\ bets[b].outcome = resolution[bets[b].market]
          /\ bets[b].pnl = SettledPnl(bets[b].side, resolution[bets[b].market])
    /\ bets[b].status # "closed" => bets[b].outcome = "none" /\ bets[b].pnl = "none"

BetsInv ==
    /\ \A b \in Bets : BetOK(b)
    /\ \A w \in Watchers : \A b \in openBets[w] :
          bets[b].status \in {"open", "closed"} /\ bets[b].side \in Outcomes

\* The same of paper trades; an arbitrage that counts was checked.
PaperOK(s) ==
    /\ papers[s].status # "none" => papers[s].by \in Capturers
    /\ papers[s].status \in {"open", "closed"} /\ s.side = "set" =>
          papers[s].edge \in IF FillCheck THEN {"rechecked"} ELSE {"detected", "rechecked"}
    /\ papers[s].status = "closed" =>
          IF s.side = "set"
          THEN papers[s].outcome = "none" /\ papers[s].pnl = papers[s].edge
          ELSE /\ s.market \in Decided
               /\ papers[s].outcome = resolution[s.market]
               /\ papers[s].pnl = SettledPnl(s.side, resolution[s.market])
    /\ papers[s].status # "closed" => papers[s].outcome = "none" /\ papers[s].pnl = "none"

PapersInv ==
    /\ \A s \in Feed : PaperOK(s)
    /\ \A w \in Watchers : \A s \in openPapers[w] : papers[s].status \in {"open", "closed"}

\* While a capturer holds a selection it has no open trade of the same key.
CaptureInv ==
    /\ OneOpenTradePerCapturer
    /\ \A c \in Capturers : \A s \in picked[c] : \A t \in OpenTrades :
          Key(t) = Key(s) => papers[t].by # c
    /\ \A c \in Capturers : \A s, t \in picked[c] : Key(s) = Key(t) => s = t

IInv == TypeOK /\ JournalInv /\ BetsInv /\ PapersInv /\ CaptureInv

-----------------------------------------------------------------------------
(* Types.                                                                  *)

LEMMA SignalFields ==
    \A s \in Feed : /\ s.strategy \in Strategies
                    /\ s.market \in Markets
                    /\ s.time \in Nat
                    /\ s.side \in Sides
  BY LedgerAssumption DEF SignalType

LEMMA NoBetType == NoBet \in BetRow
  BY DEF NoBet, BetRow, Sides, Outcomes

LEMMA NoPaperType == NoPaper \in PaperRow
  BY DEF NoPaper, PaperRow, Outcomes

LEMMA TypeInit == Init => TypeOK
  <1> SUFFICES ASSUME Init PROVE TypeOK
      OBVIOUS
  <1> USE DEF Init
  <1>1. bets \in [Bets -> BetRow] BY NoBetType
  <1>2. papers \in [Feed -> PaperRow] BY NoPaperType
  <1>3. journal \in [JournalRow -> Nat] OBVIOUS
  <1>4. tracked \subseteq Markets BY LedgerAssumption
  <1> QED BY <1>1, <1>2, <1>3, <1>4 DEF TypeOK

LEMMA ClosedBetType ==
    ASSUME TypeOK, NEW b \in Bets, bets[b].market \in Decided
    PROVE  ClosedBet(bets[b]) \in BetRow
  <1>1. bets[b] \in BetRow BY DEF TypeOK
  <1>2. resolution[bets[b].market] \in Outcomes BY DEF Decided
  <1>3. SettledPnl(bets[b].side, resolution[bets[b].market]) \in {"none", "win", "loss"}
        BY DEF SettledPnl
  <1> QED BY <1>1, <1>2, <1>3 DEF ClosedBet, BetRow

LEMMA ClosedPaperType ==
    ASSUME TypeOK, NEW s \in Feed, s.side = "set" \/ s.market \in Decided
    PROVE  ClosedPaper(s) \in PaperRow
  <1>1. papers[s] \in PaperRow BY DEF TypeOK
  <1>2. CASE s.side = "set" BY <1>1, <1>2 DEF ClosedPaper, PaperRow
  <1>3. CASE s.side # "set"
    <2>1. resolution[s.market] \in Outcomes BY <1>3 DEF Decided
    <2>2. SettledPnl(s.side, resolution[s.market]) \in {"win", "loss"} BY DEF SettledPnl
    <2> QED BY <1>1, <1>3, <2>1, <2>2 DEF ClosedPaper, PaperRow
  <1> QED BY <1>2, <1>3

LEMMA InsertedType ==
    ASSUME TypeOK, NEW s \in Feed, NEW c \in Capturers, NEW verdict
    PROVE  Inserted(c, s, verdict) \in PaperRow
  <1>1. papers[s] \in PaperRow BY DEF TypeOK
  <1>2. NewTrade(c, verdict) \in PaperRow BY NoPaperType DEF NewTrade, NoPaper, PaperRow
  <1> QED BY <1>1, <1>2 DEF Inserted

\* What load_signals answers is part of what is stored.
LEMMA NewestIsStored ==
    ASSUME NEW rows, NEW limit, NEW read \in Newest(rows, limit)
    PROVE  read \subseteq rows
  BY DEF Newest

LEMMA ReadIsOfPredictions ==
    ASSUME TypeOK, NEW read \in ReadPredictions
    PROVE  /\ read \subseteq Feed
           /\ \A s \in read : s.strategy = "extreme_correction"
  <1>1. read \subseteq Predictions BY NewestIsStored DEF ReadPredictions
  <1> QED BY <1>1 DEF Predictions, TypeOK

LEMMA TypeStep == TypeOK /\ [Next]_vars => TypeOK'
  <1> SUFFICES ASSUME TypeOK, [Next]_vars PROVE TypeOK'
      OBVIOUS
  <1> USE DEF TypeOK
  <1>1. CASE WorldNext
    <2>1. ASSUME NEW m \in Followed, Resolve(m) PROVE TypeOK'
          BY <2>1 DEF Resolve, cycle
    <2>2. CASE Discover BY <2>2, LedgerAssumption DEF Discover, cycle
    <2>3. ASSUME NEW s \in Feed, Emit(s) PROVE TypeOK'
          BY <2>3 DEF Emit, cycle
    <2>4. ASSUME NEW b \in Bets, CreatePosition(b) PROVE TypeOK'
      <3>1. [NoBet EXCEPT !.status = "open", !.market = b.market, !.side = b.side] \in BetRow
            BY LedgerAssumption DEF NoBet, BetRow
      <3> QED BY <2>4, <3>1 DEF CreatePosition, world, cycle
    <2> QED BY <1>1, <2>1, <2>2, <2>3, <2>4 DEF WorldNext
  <1>2. ASSUME NEW w \in Watchers, Cycle(w) PROVE TypeOK'
    <2>1. CASE BeginCycle(w)
      <3>1. \A read \in ReadPredictions : Due(read) \subseteq Feed BY ReadIsOfPredictions DEF Due
      <3> QED BY <2>1, <3>1 DEF BeginCycle, world
    <2>2. ASSUME NEW got \in SUBSET Decided, Journal(w, got) PROVE TypeOK'
      <3>1. journal' \in [JournalRow -> Nat] BY <2>2 DEF Journal
      <3>2. OpenDirectional \subseteq Bets BY DEF OpenDirectional
      <3> QED BY <2>2, <3>1, <3>2 DEF Journal, world
    <2>3. ASSUME NEW got \in SUBSET Decided, SettleBets(w, got) PROVE TypeOK'
      <3>1. bets' \in [Bets -> BetRow] BY <2>3, ClosedBetType DEF SettleBets
      <3>2. OpenTrades \subseteq Feed BY DEF OpenTrades
      <3> QED BY <2>3, <3>1, <3>2 DEF SettleBets, world
    <2>4. ASSUME NEW got \in SUBSET Decided, SettlePapers(w, got) PROVE TypeOK'
      <3>1. papers' \in [Feed -> PaperRow] BY <2>4, ClosedPaperType DEF SettlePapers
      <3> QED BY <2>4, <3>1 DEF SettlePapers, world
    <2>5. CASE FailCycle(w) BY <2>5 DEF FailCycle, world
    <2> QED BY <1>2, <2>1, <2>2, <2>3, <2>4, <2>5 DEF Cycle
  <1>3. ASSUME NEW c \in Capturers, Capture(c) PROVE TypeOK'
    <2>1. CASE SelectTrades(c)
      <3>1. ASSUME NEW read \in Newest(signals, CaptureLimit), NEW gated
            PROVE  Selected(Actionable(read, gated)) \subseteq Feed
            BY NewestIsStored DEF Selected, Actionable
      <3> QED BY <2>1, <3>1 DEF SelectTrades, world, cycle
    <2>2. CASE CaptureTrades(c)
      <3>1. papers' \in [Feed -> PaperRow] BY <2>2, InsertedType DEF CaptureTrades
      <3> QED BY <2>2, <3>1 DEF CaptureTrades, world, cycle
    <2>3. CASE FailCapture(c) BY <2>3 DEF FailCapture, world, cycle
    <2> QED BY <1>3, <2>1, <2>2, <2>3 DEF Capture
  <1>4. CASE UNCHANGED vars BY <1>4 DEF vars, world, cycle
  <1> QED BY <1>1, <1>2, <1>3, <1>4 DEF Next
-----------------------------------------------------------------------------
(* The calibration journal.                                                *)

\* A market's outcome is final once it is decided.
LEMMA DecidedIsFinal ==
    ASSUME TypeOK, [Next]_vars, NEW m \in Markets, m \in Decided
    PROVE  m \in Decided' /\ resolution'[m] = resolution[m]
  <1>1. CASE \E n \in Followed : Resolve(n)
    <2>1. PICK n \in Followed : Resolve(n) BY <1>1
    <2>2. n # m BY <2>1 DEF Resolve, Decided, Outcomes
    <2>3. resolution'[m] = resolution[m] BY <2>1, <2>2 DEF Resolve, TypeOK
    <2> QED BY <2>3 DEF Decided
  <1>2. CASE UNCHANGED resolution BY <1>2 DEF Decided
  <1>3. (\E n \in Followed : Resolve(n)) \/ UNCHANGED resolution
        BY DEF Next, WorldNext, Discover, Emit, CreatePosition, Cycle, BeginCycle, Journal,
               SettleBets, SettlePapers, FailCycle, Capture, SelectTrades, CaptureTrades,
               FailCapture, vars, world
  <1> QED BY <1>1, <1>2, <1>3

\* Two newest predictions of one market are the same prediction.
LEMMA DueIsUnambiguous ==
    ASSUME TypeOK, NEW read \in ReadPredictions, NEW s \in Due(read), NEW t \in Due(read),
           s.market = t.market
    PROVE  s = t
  <1>1. s \in Feed /\ t \in Feed BY ReadIsOfPredictions DEF Due
  <1>2. s.strategy = t.strategy BY ReadIsOfPredictions DEF Due
  <1>3. s.time <= t.time /\ t.time <= s.time BY <1>2 DEF Due, Latest
  <1>4. s.time = t.time BY <1>1, <1>3, SignalFields
  <1> QED BY <1>1, <1>2, <1>4, LedgerAssumption

\* The rows a watcher adds are new, each on a market of its own.
LEMMA NewRowsAreNew ==
    ASSUME TypeOK, JournalInv, NEW w \in Watchers, NEW got \in SUBSET Decided,
           NEW r \in NewRows(w, got), NEW q \in JournalRow,
           q.by = r.by, q.signal.market = r.signal.market
    PROVE  /\ journal[q] = 0
           /\ q \in NewRows(w, got) => q = r
  <1>1. r \in JournalRow /\ r.by = w /\ r.signal \in due[w] BY DEF NewRows
  <1>2. journal[q] \in Nat BY DEF TypeOK
  <1>3. ~(journal[q] > 0) BY <1>1 DEF JournalInv
  <1>4. ASSUME q \in NewRows(w, got) PROVE q = r
    <2>1. q.signal \in due[w] /\ q.outcome = resolution[q.signal.market] BY <1>4 DEF NewRows
    <2>2. q.signal = r.signal BY <1>1, <2>1 DEF JournalInv
    <2>3. q.outcome = r.outcome BY <2>1, <2>2 DEF NewRows
    <2> QED BY <1>1, <2>2, <2>3 DEF JournalRow
  <1> QED BY <1>2, <1>3, <1>4

LEMMA JournalFrame ==
    ASSUME TypeOK, JournalInv, [Next]_vars, UNCHANGED journal,
           \A w \in Watchers : due'[w] \subseteq due[w]
    PROVE  JournalInv'
  <1>1. JournaledOncePerWatcher' BY DEF JournalInv, JournaledOncePerWatcher
  <1>2. ASSUME NEW r \in JournalRow, journal[r] > 0 PROVE r.outcome = resolution'[r.signal.market]
    <2>1. r.signal \in Feed /\ r.outcome \in Outcomes BY DEF JournalRow
    <2>2. r.signal.market \in Markets BY <2>1, SignalFields
    <2>3. r.outcome = resolution[r.signal.market] BY <1>2 DEF JournalInv
    <2>4. r.signal.market \in Decided BY <2>1, <2>2, <2>3 DEF Decided
    <2> QED BY <2>2, <2>3, <2>4, DecidedIsFinal
  <1>3. \A w \in Watchers : \A s \in due'[w] : \A r \in JournalRow :
            journal'[r] > 0 /\ r.by = w => r.signal.market # s.market
        BY DEF JournalInv
  <1>4. \A w \in Watchers : \A s, t \in due'[w] : s.market = t.market => s = t
        BY DEF JournalInv
  <1> QED BY <1>1, <1>2, <1>3, <1>4 DEF JournalInv

LEMMA JournalStep == TypeOK /\ JournalInv /\ [Next]_vars => JournalInv'
  <1> SUFFICES ASSUME TypeOK, JournalInv, [Next]_vars PROVE JournalInv'
      OBVIOUS
  <1>1. ASSUME NEW w \in Watchers, BeginCycle(w) PROVE JournalInv'
    <2>1. UNCHANGED <<journal, resolution>> BY <1>1 DEF BeginCycle, world
    <2>2. PICK read \in ReadPredictions : due' = [due EXCEPT ![w] = Due(read)]
          BY <1>1 DEF BeginCycle
    <2>3. ASSUME NEW v \in Watchers, NEW s \in due'[v], NEW r \in JournalRow,
                 journal[r] > 0, r.by = v
          PROVE  r.signal.market # s.market
      <3>1. CASE v = w
        <4>1. s \in Due(read) BY <2>2, <2>3, <3>1 DEF TypeOK
        <4> QED BY <2>3, <4>1 DEF Due, Journaled
      <3>2. CASE v # w BY <2>2, <2>3, <3>2 DEF JournalInv, TypeOK
      <3> QED BY <3>1, <3>2
    <2>4. ASSUME NEW v \in Watchers, NEW s \in due'[v], NEW t \in due'[v], s.market = t.market
          PROVE  s = t
      <3>1. CASE v = w
        <4>1. s \in Due(read) /\ t \in Due(read) BY <2>2, <2>4, <3>1 DEF TypeOK
        <4> QED BY <2>4, <4>1, DueIsUnambiguous
      <3>2. CASE v # w BY <2>2, <2>4, <3>2 DEF JournalInv, TypeOK
      <3> QED BY <3>1, <3>2
    <2> QED BY <2>1, <2>3, <2>4 DEF JournalInv, JournaledOncePerWatcher
  <1>2. ASSUME NEW w \in Watchers, NEW got \in SUBSET Decided, Journal(w, got) PROVE JournalInv'
    <2>1. UNCHANGED resolution BY <1>2 DEF Journal, world
    <2>2. \A r \in JournalRow : journal'[r] = IF r \in NewRows(w, got) THEN journal[r] + 1
                                                                     ELSE journal[r]
          BY <1>2 DEF Journal
    <2>3. \A v \in Watchers : due'[v] = IF v = w THEN {} ELSE due[v]
          BY <1>2 DEF Journal, TypeOK
    <2>4. \A r \in JournalRow : journal[r] \in Nat BY DEF TypeOK
    <2>5. ASSUME NEW r \in JournalRow PROVE journal'[r] <= 1
      <3>1. CASE r \in NewRows(w, got)
        <4>1. journal[r] = 0 BY <3>1, NewRowsAreNew
        <4> QED BY <2>2, <3>1, <4>1
      <3>2. CASE r \notin NewRows(w, got)
            BY <2>2, <3>2 DEF JournalInv, JournaledOncePerWatcher
      <3> QED BY <3>1, <3>2
    <2>6. ASSUME NEW q \in JournalRow, NEW r \in JournalRow, journal'[q] > 0, journal'[r] > 0,
                 q.by = r.by, q.signal.market = r.signal.market
          PROVE  q = r
      <3>1. CASE r \in NewRows(w, got)
        <4>1. journal[q] = 0 /\ (q \in NewRows(w, got) => q = r) BY <2>6, <3>1, NewRowsAreNew
        <4> QED BY <2>2, <2>6, <4>1
      <3>2. CASE q \in NewRows(w, got)
        <4>1. journal[r] = 0 /\ (r \in NewRows(w, got) => r = q) BY <2>6, <3>2, NewRowsAreNew
        <4> QED BY <2>2, <2>6, <4>1
      <3>3. CASE r \notin NewRows(w, got) /\ q \notin NewRows(w, got)
        <4>1. journal[q] > 0 /\ journal[r] > 0 BY <2>2, <2>6, <3>3
        <4> QED BY <2>6, <4>1 DEF JournalInv, JournaledOncePerWatcher
      <3> QED BY <3>1, <3>2, <3>3
    <2>7. ASSUME NEW r \in JournalRow, journal'[r] > 0 PROVE r.outcome = resolution[r.signal.market]
      <3>1. CASE r \in NewRows(w, got) BY <3>1 DEF NewRows
      <3>2. CASE r \notin NewRows(w, got) BY <2>2, <2>7, <3>2 DEF JournalInv
      <3> QED BY <3>1, <3>2
    <2>8. ASSUME NEW v \in Watchers, NEW s \in due'[v], NEW r \in JournalRow,
                 journal'[r] > 0, r.by = v
          PROVE  r.signal.market # s.market
      <3>1. v # w /\ s \in due[v] BY <2>3, <2>8
      <3>2. r \notin NewRows(w, got) BY <2>8, <3>1 DEF NewRows
      <3>3. journal[r] > 0 BY <2>2, <2>8, <3>2
      <3> QED BY <2>8, <3>1, <3>3 DEF JournalInv
    <2>9. \A v \in Watchers : \A s, t \in due'[v] : s.market = t.market => s = t
          BY <2>3 DEF JournalInv
    <2>10. JournaledOncePerWatcher' BY <2>5, <2>6 DEF JournaledOncePerWatcher
    <2> QED BY <2>1, <2>7, <2>8, <2>9, <2>10 DEF JournalInv
  <1>3. CASE /\ UNCHANGED journal
             /\ \A w \in Watchers : due'[w] \subseteq due[w]
        BY <1>3, JournalFrame
  <1>4. CASE WorldNext
    <2>1. UNCHANGED <<journal, due>>
          BY <1>4 DEF WorldNext, Resolve, Discover, Emit, CreatePosition, cycle
    <2> QED BY <2>1, <1>3
  <1>5. ASSUME NEW w \in Watchers, Cycle(w) PROVE JournalInv'
    <2>1. ASSUME NEW got \in SUBSET Decided, SettleBets(w, got) PROVE JournalInv'
      <3>1. UNCHANGED <<journal, due>> BY <2>1 DEF SettleBets
      <3> QED BY <3>1, <1>3
    <2>2. ASSUME NEW got \in SUBSET Decided, SettlePapers(w, got) PROVE JournalInv'
      <3>1. UNCHANGED <<journal, due>> BY <2>2 DEF SettlePapers
      <3> QED BY <3>1, <1>3
    <2>3. CASE FailCycle(w)
      <3>1. UNCHANGED journal /\ \A v \in Watchers : due'[v] \subseteq due[v]
            BY <2>3 DEF FailCycle, TypeOK
      <3> QED BY <3>1, <1>3
    <2> QED BY <1>1, <1>2, <1>5, <2>1, <2>2, <2>3 DEF Cycle
  <1>6. ASSUME NEW c \in Capturers, Capture(c) PROVE JournalInv'
    <2>1. UNCHANGED <<journal, due>>
          BY <1>6 DEF Capture, SelectTrades, CaptureTrades, FailCapture, cycle
    <2> QED BY <2>1, <1>3
  <1>7. CASE UNCHANGED vars
    <2>1. UNCHANGED <<journal, due>> BY <1>7 DEF vars, cycle
    <2> QED BY <2>1, <1>3
  <1> QED BY <1>4, <1>5, <1>6, <1>7 DEF Next
-----------------------------------------------------------------------------
(* Positions.                                                              *)

\* Closing a position that is open or already closed leaves a sound row, and
\* leaves a closed row as it is.
LEMMA ClosingABet ==
    ASSUME TypeOK, NEW b \in Bets, BetOK(b), bets[b].status \in {"open", "closed"},
           bets[b].side \in Outcomes, bets[b].market \in Decided
    PROVE  /\ ClosedBet(bets[b]).status = "closed"
           /\ ClosedBet(bets[b]).side = bets[b].side
           /\ ClosedBet(bets[b]).market = bets[b].market
           /\ ClosedBet(bets[b]).outcome = resolution[bets[b].market]
           /\ ClosedBet(bets[b]).pnl = SettledPnl(bets[b].side, resolution[bets[b].market])
           /\ bets[b].status = "closed" => ClosedBet(bets[b]) = bets[b]
  <1>1. bets[b] \in BetRow BY DEF TypeOK
  <1> QED BY <1>1 DEF ClosedBet, BetRow, BetOK

\* A row nobody writes stays sound: its market's outcome is final.
LEMMA BetKept ==
    ASSUME TypeOK, [Next]_vars, NEW b \in Bets, BetOK(b), bets'[b] = bets[b]
    PROVE  BetOK(b)'
  <1>1. ASSUME bets[b].status = "closed"
        PROVE  /\ bets[b].market \in Decided'
               /\ resolution'[bets[b].market] = resolution[bets[b].market]
    <2>1. bets[b].market \in Decided /\ bets[b].market \in Markets BY <1>1 DEF BetOK, Decided
    <2> QED BY <2>1, DecidedIsFinal
  <1> QED BY <1>1 DEF BetOK

LEMMA BetsFrame ==
    ASSUME TypeOK, BetsInv, [Next]_vars, UNCHANGED bets,
           \A w \in Watchers : openBets'[w] \subseteq openBets[w]
    PROVE  BetsInv'
  <1>1. \A b \in Bets : BetOK(b)' BY BetKept DEF BetsInv
  <1>2. \A w \in Watchers : \A b \in openBets'[w] :
            bets'[b].status \in {"open", "closed"} /\ bets'[b].side \in Outcomes
        BY DEF BetsInv
  <1> QED BY <1>1, <1>2 DEF BetsInv

LEMMA BetsStep == TypeOK /\ BetsInv /\ [Next]_vars => BetsInv'
  <1> SUFFICES ASSUME TypeOK, BetsInv, [Next]_vars PROVE BetsInv'
      OBVIOUS
  <1>1. CASE /\ UNCHANGED bets
             /\ \A w \in Watchers : openBets'[w] \subseteq openBets[w]
        BY <1>1, BetsFrame
  <1>2. ASSUME NEW b \in Bets, CreatePosition(b) PROVE BetsInv'
    <2>1. /\ bets[b].status = "none"
          /\ UNCHANGED <<resolution, openBets>>
          BY <1>2 DEF CreatePosition, world, cycle
    <2>2. /\ bets'[b] = [NoBet EXCEPT !.status = "open", !.market = b.market, !.side = b.side]
          /\ \A a \in Bets : a # b => bets'[a] = bets[a]
          BY <1>2 DEF CreatePosition, TypeOK
    <2>3. BetOK(b)' BY <2>2, LedgerAssumption DEF BetOK, NoBet
    <2>4. \A a \in Bets : a # b => BetOK(a)' BY <2>2, BetKept DEF BetsInv
    <2>5. \A w \in Watchers : \A a \in openBets[w] : a \in Bets /\ a # b
          BY <2>1 DEF BetsInv, TypeOK
    <2> QED BY <2>1, <2>2, <2>3, <2>4, <2>5 DEF BetsInv
  <1>3. ASSUME NEW w \in Watchers, NEW got \in SUBSET Decided, Journal(w, got) PROVE BetsInv'
    <2>1. UNCHANGED <<bets, resolution>> BY <1>3 DEF Journal, world
    <2>2. \A v \in Watchers : openBets'[v] = IF v = w THEN OpenDirectional ELSE openBets[v]
          BY <1>3 DEF Journal, TypeOK
    <2>3. \A b \in Bets : BetOK(b)' BY <2>1, BetKept DEF BetsInv
    <2> QED BY <2>1, <2>2, <2>3 DEF BetsInv, OpenDirectional
  <1>4. ASSUME NEW w \in Watchers, NEW got \in SUBSET Decided, SettleBets(w, got) PROVE BetsInv'
    <2>1. UNCHANGED resolution BY <1>4 DEF SettleBets, world
    <2>2. \A b \in Bets : bets'[b] = IF b \in openBets[w] /\ bets[b].market \in got
                                     THEN ClosedBet(bets[b]) ELSE bets[b]
          BY <1>4 DEF SettleBets
    <2>3. \A v \in Watchers : openBets'[v] \subseteq openBets[v] BY <1>4 DEF SettleBets, TypeOK
    <2>4. ASSUME NEW b \in Bets
          PROVE  /\ BetOK(b)'
                 /\ bets[b].status \in {"open", "closed"} /\ bets[b].side \in Outcomes
                    => bets'[b].status \in {"open", "closed"} /\ bets'[b].side \in Outcomes
      <3>1. CASE b \in openBets[w] /\ bets[b].market \in got
        <4>1. BetOK(b) /\ bets[b].status \in {"open", "closed"} /\ bets[b].side \in Outcomes
              BY <3>1 DEF BetsInv
        <4>2. bets[b].market \in Decided BY <3>1
        <4> QED BY <2>1, <2>2, <3>1, <4>1, <4>2, ClosingABet DEF BetOK, Decided
      <3>2. CASE ~(b \in openBets[w] /\ bets[b].market \in got)
        <4>1. bets'[b] = bets[b] BY <2>2, <3>2
        <4> QED BY <4>1, BetKept DEF BetsInv
      <3> QED BY <3>1, <3>2
    <2> QED BY <2>3, <2>4 DEF BetsInv, TypeOK
  <1>5. CASE WorldNext
    <2>1. ASSUME \/ \E m \in Followed : Resolve(m)
                 \/ Discover
                 \/ \E s \in Feed : Emit(s)
          PROVE  BetsInv'
      <3>1. UNCHANGED <<bets, openBets>> BY <2>1 DEF Resolve, Discover, Emit, cycle
      <3> QED BY <3>1, <1>1
    <2> QED BY <1>2, <1>5, <2>1 DEF WorldNext
  <1>6. ASSUME NEW w \in Watchers, Cycle(w) PROVE BetsInv'
    <2>1. CASE BeginCycle(w) \/ FailCycle(w)
      <3>1. UNCHANGED bets /\ \A v \in Watchers : openBets'[v] \subseteq openBets[v]
            BY <2>1 DEF BeginCycle, FailCycle, TypeOK
      <3> QED BY <3>1, <1>1
    <2>2. ASSUME NEW got \in SUBSET Decided, SettlePapers(w, got) PROVE BetsInv'
      <3>1. UNCHANGED <<bets, openBets>> BY <2>2 DEF SettlePapers
      <3> QED BY <3>1, <1>1
    <2> QED BY <1>3, <1>4, <1>6, <2>1, <2>2 DEF Cycle
  <1>7. ASSUME NEW c \in Capturers, Capture(c) PROVE BetsInv'
    <2>1. UNCHANGED <<bets, openBets>>
          BY <1>7 DEF Capture, SelectTrades, CaptureTrades, FailCapture, cycle
    <2> QED BY <2>1, <1>1
  <1>8. CASE UNCHANGED vars
    <2>1. UNCHANGED <<bets, openBets>> BY <1>8 DEF vars, cycle
    <2> QED BY <2>1, <1>1
  <1> QED BY <1>5, <1>6, <1>7, <1>8 DEF Next

-----------------------------------------------------------------------------
(* Paper trades.                                                           *)

LEMMA ClosingATrade ==
    ASSUME TypeOK, NEW s \in Feed, PaperOK(s), papers[s].status \in {"open", "closed"},
           s.side = "set" \/ s.market \in Decided
    PROVE  /\ ClosedPaper(s).status = "closed"
           /\ ClosedPaper(s).by = papers[s].by
           /\ ClosedPaper(s).edge = papers[s].edge
           /\ s.side = "set" => /\ ClosedPaper(s).outcome = "none"
                                /\ ClosedPaper(s).pnl = papers[s].edge
           /\ s.side # "set" => /\ ClosedPaper(s).outcome = resolution[s.market]
                                /\ ClosedPaper(s).pnl = SettledPnl(s.side, resolution[s.market])
           /\ papers[s].status = "closed" => ClosedPaper(s) = papers[s]
  <1>1. papers[s] \in PaperRow BY DEF TypeOK
  <1>2. CASE s.side = "set" BY <1>1, <1>2 DEF ClosedPaper, PaperRow, PaperOK
  <1>3. CASE s.side # "set" BY <1>1, <1>3 DEF ClosedPaper, PaperRow, PaperOK
  <1> QED BY <1>2, <1>3

LEMMA PaperKept ==
    ASSUME TypeOK, [Next]_vars, NEW s \in Feed, PaperOK(s), papers'[s] = papers[s]
    PROVE  PaperOK(s)'
  <1>1. ASSUME s.market \in Decided
        PROVE  s.market \in Decided' /\ resolution'[s.market] = resolution[s.market]
        BY <1>1, SignalFields, DecidedIsFinal
  <1> QED BY <1>1 DEF PaperOK

LEMMA PapersFrame ==
    ASSUME TypeOK, PapersInv, [Next]_vars, UNCHANGED papers,
           \A w \in Watchers : openPapers'[w] \subseteq openPapers[w]
    PROVE  PapersInv'
  <1>1. \A s \in Feed : PaperOK(s)' BY PaperKept DEF PapersInv
  <1> QED BY <1>1 DEF PapersInv

\* An insert adds a sound row or leaves the row that is there.
LEMMA InsertingATrade ==
    ASSUME TypeOK, NEW s \in Feed, PaperOK(s), NEW c \in Capturers, NEW verdict \in Verdicts(s)
    PROVE  LET row == Inserted(c, s, verdict) IN
           /\ papers[s].status # "none" => row = papers[s]
           /\ row # papers[s] =>
                 /\ row.status \in {"open", "expired"} /\ row.by = c
                 /\ row.outcome = "none" /\ row.pnl = "none"
                 /\ row.status = "open" /\ s.side = "set" =>
                       row.edge \in IF FillCheck THEN {"rechecked"} ELSE {"detected", "rechecked"}
  <1>1. NewTrade(c, verdict).by = c BY DEF NewTrade, NoPaper
  <1>2. NewTrade(c, verdict).outcome = "none" /\ NewTrade(c, verdict).pnl = "none"
        BY DEF NewTrade, NoPaper
  <1>3. NewTrade(c, verdict).status = IF verdict = "expired" THEN "expired" ELSE "open"
        BY DEF NewTrade, NoPaper
  <1>4. NewTrade(c, verdict).edge = IF verdict = "ok" THEN "rechecked" ELSE "detected"
        BY DEF NewTrade, NoPaper
  <1>5. CASE verdict = "retry" \/ papers[s].status # "none" BY <1>5 DEF Inserted
  <1>6. CASE verdict # "retry" /\ papers[s].status = "none"
    <2>1. Inserted(c, s, verdict) = NewTrade(c, verdict) BY <1>6 DEF Inserted
    <2>2. s.side = "set" /\ FillCheck => verdict \in {"ok", "expired"} BY <1>6 DEF Verdicts
    <2> QED BY <1>1, <1>2, <1>3, <1>4, <1>6, <2>1, <2>2
  <1> QED BY <1>5, <1>6
\* A capture leaves a row or inserts one of its own, sound and not yet paid.
LEMMA CaptureWrites ==
    ASSUME TypeOK, PapersInv, NEW c \in Capturers, CaptureTrades(c), NEW s \in Feed
    PROVE  \/ papers'[s] = papers[s]
           \/ /\ s \in picked[c] /\ papers[s].status = "none"
              /\ papers'[s].status \in {"open", "expired"} /\ papers'[s].by = c
              /\ papers'[s].outcome = "none" /\ papers'[s].pnl = "none"
              /\ papers'[s].status = "open" /\ s.side = "set" =>
                    papers'[s].edge \in IF FillCheck THEN {"rechecked"} ELSE {"detected", "rechecked"}
  <1>1. PICK verdict \in [picked[c] -> {"ok", "expired", "retry", "unchecked"}] :
            /\ \A t \in picked[c] : verdict[t] \in Verdicts(t)
            /\ papers' = [t \in Feed |-> IF t \in picked[c] THEN Inserted(c, t, verdict[t])
                                         ELSE papers[t]]
        BY DEF CaptureTrades
  <1>2. CASE s \in picked[c]
    <2>1. papers'[s] = Inserted(c, s, verdict[s]) BY <1>1, <1>2
    <2>2. verdict[s] \in Verdicts(s) /\ PaperOK(s) BY <1>1, <1>2 DEF PapersInv
    <2> QED BY <1>2, <2>1, <2>2, InsertingATrade
  <1>3. CASE s \notin picked[c] BY <1>1, <1>3
  <1> QED BY <1>2, <1>3

\* A settlement leaves a row or closes one that was open or closed.
LEMMA SettlementWrites ==
    ASSUME TypeOK, PapersInv, NEW w \in Watchers, NEW got \in SUBSET Decided,
           SettlePapers(w, got), NEW s \in Feed
    PROVE  \/ papers'[s] = papers[s]
           \/ /\ papers'[s] = ClosedPaper(s)
              /\ papers[s].status \in {"open", "closed"}
              /\ s.side = "set" \/ s.market \in Decided
  BY DEF SettlePapers, PapersInv

LEMMA PapersStep == TypeOK /\ PapersInv /\ [Next]_vars => PapersInv'
  <1> SUFFICES ASSUME TypeOK, PapersInv, [Next]_vars PROVE PapersInv'
      OBVIOUS
  <1>1. CASE /\ UNCHANGED papers
             /\ \A w \in Watchers : openPapers'[w] \subseteq openPapers[w]
        BY <1>1, PapersFrame
  <1>2. ASSUME NEW w \in Watchers, NEW got \in SUBSET Decided, SettleBets(w, got) PROVE PapersInv'
    <2>1. UNCHANGED papers BY <1>2 DEF SettleBets
    <2>2. \A v \in Watchers : openPapers'[v] = IF v = w THEN OpenTrades ELSE openPapers[v]
          BY <1>2 DEF SettleBets, TypeOK
    <2>3. \A s \in Feed : PaperOK(s)' BY <2>1, PaperKept DEF PapersInv
    <2> QED BY <2>1, <2>2, <2>3 DEF PapersInv, OpenTrades
  <1>3. ASSUME NEW w \in Watchers, NEW got \in SUBSET Decided, SettlePapers(w, got) PROVE PapersInv'
    <2>1. UNCHANGED resolution BY <1>3 DEF SettlePapers, world
    <2>2. \A v \in Watchers : openPapers'[v] \subseteq openPapers[v]
          BY <1>3 DEF SettlePapers, TypeOK
    <2>3. ASSUME NEW s \in Feed
          PROVE  /\ PaperOK(s)'
                 /\ papers[s].status \in {"open", "closed"} => papers'[s].status \in {"open", "closed"}
      <3>1. CASE papers'[s] = papers[s] BY <3>1, PaperKept DEF PapersInv
      <3>2. CASE /\ papers'[s] = ClosedPaper(s)
                 /\ papers[s].status \in {"open", "closed"}
                 /\ s.side = "set" \/ s.market \in Decided
        <4>1. PaperOK(s) BY DEF PapersInv
        <4>2. s.market \in Decided' <=> s.market \in Decided BY <2>1 DEF Decided
        <4> QED BY <2>1, <3>2, <4>1, <4>2, ClosingATrade DEF PaperOK
      <3> QED BY <1>3, <3>1, <3>2, SettlementWrites
    <2>4. \A v \in Watchers : \A s \in openPapers[v] : s \in Feed BY DEF TypeOK
    <2> QED BY <2>2, <2>3, <2>4 DEF PapersInv
  <1>4. ASSUME NEW c \in Capturers, CaptureTrades(c) PROVE PapersInv'
    <2>1. UNCHANGED <<resolution, openPapers>> BY <1>4 DEF CaptureTrades, world, cycle
    <2>2. ASSUME NEW s \in Feed
          PROVE  /\ PaperOK(s)'
                 /\ papers[s].status \in {"open", "closed"} => papers'[s].status \in {"open", "closed"}
      <3>1. CASE papers'[s] = papers[s] BY <3>1, PaperKept DEF PapersInv
      <3>2. CASE papers'[s] # papers[s]
        <4>1. /\ papers[s].status = "none" /\ papers'[s].by = c
              /\ papers'[s].status \in {"open", "expired"}
              /\ papers'[s].outcome = "none" /\ papers'[s].pnl = "none"
              /\ papers'[s].status = "open" /\ s.side = "set" =>
                    papers'[s].edge \in IF FillCheck THEN {"rechecked"} ELSE {"detected", "rechecked"}
              BY <1>4, <3>2, CaptureWrites
        <4> QED BY <4>1 DEF PaperOK
      <3> QED BY <3>1, <3>2
    <2>3. \A v \in Watchers : \A s \in openPapers[v] : s \in Feed BY DEF TypeOK
    <2> QED BY <2>1, <2>2, <2>3 DEF PapersInv
  <1>5. CASE WorldNext
    <2>1. UNCHANGED <<papers, openPapers>>
          BY <1>5 DEF WorldNext, Resolve, Discover, Emit, CreatePosition, cycle
    <2> QED BY <2>1, <1>1
  <1>6. ASSUME NEW w \in Watchers, Cycle(w) PROVE PapersInv'
    <2>1. CASE BeginCycle(w) \/ FailCycle(w)
      <3>1. UNCHANGED papers /\ \A v \in Watchers : openPapers'[v] \subseteq openPapers[v]
            BY <2>1 DEF BeginCycle, FailCycle, TypeOK
      <3> QED BY <3>1, <1>1
    <2>2. ASSUME NEW got \in SUBSET Decided, Journal(w, got) PROVE PapersInv'
      <3>1. UNCHANGED <<papers, openPapers>> BY <2>2 DEF Journal
      <3> QED BY <3>1, <1>1
    <2> QED BY <1>2, <1>3, <1>6, <2>1, <2>2 DEF Cycle
  <1>7. ASSUME NEW c \in Capturers, Capture(c) PROVE PapersInv'
    <2>1. CASE SelectTrades(c) \/ FailCapture(c)
      <3>1. UNCHANGED <<papers, openPapers>> BY <2>1 DEF SelectTrades, FailCapture, cycle
      <3> QED BY <3>1, <1>1
    <2> QED BY <1>4, <1>7, <2>1 DEF Capture
  <1>8. CASE UNCHANGED vars
    <2>1. UNCHANGED <<papers, openPapers>> BY <1>8 DEF vars, cycle
    <2> QED BY <2>1, <1>1
  <1> QED BY <1>5, <1>6, <1>7, <1>8 DEF Next

-----------------------------------------------------------------------------
(* Paper capture.                                                          *)

\* What one capturer selects: one signal per key, of keys without an open trade.
LEMMA SelectionIsUnambiguous ==
    ASSUME TypeOK, NEW advised \in SUBSET Feed, NEW s \in Selected(advised)
    PROVE  /\ \A t \in OpenTrades : Key(t) # Key(s)
           /\ \A t \in Selected(advised) : Key(s) = Key(t) => s = t
  <1>1. \A t \in OpenTrades : Key(t) # Key(s) BY DEF Selected, OpenKeys
  <1>2. ASSUME NEW t \in Selected(advised), Key(s) = Key(t) PROVE s = t
    <2>1. s \in Feed /\ t \in Feed /\ s \in advised /\ t \in advised BY DEF Selected
    <2>2. s.strategy = t.strategy /\ s.market = t.market BY <1>2 DEF Key
    <2>3. s.time <= t.time /\ t.time <= s.time BY <1>2, <2>1 DEF Selected
    <2>4. s.time = t.time BY <2>1, <2>3, SignalFields
    <2> QED BY <2>1, <2>2, <2>4, LedgerAssumption
  <1> QED BY <1>1, <1>2

\* A step that opens no trade and selects none keeps the invariant.
LEMMA CaptureFrame ==
    ASSUME TypeOK, CaptureInv,
           \A s \in Feed : papers'[s].status = "open" =>
              papers[s].status = "open" /\ papers'[s].by = papers[s].by,
           \A c \in Capturers : picked'[c] \subseteq picked[c]
    PROVE  CaptureInv'
  <1>1. OpenTrades' \subseteq OpenTrades BY DEF OpenTrades
  <1>2. \A s \in OpenTrades' : papers'[s].by = papers[s].by BY DEF OpenTrades
  <1>3. OneOpenTradePerCapturer' BY <1>1, <1>2 DEF CaptureInv, OneOpenTradePerCapturer, Key
  <1>4. \A c \in Capturers : \A s \in picked'[c] : \A t \in OpenTrades' :
            Key(t) = Key(s) => papers'[t].by # c
        BY <1>1, <1>2 DEF CaptureInv
  <1>5. \A c \in Capturers : \A s, t \in picked'[c] : Key(s) = Key(t) => s = t
        BY DEF CaptureInv
  <1> QED BY <1>3, <1>4, <1>5 DEF CaptureInv, Key

LEMMA CaptureStep == TypeOK /\ PapersInv /\ CaptureInv /\ [Next]_vars => CaptureInv'
  <1> SUFFICES ASSUME TypeOK, PapersInv, CaptureInv, [Next]_vars PROVE CaptureInv'
      OBVIOUS
  <1>1. CASE UNCHANGED <<papers, picked>> BY <1>1, CaptureFrame
  <1>2. ASSUME NEW w \in Watchers, NEW got \in SUBSET Decided, SettlePapers(w, got) PROVE CaptureInv'
    <2>1. UNCHANGED picked BY <1>2 DEF SettlePapers
    <2>2. ASSUME NEW s \in Feed, papers'[s].status = "open"
          PROVE  papers[s].status = "open" /\ papers'[s].by = papers[s].by
      <3>1. CASE papers'[s] = papers[s] BY <2>2, <3>1
      <3>2. CASE /\ papers'[s] = ClosedPaper(s)
                 /\ papers[s].status \in {"open", "closed"}
                 /\ s.side = "set" \/ s.market \in Decided
            BY <2>2, <3>2, ClosingATrade DEF PapersInv
      <3> QED BY <1>2, <3>1, <3>2, SettlementWrites
    <2> QED BY <2>1, <2>2, CaptureFrame
  <1>3. ASSUME NEW c \in Capturers, SelectTrades(c) PROVE CaptureInv'
    <2>1. UNCHANGED papers BY <1>3 DEF SelectTrades
    <2>2. PICK read \in Newest(signals, CaptureLimit) : \E gated \in SUBSET read :
              picked' = [picked EXCEPT ![c] = Selected(Actionable(read, gated))]
          BY <1>3 DEF SelectTrades
    <2> PICK gated \in SUBSET read : picked' = [picked EXCEPT ![c] = Selected(Actionable(read, gated))]
        BY <2>2
    <2> DEFINE chosen == Selected(Actionable(read, gated))
    <2>3. Actionable(read, gated) \in SUBSET Feed BY <2>2, NewestIsStored DEF Actionable, TypeOK
    <2>4. \A d \in Capturers : picked'[d] = IF d = c THEN chosen ELSE picked[d]
          BY <2>2 DEF TypeOK
    <2>5. OpenTrades' = OpenTrades BY <2>1 DEF OpenTrades
    <2>6. OneOpenTradePerCapturer' BY <2>1, <2>5 DEF CaptureInv, OneOpenTradePerCapturer, Key
    <2>7. ASSUME NEW d \in Capturers, NEW s \in picked'[d]
          PROVE  /\ \A t \in OpenTrades : Key(t) = Key(s) => papers[t].by # d
                 /\ \A t \in picked'[d] : Key(s) = Key(t) => s = t
      <3>1. CASE d = c BY <2>3, <2>4, <2>7, <3>1, SelectionIsUnambiguous
      <3>2. CASE d # c BY <2>4, <2>7, <3>2 DEF CaptureInv
      <3> QED BY <3>1, <3>2
    <2> QED BY <2>1, <2>5, <2>6, <2>7 DEF CaptureInv, Key
  <1>4. ASSUME NEW c \in Capturers, CaptureTrades(c) PROVE CaptureInv'
    <2>1. \A d \in Capturers : picked'[d] = IF d = c THEN {} ELSE picked[d]
          BY <1>4 DEF CaptureTrades, TypeOK
    <2>2. ASSUME NEW s \in OpenTrades'
          PROVE  \/ s \in OpenTrades /\ papers'[s].by = papers[s].by
                 \/ s \in picked[c] /\ papers'[s].by = c
          BY <1>4, CaptureWrites DEF OpenTrades
    <2>3. ASSUME NEW s \in OpenTrades', NEW t \in OpenTrades',
                 Key(s) = Key(t), papers'[s].by = papers'[t].by
          PROVE  s = t
      <3>1. CASE s \in OpenTrades /\ papers'[s].by = papers[s].by /\
                 t \in OpenTrades /\ papers'[t].by = papers[t].by
            BY <2>3, <3>1 DEF CaptureInv, OneOpenTradePerCapturer
      <3>2. CASE s \in picked[c] /\ papers'[s].by = c /\ t \in picked[c] /\ papers'[t].by = c
            BY <2>3, <3>2 DEF CaptureInv
      <3>3. CASE s \in picked[c] /\ papers'[s].by = c /\
                 t \in OpenTrades /\ papers'[t].by = papers[t].by
            BY <2>3, <3>3 DEF CaptureInv
      <3>4. CASE t \in picked[c] /\ papers'[t].by = c /\
                 s \in OpenTrades /\ papers'[s].by = papers[s].by
            BY <2>3, <3>4 DEF CaptureInv
      <3> QED BY <2>2, <3>1, <3>2, <3>3, <3>4
    <2>4. ASSUME NEW d \in Capturers, NEW s \in picked'[d], NEW t \in OpenTrades', Key(t) = Key(s)
          PROVE  papers'[t].by # d
      <3>1. d # c /\ s \in picked[d] BY <2>1, <2>4
      <3>2. CASE t \in OpenTrades /\ papers'[t].by = papers[t].by
            BY <2>4, <3>1, <3>2 DEF CaptureInv
      <3>3. CASE papers'[t].by = c BY <3>1, <3>3
      <3> QED BY <2>2, <3>2, <3>3
    <2>5. \A d \in Capturers : \A s, t \in picked'[d] : Key(s) = Key(t) => s = t
          BY <2>1 DEF CaptureInv
    <2>6. OneOpenTradePerCapturer' BY <2>3 DEF OneOpenTradePerCapturer, Key
    <2> QED BY <2>4, <2>5, <2>6 DEF CaptureInv, Key
  <1>5. CASE WorldNext
    <2>1. UNCHANGED <<papers, picked>>
          BY <1>5 DEF WorldNext, Resolve, Discover, Emit, CreatePosition
    <2> QED BY <2>1, <1>1
  <1>6. ASSUME NEW w \in Watchers, Cycle(w) PROVE CaptureInv'
    <2>1. CASE BeginCycle(w) \/ FailCycle(w)
      <3>1. UNCHANGED <<papers, picked>> BY <2>1 DEF BeginCycle, FailCycle
      <3> QED BY <3>1, <1>1
    <2>2. ASSUME NEW got \in SUBSET Decided, Journal(w, got) \/ SettleBets(w, got) PROVE CaptureInv'
      <3>1. UNCHANGED <<papers, picked>> BY <2>2 DEF Journal, SettleBets
      <3> QED BY <3>1, <1>1
    <2> QED BY <1>2, <1>6, <2>1, <2>2 DEF Cycle
  <1>7. ASSUME NEW c \in Capturers, Capture(c) PROVE CaptureInv'
    <2>1. CASE FailCapture(c)
      <3>1. /\ UNCHANGED papers
            /\ \A d \in Capturers : picked'[d] \subseteq picked[d]
            BY <2>1 DEF FailCapture, TypeOK
      <3> QED BY <3>1, CaptureFrame
    <2> QED BY <1>3, <1>4, <1>7, <2>1 DEF Capture
  <1>8. CASE UNCHANGED vars
    <2>1. UNCHANGED <<papers, picked>> BY <1>8 DEF vars
    <2> QED BY <2>1, <1>1
  <1> QED BY <1>5, <1>6, <1>7, <1>8 DEF Next

-----------------------------------------------------------------------------
(* The theorems.                                                           *)

LEMMA InvInit == Init => IInv
  <1> SUFFICES ASSUME Init PROVE IInv
      OBVIOUS
  <1>1. TypeOK BY TypeInit
  <1>2. OpenTrades = {} BY DEF Init, OpenTrades, NoPaper
  <1>3. JournalInv BY DEF Init, JournalInv, JournaledOncePerWatcher
  <1>4. BetsInv BY DEF Init, BetsInv, BetOK, NoBet
  <1>5. PapersInv BY DEF Init, PapersInv, PaperOK, NoPaper
  <1>6. CaptureInv BY <1>2 DEF Init, CaptureInv, OneOpenTradePerCapturer
  <1> QED BY <1>1, <1>3, <1>4, <1>5, <1>6 DEF IInv

LEMMA InvStep == IInv /\ [Next]_vars => IInv'
  BY TypeStep, JournalStep, BetsStep, PapersStep, CaptureStep DEF IInv

LEMMA LedgerInvariant == Spec => []IInv
  BY InvInit, InvStep, PTL DEF Spec

\* The books and the processes' reads always have their types.
THEOREM LedgerTypeCorrect == Spec => []TypeOK
  <1>1. IInv => TypeOK BY DEF IInv
  <1> QED BY <1>1, LedgerInvariant, PTL

\* A watcher journals a market once at most (resolution_engine.py: already).
THEOREM EachWatcherJournalsOnce == Spec => []JournaledOncePerWatcher
  <1>1. IInv => JournaledOncePerWatcher BY DEF IInv, JournalInv
  <1> QED BY <1>1, LedgerInvariant, PTL

\* If one watcher runs, the journal is idempotent as resolution_engine.py says.
THEOREM OneWatcherNeverDoubleCounts ==
    ASSUME \A v, w \in Watchers : v = w
    PROVE  Spec => []NeverDoubleCounted
  <1>1. IInv => NeverDoubleCounted
        BY DEF IInv, JournalInv, JournaledOncePerWatcher, NeverDoubleCounted, JournalRow
  <1> QED BY <1>1, LedgerInvariant, PTL

\* A capturer has one open trade per key at most (paper/capture.py: already_open).
THEOREM EachCapturerOpensOne == Spec => []OneOpenTradePerCapturer
  <1>1. IInv => OneOpenTradePerCapturer BY DEF IInv, CaptureInv
  <1> QED BY <1>1, LedgerInvariant, PTL

\* If one capturer runs, a key has one open trade, as paper/capture.py says.
THEOREM OneCapturerOpensOne ==
    ASSUME \A c, d \in Capturers : c = d
    PROVE  Spec => []AtMostOneOpenTrade
  <1>1. ASSUME IInv PROVE AtMostOneOpenTrade
    <2>1. \A s \in OpenTrades : s \in Feed /\ papers[s].by \in Capturers
          BY <1>1 DEF IInv, PapersInv, PaperOK, OpenTrades
    <2>2. \A s, t \in OpenTrades : papers[s].by = papers[t].by BY <2>1
    <2> QED BY <1>1, <2>2 DEF IInv, CaptureInv, OneOpenTradePerCapturer, AtMostOneOpenTrade
  <1> QED BY <1>1, LedgerInvariant, PTL

\* The journal, the positions and the paper trades agree with the resolutions.
THEOREM RecordsAlwaysAgree == Spec => []RecordsAgree
  <1>1. ASSUME IInv PROVE RecordsAgree
    <2>1. ASSUME NEW r \in JournalRow, journal[r] > 0 PROVE resolution[r.signal.market] = r.outcome
          BY <1>1, <2>1 DEF IInv, JournalInv
    <2>2. ASSUME NEW b \in Bets
          PROVE  IF bets[b].status = "closed"
                 THEN /\ bets[b].outcome = resolution[bets[b].market]
                      /\ bets[b].side \in Outcomes
                      /\ bets[b].pnl = "win" <=> bets[b].side = resolution[bets[b].market]
                 ELSE bets[b].outcome = "none" /\ bets[b].pnl = "none"
      <3>1. BetOK(b) BY <1>1 DEF IInv, BetsInv
      <3> QED BY <3>1 DEF BetOK, SettledPnl
    <2>3. ASSUME NEW s \in Feed
          PROVE  IF papers[s].status = "closed"
                 THEN IF s.side = "set"
                      THEN papers[s].outcome = "none" /\ papers[s].pnl \in {"detected", "rechecked"}
                      ELSE /\ papers[s].outcome = resolution[s.market]
                           /\ papers[s].pnl = "win" <=> s.side = resolution[s.market]
                 ELSE papers[s].outcome = "none" /\ papers[s].pnl = "none"
      <3>1. PaperOK(s) BY <1>1 DEF IInv, PapersInv
      <3> QED BY <3>1 DEF PaperOK, SettledPnl
    <2> QED BY <2>1, <2>2, <2>3 DEF RecordsAgree
  <1> QED BY <1>1, LedgerInvariant, PTL

\* With the fill check no paper P&L rests on the stored edge of an arbitrage.
THEOREM RecheckedEdgesOnly == Spec => []PaidAtRecheckedEdge
  <1>1. ASSUME IInv PROVE PaidAtRecheckedEdge
    <2>1. \A s \in Feed : PaperOK(s) BY <1>1 DEF IInv, PapersInv
    <2>2. \A s \in Feed : papers[s].status = "closed" \/ papers[s].status # "closed" OBVIOUS
    <2> QED BY <2>1, <2>2 DEF PaidAtRecheckedEdge, PaperOK, SettledPnl
  <1> QED BY <1>1, LedgerInvariant, PTL

\* No overlap of runs rewrites a closed or expired row (settle_position and
\* settle_paper_trade update by id, whatever the status).
THEOREM SettledRowsAreFinal == Spec => SettledIsFinal
  <1> DEFINE Final ==
        /\ \A b \in Bets : bets[b].status = "closed" => bets'[b] = bets[b]
        /\ \A s \in Feed : papers[s].status \in {"closed", "expired"} => papers'[s] = papers[s]
  <1>1. ASSUME IInv, [Next]_vars PROVE Final \/ UNCHANGED vars
    <2> USE <1>1 DEF IInv
    <2>1. ASSUME NEW b \in Bets, bets[b].status = "closed" PROVE bets'[b] = bets[b]
      <3>1. ASSUME NEW w \in Watchers, NEW got \in SUBSET Decided, SettleBets(w, got)
            PROVE  bets'[b] = bets[b]
        <4>1. CASE b \in openBets[w] /\ bets[b].market \in got
          <5>1. BetOK(b) BY DEF BetsInv
          <5>2. bets[b].side \in Outcomes /\ bets[b].market \in Decided BY <2>1, <5>1 DEF BetOK
          <5>3. ClosedBet(bets[b]) = bets[b] BY <2>1, <5>1, <5>2, ClosingABet
          <5> QED BY <3>1, <5>3 DEF SettleBets
        <4>2. CASE ~(b \in openBets[w] /\ bets[b].market \in got) BY <3>1, <4>2 DEF SettleBets
        <4> QED BY <4>1, <4>2
      <3>2. ASSUME NEW a \in Bets, CreatePosition(a)
            PROVE  bets'[b] = bets[b]
            BY <2>1, <3>2 DEF CreatePosition, TypeOK
      <3>3. \/ \E w \in Watchers : \E got \in SUBSET Decided : SettleBets(w, got)
            \/ \E a \in Bets : CreatePosition(a)
            \/ UNCHANGED bets
            BY DEF Next, WorldNext, Resolve, Discover, Emit, Cycle, BeginCycle, Journal,
                   SettlePapers, FailCycle, Capture, SelectTrades, CaptureTrades, FailCapture, vars
      <3> QED BY <3>1, <3>2, <3>3
    <2>2. ASSUME NEW s \in Feed, papers[s].status \in {"closed", "expired"}
          PROVE  papers'[s] = papers[s]
      <3>1. ASSUME NEW w \in Watchers, NEW got \in SUBSET Decided, SettlePapers(w, got)
            PROVE  papers'[s] = papers[s]
        <4>1. CASE /\ papers'[s] = ClosedPaper(s)
                   /\ papers[s].status \in {"open", "closed"}
                   /\ s.side = "set" \/ s.market \in Decided
              BY <2>2, <4>1, ClosingATrade DEF PapersInv
        <4> QED BY <3>1, <4>1, SettlementWrites
      <3>2. ASSUME NEW c \in Capturers, CaptureTrades(c) PROVE papers'[s] = papers[s]
            BY <2>2, <3>2, CaptureWrites
      <3>3. \/ \E w \in Watchers : \E got \in SUBSET Decided : SettlePapers(w, got)
            \/ \E c \in Capturers : CaptureTrades(c)
            \/ UNCHANGED papers
            BY DEF Next, WorldNext, Resolve, Discover, Emit, CreatePosition, Cycle, BeginCycle,
                   Journal, SettleBets, FailCycle, Capture, SelectTrades, FailCapture, vars
      <3> QED BY <3>1, <3>2, <3>3
    <2> QED BY <2>1, <2>2
  <1>2. IInv /\ [Next]_vars => [Final]_vars BY <1>1
  <1> QED BY <1>2, LedgerInvariant, PTL DEF Spec, SettledIsFinal
=============================================================================
