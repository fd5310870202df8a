--------------------------- MODULE AdvisorProofs ----------------------------
(***************************************************************************)
(* For any markets, quotes, prices, scans and limits: the scanners and the *)
(* API leave the monitor as it is alone, a scan stores only what it was    *)
(* earned by, a correction is sized on no older quote than the one that    *)
(* raised it, and what was listed can be opened.  And of what an answer    *)
(* holds: no advice stakes more than its user allows or than a replay      *)
(* would, and what pays comes first.                                       *)
(***************************************************************************)
EXTENDS Advisor, MonitorProofs, FiniteSetTheorems

-----------------------------------------------------------------------------
(* The monitor among the others.                                           *)

\* Whatever step is taken, the monitor may take it when it is alone, or sees
\* nothing of it.
LEMMA StepsOfMonitor == [AdvisorNext]_advisorVars => [Next]_vars
  <1> SUFFICES ASSUME [AdvisorNext]_advisorVars PROVE [Next]_vars
    OBVIOUS
  <1>1. CASE Watching(Next)
    BY <1>1 DEF Watching
  <1>2. CASE Scan
    BY <1>2 DEF Scan, BeginScan, LoadMarkets, LoadLatest, FetchLeg, InsertSignals, FailScan
  <1>3. CASE Request
    BY <1>3 DEF Request, Ask, ReadConfig, ReadList, ReadMatch, ReadMarkets, ReadQuotes,
                ReadCalibration, FailRequest, UnchangedButReq
  <1>4. CASE Idling
    BY <1>4 DEF Idling, Next
  <1>5. CASE StoreChanges
    <2>1. Scanned \subseteq Quotes
      BY AdvisorAssumption DEF AdvisorAssumption
    <2> QED
      BY <1>5, <2>1 DEF StoreChanges, Next
  <1>6. CASE \/ \E m \in Markets, side \in Sides, price \in Asks : MoveBook(m, side, price)
             \/ \E arb \in ArbsBeside : InsertArb(arb)
             \/ \E c \in Configs : PutConfig(c)
    BY <1>6 DEF MoveBook, InsertArb, PutConfig
  <1>7. CASE UNCHANGED advisorVars
    BY <1>7 DEF advisorVars
  <1> QED
    BY <1>1, <1>2, <1>3, <1>4, <1>5, <1>6, <1>7 DEF AdvisorNext, Others

\* The monitor beside the scanners and the API behaves as it does alone: run_monitor
\* shares nothing with them but the store.
THEOREM MonitorUndisturbed == AdvisorSpec => Spec
  <1>1. AdvisorInit => Init
    BY DEF AdvisorInit
  <1> QED
    BY <1>1, StepsOfMonitor, PTL DEF AdvisorSpec, Spec

\* So what AlertDeduper promises it keeps in their company.
THEOREM AlertsAmongOthers == AdvisorSpec => AtMostOncePerCooldown /\ SilenceIsExplained
  BY MonitorUndisturbed, NoAlertRepeated, NoSilentBreach, PTL

-----------------------------------------------------------------------------
(* A scan.                                                                 *)

\* What discovery and the scan have stored.
StoreTypes == quotes \subseteq Quotes /\ tracked \subseteq Markets

\* A cycle at rest has read nothing.
Rests == scan.pc = "idle" => scan.latest = {} /\ scan.legs = {}

\* What is there to be read, and all that has been read.
Witnessed ==
    /\ scan.pc # "idle" => Current \subseteq offered
    /\ scan.latest \subseteq offered
    /\ \A l \in scan.legs : l.price # NoBook => l \in offered

ScanInv ==
    /\ StoreTypes
    /\ scan \in ScanType /\ books \in [Markets -> Sets]
    /\ deployed = "monitor" => scan.pc = "idle"
    /\ scan.pc \in {"quotes", "insert"} => deployed = "prices"
    /\ scan.pc = "books" => deployed # "prices"
    /\ Rests
    /\ Witnessed

LEMMA LatestAmong ==
  ASSUME NEW markets, NEW side
  PROVE  /\ NewestRows(markets, side) \subseteq quotes
         /\ markets \subseteq Markets => NewestRows(markets, side) \subseteq NewestRows(Markets, side)
  BY DEF NewestRows, RowsOf, Rows, Latest

LEMMA InitScanInv == AdvisorInit => ScanInv
  <1> SUFFICES ASSUME AdvisorInit PROVE ScanInv
    OBVIOUS
  <1>1. StoreTypes /\ Rests /\ Witnessed
    BY DEF AdvisorInit, Init, StoreTypes, Idle, Rests, Witnessed
  <1>2. scan \in ScanType /\ scan.pc = "idle"
    BY DEF AdvisorInit, Idle, ScanType
  <1>3. books \in [Markets -> Sets]
    <2>1. (CHOOSE price \in Asks : TRUE) \in Asks
      BY AdvisorAssumption DEF AdvisorAssumption
    <2> QED
      BY <2>1 DEF AdvisorInit, Sets
  <1> QED
    BY <1>1, <1>2, <1>3 DEF ScanInv

\* A leg as FetchLeg makes it.
LegType == [market: Markets, side: Sides, price: Asks \cup {NoBook}]

\* What others change is put beside what has been there before.
LEMMA RememberWitnesses ==
  ASSUME Rests, Witnessed, Remember, UNCHANGED scan
  PROVE  Rests' /\ Witnessed'
  BY DEF Rests, Witnessed, Remember, NoBook

LEMMA BeginScanInv == ASSUME ScanInv, BeginScan PROVE ScanInv'
  <1> USE DEF ScanInv
  <1>1. /\ scan' = [pc |-> "markets", markets |-> {}, latest |-> {}, legs |-> {}]
        /\ deployed # "monitor"
        /\ UNCHANGED <<quotes, tracked, deployed, books>>
    BY DEF BeginScan, Idle, vars, world
  <1>2. Rests' /\ Witnessed'
    BY <1>1 DEF BeginScan, Remember, Rests, Witnessed
  <1>3. scan' \in ScanType
    BY <1>1 DEF ScanType
  <1> QED
    BY <1>1, <1>2, <1>3 DEF StoreTypes

LEMMA ReadScanInv ==
  ASSUME ScanInv, LoadMarkets \/ LoadLatest PROVE ScanInv'
  <1> USE DEF ScanInv
  <1>1. /\ UNCHANGED <<quotes, tracked, deployed, books, offered>>
        /\ scan.pc # "idle" /\ scan'.pc # "idle"
        /\ scan'.legs = scan.legs
    BY DEF LoadMarkets, LoadLatest, vars, world, ScanType
  <1>2. Current' = Current
    BY <1>1 DEF Current, NewestRows, RowsOf, Rows
  <1>3. CASE LoadMarkets
    <2>1. scan' \in ScanType
      BY <1>3 DEF LoadMarkets, ScanType, StoreTypes
    <2>2. scan'.latest = scan.latest
      BY <1>3 DEF LoadMarkets, ScanType
    <2>3. /\ scan'.pc \in {"quotes", "insert"} => deployed = "prices"
          /\ scan'.pc = "books" => deployed # "prices"
      BY <1>3 DEF LoadMarkets, ScanType
    <2> QED
      BY <1>1, <1>2, <2>1, <2>2, <2>3 DEF StoreTypes, Rests, Witnessed
  <1>4. CASE LoadLatest
    <2>1. scan' \in ScanType
      BY <1>4, LatestAmong DEF LoadLatest, ScanType, StoreTypes
    <2>2. deployed = "prices" /\ scan'.pc = "insert"
      BY <1>4 DEF LoadLatest, ScanType
    <2>3. scan'.latest = NewestRows(scan.markets, "yes") /\ scan.markets \subseteq Markets
      BY <1>4 DEF LoadLatest, ScanType
    <2>4. scan'.latest \subseteq Current
      BY <2>2, <2>3, LatestAmong DEF Current
    <2> QED
      BY <1>1, <1>2, <2>1, <2>2, <2>4 DEF StoreTypes, Rests, Witnessed
  <1> QED
    BY <1>3, <1>4

LEMMA FetchScanInv ==
  ASSUME ScanInv, NEW m \in Markets, NEW side \in Sides, FetchLeg(m, side) PROVE ScanInv'
  <1> USE DEF ScanInv
  <1>1. PICK price \in {books[m][side], NoBook} :
           scan' = [scan EXCEPT !.legs = @ \cup {Leg(m, side, price)}]
    BY DEF FetchLeg
  <1>2. /\ UNCHANGED <<quotes, tracked, deployed, books, offered>>
        /\ scan.pc = "books"
    BY DEF FetchLeg, vars, world
  <1>3. /\ scan'.pc = "books" /\ scan'.latest = scan.latest
        /\ scan'.legs = scan.legs \cup {Leg(m, side, price)}
    BY <1>1, <1>2 DEF ScanType
  <1>4. books[m][side] \in Asks
    BY DEF Sets
  <1>5. Leg(m, side, price) \in LegType
    BY <1>1, <1>4 DEF Leg, LegType
  <1>6. scan' \in ScanType
    BY <1>1, <1>2, <1>5 DEF ScanType, LegType
  <1>7. price # NoBook => Leg(m, side, price) \in offered
    BY <1>1, <1>2 DEF Witnessed, Current
  <1>8. Current' = Current
    BY <1>2 DEF Current, NewestRows, RowsOf, Rows
  <1>9. Leg(m, side, price).price = price
    BY DEF Leg
  <1>10. Rests' /\ Witnessed'
    BY <1>2, <1>3, <1>7, <1>8, <1>9 DEF Rests, Witnessed
  <1> QED
    BY <1>2, <1>3, <1>6, <1>10 DEF StoreTypes

LEMMA EndScanInv ==
  ASSUME ScanInv, InsertSignals \/ FailScan PROVE ScanInv'
  <1> USE DEF ScanInv
  <1>1. /\ scan' = [pc |-> "idle", markets |-> {}, latest |-> {}, legs |-> {}]
        /\ UNCHANGED <<quotes, tracked, deployed, books>>
    BY DEF InsertSignals, FailScan, Idle, vars, world
  <1>2. scan' \in ScanType
    BY <1>1 DEF ScanType
  <1> QED
    BY <1>1, <1>2 DEF StoreTypes, Rests, Witnessed

LEMMA BesideScanInv ==
  ASSUME ScanInv,
         \/ StoreChanges
         \/ \E m \in Markets, side \in Sides, price \in Asks : MoveBook(m, side, price)
  PROVE  ScanInv'
  <1> USE DEF ScanInv
  <1>1. UNCHANGED <<deployed, scan>> /\ Remember /\ deployed # "monitor"
    BY DEF StoreChanges, MoveBook, Change, api
  <1>2. Rests' /\ Witnessed'
    BY <1>1, RememberWitnesses
  <1>3. CASE StoreChanges
    <2>1. Scanned \subseteq Quotes
      BY AdvisorAssumption DEF AdvisorAssumption
    <2>2. books' = books
      BY <1>3 DEF StoreChanges
    <2>3. StoreTypes'
      BY <1>3, <2>1 DEF StoreChanges, Relist, StoreQuote, JournalRecord, StoreTypes
    <2> QED
      BY <1>1, <1>2, <2>2, <2>3
  <1>4. CASE \E m \in Markets, side \in Sides, price \in Asks : MoveBook(m, side, price)
    <2>1. StoreTypes'
      BY <1>4 DEF MoveBook, vars, world, StoreTypes
    <2>2. books' \in [Markets -> Sets]
      <3>1. PICK m \in Markets, side \in Sides, price \in Asks :
               books' = [books EXCEPT ![m][side] = price]
        BY <1>4 DEF MoveBook
      <3>2. [books[m] EXCEPT ![side] = price] \in Sets
        BY DEF Sets
      <3> QED
        BY <3>1, <3>2
    <2> QED
      BY <1>1, <1>2, <2>1, <2>2
  <1> QED
    BY <1>3, <1>4

\* What the others do leaves what there is to be read as it is.
LEMMA AsideScanInv ==
  ASSUME ScanInv, UNCHANGED <<quotes, tracked, deployed, books, scan, offered>> PROVE ScanInv'
  <1>1. Current' = Current
    BY DEF Current, NewestRows, RowsOf, Rows
  <1> QED
    BY <1>1 DEF ScanInv, StoreTypes, Rests, Witnessed

LEMMA WatchScanInv == ASSUME ScanInv, Watching(Next) PROVE ScanInv'
  <1> USE DEF ScanInv
  <1>1. UNCHANGED <<deployed, books, scan, offered>> /\ scan.pc = "idle"
    BY DEF Watching, scanners
  <1>2. StoreTypes'
    BY DEF Watching, Next, StoreQuote, Relist, JournalRecord, Tick, Cycle, Replay, Judge,
           Publish, FailCycle, Restart, world, StoreTypes
  <1> QED
    BY <1>1, <1>2 DEF Rests, Witnessed

LEMMA NextScanInv == ScanInv /\ [AdvisorNext]_advisorVars => ScanInv'
  <1> SUFFICES ASSUME ScanInv, [AdvisorNext]_advisorVars PROVE ScanInv'
    OBVIOUS
  <1>1. CASE Watching(Next)
    BY <1>1, WatchScanInv
  <1>2. CASE Scan
    BY <1>2, BeginScanInv, ReadScanInv, FetchScanInv, EndScanInv DEF Scan
  <1>3. CASE Request
    <2>1. UNCHANGED <<quotes, tracked, deployed, books, scan, offered>>
      BY <1>3 DEF Request, Ask, ReadConfig, ReadList, ReadMatch, ReadMarkets, ReadQuotes,
                  ReadCalibration, FailRequest, UnchangedButReq, vars, world, scanners
    <2> QED
      BY <2>1, AsideScanInv
  <1>4. CASE Idling
    BY <1>4, AsideScanInv DEF Idling, Tick, world, scanners
  <1>5. CASE \/ StoreChanges
             \/ \E m \in Markets, side \in Sides, price \in Asks : MoveBook(m, side, price)
    BY <1>5, BesideScanInv
  <1>6. CASE (\E arb \in ArbsBeside : InsertArb(arb)) \/ (\E c \in Configs : PutConfig(c))
    BY <1>6, AsideScanInv DEF InsertArb, PutConfig, vars, world, scanners
  <1>7. CASE UNCHANGED advisorVars
    BY <1>7, AsideScanInv DEF advisorVars, vars, world, scanners
  <1> QED
    BY <1>1, <1>2, <1>3, <1>4, <1>5, <1>6, <1>7 DEF AdvisorNext, Others

\* Whatever is flagged was there to be read.
LEMMA FlaggedIsEarned ==
  ASSUME ScanInv, NEW s \in Flagged
  PROVE  s.at = scans /\ Evidence(s) \subseteq offered
  <1> USE DEF ScanInv
  <1>1. CASE s \in Corrections(scan.latest, scans) \cup Longshots(scan.latest, scans)
    <2>1. /\ s.strategy \in {"extreme_correction", "favourite_longshot"}
          /\ s.at = scans /\ s.seen \in scan.latest
      BY <1>1 DEF Corrections, Longshots, Signal
    <2>2. Evidence(s) = {s.seen}
      BY <2>1 DEF Evidence
    <2> QED
      BY <2>1, <2>2 DEF Witnessed
  <1>2. CASE s \in Arbs(scan.legs, scans)
    <2>1. PICK p \in Legs(scan.legs) :
             /\ s = Signal("set_arb", p[1].market, scans, SetOf(p))
             /\ p[1].price # NoBook /\ p[2].price # NoBook
      BY <1>2 DEF Arbs
    <2>2. /\ p[1] \in scan.legs /\ p[2] \in scan.legs
          /\ p[1].market = p[2].market /\ p[1].side = "yes" /\ p[2].side = "no"
      BY <2>1 DEF Legs
    <2>3. p[1] \in offered /\ p[2] \in offered
      BY <2>1, <2>2 DEF Witnessed
    <2>4. /\ p[1] = Leg(p[1].market, "yes", p[1].price)
          /\ p[2] = Leg(p[1].market, "no", p[2].price)
      BY <2>2 DEF ScanType, Leg
    <2>5. /\ s.strategy = "set_arb" /\ s.market = p[1].market /\ s.at = scans
          /\ s.seen["yes"] = p[1].price /\ s.seen["no"] = p[2].price
      BY <2>1 DEF Signal, SetOf
    <2>6. Evidence(s) = {Leg(s.market, side, s.seen[side]) : side \in Sides}
      BY <2>5 DEF Evidence
    <2>7. Evidence(s) = {Leg(s.market, "yes", s.seen["yes"]), Leg(s.market, "no", s.seen["no"])}
      BY <2>6 DEF Sides
    <2> QED
      BY <2>3, <2>4, <2>5, <2>7
  <1> QED
    BY <1>1, <1>2 DEF Flagged

LEMMA EndingScan ==
  ASSUME [AdvisorNext]_advisorVars, ScanInv, scan.pc # "idle", scan'.pc = "idle"
  PROVE  InsertSignals \/ signals' = signals
  <1>1. CASE Scan
    <2>1. CASE BeginScan
      BY <2>1 DEF BeginScan
    <2>2. CASE LoadMarkets \/ LoadLatest \/ (\E m \in Markets, side \in Sides : FetchLeg(m, side))
      BY <2>2 DEF LoadMarkets, LoadLatest, FetchLeg
    <2>3. CASE FailScan
      BY <2>3 DEF FailScan
    <2> QED
      BY <1>1, <2>1, <2>2, <2>3 DEF Scan
  <1>2. CASE Watching(Next) \/ Request \/ Idling
    BY <1>2 DEF Watching, Request, Ask, ReadConfig, ReadList, ReadMatch, ReadMarkets, ReadQuotes,
                ReadCalibration, FailRequest, UnchangedButReq, Idling, scanners
  <1>3. CASE \/ StoreChanges
             \/ \E m \in Markets, side \in Sides, price \in Asks : MoveBook(m, side, price)
             \/ \E arb \in ArbsBeside : InsertArb(arb)
             \/ \E c \in Configs : PutConfig(c)
    BY <1>3 DEF StoreChanges, MoveBook, InsertArb, PutConfig, scanners
  <1>4. CASE UNCHANGED advisorVars
    BY <1>4 DEF advisorVars, scanners
  <1> QED
    BY <1>1, <1>2, <1>3, <1>4 DEF AdvisorNext, Others

\* run_signal_engine and run_price_signal_engine: whatever is stored, relisted or
\* quoted between their statements, and whatever book cannot be had, a row is
\* made of what its own cycle has read.
THEOREM ScansStoreWhatTheyRead == AdvisorSpec => SignalsAreEarned
  <1>1. ScanInv /\ [AdvisorNext]_advisorVars
        => [scan.pc # "idle" /\ scan'.pc = "idle"
              => \A s \in signals' \ signals : s.at = scans /\ Evidence(s) \subseteq offered]_advisorVars
    <2> SUFFICES ASSUME ScanInv, [AdvisorNext]_advisorVars, scan.pc # "idle", scan'.pc = "idle",
                        NEW s \in signals' \ signals
                 PROVE  s.at = scans /\ Evidence(s) \subseteq offered
      OBVIOUS
    <2>1. s \in Flagged
      BY EndingScan DEF InsertSignals
    <2> QED
      BY <2>1, FlaggedIsEarned
  <1> QED
    BY <1>1, InitScanInv, NextScanInv, PTL DEF AdvisorSpec, SignalsAreEarned

-----------------------------------------------------------------------------
(* A request.                                                              *)

\* A price signal keeps the tick that raised it, which stays in the table.
Raised(rows) == \A s \in rows : s.strategy \in Priced => s.seen \in quotes /\ s.seen.market = s.market

\* Before the quotes are read there are none.
Unread == [side \in Sides |-> {}]

\* The rows that were read are at least what there was when a row was raised.
AsOf(s, latest) ==
    \A side \in Sides : \A q \in latest[side], r \in RowsOf(s.market, side) :
        q.market = s.market /\ r.time <= s.seen.time => r.time <= q.time

Fresh ==
    /\ req.pc \in {"config", "signals", "markets", "quotes"} => req.latest = Unread
    /\ \A s \in req.rows : s.strategy \in Priced => AsOf(s, req.latest)

\* The signal that is asked for was shown and stays, and while it is not found
\* the newer ones keep it out.
Newer(id) == {s \in signals : s.strategy = id.strategy /\ s.at >= id.at}

Openable ==
    req.want # NoRow /\ req.pc # "idle" =>
       /\ \E s \in signals : Id(s) = req.want
       /\ req.pc \notin {"config", "signals"} =>
             (\E s \in req.rows : Id(s) = req.want) \/ Cardinality(Newer(req.want)) > DetailLimit

\* The fields of a request, whatever they hold.
Shaped ==
    req = [pc |-> req.pc, want |-> req.want, cfg |-> req.cfg, rows |-> req.rows,
           markets |-> req.markets, latest |-> req.latest, frac |-> req.frac]

Finite == IsFiniteSet(signals) /\ IsFiniteSet(quotes) /\ IsFiniteSet(scan.legs)

\* A signal's time is one of a cycle.
Stamped == scans \in Int /\ \A s \in signals : s.at \in Int

RequestInv ==
    /\ Stamped
    /\ Raised(signals) /\ scan.latest \subseteq quotes
    /\ Finite
    /\ Shaped
    /\ req.rows \subseteq signals /\ page \subseteq signals
    /\ Fresh
    /\ Openable

LEMMA InitRequestInv == AdvisorInit => RequestInv
  <1> SUFFICES ASSUME AdvisorInit PROVE RequestInv
    OBVIOUS
  <1>1. /\ signals = {} /\ quotes = {} /\ page = {}
        /\ scan = [pc |-> "idle", markets |-> {}, latest |-> {}, legs |-> {}]
        /\ req = [pc |-> "idle", want |-> NoRow, cfg |-> Defaults, rows |-> {},
                  markets |-> {}, latest |-> Unread, frac |-> 0]
    BY DEF AdvisorInit, Init, Idle, Quiet, Unread
  <1>2. Finite
    BY <1>1, FS_EmptySet DEF Finite
  <1>3. Shaped /\ Fresh /\ Openable
    BY <1>1 DEF Shaped, Fresh, Openable
  <1>4. Stamped
    BY <1>1 DEF AdvisorInit, Stamped
  <1> QED
    BY <1>1, <1>2, <1>3, <1>4 DEF RequestInv, Raised

\* The same for all that a set is made into.
LEMMA ImageIsFinite ==
  ASSUME NEW S, IsFiniteSet(S), NEW T, NEW f \in [S -> T], \A t \in T : \E s \in S : f[s] = t
  PROVE  IsFiniteSet(T)
  <1>1. f \in Surjection(S, T)
    BY DEF Surjection
  <1> QED
    BY <1>1, FS_Surjection

LEMMA FlaggedIsFinite ==
  ASSUME IsFiniteSet(scan.latest), IsFiniteSet(scan.legs)
  PROVE  IsFiniteSet(Flagged)
  <1>1. IsFiniteSet(Corrections(scan.latest, scans))
    <2> DEFINE S == {t \in scan.latest : IsPriced(t, "yes") /\ Extreme(Mid(t))}
               T == Corrections(scan.latest, scans)
               f == [q \in S |-> Signal("extreme_correction", q.market, scans, q)]
    <2>1. IsFiniteSet(S)
      BY FS_Subset
    <2>2. f \in [S -> T] /\ \A t \in T : \E s \in S : f[s] = t
      BY DEF Corrections
    <2> QED
      BY <2>1, <2>2, ImageIsFinite
  <1>2. IsFiniteSet(Longshots(scan.latest, scans))
    <2> DEFINE S == {t \in scan.latest : IsPriced(t, "yes") /\ Biased(Mid(t))}
               T == Longshots(scan.latest, scans)
               f == [q \in S |-> Signal("favourite_longshot", q.market, scans, q)]
    <2>1. IsFiniteSet(S)
      BY FS_Subset
    <2>2. f \in [S -> T] /\ \A t \in T : \E s \in S : f[s] = t
      BY DEF Longshots
    <2> QED
      BY <2>1, <2>2, ImageIsFinite
  <1>3. IsFiniteSet(Arbs(scan.legs, scans))
    <2> DEFINE S == {p \in Legs(scan.legs) :
                       p[1].price # NoBook /\ p[2].price # NoBook /\ NetOfSet(SetOf(p)) > 0}
               T == Arbs(scan.legs, scans)
               f == [p \in S |-> Signal("set_arb", p[1].market, scans, SetOf(p))]
    <2>1. S \in SUBSET (scan.legs \X scan.legs)
      BY DEF Legs
    <2>2. IsFiniteSet(S)
      BY <2>1, FS_Product, FS_Subset
    <2>3. f \in [S -> T] /\ \A t \in T : \E s \in S : f[s] = t
      BY DEF Arbs
    <2> HIDE DEF S, T, f
    <2>4. IsFiniteSet(T)
      BY <2>2, <2>3, ImageIsFinite
    <2> QED
      BY <2>4 DEF T
  <1> QED
    BY <1>1, <1>2, <1>3, FS_Union DEF Flagged

\* The table of quotes is of ticks, and grows by later ones.
OnlyLater ==
    /\ quotes \subseteq Quotes /\ quotes' \subseteq Quotes
    /\ \A new \in quotes' \ quotes, old \in quotes : old.time <= new.time

\* So there is never more, later, that a signal of the table could have known of.
LEMMA AsOfStays ==
  ASSUME OnlyLater, Raised(signals), NEW s \in signals, s.strategy \in Priced, NEW latest, AsOf(s, latest)
  PROVE  \A side \in Sides : \A q \in latest[side], r \in RowsOf(s.market, side)' :
             q.market = s.market /\ r.time <= s.seen.time => r.time <= q.time
  <1> SUFFICES ASSUME NEW side \in Sides, NEW r \in RowsOf(s.market, side)', r.time <= s.seen.time
               PROVE  r \in RowsOf(s.market, side)
    BY DEF AsOf
  <1>1. s.seen \in quotes /\ s.seen.market = s.market /\ s.seen \in Quotes
    BY DEF Raised, OnlyLater
  <1>2. r \in quotes' /\ r.market = s.market /\ r.token[side].row # "missing" /\ r \in Quotes
    BY DEF RowsOf, Rows, OnlyLater
  <1>3. r.time \in Nat /\ s.seen.time \in Nat
    BY <1>1, <1>2, MonitorAssumption DEF MonitorAssumption, QuoteType
  <1>4. r \in quotes
    <2> SUFFICES ASSUME r \notin quotes PROVE FALSE
      OBVIOUS
    <2>1. s.seen.time <= r.time
      BY <1>1, <1>2 DEF OnlyLater
    <2>2. r = s.seen
      BY <1>1, <1>2, <1>3, <2>1, MonitorAssumption DEF MonitorAssumption
    <2> QED
      BY <1>1, <2>2
  <1> QED
    BY <1>2, <1>4 DEF RowsOf, Rows

\* While the tables only grow, a request that waits stays right.
LEMMA WaitingRequest ==
  ASSUME RequestInv, signals \subseteq signals', IsFiniteSet(signals'), OnlyLater, UNCHANGED <<req, page>>
  PROVE  /\ req'.rows \subseteq signals' /\ page' \subseteq signals'
         /\ Shaped' /\ Fresh' /\ Openable'
  <1> USE DEF RequestInv
  <1>1. Openable'
    <2> SUFFICES ASSUME req.want # NoRow, req.pc # "idle"
                 PROVE  /\ \E s \in signals' : Id(s) = req.want
                        /\ req.pc \notin {"config", "signals"} =>
                              \/ \E s \in req.rows : Id(s) = req.want
                              \/ Cardinality(Newer(req.want)') > DetailLimit
      BY DEF Openable, Id, Newer
    <2>1. Newer(req.want) \in SUBSET (Newer(req.want)') /\ IsFiniteSet(Newer(req.want)')
      BY FS_Subset DEF Newer
    <2>2. Cardinality(Newer(req.want)) <= Cardinality(Newer(req.want)')
      BY <2>1, FS_Subset
    <2>3. Cardinality(Newer(req.want)) \in Nat /\ Cardinality(Newer(req.want)') \in Nat
      BY <2>1, FS_Subset, FS_CardinalityType
    <2>4. DetailLimit \in Nat
      BY AdvisorAssumption DEF AdvisorAssumption
    <2> QED
      BY <2>2, <2>3, <2>4 DEF Openable
  <1>2. \A s \in req.rows : s.strategy \in Priced => AsOf(s, req.latest)'
    BY AsOfStays DEF Fresh, AsOf
  <1> QED
    BY <1>1, <1>2 DEF Shaped, Fresh

\* The tables, under what any step does to them.
StoreGrows ==
    /\ quotes \subseteq quotes' /\ OnlyLater /\ signals \subseteq signals'
    /\ Raised(signals)' /\ scan'.latest \subseteq quotes'
    /\ Finite'

LEMMA SteadyStore ==
  ASSUME RequestInv, StoreTypes, UNCHANGED <<quotes, signals, scan>> PROVE StoreGrows
  BY DEF RequestInv, StoreTypes, StoreGrows, OnlyLater, Raised, Finite

LEMMA QuotesGrow ==
  ASSUME RequestInv, StoreTypes, UNCHANGED <<signals, scan>>,
         quotes' = quotes \/ \E q \in Quotes : StoreQuote(q)
  PROVE  StoreGrows
  <1> USE DEF StoreQuote
  <1>1. IsFiniteSet(quotes')
    BY FS_AddElement DEF RequestInv, Finite
  <1>2. OnlyLater
    BY DEF StoreTypes, OnlyLater
  <1> QED
    BY <1>1, <1>2 DEF RequestInv, StoreGrows, Raised, Finite

LEMMA ScanStoreGrows == ASSUME RequestInv, ScanInv, Scan PROVE StoreGrows
  <1> USE DEF RequestInv
  <1>1. quotes' = quotes
    BY DEF Scan, BeginScan, LoadMarkets, LoadLatest, FetchLeg, InsertSignals, FailScan, vars, world
  <1>0. OnlyLater
    BY <1>1 DEF ScanInv, StoreTypes, OnlyLater
  <1>2. CASE BeginScan \/ FailScan
    <2>1. signals' = signals /\ scan'.latest = {} /\ scan'.legs = {}
      BY <1>2 DEF BeginScan, FailScan, Idle
    <2> QED
      BY <1>0, <1>1, <2>1, FS_EmptySet DEF StoreGrows, Raised, Finite
  <1>3. CASE LoadMarkets \/ LoadLatest
    <2>1. signals' = signals /\ scan'.legs = scan.legs
      BY <1>3 DEF LoadMarkets, LoadLatest, ScanInv, ScanType
    <2>2. scan'.latest = scan.latest \/ scan'.latest = NewestRows(scan.markets, "yes")
      BY <1>3 DEF LoadMarkets, LoadLatest, ScanInv, ScanType
    <2> QED
      BY <1>0, <1>1, <2>1, <2>2, LatestAmong DEF StoreGrows, Raised, Finite
  <1>4. CASE \E m \in Markets, side \in Sides : FetchLeg(m, side)
    <2>1. PICK l : scan' = [scan EXCEPT !.legs = @ \cup {l}]
      BY <1>4 DEF FetchLeg
    <2>2. signals' = signals /\ scan'.latest = scan.latest /\ scan'.legs = scan.legs \cup {l}
      BY <1>4, <2>1 DEF FetchLeg, ScanInv, ScanType
    <2>3. IsFiniteSet(scan'.legs)
      BY <2>2, FS_AddElement DEF Finite
    <2> QED
      BY <1>0, <1>1, <2>2, <2>3 DEF StoreGrows, Raised, Finite
  <1>5. CASE InsertSignals
    <2>1. /\ signals' = signals \cup Flagged
          /\ scan'.latest = {} /\ scan'.legs = {}
      BY <1>5 DEF InsertSignals, Idle
    <2>2. IsFiniteSet(scan.latest)
      BY FS_Subset DEF Finite
    <2>3. IsFiniteSet(signals')
      BY <2>1, <2>2, FlaggedIsFinite, FS_Union DEF Finite
    <2>4. ASSUME NEW s \in Flagged, s.strategy \in Priced
          PROVE  s.seen \in quotes /\ s.seen.market = s.market
      <3>1. s \notin Arbs(scan.legs, scans)
        BY <2>4 DEF Arbs, Signal, Priced
      <3> QED
        BY <3>1 DEF Flagged, Corrections, Longshots, Signal
    <2> QED
      BY <1>0, <1>1, <2>1, <2>3, <2>4, FS_EmptySet DEF StoreGrows, Raised, Finite
  <1> QED
    BY <1>2, <1>3, <1>4, <1>5 DEF Scan

LEMMA OthersStoreGrows == ASSUME RequestInv, StoreTypes, Others PROVE StoreGrows
  <1>1. CASE Idling
    BY <1>1, SteadyStore DEF Idling, Tick, world, scanners
  <1>2. CASE StoreChanges
    <2>1. Scanned \subseteq Quotes
      BY AdvisorAssumption DEF AdvisorAssumption
    <2>2. UNCHANGED <<signals, scan>> /\ (quotes' = quotes \/ \E q \in Quotes : StoreQuote(q))
      BY <1>2, <2>1 DEF StoreChanges, Relist, JournalRecord
    <2> QED
      BY <2>2, QuotesGrow
  <1>3. CASE \E m \in Markets, side \in Sides, price \in Asks : MoveBook(m, side, price)
    BY <1>3, SteadyStore DEF MoveBook, vars, world
  <1>4. CASE \E arb \in ArbsBeside : InsertArb(arb)
    <2> PICK arb \in ArbsBeside : InsertArb(arb)
      BY <1>4
    <2> DEFINE s == Signal("set_arb", arb.market, scans, arb.seen)
    <2>1. signals' = signals \cup {s} /\ s.strategy = "set_arb"
      BY DEF InsertArb, Signal
    <2>2. UNCHANGED <<quotes, scan>>
      BY <1>4 DEF InsertArb, vars, world
    <2>3. IsFiniteSet(signals')
      BY <2>1, FS_AddElement DEF RequestInv, Finite
    <2> QED
      BY <2>1, <2>2, <2>3 DEF RequestInv, StoreTypes, StoreGrows, OnlyLater, Raised, Finite, Priced
  <1>5. CASE \E c \in Configs : PutConfig(c)
    BY <1>5, SteadyStore DEF PutConfig, vars, world, scanners
  <1> QED
    BY <1>1, <1>2, <1>3, <1>4, <1>5 DEF Others

\* A statement of a request, the tables as they are.
LEMMA ReadsInOrder ==
  /\ NextRead("config") = "signals" /\ NextRead("signals") = "markets"
  /\ NextRead("markets") = "quotes" /\ NextRead("quotes") = "calibration"
  /\ NextRead("calibration") = "done"
  BY DEF NextRead

LEMMA AskRequestInv ==
  ASSUME RequestInv, NEW id \in {NoRow} \cup {Id(s) : s \in page}, Ask(id)
  PROVE  Shaped' /\ Fresh' /\ Openable' /\ req'.rows \subseteq signals'
  <1> USE DEF RequestInv
  <1>1. req' = [pc |-> "config", want |-> id, cfg |-> Defaults, rows |-> {},
                markets |-> {}, latest |-> Unread, frac |-> 0]
    BY DEF Ask, Quiet, Unread
  <1>2. signals' = signals
    BY DEF Ask, UnchangedButReq, scanners
  <1> QED
    BY <1>1, <1>2 DEF Shaped, Fresh, AsOf, Unread, Openable, Id

\* Fields that neither Fresh nor Openable is about.
LEMMA ReadAside ==
  ASSUME RequestInv, UNCHANGED <<signals, quotes>>, Shaped',
         req'.want = req.want, req'.rows = req.rows, req'.latest = req.latest,
         \/ req.pc = "config" /\ req'.pc = "signals"
         \/ req.pc = "markets" /\ req'.pc = "quotes"
         \/ req.pc = "calibration" /\ req'.pc = "done"
  PROVE  Fresh' /\ Openable'
  BY DEF RequestInv, Fresh, AsOf, RowsOf, Openable, Newer, Id

\* What is left out was older than as many as were looked through.
LEMMA NotAmongRecent ==
  ASSUME NEW id, NEW rows \in Searched(id), NEW s \in signals, Id(s) = id, s \notin rows,
         IsFiniteSet(signals), \A t \in signals : t.at \in Int
  PROVE  Cardinality(Newer(id)) > DetailLimit
  <1> DEFINE table == {t \in signals : t.strategy = id.strategy}
  <1>1. /\ rows \in SUBSET table /\ s \in table /\ id.at = s.at
        /\ Cardinality(rows) = Least(DetailLimit, Cardinality(table))
        /\ \A t \in rows : s.at <= t.at
    BY DEF Searched, Recent, Id
  <1>2. IsFiniteSet(table) /\ IsFiniteSet(rows)
    BY <1>1, FS_Subset
  <1>3. rows \cup {s} \in SUBSET table /\ IsFiniteSet(rows \cup {s})
        /\ Cardinality(rows \cup {s}) = Cardinality(rows) + 1
    BY <1>1, <1>2, FS_AddElement
  <1>4. Cardinality(rows \cup {s}) <= Cardinality(table)
    BY <1>2, <1>3, FS_Subset
  <1>5. Cardinality(rows) \in Nat /\ Cardinality(table) \in Nat /\ DetailLimit \in Nat
    BY <1>2, FS_CardinalityType, AdvisorAssumption DEF AdvisorAssumption
  <1>6. Cardinality(rows) = DetailLimit
    BY <1>1, <1>3, <1>4, <1>5 DEF Least
  <1>7. rows \cup {s} \in SUBSET Newer(id) /\ IsFiniteSet(Newer(id))
    <2>1. IsFiniteSet(Newer(id))
      BY FS_Subset DEF Newer
    <2>2. s.at <= s.at
      OBVIOUS
    <2> QED
      BY <1>1, <2>1, <2>2 DEF Newer
  <1>8. Cardinality(rows \cup {s}) <= Cardinality(Newer(id)) /\ Cardinality(Newer(id)) \in Nat
    BY <1>7, FS_Subset, FS_CardinalityType
  <1> QED
    BY <1>3, <1>5, <1>6, <1>8

LEMMA ReadRowsRequestInv ==
  ASSUME RequestInv, \A t \in signals : t.at \in Int, ReadList \/ ReadMatch
  PROVE  Shaped' /\ Fresh' /\ Openable' /\ req'.rows \subseteq signals'
  <1> USE DEF RequestInv
  <1>1. signals' = signals /\ req.pc = "signals" /\ req.latest = Unread
    BY DEF ReadList, ReadMatch, UnchangedButReq, scanners, Fresh
  <1>2. CASE ReadList
    <2>1. PICK rows \in Recent(signals, ListLimit) :
             req' = [req EXCEPT !.pc = NextRead(@), !.rows = rows]
      BY <1>2 DEF ReadList
    <2>2. req' = [pc |-> "markets", want |-> req.want, cfg |-> req.cfg, rows |-> rows,
                  markets |-> req.markets, latest |-> Unread, frac |-> req.frac]
      BY <1>1, <2>1, ReadsInOrder DEF Shaped
    <2>3. req.want = NoRow /\ rows \subseteq signals
      BY <1>2 DEF ReadList, Recent
    <2> QED
      BY <1>1, <2>2, <2>3 DEF Shaped, Fresh, AsOf, Unread, Openable
  <1>3. CASE ReadMatch
    <2> DEFINE match(rows) == {s \in rows : Id(s) = req.want}
    <2>1. PICK rows \in Searched(req.want) :
             IF match(rows) = {}
             THEN req' = [req EXCEPT !.pc = "done"]
             ELSE \E s \in match(rows) : req' = [req EXCEPT !.pc = NextRead(@), !.rows = {s}]
      BY <1>3 DEF ReadMatch
    <2>2. rows \subseteq signals /\ req.want # NoRow
      BY <1>3 DEF ReadMatch, Searched, Recent
    <2>3. PICK shown \in signals : Id(shown) = req.want
      BY <1>1, <2>2 DEF Openable
    <2>4. CASE match(rows) = {}
      <3>1. req' = [pc |-> "done", want |-> req.want, cfg |-> req.cfg, rows |-> req.rows,
                    markets |-> req.markets, latest |-> Unread, frac |-> req.frac]
        BY <1>1, <2>1, <2>4 DEF Shaped
      <3>2. shown \notin rows
        BY <2>3, <2>4
      <3>3. Cardinality(Newer(req.want)) > DetailLimit
        BY <2>3, <3>2, NotAmongRecent DEF Finite
      <3>4. Shaped' /\ Fresh'
        BY <1>1, <3>1 DEF Shaped, Fresh, AsOf, Unread
      <3>5. Openable'
        BY <1>1, <2>3, <3>1, <3>3 DEF Openable, Newer, Id
      <3> QED
        BY <1>1, <3>1, <3>4, <3>5
    <2>5. CASE match(rows) # {}
      <3>1. PICK s \in match(rows) : req' = [req EXCEPT !.pc = NextRead(@), !.rows = {s}]
        BY <2>1, <2>5
      <3>2. req' = [pc |-> "markets", want |-> req.want, cfg |-> req.cfg, rows |-> {s},
                    markets |-> req.markets, latest |-> Unread, frac |-> req.frac]
        BY <1>1, <3>1, ReadsInOrder DEF Shaped
      <3>3. s \in signals /\ Id(s) = req.want
        BY <2>2
      <3> QED
        BY <1>1, <3>2, <3>3 DEF Shaped, Fresh, AsOf, Unread, Openable, Id
    <2> QED
      BY <2>4, <2>5
  <1> QED
    BY <1>2, <1>3

\* A request that reads something else, or ends.
LEMMA ReadRequestInv ==
  ASSUME RequestInv, Request
  PROVE  Shaped' /\ Fresh' /\ Openable' /\ req'.rows \subseteq signals' /\ page' \subseteq signals'
  <1> USE DEF RequestInv
  <1>1. UNCHANGED <<signals, quotes>>
    BY DEF Request, Ask, ReadConfig, ReadList, ReadMatch, ReadMarkets, ReadQuotes, ReadCalibration,
           FailRequest, UnchangedButReq, vars, world, scanners
  <1>2. page' \subseteq signals'
    BY <1>1 DEF Request, Ask, ReadConfig, ReadList, ReadMatch, ReadMarkets, ReadQuotes,
                ReadCalibration, FailRequest
  <1>3. CASE \E id \in {NoRow} \cup {Id(s) : s \in page} : Ask(id)
    BY <1>2, <1>3, AskRequestInv
  <1>4. CASE ReadConfig \/ ReadMarkets \/ ReadCalibration
    <2>1. PICK cfg, markets, frac :
             req' = [pc |-> NextRead(req.pc), want |-> req.want, cfg |-> cfg, rows |-> req.rows,
                     markets |-> markets, latest |-> req.latest, frac |-> frac]
      <3>1. CASE ReadConfig
        BY <3>1 DEF ReadConfig, Shaped
      <3>2. CASE ReadMarkets
        BY <3>2 DEF ReadMarkets, Shaped
      <3>3. CASE ReadCalibration
        BY <3>3 DEF ReadCalibration, Shaped
      <3> QED
        BY <1>4, <3>1, <3>2, <3>3
    <2>2. Shaped' /\ req'.rows = req.rows
      BY <2>1 DEF Shaped
    <2>3. \/ req.pc = "config" /\ req'.pc = "signals"
          \/ req.pc = "markets" /\ req'.pc = "quotes"
          \/ req.pc = "calibration" /\ req'.pc = "done"
      BY <1>4, <2>1, ReadsInOrder DEF ReadConfig, ReadMarkets, ReadCalibration
    <2>4. Fresh' /\ Openable'
      BY <1>1, <2>1, <2>2, <2>3, ReadAside
    <2> QED
      BY <1>1, <1>2, <2>2, <2>4
  <1>5. CASE ReadList \/ ReadMatch
    BY <1>2, <1>5, ReadRowsRequestInv DEF Stamped
  <1>6. CASE ReadQuotes
    <2>1. req.pc = "quotes"
      BY <1>6 DEF ReadQuotes
    <2> DEFINE latest == [side \in Sides |-> NewestRows(req.markets, side)]
    <2>2. req' = [pc |-> "calibration", want |-> req.want, cfg |-> req.cfg, rows |-> req.rows,
                  markets |-> req.markets, latest |-> latest, frac |-> req.frac]
      BY <1>6, <2>1, ReadsInOrder DEF ReadQuotes, Shaped
    <2>3. ASSUME NEW side \in Sides, NEW q \in latest[side], NEW r \in RowsOf(q.market, side)
          PROVE  r.time <= q.time
      <3>1. PICK m \in req.markets : q \in Latest(RowsOf(m, side))
        BY DEF NewestRows
      <3>2. q.market = m
        BY <3>1 DEF Latest, RowsOf, Rows
      <3> QED
        BY <3>1, <3>2 DEF Latest
    <2> HIDE DEF latest
    <2>4. Fresh'
      BY <1>1, <2>2, <2>3 DEF Fresh, AsOf, RowsOf
    <2>5. Openable'
      BY <1>1, <2>1, <2>2 DEF Openable, Newer, Id
    <2> QED
      BY <1>1, <1>2, <2>2, <2>4, <2>5 DEF Shaped
  <1>7. CASE FailRequest
    <2>1. req' = [pc |-> "idle", want |-> NoRow, cfg |-> Defaults, rows |-> {},
                  markets |-> {}, latest |-> Unread, frac |-> 0]
      BY <1>7 DEF FailRequest, Quiet, Unread
    <2> QED
      BY <1>2, <2>1 DEF Shaped, Fresh, AsOf, Unread, Openable
  <1> QED
    BY <1>3, <1>4, <1>5, <1>6, <1>7 DEF Request

LEMMA AdvisorStoreGrows ==
  ASSUME RequestInv, ScanInv, [AdvisorNext]_advisorVars
  PROVE  StoreGrows
  <1>0. StoreTypes
    BY DEF ScanInv
  <1>1. CASE Watching(Next)
    <2>1. UNCHANGED <<signals, scan>> /\ (quotes' = quotes \/ \E q \in Quotes : StoreQuote(q))
      BY <1>1 DEF Watching, Next, Relist, JournalRecord, Tick, Cycle, Replay, Judge,
                  Publish, FailCycle, Restart, world, scanners
    <2> QED
      BY <1>0, <2>1, QuotesGrow
  <1>2. CASE Scan
    BY <1>2, ScanStoreGrows
  <1>3. CASE Request
    <2>1. UNCHANGED <<quotes, signals, scan>>
      BY <1>3 DEF Request, Ask, ReadConfig, ReadList, ReadMatch, ReadMarkets, ReadQuotes,
                  ReadCalibration, FailRequest, UnchangedButReq, vars, world, scanners
    <2> QED
      BY <1>0, <2>1, SteadyStore
  <1>4. CASE Others
    BY <1>0, <1>4, OthersStoreGrows
  <1>5. CASE UNCHANGED advisorVars
    BY <1>0, <1>5, SteadyStore DEF advisorVars, vars, world, scanners
  <1> QED
    BY <1>1, <1>2, <1>3, <1>4, <1>5 DEF AdvisorNext

LEMMA StampedAlways ==
  ASSUME Stamped, ScanInv, [AdvisorNext]_advisorVars
  PROVE  Stamped'
  <1> USE DEF Stamped
  <1>1. CASE BeginScan
    BY <1>1 DEF BeginScan
  <1>2. CASE InsertSignals
    <2>1. \A s \in Flagged : s.at = scans
      BY FlaggedIsEarned
    <2> QED
      BY <1>2, <2>1 DEF InsertSignals
  <1>3. CASE \E arb \in ArbsBeside : InsertArb(arb)
    <2>1. PICK arb \in ArbsBeside : InsertArb(arb)
      BY <1>3
    <2> QED
      BY <2>1 DEF InsertArb, Change, Signal
  <1>4. CASE LoadMarkets \/ LoadLatest \/ FailScan \/ \E m \in Markets, side \in Sides : FetchLeg(m, side)
    BY <1>4 DEF LoadMarkets, LoadLatest, FailScan, FetchLeg
  <1>5. CASE Watching(Next) \/ Request \/ Idling \/ UNCHANGED advisorVars
    BY <1>5 DEF Watching, Request, Ask, ReadConfig, ReadList, ReadMatch, ReadMarkets, ReadQuotes,
                ReadCalibration, FailRequest, UnchangedButReq, Idling, advisorVars, scanners
  <1>6. CASE \/ StoreChanges
             \/ \E m \in Markets, side \in Sides, price \in Asks : MoveBook(m, side, price)
             \/ \E c \in Configs : PutConfig(c)
    BY <1>6 DEF StoreChanges, MoveBook, PutConfig, Change, scanners
  <1> QED
    BY <1>1, <1>2, <1>3, <1>4, <1>5, <1>6 DEF AdvisorNext, Scan, Others

LEMMA NextRequestInv ==
  RequestInv /\ ScanInv /\ [AdvisorNext]_advisorVars => RequestInv'
  <1> SUFFICES ASSUME RequestInv, ScanInv, [AdvisorNext]_advisorVars PROVE RequestInv'
    OBVIOUS
  <1>1. StoreGrows /\ Stamped'
    BY AdvisorStoreGrows, StampedAlways DEF RequestInv
  <1>2. CASE Request
    BY <1>1, <1>2, ReadRequestInv DEF RequestInv, StoreGrows
  <1>3. CASE ~Request
    <2>1. UNCHANGED <<req, page>>
      BY <1>3 DEF AdvisorNext, Watching, Scan, BeginScan, LoadMarkets, LoadLatest, FetchLeg,
                  InsertSignals, FailScan, Others, Idling, StoreChanges, MoveBook, InsertArb,
                  PutConfig, advisorVars, api
    <2>2. signals \subseteq signals' /\ IsFiniteSet(signals')
      BY <1>1 DEF StoreGrows, Finite
    <2> QED
      BY <1>1, <2>1, <2>2, WaitingRequest DEF RequestInv, StoreGrows
  <1> QED
    BY <1>2, <1>3

\* What a request has read agrees with the tables, whatever is written between its
\* statements (api/signals.py).
THEOREM RequestInvariant == AdvisorSpec => [](ScanInv /\ RequestInv)
  BY InitScanInv, InitRequestInv, NextScanInv, NextRequestInv, PTL DEF AdvisorSpec

\* load_latest_quotes after load_signals, on a table that only grows: of the token
\* to be bought, a correction is sized on no older row than there was when it was
\* raised, whichever tokens each scan left out (snapshot_market).
THEOREM SizedAsOfItsRaising == AdvisorSpec => []SizedAsOfRaising
  <1>1. RequestInv => SizedAsOfRaising
    <2> SUFFICES ASSUME RequestInv, NEW s \in req.rows, s.strategy = "extreme_correction",
                        NEW q \in QuotesFor(s), NEW r \in RowsOf(s.market, BetSide(s)),
                        r.time <= s.seen.time
                 PROVE  r.time <= q.time
      BY DEF SizedAsOfRaising
    <2>1. BetSide(s) \in Sides
      BY FavouredIsSide DEF BetSide
    <2>2. q \in req.latest[BetSide(s)] /\ q.market = s.market
      BY DEF QuotesFor
    <2>3. AsOf(s, req.latest)
      BY DEF RequestInv, Fresh, Priced
    <2> QED
      BY <2>1, <2>2, <2>3 DEF AsOf
  <1> QED
    BY <1>1, RequestInvariant, PTL

\* get_signal: what was listed is found, or DetailLimit newer ones hide it.
THEOREM ListedIsFound == AdvisorSpec => []ListedCanBeOpened
  <1>1. RequestInv => ListedCanBeOpened
    BY DEF RequestInv, Openable, Newer, ListedCanBeOpened
  <1> QED
    BY <1>1, RequestInvariant, PTL

-----------------------------------------------------------------------------
(* A single advice.                                                        *)

\* A larger dividend makes no smaller quotient.
LEMMA DivisionMonotone ==
  ASSUME NEW x \in Nat, NEW y \in Nat, NEW d \in Nat \ {0}, x <= y
  PROVE  x \div d <= y \div d
  OBVIOUS

LEMMA ProductMonotone ==
  ASSUME NEW x \in Nat, NEW y \in Nat, NEW z \in Nat, x <= y
  PROVE  x * z \in Nat /\ y * z \in Nat /\ x * z <= y * z
  OBVIOUS

\* position_size and effective_kelly_frac: however far the fraction is shrunk, a
\* stake is at most what it is without, at most the user's cap, and not expected
\* to lose at the lower bound of the estimate.
THEOREM AdviceIsModest ==
  ASSUME NEW bet \in [p: 0..100, ask: Nat], NEW cfg \in ConfigType, NEW frac \in 0..cfg.frac
  PROVE  LET stake == AdvisedStake(bet, cfg, frac)
         IN /\ stake \in 0..(cfg.bankroll * cfg.cap) \div 100
            /\ stake <= AdvisedStake(bet, cfg, cfg.frac)
            /\ stake > 0 => DirectionalEv(bet, stake) >= 0
  <1> DEFINE most == (cfg.bankroll * cfg.cap) \div 100
             stake == AdvisedStake(bet, cfg, frac)
  <1>1. most \in Nat
    BY ShareOf DEF ConfigType
  <1>2. CASE EdgeGate(bet)
    <2> DEFINE gain == bet.p - bet.ask
               odds == 100 * (100 - bet.ask)
               some == (cfg.bankroll * frac * gain) \div odds
               all == (cfg.bankroll * cfg.frac * gain) \div odds
    <2>1. gain \in Nat /\ odds \in Nat \ {0}
      BY <1>2, BacktestAssumption DEF BacktestAssumption, EdgeGate
    <2>2. /\ cfg.bankroll * frac \in Nat /\ cfg.bankroll * cfg.frac \in Nat
          /\ cfg.bankroll * frac <= cfg.bankroll * cfg.frac
      <3>1. cfg.bankroll \in Nat /\ frac \in Nat /\ cfg.frac \in Nat /\ frac <= cfg.frac
        BY DEF ConfigType
      <3>2. frac * cfg.bankroll = cfg.bankroll * frac /\ cfg.frac * cfg.bankroll = cfg.bankroll * cfg.frac
        BY <3>1
      <3> QED
        BY <3>1, <3>2, ProductMonotone
    <2> HIDE DEF gain, odds
    <2>3. /\ cfg.bankroll * frac * gain \in Nat /\ cfg.bankroll * cfg.frac * gain \in Nat
          /\ cfg.bankroll * frac * gain <= cfg.bankroll * cfg.frac * gain
      BY <2>1, <2>2, ProductMonotone
    <2>4. some \in Nat /\ all \in Nat /\ some <= all
      BY <2>1, <2>3, DivisionInNat, DivisionMonotone
    <2>5. stake = Least(some, most) /\ AdvisedStake(bet, cfg, cfg.frac) = Least(all, most)
      BY <1>2 DEF AdvisedStake, gain, odds
    <2> HIDE DEF some, all, most, stake
    <2>6. stake \in 0..most /\ stake <= AdvisedStake(bet, cfg, cfg.frac)
      BY <1>1, <2>4, <2>5 DEF Least
    <2>7. DirectionalEv(bet, stake) >= 0
      <3>1. Threshold(bet) \in Nat /\ PLo(bet) \in Int
            /\ PLo(bet) > Threshold(bet) /\ PLo(bet) <= 100
        BY <1>2, BacktestAssumption DEF BacktestAssumption, EdgeGate, Threshold, PLo
      <3>2. Most(0, Least(100, PLo(bet))) = PLo(bet)
        BY <3>1 DEF Most, Least
      <3>3. CASE Threshold(bet) \in 1..100
        <4>1. stake * (PLo(bet) - Threshold(bet)) \in Nat
          BY <1>1, <2>6, <3>1, ProductMonotone
        <4>2. ExpectedValue(stake, Threshold(bet), PLo(bet)) \in Nat
          BY <3>3, <4>1, DivisionInNat DEF ExpectedValue
        <4> QED
          BY <3>2, <3>3, <4>2 DEF DirectionalEv
      <3>4. CASE Threshold(bet) \notin 1..100
        BY <3>4 DEF DirectionalEv
      <3> QED
        BY <3>3, <3>4
    <2> QED
      BY <2>6, <2>7 DEF stake, most
  <1>3. CASE ~EdgeGate(bet)
    BY <1>1, <1>3 DEF AdvisedStake
  <1> QED
    BY <1>2, <1>3

-----------------------------------------------------------------------------
(* What a request has read is of its type.                                 *)

\* suggest_kelly_fraction never raises the fraction, nor divides by nothing.
LEMMA MultiplierInRange ==
  ASSUME WorldInv, Confident # {}
  PROVE  Multiplier \in 0..100
  <1> DEFINE outcomes == [r \in Confident |-> r["outcome"]]
             estimates == [r \in Confident |-> r["estimate"]]
  <1>1. IsFiniteSet(Confident)
    BY FS_Subset DEF WorldInv, Confident
  <1>2. \A r \in Confident : /\ r["outcome"] \in Nat /\ r["estimate"] \in Nat
                             /\ r["estimate"] > 0
    <2>1. \A r \in Confident : r.outcome \in Nat /\ r.estimate \in Nat /\ r.estimate >= HighConfidence
      <3> TAKE r \in Confident
      <3>1. r \in Records /\ r.estimate >= HighConfidence
        BY DEF Confident, WorldInv, WorldTypes
      <3> QED
        BY <3>1, MonitorAssumption DEF MonitorAssumption
    <2>2. HighConfidence \in Nat /\ HighConfidence > 0
      BY MonitorAssumption DEF MonitorAssumption
    <2>3. \A r \in Confident : r.estimate > 0
      BY <2>1, <2>2
    <2> QED
      BY <2>1, <2>3
  <1>3. /\ MapThenSumSet(LAMBDA r : r["outcome"], Confident) = SumOf(outcomes, Confident)
        /\ MapThenSumSet(LAMBDA r : r["estimate"], Confident) = SumOf(estimates, Confident)
    <2>1. (\A r \in Confident : r["outcome"] \in Int) /\ (\A r \in Confident : r["estimate"] \in Int)
      BY <1>2
    <2>2. MapThenSumSet(LAMBDA r : r["outcome"], Confident) = SumOf(outcomes, Confident)
      BY <1>1, <2>1, FieldSum
    <2>3. MapThenSumSet(LAMBDA r : r["estimate"], Confident) = SumOf(estimates, Confident)
      BY <1>1, <2>1, FieldSum
    <2> QED
      BY <2>2, <2>3
  <1>4. Multiplier = Most(MinMultiplier,
                          Least(100, (10000 * SumOf(outcomes, Confident)) \div SumOf(estimates, Confident)))
    BY <1>3 DEF Multiplier
  <1>5. SumOf(outcomes, Confident) \in Nat
    BY <1>1, <1>2, SumNat
  <1>6. SumOf(estimates, Confident) \in Nat \ {0}
    <2>1. PICK r \in Confident : TRUE
      OBVIOUS
    <2>2. \A x \in Confident : estimates[x] \in Nat
      BY <1>2
    <2>3. SumOf(estimates, Confident) = estimates[r] + SumOf(estimates, Confident \ {r})
      BY <1>1, <2>2, SumPick
    <2>4. IsFiniteSet(Confident \ {r})
      BY <1>1, FS_Subset
    <2>5. SumOf(estimates, Confident \ {r}) \in Nat
      BY <2>2, <2>4, SumNat
    <2>6. estimates[r] \in Nat \ {0}
      BY <1>2
    <2> HIDE DEF estimates
    <2> QED
      BY <2>3, <2>5, <2>6
  <1> HIDE DEF outcomes, estimates
  <1>7. PICK x \in Nat : x = (10000 * SumOf(outcomes, Confident)) \div SumOf(estimates, Confident)
    BY <1>5, <1>6, DivisionInNat
  <1>8. MinMultiplier \in 0..100
    BY AdvisorAssumption DEF AdvisorAssumption
  <1> QED
    BY <1>4, <1>7, <1>8 DEF Most, Least

LEMMA FracOnlyShrinks ==
  ASSUME WorldInv, NEW base \in 0..100
  PROVE  EffectiveFrac(base) \in 0..base
  <1>1. CASE Confident = {}
    BY <1>1 DEF EffectiveFrac
  <1>2. CASE Confident # {}
    <2>1. PICK k \in 0..100 : k = Multiplier
      BY <1>2, MultiplierInRange
    <2>2. (base * k) \div 100 \in 0..base
      BY ShareOf
    <2> QED
      BY <1>2, <2>1, <2>2 DEF EffectiveFrac
  <1> QED
    BY <1>1, <1>2

\* Rows that a scanner writes: an arbitrage pays.
Written(rows) ==
    /\ rows \subseteq SignalType
    /\ \A s \in rows : s.strategy = "set_arb" => NetOfSet(s.seen) > 0

\* Of a token at most one row is the newest.
OnePerMarket(latest) ==
    \A side \in Sides : \A q, r \in latest[side] : q.market = r.market => q = r

\* A request in itself: the fraction is that of the configuration, or less.
RequestTyped ==
    /\ req \in [pc: {"idle", "config", "signals", "markets", "quotes", "calibration", "done"},
                want: {NoRow} \cup IdType, cfg: ConfigType, rows: SUBSET SignalType,
                markets: SUBSET Markets, latest: [Sides -> SUBSET Quotes], frac: Nat]
    /\ req.frac \in 0..req.cfg.frac
    /\ req.pc # "done" => req.frac = 0
    /\ OnePerMarket(req.latest)

TypedInv ==
    /\ deployed \in {"monitor", "prices", "books"}
    /\ Written(signals)
    /\ saved \in Configs \cup {NoRow}
    /\ RequestTyped
    /\ scans \in 0..MaxScans /\ changes \in 0..MaxChanges

LEMMA OneNewestRow ==
  ASSUME quotes \subseteq Quotes, NEW markets, NEW side, NEW q \in NewestRows(markets, side),
         NEW r \in NewestRows(markets, side), q.market = r.market
  PROVE  q = r
  <1>1. q \in Latest(RowsOf(q.market, side)) /\ r \in Latest(RowsOf(q.market, side))
    BY DEF NewestRows, Latest, RowsOf, Rows
  <1>2. q.time <= r.time /\ r.time <= q.time /\ q \in Quotes /\ r \in Quotes
    BY <1>1 DEF Latest, RowsOf, Rows
  <1>3. q.time \in Nat /\ r.time \in Nat
    BY <1>2, MonitorAssumption DEF MonitorAssumption, QuoteType
  <1> QED
    BY <1>2, <1>3, MonitorAssumption DEF MonitorAssumption

LEMMA UnreadIs == Unread \in [Sides -> SUBSET Quotes] /\ OnePerMarket(Unread)
  BY DEF Unread, OnePerMarket

LEMMA PriceSignalType ==
  ASSUME NEW q \in Quotes, scans \in Nat, NEW strategy \in Priced
  PROVE  Signal(strategy, q.market, scans, q) \in SignalType
  BY MonitorAssumption DEF MonitorAssumption, QuoteType, Signal, SignalType

LEMMA FlaggedIsWritten ==
  ASSUME ScanInv, scans \in Nat
  PROVE  Written(Flagged)
  <1>1. scan.latest \subseteq Quotes /\ scan.legs \subseteq LegType
    BY DEF ScanInv, ScanType, LegType
  <1>2. ASSUME NEW s \in Corrections(scan.latest, scans) \cup Longshots(scan.latest, scans)
        PROVE  s \in SignalType /\ s.strategy # "set_arb"
    <2>1. PICK q \in scan.latest, strategy \in Priced : s = Signal(strategy, q.market, scans, q)
      BY <1>2 DEF Corrections, Longshots, Priced
    <2>2. s \in SignalType
      BY <1>1, <2>1, PriceSignalType
    <2> QED
      BY <2>1, <2>2 DEF Signal, Priced
  <1>3. ASSUME NEW s \in Arbs(scan.legs, scans)
        PROVE  s \in SignalType /\ NetOfSet(s.seen) > 0
    <2>1. PICK p \in Legs(scan.legs) :
             /\ s = Signal("set_arb", p[1].market, scans, SetOf(p))
             /\ p[1].price # NoBook /\ p[2].price # NoBook /\ NetOfSet(SetOf(p)) > 0
      BY <1>3 DEF Arbs
    <2>2. p[1] \in LegType /\ p[2] \in LegType
      BY <1>1 DEF Legs
    <2>3. p[1].market \in Markets /\ p[1].price \in Asks /\ p[2].price \in Asks
      BY <2>1, <2>2 DEF LegType
    <2>4. SetOf(p) \in Sets
      BY <2>3 DEF SetOf, Sets, Sides
    <2> QED
      BY <2>1, <2>3, <2>4 DEF Signal, SignalType
  <1> QED
    BY <1>2, <1>3 DEF Flagged, Written

LEMMA InitTypedInv == AdvisorInit => TypedInv
  <1> SUFFICES ASSUME AdvisorInit PROVE TypedInv
    OBVIOUS
  <1>1. /\ req = [pc |-> "idle", want |-> NoRow, cfg |-> Defaults, rows |-> {},
                  markets |-> {}, latest |-> Unread, frac |-> 0]
        /\ Defaults \in ConfigType /\ MaxScans \in Nat /\ MaxChanges \in Nat
    BY AdvisorAssumption DEF AdvisorAssumption, AdvisorInit, Quiet, Unread
  <1>2. RequestTyped
    BY <1>1, UnreadIs DEF RequestTyped, ConfigType
  <1> QED
    BY <1>1, <1>2 DEF AdvisorInit, TypedInv, Written

LEMMA AskTyped ==
  ASSUME TypedInv, RequestInv, NEW id \in {NoRow} \cup {Id(s) : s \in page}, Ask(id)
  PROVE  RequestTyped'
  <1>1. req' = [pc |-> "config", want |-> id, cfg |-> Defaults, rows |-> {},
                markets |-> {}, latest |-> Unread, frac |-> 0]
    BY DEF Ask, Quiet, Unread
  <1>2. id \in {NoRow} \cup IdType
    BY DEF TypedInv, RequestInv, Written, SignalType, Id, IdType
  <1>3. Defaults \in ConfigType
    BY AdvisorAssumption DEF AdvisorAssumption
  <1> QED
    BY <1>1, <1>2, <1>3, UnreadIs DEF RequestTyped, ConfigType

LEMMA RequestStaysTyped ==
  ASSUME TypedInv, RequestInv, ScanInv, WorldInv, Request
  PROVE  RequestTyped'
  <1> USE DEF TypedInv
  <1> DEFINE Now(at, cfg, rows, markets, latest, frac) ==
                req' = [pc |-> at, want |-> req.want, cfg |-> cfg, rows |-> rows,
                        markets |-> markets, latest |-> latest, frac |-> frac]
  <1>0. /\ req.want \in {NoRow} \cup IdType /\ req.cfg \in ConfigType /\ req.rows \subseteq SignalType
        /\ req.markets \subseteq Markets /\ req.latest \in [Sides -> SUBSET Quotes]
        /\ req.frac \in 0..req.cfg.frac /\ (req.pc # "done" => req.frac = 0)
        /\ OnePerMarket(req.latest)
        /\ Shaped
    BY DEF RequestTyped, RequestInv
  <1>1. CASE \E id \in {NoRow} \cup {Id(s) : s \in page} : Ask(id)
    BY <1>1, AskTyped
  <1>2. CASE ReadConfig
    <2>1. EffectiveConfig \in ConfigType
      BY AdvisorAssumption DEF AdvisorAssumption, EffectiveConfig
    <2>2. Now("signals", EffectiveConfig, req.rows, req.markets, req.latest, 0)
      BY <1>0, <1>2, ReadsInOrder DEF ReadConfig, Shaped
    <2> QED
      BY <1>0, <2>1, <2>2 DEF RequestTyped, ConfigType
  <1>3. CASE ReadList \/ ReadMatch
    <2>1. PICK at \in {"markets", "done"}, rows \in SUBSET signals :
             Now(at, req.cfg, req.rows, req.markets, req.latest, 0)
             \/ Now(at, req.cfg, rows, req.markets, req.latest, 0)
      <3>1. CASE ReadList
        <4>1. PICK rows \in Recent(signals, ListLimit) :
                 req' = [req EXCEPT !.pc = NextRead(@), !.rows = rows]
          BY <3>1 DEF ReadList
        <4>2. Now("markets", req.cfg, rows, req.markets, req.latest, 0)
          BY <1>0, <3>1, <4>1, ReadsInOrder DEF ReadList, Shaped
        <4>3. rows \in SUBSET signals
          BY DEF Recent
        <4> QED
          BY <4>2, <4>3
      <3>2. CASE ReadMatch
        <4>1. PICK rows \in Searched(req.want) :
                 LET match == {s \in rows : Id(s) = req.want}
                 IN IF match = {}
                    THEN req' = [req EXCEPT !.pc = "done"]
                    ELSE \E s \in match : req' = [req EXCEPT !.pc = NextRead(@), !.rows = {s}]
          BY <3>2 DEF ReadMatch
        <4>2. rows \subseteq signals
          BY DEF Searched, Recent
        <4>3. CASE req' = [req EXCEPT !.pc = "done"]
          <5>1. Now("done", req.cfg, req.rows, req.markets, req.latest, 0)
            BY <1>0, <3>2, <4>3 DEF ReadMatch, Shaped
          <5> QED
            BY <5>1
        <4>4. CASE \E s \in rows : req' = [req EXCEPT !.pc = NextRead(@), !.rows = {s}]
          <5>1. PICK s \in rows : req' = [req EXCEPT !.pc = NextRead(@), !.rows = {s}]
            BY <4>4
          <5>2. Now("markets", req.cfg, {s}, req.markets, req.latest, 0)
            BY <1>0, <3>2, <5>1, ReadsInOrder DEF ReadMatch, Shaped
          <5> QED
            BY <4>2, <5>2
        <4> QED
          BY <4>1, <4>3, <4>4
      <3> QED
        BY <1>3, <3>1, <3>2
    <2>2. rows \subseteq SignalType
      BY DEF Written
    <2> QED
      BY <1>0, <2>1, <2>2 DEF RequestTyped, ConfigType
  <1>4. CASE ReadMarkets
    <2>1. tracked \subseteq Markets
      BY DEF WorldInv, WorldTypes
    <2>2. Now("quotes", req.cfg, req.rows, tracked, req.latest, 0)
      BY <1>0, <1>4, ReadsInOrder DEF ReadMarkets, Shaped
    <2> QED
      BY <1>0, <2>1, <2>2 DEF RequestTyped, ConfigType
  <1>5. CASE ReadQuotes
    <2> DEFINE latest == [side \in Sides |-> NewestRows(req.markets, side)]
    <2>1. quotes \subseteq Quotes /\ latest \in [Sides -> SUBSET Quotes]
      BY LatestAmong DEF WorldInv, WorldTypes
    <2>2. OnePerMarket(latest)
      BY <2>1, OneNewestRow DEF OnePerMarket
    <2>3. Now("calibration", req.cfg, req.rows, req.markets, latest, 0)
      BY <1>0, <1>5, ReadsInOrder DEF ReadQuotes, Shaped
    <2> HIDE DEF latest
    <2> QED
      BY <1>0, <2>1, <2>2, <2>3 DEF RequestTyped, ConfigType
  <1>6. CASE ReadCalibration
    <2> DEFINE frac == EffectiveFrac(req.cfg.frac)
    <2>1. frac \in 0..req.cfg.frac
      BY <1>0, FracOnlyShrinks DEF ConfigType
    <2>2. Now("done", req.cfg, req.rows, req.markets, req.latest, frac)
      BY <1>0, <1>6, ReadsInOrder DEF ReadCalibration, Shaped
    <2> HIDE DEF frac
    <2> QED
      BY <1>0, <2>1, <2>2 DEF RequestTyped
  <1>7. CASE FailRequest
    <2>1. req' = [pc |-> "idle", want |-> NoRow, cfg |-> Defaults, rows |-> {},
                  markets |-> {}, latest |-> Unread, frac |-> 0]
      BY <1>7 DEF FailRequest, Quiet, Unread
    <2>2. Defaults \in ConfigType
      BY AdvisorAssumption DEF AdvisorAssumption
    <2> QED
      BY <2>1, <2>2, UnreadIs DEF RequestTyped, ConfigType
  <1> QED
    BY <1>1, <1>2, <1>3, <1>4, <1>5, <1>6, <1>7 DEF Request

LEMMA NextTypedInv ==
  ASSUME TypedInv, RequestInv, ScanInv, WorldInv, [AdvisorNext]_advisorVars
  PROVE  TypedInv'
  <1> USE DEF TypedInv
  <1>0. MaxScans \in Nat /\ MaxChanges \in Nat
    BY AdvisorAssumption DEF AdvisorAssumption
  <1>1. CASE BeginScan
    BY <1>0, <1>1 DEF BeginScan, api, RequestTyped
  <1>2. CASE InsertSignals
    <2>1. Written(Flagged)
      BY FlaggedIsWritten
    <2>2. Written(signals')
      BY <1>2, <2>1 DEF InsertSignals, Written
    <2> QED
      BY <1>2, <2>2 DEF InsertSignals, api, RequestTyped
  <1>3. CASE \E arb \in ArbsBeside : InsertArb(arb)
    <2> PICK arb \in ArbsBeside : InsertArb(arb)
      BY <1>3
    <2> DEFINE s == Signal("set_arb", arb.market, scans, arb.seen)
    <2>1. /\ arb.market \in Markets /\ arb.seen \in Sets
          /\ arb.seen["yes"] + arb.seen["no"] + Costs < 100
      BY AdvisorAssumption DEF AdvisorAssumption
    <2>2. s \in SignalType /\ s.seen = arb.seen
      BY <2>1 DEF Signal, SignalType
    <2>3. NetOfSet(arb.seen) > 0
      <3>1. arb.seen["yes"] \in Asks /\ arb.seen["no"] \in Asks
        BY <2>1 DEF Sets, Sides
      <3>2. Asks \subseteq Nat /\ Costs \in Nat
        BY AdvisorAssumption, BacktestAssumption DEF AdvisorAssumption, BacktestAssumption
      <3>3. ASSUME NEW x \in Nat, NEW y \in Nat, x + y + Costs < 100
            PROVE  100 - (x + y) - Costs > 0
        BY <3>2, <3>3
      <3> QED
        BY <2>1, <3>1, <3>2, <3>3 DEF NetOfSet
    <2>4. signals' = signals \cup {s}
      BY DEF InsertArb
    <2> HIDE DEF s
    <2>5. Written(signals')
      BY <2>2, <2>3, <2>4 DEF Written
    <2>6. UNCHANGED <<deployed, req, saved, scans>> /\ changes < MaxChanges /\ changes' = changes + 1
      BY DEF InsertArb, Change, api
    <2> QED
      BY <1>0, <2>5, <2>6 DEF RequestTyped
  <1>4. CASE Request
    <2>1. UNCHANGED <<deployed, signals, saved, scans, changes>>
      BY <1>4 DEF Request, Ask, ReadConfig, ReadList, ReadMatch, ReadMarkets, ReadQuotes,
                  ReadCalibration, FailRequest, UnchangedButReq, scanners
    <2> QED
      BY <1>4, <2>1, RequestStaysTyped
  <1>5. CASE \E c \in Configs : PutConfig(c)
    <2>1. UNCHANGED <<deployed, signals, req, scans>> /\ saved' \in Configs
          /\ changes < MaxChanges /\ changes' = changes + 1
      BY <1>5 DEF PutConfig, Change, scanners
    <2> QED
      BY <1>0, <2>1 DEF RequestTyped
  <1>6. CASE StoreChanges \/ \E m \in Markets, side \in Sides, price \in Asks : MoveBook(m, side, price)
    <2>1. UNCHANGED <<deployed, signals, req, saved, scans>>
          /\ changes < MaxChanges /\ changes' = changes + 1
      BY <1>6 DEF StoreChanges, MoveBook, Change, api
    <2> QED
      BY <1>0, <2>1 DEF RequestTyped
  <1>7. CASE \/ LoadMarkets \/ LoadLatest \/ FailScan
             \/ \E m \in Markets, side \in Sides : FetchLeg(m, side)
             \/ Watching(Next) \/ Idling \/ UNCHANGED advisorVars
    <2>1. UNCHANGED <<deployed, signals, req, saved, scans, changes>>
      BY <1>7 DEF LoadMarkets, LoadLatest, FailScan, FetchLeg, Watching, Idling, advisorVars, scanners, api
    <2> QED
      BY <2>1 DEF RequestTyped
  <1> QED
    BY <1>1, <1>2, <1>3, <1>4, <1>5, <1>6, <1>7 DEF AdvisorNext, Scan, Others

THEOREM TypedInvariant == AdvisorSpec => [](TypedInv /\ RequestInv /\ ScanInv /\ WorldInv)
  <1>1. AdvisorInit => TypedInv
    BY InitTypedInv
  <1>2. TypedInv /\ RequestInv /\ ScanInv /\ WorldInv /\ [AdvisorNext]_advisorVars => TypedInv'
    BY NextTypedInv
  <1>3. AdvisorSpec => [](ScanInv /\ RequestInv)
    BY RequestInvariant
  <1>4. AdvisorSpec => []WorldInv
    BY MonitorUndisturbed, WorldInvariant, PTL
  <1> QED
    BY <1>1, <1>2, <1>3, <1>4, PTL DEF AdvisorSpec

\* Beside the scanners and the API, whatever fails and changes, every variable is
\* of its type: the API's fraction, too, which comes out of a division by the
\* journal's estimates (suggest_kelly_fraction).
THEOREM AdvisorTypes == AdvisorSpec => []AdvisorTypeOK
  <1>1. TypedInv /\ RequestInv /\ ScanInv /\ TypeOK => AdvisorTypeOK
    <2> SUFFICES ASSUME TypedInv, RequestInv, ScanInv, TypeOK PROVE AdvisorTypeOK
      OBVIOUS
    <2>1. req \in ReqType
      BY DEF TypedInv, RequestTyped, ReqType, ConfigType
    <2>2. page \subseteq SignalType
      BY DEF TypedInv, RequestInv, Written
    <2> QED
      BY <2>1, <2>2 DEF AdvisorTypeOK, TypedInv, ScanInv, Written
  <1>2. AdvisorSpec => []TypeOK
    BY MonitorUndisturbed, MonitorTypes, PTL
  <1> QED
    BY <1>1, <1>2, TypedInvariant, PTL

-----------------------------------------------------------------------------
(* What an answer holds.                                                   *)

ReqInv == RequestTyped /\ Written(req.rows)

LEMMA ReqIs == TypedInv /\ RequestInv => ReqInv
  BY DEF TypedInv, RequestInv, Written, ReqInv

\* Of a row an answer makes one of four things.
MadeFrom(a, s) ==
    \/ s.strategy = "set_arb" /\ a = AdviseArb(s)
    \/ s.strategy = "favourite_longshot" /\ a = AdviseLongshot(s)
    \/ /\ s.strategy \notin {"set_arb", "favourite_longshot"}
       /\ \/ QuotesFor(s) = {} /\ a = Degraded(s)
          \/ \E q \in QuotesFor(s) : a = AdviseDirectional(s, q, req.cfg, req.frac)

LEMMA AnswerIs ==
  ASSUME NEW a \in Answer
  PROVE  \E s \in req.rows : MadeFrom(a, s)
  <1>1. PICK s \in req.rows : a \in Enriched(s)
    BY DEF Answer
  <1>2. CASE s.strategy = "set_arb"
    BY <1>1, <1>2 DEF Enriched, MadeFrom
  <1>3. CASE s.strategy = "favourite_longshot"
    BY <1>1, <1>3 DEF Enriched, MadeFrom
  <1>4. CASE s.strategy \notin {"set_arb", "favourite_longshot"}
    <2>1. a \in IF QuotesFor(s) = {} THEN {Degraded(s)}
               ELSE {AdviseDirectional(s, q, req.cfg, req.frac) : q \in QuotesFor(s)}
      BY <1>1, <1>4 DEF Enriched
    <2> QED
      BY <1>4, <2>1 DEF MadeFrom
  <1> QED
    BY <1>2, <1>3, <1>4

LEMMA RowIs ==
  ASSUME ReqInv, NEW s \in req.rows
  PROVE  /\ s.strategy \in Priced \cup {"set_arb"}
         /\ s.strategy \in Priced => s.seen \in Quotes
         /\ s.strategy = "set_arb" => s.seen \in Sets /\ NetOfSet(s.seen) > 0
  BY DEF ReqInv, Written, SignalType, Priced

\* The bet on a correction, at a row of the token to be bought.
LEMMA BetIs ==
  ASSUME NEW s, s.seen \in Quotes, NEW q \in Quotes
  PROVE  /\ Bet(s, q) \in [p: 0..100, ask: Nat]
         /\ PLo(Bet(s, q)) \in Int /\ Threshold(Bet(s, q)) \in Int
         /\ EdgeGate(Bet(s, q)) <=> PLo(Bet(s, q)) > Threshold(Bet(s, q))
  <1> DEFINE p == Chance(Mid(s.seen))
             ask == AskPrice(q, BetSide(s))
  <1>1. Bet(s, q) = [p |-> p, ask |-> ask]
    BY DEF Bet
  <1>2. p \in 0..100
    <2>1. Mid(s.seen) \in 0..100
      BY PriceTypes DEF Mid, Sides
    <2> QED
      BY <2>1, ChanceInBand
  <1>3. ask \in Nat
    <2>1. ASSUME NEW x \in 0..100, NEW h \in 0..100 PROVE x + h \in Nat
      OBVIOUS
    <2>2. BetSide(s) \in Sides
      BY FavouredIsSide DEF BetSide
    <2> QED
      BY <2>1, <2>2, PriceTypes DEF AskPrice
  <1> HIDE DEF p, ask
  <1>4. Bet(s, q).p = p /\ Bet(s, q).ask = ask /\ Bet(s, q) \in [p: 0..100, ask: Nat]
    BY <1>1, <1>2, <1>3
  <1>5. Margin \in Nat /\ Costs \in Nat
    BY BacktestAssumption DEF BacktestAssumption
  <1> QED
    BY <1>2, <1>3, <1>4, <1>5 DEF PLo, Threshold, EdgeGate

\* There is one such row.
LEMMA OneQuote ==
  ASSUME ReqInv, NEW s
  PROVE  /\ QuotesFor(s) \subseteq Quotes
         /\ \A q, r \in QuotesFor(s) : q = r
         /\ \A q \in QuotesFor(s) : s.market \in req.markets
  <1>1. BetSide(s) \in Sides
    BY FavouredIsSide DEF BetSide
  <1> QED
    BY <1>1 DEF ReqInv, RequestTyped, OnePerMarket, QuotesFor

LEMMA NoStake ==
  ASSUME ReqInv
  PROVE  0 \in 0..(req.cfg.bankroll * req.cfg.cap) \div 100
  BY ShareOf DEF ReqInv, RequestTyped, ConfigType

\* advise and position_size in whole answers: whatever was stored and changed
\* between the statements of a request, a stake is on a tracked market, within the
\* user's cap and fraction, and never on a bet expected to lose.
THEOREM StakesStayModest == AdvisorSpec => []StakesAreModest
  <1>1. ReqInv => StakesAreModest
    <2> SUFFICES ASSUME ReqInv, NEW a \in Answer
                 PROVE  /\ a.stake \in 0..(req.cfg.bankroll * req.cfg.cap) \div 100
                        /\ a.ev >= 0 \/ a.stake = 0
                        /\ a.stake > 0 =>
                              /\ a.signal.market \in req.markets
                              /\ \E q \in QuotesFor(a.signal) :
                                    a.stake <= AdvisedStake(Bet(a.signal, q), req.cfg, req.cfg.frac)
      BY DEF StakesAreModest
    <2>1. PICK s \in req.rows : MadeFrom(a, s)
      BY AnswerIs
    <2>2. CASE a = AdviseArb(s) \/ a = AdviseLongshot(s) \/ a = Degraded(s)
      <3>1. a.stake = 0
        BY <2>2 DEF AdviseArb, AdviseLongshot, Degraded, Advice
      <3> QED
        BY <3>1, NoStake
    <2>3. CASE /\ s.strategy \notin {"set_arb", "favourite_longshot"}
               /\ \E q \in QuotesFor(s) : a = AdviseDirectional(s, q, req.cfg, req.frac)
      <3>1. PICK q \in QuotesFor(s) : a = AdviseDirectional(s, q, req.cfg, req.frac)
        BY <2>3
      <3> DEFINE bet == Bet(s, q)
                 stake == AdvisedStake(bet, req.cfg, req.frac)
      <3>2. a.signal = s /\ a.stake = stake /\ a.ev = DirectionalEv(bet, stake)
        BY <3>1 DEF AdviseDirectional, Advice
      <3>3. s.seen \in Quotes /\ q \in Quotes /\ s.market \in req.markets
        BY <2>3, RowIs, OneQuote DEF Priced
      <3>4. bet \in [p: 0..100, ask: Nat]
        BY <3>3, BetIs
      <3>5. req.cfg \in ConfigType /\ req.frac \in 0..req.cfg.frac
        BY DEF ReqInv, RequestTyped
      <3> HIDE DEF bet
      <3>6. /\ stake \in 0..(req.cfg.bankroll * req.cfg.cap) \div 100
            /\ stake <= AdvisedStake(bet, req.cfg, req.cfg.frac)
            /\ stake > 0 => DirectionalEv(bet, stake) >= 0
        BY <3>4, <3>5, AdviceIsModest
      <3>7. (req.cfg.bankroll * req.cfg.cap) \div 100 \in Nat
        BY <3>5, ShareOf DEF ConfigType
      <3>8. stake > 0 \/ stake = 0
        BY <3>6, <3>7
      <3> HIDE DEF stake
      <3> QED
        BY <3>2, <3>3, <3>6, <3>8 DEF bet
    <2> QED
      BY <2>1, <2>2, <2>3 DEF MadeFrom
  <1> QED
    BY <1>1, ReqIs, TypedInvariant, PTL

\* What pays has a net edge and is of the safe tiers; nothing else has or is.
LEMMA PayingIs ==
  ASSUME ReqInv, NEW a \in Answer
  PROVE  /\ a.net \in Int /\ SafetyTier(a) \in 0..2
         /\ Pays(a) => a.net > 0 /\ SafetyTier(a) <= 1
         /\ ~Pays(a) => a.net <= 0 /\ SafetyTier(a) = 2
  <1>1. PICK s \in req.rows : MadeFrom(a, s)
    BY AnswerIs
  <1>2. CASE s.strategy = "set_arb" /\ a = AdviseArb(s)
    <2>1. a.signal = s /\ a.net = NetOfSet(s.seen)
      BY <1>2 DEF AdviseArb, Advice
    <2>2. NetOfSet(s.seen) > 0 /\ s.seen \in Sets
      BY <1>2, RowIs
    <2>3. NetOfSet(s.seen) \in Int
      <3>1. s.seen["yes"] \in Asks /\ s.seen["no"] \in Asks
        BY <2>2 DEF Sets, Sides
      <3>2. Asks \subseteq Int /\ Costs \in Int
        BY AdvisorAssumption, BacktestAssumption DEF AdvisorAssumption, BacktestAssumption
      <3>3. ASSUME NEW x \in Int, NEW y \in Int PROVE 100 - (x + y) - Costs \in Int
        BY <3>2
      <3> QED
        BY <3>1, <3>2, <3>3 DEF NetOfSet
    <2>4. SafetyTier(a) = 0 /\ Pays(a)
      BY <1>2, <2>1 DEF SafetyTier, Pays
    <2> QED
      BY <2>1, <2>2, <2>3, <2>4
  <1>3. CASE s.strategy = "favourite_longshot" /\ a = AdviseLongshot(s)
    <2>1. a.signal = s /\ a.net = 0 /\ a.gate = FALSE
      BY <1>3 DEF AdviseLongshot, Advice
    <2> QED
      BY <1>3, <2>1 DEF SafetyTier, Pays
  <1>4. CASE /\ s.strategy \notin {"set_arb", "favourite_longshot"}
             /\ QuotesFor(s) = {} /\ a = Degraded(s)
    <2>1. a.signal = s /\ a.net = 0 /\ a.gate = FALSE
      BY <1>4 DEF Degraded, Advice
    <2> QED
      BY <1>4, <2>1 DEF SafetyTier, Pays
  <1>5. CASE /\ s.strategy \notin {"set_arb", "favourite_longshot"}
             /\ \E q \in QuotesFor(s) : a = AdviseDirectional(s, q, req.cfg, req.frac)
    <2>1. PICK q \in QuotesFor(s) : a = AdviseDirectional(s, q, req.cfg, req.frac)
      BY <1>5
    <2> DEFINE bet == Bet(s, q)
    <2>2. a.signal = s /\ a.net = PLo(bet) - Threshold(bet) /\ a.gate = EdgeGate(bet)
      BY <2>1 DEF AdviseDirectional, Advice
    <2>3. s.strategy = "extreme_correction" /\ s.seen \in Quotes /\ q \in Quotes
          /\ \A r \in QuotesFor(s) : r = q
      BY <1>5, RowIs, OneQuote DEF Priced
    <2>4. /\ PLo(bet) \in Int /\ Threshold(bet) \in Int
          /\ EdgeGate(bet) <=> PLo(bet) > Threshold(bet)
      BY <2>3, BetIs
    <2>5. Pays(a) <=> PLo(bet) > Threshold(bet)
      BY <2>2, <2>3 DEF Pays
    <2>6. SafetyTier(a) = IF EdgeGate(bet) THEN 1 ELSE 2
      BY <2>2, <2>3 DEF SafetyTier
    <2> HIDE DEF bet
    <2> QED
      BY <2>2, <2>4, <2>5, <2>6
  <1> QED
    BY <1>1, <1>2, <1>3, <1>4, <1>5 DEF MadeFrom

\* rank_signals and is_safe, of whatever a request has read: the bets that pay come
\* before all the others, in either order, and are the safe ones.
THEOREM PayingComesFirst == AdvisorSpec => []PayingFirst
  <1>1. ReqInv => PayingFirst
    <2> SUFFICES ASSUME ReqInv PROVE PayingFirst
      OBVIOUS
    <2>1. ASSUME NEW a \in Answer, NEW b \in Answer, Pays(a), ~Pays(b), NEW sort
          PROVE  Precedes(sort, a, b)
      <3>1. /\ a.net \in Int /\ a.net > 0 /\ SafetyTier(a) \in 0..2 /\ SafetyTier(a) <= 1
            /\ b.net \in Int /\ b.net <= 0 /\ SafetyTier(b) = 2
        BY <2>1, PayingIs
      <3> QED
        BY <3>1 DEF Precedes
    <2>2. SafeOnly(Answer) = {a \in Answer : Pays(a)}
      <3>1. \A a \in Answer : SafetyTier(a) <= 1 <=> Pays(a)
        BY PayingIs
      <3> QED
        BY <3>1 DEF SafeOnly
    <2> QED
      BY <2>1, <2>2 DEF PayingFirst
  <1> QED
    BY <1>1, ReqIs, TypedInvariant, PTL

\* A common factor of what is divided and what it is divided by.
LEMMA DivisionCancels ==
  ASSUME NEW x \in Nat, NEW y \in Nat \ {0}, NEW k \in Nat \ {0}
  PROVE  (x * k) \div (y * k) = x \div y
  <1> DEFINE q == x \div y
             r == x % y
  <1>1. q \in Nat /\ r \in 0..(y - 1) /\ x = y * q + r
    OBVIOUS
  <1> HIDE DEF q, r
  <1>2. x * k = (y * k) * q + r * k
    BY <1>1
  <1>3. 0 <= r * k /\ r * k < y * k /\ r * k \in Nat /\ y * k \in Nat \ {0}
    BY <1>1
  <1>4. ASSUME NEW d \in Nat \ {0}, NEW z \in Nat, NEW e \in Nat, e < d, z = d * q + e
        PROVE  z \div d = q
    BY <1>1, <1>4
  <1>5. x * k \in Nat
    OBVIOUS
  <1> QED
    BY <1>2, <1>3, <1>4, <1>5 DEF q

LEMMA SizedAlike ==
  ASSUME NEW q \in Quotes, NEW s, s.seen = q, NEW cfg \in ConfigType, LikeReplay(cfg)
  PROVE  AdvisedStake(Bet(s, q), cfg, cfg.frac) = PositionSize(DirectionalCandidate(q), Bankroll)
  <1> DEFINE bet == Bet(s, q)
             c == DirectionalCandidate(q)
  <1>1. c.p = bet.p /\ c.ask = bet.ask
    BY DEF DirectionalCandidate, Bet, BetSide
  <1>2. bet \in [p: 0..100, ask: Nat]
    BY BetIs
  <1>3. EdgeGate(c) <=> EdgeGate(bet)
    BY <1>1 DEF EdgeGate
  <1>4. /\ cfg.bankroll = Bankroll /\ cfg.cap = Cap /\ cfg.frac \in Nat /\ cfg.frac * FracDivisor = 100
        /\ Bankroll \in Nat /\ FracDivisor \in Nat \ {0}
    BY BacktestAssumption DEF BacktestAssumption, ConfigType, LikeReplay
  <1> HIDE DEF bet, c
  <1>5. CASE EdgeGate(bet)
    <2> DEFINE gain == bet.p - bet.ask
               room == 100 - bet.ask
               f == cfg.frac
    <2>1. gain \in Nat /\ room \in Nat \ {0}
      BY <1>2, <1>5, BacktestAssumption DEF BacktestAssumption, EdgeGate
    <2>2. f \in Nat \ {0}
      BY <1>4
    <2>3. AdvisedStake(bet, cfg, cfg.frac)
          = Least((Bankroll * f * gain) \div (100 * room), (Bankroll * Cap) \div 100)
      BY <1>4, <1>5 DEF AdvisedStake
    <2>4. PositionSize(c, Bankroll)
          = Least((Bankroll * gain) \div (FracDivisor * room), (Bankroll * Cap) \div 100)
      BY <1>1, <1>3, <1>5 DEF PositionSize
    <2>5. f * FracDivisor = 100
      BY <1>4
    <2> HIDE DEF gain, room, f
    <2>6. Bankroll * gain \in Nat /\ FracDivisor * room \in Nat \ {0}
      <3>1. ASSUME NEW x \in Nat \ {0}, NEW y \in Nat \ {0} PROVE x * y \in Nat \ {0}
        OBVIOUS
      <3>2. ASSUME NEW x \in Nat, NEW y \in Nat PROVE x * y \in Nat
        OBVIOUS
      <3> QED
        BY <1>4, <2>1, <3>1, <3>2
    <2>7. Bankroll * f * gain = (Bankroll * gain) * f
      BY <1>4, <2>1, <2>2
    <2>8. 100 * room = (FracDivisor * room) * f
      <3>1. ASSUME NEW x \in Nat, NEW y \in Nat, NEW z \in Nat PROVE (x * y) * z = (y * z) * x
        OBVIOUS
      <3>2. (f * FracDivisor) * room = (FracDivisor * room) * f
        BY <1>4, <2>1, <2>2, <3>1
      <3> QED
        BY <2>5, <3>2
    <2>9. (Bankroll * f * gain) \div (100 * room) = (Bankroll * gain) \div (FracDivisor * room)
      BY <2>2, <2>6, <2>7, <2>8, DivisionCancels
    <2> QED
      BY <2>3, <2>4, <2>9 DEF bet, c
  <1>6. CASE ~EdgeGate(bet)
    BY <1>3, <1>6 DEF AdvisedStake, PositionSize, bet, c
  <1> QED
    BY <1>5, <1>6

\* The live sizing and the replay's are one, as the advisor's doc says: for any
\* quote, bankroll, fraction and cap.
THEOREM SizedLikeReplay == AdvisorSpec => []AgreesWithReplay
  <1>1. ReqInv => AgreesWithReplay
    <2> SUFFICES ASSUME ReqInv, NEW a \in Answer,
                        a.signal.strategy = "extreme_correction",
                        a.signal.seen \in QuotesFor(a.signal),
                        LikeReplay(req.cfg), req.frac = req.cfg.frac
                 PROVE  a.stake = PositionSize(DirectionalCandidate(a.signal.seen), Bankroll)
      BY DEF AgreesWithReplay
    <2>1. PICK s \in req.rows : MadeFrom(a, s)
      BY AnswerIs
    <2>2. a.signal = s
      BY <2>1 DEF MadeFrom, AdviseArb, AdviseLongshot, Degraded, AdviseDirectional, Advice
    <2>3. PICK q \in QuotesFor(s) : a = AdviseDirectional(s, q, req.cfg, req.frac)
      BY <2>1, <2>2 DEF MadeFrom
    <2>4. q = s.seen /\ q \in Quotes
      BY <2>2, OneQuote
    <2>5. a.stake = AdvisedStake(Bet(s, q), req.cfg, req.cfg.frac)
      BY <2>3 DEF AdviseDirectional, Advice
    <2>6. req.cfg \in ConfigType
      BY DEF ReqInv, RequestTyped
    <2> QED
      BY <2>2, <2>4, <2>5, <2>6, SizedAlike
  <1> QED
    BY <1>1, ReqIs, TypedInvariant, PTL
=============================================================================
