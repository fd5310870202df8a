--------------------------- MODULE MonitorProofs ----------------------------
(***************************************************************************)
(* For any kinds of breach, cooldown and faults: what the deduper keeps in *)
(* mind agrees with what was published or lost, so that silence has its    *)
(* reason and no alert is repeated.  And for any quotes, markets and       *)
(* costs: a replay keeps its books, and does not look ahead.               *)
(*                                                                         *)
(* simulate and the sums of stakes are recursions that have one solution   *)
(* (FoldLemmas, ReplayExists); what holds after every event does because   *)
(* no event is the first after which it fails.                             *)
(***************************************************************************)
EXTENDS Monitor, FoldLemmas, SequenceTheorems, TLAPS

-----------------------------------------------------------------------------
(* The loop's own variables.                                               *)

\* What the deduper remembers of a kind is about to be published, was published
\* in this breach no later, or was lost no later.
Noted(k) ==
    last[k] < Cooldown =>
       \/ k \in batch
       \/ aired[k] <= last[k] /\ ~quiet[k]
       \/ lost[k] <= last[k]

\* What was published in this breach the deduper still remembers.
Remembered(k) ==
    aired[k] < Cooldown /\ ~quiet[k] => last[k] <= aired[k]

IInv ==
    /\ LoopTypes
    /\ \A k \in Kinds : Noted(k)
    /\ \A k \in Kinds : Remembered(k)

LEMMA InitIInv == Init => IInv
  BY MonitorAssumption
     DEF MonitorAssumption, Init, IInv, LoopTypes, Ages, Noted, Remembered

\* Ages grow together.
LEMMA OlderAges ==
  ASSUME NEW ages \in Ages
  PROVE  /\ Older(ages) \in Ages
         /\ \A k \in Kinds : Older(ages)[k] = IF ages[k] < Cooldown THEN ages[k] + 1 ELSE Cooldown
  BY MonitorAssumption DEF MonitorAssumption, Ages, Older, Least

LEMMA TickIInv == IInv /\ Tick => IInv'
  <1> SUFFICES ASSUME IInv, Tick PROVE IInv'
    OBVIOUS
  <1> USE DEF IInv
  <1>1. LoopTypes'
    BY OlderAges DEF Tick, LoopTypes
  <1>2. ASSUME NEW k \in Kinds PROVE Noted(k)' /\ Remembered(k)'
    <2>1. last[k] \in 0..Cooldown /\ aired[k] \in 0..Cooldown /\ lost[k] \in 0..Cooldown
      BY DEF LoopTypes, Ages
    <2>2. /\ last'[k] = IF last[k] < Cooldown THEN last[k] + 1 ELSE Cooldown
          /\ aired'[k] = IF aired[k] < Cooldown THEN aired[k] + 1 ELSE Cooldown
          /\ lost'[k] = IF lost[k] < Cooldown THEN lost[k] + 1 ELSE Cooldown
      BY OlderAges DEF Tick, LoopTypes
    <2>3. batch' = batch /\ quiet' = quiet
      BY DEF Tick
    <2>4. Noted(k) /\ Remembered(k)
      OBVIOUS
    <2> QED
      BY <2>1, <2>2, <2>3, <2>4, MonitorAssumption DEF MonitorAssumption, Noted, Remembered
  <1> QED
    BY <1>1, <1>2

\* The deduper: what it drops it remembers from before.
LEMMA FilterIInv ==
  ASSUME LoopTypes, NEW detected \in SUBSET Kinds, Filter(detected)
  PROVE  /\ batch' \subseteq detected
         /\ last' \in Ages
         /\ \A k \in Kinds : k \in detected \ batch' => last[k] < Cooldown /\ last'[k] = last[k]
         /\ \A k \in batch' : last[k] = Cooldown
         /\ \A k \in Kinds \ detected : last'[k] = Cooldown
  BY MonitorAssumption DEF MonitorAssumption, LoopTypes, Ages, Filter

LEMMA JudgeIInv == IInv /\ Judge => IInv'
  <1> SUFFICES ASSUME IInv, Judge PROVE IInv'
    OBVIOUS
  <1> USE DEF IInv
  <1>1. found' \in SUBSET Kinds
    BY DEF Judge, LoopTypes, Kinds
  <1>2. Filter(found')
    BY DEF Judge
  <1>3. LoopTypes'
    BY <1>1, <1>2, FilterIInv DEF Judge, LoopTypes, EndCycle
  <1>4. ASSUME NEW k \in Kinds PROVE Noted(k)' /\ Remembered(k)'
    <2>1. batch = {} /\ aired' = aired /\ lost' = lost
      BY DEF Judge, LoopTypes
    <2>2. quiet'[k] = (quiet[k] \/ k \notin found')
      BY DEF Judge
    <2>3. Noted(k) /\ Remembered(k) /\ last[k] \in 0..Cooldown /\ aired[k] \in 0..Cooldown
      BY DEF LoopTypes, Ages
    <2>4. CASE k \notin found'
      <3>1. last'[k] = Cooldown
        BY <1>1, <1>2, <2>4, FilterIInv
      <3>2. quiet'[k]
        BY <2>2, <2>4
      <3>3. ~(Cooldown < Cooldown)
        BY MonitorAssumption DEF MonitorAssumption
      <3> QED
        BY <3>1, <3>2, <3>3 DEF Noted, Remembered
    <2>5. CASE k \in batch'
      <3>1. last[k] = Cooldown
        BY <1>1, <1>2, <2>5, FilterIInv
      <3>2. ~(aired[k] < Cooldown /\ ~quiet[k])
        BY <2>3, <3>1, MonitorAssumption DEF MonitorAssumption, Remembered
      <3>3. Remembered(k)'
        BY <2>1, <2>2, <3>2 DEF Remembered
      <3> QED
        BY <2>5, <3>3 DEF Noted
    <2>6. CASE k \in found' \ batch'
      <3>1. last'[k] = last[k]
        BY <1>1, <1>2, <2>6, FilterIInv
      <3> QED
        BY <2>1, <2>2, <2>3, <2>6, <3>1 DEF Noted, Remembered
    <2> QED
      BY <2>4, <2>5, <2>6
  <1> QED
    BY <1>3, <1>4

LEMMA PublishIInv == ASSUME IInv, NEW k \in Kinds, Publish(k) PROVE IInv'
  <1> USE DEF IInv
  <1>1. LoopTypes'
    BY DEF Publish, Turn, LoopTypes, Ages, EndCycle
  <1>2. ASSUME NEW j \in Kinds PROVE Noted(j)' /\ Remembered(j)'
    <2>1. Noted(j) /\ Remembered(j) /\ last[j] \in 0..Cooldown
      BY DEF LoopTypes, Ages
    <2>2. CASE j = k
      BY <2>1, <2>2, MonitorAssumption
         DEF MonitorAssumption, Publish, LoopTypes, Ages, Noted, Remembered
    <2>3. CASE j # k
      BY <2>1, <2>3 DEF Publish, LoopTypes, Ages, Noted, Remembered
    <2> QED
      BY <2>2, <2>3
  <1> QED
    BY <1>1, <1>2

LEMMA FailCycleIInv == IInv /\ FailCycle => IInv'
  <1> SUFFICES ASSUME IInv, FailCycle PROVE IInv'
    OBVIOUS
  <1> USE DEF IInv
  <1>1. LoopTypes'
    <2>1. faults' \in 0..MaxFaults
      BY MonitorAssumption DEF MonitorAssumption, FailCycle, Fault, LoopTypes
    <2>2. lost' \in Ages
      BY DEF FailCycle, LoopTypes, Ages
    <2> QED
      BY <2>1, <2>2 DEF FailCycle, EndCycle, LoopTypes
  <1>2. ASSUME NEW k \in Kinds PROVE Noted(k)' /\ Remembered(k)'
    <2>1. Noted(k) /\ Remembered(k) /\ last[k] \in 0..Cooldown
      BY DEF LoopTypes, Ages
    <2> QED
      BY <2>1, MonitorAssumption DEF MonitorAssumption, FailCycle, Noted, Remembered
  <1> QED
    BY <1>1, <1>2

LEMMA NextIInv == IInv /\ [Next]_vars => IInv'
  <1> SUFFICES ASSUME IInv, [Next]_vars PROVE IInv'
    OBVIOUS
  <1>1. CASE \/ \E q \in Quotes : StoreQuote(q)
             \/ \E m \in Markets : Relist(m)
             \/ \E r \in Records : JournalRecord(r)
             \/ UNCHANGED vars
    BY <1>1 DEF StoreQuote, Relist, JournalRecord, vars, history, IInv, LoopTypes, Noted, Remembered
  <1>2. CASE Tick
    BY <1>2, TickIInv
  <1>3. CASE Replay
    <2>1. LoopTypes'
      BY <1>3 DEF Replay, IInv, LoopTypes, history, Kinds
    <2> QED
      BY <1>3, <2>1 DEF Replay, history, IInv, Noted, Remembered
  <1>4. CASE Judge
    BY <1>4, JudgeIInv
  <1>5. CASE \E k \in Kinds : Publish(k)
    BY <1>5, PublishIInv
  <1>6. CASE FailCycle
    BY <1>6, FailCycleIInv
  <1>7. CASE Restart
    <2>1. LoopTypes'
      BY <1>7, MonitorAssumption DEF MonitorAssumption, Restart, Fault, IInv, LoopTypes, Ages
    <2> QED
      BY <1>7, <2>1, MonitorAssumption DEF MonitorAssumption, Restart, IInv, Noted, Remembered
  <1> QED
    BY <1>1, <1>2, <1>3, <1>4, <1>5, <1>6, <1>7 DEF Next, Cycle

\* The loop keeps its variables in shape (run_monitor), and the deduper's memory
\* agrees with what became of the alerts.
THEOREM MonitorInvariant == Spec => []IInv
  BY InitIInv, NextIInv, PTL DEF Spec

-----------------------------------------------------------------------------
(* What an operator may conclude from silence.                             *)

\* Only the judgement ends the drift step without a fault.
LEMMA JudgedByJudge ==
  ASSUME IInv, [Next]_vars, Judged
  PROVE  Judge
  <1>1. faults \in Nat
    BY MonitorAssumption DEF MonitorAssumption, IInv, LoopTypes
  <1>2. ~FailCycle /\ ~Restart
    BY <1>1 DEF Judged, FailCycle, Restart, Fault
  <1>3. /\ \A q \in Quotes : ~StoreQuote(q)
        /\ \A m \in Markets : ~Relist(m)
        /\ \A r \in Records : ~JournalRecord(r)
        /\ ~Tick /\ ~Replay /\ \A k \in Kinds : ~Publish(k)
        /\ ~UNCHANGED vars
    BY DEF Judged, StoreQuote, Relist, JournalRecord, Tick, Replay, Publish, vars
  <1> QED
    BY <1>2, <1>3 DEF Next, Cycle

LEMMA JudgeExplains ==
  ASSUME IInv, Judge
  PROVE  /\ \A k \in batch' : aired[k] = Cooldown \/ quiet[k]
         /\ \A k \in found' \ batch' : (aired[k] < Cooldown /\ ~quiet[k]) \/ lost[k] < Cooldown
  <1> USE DEF IInv
  <1>1. found' \in SUBSET Kinds /\ Filter(found') /\ batch = {}
    BY DEF Judge, LoopTypes, Kinds
  <1>2. ASSUME NEW k \in Kinds
        PROVE  /\ last[k] \in 0..Cooldown /\ aired[k] \in 0..Cooldown /\ lost[k] \in 0..Cooldown
               /\ Noted(k) /\ Remembered(k)
    BY DEF LoopTypes, Ages
  <1>3. ASSUME NEW k \in batch' PROVE aired[k] = Cooldown \/ quiet[k]
    <2>1. k \in Kinds /\ last[k] = Cooldown
      BY <1>1, FilterIInv
    <2> QED
      BY <1>2, <2>1, MonitorAssumption DEF MonitorAssumption, Remembered
  <1>4. ASSUME NEW k \in found' \ batch'
        PROVE  (aired[k] < Cooldown /\ ~quiet[k]) \/ lost[k] < Cooldown
    <2>1. k \in Kinds /\ last[k] < Cooldown
      BY <1>1, FilterIInv
    <2> QED
      BY <1>1, <1>2, <2>1, MonitorAssumption DEF MonitorAssumption, Noted
  <1> QED
    BY <1>3, <1>4

\* AlertDeduper.filter, whatever cycles fail: an alert published in this breach
\* is not emitted again within the cooldown.
THEOREM NoAlertRepeated == Spec => AtMostOncePerCooldown
  <1>1. IInv /\ [Next]_vars
        => [Judged => \A k \in batch' : aired[k] = Cooldown \/ quiet[k]]_vars
    BY JudgedByJudge, JudgeExplains
  <1> QED
    BY <1>1, MonitorInvariant, PTL DEF Spec, AtMostOncePerCooldown

\* Silence about a breach that a cycle has found always has its reason: the alert
\* is out, or publish_alert has failed.
THEOREM NoSilentBreach == Spec => SilenceIsExplained
  <1>1. IInv /\ [Next]_vars
        => [Judged => \A k \in found' \ batch' :
                         (aired[k] < Cooldown /\ ~quiet[k]) \/ lost[k] < Cooldown]_vars
    BY JudgedByJudge, JudgeExplains
  <1> QED
    BY <1>1, MonitorInvariant, PTL DEF Spec, SilenceIsExplained

-----------------------------------------------------------------------------
(* A single entry of a replay.                                             *)

\* The bets that build_candidates makes, of either kind.
Directional ==
    [market: Markets, time: Int, kind: {"directional"}, side: {0, 1}, ask: Nat, p: 0..100]
Arb == [market: Markets, time: Int, kind: {"arb"}, edge: Int, capital: Nat]

LEMMA DivisionInNat ==
  ASSUME NEW x \in Nat, NEW y \in Nat \ {0}
  PROVE  x \div y \in Nat
  OBVIOUS

\* A share of at most all.
LEMMA ShareOf ==
  ASSUME NEW x \in Nat, NEW share \in 0..100
  PROVE  /\ (x * share) \div 100 \in 0..x
         /\ ((x * share) \div 100) * 100 <= x * share
  <1>1. x * share \in Nat /\ x * share <= x * 100
    OBVIOUS
  <1>2. ASSUME NEW z \in Nat, z <= x * 100
        PROVE  z \div 100 \in 0..x /\ (z \div 100) * 100 <= z
    BY <1>2
  <1> QED
    BY <1>1, <1>2

\* The edge gate leaves a price below one and a probability above it.
LEMMA SizeInNat ==
  ASSUME NEW c \in Directional, NEW cash \in Nat
  PROVE  PositionSize(c, cash) \in Nat
  <1>1. CASE EdgeGate(c)
    <2>1. c.p - c.ask \in Nat /\ 100 - c.ask \in Nat \ {0}
      BY <1>1, BacktestAssumption DEF BacktestAssumption, EdgeGate, Directional
    <2>2. cash * (c.p - c.ask) \in Nat
      BY <2>1
    <2>3. FracDivisor * (100 - c.ask) \in Nat \ {0}
      <3>1. ASSUME NEW x \in Nat \ {0}, NEW y \in Nat \ {0} PROVE x * y \in Nat \ {0}
        OBVIOUS
      <3> QED
        BY <2>1, <3>1, BacktestAssumption DEF BacktestAssumption
    <2>4. (cash * Cap) \div 100 \in Nat
      BY ShareOf, BacktestAssumption DEF BacktestAssumption
    <2> QED
      BY <1>1, <2>2, <2>3, <2>4, DivisionInNat DEF PositionSize, Least
  <1>2. CASE ~EdgeGate(c)
    BY <1>2 DEF PositionSize
  <1> QED
    BY <1>1, <1>2

\* What simulate commits to an entry is there, and leaves the theme within its
\* share of the cash (_entry_stake).
THEOREM EntryWithinMeans ==
  ASSUME NEW c \in Directional \cup Arb, NEW cash \in Nat,
         NEW exposure \in [Themes -> Nat]
  PROVE  LET stake == EntryStake(c, cash, exposure)
         IN /\ stake \in 0..cash
            /\ stake > 0 => (exposure[Tag[c.market]] + stake) * 100 <= cash * CorrCap
  <1> DEFINE share == (cash * CorrCap) \div 100
             open == exposure[Tag[c.market]]
             stake == EntryStake(c, cash, exposure)
  <1>1. share \in 0..cash /\ share * 100 <= cash * CorrCap /\ cash * CorrCap \in Nat
    BY ShareOf, BacktestAssumption DEF BacktestAssumption
  <1>2. open \in Nat
    BY DEF Themes, Directional, Arb
  <1>3. Allowed(c, cash, exposure) = IF 0 <= share - open THEN share - open ELSE 0
    BY <1>1, <1>2 DEF Allowed, Most
  <1>4. stake \in Nat /\ stake <= Allowed(c, cash, exposure)
    <2>1. CASE c \in Directional
      <3>1. c.kind # "arb"
        BY <2>1 DEF Directional
      <3>2. PositionSize(c, cash) \in Nat
        BY <2>1, SizeInNat
      <3> HIDE DEF share, open
      <3> QED
        BY <1>1, <1>2, <1>3, <3>1, <3>2 DEF EntryStake, Least
    <2>2. CASE c \in Arb
      <3>1. c.kind = "arb" /\ c.capital \in Nat /\ c.edge \in Int
        BY <2>2 DEF Arb
      <3> HIDE DEF share, open
      <3> QED
        BY <1>1, <1>2, <1>3, <3>1 DEF EntryStake, Least
    <2> QED
      BY <2>1, <2>2
  <1> HIDE DEF share, open, stake
  <1>5. stake \in 0..cash
    BY <1>1, <1>2, <1>3, <1>4
  <1>6. stake > 0 => stake + open <= share
    BY <1>1, <1>2, <1>3, <1>4
  <1>7. stake > 0 => (open + stake) * 100 <= cash * CorrCap
    BY <1>1, <1>2, <1>4, <1>6
  <1> QED
    BY <1>5, <1>7 DEF stake, open

-----------------------------------------------------------------------------
(* The events of a replay.                                                 *)

\* What a replay can be given: bets on markets that resolve later, one of a kind
\* on each, and none for nothing.
Playable(bets) ==
    /\ IsFiniteSet(bets)
    /\ bets \subseteq Directional \cup Arb
    /\ \A c \in bets : c.market \in DOMAIN ResolveTime /\ c.time < ResolveTime[c.market]
    /\ \A c, d \in bets : c.market = d.market /\ c.kind = d.kind => c = d
    /\ \A c \in bets : c.kind = "directional" => c.ask + Costs > 0

EventsOf(bets) == {Entry(c) : c \in bets} \cup {Resolution(c) : c \in bets}

LEMMA EventIs ==
  ASSUME NEW bets, Playable(bets), NEW e \in EventsOf(bets)
  PROVE  /\ e.bet \in bets /\ e.at \in Int /\ e.phase \in {0, 1}
         /\ e.bet.market \in Markets /\ e.bet.time \in Int /\ e.bet.kind \in {"directional", "arb"}
         /\ e.phase = 1 => e = Entry(e.bet) /\ e.at = e.bet.time
         /\ e.phase = 0 => e = Resolution(e.bet) /\ e.at = ResolveTime[e.bet.market]
  <1>1. PICK c \in bets : e = Entry(c) \/ e = Resolution(c)
    BY DEF EventsOf
  <1>2. /\ c \in Directional \cup Arb /\ c.market \in DOMAIN ResolveTime
    BY DEF Playable
  <1>3. /\ c.market \in Markets /\ c.time \in Int /\ c.kind \in {"directional", "arb"}
        /\ ResolveTime[c.market] \in Int
    BY <1>2, BacktestAssumption DEF BacktestAssumption, Directional, Arb
  <1> QED
    BY <1>1, <1>3 DEF Entry, Resolution

\* The order of two events (Before) is strict and total.
LEMMA BeforeIsStrict ==
  ASSUME NEW bets, Playable(bets), NEW e \in EventsOf(bets)
  PROVE  ~Before(e, e)
  BY EventIs, BacktestAssumption DEF BacktestAssumption, Before, Listed

LEMMA BeforeIsTotal ==
  ASSUME NEW bets, Playable(bets), NEW e \in EventsOf(bets), NEW f \in EventsOf(bets), e # f
  PROVE  Before(e, f) \/ Before(f, e)
  <1> DEFINE c == e.bet
             d == f.bet
  <1>1. /\ c \in bets /\ e.at \in Int /\ e.phase \in {0, 1} /\ c.market \in Markets
        /\ c.time \in Int /\ c.kind \in {"directional", "arb"}
        /\ e.phase = 1 => e = Entry(c)
        /\ e.phase = 0 => e = Resolution(c)
    BY EventIs
  <1>2. /\ d \in bets /\ f.at \in Int /\ f.phase \in {0, 1} /\ d.market \in Markets
        /\ d.time \in Int /\ d.kind \in {"directional", "arb"}
        /\ f.phase = 1 => f = Entry(d)
        /\ f.phase = 0 => f = Resolution(d)
    BY EventIs
  <1> HIDE DEF c, d
  <1>3. CASE e.at # f.at \/ e.phase # f.phase
    BY <1>1, <1>2, <1>3 DEF Before
  <1>4. CASE e.at = f.at /\ e.phase = f.phase
    <2>1. c # d
      BY <1>1, <1>2, <1>4
    <2>2. c.market = d.market => c.kind # d.kind
      BY <1>1, <1>2, <2>1 DEF Playable
    <2>3. Order[c.market] \in Int /\ Order[d.market] \in Int
          /\ (Order[c.market] = Order[d.market] => c.market = d.market)
      BY <1>1, <1>2, BacktestAssumption DEF BacktestAssumption
    <2>4. Listed(c, d) \/ Listed(d, c)
      BY <1>1, <1>2, <2>2, <2>3 DEF Listed
    <2> QED
      BY <1>4, <2>4 DEF Before, c, d
  <1> QED
    BY <1>3, <1>4

LEMMA BeforeIsTransitive ==
  ASSUME NEW bets, Playable(bets),
         NEW e \in EventsOf(bets), NEW f \in EventsOf(bets), NEW g \in EventsOf(bets),
         Before(e, f), Before(f, g)
  PROVE  Before(e, g)
  <1> DEFINE b == e.bet
             c == f.bet
             d == g.bet
  <1>1. /\ e.at \in Int /\ e.phase \in {0, 1} /\ b.market \in Markets
        /\ b.time \in Int /\ b.kind \in {"directional", "arb"}
    BY EventIs
  <1>2. /\ f.at \in Int /\ f.phase \in {0, 1} /\ c.market \in Markets
        /\ c.time \in Int /\ c.kind \in {"directional", "arb"}
    BY EventIs
  <1>3. /\ g.at \in Int /\ g.phase \in {0, 1} /\ d.market \in Markets
        /\ d.time \in Int /\ d.kind \in {"directional", "arb"}
    BY EventIs
  <1>4. /\ Order[b.market] \in Int /\ Order[c.market] \in Int /\ Order[d.market] \in Int
    BY <1>1, <1>2, <1>3, BacktestAssumption DEF BacktestAssumption
  <1>5. Listed(b, c) /\ Listed(c, d) => Listed(b, d)
    BY <1>1, <1>2, <1>3, <1>4 DEF Listed
  <1> HIDE DEF b, c, d
  <1>6. Before(e, f)
          <=> \/ e.at < f.at
              \/ e.at = f.at /\ e.phase < f.phase
              \/ e.at = f.at /\ e.phase = f.phase /\ Listed(b, c)
    BY DEF Before, b, c
  <1>7. Before(f, g)
          <=> \/ f.at < g.at
              \/ f.at = g.at /\ f.phase < g.phase
              \/ f.at = g.at /\ f.phase = g.phase /\ Listed(c, d)
    BY DEF Before, c, d
  <1>8. Before(e, g)
          <=> \/ e.at < g.at
              \/ e.at = g.at /\ e.phase < g.phase
              \/ e.at = g.at /\ e.phase = g.phase /\ Listed(b, d)
    BY DEF Before, b, d
  <1> QED
    BY <1>1, <1>2, <1>3, <1>5, <1>6, <1>7, <1>8

\* The events are twice as many as the bets.
LEMMA EventsCount ==
  ASSUME NEW bets, Playable(bets)
  PROVE  /\ IsFiniteSet(EventsOf(bets))
         /\ Cardinality(EventsOf(bets)) = 2 * Cardinality(bets)
         /\ Cardinality(bets) \in Nat
  <1> DEFINE entries == {Entry(c) : c \in bets}
             resolutions == {Resolution(c) : c \in bets}
             enter == [c \in bets |-> Entry(c)]
             resolve == [c \in bets |-> Resolution(c)]
  <1>1. IsFiniteSet(bets) /\ Cardinality(bets) \in Nat
    BY FS_CardinalityType DEF Playable
  <1>2. IsFiniteSet(entries) /\ Cardinality(entries) = Cardinality(bets)
    <2>1. enter \in [bets -> entries] /\ \A e \in entries : \E c \in bets : enter[c] = e
      OBVIOUS
    <2>2. \A c, d \in bets : enter[c] = enter[d] => c = d
      BY DEF Entry
    <2> HIDE DEF enter, entries
    <2>3. enter \in Surjection(bets, entries) /\ enter \in Injection(bets, entries)
      BY <2>1, <2>2 DEF Surjection, Injection, IsInjective
    <2> QED
      BY <1>1, <2>3, FS_Surjection
  <1>3. IsFiniteSet(resolutions) /\ Cardinality(resolutions) = Cardinality(bets)
    <2>1. resolve \in [bets -> resolutions] /\ \A e \in resolutions : \E c \in bets : resolve[c] = e
      OBVIOUS
    <2>2. \A c, d \in bets : resolve[c] = resolve[d] => c = d
      BY DEF Resolution
    <2> HIDE DEF resolve, resolutions
    <2>3. resolve \in Surjection(bets, resolutions) /\ resolve \in Injection(bets, resolutions)
      BY <2>1, <2>2 DEF Surjection, Injection, IsInjective
    <2> QED
      BY <1>1, <2>3, FS_Surjection
  <1>4. entries \cap resolutions = {}
    BY DEF Entry, Resolution
  <1>5. EventsOf(bets) = entries \cup resolutions
    BY DEF EventsOf
  <1> HIDE DEF entries, resolutions
  <1>6. Cardinality(entries \cap resolutions) = 0
    BY <1>4, FS_EmptySet
  <1>7. IsFiniteSet(EventsOf(bets))
        /\ Cardinality(EventsOf(bets)) = Cardinality(bets) + Cardinality(bets) - 0
    BY <1>2, <1>3, <1>5, <1>6, FS_Union
  <1> QED
    BY <1>1, <1>7

\* How many events come before one, and so its place.
Rank(e, bets) == Cardinality({f \in EventsOf(bets) : Before(f, e)})

LEMMA RankIs ==
  ASSUME NEW bets, Playable(bets), NEW e \in EventsOf(bets)
  PROVE  /\ Rank(e, bets) \in 0..(Cardinality(EventsOf(bets)) - 1)
         /\ \A f \in EventsOf(bets) : Before(e, f) => Rank(e, bets) < Rank(f, bets)
  <1> DEFINE all == EventsOf(bets)
             ahead(f) == {g \in all : Before(g, f)}
  <1>1. IsFiniteSet(all) /\ Cardinality(all) \in Nat
    BY EventsCount, FS_CardinalityType
  <1>2. \A f \in all : IsFiniteSet(ahead(f)) /\ Cardinality(ahead(f)) \in Nat
    BY <1>1, FS_Subset, FS_CardinalityType
  <1>3. \A f \in all : Rank(f, bets) = Cardinality(ahead(f))
    BY DEF Rank
  <1>4. ~Before(e, e)
    BY BeforeIsStrict
  <1> HIDE DEF all
  <1>5. Cardinality(ahead(e)) <= Cardinality(all) - 1
    <2>1. ahead(e) \in SUBSET (all \ {e})
      BY <1>4
    <2>2. IsFiniteSet(all \ {e}) /\ Cardinality(all \ {e}) = Cardinality(all) - 1
      BY <1>1, FS_RemoveElement DEF all
    <2> HIDE DEF ahead
    <2> QED
      BY <2>1, <2>2, FS_Subset
  <1>6. ASSUME NEW f \in all, Before(e, f)
        PROVE  Cardinality(ahead(e)) < Cardinality(ahead(f))
    <2>1. \A g \in all : Before(g, e) => Before(g, f)
      BY <1>6, BeforeIsTransitive DEF all
    <2>2. ahead(e) \cup {e} \in SUBSET ahead(f) /\ e \notin ahead(e)
      BY <1>4, <1>6, <2>1 DEF all
    <2>3. IsFiniteSet(ahead(e)) /\ Cardinality(ahead(e)) \in Nat
          /\ IsFiniteSet(ahead(f)) /\ Cardinality(ahead(f)) \in Nat
      BY <1>2 DEF all
    <2> HIDE DEF ahead
    <2>4. Cardinality(ahead(e) \cup {e}) = Cardinality(ahead(e)) + 1
      BY <2>2, <2>3, FS_AddElement
    <2>5. Cardinality(ahead(e) \cup {e}) <= Cardinality(ahead(f))
      BY <2>2, <2>3, FS_Subset
    <2> QED
      BY <2>3, <2>4, <2>5
  <1>7. Cardinality(ahead(e)) \in Nat /\ Rank(e, bets) = Cardinality(ahead(e))
    BY <1>2, <1>3 DEF all
  <1>8. ASSUME NEW f \in all, Before(e, f) PROVE Rank(e, bets) < Rank(f, bets)
    <2> HIDE DEF ahead
    <2> QED
      BY <1>3, <1>6, <1>7, <1>8
  <1>9. Rank(e, bets) \in 0..(Cardinality(all) - 1)
    <2> HIDE DEF ahead
    <2> QED
      BY <1>1, <1>5, <1>7
  <1> QED
    BY <1>8, <1>9 DEF all

\* Two events never have one place.
LEMMA RankTells ==
  ASSUME NEW bets, Playable(bets), NEW e \in EventsOf(bets), NEW f \in EventsOf(bets),
         Rank(e, bets) = Rank(f, bets)
  PROVE  e = f
  <1>1. Rank(e, bets) \in Int /\ Rank(f, bets) \in Int
    BY RankIs
  <1>2. ~Before(e, f) /\ ~Before(f, e)
    BY <1>1, RankIs
  <1> QED
    BY <1>2, BeforeIsTotal

LEMMA RankOnto ==
  ASSUME NEW bets, Playable(bets), NEW n \in 0..(Cardinality(EventsOf(bets)) - 1)
  PROVE  \E e \in EventsOf(bets) : Rank(e, bets) = n
  <1> DEFINE all == EventsOf(bets)
             N == Cardinality(all)
             rank == [e \in all |-> Rank(e, bets)]
  <1>1. IsFiniteSet(all) /\ N \in Nat
    BY EventsCount, FS_CardinalityType
  <1>2. rank \in [all -> 0..(N - 1)]
    BY RankIs
  <1>3. \A e, f \in all : rank[e] = rank[f] => e = f
    BY RankTells
  <1> HIDE DEF rank, all
  <1>4. rank \in Injection(all, 0..(N - 1))
    BY <1>2, <1>3 DEF Injection, IsInjective
  <1>5. N # 0
    BY <1>1 DEF all
  <1>6. IsFiniteSet(0..(N - 1)) /\ Cardinality(0..(N - 1)) = N
    <2> HIDE DEF N
    <2>1. N - 1 \in Int /\ 0 \in Int /\ ~ (0 > N - 1) /\ (N - 1) - 0 + 1 = N
      BY <1>1, <1>5
    <2> QED
      BY <2>1, FS_Interval
  <1>7. rank \in Surjection(all, 0..(N - 1))
    BY <1>4, <1>6, FS_Injection
  <1>8. \E e \in all : rank[e] = n
    BY <1>7 DEF Surjection, all
  <1> QED
    BY <1>8 DEF rank, all

\* The events of a replay in their places: each once, in the order of Before.
IsSchedule(events, bets) ==
    /\ events \in [1..(2 * Cardinality(bets)) -> EventsOf(bets)]
    /\ \A i \in 1..(2 * Cardinality(bets)) : Rank(events[i], bets) = i - 1
    /\ \A e \in EventsOf(bets) :
          Rank(e, bets) + 1 \in 1..(2 * Cardinality(bets)) /\ events[Rank(e, bets) + 1] = e
    /\ \A i, j \in 1..(2 * Cardinality(bets)) : i < j => Before(events[i], events[j])

LEMMA EventsAreScheduled ==
  ASSUME NEW bets, Playable(bets)
  PROVE  /\ IsSchedule(Events(bets), bets)
         /\ Len(Events(bets)) = 2 * Cardinality(bets)
  <1> DEFINE all == EventsOf(bets)
             N == 2 * Cardinality(bets)
             pick(n) == CHOOSE e \in all : Rank(e, bets) = n - 1
  <1>1. N \in Nat /\ Cardinality(all) = N
    BY EventsCount
  <1>2. Events(bets) = [n \in 1..N |-> pick(n)]
    BY <1>1, Zenon DEF Events, Rank, EventsOf
  <1> HIDE DEF N
  <1>3. \A n \in 1..N : pick(n) \in all /\ Rank(pick(n), bets) = n - 1
    <2> TAKE n \in 1..N
    <2>1. n - 1 \in 0..(Cardinality(all) - 1)
      BY <1>1
    <2>2. \E e \in all : Rank(e, bets) = n - 1
      BY <2>1, RankOnto
    <2> QED
      BY <2>2
  <1> HIDE DEF pick, all
  <1> DEFINE events == Events(bets)
  <1>4. events \in [1..N -> all] /\ \A n \in 1..N : Rank(events[n], bets) = n - 1
    BY <1>2, <1>3
  <1>5. Len(events) = N
    BY <1>1, <1>2
  <1> HIDE DEF events
  <1>6. \A e \in all : Rank(e, bets) + 1 \in 1..N /\ events[Rank(e, bets) + 1] = e
    <2> TAKE e \in all
    <2>1. Rank(e, bets) \in 0..(N - 1)
      BY <1>1, RankIs DEF all
    <2> PICK r \in 0..(N - 1) : r = Rank(e, bets)
      BY <2>1
    <2>2. r + 1 \in 1..N /\ (r + 1) - 1 = r
      BY <1>1
    <2>3. events[r + 1] \in all /\ Rank(events[r + 1], bets) = Rank(e, bets)
      BY <1>4, <2>2
    <2> QED
      BY <2>2, <2>3, RankTells DEF all
  <1>7. \A i, j \in 1..N : i < j => Before(events[i], events[j])
    <2> SUFFICES ASSUME NEW i \in 1..N, NEW j \in 1..N, i < j
                 PROVE  Before(events[i], events[j])
      OBVIOUS
    <2>1. /\ events[i] \in all /\ events[j] \in all
          /\ Rank(events[i], bets) = i - 1 /\ Rank(events[j], bets) = j - 1
      BY <1>4
    <2>2. events[i] # events[j] /\ ~ (Rank(events[j], bets) < Rank(events[i], bets))
      BY <2>1
    <2> QED
      BY <2>1, <2>2, BeforeIsTotal, RankIs DEF all
  <1> QED
    BY <1>4, <1>5, <1>6, <1>7 DEF IsSchedule, N, all, events

\* So events come in the order of their times.
LEMMA TimesAscend ==
  ASSUME NEW bets, Playable(bets), NEW events, IsSchedule(events, bets),
         NEW i \in 1..(2 * Cardinality(bets)), NEW j \in 1..(2 * Cardinality(bets)), i <= j
  PROVE  events[i].at <= events[j].at
  <1>1. events[i] \in EventsOf(bets) /\ events[j] \in EventsOf(bets)
    BY DEF IsSchedule
  <1>2. events[i].at \in Int /\ events[j].at \in Int
    BY <1>1, EventIs
  <1>3. i = j \/ Before(events[i], events[j])
    BY EventsCount DEF IsSchedule
  <1> QED
    BY <1>2, <1>3 DEF Before

-----------------------------------------------------------------------------
(* The state of a replay after each of its events.                         *)

IsReplay(sims, events, N, results) ==
    sims = [n \in 0..N |-> IF n = 0 THEN Opening ELSE Advance(sims[n - 1], events[n], results)]

\* The recursion of simulate has a solution, of any length.
LEMMA ReplayExists ==
  ASSUME NEW events, NEW N \in Nat, NEW results
  PROVE  \E sims : IsReplay(sims, events, N, results)
  <1> DEFINE Fails == {n \in Nat : ~ \E sims : IsReplay(sims, events, n, results)}
  <1>1. \E sims : IsReplay(sims, events, 0, results)
    <2> DEFINE sims == [n \in 0..0 |-> Opening]
    <2>1. sims = [n \in 0..0 |-> IF n = 0 THEN Opening ELSE Advance(sims[n - 1], events[n], results)]
      OBVIOUS
    <2> QED
      BY <2>1 DEF IsReplay
  <1>2. ASSUME NEW k \in Nat, \E sims : IsReplay(sims, events, k, results)
        PROVE  \E sims : IsReplay(sims, events, k + 1, results)
    <2> PICK old : IsReplay(old, events, k, results)
      BY <1>2
    <2> DEFINE step(sim, n) == Advance(sim, events[n], results)
               new == [n \in 0..(k + 1) |-> IF n = 0 THEN Opening ELSE step(old[n - 1], n)]
    <2>1. old = [n \in 0..k |-> IF n = 0 THEN Opening ELSE step(old[n - 1], n)]
      BY DEF IsReplay
    <2> HIDE DEF step
    <2>2. \A n \in 0..k : n \in 0..(k + 1) /\ new[n] = old[n]
      <3> TAKE n \in 0..k
      <3>1. n \in 0..(k + 1)
        OBVIOUS
      <3>2. old[n] = IF n = 0 THEN Opening ELSE step(old[n - 1], n)
        BY <2>1
      <3> QED
        BY <3>1, <3>2
    <2>3. \A n \in 0..(k + 1) : n # 0 => n - 1 \in 0..k
      OBVIOUS
    <2>4. \A n \in 0..(k + 1) : n # 0 => old[n - 1] = new[n - 1]
      <3> HIDE DEF new
      <3> QED
        BY <2>2, <2>3
    <2>5. new = [n \in 0..(k + 1) |-> IF n = 0 THEN Opening ELSE step(new[n - 1], n)]
      <3> DEFINE same == [n \in 0..(k + 1) |-> IF n = 0 THEN Opening ELSE step(new[n - 1], n)]
      <3>1. \A n \in 0..(k + 1) : new[n] = same[n]
        <4> TAKE n \in 0..(k + 1)
        <4>1. new[n] = IF n = 0 THEN Opening ELSE step(old[n - 1], n)
          OBVIOUS
        <4>2. same[n] = IF n = 0 THEN Opening ELSE step(new[n - 1], n)
          OBVIOUS
        <4> HIDE DEF new, same
        <4> QED
          BY <2>4, <4>1, <4>2
      <3>2. new = [n \in 0..(k + 1) |-> new[n]] /\ same = [n \in 0..(k + 1) |-> same[n]]
        OBVIOUS
      <3> HIDE DEF new, same
      <3>3. new = same
        BY <3>1, <3>2
      <3> QED
        BY <3>3 DEF same
    <2> HIDE DEF new
    <2> QED
      BY <2>5 DEF IsReplay, step
  <1>3. Fails = {}
    <2> SUFFICES ASSUME Fails # {} PROVE FALSE
      OBVIOUS
    <2>1. PICK n \in Fails : \A m \in Fails : n <= m
      BY LeastNat
    <2>2. n # 0 /\ n \in Nat /\ ~ \E sims : IsReplay(sims, events, n, results)
      BY <1>1
    <2>3. n - 1 \in Nat /\ n - 1 \notin Fails /\ (n - 1) + 1 = n
      BY <2>1, <2>2
    <2> QED
      BY <1>2, <2>2, <2>3
  <1> QED
    BY <1>3

LEMMA SimulateIs ==
  ASSUME NEW bets, Playable(bets), NEW results
  PROVE  LET N == 2 * Cardinality(bets)
             sims == Simulate(bets, results)
         IN /\ N \in Nat
            /\ DOMAIN sims = 0..N /\ sims[0] = Opening
            /\ \A n \in 1..N : sims[n] = Advance(sims[n - 1], Events(bets)[n], results)
            /\ Final(bets, results) = sims[N]
  <1> DEFINE N == 2 * Cardinality(bets)
             sims == Simulate(bets, results)
             events == Events(bets)
  <1>1. N \in Nat /\ Len(events) = N
    BY EventsCount, EventsAreScheduled
  <1>2. sims = CHOOSE s : IsReplay(s, events, Len(events), results)
    BY DEF Simulate, IsReplay
  <1>3. Final(bets, results) = sims[N]
    BY DEF Final
  <1> HIDE DEF N, sims, events
  <1>4. IsReplay(sims, events, N, results)
    BY <1>1, <1>2, ReplayExists
  <1>5. sims = [n \in 0..N |-> IF n = 0 THEN Opening ELSE Advance(sims[n - 1], events[n], results)]
    BY <1>4 DEF IsReplay
  <1>6. DOMAIN sims = 0..N
    BY <1>5
  <1>7. \A n \in 0..N : sims[n] = IF n = 0 THEN Opening ELSE Advance(sims[n - 1], events[n], results)
    BY <1>5
  <1>8. 0 \in 0..N /\ \A n \in 1..N : n \in 0..N /\ n # 0
    BY <1>1
  <1> QED
    BY <1>1, <1>3, <1>6, <1>7, <1>8 DEF N, sims, events

-----------------------------------------------------------------------------
(* What is locked in open bets.                                            *)

Stakes(open) == [o \in open |-> o.stake]

LEMMA LockedIs ==
  ASSUME NEW open, IsFiniteSet(open), \A o \in open : o.stake \in Int
  PROVE  Locked(open) = SumOf(Stakes(open), open)
  <1>1. \A o \in open : o["stake"] \in Int
    OBVIOUS
  <1>2. MapThenSumSet(LAMBDA o : o["stake"], open) = SumOf([o \in open |-> o["stake"]], open)
    BY <1>1, FieldSum
  <1> QED
    BY <1>2 DEF Locked, Stakes

\* Open bets, as a replay keeps them.
BetType == [bet: Directional \cup Arb, stake: Nat]

LEMMA LockedLess ==
  ASSUME NEW open \in SUBSET BetType, IsFiniteSet(open), NEW o \in open
  PROVE  /\ Locked(open) = o.stake + Locked(open \ {o})
         /\ Locked(open) \in Int /\ Locked(open \ {o}) \in Int
  <1>1. IsFiniteSet(open \ {o})
    BY FS_Subset
  <1>2. \A x \in open : x.stake \in Int
    BY DEF BetType
  <1>3. Locked(open) = SumOf(Stakes(open), open)
        /\ Locked(open \ {o}) = SumOf(Stakes(open \ {o}), open \ {o})
    BY <1>1, <1>2, LockedIs
  <1>4. \A x \in open : Stakes(open)[x] \in Int
    BY <1>2 DEF Stakes
  <1>5. \A x \in open \ {o} : Stakes(open)[x] \in Int /\ Stakes(open \ {o})[x] = Stakes(open)[x]
    BY <1>2 DEF Stakes
  <1>6. SumOf(Stakes(open), open \ {o}) = SumOf(Stakes(open \ {o}), open \ {o})
    BY <1>1, <1>5, SumEqual
  <1>7. /\ SumOf(Stakes(open), open) = Stakes(open)[o] + SumOf(Stakes(open), open \ {o})
        /\ SumOf(Stakes(open), open) \in Int /\ SumOf(Stakes(open), open \ {o}) \in Int
    BY <1>4, SumPick
  <1>8. Stakes(open)[o] = o.stake
    BY DEF Stakes
  <1> QED
    BY <1>3, <1>6, <1>7, <1>8

LEMMA LockedNothing == Locked({}) = 0
  BY FS_EmptySet, LockedIs, SumEmpty

LEMMA LockedNat ==
  ASSUME NEW open \in SUBSET BetType, IsFiniteSet(open)
  PROVE  Locked(open) \in Nat
  <1>1. \A o \in open : o.stake \in Nat /\ Stakes(open)[o] \in Nat
    BY DEF BetType, Stakes
  <1> QED
    BY <1>1, LockedIs, SumNat

LEMMA LockedMore ==
  ASSUME NEW open \in SUBSET BetType, IsFiniteSet(open), NEW o \in BetType, o \notin open
  PROVE  Locked(open \cup {o}) = Locked(open) + o.stake
  <1>1. IsFiniteSet(open \cup {o}) /\ open \cup {o} \in SUBSET BetType /\ o \in open \cup {o}
    BY FS_AddElement
  <1>2. (open \cup {o}) \ {o} = open
    OBVIOUS
  <1>3. Locked(open \cup {o}) = o.stake + Locked(open)
    BY <1>1, <1>2, LockedLess
  <1>4. Locked(open) \in Int /\ o.stake \in Int
    BY LockedNat DEF BetType
  <1> QED
    BY <1>3, <1>4

\* Of the bets in one theme.
InTheme(open, t) == {o \in open : Tag[o.bet.market] = t}

LEMMA ThemeMore ==
  ASSUME NEW open \in SUBSET BetType, IsFiniteSet(open), NEW o \in BetType, o \notin open, NEW t
  PROVE  Locked(InTheme(open \cup {o}, t))
         = IF Tag[o.bet.market] = t THEN Locked(InTheme(open, t)) + o.stake ELSE Locked(InTheme(open, t))
  <1>1. InTheme(open, t) \in SUBSET BetType /\ IsFiniteSet(InTheme(open, t)) /\ o \notin InTheme(open, t)
    BY FS_Subset DEF InTheme
  <1>2. CASE Tag[o.bet.market] = t
    <2>1. InTheme(open \cup {o}, t) = InTheme(open, t) \cup {o}
      BY <1>2 DEF InTheme
    <2> QED
      BY <1>1, <1>2, <2>1, LockedMore
  <1>3. CASE Tag[o.bet.market] # t
    <2>1. InTheme(open \cup {o}, t) = InTheme(open, t)
      BY <1>3 DEF InTheme
    <2> QED
      BY <1>3, <2>1
  <1> QED
    BY <1>2, <1>3

LEMMA ThemeLess ==
  ASSUME NEW open \in SUBSET BetType, IsFiniteSet(open), NEW o \in open, NEW t
  PROVE  Locked(InTheme(open \ {o}, t))
         = IF Tag[o.bet.market] = t THEN Locked(InTheme(open, t)) - o.stake ELSE Locked(InTheme(open, t))
  <1>1. open \ {o} \in SUBSET BetType /\ IsFiniteSet(open \ {o}) /\ o \in BetType /\ o \notin open \ {o}
    BY FS_Subset
  <1>2. (open \ {o}) \cup {o} = open
    OBVIOUS
  <1>3. Locked(InTheme(open, t))
        = IF Tag[o.bet.market] = t
          THEN Locked(InTheme(open \ {o}, t)) + o.stake ELSE Locked(InTheme(open \ {o}, t))
    BY <1>1, <1>2, ThemeMore
  <1>4. InTheme(open \ {o}, t) \in SUBSET BetType /\ IsFiniteSet(InTheme(open \ {o}, t))
    BY <1>1, FS_Subset DEF InTheme
  <1>5. Locked(InTheme(open \ {o}, t)) \in Nat
    BY <1>4, LockedNat
  <1>6. o.stake \in Nat
    BY <1>1 DEF BetType
  <1> QED
    BY <1>3, <1>5, <1>6

-----------------------------------------------------------------------------
(* A replay keeps its books.                                               *)

SimType ==
    [cash: Nat, open: SUBSET BetType, exposure: [Themes -> Int], taken: SUBSET BetType,
     pnl: Int, curve: Seq(Int)]

\* What is open was entered and has not resolved, the money in it and beside it is
\* all there is, and a theme is exposed to what is open in it.
OpenOnly(open, bets, past) ==
    /\ IsFiniteSet(open)
    /\ \A o \in open : /\ o.bet \in bets
                       /\ o.bet.kind = "arb" => o.bet.edge > 0
                       /\ Resolution(o.bet) \notin past /\ Entry(o.bet) \in past
    /\ \A o, p \in open : o.bet = p.bet => o = p

Kept(sim, bets, past) ==
    /\ sim \in SimType
    /\ OpenOnly(sim.open, bets, past)
    /\ sim.cash + Locked(sim.open) = Bankroll + sim.pnl
    /\ \A t \in Themes : sim.exposure[t] = Locked(InTheme(sim.open, t))

LEMMA OpeningIsKept == ASSUME NEW bets PROVE Kept(Opening, bets, {})
  <1>1. Bankroll \in Nat
    BY BacktestAssumption DEF BacktestAssumption
  <1>2. <<Bankroll>> \in Seq(Int)
    BY <1>1
  <1>3. Opening \in SimType
    BY <1>1, <1>2 DEF Opening, SimType
  <1>4. OpenOnly({}, bets, {})
    BY FS_EmptySet DEF OpenOnly
  <1>5. /\ Opening.open = {} /\ Opening.cash = Bankroll /\ Opening.pnl = 0
        /\ \A t \in Themes : Opening.exposure[t] = 0
    BY DEF Opening
  <1>6. \A t : InTheme({}, t) = {}
    BY DEF InTheme
  <1> QED
    BY <1>1, <1>3, <1>4, <1>5, <1>6, LockedNothing DEF Kept

LEMMA ExposureNat ==
  ASSUME NEW bets, NEW past, NEW sim, Kept(sim, bets, past)
  PROVE  sim.exposure \in [Themes -> Nat]
  <1>1. sim.exposure \in [Themes -> Int] /\ sim.open \in SUBSET BetType /\ IsFiniteSet(sim.open)
    BY DEF Kept, SimType, OpenOnly
  <1>2. ASSUME NEW t \in Themes PROVE sim.exposure[t] \in Nat
    <2>1. InTheme(sim.open, t) \in SUBSET BetType /\ IsFiniteSet(InTheme(sim.open, t))
      BY <1>1, FS_Subset DEF InTheme
    <2>2. Locked(InTheme(sim.open, t)) \in Nat
      BY <2>1, LockedNat
    <2> QED
      BY <2>2 DEF Kept
  <1> QED
    BY <1>1, <1>2

LEMMA EntryKeeps ==
  ASSUME NEW bets, Playable(bets), NEW past, NEW sim, Kept(sim, bets, past),
         NEW c \in bets, Entry(c) \notin past, Resolution(c) \notin past
  PROVE  Kept(TakeEntry(sim, c), bets, past \cup {Entry(c)})
  <1> DEFINE stake == EntryStake(c, sim.cash, sim.exposure)
             o == [bet |-> c, stake |-> stake]
             tag == Tag[c.market]
             past2 == past \cup {Entry(c)}
  <1>1. /\ sim \in SimType /\ sim.cash \in Nat /\ sim.open \in SUBSET BetType
        /\ sim.pnl \in Int /\ sim.exposure \in [Themes -> Nat]
        /\ OpenOnly(sim.open, bets, past)
    BY ExposureNat DEF Kept, SimType
  <1>2. c \in Directional \cup Arb /\ c.market \in Markets
    BY DEF Playable, Directional, Arb
  <1>3. stake \in 0..sim.cash
    BY <1>1, <1>2, EntryWithinMeans
  <1>4. tag \in Themes
    BY <1>2 DEF Themes
  <1>5. \A d : Resolution(d) # Entry(c)
    BY DEF Resolution, Entry
  <1>6. OpenOnly(sim.open, bets, past2)
    BY <1>1, <1>5 DEF OpenOnly
  <1>7. CASE stake > 0
    <2> DEFINE sim2 == TakeEntry(sim, c)
    <2>1. sim2 = [cash |-> sim.cash - stake, open |-> sim.open \cup {o},
                  exposure |-> [sim.exposure EXCEPT ![tag] = @ + stake],
                  taken |-> sim.taken \cup {o}, pnl |-> sim.pnl, curve |-> sim.curve]
      BY <1>1, <1>7 DEF TakeEntry, SimType
    <2>2. c.kind = "arb" => c.edge > 0
      BY <1>7 DEF EntryStake
    <2> HIDE DEF stake, tag, sim2
    <2>3. o \in BetType /\ o.bet = c /\ o.stake = stake
      BY <1>2, <1>3 DEF BetType
    <2>4. o \notin sim.open /\ \A x \in sim.open : x.bet # c
      BY <1>1, <2>3 DEF OpenOnly
    <2>5. IsFiniteSet(sim.open) /\ IsFiniteSet(sim.open \cup {o})
      BY <1>1, FS_AddElement DEF OpenOnly
    <2> HIDE DEF o
    <2>6. OpenOnly(sim.open \cup {o}, bets, past2)
      BY <1>5, <1>6, <2>2, <2>3, <2>4, <2>5 DEF OpenOnly
    <2>7. Locked(sim.open \cup {o}) = Locked(sim.open) + stake /\ Locked(sim.open) \in Int
      BY <1>1, <2>3, <2>4, <2>5, LockedMore, LockedNat
    <2>8. sim2 \in SimType
      BY <1>1, <1>3, <1>4, <2>1, <2>3 DEF SimType
    <2>9. sim2.cash + Locked(sim2.open) = Bankroll + sim2.pnl
      <3>1. sim.cash + Locked(sim.open) = Bankroll + sim.pnl
        BY DEF Kept
      <3>2. sim2.cash = sim.cash - stake /\ sim2.pnl = sim.pnl
            /\ Locked(sim2.open) = Locked(sim.open) + stake
        BY <2>1, <2>7
      <3> QED
        BY <1>1, <1>3, <2>7, <3>1, <3>2
    <2>10. ASSUME NEW t \in Themes PROVE sim2.exposure[t] = Locked(InTheme(sim2.open, t))
      <3>1. sim.exposure[t] = Locked(InTheme(sim.open, t)) /\ sim.exposure[t] \in Int
        BY <1>1 DEF Kept
      <3>2. Locked(InTheme(sim2.open, t))
            = IF tag = t THEN sim.exposure[t] + stake ELSE sim.exposure[t]
        <4>1. sim2.open = sim.open \cup {o} /\ tag = Tag[o.bet.market] /\ o.stake = stake
          BY <2>1, <2>3 DEF tag
        <4>2. Locked(InTheme(sim.open \cup {o}, t))
              = IF Tag[o.bet.market] = t
                THEN Locked(InTheme(sim.open, t)) + o.stake ELSE Locked(InTheme(sim.open, t))
          BY <1>1, <2>3, <2>4, <2>5, ThemeMore
        <4> QED
          BY <3>1, <4>1, <4>2
      <3>3. sim2.exposure[t] = IF tag = t THEN sim.exposure[t] + stake ELSE sim.exposure[t]
        BY <1>1, <2>1
      <3> QED
        BY <3>2, <3>3
    <2>11. OpenOnly(sim2.open, bets, past2)
      BY <2>1, <2>6
    <2> QED
      BY <2>8, <2>9, <2>10, <2>11 DEF Kept, sim2
  <1>8. CASE ~(stake > 0)
    <2>1. TakeEntry(sim, c) = sim
      BY <1>8 DEF TakeEntry
    <2> QED
      BY <1>6, <2>1 DEF Kept
  <1> QED
    BY <1>7, <1>8

\* A settlement pays no less than nothing.
LEMMA PaysAtLeastNothing ==
  ASSUME NEW bets, Playable(bets), NEW c \in bets, c.kind = "arb" => c.edge > 0,
         NEW stake \in Nat, NEW result
  PROVE  RealizedPnl(c, stake, result) \in Int /\ stake + RealizedPnl(c, stake, result) >= 0
  <1>1. c \in Directional \cup Arb
    BY DEF Playable
  <1>2. CASE c \in Arb
    BY <1>2 DEF Arb, RealizedPnl
  <1>3. CASE c \in Directional
    <2>1. c.kind = "directional" /\ c.ask \in Nat /\ Costs \in Nat /\ c.ask + Costs > 0
      BY <1>3, BacktestAssumption DEF BacktestAssumption, Directional, Playable
    <2>2. stake * 100 \in Nat /\ c.ask + Costs \in Nat \ {0}
      BY <2>1
    <2>3. (stake * 100) \div (c.ask + Costs) \in Nat
      BY <2>2, DivisionInNat
    <2>4. RealizedPnl(c, stake, result) = (stake * 100) \div (c.ask + Costs) - stake
          \/ RealizedPnl(c, stake, result) = -stake
      BY <2>1 DEF RealizedPnl
    <2> QED
      BY <2>3, <2>4
  <1> QED
    BY <1>1, <1>2, <1>3

LEMMA ResolutionKeeps ==
  ASSUME NEW bets, Playable(bets), NEW past, NEW sim, Kept(sim, bets, past),
         NEW c \in bets, NEW results
  PROVE  Kept(TakeResolution(sim, c, results), bets, past \cup {Resolution(c)})
  <1> DEFINE past2 == past \cup {Resolution(c)}
  <1>1. /\ sim \in SimType /\ sim.cash \in Nat /\ sim.open \in SUBSET BetType
        /\ sim.pnl \in Int /\ sim.exposure \in [Themes -> Int] /\ sim.curve \in Seq(Int)
        /\ OpenOnly(sim.open, bets, past)
    BY DEF Kept, SimType
  <1>2. c.market \in Markets
    BY DEF Playable, Directional, Arb
  <1>3. \A d : Resolution(d) = Resolution(c) => d = c
    BY DEF Resolution
  <1>4. ASSUME NEW open \in SUBSET sim.open, \A x \in open : x.bet # c
        PROVE  OpenOnly(open, bets, past2)
    BY <1>1, <1>3, <1>4, FS_Subset DEF OpenOnly
  <1>5. CASE \E o \in sim.open : o.bet = c
    <2> DEFINE o == CHOOSE o \in sim.open : o.bet = c
               pnl == RealizedPnl(c, o.stake, results[c.market])
               cash == sim.cash + o.stake + pnl
               sim2 == TakeResolution(sim, c, results)
               tag == Tag[c.market]
    <2>1. o \in sim.open /\ o.bet = c
      BY <1>5
    <2>2. sim2 = [cash |-> cash, open |-> sim.open \ {o},
                  exposure |-> [sim.exposure EXCEPT ![tag] = @ - o.stake],
                  taken |-> sim.taken, pnl |-> sim.pnl + pnl,
                  curve |-> Append(sim.curve, cash + Locked(sim.open \ {o}))]
      BY <1>1, <1>5 DEF TakeResolution, SimType
    <2> HIDE DEF o, sim2
    <2>3. o.stake \in Nat /\ (c.kind = "arb" => c.edge > 0)
      BY <1>1, <2>1 DEF BetType, OpenOnly
    <2>4. pnl \in Int /\ o.stake + pnl >= 0
      BY <2>3, PaysAtLeastNothing
    <2> HIDE DEF pnl
    <2>5. cash \in Nat
      BY <1>1, <2>3, <2>4
    <2>6. IsFiniteSet(sim.open)
      BY <1>1 DEF OpenOnly
    <2>7. /\ Locked(sim.open) = o.stake + Locked(sim.open \ {o})
          /\ Locked(sim.open) \in Int /\ Locked(sim.open \ {o}) \in Int
      BY <1>1, <2>1, <2>6, LockedLess
    <2>8. tag \in Themes
      BY <1>2 DEF Themes
    <2>9. sim2 \in SimType
      <3>1. cash + Locked(sim.open \ {o}) \in Int
        BY <2>5, <2>7
      <3> PICK x \in Int : x = cash + Locked(sim.open \ {o})
        BY <3>1
      <3>2. Append(sim.curve, x) \in Seq(Int)
        BY <1>1, AppendProperties
      <3>3. [sim.exposure EXCEPT ![tag] = @ - o.stake] \in [Themes -> Int]
        BY <1>1, <2>3, <2>8
      <3>4. sim.pnl + pnl \in Int /\ sim.taken \in SUBSET BetType /\ sim.open \ {o} \in SUBSET BetType
        BY <1>1, <2>4 DEF SimType
      <3> HIDE DEF cash
      <3> QED
        BY <2>2, <2>5, <3>2, <3>3, <3>4 DEF SimType
    <2>10. sim2.cash + Locked(sim2.open) = Bankroll + sim2.pnl
      <3>1. sim.cash + Locked(sim.open) = Bankroll + sim.pnl /\ Bankroll \in Int
        BY BacktestAssumption DEF Kept, BacktestAssumption
      <3>2. /\ sim2.cash = sim.cash + o.stake + pnl /\ sim2.pnl = sim.pnl + pnl
            /\ Locked(sim2.open) = Locked(sim.open \ {o})
        BY <2>2
      <3>3. sim.cash + (o.stake + Locked(sim.open \ {o})) = Bankroll + sim.pnl
        BY <2>7, <3>1
      <3>4. o.stake \in Int /\ sim.cash \in Int
        BY <1>1, <2>3
      <3> HIDE DEF cash
      <3> PICK a \in Int, s \in Int, l \in Int, q \in Int :
             a = sim.cash /\ s = o.stake /\ l = Locked(sim.open \ {o}) /\ q = sim.pnl
        BY <1>1, <2>7, <3>4
      <3>5. a + (s + l) = Bankroll + q
        BY <3>3
      <3>6. (a + s + pnl) + l = Bankroll + (q + pnl)
        BY <2>4, <3>1, <3>5
      <3> QED
        BY <3>2, <3>6
    <2>11. ASSUME NEW t \in Themes PROVE sim2.exposure[t] = Locked(InTheme(sim2.open, t))
      <3>1. sim.exposure[t] = Locked(InTheme(sim.open, t)) /\ sim.exposure[t] \in Int
        BY <1>1 DEF Kept
      <3>2. Locked(InTheme(sim2.open, t))
            = IF tag = t THEN sim.exposure[t] - o.stake ELSE sim.exposure[t]
        <4>1. sim2.open = sim.open \ {o} /\ tag = Tag[o.bet.market]
          BY <2>1, <2>2
        <4>2. Locked(InTheme(sim.open \ {o}, t))
              = IF Tag[o.bet.market] = t
                THEN Locked(InTheme(sim.open, t)) - o.stake ELSE Locked(InTheme(sim.open, t))
          BY <1>1, <2>1, <2>6, ThemeLess
        <4> HIDE DEF tag
        <4> QED
          BY <3>1, <4>1, <4>2
      <3>3. sim2.exposure[t] = IF tag = t THEN sim.exposure[t] - o.stake ELSE sim.exposure[t]
        BY <1>1, <2>2
      <3> QED
        BY <3>2, <3>3
    <2>12. OpenOnly(sim2.open, bets, past2)
      <3>1. \A x \in sim.open \ {o} : x.bet # c
        BY <1>1, <2>1 DEF OpenOnly
      <3> QED
        BY <1>4, <2>2, <3>1
    <2> QED
      BY <2>9, <2>10, <2>11, <2>12 DEF Kept, sim2
  <1>6. CASE ~ \E o \in sim.open : o.bet = c
    <2>1. TakeResolution(sim, c, results) = sim
      BY <1>6 DEF TakeResolution
    <2> QED
      BY <1>4, <1>6, <2>1 DEF Kept
  <1> QED
    BY <1>5, <1>6

Past(events, n) == {events[i] : i \in 1..n}

\* What simulate has done of a schedule of events, at each of them.
LEMMA ReplayKeeps ==
  ASSUME NEW bets, Playable(bets), NEW results
  PROVE  \A n \in 0..(2 * Cardinality(bets)) :
            Kept(Simulate(bets, results)[n], bets, Past(Events(bets), n))
  <1> DEFINE N == 2 * Cardinality(bets)
             sims == Simulate(bets, results)
             events == Events(bets)
             Bad == {n \in 0..N : ~Kept(sims[n], bets, Past(events, n))}
  <1>1. /\ N \in Nat /\ sims[0] = Opening
        /\ \A n \in 1..N : sims[n] = Advance(sims[n - 1], events[n], results)
    BY SimulateIs
  <1>2. IsSchedule(events, bets)
    BY EventsAreScheduled
  <1> HIDE DEF sims, events
  <1>3. Kept(sims[0], bets, Past(events, 0))
    <2>1. Past(events, 0) = {}
      BY DEF Past
    <2> QED
      BY <1>1, <2>1, OpeningIsKept
  <1>4. ASSUME NEW n \in 1..N, Kept(sims[n - 1], bets, Past(events, n - 1))
        PROVE  Kept(sims[n], bets, Past(events, n))
    <2> DEFINE e == events[n]
               c == e.bet
               sim == sims[n - 1]
               past == Past(events, n - 1)
    <2>1. e \in EventsOf(bets)
      BY <1>2 DEF IsSchedule
    <2>2. \A f \in past : f \in EventsOf(bets) /\ Before(f, e)
      BY <1>1, <1>2 DEF IsSchedule, Past
    <2>3. Past(events, n) = past \cup {e}
      <3>1. 1..n = (1..(n - 1)) \cup {n}
        BY <1>1
      <3> QED
        BY <3>1 DEF Past
    <2>4. sims[n] = Advance(sim, e, results)
      BY <1>1
    <2>5. Kept(sim, bets, past)
      BY <1>4
    <2>6. /\ c \in bets /\ e.phase \in {0, 1}
          /\ e.phase = 1 => e = Entry(c)
          /\ e.phase = 0 => e = Resolution(c)
      BY <2>1, EventIs
    <2>7. e \notin past
      BY <2>1, <2>2, BeforeIsStrict
    <2> HIDE DEF e, c, sim, past, N
    <2>8. CASE e.phase = 1
      <3>1. ~Before(Resolution(c), Entry(c))
        <4>1. c.time \in Int /\ ResolveTime[c.market] \in Int /\ c.time < ResolveTime[c.market]
          BY <2>6, BacktestAssumption DEF BacktestAssumption, Playable, Directional, Arb
        <4> QED
          BY <4>1 DEF Before, Resolution, Entry
      <3>2. Entry(c) \notin past /\ Resolution(c) \notin past
        BY <2>2, <2>6, <2>7, <2>8, <3>1
      <3>3. Kept(TakeEntry(sim, c), bets, past \cup {Entry(c)})
        BY <2>5, <2>6, <3>2, EntryKeeps
      <3> QED
        BY <2>3, <2>4, <2>6, <2>8, <3>3 DEF Advance, c
    <2>9. CASE e.phase = 0
      <3>1. Kept(TakeResolution(sim, c, results), bets, past \cup {Resolution(c)})
        BY <2>5, <2>6, ResolutionKeeps
      <3> QED
        BY <2>3, <2>4, <2>6, <2>9, <3>1 DEF Advance, c
    <2> QED
      BY <2>6, <2>8, <2>9
  <1>5. Bad = {}
    <2> SUFFICES ASSUME Bad # {} PROVE FALSE
      OBVIOUS
    <2>1. PICK n \in Bad : \A m \in Bad : n <= m
      BY Bad \in SUBSET Nat, LeastNat
    <2>2. n # 0
      BY <1>3
    <2>3. n \in 1..N /\ n - 1 \in 0..N /\ n - 1 \notin Bad
      BY <1>1, <2>1, <2>2
    <2> QED
      BY <1>4, <2>3
  <1> QED
    BY <1>5 DEF sims, events

LEMMA NothingIsLeftOpen ==
  ASSUME NEW bets, Playable(bets), NEW results
  PROVE  Final(bets, results).open = {}
  <1> DEFINE N == 2 * Cardinality(bets)
             sim == Final(bets, results)
  <1>1. N \in Nat /\ sim = Simulate(bets, results)[N]
    BY SimulateIs
  <1>2. Kept(sim, bets, Past(Events(bets), N))
    BY <1>1, ReplayKeeps
  <1> HIDE DEF sim
  <1>3. EventsOf(bets) \subseteq Past(Events(bets), N)
    BY EventsAreScheduled DEF IsSchedule, Past
  <1>4. \A c \in bets : Resolution(c) \in EventsOf(bets)
    BY DEF EventsOf
  <1> QED
    BY <1>2, <1>3, <1>4 DEF Kept, OpenOnly, sim

LEMMA PlayableIsSolvent ==
  ASSUME NEW bets, Playable(bets), NEW results
  PROVE  Solvent(bets, results)
  <1> DEFINE N == 2 * Cardinality(bets)
             sims == Simulate(bets, results)
  <1>1. DOMAIN sims = 0..N /\ \A n \in 0..N : Kept(sims[n], bets, Past(Events(bets), n))
    BY SimulateIs, ReplayKeeps
  <1> HIDE DEF sims, N
  <1>2. ASSUME NEW n \in DOMAIN sims
        PROVE  /\ sims[n].cash >= 0
               /\ sims[n].cash + Locked(sims[n].open) = Bankroll + sims[n].pnl
               /\ \A t \in Themes :
                     sims[n].exposure[t] = Locked({o \in sims[n].open : Tag[o.bet.market] = t})
    BY <1>1 DEF Kept, SimType, InTheme
  <1> QED
    BY <1>2, NothingIsLeftOpen DEF Solvent, sims, Final

-----------------------------------------------------------------------------
(* What build_candidates makes.                                            *)

LEMMA NudgeInBand ==
  ASSUME NEW m \in 0..100
  PROVE  FairValue(m) \in 0..100
  BY DEF FairValue, Nudge, Lo, Hi, NudgeMin, NudgeMax

LEMMA FavouredIsSide == ASSUME NEW m PROVE Favoured(m) \in Sides
  BY DEF Favoured, Sides

LEMMA PriceTypes ==
  ASSUME NEW q \in Quotes, NEW side \in Sides
  PROVE  /\ q.token[side].mid \in 0..100 /\ q.token[side].half \in 0..100
         /\ IsPriced(q, side) => q.token[side].half + Costs > 0
  BY MonitorAssumption DEF MonitorAssumption, QuoteType, TokenRow

LEMMA ChanceInBand ==
  ASSUME NEW m \in 0..100
  PROVE  Chance(m) \in 0..100
  BY NudgeInBand DEF Chance

LEMMA DirectionalIs ==
  ASSUME NEW q \in Quotes, Correctable(q)
  PROVE  LET c == DirectionalCandidate(q)
         IN /\ c \in Directional /\ c.ask + Costs > 0
            /\ c.market = q.market /\ c.time = q.time /\ c.kind = "directional"
  <1> DEFINE favoured == Favoured(Mid(q))
             side == IF favoured = "yes" THEN 1 ELSE 0
             ask == AskPrice(q, favoured)
             p == Chance(Mid(q))
             c == DirectionalCandidate(q)
  <1>1. q.market \in Markets /\ q.time \in Nat /\ Costs \in Nat
    BY MonitorAssumption, BacktestAssumption DEF MonitorAssumption, BacktestAssumption, QuoteType
  <1>2. Mid(q) \in 0..100
    BY PriceTypes DEF Mid, Sides
  <1>3. c = [market |-> q.market, time |-> q.time, kind |-> "directional",
             side |-> side, ask |-> ask, p |-> p]
    BY DEF DirectionalCandidate
  <1> HIDE DEF c
  <1>4. side \in {0, 1} /\ p \in 0..100
    BY <1>2, ChanceInBand
  <1>5. ask \in Nat /\ ask + Costs > 0
    <2>1. ASSUME NEW a \in 0..100, NEW h \in 0..100, NEW k \in Nat, h + k > 0
          PROVE  a + h \in Nat /\ (a + h) + k > 0
      BY <2>1
    <2>2. favoured \in Sides /\ IsPriced(q, favoured)
      BY FavouredIsSide DEF Correctable
    <2> HIDE DEF favoured
    <2> QED
      BY <1>1, <2>1, <2>2, PriceTypes DEF AskPrice
  <1> HIDE DEF side, ask, p
  <1>6. c \in Directional /\ c.ask = ask /\ c.market = q.market /\ c.time = q.time
        /\ c.kind = "directional"
    BY <1>1, <1>3, <1>4, <1>5 DEF Directional
  <1> QED
    BY <1>5, <1>6 DEF c

LEMMA ArbIs ==
  ASSUME NEW q \in Quotes
  PROVE  LET c == ArbCandidate(q)
         IN c \in Arb /\ c.market = q.market /\ c.time = q.time /\ c.kind = "arb"
  BY MonitorAssumption DEF MonitorAssumption, QuoteType, ArbCandidate, Arb

\* A tick is there to be traded, and a bet is made of it: the first of its kind.
Quoted(q) == \A side \in Sides : q.token[side].row # "missing"

Tradable(q, universe) ==
    Quoted(q) /\ q.market \in universe \cap DOMAIN ResolveTime /\ q.time < ResolveTime[q.market]

SoonerThan(q, stored) == {r \in stored : Quoted(r) /\ r.market = q.market /\ r.time < q.time}

MadeOf(c, q, stored) ==
    \/ /\ c = DirectionalCandidate(q) /\ Correctable(q)
       /\ \A r \in SoonerThan(q, stored) : ~Correctable(r)
    \/ /\ c = ArbCandidate(q) /\ q.arb # NoArb
       /\ \A r \in SoonerThan(q, stored) : r.arb = NoArb

LEMMA CandidateIs ==
  ASSUME NEW stored \in SUBSET Quotes, NEW universe \in SUBSET Markets,
         NEW c
  PROVE  c \in Candidates(stored, universe) <=>
           \E q \in stored : Tradable(q, universe) /\ MadeOf(c, q, stored)
  <1> DEFINE extremes(m) == {t \in Ticks(stored, m) : Correctable(t)}
             arbs(m) == {t \in Ticks(stored, m) : t.arb # NoArb}
  <1>1. \A q \in stored : q.time \in Nat
    BY MonitorAssumption DEF MonitorAssumption, QuoteType
  <1>2. \A m \in DOMAIN ResolveTime : ResolveTime[m] \in Int
    BY BacktestAssumption DEF BacktestAssumption
  <1>3. c \in Candidates(stored, universe) <=>
           \E m \in universe \cap DOMAIN ResolveTime :
              \/ \E q \in First(extremes(m)) : c = DirectionalCandidate(q)
              \/ \E q \in First(arbs(m)) : c = ArbCandidate(q)
    <2> DEFINE of(m) == {DirectionalCandidate(q) : q \in First(extremes(m))}
                        \cup {ArbCandidate(q) : q \in First(arbs(m))}
    <2>1. Candidates(stored, universe) = UNION {of(m) : m \in universe \cap DOMAIN ResolveTime}
      BY DEF Candidates
    <2>2. \A m : c \in of(m) <=> \/ \E q \in First(extremes(m)) : c = DirectionalCandidate(q)
                                \/ \E q \in First(arbs(m)) : c = ArbCandidate(q)
      BY Zenon
    <2> HIDE DEF of
    <2>3. c \in Candidates(stored, universe) <=> \E m \in universe \cap DOMAIN ResolveTime : c \in of(m)
      BY <2>1
    <2> HIDE DEF extremes, arbs
    <2> QED
      BY <2>2, <2>3
  <1>4. \A m, q : q \in Ticks(stored, m) <=>
                    q \in stored /\ Quoted(q) /\ q.market = m /\ q.time < ResolveTime[m]
    BY DEF Ticks, Rows, Quoted, Sides
  <1>5. ASSUME NEW m \in universe \cap DOMAIN ResolveTime, NEW q
        PROVE  q \in First(extremes(m)) <=>
                 /\ q \in Ticks(stored, m) /\ Correctable(q)
                 /\ \A r \in SoonerThan(q, stored) : ~Correctable(r)
    BY <1>1, <1>2, <1>4 DEF First, SoonerThan
  <1>6. ASSUME NEW m \in universe \cap DOMAIN ResolveTime, NEW q
        PROVE  q \in First(arbs(m)) <=>
                 /\ q \in Ticks(stored, m) /\ q.arb # NoArb
                 /\ \A r \in SoonerThan(q, stored) : r.arb = NoArb
    BY <1>1, <1>2, <1>4 DEF First, SoonerThan
  <1> HIDE DEF extremes, arbs
  <1> QED
    BY <1>3, <1>4, <1>5, <1>6 DEF Tradable, MadeOf

LEMMA CandidatesArePlayable ==
  ASSUME NEW stored \in SUBSET Quotes, IsFiniteSet(stored), NEW universe \in SUBSET Markets
  PROVE  Playable(Candidates(stored, universe))
  <1> DEFINE bets == Candidates(stored, universe)
             direct == [q \in stored |-> DirectionalCandidate(q)]
             arb == [q \in stored |-> ArbCandidate(q)]
             Directs == {DirectionalCandidate(q) : q \in stored}
             Bundles == {ArbCandidate(q) : q \in stored}
  <1>1. IsFiniteSet(bets)
    <2>1. direct \in Surjection(stored, Directs)
      BY DEF Surjection
    <2>2. arb \in Surjection(stored, Bundles)
      BY DEF Surjection
    <2>3. bets \subseteq Directs \cup Bundles
      BY CandidateIs DEF MadeOf
    <2> HIDE DEF direct, arb, Directs, Bundles, bets
    <2>4. IsFiniteSet(Directs) /\ IsFiniteSet(Bundles)
      BY <2>1, <2>2, FS_Surjection
    <2> QED
      BY <2>3, <2>4, FS_Union, FS_Subset
  <1>2. \A q \in stored : q \in Quotes
    OBVIOUS
  <1>3. \A q, r \in stored : q.market = r.market /\ q.time = r.time => q = r
    BY MonitorAssumption DEF MonitorAssumption
  <1>4. \A q \in stored : q.time \in Int
    BY MonitorAssumption DEF MonitorAssumption, QuoteType
  <1>5. ASSUME NEW c \in bets
        PROVE  /\ c \in Directional \cup Arb
               /\ c.market \in DOMAIN ResolveTime /\ c.time < ResolveTime[c.market]
               /\ c.kind = "directional" => c.ask + Costs > 0
    <2>1. PICK q \in stored : Tradable(q, universe) /\ MadeOf(c, q, stored)
      BY CandidateIs
    <2> QED
      BY <1>2, <2>1, DirectionalIs, ArbIs DEF Tradable, MadeOf
  <1>6. ASSUME NEW c \in bets, NEW d \in bets, c.market = d.market, c.kind = d.kind
        PROVE  c = d
    <2>1. PICK q \in stored : Quoted(q) /\ MadeOf(c, q, stored)
      BY CandidateIs DEF Tradable
    <2>2. PICK p \in stored : Quoted(p) /\ MadeOf(d, p, stored)
      BY CandidateIs DEF Tradable
    <2>3. /\ DirectionalCandidate(q).market = q.market /\ DirectionalCandidate(q).kind = "directional"
          /\ ArbCandidate(q).market = q.market /\ ArbCandidate(q).kind = "arb"
          /\ DirectionalCandidate(p).market = p.market /\ DirectionalCandidate(p).kind = "directional"
          /\ ArbCandidate(p).market = p.market /\ ArbCandidate(p).kind = "arb"
      BY DEF DirectionalCandidate, ArbCandidate
    <2>4. q.market = p.market /\ ~(q.time < p.time) /\ ~(p.time < q.time)
      BY <1>6, <2>1, <2>2, <2>3 DEF MadeOf, SoonerThan
    <2>5. q = p
      BY <1>3, <1>4, <2>4
    <2> QED
      BY <1>6, <2>1, <2>2, <2>3, <2>5 DEF MadeOf
  <1> QED
    BY <1>1, <1>5, <1>6 DEF Playable

-----------------------------------------------------------------------------
(* What is early in a replay does not depend on what comes later.          *)

Early(bets, t) == {e \in EventsOf(bets) : e.at < t}

\* An early event has its place from early events alone.
LEMMA SamePlace ==
  ASSUME NEW bets, Playable(bets), NEW others, Playable(others), NEW t \in Int,
         Early(bets, t) = Early(others, t), NEW e \in Early(bets, t)
  PROVE  e \in EventsOf(others) /\ Rank(e, bets) = Rank(e, others)
  <1>1. /\ e \in EventsOf(bets) /\ e \in EventsOf(others)
        /\ e.at < t /\ e.at \in Int
    BY EventIs DEF Early
  <1>2. ASSUME NEW f \in EventsOf(bets) \cup EventsOf(others), Before(f, e)
        PROVE  f.at < t
    <2>1. f.at \in Int
      BY EventIs
    <2> QED
      BY <1>1, <1>2, <2>1 DEF Before
  <1>3. {f \in EventsOf(bets) : Before(f, e)} = {f \in EventsOf(others) : Before(f, e)}
    BY <1>2 DEF Early
  <1> QED
    BY <1>1, <1>3 DEF Rank

\* So early events come first, and after some number there are no more of them.
IsCutoff(K, bets, t) ==
    /\ K \in 0..(2 * Cardinality(bets))
    /\ \A i \in 1..K : Events(bets)[i].at < t
    /\ \A i \in (K + 1)..(2 * Cardinality(bets)) : ~(Events(bets)[i].at < t)

LEMMA CutoffExists ==
  ASSUME NEW bets, Playable(bets), NEW t \in Int
  PROVE  \E K : IsCutoff(K, bets, t)
  <1> DEFINE N == 2 * Cardinality(bets)
             events == Events(bets)
             Late == {n \in 0..N : \A i \in (n + 1)..N : ~(events[i].at < t)}
  <1>1. N \in Nat
    BY EventsCount
  <1>2. IsSchedule(events, bets)
    BY EventsAreScheduled
  <1>3. \A i \in 1..N : events[i].at \in Int
    BY <1>2, EventIs DEF IsSchedule
  <1>4. \A i, j \in 1..N : i <= j => events[i].at <= events[j].at
    BY <1>2, TimesAscend
  <1> HIDE DEF N, events
  <1>5. N \in Late
    BY <1>1
  <1>6. PICK K \in Late : \A n \in Late : K <= n
    BY <1>1, <1>5, Late \in SUBSET Nat, LeastNat
  <1>7. ASSUME NEW i \in 1..K PROVE events[i].at < t
    <2>1. K - 1 \in 0..N /\ K - 1 \notin Late
      BY <1>1, <1>6, <1>7
    <2>2. PICK j \in K..N : events[j].at < t
      BY <2>1
    <2>3. i \in 1..N /\ j \in 1..N /\ i <= j
      BY <1>1, <1>6, <1>7
    <2> QED
      BY <1>3, <1>4, <2>2, <2>3
  <1> QED
    BY <1>6, <1>7 DEF IsCutoff, N, events

\* Replays with the same early events begin with the same events.
LEMMA SameBeginning ==
  ASSUME NEW bets, Playable(bets), NEW others, Playable(others), NEW t \in Int,
         Early(bets, t) = Early(others, t), NEW K, IsCutoff(K, bets, t)
  PROVE  \A i \in 1..K : /\ i \in 1..(2 * Cardinality(others))
                         /\ Events(others)[i] = Events(bets)[i]
  <1> TAKE i \in 1..K
  <1> DEFINE e == Events(bets)[i]
  <1>1. IsSchedule(Events(bets), bets) /\ IsSchedule(Events(others), others)
    BY EventsAreScheduled
  <1>2. i \in 1..(2 * Cardinality(bets)) /\ e.at < t
    BY EventsCount DEF IsCutoff
  <1>3. e \in EventsOf(bets) /\ Rank(e, bets) = i - 1
    BY <1>1, <1>2 DEF IsSchedule
  <1>4. e \in Early(bets, t)
    BY <1>2, <1>3 DEF Early
  <1> HIDE DEF e
  <1>5. e \in EventsOf(others) /\ Rank(e, others) = i - 1
    BY <1>3, <1>4, SamePlace
  <1>6. Rank(e, others) + 1 \in 1..(2 * Cardinality(others)) /\ Events(others)[Rank(e, others) + 1] = e
    BY <1>1, <1>5 DEF IsSchedule
  <1>7. (i - 1) + 1 = i
    BY <1>2, EventsCount
  <1> QED
    BY <1>5, <1>6, <1>7 DEF e

LEMMA NoShorter ==
  ASSUME NEW bets, Playable(bets), NEW others, Playable(others), NEW t \in Int,
         Early(bets, t) = Early(others, t),
         NEW K, IsCutoff(K, bets, t), NEW L, IsCutoff(L, others, t)
  PROVE  K <= L
  <1>1. /\ K \in Nat /\ L \in Nat /\ 2 * Cardinality(others) \in Nat
    BY EventsCount DEF IsCutoff
  <1>2. SUFFICES ASSUME L < K PROVE FALSE
    BY <1>1
  <1>3. L + 1 \in 1..K
    BY <1>1, <1>2
  <1>4. L + 1 \in 1..(2 * Cardinality(others)) /\ Events(others)[L + 1].at < t
    BY <1>3, SameBeginning DEF IsCutoff
  <1> QED
    BY <1>1, <1>4 DEF IsCutoff

\* What is taken early is taken by the cutoff.
LEMMA TakenByCutoff ==
  ASSUME NEW bets, Playable(bets), NEW results, NEW t \in Int, NEW K, IsCutoff(K, bets, t)
  PROVE  TakenBefore(Final(bets, results), t) = TakenBefore(Simulate(bets, results)[K], t)
  <1> DEFINE N == 2 * Cardinality(bets)
             sims == Simulate(bets, results)
             events == Events(bets)
             More == {n \in K..N : TakenBefore(sims[n], t) # TakenBefore(sims[K], t)}
  <1>1. N \in Nat /\ K \in 0..N /\ Final(bets, results) = sims[N]
    BY SimulateIs DEF IsCutoff
  <1>2. \A n \in 1..N : sims[n] = Advance(sims[n - 1], events[n], results)
    BY SimulateIs
  <1>3. \A n \in 1..N : events[n] \in EventsOf(bets)
    BY EventsAreScheduled DEF IsSchedule
  <1>4. \A n \in (K + 1)..N : ~(events[n].at < t)
    BY DEF IsCutoff
  <1>5. \A n \in 0..N : sims[n] \in SimType
    BY ReplayKeeps DEF Kept
  <1> HIDE DEF N, sims, events
  <1>6. ASSUME NEW n \in (K + 1)..N
        PROVE  TakenBefore(sims[n], t) = TakenBefore(sims[n - 1], t)
    <2> DEFINE e == events[n]
               c == e.bet
               sim == sims[n - 1]
    <2>1. n \in 1..N /\ n - 1 \in 0..N
      BY <1>1
    <2>2. sim \in SimType /\ sims[n] = Advance(sim, e, results) /\ ~(e.at < t)
      BY <1>2, <1>4, <1>5, <2>1
    <2>3. e.phase \in {0, 1} /\ (e.phase = 1 => c.time = e.at)
      BY <1>3, <2>1, EventIs
    <2> HIDE DEF e, c, sim
    <2>4. CASE e.phase = 1
      <3>1. sims[n] = TakeEntry(sim, c) /\ ~(c.time < t)
        BY <2>2, <2>3, <2>4 DEF Advance, c
      <3> DEFINE o == [bet |-> c, stake |-> EntryStake(c, sim.cash, sim.exposure)]
      <3>2. sims[n].taken = sim.taken \/ sims[n].taken = sim.taken \cup {o}
        BY <2>2, <3>1 DEF TakeEntry, SimType
      <3>3. o.bet = c
        OBVIOUS
      <3> HIDE DEF o
      <3> QED
        BY <3>1, <3>2, <3>3 DEF TakenBefore, sim
    <2>5. CASE e.phase = 0
      <3>1. sims[n] = TakeResolution(sim, c, results)
        BY <2>2, <2>5 DEF Advance, c
      <3>2. sims[n].taken = sim.taken
        BY <2>2, <3>1 DEF TakeResolution, SimType
      <3> QED
        BY <3>2 DEF TakenBefore, sim
    <2> QED
      BY <2>3, <2>4, <2>5
  <1>7. More = {}
    <2> SUFFICES ASSUME More # {} PROVE FALSE
      OBVIOUS
    <2>1. PICK n \in More : \A m \in More : n <= m
      BY <1>1, More \in SUBSET Nat, LeastNat
    <2>2. n # K
      OBVIOUS
    <2>3. n \in (K + 1)..N /\ n - 1 \in K..N /\ n - 1 \notin More
      BY <1>1, <2>1, <2>2
    <2> QED
      BY <1>6, <2>3
  <1>8. N \in K..N
    BY <1>1
  <1> QED
    BY <1>1, <1>7, <1>8 DEF sims

\* Replays that agree on what happens before a time have taken the same by then.
THEOREM SameHistory ==
  ASSUME NEW bets, Playable(bets), NEW others, Playable(others), NEW t \in Int,
         Early(bets, t) = Early(others, t),
         NEW results, NEW others2,
         \A m \in DOMAIN ResolveTime : ResolveTime[m] < t => results[m] = others2[m]
  PROVE  TakenBefore(Final(bets, results), t) = TakenBefore(Final(others, others2), t)
  <1> DEFINE sims == Simulate(bets, results)
             sims2 == Simulate(others, others2)
  <1>1. PICK K : IsCutoff(K, bets, t)
    BY CutoffExists
  <1>2. PICK L : IsCutoff(L, others, t)
    BY CutoffExists
  <1>3. /\ K \in Nat /\ L \in Nat /\ 2 * Cardinality(bets) \in Nat /\ K <= 2 * Cardinality(bets)
        /\ 2 * Cardinality(others) \in Nat /\ L <= 2 * Cardinality(others)
    BY <1>1, <1>2, EventsCount DEF IsCutoff
  <1>4. K = L
    <2>1. K <= L
      BY <1>1, <1>2, NoShorter
    <2>2. L <= K
      BY <1>1, <1>2, NoShorter
    <2> QED
      BY <1>3, <2>1, <2>2
  <1>5. \A i \in 1..K : i \in 1..(2 * Cardinality(others)) /\ Events(others)[i] = Events(bets)[i]
    BY <1>1, SameBeginning
  <1>6. sims[0] = sims2[0]
    BY SimulateIs
  <1>7. ASSUME NEW k \in 1..K, sims[k - 1] = sims2[k - 1]
        PROVE  sims[k] = sims2[k]
    <2> DEFINE e == Events(bets)[k]
    <2>1. k \in 1..(2 * Cardinality(bets)) /\ k \in 1..(2 * Cardinality(others)) /\ e.at < t
      BY <1>1, <1>3, <1>5 DEF IsCutoff
    <2>2. e \in EventsOf(bets)
      BY <2>1, EventsAreScheduled DEF IsSchedule
    <2>3. sims[k] = Advance(sims[k - 1], e, results)
      BY <2>1, SimulateIs
    <2>4. sims2[k] = Advance(sims2[k - 1], e, others2)
      BY <1>5, <2>1, SimulateIs
    <2>5. /\ e.bet \in bets /\ e.phase \in {0, 1}
          /\ e.phase = 0 => e.at = ResolveTime[e.bet.market]
      BY <2>2, EventIs
    <2>6. e.bet.market \in DOMAIN ResolveTime
      BY <2>5 DEF Playable
    <2> HIDE DEF e, sims, sims2
    <2>7. e.phase = 0 => results[e.bet.market] = others2[e.bet.market]
      BY <2>1, <2>5, <2>6
    <2>8. Advance(sims[k - 1], e, results) = Advance(sims[k - 1], e, others2)
      <3>1. CASE e.phase = 1
        BY <3>1 DEF Advance
      <3>2. CASE e.phase = 0
        BY <2>7, <3>2 DEF Advance, TakeResolution
      <3> QED
        BY <2>5, <3>1, <3>2
    <2> QED
      BY <1>7, <2>3, <2>4, <2>8 DEF sims, sims2
  <1> HIDE DEF sims, sims2
  <1>8. \A k \in 0..K : sims[k] = sims2[k]
    BY <1>3, <1>6, <1>7, SameSteps
  <1>9. sims[K] = sims2[L]
    BY <1>3, <1>4, <1>8
  <1> QED
    BY <1>1, <1>2, <1>9, TakenByCutoff DEF sims, sims2

-----------------------------------------------------------------------------
(* The monitor's replays.                                                  *)

\* Ticks stored before a time make the candidates of before it.
LEMMA EarlierCandidates ==
  ASSUME NEW stored \in SUBSET Quotes, NEW universe \in SUBSET Markets, NEW t \in Int
  PROVE  \A c : c \in Candidates({q \in stored : q.time < t}, universe)
                <=> c \in Candidates(stored, universe) /\ c.time < t
  <1> DEFINE earlier == {q \in stored : q.time < t}
  <1> TAKE c
  <1>1. earlier \in SUBSET Quotes
    OBVIOUS
  <1>2. c \in Candidates(stored, universe)
           <=> \E q \in stored : Tradable(q, universe) /\ MadeOf(c, q, stored)
    BY CandidateIs
  <1>3. c \in Candidates(earlier, universe)
           <=> \E q \in earlier : Tradable(q, universe) /\ MadeOf(c, q, earlier)
    <2> HIDE DEF earlier
    <2> QED
      BY <1>1, CandidateIs
  <1>4. \A q \in stored : q \in Quotes /\ q.time \in Int
    BY MonitorAssumption DEF MonitorAssumption, QuoteType
  <1>5. \A q \in stored : MadeOf(c, q, stored) => c.time = q.time
    BY <1>4, DirectionalIs, ArbIs DEF MadeOf
  <1>6. \A q \in earlier : MadeOf(c, q, stored) <=> MadeOf(c, q, earlier)
    <2> TAKE q \in earlier
    <2>1. \A r \in stored : r.time < q.time => r \in earlier
      BY <1>4
    <2>2. earlier \subseteq stored
      OBVIOUS
    <2> HIDE DEF earlier
    <2>3. SoonerThan(q, stored) = SoonerThan(q, earlier)
      BY <2>1, <2>2 DEF SoonerThan
    <2> QED
      BY <2>3 DEF MadeOf
  <1>7. \A q : q \in earlier <=> q \in stored /\ q.time < t
    OBVIOUS
  <1> HIDE DEF earlier
  <1> QED
    BY <1>2, <1>3, <1>5, <1>6, <1>7 DEF earlier

LEMMA EarlierEvents ==
  ASSUME NEW bets, Playable(bets), NEW t \in Int,
         NEW others, \A c : c \in others <=> c \in bets /\ c.time < t
  PROVE  Early(others, t) = Early(bets, t)
  <1>1. \A c \in bets : /\ c.time \in Int /\ ResolveTime[c.market] \in Int
                        /\ c.time < ResolveTime[c.market]
    BY BacktestAssumption DEF BacktestAssumption, Playable, Directional, Arb
  <1>2. \A c : Entry(c).at = c.time /\ Resolution(c).at = ResolveTime[c.market]
    BY DEF Entry, Resolution
  <1>3. ASSUME NEW c \in bets, ~(c.time < t)
        PROVE  ~(Entry(c).at < t) /\ ~(Resolution(c).at < t)
    <2> DEFINE x == c.time
               y == ResolveTime[c.market]
    <2>1. x \in Int /\ y \in Int /\ x < y /\ ~(x < t)
      BY <1>1, <1>3
    <2>2. Entry(c).at = x /\ Resolution(c).at = y
      BY <1>2
    <2> HIDE DEF x, y
    <2>3. ~(y < t)
      BY <2>1
    <2> QED
      BY <2>1, <2>2, <2>3
  <1> QED
    BY <1>3 DEF Early, EventsOf

\* A replay's world, as it comes to be.
WorldInv == WorldTypes /\ IsFiniteSet(quotes) /\ IsFiniteSet(journal)

LEMMA EquityTyped ==
  ASSUME NEW stored \in SUBSET Quotes, IsFiniteSet(stored), NEW universe \in SUBSET Markets,
         NEW results
  PROVE  Final(Candidates(stored, universe), results).curve \in Seq(Int)
  <1> DEFINE bets == Candidates(stored, universe)
  <1>1. Playable(bets)
    BY CandidatesArePlayable
  <1> HIDE DEF bets
  <1>2. /\ 2 * Cardinality(bets) \in 0..(2 * Cardinality(bets))
        /\ Final(bets, results) = Simulate(bets, results)[2 * Cardinality(bets)]
    BY <1>1, SimulateIs
  <1>3. Final(bets, results) \in SimType
    BY <1>1, <1>2, ReplayKeeps DEF Kept
  <1> QED
    BY <1>3 DEF SimType, bets

LEMMA InitWorldInv == Init => WorldInv
  <1> SUFFICES ASSUME Init PROVE WorldInv
    OBVIOUS
  <1>1. Bankroll \in Int /\ Histories \subseteq Outcomes /\ MaxRelists \in Nat
    BY BacktestAssumption, MonitorAssumption DEF BacktestAssumption, MonitorAssumption
  <1>2. <<Bankroll>> \in Seq(Int)
    BY <1>1
  <1>3. IsFiniteSet(quotes) /\ IsFiniteSet(journal)
    BY FS_EmptySet DEF Init
  <1> QED
    BY <1>1, <1>2, <1>3 DEF Init, WorldInv, WorldTypes

LEMMA NextWorldInv == WorldInv /\ [Next]_vars => WorldInv'
  <1> SUFFICES ASSUME WorldInv, [Next]_vars PROVE WorldInv'
    OBVIOUS
  <1>0. MaxRelists \in Nat
    BY MonitorAssumption DEF MonitorAssumption
  <1>1. ASSUME NEW q \in Quotes, StoreQuote(q) PROVE WorldInv'
    <2>1. /\ quotes \cup {q} \in SUBSET Quotes /\ IsFiniteSet(quotes \cup {q})
          /\ tracked \in SUBSET Markets
      BY FS_AddElement DEF WorldInv, WorldTypes
    <2>2. Final(Candidates(quotes \cup {q}, tracked), outcome).curve \in Seq(Int)
      BY <2>1, EquityTyped
    <2> QED
      BY <1>1, <2>1, <2>2 DEF StoreQuote, WorldInv, WorldTypes
  <1>2. ASSUME NEW m \in Markets, Relist(m) PROVE WorldInv'
    <2> DEFINE universe == IF m \in tracked THEN tracked \ {m} ELSE tracked \cup {m}
    <2>1. universe \in SUBSET Markets /\ quotes \in SUBSET Quotes /\ IsFiniteSet(quotes)
      BY DEF WorldInv, WorldTypes
    <2> HIDE DEF universe
    <2>2. Final(Candidates(quotes, universe), outcome).curve \in Seq(Int)
      BY <2>1, EquityTyped
    <2>3. tracked' = universe /\ equity' = Final(Candidates(quotes, universe), outcome).curve
      BY <1>2 DEF Relist, universe
    <2>4. relists' \in 0..MaxRelists
      BY <1>0, <1>2 DEF Relist, WorldInv, WorldTypes
    <2> QED
      BY <1>2, <2>1, <2>2, <2>3, <2>4 DEF Relist, WorldInv, WorldTypes
  <1>3. ASSUME NEW r \in Records, JournalRecord(r) PROVE WorldInv'
    BY <1>3, FS_AddElement DEF JournalRecord, WorldInv, WorldTypes
  <1>4. ASSUME UNCHANGED world PROVE WorldInv'
    BY <1>4 DEF world, WorldInv, WorldTypes
  <1>5. CASE Tick \/ Cycle \/ FailCycle \/ Restart \/ UNCHANGED vars
    <2>1. UNCHANGED world
      BY <1>5 DEF Tick, Cycle, Replay, Judge, Publish, FailCycle, Restart, vars
    <2> QED
      BY <1>4, <2>1
  <1> QED
    BY <1>1, <1>2, <1>3, <1>5 DEF Next

LEMMA WorldInvariant == Spec => []WorldInv
  <1>1. Init => WorldInv
    BY InitWorldInv
  <1>2. WorldInv /\ [Next]_vars => WorldInv'
    BY NextWorldInv
  <1> QED
    BY <1>1, <1>2, PTL DEF Spec

\* Whatever is stored, tracked and resolved, a replay of it conserves money, owes
\* none, and ends with nothing open (simulate, build_candidates).
THEOREM ReplaysAreSolvent == Spec => []ReplayIsSolvent
  <1>1. WorldInv => ReplayIsSolvent
    <2> SUFFICES ASSUME WorldInv PROVE ReplayIsSolvent
      OBVIOUS
    <2>1. Playable(Replayed)
      BY CandidatesArePlayable DEF Replayed, WorldInv, WorldTypes
    <2> QED
      BY <2>1, PlayableIsSolvent DEF ReplayIsSolvent
  <1> QED
    BY <1>1, WorldInvariant, PTL

\* And it takes no bet that depends on what is known later: neither on how a
\* market resolves nor on a later tick (the as-of filter of build_candidates and
\* the order of simulate's events).
THEOREM ReplaysAreCausal == Spec => []ReplayIsCausal
  <1>1. WorldInv => ReplayIsCausal
    <2> SUFFICES ASSUME WorldInv PROVE ReplayIsCausal
      OBVIOUS
    <2>1. /\ quotes \in SUBSET Quotes /\ IsFiniteSet(quotes)
          /\ tracked \in SUBSET Markets /\ outcome \in Outcomes
      BY DEF WorldInv, WorldTypes
    <2>2. Playable(Replayed)
      BY <2>1, CandidatesArePlayable DEF Replayed
    <2>3. ASSUME NEW m \in DOMAIN ResolveTime
          PROVE  TakenBefore(Final(Replayed, outcome), ResolveTime[m])
                 = TakenBefore(Final(Replayed, Flipped(outcome, m)), ResolveTime[m])
      <3>1. ResolveTime[m] \in Int
        BY BacktestAssumption DEF BacktestAssumption
      <3>2. \A n \in DOMAIN ResolveTime :
               ResolveTime[n] < ResolveTime[m] => outcome[n] = Flipped(outcome, m)[n]
        BY <2>1, <3>1 DEF Outcomes, Flipped
      <3> QED
        BY <2>2, <3>1, <3>2, SameHistory
    <2>4. ASSUME NEW q \in quotes
          PROVE  LET earlier == {other \in quotes : other.time < q.time}
                 IN TakenBefore(Final(Replayed, outcome), q.time)
                    = TakenBefore(Final(Candidates(earlier, tracked), outcome), q.time)
      <3> DEFINE earlier == {other \in quotes : other.time < q.time}
                 others == Candidates(earlier, tracked)
      <3>1. q.time \in Int
        BY <2>1, MonitorAssumption DEF MonitorAssumption, QuoteType
      <3>2. earlier \in SUBSET Quotes /\ IsFiniteSet(earlier)
        BY <2>1, FS_Subset
      <3>3. Playable(others)
        BY <2>1, <3>2, CandidatesArePlayable
      <3>4. \A c : c \in others <=> c \in Replayed /\ c.time < q.time
        BY <2>1, <3>1, EarlierCandidates DEF Replayed
      <3> HIDE DEF others
      <3>5. Early(others, q.time) = Early(Replayed, q.time)
        BY <2>2, <3>1, <3>4, EarlierEvents
      <3>6. TakenBefore(Final(Replayed, outcome), q.time) = TakenBefore(Final(others, outcome), q.time)
        BY <2>2, <3>1, <3>3, <3>5, SameHistory
      <3> QED
        BY <3>6 DEF others
    <2> QED
      BY <2>3, <2>4 DEF ReplayIsCausal, Causal
  <1> QED
    BY <1>1, WorldInvariant, PTL

\* Whatever is stored, tracked and resolved, and whatever fails, the monitor's
\* variables are of their types, and what it publishes is of what it found.
THEOREM MonitorTypes == Spec => []TypeOK
  <1>1. WorldInv /\ IInv => TypeOK
    BY DEF WorldInv, IInv, TypeOK
  <1> QED
    BY <1>1, WorldInvariant, MonitorInvariant, PTL
=============================================================================
