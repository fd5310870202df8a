------------------------------ MODULE Monitor -------------------------------
(***************************************************************************)
(* The monitor (monitoring/engine.py): cycle by cycle it replays the       *)
(* backtest and scores the journal, and publishes alerts through an        *)
(* AlertDeduper (observability/alert_dedup.py), while the store fills and  *)
(* statements, requests and publications fail.                             *)
(*                                                                         *)
(* Times are ages that stop at the cooldown: the deduper has no other use  *)
(* for them.  A kind it may emit at once has that age, whether it was      *)
(* never emitted, was re-armed, or was emitted long ago.                   *)
(***************************************************************************)
EXTENDS Backtest

CONSTANTS
    Quotes,           \* ticks that may be stored
    Records,          \* what may be journaled: id, estimate, outcome
    Histories,        \* ways in which the markets may have come out
    DrawdownThreshold, DriftThreshold, HighConfidence,
    Cooldown,         \* alert_cooldown_s, in sleeps of the loop
    MaxRelists, MaxFaults

Kinds == {"drawdown_breach", "calibration_drift"}

TokenRow == [row: {"missing", "unpriced", "priced"}, mid: 0..100, half: 0..100]

QuoteType ==
    [market: Markets, time: Nat, token: [Sides -> TokenRow], arb: [edge: Int, capital: Nat]]

\* A scan stores one tick of a market at a time; nothing is to be had for nothing.
ASSUME MonitorAssumption ==
    /\ Quotes \subseteq QuoteType
    /\ \A q, r \in Quotes : q.market = r.market /\ q.time = r.time => q = r
    /\ \A q \in Quotes, side \in Sides : IsPriced(q, side) => q.token[side].half + Costs > 0
    /\ \A r \in Records : r.estimate \in 0..100 /\ r.outcome \in {0, 1}
    /\ HighConfidence \in 1..100
    /\ Cooldown \in Nat \ {0}
    /\ Histories \subseteq Outcomes
    /\ MaxRelists \in Nat /\ MaxFaults \in Nat

VARIABLES
    outcome,     \* the resolutions file
    quotes,      \* the table
    tracked,     \* markets that discovery tracks
    relists,
    equity,      \* what run_backtest_once makes of the two, kept beside them
    journal,     \* the calibration table
    pc,          \* where the cycle is
    rested,      \* the loop has slept
    found,       \* conditions that this cycle has found
    batch,       \* alerts yet to be published
    last,        \* AlertDeduper: age of the last emit
    aired,       \* history: the same, of those that were published
    lost,        \* history: and of those that were not
    quiet,       \* history: found clear (or forgotten) since it was published
    faults

world == <<outcome, quotes, tracked, relists, equity, journal>>
history == <<aired, lost, quiet>>
vars == <<world, pc, rested, found, batch, last, history, faults>>

Replayed == Candidates(quotes, tracked)

-----------------------------------------------------------------------------
(* Conditions.                                                             *)

\* evaluate_drawdown.
DrawdownBreached == DrawdownReaches(equity, DrawdownThreshold)

Confident == {r \in journal : r.estimate >= HighConfidence}

\* evaluate_calibration_drift, of suggest_kelly_fraction's averages.
Drifting ==
    /\ Confident # {}
    /\ MapThenSumSet(LAMBDA r : r.estimate - 100 * r.outcome, Confident)
          >= DriftThreshold * Cardinality(Confident)

Breached(k) == IF k = "drawdown_breach" THEN DrawdownBreached ELSE Drifting

-----------------------------------------------------------------------------
(* The store, and time.                                                    *)

\* The scan stores a tick, later than those before.
StoreQuote(q) ==
    /\ q \notin quotes
    /\ \A other \in quotes : other.time <= q.time
    /\ quotes' = quotes \cup {q}
    /\ equity' = Final(Candidates(quotes \cup {q}, tracked), outcome).curve
    /\ UNCHANGED <<outcome, tracked, relists, journal, pc, rested, found, batch, last, history, faults>>

\* Discovery takes a market up or leaves it out.
Relist(m) ==
    /\ relists < MaxRelists
    /\ relists' = relists + 1
    /\ LET universe == IF m \in tracked THEN tracked \ {m} ELSE tracked \cup {m}
       IN /\ tracked' = universe
          /\ equity' = Final(Candidates(quotes, universe), outcome).curve
    /\ UNCHANGED <<outcome, quotes, journal, pc, rested, found, batch, last, history, faults>>

\* The resolution watcher journals.
JournalRecord(r) ==
    /\ r \notin journal
    /\ journal' = journal \cup {r}
    /\ UNCHANGED <<outcome, quotes, tracked, relists, equity, pc, rested, found, batch, last, history, faults>>

Older(ages) == [k \in Kinds |-> Least(ages[k] + 1, Cooldown)]

\* One sleep of the loop passes, whether it sleeps or not.
Tick ==
    /\ last' = Older(last)
    /\ aired' = Older(aired)
    /\ lost' = Older(lost)
    /\ rested' = TRUE
    /\ UNCHANGED <<world, pc, found, batch, quiet, faults>>

-----------------------------------------------------------------------------
(* run_monitor.                                                            *)

\* fetch_backtest; the alert is formed at once.
Replay ==
    /\ pc = "idle"
    /\ rested
    /\ pc' = "drift"
    /\ found' = IF DrawdownBreached THEN {"drawdown_breach"} ELSE {}
    /\ UNCHANGED <<world, rested, batch, last, history, faults>>

\* Mutant: a suppressed alert counts as an emit.
FilterStampingAll(detected) ==
    /\ batch' = {k \in detected : last[k] = Cooldown}
    /\ last' = [k \in Kinds |-> IF k \in detected THEN 0 ELSE Cooldown]

\* Mutant: a condition that clears is not re-armed.
FilterNeverRearming(detected) ==
    /\ batch' = {k \in detected : last[k] = Cooldown}
    /\ last' = [k \in Kinds |-> IF k \in batch' THEN 0 ELSE last[k]]

\* Mutant: cleared or not, an alert is emitted again.
FilterNothing(detected) ==
    /\ batch' = detected
    /\ last' = [k \in Kinds |-> IF k \in batch' THEN 0 ELSE Cooldown]

\* AlertDeduper.filter: re-arm what has cleared, emit what may be, and stamp it.
Filter(detected) ==
    /\ batch' = {k \in detected : last[k] = Cooldown}
    /\ last' = [k \in Kinds |->
          IF k \notin detected THEN Cooldown ELSE IF k \in batch' THEN 0 ELSE last[k]]

\* The loop is done with its cycle and sleeps.
EndCycle == pc' = "idle" /\ rested' = FALSE

\* load_calibration_records, and then the verdict on all that was found.
Judge ==
    /\ pc = "drift"
    /\ found' = found \cup (IF Drifting THEN {"calibration_drift"} ELSE {})
    /\ Filter(found')
    /\ quiet' = [k \in Kinds |-> quiet[k] \/ k \notin found']
    /\ IF batch' = {} THEN EndCycle ELSE pc' = "publish" /\ UNCHANGED rested
    /\ UNCHANGED <<world, aired, lost, faults>>

\* The next of the batch, in the order in which they were found.
Turn(k) == k \in batch /\ ("drawdown_breach" \in batch => k = "drawdown_breach")

\* publish_alert.
Publish(k) ==
    /\ pc = "publish"
    /\ Turn(k)
    /\ batch' = batch \ {k}
    /\ aired' = [aired EXCEPT ![k] = last[k]]
    /\ quiet' = [quiet EXCEPT ![k] = FALSE]
    /\ IF batch' = {} THEN EndCycle ELSE UNCHANGED <<pc, rested>>
    /\ UNCHANGED <<world, found, last, lost, faults>>

Fault == faults < MaxFaults /\ faults' = faults + 1

\* Mutant: what was not published is kept for later.
FailCycleKeeping ==
    /\ pc # "idle" \/ rested
    /\ Fault
    /\ EndCycle
    /\ found' = {}
    /\ UNCHANGED <<world, batch, last, history>>

\* An exception anywhere ends the cycle; the rest of the batch is not published.
FailCycle ==
    /\ pc # "idle" \/ rested
    /\ Fault
    /\ EndCycle
    /\ batch' = {}
    /\ found' = {}
    /\ lost' = [k \in Kinds |-> IF k \in batch THEN last[k] ELSE lost[k]]
    /\ UNCHANGED <<world, last, aired, quiet>>

Restart ==
    /\ Fault
    /\ pc' = "idle" /\ rested' = TRUE
    /\ batch' = {}
    /\ found' = {}
    /\ last' = [k \in Kinds |-> Cooldown]
    /\ quiet' = [k \in Kinds |-> TRUE]
    /\ UNCHANGED <<world, aired, lost>>

-----------------------------------------------------------------------------
Init ==
    /\ outcome \in Histories
    /\ quotes = {}
    /\ tracked = Markets
    /\ relists = 0
    /\ equity = <<Bankroll>>
    /\ journal = {}
    /\ pc = "idle" /\ rested = TRUE
    /\ found = {}
    /\ batch = {}
    /\ last = [k \in Kinds |-> Cooldown]
    /\ aired = [k \in Kinds |-> Cooldown]
    /\ lost = [k \in Kinds |-> Cooldown]
    /\ quiet = [k \in Kinds |-> TRUE]
    /\ faults = 0

Cycle == Replay \/ Judge \/ \E k \in Kinds : Publish(k)

Next ==
    \/ \E q \in Quotes : StoreQuote(q)
    \/ \E m \in Markets : Relist(m)
    \/ \E r \in Records : JournalRecord(r)
    \/ Tick
    \/ Cycle
    \/ FailCycle
    \/ Restart

Spec == Init /\ [][Next]_vars

\* The loop goes on, and so does time.
FairSpec == Spec /\ WF_vars(Cycle) /\ WF_vars(Tick)

-----------------------------------------------------------------------------
Ages == [Kinds -> 0..Cooldown]

WorldTypes ==
    /\ outcome \in Outcomes
    /\ quotes \subseteq Quotes /\ tracked \subseteq Markets /\ journal \subseteq Records
    /\ equity \in Seq(Int)
    /\ relists \in 0..MaxRelists

LoopTypes ==
    /\ pc \in {"idle", "drift", "publish"} /\ rested \in BOOLEAN
    /\ batch \subseteq found /\ found \subseteq Kinds
    /\ (batch # {}) <=> pc = "publish"
    /\ last \in Ages /\ aired \in Ages /\ lost \in Ages
    /\ quiet \in [Kinds -> BOOLEAN]
    /\ faults \in 0..MaxFaults

\* The shape of every variable.  The batch is of what was found, and waits only
\* while the loop publishes.
TypeOK == WorldTypes /\ LoopTypes

Judged == pc = "drift" /\ pc' # "drift" /\ faults' = faults

\* While a condition persists, what was published is not emitted again within
\* the cooldown; only what cleared since, or a restart, is.
AtMostOncePerCooldown ==
    [][Judged => \A k \in batch' : aired[k] = Cooldown \/ quiet[k]]_vars

\* What a cycle finds and does not emit was published within the cooldown, in
\* this breach and no earlier one, unless its publication was lost.
SilenceIsExplained ==
    [][Judged => \A k \in found' \ batch' :
                    (aired[k] < Cooldown /\ ~quiet[k]) \/ lost[k] < Cooldown]_vars

\* A condition that stays breached is announced over and over, whatever was
\* lost before.
BreachIsAnnounced ==
    \A k \in Kinds : <>[]Breached(k) => []<><<Publish(k)>>_vars

\* Every replay of what is stored keeps its books.
ReplayIsSolvent == Solvent(Replayed, outcome)

\* And no bet of it knows how a market comes out that resolves later, nor of
\* quotes that are stored later.
ReplayIsCausal ==
    /\ Causal(Replayed, outcome)
    /\ LET final == Final(Replayed, outcome)
       IN \A q \in quotes :
             LET earlier == {other \in quotes : other.time < q.time}
             IN TakenBefore(final, q.time)
                = TakenBefore(Final(Candidates(earlier, tracked), outcome), q.time)
=============================================================================
