----------------------------- MODULE Ingestion ------------------------------
(***************************************************************************)
(* What fills the store: scanners (ingestion/scanner.py) that keep the     *)
(* tracked universe and quote it, and pollers (ingestion/trades_engine.py) *)
(* that append the trade prints of the tracked markets.                    *)
(*                                                                         *)
(* A scanner runs alone (compose) or also inside the API                   *)
(* (EDGE_RUN_POLLER_ON_STARTUP), so that two may share the table.  Locks   *)
(* are Postgres row locks under READ COMMITTED: an UPDATE chooses its rows *)
(* from what is committed when it starts, then waits for those held.       *)
(***************************************************************************)
EXTENDS Integers, Sequences, FiniteSets

CONSTANTS
    Markets,
    Liquidity,        \* a rank per market, no two alike
    TopN,             \* top_n
    Scanners,
    DiscoveryEvery,   \* discovery_interval_s, in scans
    Prints,           \* records: id, market, token, time
    Limit,            \* trades_limit
    Pollers,
    Deployments,      \* which scanners and pollers run together
    InitialListing,
    MaxRelists, MaxFaults

Tokens == {"yes", "no"}

ASSUME IngestionAssumption ==
    /\ IsFiniteSet(Markets)
    /\ Liquidity \in [Markets -> Nat]
    /\ \A m, n \in Markets : Liquidity[m] = Liquidity[n] => m = n
    /\ TopN \in Nat
    /\ DiscoveryEvery \in Nat \ {0}
    /\ \A x \in Prints : x.market \in Markets /\ x.time \in Nat \ {0} /\ x.id \in Nat
    /\ Limit \in Nat \ {0}
    /\ Deployments \subseteq SUBSET (Scanners \cup Pollers)
    /\ InitialListing \subseteq Markets
    /\ MaxRelists \in Nat /\ MaxFaults \in Nat

VARIABLES
    deployed,    \* the processes that run
    listed,      \* Gamma: active, open, with an order book, yes/no
    relists,
    tape,        \* the Data API: prints in the order in which they appeared
    markets,     \* the table: whether a known market is tracked
    scan,        \* per scanner: where it is, the universe and the rows to untrack
    age,         \* scans since a scanner's last discovery
    locks,       \* rows of markets that its transaction holds
    kept,        \* history: the universe it last committed
    poll,        \* per poller: where it is, markets to ask, prints answered
    since,       \* its cursor: a time per market and token, 0 for none
    rows,        \* the trades table: copies per print
    inserted,    \* history: of them, by this run of the poller
    refused,     \* history: prints in an insert that failed
    faults

scanning == <<scan, age, locks, kept>>
polling == <<poll, since, rows, inserted, refused>>
world == <<deployed, listed, relists, tape>>
vars == <<world, markets, scanning, polling, faults>>

Tracked == {m \in DOMAIN markets : markets[m]}

\* rank_and_select without an allowlist.
Selected(found) ==
    {m \in found : Cardinality({n \in found : Liquidity[n] > Liquidity[m]}) < TopN}

Fault == faults < MaxFaults /\ faults' = faults + 1

-----------------------------------------------------------------------------
(* The exchange.                                                           *)

\* A market opens or closes, or gains or loses its place on Gamma's page.
Relist(m) ==
    /\ relists < MaxRelists
    /\ relists' = relists + 1
    /\ listed' = IF m \in listed THEN listed \ {m} ELSE listed \cup {m}
    /\ UNCHANGED <<deployed, tape, markets, scanning, polling, faults>>

OnTape(x) == \E i \in DOMAIN tape : tape[i] = x

Alike(x, y) == x.market = y.market /\ x.token = y.token /\ x.time = y.time

\* A trade.  Without a poller nobody reads it; which of two that are alike is
\* the first does not matter.
Trade(x) ==
    /\ Pollers \cap deployed # {}
    /\ ~OnTape(x)
    /\ \A y \in Prints : Alike(x, y) /\ y.id < x.id => OnTape(y)
    /\ tape' = Append(tape, x)
    /\ UNCHANGED <<deployed, listed, relists, markets, scanning, polling, faults>>

-----------------------------------------------------------------------------
(* A scanner.                                                              *)

Idle == [pc |-> "idle", universe |-> {}, found |-> FALSE, targets |-> {}]

\* Mutant: only the first scan discovers.
NeverOlder(s) == age[s]

Older(s) == IF age[s] < DiscoveryEvery THEN age[s] + 1 ELSE age[s]

\* run_scan_once without discovery.
BeginScan(s) ==
    /\ s \in deployed
    /\ scan[s].pc = "idle"
    /\ age[s] < DiscoveryEvery
    /\ scan' = [scan EXCEPT ![s] = [Idle EXCEPT !.pc = "snapshot", !.universe = Tracked]]
    /\ UNCHANGED <<world, markets, age, locks, kept, polling, faults>>

\* With discovery, on the first cycle and once it is due: what cannot be read
\* of Gamma's answer is skipped.
Discover(s) ==
    /\ s \in deployed
    /\ scan[s].pc = "idle"
    /\ age[s] = DiscoveryEvery
    /\ \E found \in SUBSET listed :
          /\ IF found = listed THEN UNCHANGED faults ELSE Fault
          /\ scan' = [scan EXCEPT ![s] = [Idle EXCEPT !.pc = "upsert", !.found = TRUE,
                                                     !.universe = Selected(found)]]
    /\ UNCHANGED <<world, markets, age, locks, kept, polling>>

\* Mutant: no rollback.
FailScanHolding(s) ==
    /\ scan' = [scan EXCEPT ![s] = Idle]
    /\ age' = [age EXCEPT ![s] = Older(s)]
    /\ UNCHANGED <<world, markets, locks, kept, polling>>

\* run_poller's except: the transaction is rolled back, the cycle is over.
FailScan(s) ==
    /\ scan' = [scan EXCEPT ![s] = Idle]
    /\ locks' = [locks EXCEPT ![s] = {}]
    /\ age' = [age EXCEPT ![s] = Older(s)]
    /\ UNCHANGED <<world, markets, kept, polling>>

HeldByOthers(s) == UNION {locks[t] : t \in Scanners \ {s}}

\* Rows that the statement at hand has yet to lock.
Wanted(s) ==
    (IF scan[s].pc = "upsert" THEN scan[s].universe
     ELSE IF scan[s].pc = "commit" THEN scan[s].targets ELSE {}) \ locks[s]

\* One row after the other, in an order that statements share.
LockRow(s) ==
    \E m \in Wanted(s) \ HeldByOthers(s) :
       /\ \A n \in Wanted(s) : Liquidity[n] <= Liquidity[m]
       /\ locks' = [locks EXCEPT ![s] = @ \cup {m}]
       /\ UNCHANGED <<world, markets, scan, age, kept, polling, faults>>

\* upsert_markets, in a transaction.
UpsertMarkets(s) ==
    /\ scan[s].pc = "upsert"
    /\ Wanted(s) = {}
    /\ scan' = [scan EXCEPT ![s].pc = "untrack"]
    /\ UNCHANGED <<world, markets, age, locks, kept, polling, faults>>

\* Mutant: what is tracked stays so.
TargetsNone(s) == {}

Targets(s) == Tracked \ scan[s].universe

\* set_untracked starts: its rows are chosen from what is committed.
SetUntracked(s) ==
    /\ scan[s].pc = "untrack"
    /\ scan' = [scan EXCEPT ![s] = [@ EXCEPT !.pc = "commit", !.targets = Targets(s)]]
    /\ UNCHANGED <<world, markets, age, locks, kept, polling, faults>>

\* Once it has all its rows it ends, and the transaction commits.
CommitUniverse(s) ==
    /\ scan[s].pc = "commit"
    /\ Wanted(s) = {}
    /\ markets' = [m \in DOMAIN markets \cup scan[s].universe |->
          m \in scan[s].universe \/ (m \in Tracked /\ m \notin scan[s].targets)]
    /\ kept' = [kept EXCEPT ![s] = scan[s].universe]
    /\ locks' = [locks EXCEPT ![s] = {}]
    /\ scan' = [scan EXCEPT ![s] = [@ EXCEPT !.pc = "snapshot", !.targets = {}]]
    /\ UNCHANGED <<world, age, polling, faults>>

\* t has a row that s needs.
WaitsFor(s, t) == s # t /\ Wanted(s) \cap locks[t] # {}

\* Postgres breaks a circle of transactions by aborting one of them.
AbortDeadlocked(s) ==
    /\ \E t \in Scanners : WaitsFor(s, t) /\ WaitsFor(t, s)
    /\ FailScan(s)
    /\ UNCHANGED faults

\* The quotes are fetched and inserted (nothing here reads them): the cycle is
\* over, and only now does a discovery count as one.
Snapshot(s) ==
    /\ scan[s].pc = "snapshot"
    /\ age' = [age EXCEPT ![s] = IF scan[s].found THEN 1 ELSE Older(s)]
    /\ scan' = [scan EXCEPT ![s] = Idle]
    /\ UNCHANGED <<world, markets, locks, kept, polling, faults>>

\* A request or a statement fails, the commit included.
LoseScan(s) ==
    /\ scan[s].pc # "idle"
    /\ Fault
    /\ FailScan(s)

RestartScanner(s) ==
    /\ s \in deployed
    /\ Fault
    /\ scan' = [scan EXCEPT ![s] = Idle]
    /\ locks' = [locks EXCEPT ![s] = {}]
    /\ age' = [age EXCEPT ![s] = DiscoveryEvery]
    /\ UNCHANGED <<world, markets, kept, polling>>

-----------------------------------------------------------------------------
(* A poller of trades.                                                     *)

Resting == [pc |-> "idle", todo |-> {}, batch |-> {}]
NoCursor == [key \in Markets \X Tokens |-> 0]
Key(x) == <<x.market, x.token>>

\* run_trades_scan_once begins.  Run "once" it is a run that then restarts.
BeginPoll(p) ==
    /\ p \in deployed
    /\ poll[p].pc = "idle"
    /\ poll' = [poll EXCEPT ![p] = [Resting EXCEPT !.pc = "fetch", !.todo = Tracked]]
    /\ UNCHANGED <<world, markets, scanning, since, rows, inserted, refused, faults>>

OfMarket(m) == {x \in Prints : OnTape(x) /\ x.market = m}

\* The latest prints of a market, Limit at most.
Answers(m) ==
    {r \in SUBSET OfMarket(m) :
        /\ Cardinality(r) <= Limit
        /\ Cardinality(r) < Limit => r = OfMarket(m)
        /\ \A x \in r, y \in OfMarket(m) \ r : x.time >= y.time}

\* _trades_for_market: nothing of a market whose request or parsing fails.
Fetch(p, m) ==
    /\ poll[p].pc = "fetch"
    /\ m \in poll[p].todo
    /\ \/ /\ \E r \in Answers(m) :
                poll' = [poll EXCEPT ![p] =
                   [pc |-> "fetch", todo |-> poll[p].todo \ {m},
                    batch |-> poll[p].batch \cup {x \in r : x.token \in Tokens}]]
          /\ UNCHANGED faults
       \/ /\ Fault
          /\ poll' = [poll EXCEPT ![p].todo = @ \ {m}]
    /\ UNCHANGED <<world, markets, scanning, since, rows, inserted, refused>>

\* Mutant: a print of the cursor's own second is taken again.
FreshAgain(p) == {x \in poll[p].batch : x.time >= since[p][Key(x)]}

\* Mutant: the cursors of both tokens count.
FreshOfBoth(p) ==
    {x \in poll[p].batch : \A t \in Tokens : x.time > since[p][<<x.market, t>>]}

\* What is not later than the cursor is taken for already ingested.
Fresh(p) == {x \in poll[p].batch : x.time > since[p][Key(x)]}

\* Mutant: a print of any token moves the cursor of its market's tokens.
MovesAny(x, key) == x.market = key[1]

Moves(x, key) == Key(x) = key

\* Per token, the latest of the old time and those of what is fresh.
Advances(old, new, fresh) ==
    \A key \in Markets \X Tokens :
       LET times == {old[key]} \cup {x.time : x \in {y \in fresh : Moves(y, key)}}
       IN new[key] \in times /\ \A t \in times : t <= new[key]

\* All have answered: the cursor is moved, before anything is stored.
Sift(p) ==
    /\ poll[p].pc = "fetch"
    /\ poll[p].todo = {}
    /\ poll' = [poll EXCEPT ![p] = [pc |-> "insert", todo |-> {}, batch |-> Fresh(p)]]
    /\ \E cursor \in [Markets \X Tokens -> {0} \cup {x.time : x \in Prints}] :
          /\ Advances(since[p], cursor, Fresh(p))
          /\ since' = [since EXCEPT ![p] = cursor]
    /\ UNCHANGED <<world, markets, scanning, rows, inserted, refused, faults>>

OneMore(copies, batch) == [x \in Prints |-> IF x \in batch THEN copies[x] + 1 ELSE copies[x]]

\* insert_trades: one statement for the prints of all markets.
InsertTrades(p) ==
    /\ poll[p].pc = "insert"
    /\ rows' = OneMore(rows, poll[p].batch)
    /\ inserted' = [inserted EXCEPT ![p] = OneMore(@, poll[p].batch)]
    /\ poll' = [poll EXCEPT ![p] = Resting]
    /\ UNCHANGED <<world, markets, scanning, since, refused, faults>>

\* The insert fails; the cursor stays where it is.
LoseTrades(p) ==
    /\ poll[p].pc = "insert"
    /\ Fault
    /\ refused' = refused \cup poll[p].batch
    /\ poll' = [poll EXCEPT ![p] = Resting]
    /\ UNCHANGED <<world, markets, scanning, since, rows, inserted>>

RestartPoller(p) ==
    /\ p \in deployed
    /\ Fault
    /\ poll' = [poll EXCEPT ![p] = Resting]
    /\ since' = [since EXCEPT ![p] = NoCursor]
    /\ inserted' = [inserted EXCEPT ![p] = [x \in Prints |-> 0]]
    /\ UNCHANGED <<world, markets, scanning, rows, refused>>

-----------------------------------------------------------------------------
Init ==
    /\ deployed \in Deployments
    /\ listed = InitialListing
    /\ relists = 0
    /\ tape = <<>>
    /\ markets = [m \in {} |-> FALSE]
    /\ scan = [s \in Scanners |-> Idle]
    /\ age = [s \in Scanners |-> DiscoveryEvery]
    /\ locks = [s \in Scanners |-> {}]
    /\ kept = [s \in Scanners |-> {}]
    /\ poll = [p \in Pollers |-> Resting]
    /\ since = [p \in Pollers |-> NoCursor]
    /\ rows = [x \in Prints |-> 0]
    /\ inserted = [p \in Pollers |-> [x \in Prints |-> 0]]
    /\ refused = {}
    /\ faults = 0

Scan(s) ==
    \/ BeginScan(s)
    \/ Discover(s)
    \/ UpsertMarkets(s)
    \/ SetUntracked(s)
    \/ CommitUniverse(s)
    \/ Snapshot(s)

Poll(p) ==
    \/ BeginPoll(p)
    \/ \E m \in Markets : Fetch(p, m)
    \/ Sift(p)
    \/ InsertTrades(p)

Next ==
    \/ \E m \in Markets : Relist(m)
    \/ \E x \in Prints : Trade(x)
    \/ \E s \in Scanners : Scan(s) \/ LockRow(s) \/ AbortDeadlocked(s) \/ LoseScan(s)
                           \/ RestartScanner(s)
    \/ \E p \in Pollers : Poll(p) \/ LoseTrades(p) \/ RestartPoller(p)

Spec == Init /\ [][Next]_vars

\* Every process goes on; Postgres serves those who wait for a row in turn and
\* always ends a circle.
FairSpec ==
    /\ Spec
    /\ \A s \in Scanners :
          WF_vars(Scan(s)) /\ SF_vars(LockRow(s)) /\ WF_vars(AbortDeadlocked(s))
    /\ \A p \in Pollers : WF_vars(Poll(p))

-----------------------------------------------------------------------------
(* Types, and what TLC checks.                                             *)

WorldTypes ==
    /\ deployed \in Deployments
    /\ listed \subseteq Markets /\ relists \in 0..MaxRelists
    /\ tape \in Seq(Prints)
    /\ faults \in 0..MaxFaults

ScanTypes ==
    /\ DOMAIN markets \subseteq Markets /\ markets \in [DOMAIN markets -> BOOLEAN]
    /\ scan \in [Scanners -> [pc: {"idle", "upsert", "untrack", "commit", "snapshot"},
                              universe: SUBSET Markets, found: BOOLEAN,
                              targets: SUBSET Markets]]
    /\ age \in [Scanners -> 0..DiscoveryEvery]
    /\ locks \in [Scanners -> SUBSET Markets]
    /\ \A s \in Scanners : locks[s] # {} => scan[s].pc \in {"upsert", "untrack", "commit"}
    /\ kept \in [Scanners -> SUBSET Markets]

PollTypes ==
    /\ poll \in [Pollers -> [pc: {"idle", "fetch", "insert"}, todo: SUBSET Markets,
                             batch: SUBSET Prints]]
    /\ since \in [Pollers -> [Markets \X Tokens -> Nat]]
    /\ rows \in [Prints -> Nat]
    /\ inserted \in [Pollers -> [Prints -> Nat]]
    /\ refused \subseteq Prints

\* The shape of every variable; only a transaction holds locks.
TypeOK == WorldTypes /\ ScanTypes /\ PollTypes

\* However scanners interleave, a tracked market is in the universe that one of
\* them committed last: none stays tracked that all have since left out.
TrackedIsKept == Tracked \subseteq UNION {kept[s] : s \in Scanners}

\* Within a run of a poller no print is stored twice.
NeverTwiceInARun == \A p \in Pollers, x \in Prints : inserted[p][x] <= 1

\* A print that came after one of its token, no older than itself.
Late(x) ==
    \E i, j \in DOMAIN tape :
       i < j /\ tape[j] = x /\ Key(tape[i]) = Key(x) /\ tape[i].time >= x.time

\* A print that need not be in an answer of its market.
Crowded(x) == Cardinality({y \in OfMarket(x.market) : y # x /\ y.time >= x.time}) >= Limit

\* The cursor passes over a print that is not stored only if the print came
\* late, was crowded out, or was in an insert that failed.
CursorCovers ==
    \A p \in Pollers : \A x \in Prints :
       /\ x.token \in Tokens
       /\ OnTape(x)
       /\ x.time <= since[p][Key(x)]
       /\ ~(poll[p].pc = "insert" /\ x \in poll[p].batch)
       => rows[x] > 0 \/ Late(x) \/ Crowded(x) \/ x \in refused

\* Once the listing and the faults are over, the universe is the right one,
\* after an empty answer, a lost commit, an overlap or a deadlock.
UniverseConverges == <>[](Tracked = Selected(listed))

\* And again and again every print there is of a tracked market is stored, but
\* for the excuses.
PrintsArrive ==
    []<>(\A x \in Prints :
            x.token \in Tokens /\ OnTape(x) /\ x.market \in Tracked
            => rows[x] > 0 \/ Late(x) \/ Crowded(x) \/ x \in refused)
=============================================================================
