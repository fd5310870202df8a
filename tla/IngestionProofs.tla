-------------------------- MODULE IngestionProofs ---------------------------
(***************************************************************************)
(* For any scanners, pollers, markets and prints: the types; that nothing  *)
(* stays tracked which no scanner keeps; that a run of a poller stores no  *)
(* print twice; and what its cursor may pass over.                         *)
(***************************************************************************)
EXTENDS Ingestion, FiniteSetTheorems, TLAPS

LEMMA InitTypes == Init => TypeOK
  BY IngestionAssumption
     DEF Init, TypeOK, WorldTypes, ScanTypes, PollTypes, IngestionAssumption, Idle, Resting,
         NoCursor, Tokens

\* A fault is counted.
LEMMA FaultTypes ==
  ASSUME WorldTypes, Fault
  PROVE  faults' \in 0..MaxFaults
  BY IngestionAssumption DEF IngestionAssumption, WorldTypes, Fault

\* Between two cycles a scanner has no locks and its count is in range.
LEMMA FailScanTypes ==
  ASSUME ScanTypes, NEW s \in Scanners, FailScan(s)
  PROVE  ScanTypes'
  <1>1. Older(s) \in 0..DiscoveryEvery
    BY IngestionAssumption DEF IngestionAssumption, ScanTypes, Older
  <1>2. Idle \in [pc: {"idle", "upsert", "untrack", "commit", "snapshot"},
                  universe: SUBSET Markets, found: BOOLEAN, targets: SUBSET Markets]
    BY DEF Idle
  <1> QED
    BY <1>1, <1>2 DEF ScanTypes, FailScan

LEMMA ScannerTypes ==
  ASSUME TypeOK, NEW s \in Scanners,
         Scan(s) \/ LockRow(s) \/ AbortDeadlocked(s) \/ LoseScan(s) \/ RestartScanner(s)
  PROVE  TypeOK'
  <1> USE DEF TypeOK
  <1> DEFINE ScanType == [pc: {"idle", "upsert", "untrack", "commit", "snapshot"},
                          universe: SUBSET Markets, found: BOOLEAN, targets: SUBSET Markets]
  <1>a. Idle \in ScanType
    BY DEF Idle
  <1>b. Tracked \subseteq Markets
    BY DEF Tracked, ScanTypes
  <1>c. Older(s) \in 0..DiscoveryEvery /\ 1 \in 0..DiscoveryEvery
        /\ DiscoveryEvery \in 0..DiscoveryEvery
    BY IngestionAssumption DEF IngestionAssumption, ScanTypes, Older
  <1>1. CASE BeginScan(s)
    BY <1>1, <1>a, <1>b
       DEF BeginScan, WorldTypes, ScanTypes, PollTypes, Idle, world, polling
  <1>2. CASE Discover(s)
    <2> PICK found \in SUBSET listed :
          /\ faults' = faults \/ Fault
          /\ scan' = [scan EXCEPT ![s] = [Idle EXCEPT !.pc = "upsert", !.found = TRUE,
                                                     !.universe = Selected(found)]]
      BY <1>2 DEF Discover
    <2>1. Selected(found) \subseteq Markets
      BY DEF Selected, WorldTypes
    <2>2. [Idle EXCEPT !.pc = "upsert", !.found = TRUE, !.universe = Selected(found)] \in ScanType
      BY <2>1 DEF Idle
    <2>3. WorldTypes'
      BY <1>2, FaultTypes DEF Discover, WorldTypes, world
    <2>4. ScanTypes'
      BY <1>2, <2>2 DEF Discover, ScanTypes
    <2> QED
      BY <1>2, <2>3, <2>4 DEF Discover, PollTypes, polling
  <1>3. CASE UpsertMarkets(s)
    <2>1. scan' \in [Scanners -> ScanType]
      BY <1>3 DEF UpsertMarkets, ScanTypes
    <2>2. ScanTypes'
      BY <1>3, <2>1 DEF UpsertMarkets, ScanTypes
    <2> QED
      BY <1>3, <2>2 DEF UpsertMarkets, WorldTypes, PollTypes, world, polling
  <1>4. CASE SetUntracked(s)
    <2>0. Targets(s) \subseteq Markets
      BY <1>b DEF Targets
    <2>1. scan' \in [Scanners -> ScanType]
      BY <1>4, <2>0 DEF SetUntracked, ScanTypes
    <2>2. ScanTypes'
      BY <1>4, <2>1 DEF SetUntracked, ScanTypes
    <2> QED
      BY <1>4, <2>2 DEF SetUntracked, WorldTypes, PollTypes, world, polling
  <1>5. CASE CommitUniverse(s)
    <2>1. scan[s].universe \subseteq Markets
      BY DEF ScanTypes
    <2>2. markets' \in [DOMAIN markets' -> BOOLEAN] /\ DOMAIN markets' \subseteq Markets
      BY <1>5, <2>1 DEF CommitUniverse, ScanTypes
    <2>3. scan' \in [Scanners -> ScanType]
      BY <1>5 DEF CommitUniverse, ScanTypes
    <2>4. ScanTypes'
      BY <1>5, <2>1, <2>2, <2>3 DEF CommitUniverse, ScanTypes
    <2> QED
      BY <1>5, <2>4 DEF CommitUniverse, WorldTypes, PollTypes, world, polling
  <1>6. CASE Snapshot(s)
    BY <1>6, <1>a, <1>c DEF Snapshot, WorldTypes, ScanTypes, PollTypes, world, polling
  <1>7. CASE LockRow(s)
    <2> PICK m \in Wanted(s) : locks' = [locks EXCEPT ![s] = @ \cup {m}]
      BY <1>7 DEF LockRow
    <2>1. m \in Markets /\ scan[s].pc \in {"upsert", "commit"}
      BY DEF Wanted, ScanTypes
    <2> QED
      BY <1>7, <2>1 DEF LockRow, WorldTypes, ScanTypes, PollTypes, world, polling
  <1>8. CASE AbortDeadlocked(s)
    BY <1>8, FailScanTypes DEF AbortDeadlocked, FailScan, WorldTypes, PollTypes, world, polling
  <1>9. CASE LoseScan(s)
    <2>1. WorldTypes'
      BY <1>9, FaultTypes DEF LoseScan, FailScan, WorldTypes, world
    <2> QED
      BY <1>9, <2>1, FailScanTypes DEF LoseScan, FailScan, PollTypes, polling
  <1>10. CASE RestartScanner(s)
    <2>1. WorldTypes'
      BY <1>10, FaultTypes DEF RestartScanner, WorldTypes, world
    <2>2. ScanTypes'
      BY <1>10, <1>a, <1>c DEF RestartScanner, ScanTypes
    <2> QED
      BY <1>10, <2>1, <2>2 DEF RestartScanner, PollTypes, polling
  <1> QED
    BY <1>1, <1>2, <1>3, <1>4, <1>5, <1>6, <1>7, <1>8, <1>9, <1>10 DEF Scan

\* The markets of the prints, and times that are numbers.
LEMMA PrintTypes ==
  ASSUME NEW x \in Prints
  PROVE  x.market \in Markets /\ x.time \in Nat \ {0} /\ x.id \in Nat
  BY IngestionAssumption DEF IngestionAssumption

LEMMA PollerTypes ==
  ASSUME TypeOK, NEW p \in Pollers, Poll(p) \/ LoseTrades(p) \/ RestartPoller(p)
  PROVE  TypeOK'
  <1> USE DEF TypeOK
  <1> DEFINE PollType == [pc: {"idle", "fetch", "insert"}, todo: SUBSET Markets,
                          batch: SUBSET Prints]
  <1>a. Resting \in PollType
    BY DEF Resting
  <1>b. Tracked \subseteq Markets
    BY DEF Tracked, ScanTypes
  <1>1. CASE BeginPoll(p)
    <2>1. [Resting EXCEPT !.pc = "fetch", !.todo = Tracked] \in PollType
      BY <1>b DEF Resting
    <2> QED
      BY <1>1, <2>1 DEF BeginPoll, WorldTypes, ScanTypes, PollTypes, world, scanning
  <1>2. ASSUME NEW m \in Markets, Fetch(p, m) PROVE TypeOK'
    <2>1. ASSUME NEW r \in Answers(m), UNCHANGED faults,
                 poll' = [poll EXCEPT ![p] =
                   [pc |-> "fetch", todo |-> poll[p].todo \ {m},
                    batch |-> poll[p].batch \cup {x \in r : x.token \in Tokens}]]
          PROVE  TypeOK'
      <3>1. r \subseteq Prints
        BY DEF Answers, OfMarket
      <3>2. poll' \in [Pollers -> PollType]
        BY <2>1, <3>1 DEF PollTypes
      <3>3. PollTypes'
        BY <1>2, <3>2 DEF Fetch, PollTypes
      <3> QED
        BY <1>2, <2>1, <3>3 DEF Fetch, WorldTypes, ScanTypes, world, scanning
    <2>2. CASE Fault /\ poll' = [poll EXCEPT ![p].todo = @ \ {m}]
      <3>1. PollTypes'
        BY <1>2, <2>2 DEF Fetch, PollTypes
      <3> QED
        BY <1>2, <2>2, <3>1, FaultTypes DEF Fetch, WorldTypes, ScanTypes, world, scanning
    <2> QED
      BY <1>2, <2>1, <2>2 DEF Fetch
  <1>3. CASE Sift(p)
    <2> PICK cursor \in [Markets \X Tokens -> {0} \cup {x.time : x \in Prints}] :
          since' = [since EXCEPT ![p] = cursor]
      BY <1>3 DEF Sift
    <2>1. cursor \in [Markets \X Tokens -> Nat]
      BY PrintTypes
    <2>2. Fresh(p) \subseteq Prints
      BY DEF Fresh, PollTypes
    <2>3. poll' \in [Pollers -> PollType]
      BY <1>3, <2>2 DEF Sift, PollTypes
    <2>4. since' \in [Pollers -> [Markets \X Tokens -> Nat]]
      BY <2>1 DEF PollTypes
    <2>c. UNCHANGED <<rows, inserted, refused>>
      BY <1>3 DEF Sift
    <2>5. PollTypes'
      BY <2>3, <2>4, <2>c DEF PollTypes
    <2> QED
      BY <1>3, <2>5 DEF Sift, WorldTypes, ScanTypes, world, scanning
  <1>4. CASE InsertTrades(p)
    <2>1. \A c \in [Prints -> Nat], b \in SUBSET Prints : OneMore(c, b) \in [Prints -> Nat]
      BY DEF OneMore
    <2>2. PollTypes'
      BY <1>4, <1>a, <2>1 DEF InsertTrades, PollTypes
    <2> QED
      BY <1>4, <2>2 DEF InsertTrades, WorldTypes, ScanTypes, world, scanning
  <1>5. CASE LoseTrades(p)
    <2>1. PollTypes'
      BY <1>5, <1>a DEF LoseTrades, PollTypes
    <2> QED
      BY <1>5, <2>1, FaultTypes DEF LoseTrades, WorldTypes, ScanTypes, world, scanning
  <1>6. CASE RestartPoller(p)
    <2>1. PollTypes'
      BY <1>6, <1>a DEF RestartPoller, PollTypes, NoCursor
    <2> QED
      BY <1>6, <2>1, FaultTypes DEF RestartPoller, WorldTypes, ScanTypes, world, scanning
  <1> QED
    BY <1>1, <1>2, <1>3, <1>4, <1>5, <1>6 DEF Poll

LEMMA WorldStepTypes ==
  ASSUME TypeOK, (\E m \in Markets : Relist(m)) \/ (\E x \in Prints : Trade(x))
  PROVE  TypeOK'
  <1> USE DEF TypeOK
  <1>1. ASSUME NEW m \in Markets, Relist(m) PROVE TypeOK'
    <2>1. relists' \in 0..MaxRelists
      BY <1>1, IngestionAssumption DEF Relist, WorldTypes, IngestionAssumption
    <2>2. listed' \subseteq Markets
      BY <1>1 DEF Relist, WorldTypes
    <2>3. WorldTypes'
      BY <1>1, <2>1, <2>2 DEF Relist, WorldTypes
    <2> QED
      BY <1>1, <2>3 DEF Relist, ScanTypes, PollTypes, scanning, polling
  <1>2. ASSUME NEW x \in Prints, Trade(x) PROVE TypeOK'
    <2>1. tape' \in Seq(Prints)
      BY <1>2 DEF Trade, WorldTypes
    <2>2. WorldTypes'
      BY <1>2, <2>1 DEF Trade, WorldTypes
    <2> QED
      BY <1>2, <2>2 DEF Trade, ScanTypes, PollTypes, scanning, polling
  <1> QED
    BY <1>1, <1>2

LEMMA StepTypes == TypeOK /\ [Next]_vars => TypeOK'
  <1> SUFFICES ASSUME TypeOK, [Next]_vars PROVE TypeOK'
    OBVIOUS
  <1>1. CASE UNCHANGED vars
    BY <1>1 DEF TypeOK, WorldTypes, ScanTypes, PollTypes, vars, world, scanning, polling
  <1> QED
    BY <1>1, ScannerTypes, PollerTypes, WorldStepTypes DEF Next

\* Every reachable state is well formed, and only a transaction holds locks:
\* a scan that fails or restarts has rolled back.
THEOREM IngestionTypeCorrect == Spec => []TypeOK
  BY InitTypes, StepTypes, PTL DEF Spec

-----------------------------------------------------------------------------
(* The universe.                                                           *)

\* s will commit without having seen that m is tracked.
Blind(s, m) ==
    scan[s].pc = "commit" /\ m \notin scan[s].targets /\ m \notin scan[s].universe

\* Whatever is tracked is kept by a scanner that is not about to drop it
\* unseen.  That it is kept by some scanner is not inductive: the only one that
\* keeps it could commit another universe, blind to it.
SomeoneKeeps ==
    \A m \in Tracked : \E s \in Scanners : m \in kept[s] /\ ~Blind(s, m)

LEMMA SomeoneKeepsInit == Init => SomeoneKeeps
  BY DEF Init, SomeoneKeeps, Tracked

LEMMA SomeoneKeepsStep ==
  ASSUME TypeOK, SomeoneKeeps, [Next]_vars
  PROVE  SomeoneKeeps'
  <1> USE DEF TypeOK
  <1>0. ASSUME UNCHANGED <<markets, scan, kept>> PROVE SomeoneKeeps'
    BY <1>0 DEF SomeoneKeeps, Tracked, Blind
  \* A scanner that moves elsewhere than to its commit is no more blind.
  <1>a. ASSUME NEW s \in Scanners, UNCHANGED <<markets, kept>>,
               \A t \in Scanners \ {s} : scan'[t] = scan[t],
               \A m \in Tracked : ~Blind(s, m)'
        PROVE  SomeoneKeeps'
    BY <1>a DEF SomeoneKeeps, Tracked, Blind
  <1>b. ASSUME NEW s \in Scanners, FailScan(s) PROVE SomeoneKeeps'
    <2>1. scan'[s].pc = "idle" /\ \A t \in Scanners \ {s} : scan'[t] = scan[t]
      BY <1>b DEF FailScan, ScanTypes, Idle
    <2> QED
      BY <1>b, <1>a, <2>1 DEF FailScan, Blind
  <1>1. ASSUME NEW s \in Scanners, BeginScan(s) \/ Discover(s) \/ Snapshot(s) \/ RestartScanner(s)
        PROVE  SomeoneKeeps'
    <2>1. UNCHANGED <<markets, kept>>
      BY <1>1 DEF BeginScan, Discover, Snapshot, RestartScanner
    <2>2. \E next : scan' = [scan EXCEPT ![s] = next] /\ next.pc # "commit"
      <3>1. CASE BeginScan(s)
        <4>1. [Idle EXCEPT !.pc = "snapshot", !.universe = Tracked].pc # "commit"
          BY DEF Idle
        <4>2. scan' = [scan EXCEPT ![s] = [Idle EXCEPT !.pc = "snapshot", !.universe = Tracked]]
          BY <3>1 DEF BeginScan
        <4> QED
          BY <4>1, <4>2
      <3>2. CASE Discover(s)
        <4> PICK found \in SUBSET listed : scan' = [scan EXCEPT ![s] =
                [Idle EXCEPT !.pc = "upsert", !.found = TRUE, !.universe = Selected(found)]]
          BY <3>2 DEF Discover
        <4>1. [Idle EXCEPT !.pc = "upsert", !.found = TRUE, !.universe = Selected(found)].pc # "commit"
          BY DEF Idle
        <4> QED
          BY <4>1
      <3>3. CASE Snapshot(s) \/ RestartScanner(s)
        <4>1. Idle.pc # "commit"
          BY DEF Idle
        <4>2. scan' = [scan EXCEPT ![s] = Idle]
          BY <3>3 DEF Snapshot, RestartScanner
        <4> QED
          BY <4>1, <4>2
      <3> QED
        BY <1>1, <3>1, <3>2, <3>3
    <2>3. scan'[s].pc # "commit" /\ \A t \in Scanners \ {s} : scan'[t] = scan[t]
      BY <2>2 DEF ScanTypes
    <2> QED
      BY <1>a, <2>1, <2>3 DEF Blind
  <1>2. ASSUME NEW s \in Scanners, UpsertMarkets(s) PROVE SomeoneKeeps'
    <2>1. scan'[s].pc # "commit" /\ \A t \in Scanners \ {s} : scan'[t] = scan[t]
      BY <1>2 DEF UpsertMarkets, ScanTypes
    <2> QED
      BY <1>2, <1>a, <2>1 DEF Blind, UpsertMarkets
  <1>3. ASSUME NEW s \in Scanners, SetUntracked(s) PROVE SomeoneKeeps'
    <2>1. /\ scan'[s].targets = Tracked \ scan[s].universe
          /\ scan'[s].universe = scan[s].universe
          /\ \A t \in Scanners \ {s} : scan'[t] = scan[t]
      BY <1>3 DEF SetUntracked, Targets, ScanTypes
    <2> QED
      BY <1>3, <1>a, <2>1 DEF Blind, SetUntracked
  <1>4. ASSUME NEW s \in Scanners, CommitUniverse(s) PROVE SomeoneKeeps'
    <2>1. /\ kept'[s] = scan[s].universe /\ scan'[s].pc = "snapshot"
          /\ \A t \in Scanners \ {s} : scan'[t] = scan[t] /\ kept'[t] = kept[t]
      BY <1>4 DEF CommitUniverse, ScanTypes
    <2>2. Tracked' = scan[s].universe \cup (Tracked \ scan[s].targets)
      BY <1>4 DEF CommitUniverse, Tracked
    <2> SUFFICES ASSUME NEW m \in Tracked'
                 PROVE  \E t \in Scanners : m \in kept'[t] /\ ~Blind(t, m)'
      BY DEF SomeoneKeeps
    <2>3. CASE m \in scan[s].universe
      BY <2>1, <2>3 DEF Blind
    <2>4. CASE m \notin scan[s].universe
      <3>1. Blind(s, m) /\ m \in Tracked
        BY <1>4, <2>2, <2>4 DEF CommitUniverse, Blind
      <3> PICK t \in Scanners : m \in kept[t] /\ ~Blind(t, m)
        BY <3>1 DEF SomeoneKeeps
      <3>2. t # s
        BY <3>1
      <3> QED
        BY <2>1, <3>2 DEF Blind
    <2> QED
      BY <2>3, <2>4
  <1>5. ASSUME NEW s \in Scanners, LockRow(s) PROVE SomeoneKeeps'
    BY <1>5, <1>0 DEF LockRow
  <1>6. ASSUME NEW s \in Scanners, AbortDeadlocked(s) \/ LoseScan(s) PROVE SomeoneKeeps'
    BY <1>6, <1>b DEF AbortDeadlocked, LoseScan
  <1>7. ASSUME NEW p \in Pollers, Poll(p) \/ LoseTrades(p) \/ RestartPoller(p)
        PROVE  SomeoneKeeps'
    <2>1. UNCHANGED scanning /\ UNCHANGED markets
      BY <1>7 DEF Poll, BeginPoll, Fetch, Sift, InsertTrades, LoseTrades, RestartPoller
    <2> QED
      BY <1>0, <2>1 DEF scanning
  <1>8. ASSUME (\E m \in Markets : Relist(m)) \/ (\E x \in Prints : Trade(x)) \/ UNCHANGED vars
        PROVE  SomeoneKeeps'
    BY <1>8, <1>0 DEF Relist, Trade, vars, scanning
  <1> QED
    BY <1>1, <1>2, <1>3, <1>4, <1>5, <1>6, <1>7, <1>8 DEF Next, Scan

\* However scanners overlap, fail and deadlock, nothing stays tracked that all
\* of them have since left out of the universe they committed.
THEOREM NothingTrackedUnkept == Spec => []TrackedIsKept
  <1>1. SomeoneKeeps => TrackedIsKept
    BY DEF SomeoneKeeps, TrackedIsKept
  <1>2. TypeOK /\ SomeoneKeeps /\ [Next]_vars => TypeOK' /\ SomeoneKeeps'
    BY StepTypes, SomeoneKeepsStep
  <1> QED
    BY <1>1, <1>2, InitTypes, SomeoneKeepsInit, PTL DEF Spec

-----------------------------------------------------------------------------
(* The pollers.                                                            *)

LEMMA KeyType ==
  ASSUME NEW x \in Prints, x.token \in Tokens
  PROVE  Key(x) \in Markets \X Tokens
  BY PrintTypes DEF Key

\* The new cursor is as late as the old one and as what is fresh, and no later.
LEMMA CursorMoves ==
  ASSUME NEW old, NEW new, NEW fresh, Advances(old, new, fresh)
  PROVE  /\ \A key \in Markets \X Tokens : old[key] <= new[key]
         /\ \A x \in fresh : Key(x) \in Markets \X Tokens => x.time <= new[Key(x)]
         /\ \A key \in Markets \X Tokens :
               new[key] = old[key] \/ \E y \in fresh : Key(y) = key /\ y.time = new[key]
  BY DEF Advances, Moves

\* Steps of others than a poller leave what a run knows.
LEMMA OthersStep ==
  ASSUME \/ \E m \in Markets : Relist(m)
         \/ \E x \in Prints : Trade(x)
         \/ \E s \in Scanners : Scan(s) \/ LockRow(s) \/ AbortDeadlocked(s) \/ LoseScan(s)
                                \/ RestartScanner(s)
         \/ UNCHANGED vars
  PROVE  UNCHANGED <<poll, since, rows, inserted, refused>>
  BY DEF Relist, Trade, Scan, BeginScan, Discover, UpsertMarkets, SetUntracked, CommitUniverse,
         Snapshot, LockRow, AbortDeadlocked, LoseScan, RestartScanner, FailScan, vars, polling

\* What a run has stored is behind its cursor; what it is about to store is
\* behind it as well, and new to it.
RunInv ==
    \A p \in Pollers, x \in Prints :
       /\ x \in poll[p].batch => x.token \in Tokens
       /\ inserted[p][x] > 0 =>
             inserted[p][x] = 1 /\ x.token \in Tokens /\ x.time <= since[p][Key(x)]
       /\ poll[p].pc = "insert" /\ x \in poll[p].batch =>
             inserted[p][x] = 0 /\ x.time <= since[p][Key(x)]

LEMMA RunInvInit == Init => RunInv
  BY DEF Init, RunInv, Resting

LEMMA RunInvStep ==
  ASSUME TypeOK, RunInv, [Next]_vars
  PROVE  RunInv'
  <1> USE DEF TypeOK
  <1>0. ASSUME UNCHANGED <<poll, since, inserted>> PROVE RunInv'
    BY <1>0 DEF RunInv
  \* A poller that keeps its cursor and its rows, and is not about to insert.
  <1>a. ASSUME NEW p \in Pollers, UNCHANGED <<since, inserted>>, poll'[p].pc # "insert",
               \A x \in poll'[p].batch : x \in Prints => x.token \in Tokens,
               \A q \in Pollers \ {p} : poll'[q] = poll[q]
        PROVE  RunInv'
    BY <1>a DEF RunInv
  <1>1. ASSUME NEW p \in Pollers, BeginPoll(p) \/ LoseTrades(p) PROVE RunInv'
    <2>1. poll'[p].pc # "insert" /\ poll'[p].batch = {} /\ \A q \in Pollers \ {p} : poll'[q] = poll[q]
      <3>1. CASE BeginPoll(p)
        BY <3>1 DEF BeginPoll, Resting, PollTypes
      <3>2. CASE LoseTrades(p)
        BY <3>2 DEF LoseTrades, Resting, PollTypes
      <3> QED
        BY <1>1, <3>1, <3>2
    <2> QED
      BY <1>1, <1>a, <2>1 DEF BeginPoll, LoseTrades
  <1>2. ASSUME NEW p \in Pollers, NEW m \in Markets, Fetch(p, m) PROVE RunInv'
    <2>1. /\ poll'[p].pc # "insert"
          /\ \A q \in Pollers \ {p} : poll'[q] = poll[q]
          /\ \A x \in poll'[p].batch : x \in poll[p].batch \/ x.token \in Tokens
      BY <1>2 DEF Fetch, PollTypes
    <2> QED
      BY <1>2, <1>a, <2>1 DEF Fetch, RunInv
  <1>3. ASSUME NEW p \in Pollers, Sift(p) PROVE RunInv'
    <2> PICK cursor \in [Markets \X Tokens -> {0} \cup {x.time : x \in Prints}] :
          /\ Advances(since[p], cursor, Fresh(p))
          /\ since' = [since EXCEPT ![p] = cursor]
      BY <1>3 DEF Sift
    <2>1. /\ poll'[p].batch = Fresh(p)
          /\ \A q \in Pollers \ {p} : poll'[q] = poll[q] /\ since'[q] = since[q]
          /\ since'[p] = cursor
          /\ inserted' = inserted
      BY <1>3 DEF Sift, PollTypes
    <2>2. /\ since[p] \in [Markets \X Tokens -> Nat]
          /\ cursor \in [Markets \X Tokens -> Nat]
      BY PrintTypes DEF PollTypes
    <2> SUFFICES ASSUME NEW x \in Prints
                 PROVE  /\ x \in Fresh(p) => x.token \in Tokens
                        /\ inserted[p][x] > 0 =>
                              inserted[p][x] = 1 /\ x.token \in Tokens /\ x.time <= cursor[Key(x)]
                        /\ x \in Fresh(p) => inserted[p][x] = 0 /\ x.time <= cursor[Key(x)]
      BY <2>1 DEF RunInv
    <2>3. x \in Fresh(p) => x.token \in Tokens /\ x.time > since[p][Key(x)]
      BY DEF Fresh, RunInv
    <2>4. CASE inserted[p][x] > 0
      <3>1. inserted[p][x] = 1 /\ x.token \in Tokens /\ x.time <= since[p][Key(x)]
        BY <2>4 DEF RunInv
      <3>2. Key(x) \in Markets \X Tokens
        BY <3>1, KeyType
      <3>3. since[p][Key(x)] <= cursor[Key(x)]
        BY <3>2, CursorMoves
      <3> QED
        BY <2>2, <2>3, <3>1, <3>2, <3>3, PrintTypes
    <2>5. CASE ~(inserted[p][x] > 0)
      <3>1. inserted[p][x] = 0
        BY <2>5 DEF PollTypes
      <3>2. x \in Fresh(p) => x.time <= cursor[Key(x)]
        BY <2>3, KeyType, CursorMoves
      <3> QED
        BY <2>3, <2>5, <3>1, <3>2
    <2> QED
      BY <2>4, <2>5
  <1>4. ASSUME NEW p \in Pollers, InsertTrades(p) PROVE RunInv'
    <2>1. /\ \A q \in Pollers \ {p} : poll'[q] = poll[q] /\ inserted'[q] = inserted[q]
          /\ poll'[p].batch = {}
          /\ since' = since
          /\ \A x \in Prints : inserted'[p][x] =
                IF x \in poll[p].batch THEN inserted[p][x] + 1 ELSE inserted[p][x]
      BY <1>4 DEF InsertTrades, OneMore, Resting, PollTypes
    <2>2. poll[p].pc = "insert"
      BY <1>4 DEF InsertTrades
    <2> QED
      BY <2>1, <2>2 DEF RunInv
  <1>5. ASSUME NEW p \in Pollers, RestartPoller(p) PROVE RunInv'
    <2>1. /\ \A q \in Pollers \ {p} :
                poll'[q] = poll[q] /\ inserted'[q] = inserted[q] /\ since'[q] = since[q]
          /\ poll'[p].batch = {}
          /\ \A x \in Prints : inserted'[p][x] = 0
      BY <1>5 DEF RestartPoller, Resting, PollTypes
    <2> QED
      BY <2>1 DEF RunInv
  <1> QED
    BY <1>0, <1>1, <1>2, <1>3, <1>4, <1>5, OthersStep DEF Next, Poll

\* A poller, as long as it runs, stores no print twice, whatever fails.
THEOREM StoredOncePerRun == Spec => []NeverTwiceInARun
  <1>1. TypeOK /\ RunInv => NeverTwiceInARun
    BY DEF TypeOK, PollTypes, RunInv, NeverTwiceInARun
  <1>2. TypeOK /\ RunInv /\ [Next]_vars => TypeOK' /\ RunInv'
    BY StepTypes, RunInvStep
  <1> QED
    BY <1>1, <1>2, InitTypes, RunInvInit, PTL DEF Spec

-----------------------------------------------------------------------------
(* What the cursor passes over.                                            *)

LEMMA MarketIsFinite ==
  ASSUME WorldTypes, NEW m
  PROVE  IsFiniteSet(OfMarket(m))
  <1> DEFINE seen == {tape[i] : i \in 1..Len(tape)}
  <1>1. tape \in [1..Len(tape) -> Prints] /\ Len(tape) \in Nat /\ DOMAIN tape = 1..Len(tape)
    BY DEF WorldTypes
  <1>2. tape \in Surjection(1..Len(tape), seen)
    BY <1>1 DEF Surjection
  <1>3. IsFiniteSet(1..Len(tape))
    BY <1>1, FS_Interval
  <1>4. IsFiniteSet(seen)
    BY <1>2, <1>3, FS_Surjection
  <1>5. OfMarket(m) \subseteq seen
    BY <1>1 DEF OfMarket, OnTape
  <1> QED
    BY <1>4, <1>5, FS_Subset

\* A print that is not in an answer of its market has Limit others before it.
LEMMA LeftOutIsCrowded ==
  ASSUME TypeOK, NEW m, NEW r \in Answers(m), NEW x \in OfMarket(m) \ r
  PROVE  Crowded(x)
  <1> DEFINE others == {y \in OfMarket(x.market) : y # x /\ y.time >= x.time}
  <1>1. x.market = m
    BY DEF OfMarket
  <1>2. IsFiniteSet(OfMarket(m))
    BY MarketIsFinite DEF TypeOK
  <1>3. r \subseteq OfMarket(m) /\ r # OfMarket(m) /\ ~(Cardinality(r) < Limit)
    BY DEF Answers
  <1>4. r \subseteq others
    BY <1>1, <1>3 DEF Answers
  <1>5. IsFiniteSet(others) /\ IsFiniteSet(r)
    BY <1>1, <1>2, <1>3, FS_Subset
  <1>6. Cardinality(r) <= Cardinality(others)
    BY <1>4, <1>5, FS_Subset
  <1>7. Cardinality(r) \in Nat /\ Cardinality(others) \in Nat /\ Limit \in Nat
    BY <1>5, FS_CardinalityType, IngestionAssumption DEF IngestionAssumption
  <1> QED
    BY <1>3, <1>6, <1>7 DEF Crowded

\* The tape only grows: what is on it, late or crowded stays so.
LEMMA TapeGrows ==
  ASSUME TypeOK, TypeOK', NEW z \in Prints, Trade(z), NEW x \in Prints
  PROVE  /\ OnTape(x) => OnTape(x)'
         /\ OnTape(x)' => OnTape(x) \/ x = z
         /\ Late(x) => Late(x)'
         /\ Crowded(x) => Crowded(x)'
         /\ \A y : OnTape(y) /\ Key(y) = Key(z) /\ y.time >= z.time => Late(z)'
  <1>1. tape' = Append(tape, z) /\ tape \in Seq(Prints)
    BY DEF Trade, TypeOK, WorldTypes
  <1>2. /\ DOMAIN tape = 1..Len(tape) /\ DOMAIN tape' = 1..(Len(tape) + 1) /\ Len(tape) \in Nat
        /\ tape'[Len(tape) + 1] = z
        /\ \A i \in 1..Len(tape) : tape'[i] = tape[i]
    BY <1>1
  <1>3. \A y : OnTape(y) => OnTape(y)'
    BY <1>2 DEF OnTape
  <1>4. OnTape(x)' => OnTape(x) \/ x = z
    BY <1>2 DEF OnTape
  <1>5. Late(x) => Late(x)'
    <2> SUFFICES ASSUME Late(x) PROVE Late(x)'
      OBVIOUS
    <2> PICK i \in 1..Len(tape), j \in 1..Len(tape) :
          i < j /\ tape[j] = x /\ Key(tape[i]) = Key(x) /\ tape[i].time >= x.time
      BY <1>2 DEF Late
    <2>1. /\ i \in DOMAIN tape' /\ j \in DOMAIN tape'
          /\ tape'[i] = tape[i] /\ tape'[j] = tape[j]
      BY <1>2
    <2> QED
      BY <2>1 DEF Late, Key
  <1>6. Crowded(x) => Crowded(x)'
    <2> DEFINE others == {y \in OfMarket(x.market) : y # x /\ y.time >= x.time}
    <2> DEFINE more == {y \in OfMarket(x.market)' : y # x /\ y.time >= x.time}
    <2>1. OfMarket(x.market) \subseteq OfMarket(x.market)'
      BY <1>3 DEF OfMarket
    <2>2. IsFiniteSet(OfMarket(x.market)) /\ IsFiniteSet(OfMarket(x.market)')
      <3>1. IsFiniteSet(OfMarket(x.market))
        BY MarketIsFinite DEF TypeOK
      <3>2. OfMarket(x.market)' \subseteq OfMarket(x.market) \cup {z}
        BY <1>2 DEF OfMarket, OnTape
      <3>3. IsFiniteSet(OfMarket(x.market) \cup {z})
        BY <3>1, FS_AddElement
      <3> QED
        BY <3>1, <3>2, <3>3, FS_Subset
    <2>3. others \subseteq more /\ IsFiniteSet(more) /\ IsFiniteSet(others)
      BY <2>1, <2>2, FS_Subset
    <2>4. Cardinality(others) <= Cardinality(more)
      BY <2>3, FS_Subset
    <2>5. Cardinality(others) \in Nat /\ Cardinality(more) \in Nat /\ Limit \in Nat
      BY <2>3, FS_CardinalityType, IngestionAssumption DEF IngestionAssumption
    <2> QED
      BY <2>4, <2>5 DEF Crowded
  <1>7. ASSUME NEW y, OnTape(y), Key(y) = Key(z), y.time >= z.time PROVE Late(z)'
    <2> PICK i \in 1..Len(tape) : tape[i] = y
      BY <1>2, <1>7 DEF OnTape
    <2>1. /\ i \in DOMAIN tape' /\ Len(tape) + 1 \in DOMAIN tape' /\ i < Len(tape) + 1
          /\ tape'[i] = y /\ tape'[Len(tape) + 1] = z
      BY <1>2
    <2> QED
      BY <2>1, <1>7 DEF Late, Key
  <1> QED
    BY <1>3, <1>4, <1>5, <1>6, <1>7

\* A print with a reason to be missing.
Excused(x) == Late(x) \/ Crowded(x) \/ x \in refused

\* What is in a batch has appeared, and while answers come in, no print before
\* one that is in it is missing without reason.
FetchInv ==
    \A p \in Pollers : \A y \in poll[p].batch :
       /\ OnTape(y)
       /\ poll[p].pc = "fetch" =>
             \A x \in Prints :
                OnTape(x) /\ x.token \in Tokens /\ Key(x) = Key(y) /\ x.time <= y.time =>
                   x \in poll[p].batch \/ Excused(x)

\* The cursor is the time of a print that has appeared.
CursorAttained ==
    \A p \in Pollers : \A key \in Markets \X Tokens :
       since[p][key] > 0 =>
          \E y \in Prints : OnTape(y) /\ Key(y) = key /\ y.time = since[p][key]

CoverInv == FetchInv /\ CursorAttained /\ CursorCovers

LEMMA CoverInvInit == Init => CoverInv
  <1> SUFFICES ASSUME Init PROVE CoverInv
    OBVIOUS
  <1>1. FetchInv
    BY DEF Init, FetchInv, Resting
  <1>2. CursorAttained
    BY DEF Init, CursorAttained, NoCursor
  <1>3. \A x : ~OnTape(x)
    BY DEF Init, OnTape
  <1>4. CursorCovers
    BY <1>3 DEF CursorCovers
  <1> QED
    BY <1>1, <1>2, <1>4 DEF CoverInv

\* A step that leaves the tape, and forgets no row and no refusal, takes away
\* no reason.
LEMMA ReasonsStay ==
  ASSUME UNCHANGED tape, refused \subseteq refused'
  PROVE  \A x : /\ OnTape(x)' <=> OnTape(x)
                /\ Late(x)' <=> Late(x)
                /\ Crowded(x)' <=> Crowded(x)
                /\ Excused(x) => Excused(x)'
  <1>1. \A x : (OnTape(x)' <=> OnTape(x)) /\ (Late(x)' <=> Late(x))
    BY DEF OnTape, Late
  <1>2. \A m : OfMarket(m)' = OfMarket(m)
    BY <1>1 DEF OfMarket
  <1>3. \A x : Crowded(x)' <=> Crowded(x)
    BY <1>2 DEF Crowded
  <1> QED
    BY <1>1, <1>3 DEF Excused

\* A new print is late if it is behind a cursor or in a batch's past.
LEMMA TradeCovers ==
  ASSUME TypeOK, TypeOK', CoverInv, NEW z \in Prints, Trade(z)
  PROVE  CoverInv'
  <1>0. UNCHANGED <<poll, since, rows, refused>>
    BY DEF Trade, polling
  <1>1. ASSUME NEW x \in Prints PROVE Excused(x) => Excused(x)'
    BY <1>0, TapeGrows DEF Excused
  <1>2. FetchInv'
    <2> SUFFICES ASSUME NEW p \in Pollers, NEW y \in poll[p].batch
                 PROVE  /\ OnTape(y)'
                        /\ poll[p].pc = "fetch" =>
                              \A x \in Prints :
                                 OnTape(x)' /\ x.token \in Tokens /\ Key(x) = Key(y)
                                 /\ x.time <= y.time => x \in poll[p].batch \/ Excused(x)'
      BY <1>0 DEF FetchInv
    <2>1. OnTape(y) /\ y \in Prints
      BY DEF CoverInv, FetchInv, TypeOK, PollTypes
    <2>2. OnTape(y)'
      BY <2>1, TapeGrows
    <2>3. ASSUME poll[p].pc = "fetch", NEW x \in Prints, OnTape(x)', x.token \in Tokens,
                 Key(x) = Key(y), x.time <= y.time
          PROVE  x \in poll[p].batch \/ Excused(x)'
      <3>1. CASE OnTape(x)
        BY <2>3, <3>1, <1>1 DEF CoverInv, FetchInv
      <3>2. CASE x = z
        <4>1. y.time >= z.time
          BY <2>1, <2>3, <3>2, PrintTypes
        <4> QED
          BY <2>1, <2>3, <3>2, <4>1, TapeGrows DEF Excused
      <3> QED
        BY <2>3, <3>1, <3>2, TapeGrows
    <2> QED
      BY <2>2, <2>3
  <1>3. CursorAttained'
    BY <1>0, TapeGrows DEF CoverInv, CursorAttained
  <1>4. CursorCovers'
    <2> SUFFICES ASSUME NEW p \in Pollers, NEW x \in Prints, x.token \in Tokens, OnTape(x)',
                        x.time <= since[p][Key(x)],
                        ~(poll[p].pc = "insert" /\ x \in poll[p].batch)
                 PROVE  rows[x] > 0 \/ Excused(x)'
      BY <1>0 DEF CursorCovers, Excused
    <2>1. CASE OnTape(x)
      BY <2>1, <1>1 DEF CoverInv, CursorCovers, Excused
    <2>2. CASE x = z
      <3>1. Key(x) \in Markets \X Tokens
        BY KeyType
      <3>2. since[p][Key(x)] \in Nat /\ x.time \in Nat \ {0}
        BY <3>1, PrintTypes DEF TypeOK, PollTypes
      <3> PICK y \in Prints : OnTape(y) /\ Key(y) = Key(x) /\ y.time = since[p][Key(x)]
        BY <3>1, <3>2 DEF CoverInv, CursorAttained
      <3>3. y.time >= x.time
        BY <3>2
      <3> QED
        BY <2>2, <3>3, TapeGrows DEF Excused
    <2> QED
      BY <2>1, <2>2, TapeGrows
  <1> QED
    BY <1>2, <1>3, <1>4 DEF CoverInv


\* A poller that fetches or rests has its cursor's debts paid.
LEMMA NotInserting ==
  ASSUME CursorCovers, NEW p \in Pollers, poll[p].pc # "insert", NEW x \in Prints,
         x.token \in Tokens, OnTape(x), x.time <= since[p][Key(x)]
  PROVE  rows[x] > 0 \/ Excused(x)
  BY DEF CursorCovers, Excused

\* A poller that rests has nothing to explain but its cursor.
LEMMA RestCovers ==
  ASSUME TypeOK, CoverInv, NEW p \in Pollers, UNCHANGED <<tape, since>>,
         \A q \in Pollers \ {p} : poll'[q] = poll[q],
         poll'[p].pc # "insert", poll'[p].batch = {},
         refused \subseteq refused', \A x \in Prints : rows[x] > 0 => rows'[x] > 0,
         poll[p].pc = "insert" => \A x \in poll[p].batch : rows'[x] > 0 \/ x \in refused'
  PROVE  CoverInv'
  <1>1. FetchInv'
    BY ReasonsStay DEF CoverInv, FetchInv
  <1>2. CursorAttained'
    BY ReasonsStay DEF CoverInv, CursorAttained
  <1>3. CursorCovers'
    <2> SUFFICES ASSUME NEW q \in Pollers, NEW x \in Prints, x.token \in Tokens, OnTape(x),
                        x.time <= since[q][Key(x)],
                        ~(poll'[q].pc = "insert" /\ x \in poll'[q].batch)
                 PROVE  rows'[x] > 0 \/ Excused(x)'
      BY ReasonsStay DEF CursorCovers, Excused
    <2>1. CASE q = p /\ poll[p].pc = "insert" /\ x \in poll[p].batch
      BY <2>1 DEF Excused
    <2>2. CASE ~(poll[q].pc = "insert" /\ x \in poll[q].batch)
      <3>1. rows[x] > 0 \/ Excused(x)
        BY <2>2 DEF CoverInv, CursorCovers, Excused
      <3> QED
        BY <3>1, ReasonsStay
    <2> QED
      BY <2>1, <2>2
  <1> QED
    BY <1>1, <1>2, <1>3 DEF CoverInv

LEMMA FetchCovers ==
  ASSUME TypeOK, CoverInv, NEW p \in Pollers, NEW m \in Markets, Fetch(p, m)
  PROVE  CoverInv'
  <1>0. UNCHANGED <<tape, since, rows, refused>> /\ poll[p].pc = "fetch"
    BY DEF Fetch, world
  <1>1. /\ \A q \in Pollers \ {p} : poll'[q] = poll[q]
        /\ poll'[p].pc = "fetch"
        /\ \/ poll'[p].batch = poll[p].batch
           \/ \E r \in Answers(m) :
                 poll'[p].batch = poll[p].batch \cup {x \in r : x.token \in Tokens}
    <2>0. poll \in [Pollers -> [pc: {"idle", "fetch", "insert"}, todo: SUBSET Markets,
                               batch: SUBSET Prints]]
      BY DEF TypeOK, PollTypes
    <2>1. ASSUME NEW r \in Answers(m),
                 poll' = [poll EXCEPT ![p] =
                   [pc |-> "fetch", todo |-> poll[p].todo \ {m},
                    batch |-> poll[p].batch \cup {x \in r : x.token \in Tokens}]]
          PROVE  /\ <1>1!1 /\ <1>1!2
                 /\ poll'[p].batch = poll[p].batch \cup {x \in r : x.token \in Tokens}
      BY <2>0, <2>1
    <2>2. ASSUME poll' = [poll EXCEPT ![p].todo = @ \ {m}]
          PROVE  <1>1!1 /\ <1>1!2 /\ poll'[p].batch = poll[p].batch
      BY <1>0, <2>0, <2>2
    <2> QED
      BY <2>1, <2>2 DEF Fetch
  <1>2. FetchInv'
    <2> SUFFICES ASSUME NEW y \in poll'[p].batch
                 PROVE  /\ OnTape(y)
                        /\ \A x \in Prints :
                              OnTape(x) /\ x.token \in Tokens /\ Key(x) = Key(y)
                              /\ x.time <= y.time => x \in poll'[p].batch \/ Excused(x)
      <3>1. ASSUME NEW q \in Pollers \ {p}, NEW y \in poll'[q].batch
            PROVE  /\ OnTape(y)'
                   /\ poll'[q].pc = "fetch" =>
                         \A x \in Prints :
                            OnTape(x)' /\ x.token \in Tokens /\ Key(x) = Key(y)
                            /\ x.time <= y.time => x \in poll'[q].batch \/ Excused(x)'
        BY <1>0, <1>1, <3>1, ReasonsStay DEF CoverInv, FetchInv
      <3> QED
        BY <1>0, <1>1, <3>1, ReasonsStay DEF FetchInv
    <2>1. CASE y \in poll[p].batch
      BY <1>0, <1>1, <2>1 DEF CoverInv, FetchInv
    <2>2. CASE y \notin poll[p].batch
      <3> PICK r \in Answers(m) :
            poll'[p].batch = poll[p].batch \cup {x \in r : x.token \in Tokens}
        BY <1>1, <2>2
      <3>1. y \in r /\ y \in OfMarket(m)
        BY <2>2 DEF Answers
      <3>2. ASSUME NEW x \in Prints, OnTape(x), x.token \in Tokens, Key(x) = Key(y),
                   x.time <= y.time
            PROVE  x \in poll'[p].batch \/ Excused(x)
        <4>1. x \in OfMarket(m)
          BY <3>1, <3>2 DEF OfMarket, Key
        <4> QED
          BY <3>2, <4>1, LeftOutIsCrowded DEF Excused
      <3> QED
        BY <3>1, <3>2 DEF OfMarket
    <2> QED
      BY <2>1, <2>2
  <1>3. CursorAttained'
    BY <1>0, ReasonsStay DEF CoverInv, CursorAttained
  <1>4. CursorCovers'
    <2> SUFFICES ASSUME NEW q \in Pollers, NEW x \in Prints, x.token \in Tokens, OnTape(x),
                        x.time <= since[q][Key(x)],
                        ~(poll'[q].pc = "insert" /\ x \in poll'[q].batch)
                 PROVE  rows[x] > 0 \/ Excused(x)
      BY <1>0, ReasonsStay DEF CursorCovers, Excused
    <2>1. ~(poll[q].pc = "insert" /\ x \in poll[q].batch)
      BY <1>0, <1>1
    <2> QED
      BY <2>1 DEF CoverInv, CursorCovers, Excused
  <1> QED
    BY <1>2, <1>3, <1>4 DEF CoverInv

\* The cursor is moved as far as something in the batch, and whatever it has
\* passed was in the batch as well, or has its reason.
LEMMA SiftCovers ==
  ASSUME TypeOK, RunInv, CoverInv, NEW p \in Pollers, Sift(p)
  PROVE  CoverInv'
  <1> PICK cursor \in [Markets \X Tokens -> {0} \cup {x.time : x \in Prints}] :
        /\ Advances(since[p], cursor, Fresh(p))
        /\ since' = [since EXCEPT ![p] = cursor]
    BY DEF Sift
  <1>0. UNCHANGED <<tape, rows, refused>> /\ poll[p].pc = "fetch"
    BY DEF Sift, world
  <1>1. /\ poll'[p].pc = "insert" /\ poll'[p].batch = Fresh(p) /\ since'[p] = cursor
        /\ \A q \in Pollers \ {p} : poll'[q] = poll[q] /\ since'[q] = since[q]
    BY DEF Sift, TypeOK, PollTypes
  <1>2. /\ since[p] \in [Markets \X Tokens -> Nat]
        /\ cursor \in [Markets \X Tokens -> Nat]
    BY PrintTypes DEF TypeOK, PollTypes
  <1>3. Fresh(p) \subseteq poll[p].batch /\ Fresh(p) \subseteq Prints
    BY DEF Fresh, TypeOK, PollTypes
  <1>4. FetchInv'
    BY <1>0, <1>1, <1>3, ReasonsStay DEF CoverInv, FetchInv
  <1>5. CursorAttained'
    <2> SUFFICES ASSUME NEW key \in Markets \X Tokens, cursor[key] > 0
                 PROVE  \E y \in Prints : OnTape(y) /\ Key(y) = key /\ y.time = cursor[key]
      BY <1>0, <1>1, ReasonsStay DEF CoverInv, CursorAttained
    <2>1. CASE cursor[key] = since[p][key]
      BY <2>1 DEF CoverInv, CursorAttained
    <2>2. CASE \E y \in Fresh(p) : Key(y) = key /\ y.time = cursor[key]
      BY <1>3, <2>2 DEF CoverInv, FetchInv
    <2> QED
      BY <2>1, <2>2, CursorMoves
  <1>6. CursorCovers'
    <2>1. ASSUME NEW x \in Prints, x.token \in Tokens, OnTape(x), x.time <= cursor[Key(x)],
                 x \notin Fresh(p)
          PROVE  rows[x] > 0 \/ Excused(x)
      <3>1. Key(x) \in Markets \X Tokens
        BY <2>1, KeyType
      <3>2. x.time \in Nat /\ since[p][Key(x)] \in Nat /\ cursor[Key(x)] \in Nat
        BY <1>2, <3>1, PrintTypes
      <3>3. CASE x.time <= since[p][Key(x)]
        BY <1>0, <2>1, <3>3, NotInserting DEF CoverInv
      <3>4. CASE x.time > since[p][Key(x)]
        <4>1. x \notin poll[p].batch
          BY <2>1, <3>4 DEF Fresh
        <4>2. cursor[Key(x)] # since[p][Key(x)]
          BY <2>1, <3>2, <3>4
        <4> PICK y \in Fresh(p) : Key(y) = Key(x) /\ y.time = cursor[Key(x)]
          BY <3>1, <4>2, CursorMoves
        <4>3. y \in poll[p].batch /\ x.time <= y.time
          BY <1>3, <2>1
        <4> QED
          BY <1>0, <2>1, <4>1, <4>3 DEF CoverInv, FetchInv
      <3> QED
        BY <3>2, <3>3, <3>4
    <2>2. ASSUME NEW q \in Pollers \ {p}, NEW x \in Prints, x.token \in Tokens, OnTape(x),
                 x.time <= since[q][Key(x)], ~(poll[q].pc = "insert" /\ x \in poll[q].batch)
          PROVE  rows[x] > 0 \/ Excused(x)
      BY <2>2 DEF CoverInv, CursorCovers, Excused
    <2> QED
      BY <1>0, <1>1, <2>1, <2>2, ReasonsStay DEF CursorCovers, Excused
  <1> QED
    BY <1>4, <1>5, <1>6 DEF CoverInv

LEMMA RestartCovers ==
  ASSUME TypeOK, CoverInv, NEW p \in Pollers, RestartPoller(p)
  PROVE  CoverInv'
  <1>0. UNCHANGED <<tape, rows, refused>>
    BY DEF RestartPoller, world
  <1>1. /\ poll'[p].batch = {} /\ since'[p] = NoCursor
        /\ \A q \in Pollers \ {p} : poll'[q] = poll[q] /\ since'[q] = since[q]
    BY DEF RestartPoller, Resting, TypeOK, PollTypes
  <1>2. FetchInv'
    BY <1>0, <1>1, ReasonsStay DEF CoverInv, FetchInv
  <1>3. CursorAttained'
    BY <1>0, <1>1, ReasonsStay DEF CoverInv, CursorAttained, NoCursor
  <1>4. CursorCovers'
    <2> SUFFICES ASSUME NEW q \in Pollers, NEW x \in Prints, x.token \in Tokens, OnTape(x),
                        x.time <= since'[q][Key(x)],
                        ~(poll'[q].pc = "insert" /\ x \in poll'[q].batch)
                 PROVE  rows[x] > 0 \/ Excused(x)
      BY <1>0, ReasonsStay DEF CursorCovers, Excused
    <2>1. q # p
      BY <1>1, KeyType, PrintTypes DEF NoCursor
    <2> QED
      BY <1>1, <2>1 DEF CoverInv, CursorCovers, Excused
  <1> QED
    BY <1>2, <1>3, <1>4 DEF CoverInv

LEMMA CoverInvStep ==
  ASSUME TypeOK, TypeOK', RunInv, CoverInv, [Next]_vars
  PROVE  CoverInv'
  <1>1. ASSUME NEW p \in Pollers, BeginPoll(p) \/ InsertTrades(p) \/ LoseTrades(p)
        PROVE  CoverInv'
    <2>1. CASE BeginPoll(p)
      <3>1. /\ poll'[p].pc # "insert" /\ poll'[p].batch = {} /\ poll[p].pc # "insert"
            /\ \A q \in Pollers \ {p} : poll'[q] = poll[q]
        BY <2>1 DEF BeginPoll, Resting, TypeOK, PollTypes
      <3> QED
        BY <2>1, <3>1, RestCovers DEF BeginPoll, world
    <2>2. CASE InsertTrades(p)
      <3>1. /\ poll'[p].pc # "insert" /\ poll'[p].batch = {}
            /\ \A q \in Pollers \ {p} : poll'[q] = poll[q]
        BY <2>2 DEF InsertTrades, Resting, TypeOK, PollTypes
      <3>2. \A x \in Prints : (rows[x] > 0 => rows'[x] > 0)
                              /\ (x \in poll[p].batch => rows'[x] > 0)
        BY <2>2 DEF InsertTrades, OneMore, TypeOK, PollTypes
      <3>3. poll[p].batch \subseteq Prints
        BY DEF TypeOK, PollTypes
      <3> QED
        BY <2>2, <3>1, <3>2, <3>3, RestCovers DEF InsertTrades, world
    <2>3. CASE LoseTrades(p)
      <3>1. /\ poll'[p].pc # "insert" /\ poll'[p].batch = {}
            /\ \A q \in Pollers \ {p} : poll'[q] = poll[q]
        BY <2>3 DEF LoseTrades, Resting, TypeOK, PollTypes
      <3> QED
        BY <2>3, <3>1, RestCovers DEF LoseTrades, world
    <2> QED
      BY <1>1, <2>1, <2>2, <2>3
  <1>2. ASSUME UNCHANGED <<tape, poll, since, rows, refused>> PROVE CoverInv'
    BY <1>2, ReasonsStay DEF CoverInv, FetchInv, CursorAttained, CursorCovers
  <1>3. ASSUME \/ \E m \in Markets : Relist(m)
               \/ \E s \in Scanners : Scan(s) \/ LockRow(s) \/ AbortDeadlocked(s) \/ LoseScan(s)
                                      \/ RestartScanner(s)
               \/ UNCHANGED vars
        PROVE  CoverInv'
    <2>1. UNCHANGED tape
      BY <1>3 DEF Relist, Scan, BeginScan, Discover, UpsertMarkets, SetUntracked, CommitUniverse,
                  Snapshot, LockRow, AbortDeadlocked, LoseScan, RestartScanner, FailScan, vars,
                  world
    <2> QED
      BY <1>2, <1>3, <2>1, OthersStep
  <1> QED
    BY <1>1, <1>3, TradeCovers, FetchCovers, SiftCovers, RestartCovers DEF Next, Poll

\* What the cursor passes over without its being stored came late, was crowded
\* out of the answer or was in an insert that failed: the trades poller loses
\* nothing for any other reason.
THEOREM CursorAccountsForAll == Spec => []CursorCovers
  <1>1. CoverInv => CursorCovers
    BY DEF CoverInv
  <1>2. /\ TypeOK /\ RunInv /\ CoverInv /\ [Next]_vars => TypeOK' /\ RunInv' /\ CoverInv'
    BY StepTypes, RunInvStep, CoverInvStep
  <1> QED
    BY <1>1, <1>2, InitTypes, RunInvInit, CoverInvInit, PTL DEF Spec

=============================================================================
