---------------------------- MODULE StreamProofs ----------------------------
(***************************************************************************)
(* For any books, moves and faults: whatever is on its way from Redis to   *)
(* the page keeps its order and its newest, and the page toasts exactly    *)
(* when its table shows a rise; the engine's copies catch up with the      *)
(* exchange's books, what it publishes those have yielded, and of a        *)
(* market's two kinds of arbitrage at most one is there.                   *)
(***************************************************************************)
EXTENDS Stream, FoldLemmas, SequenceTheorems, TLAPS

-----------------------------------------------------------------------------
(* What is on its way.                                                     *)

\* The sequences hold something; what exactly no proof here depends on.
Sequences == \E S : inbox \in Seq(S) /\ wire \in Seq(S) /\ pending \in S

\* Ahead of all that the page has shown or told of, and no later than the last
\* that the route was handed.
Ahead(update) ==
    /\ update.n \in 1..heard
    /\ update.n > row.n
    /\ \A n \in toasts : update.n > n

Counted ==
    /\ published \in Nat /\ heard \in 0..published
    /\ toasts \subseteq 0..heard
    /\ row.n \in 0..heard

AllAhead ==
    /\ \A i \in 1..Len(inbox) : Ahead(inbox[i])
    /\ pending # NoUpdate => Ahead(pending)
    /\ \A i \in 1..Len(wire) : Ahead(wire[i])

\* The oldest first, within each stage and from one to the next.
InOrder ==
    /\ \A i, j \in 1..Len(inbox) : i < j => inbox[i].n < inbox[j].n
    /\ \A i, j \in 1..Len(wire) : i < j => wire[i].n < wire[j].n
    /\ \A i \in 1..Len(wire), j \in 1..Len(inbox) : wire[i].n < inbox[j].n
    /\ pending # NoUpdate =>
          /\ \A i \in 1..Len(wire) : wire[i].n < pending.n
          /\ \A j \in 1..Len(inbox) : pending.n < inbox[j].n

\* The last that the route was handed is the last on its way.
NewestLast ==
    IF inbox # <<>> THEN inbox[Len(inbox)].n = heard
    ELSE IF pending # NoUpdate THEN pending.n = heard
    ELSE wire # <<>> => wire[Len(wire)].n = heard

\* What the page compares with is what it shows.
TableRemembered ==
    IF page = "ready" THEN lastSeen = row ELSE row = NoUpdate

PipeInv == Sequences /\ Counted /\ AllAhead /\ InOrder /\ NewestLast /\ TableRemembered

LEMMA InitPipeInv == Init => PipeInv
  <1> SUFFICES ASSUME Init PROVE PipeInv
    OBVIOUS
  <1>1. Sequences
    <2>1. inbox \in Seq({NoUpdate}) /\ wire \in Seq({NoUpdate}) /\ pending \in {NoUpdate}
      BY DEF Init
    <2> QED
      BY <2>1 DEF Sequences
  <1>2. Counted /\ AllAhead /\ InOrder /\ NewestLast
    BY DEF Init, Counted, AllAhead, InOrder, NewestLast, NoUpdate
  <1> QED
    BY <1>1, <1>2 DEF Init, PipeInv, TableRemembered

LEMMA SeqGrows ==
  ASSUME NEW S, NEW s \in Seq(S), NEW x
  PROVE  s \in Seq(S \cup {x}) /\ Append(s, x) \in Seq(S \cup {x})
  OBVIOUS

\* Steps of the exchange and the engine.
LEMMA AsidePipeInv ==
  ASSUME PipeInv, UNCHANGED <<published, heard, inbox, pending, wire, page, row, lastSeen, toasts>>
  PROVE  PipeInv'
  BY DEF PipeInv, Sequences, Counted, AllAhead, Ahead, InOrder, NewestLast, TableRemembered

LEMMA PublishPipeInv == ASSUME PipeInv, Publish PROVE PipeInv'
  <1> USE DEF PipeInv
  <1>1. /\ UNCHANGED <<pending, wire, page, row, lastSeen, toasts>>
        /\ published' = published + 1
    BY DEF Publish, browser
  <1>2. CASE UNCHANGED <<inbox, heard>>
    BY <1>1, <1>2 DEF Sequences, Counted, AllAhead, Ahead, InOrder, NewestLast, TableRemembered
  <1>3. CASE ~UNCHANGED <<inbox, heard>>
    <2> PICK update : update = [kind |-> publishing.kind, net |-> publishing.net, n |-> published + 1]
      OBVIOUS
    <2>1. inbox' = Append(inbox, update) /\ heard' = published + 1
      BY <1>1, <1>3 DEF Publish
    <2>2. update.n = heard'
      BY <2>1
    <2>3. PICK S : inbox \in Seq(S) /\ wire \in Seq(S) /\ pending \in S
      BY DEF Sequences
    <2>4. Sequences'
      <3>1. inbox' \in Seq(S \cup {update}) /\ wire' \in Seq(S \cup {update}) /\ pending' \in S \cup {update}
        BY <1>1, <2>1, <2>3, SeqGrows
      <3> QED
        BY <3>1 DEF Sequences
    <2>5. /\ Len(inbox') = Len(inbox) + 1 /\ Len(inbox) \in Nat
          /\ \A i \in 1..Len(inbox) : inbox'[i] = inbox[i]
          /\ inbox'[Len(inbox) + 1] = update
          /\ inbox' # <<>>
      BY <2>1, <2>3
    <2>6. Counted'
      BY <1>1, <2>1 DEF Counted
    <2>7. \A u : Ahead(u) => Ahead(u)' /\ u.n < update.n
      BY <1>1, <2>1, <2>2 DEF Counted, Ahead
    <2>8. Ahead(update)'
      BY <1>1, <2>1, <2>2 DEF Counted, Ahead
    <2>9. AllAhead'
      <3>1. ASSUME NEW i \in 1..Len(inbox') PROVE Ahead(inbox[i])'
        <4>1. CASE i \in 1..Len(inbox)
          BY <2>5, <2>7, <4>1 DEF AllAhead, Ahead
        <4>2. CASE i = Len(inbox) + 1
          BY <2>5, <2>8, <4>2 DEF Ahead
        <4> QED
          BY <2>5, <4>1, <4>2
      <3>2. pending # NoUpdate => Ahead(pending)'
        BY <1>1, <2>7 DEF AllAhead, Ahead
      <3>3. \A i \in 1..Len(wire) : Ahead(wire[i])'
        BY <1>1, <2>7 DEF AllAhead, Ahead
      <3> QED
        BY <1>1, <3>1, <3>2, <3>3 DEF AllAhead
    <2>10. InOrder'
      <3>1. \A i \in 1..Len(inbox) : inbox[i].n < update.n
        BY <2>7 DEF AllAhead
      <3>2. \A i \in 1..Len(wire) : wire[i].n < update.n
        BY <2>7 DEF AllAhead
      <3>3. pending # NoUpdate => pending.n < update.n
        BY <2>7 DEF AllAhead
      <3>4. \A i, j \in 1..Len(inbox') : i < j => inbox'[i].n < inbox'[j].n
        BY <2>5, <3>1 DEF InOrder
      <3>5. \A i \in 1..Len(wire), j \in 1..Len(inbox') : wire[i].n < inbox'[j].n
        BY <2>5, <3>2 DEF InOrder
      <3>6. pending # NoUpdate => \A j \in 1..Len(inbox') : pending.n < inbox'[j].n
        BY <2>5, <3>3 DEF InOrder
      <3> QED
        BY <1>1, <3>4, <3>5, <3>6 DEF InOrder
    <2>11. NewestLast'
      BY <2>2, <2>5 DEF NewestLast
    <2> QED
      BY <1>1, <2>4, <2>6, <2>9, <2>10, <2>11 DEF TableRemembered
  <1> QED
    BY <1>2, <1>3

LEMMA ReceivePipeInv == ASSUME PipeInv, Receive PROVE PipeInv'
  <1> USE DEF PipeInv
  <1>1. /\ UNCHANGED <<published, heard, wire, page, row, lastSeen, toasts>>
        /\ inbox # <<>> /\ inbox' = Tail(inbox) /\ pending' = Head(inbox)
    BY DEF Receive, redis, browser, Push
  <1>2. PICK S : inbox \in Seq(S) /\ wire \in Seq(S) /\ pending \in S
    BY DEF Sequences
  <1>3. /\ Len(inbox) \in Nat \ {0} /\ Len(inbox') = Len(inbox) - 1
        /\ \A i \in 1..Len(inbox') : inbox'[i] = inbox[i + 1]
        /\ pending' = inbox[1]
        /\ inbox' \in Seq(S) /\ pending' \in S
        /\ inbox' # <<>> => Len(inbox') >= 1
        /\ inbox' = <<>> => Len(inbox') = 0
    <2>1. Len(inbox) \in Nat \ {0} /\ inbox' \in Seq(S) /\ Len(inbox') = Len(inbox) - 1
      BY <1>1, <1>2
    <2>2. pending' = inbox[1] /\ \A i \in 1..Len(inbox') : inbox'[i] = inbox[i + 1]
      BY <1>1, <1>2, <2>1
    <2> QED
      BY <1>2, <2>1, <2>2
  <1>4. Sequences'
    BY <1>1, <1>2, <1>3 DEF Sequences
  <1>5. Ahead(pending') /\ pending' # NoUpdate
    BY <1>3 DEF AllAhead, Ahead, NoUpdate
  <1>6. Counted' /\ AllAhead'
    BY <1>1, <1>3, <1>5 DEF Counted, AllAhead, Ahead
  <1>7. InOrder'
    BY <1>1, <1>3, <1>5 DEF InOrder
  <1>8. NewestLast'
    BY <1>1, <1>3, <1>5 DEF NewestLast
  <1> QED
    BY <1>1, <1>4, <1>6, <1>7, <1>8 DEF TableRemembered

LEMMA FlushPipeInv == ASSUME PipeInv, Flush PROVE PipeInv'
  <1> USE DEF PipeInv
  <1>1. /\ UNCHANGED <<published, heard, inbox, page, row, lastSeen, toasts>>
        /\ pending # NoUpdate /\ wire' = Append(wire, pending) /\ pending' = NoUpdate
    BY DEF Flush, redis, browser, Sent
  <1>2. PICK S : inbox \in Seq(S) /\ wire \in Seq(S) /\ pending \in S
    BY DEF Sequences
  <1>3. Sequences'
    <2>1. wire' \in Seq(S \cup {NoUpdate}) /\ inbox' \in Seq(S \cup {NoUpdate})
      BY <1>1, <1>2, SeqGrows
    <2> QED
      BY <1>1, <2>1 DEF Sequences
  <1>4. /\ Len(wire') = Len(wire) + 1 /\ Len(wire) \in Nat
        /\ \A i \in 1..Len(wire) : wire'[i] = wire[i]
        /\ wire'[Len(wire) + 1] = pending
        /\ wire' # <<>>
    BY <1>1, <1>2
  <1>5. Counted' /\ AllAhead'
    BY <1>1, <1>4 DEF Counted, AllAhead, Ahead
  <1>6. InOrder'
    BY <1>1, <1>4 DEF InOrder
  <1>7. NewestLast'
    BY <1>1, <1>4 DEF NewestLast
  <1> QED
    BY <1>1, <1>3, <1>5, <1>6, <1>7 DEF TableRemembered

LEMMA HandlePipeInv == ASSUME PipeInv, HandleUpdate PROVE PipeInv'
  <1> USE DEF PipeInv
  <1> PICK update : update = Head(wire)
    OBVIOUS
  <1>1. /\ UNCHANGED <<published, heard, inbox, pending, page>>
        /\ wire # <<>> /\ wire' = Tail(wire) /\ lastSeen' = update
        /\ toasts' \subseteq toasts \cup {update.n}
        /\ row' = IF page = "ready" THEN update ELSE row
    BY DEF HandleUpdate, redis
  <1>2. PICK S : inbox \in Seq(S) /\ wire \in Seq(S) /\ pending \in S
    BY DEF Sequences
  <1>3. /\ Len(wire) \in Nat \ {0} /\ Len(wire') = Len(wire) - 1
        /\ \A i \in 1..Len(wire') : wire'[i] = wire[i + 1]
        /\ update = wire[1]
        /\ wire' \in Seq(S)
        /\ wire' = <<>> => Len(wire') = 0
        /\ wire' # <<>> => Len(wire') >= 1
    <2>1. Len(wire) \in Nat \ {0} /\ wire' \in Seq(S) /\ Len(wire') = Len(wire) - 1
      BY <1>1, <1>2
    <2>2. update = wire[1] /\ \A i \in 1..Len(wire') : wire'[i] = wire[i + 1]
      BY <1>1, <1>2, <2>1
    <2> QED
      BY <2>1, <2>2
  <1>4. Sequences'
    BY <1>1, <1>2, <1>3 DEF Sequences
  <1>5. Ahead(update)
    BY <1>3 DEF AllAhead
  <1>6. Counted'
    BY <1>1, <1>5 DEF Counted, Ahead
  <1>7. \A u : Ahead(u) /\ update.n < u.n => Ahead(u)'
    BY <1>1, <1>5 DEF Ahead
  <1>8. AllAhead'
    <2>1. ASSUME NEW i \in 1..Len(wire') PROVE Ahead(wire[i])'
      <3>1. i + 1 \in 1..Len(wire) /\ 1 \in 1..Len(wire) /\ 1 < i + 1
        BY <1>3
      <3>2. Ahead(wire[i + 1]) /\ update.n < wire[i + 1].n
        BY <1>3, <3>1 DEF AllAhead, InOrder
      <3> QED
        BY <1>3, <1>7, <3>2 DEF Ahead
    <2>2. ASSUME NEW i \in 1..Len(inbox) PROVE Ahead(inbox[i])'
      <3>1. Ahead(inbox[i]) /\ update.n < inbox[i].n
        BY <1>3 DEF AllAhead, InOrder
      <3> QED
        BY <1>1, <1>7, <3>1 DEF Ahead
    <2>3. ASSUME pending # NoUpdate PROVE Ahead(pending)'
      <3>1. Ahead(pending) /\ update.n < pending.n
        BY <1>3, <2>3 DEF AllAhead, InOrder
      <3> QED
        BY <1>1, <1>7, <3>1 DEF Ahead
    <2> QED
      BY <1>1, <2>1, <2>2, <2>3 DEF AllAhead
  <1>9. InOrder'
    BY <1>1, <1>3 DEF InOrder
  <1>10. NewestLast'
    BY <1>1, <1>3 DEF NewestLast
  <1> QED
    BY <1>1, <1>4, <1>6, <1>8, <1>9, <1>10 DEF TableRemembered

\* Both connections of the route are gone with what was on them.
LEMMA SilencePipeInv ==
  ASSUME PipeInv, Silence, UNCHANGED <<published, heard, toasts>>,
         \/ UNCHANGED <<page, row, lastSeen>>
         \/ page' = "loading" /\ row' = NoUpdate
  PROVE  PipeInv'
  <1> USE DEF PipeInv
  <1>1. inbox' = <<>> /\ pending' = NoUpdate /\ wire' = <<>>
    BY DEF Silence
  <1>2. Sequences'
    <2>1. inbox' \in Seq({NoUpdate}) /\ wire' \in Seq({NoUpdate}) /\ pending' \in {NoUpdate}
      BY <1>1
    <2> QED
      BY <2>1 DEF Sequences
  <1>3. Counted' /\ TableRemembered'
    BY DEF Counted, TableRemembered, NoUpdate
  <1> QED
    BY <1>1, <1>2, <1>3 DEF AllAhead, InOrder, NewestLast

LEMMA LoadPipeInv == ASSUME PipeInv, Load \/ FailLoad PROVE PipeInv'
  BY DEF Load, FailLoad, redis, route, PipeInv, Sequences, Counted, AllAhead, Ahead, InOrder,
         NewestLast, TableRemembered

LEMMA NextPipeInv == PipeInv /\ [Next]_vars => PipeInv'
  <1> SUFFICES ASSUME PipeInv, [Next]_vars PROVE PipeInv'
    OBVIOUS
  <1>1. CASE \/ \E leg \in Legs, delta \in Deltas : Move(leg, delta)
             \/ Connect \/ Drop \/ Ingest \/ FailPublish \/ Restart \/ Listen
             \/ UNCHANGED vars
    BY <1>1, AsidePipeInv
       DEF Move, Connect, Drop, Ingest, FailPublish, Restart, Listen, vars, redis, route, browser
  <1>2. CASE Publish
    BY <1>2, PublishPipeInv
  <1>3. CASE Receive
    BY <1>3, ReceivePipeInv
  <1>4. CASE Flush
    BY <1>4, FlushPipeInv
  <1>5. CASE HandleUpdate
    BY <1>5, HandlePipeInv
  <1>6. CASE BreakStream \/ Reload
    BY <1>6, SilencePipeInv DEF BreakStream, Reload, redis, browser
  <1>7. CASE Load \/ FailLoad
    BY <1>7, LoadPipeInv
  <1> QED
    BY <1>1, <1>2, <1>3, <1>4, <1>5, <1>6, <1>7 DEF Next

LEMMA PipeInvariant == Spec => []PipeInv
  BY InitPipeInv, NextPipeInv, PTL DEF Spec

-----------------------------------------------------------------------------
(* What the operator sees.                                                 *)

\* Only an update shows a row.
LEMMA RowShown ==
  ASSUME [Next]_vars, row' # row, row' # NoUpdate
  PROVE  HandleUpdate
  BY DEF Next, Move, Connect, Drop, Ingest, Publish, FailPublish, Restart, Listen, BreakStream,
         Receive, Flush, Load, FailLoad, Reload, vars, browser

\* shouldToastSignal and mergeSignalUpdate (web signals/page.tsx) decide on two
\* memories of the row, and yet alike.
THEOREM ToastsAreShown == Spec => ToastsFollowTable
  <1>1. PipeInv /\ [Next]_vars
        => [row' # row /\ row' # NoUpdate
              => (row'.n \in toasts' <=> row'.net >= High /\ (row = NoUpdate \/ row.net < High))]_vars
    <2> SUFFICES ASSUME PipeInv, [Next]_vars, row' # row, row' # NoUpdate
                 PROVE  row'.n \in toasts' <=> row'.net >= High /\ (row = NoUpdate \/ row.net < High)
      OBVIOUS
    <2> DEFINE update == Head(wire)
    <2>1. HandleUpdate
      BY RowShown
    <2>2. page = "ready" /\ row' = update /\ lastSeen = row
      BY <2>1 DEF HandleUpdate, PipeInv, TableRemembered
    <2>3. toasts' = IF ShouldToast(row, update) THEN toasts \cup {update.n} ELSE toasts
      BY <2>1, <2>2 DEF HandleUpdate
    <2>4. update.n \notin toasts
      <3>1. PICK S : wire \in Seq(S)
        BY DEF PipeInv, Sequences
      <3>2. Len(wire) \in Nat \ {0} /\ update = wire[1]
        BY <2>1, <3>1 DEF HandleUpdate
      <3>3. Ahead(update)
        BY <3>2 DEF PipeInv, AllAhead
      <3> QED
        BY <3>3 DEF Ahead
    <2> QED
      BY <2>2, <2>3, <2>4 DEF ShouldToast
  <1> QED
    BY <1>1, PipeInvariant, PTL DEF Spec, ToastsFollowTable

\* What is on its way, position by position.
LEMMA PipePositions ==
  ASSUME NEW S, NEW w \in Seq(S), NEW m \in Seq(S), NEW b \in Seq(S)
  PROVE  LET p == w \o m \o b
         IN /\ p \in Seq(S) /\ Len(p) = Len(w) + Len(m) + Len(b)
            /\ \A i \in 1..Len(w) : p[i] = w[i]
            /\ \A i \in 1..Len(m) : p[Len(w) + i] = m[i]
            /\ \A i \in 1..Len(b) : p[Len(w) + Len(m) + i] = b[i]
  <1>1. w \o m \in Seq(S) /\ Len(w \o m) = Len(w) + Len(m)
    OBVIOUS
  <1>2. \A i \in 1..Len(w) + Len(m) : (w \o m)[i] = IF i <= Len(w) THEN w[i] ELSE m[i - Len(w)]
    BY ConcatProperties
  <1>3. \A i \in 1..Len(w \o m) + Len(b) :
           (w \o m \o b)[i] = IF i <= Len(w \o m) THEN (w \o m)[i] ELSE b[i - Len(w \o m)]
    BY <1>1, ConcatProperties
  <1>4. w \o m \o b \in Seq(S) /\ Len(w \o m \o b) = Len(w) + Len(m) + Len(b)
    BY <1>1, ConcatProperties
  <1>5. Len(w) \in Nat /\ Len(m) \in Nat /\ Len(b) \in Nat
    OBVIOUS
  <1> QED
    BY <1>1, <1>2, <1>3, <1>4, <1>5

\* Redis, Conflator and the event source: no update overtakes another, and
\* of what is conflated the newest is kept.
THEOREM NewestIsKept == Spec => []NewestSurvives
  <1>1. PipeInv => NewestSurvives
    <2> SUFFICES ASSUME PipeInv PROVE NewestSurvives
      OBVIOUS
    <2> USE DEF PipeInv
    <2> PICK S : inbox \in Seq(S) /\ wire \in Seq(S) /\ pending \in S
      BY DEF Sequences
    <2> DEFINE mid == IF pending = NoUpdate THEN <<>> ELSE <<pending>>
               w == Len(wire)
               m == Len(mid)
               b == Len(inbox)
    <2>1. mid \in Seq(S) /\ m = (IF pending = NoUpdate THEN 0 ELSE 1) /\ w \in Nat /\ b \in Nat
          /\ (m = 1 => mid[1] = pending)
      OBVIOUS
    <2>2. /\ Pipe \in Seq(S) /\ Len(Pipe) = w + m + b
          /\ \A i \in 1..w : Pipe[i] = wire[i]
          /\ \A i \in 1..m : Pipe[w + i] = mid[i]
          /\ \A i \in 1..b : Pipe[w + m + i] = inbox[i]
      <3>1. Pipe = wire \o mid \o inbox
        BY DEF Pipe
      <3> HIDE DEF mid
      <3>2. mid \in Seq(S)
        BY <2>1
      <3> QED
        BY <3>1, <3>2, PipePositions
    <2>3. /\ m = 1 => pending # NoUpdate /\ Pipe[w + 1] = pending
          /\ m = 0 => pending = NoUpdate
          /\ m \in {0, 1}
      BY <2>1, <2>2
    <2> HIDE DEF mid, w, m, b
    <2>4. ASSUME NEW i \in 1..(w + m + b)
          PROVE  \/ i \in 1..w
                 \/ m = 1 /\ i = w + 1
                 \/ i - w - m \in 1..b /\ Pipe[i] = inbox[i - w - m]
      <3>1. CASE i > w + m
        <4>1. i - w - m \in 1..b /\ i = w + m + (i - w - m)
          BY <2>1, <2>3, <3>1
        <4> QED
          BY <2>2, <4>1
      <3>2. CASE i <= w + m
        BY <2>1, <2>3, <3>2
      <3> QED
        BY <2>1, <2>3, <3>1, <3>2
    <2>5. ASSUME NEW i \in 1..(w + m + b), NEW j \in 1..(w + m + b), i < j
          PROVE  Pipe[i].n < Pipe[j].n
      <3>1. CASE j \in 1..w
        <4>1. i \in 1..w
          BY <2>1, <2>5, <3>1
        <4>2. Pipe[i] = wire[i] /\ Pipe[j] = wire[j]
          BY <2>2, <3>1, <4>1
        <4> QED
          BY <2>5, <3>1, <4>1, <4>2 DEF InOrder, w
      <3>2. CASE m = 1 /\ j = w + 1
        <4>1. i \in 1..w
          BY <2>1, <2>5, <3>2
        <4> QED
          BY <2>2, <2>3, <3>2, <4>1 DEF InOrder, w
      <3>3. CASE j - w - m \in 1..b /\ Pipe[j] = inbox[j - w - m]
        <4>1. CASE i \in 1..w
          BY <2>2, <3>3, <4>1 DEF InOrder, w, b
        <4>2. CASE m = 1 /\ i = w + 1
          BY <2>3, <3>3, <4>2 DEF InOrder, b
        <4>3. CASE i - w - m \in 1..b /\ Pipe[i] = inbox[i - w - m]
          <5>1. i - w - m < j - w - m
            BY <2>1, <2>3, <2>5
          <5> QED
            BY <3>3, <4>3, <5>1 DEF InOrder, b
        <4> QED
          BY <2>4, <4>1, <4>2, <4>3
      <3> QED
        BY <2>4, <3>1, <3>2, <3>3
    <2>6. ASSUME NEW i \in 1..(w + m + b) PROVE Pipe[i].n > row.n
      BY <2>2, <2>3, <2>4, <2>6 DEF AllAhead, Ahead, w, b
    <2>7. ASSUME Pipe # <<>> PROVE Pipe[w + m + b].n = heard /\ w + m + b >= 1
      <3>1. w + m + b >= 1
        BY <2>1, <2>2, <2>3, <2>7
      <3>2. CASE b >= 1
        <4>1. inbox # <<>> /\ Pipe[w + m + b] = inbox[b]
          BY <2>1, <2>2, <3>2 DEF b
        <4> QED
          BY <3>1, <4>1 DEF NewestLast, b
      <3>3. CASE b = 0 /\ m = 1
        <4>1. inbox = <<>>
          BY <3>3 DEF b
        <4> QED
          BY <2>1, <2>3, <3>1, <3>3, <4>1 DEF NewestLast
      <3>4. CASE b = 0 /\ m = 0
        <4>1. inbox = <<>> /\ wire # <<>>
          BY <2>1, <3>1, <3>4 DEF b, w
        <4>2. w + m + b = w /\ w \in 1..w
          BY <2>1, <3>1, <3>4
        <4> QED
          BY <2>2, <2>3, <3>1, <3>4, <4>1, <4>2 DEF NewestLast, w
      <3> QED
        BY <2>1, <2>3, <3>2, <3>3, <3>4
    <2>8. DOMAIN Pipe = 1..(w + m + b)
      BY <2>2
    <2>9. Pipe # <<>> => Last(Pipe).n = heard /\ Head(Pipe).n > row.n
      <3> SUFFICES ASSUME Pipe # <<>> PROVE Last(Pipe).n = heard /\ Head(Pipe).n > row.n
        OBVIOUS
      <3>1. Head(Pipe) = Pipe[1] /\ 1 \in 1..(w + m + b)
        BY <2>1, <2>2, <2>3, <2>7
      <3>2. Head(Pipe).n > row.n
        BY <2>6, <3>1
      <3>3. Last(Pipe) = Pipe[w + m + b]
        BY <2>2 DEF Last
      <3> QED
        BY <2>7, <3>2, <3>3
    <2> QED
      BY <2>5, <2>8, <2>9 DEF NewestSurvives
  <1> QED
    BY <1>1, PipeInvariant, PTL

-----------------------------------------------------------------------------
(* Books.                                                                  *)

LEMMA FrameIs ==
  ASSUME NEW f \in Frame
  PROVE  /\ f.leg \in Legs /\ f.bad \in BOOLEAN /\ f.type \in {"book", "price_change"}
         /\ f.type = "book" => f.book \in Book
         /\ f.type = "price_change" => f.changes \in Seq(Change)
  BY DEF Frame

LEMMA ApplyChangeIs ==
  ASSUME NEW b \in Book, NEW c \in Change
  PROVE  ApplyChange(b, c) \in Book
  <1>1. c.side \in {"bids", "asks"} /\ c.price \in Prices /\ c.size \in Nat
    BY DEF Change
  <1>2. b.bids \in Side /\ b.asks \in Side
    BY DEF Book
  <1> QED
    BY <1>1, <1>2 DEF ApplyChange, Book, Side

\* A delta's changes one after the other.
LEMMA ApplyAllIs ==
  ASSUME NEW b \in Book, NEW changes \in Seq(Change)
  PROVE  ApplyAll(b, changes) \in Book
  <1> DEFINE N == Len(changes)
             Iter(iter) == iter = [s \in SUBSET DOMAIN changes |->
                                     IF s = {} THEN b
                                     ELSE ApplyChange(iter[s \ {Max(s)}], changes[Max(s)])]
             F == [p \in (1..N) \X Book |-> ApplyChange(p[2], changes[p[1]])]
  <1>1. N \in Nat /\ DOMAIN changes = 1..N /\ \A k \in 1..N : changes[k] \in Change
    OBVIOUS
  <1>2. F \in [(1..N) \X Book -> Book]
    BY <1>1, ApplyChangeIs
  <1>3. \A k \in 1..N, v \in Book : F[<<k, v>>] = ApplyChange(v, changes[k])
    OBVIOUS
  <1> HIDE DEF F
  <1>4. PICK g \in [SUBSET (1..N) -> Book] : FoldsLeft(g, N, b, F)
    BY <1>1, <1>2, FoldLeftExists
  <1>5. \A s \in SUBSET (1..N) :
           g[s] = IF s = {} THEN b ELSE ApplyChange(g[s \ {Max(s)}], changes[Max(s)])
    BY <1>1, <1>3, <1>4, MaxIn DEF FoldsLeft
  <1>6. Iter(g)
    <2> DEFINE h == [s \in SUBSET DOMAIN changes |->
                       IF s = {} THEN b
                       ELSE ApplyChange(g[s \ {Max(s)}], changes[Max(s)])]
    <2>1. h = [s \in SUBSET (1..N) |-> h[s]] /\ g = [s \in SUBSET (1..N) |-> g[s]]
      BY <1>1
    <2>2. \A s \in SUBSET (1..N) : g[s] = h[s]
      BY <1>1, <1>5
    <2> HIDE DEF h, N
    <2>3. g = h
      BY <2>1, <2>2
    <2> QED
      BY <2>3 DEF h
  <1> DEFINE iter == CHOOSE iter : Iter(iter)
  <1>7. Iter(iter)
    BY <1>6
  <1>8. ApplyAll(b, changes) = iter[1..N]
    BY <1>1 DEF ApplyAll, FoldLeft, MapThenFoldSet
  <1>9. \A s \in SUBSET (1..N) :
           iter[s] = IF s = {} THEN b ELSE ApplyChange(iter[s \ {Max(s)}], changes[Max(s)])
    <2> HIDE DEF iter, N
    <2> QED
      BY <1>1, <1>7
  <1> HIDE DEF iter, Iter, N
  <1>10. iter[{}] \in Book
    BY <1>9
  <1>11. ASSUME NEW k \in 1..N, iter[1..(k - 1)] \in Book PROVE iter[1..k] \in Book
    <2>1. iter[1..k] = ApplyChange(iter[1..(k - 1)], changes[k])
      BY <1>1, <1>9, MaxOfInterval
    <2> QED
      BY <1>1, <1>11, <2>1, ApplyChangeIs
  <1>12. \A k \in 0..N : iter[1..k] \in Book
    BY <1>1, <1>10, <1>11, FoldStays
  <1> QED
    BY <1>1, <1>8, <1>12

-----------------------------------------------------------------------------
(* Sums along a side of a book.                                            *)

LEMMA MaxOfPair ==
  ASSUME NEW a \in Int, NEW b \in Int
  PROVE  Max({a, b}) = IF a >= b THEN a ELSE b
  <1> DEFINE m == IF a >= b THEN a ELSE b
  <1>1. m \in {a, b} /\ \A y \in {a, b} : m >= y
    OBVIOUS
  <1>2. \A x \in {a, b} : (\A y \in {a, b} : x >= y) => x = m
    OBVIOUS
  <1> HIDE DEF m
  <1>3. Max({a, b}) \in {a, b} /\ \A y \in {a, b} : Max({a, b}) >= y
    BY <1>1 DEF Max
  <1> QED
    BY <1>2, <1>3 DEF m

LEMMA MinOfPair ==
  ASSUME NEW a \in Int, NEW b \in Int
  PROVE  Min({a, b}) = IF a <= b THEN a ELSE b
  <1> DEFINE m == IF a <= b THEN a ELSE b
  <1>1. m \in {a, b} /\ \A y \in {a, b} : m <= y
    OBVIOUS
  <1>2. \A x \in {a, b} : (\A y \in {a, b} : x <= y) => x = m
    OBVIOUS
  <1> HIDE DEF m
  <1>3. Min({a, b}) \in {a, b} /\ \A y \in {a, b} : Min({a, b}) <= y
    BY <1>1 DEF Min
  <1> QED
    BY <1>2, <1>3 DEF m

LEMMA PricesAreFinite == IsFiniteSet(Prices) /\ Prices \subseteq Int
  <1>1. IsFiniteSet(1..One)
    BY ArbAssumption, FS_Interval
  <1>2. Prices \in SUBSET (1..One)
    BY ArbAssumption
  <1>3. IsFiniteSet(Prices)
    BY <1>1, <1>2, FS_Subset
  <1> QED
    BY <1>2, <1>3, ArbAssumption

LEMMA DepthIs ==
  ASSUME NEW side \in Side, NEW P \in SUBSET Prices
  PROVE  Depth(side, P) = SumOf(side, P) /\ Depth(side, P) \in Int
  <1>1. Depth(side, P) = SumOf(side, P)
    BY DEF Depth, SumOf
  <1>2. IsFiniteSet(P)
    BY PricesAreFinite, FS_Subset
  <1>3. \A p \in P : side[p] \in Int
    BY DEF Side
  <1> QED
    BY <1>1, <1>2, <1>3, SumInt

LEMMA TakenIs ==
  ASSUME NEW side \in Side, NEW p \in Prices, NEW better \in SUBSET Prices
  PROVE  /\ Taken(side, p, better) \in Nat
         /\ Taken(side, p, better) = LET left == SetSize - Depth(side, better)
                                     IN IF left <= 0 THEN 0
                                        ELSE IF side[p] <= left THEN side[p] ELSE left
  <1> PICK d \in Int : d = Depth(side, better)
    BY DepthIs
  <1>1. SetSize \in Nat /\ side[p] \in Nat
    BY ArbAssumption DEF Side
  <1> PICK z \in Nat : z = side[p]
    BY <1>1
  <1> PICK l \in Int : l = SetSize - d
    BY <1>1
  <1> PICK m \in Int : m = IF 0 >= l THEN 0 ELSE l
    OBVIOUS
  <1>2. m = Max({0, l})
    BY MaxOfPair
  <1>3. Min({z, m}) = IF z <= m THEN z ELSE m
    BY MinOfPair
  <1>4. Taken(side, p, better) = Min({z, m})
    BY <1>2 DEF Taken
  <1>5. Taken(side, p, better) = IF l <= 0 THEN 0 ELSE IF z <= l THEN z ELSE l
    BY <1>3, <1>4
  <1> QED
    BY <1>5

Spent(asks) == [p \in Prices |-> p * Taken(asks, p, {q \in Prices : q < p})]

Got(bids) == [p \in Prices |-> p * Taken(bids, p, {q \in Prices : q > p})]

LEMMA CostIs ==
  ASSUME NEW asks \in Side
  PROVE  /\ \A p \in Prices : Spent(asks)[p] \in Int
         /\ CostToBuy(asks) = SumOf(Spent(asks), Prices) /\ CostToBuy(asks) \in Int
  <1> DEFINE f == Spent(asks)
             Iter(it) == it = [s \in SUBSET Prices |->
                                 IF s = {} THEN 0
                                 ELSE LET x == CHOOSE x \in s : TRUE
                                      IN x * Taken(asks, x, {q \in Prices : q < x}) + it[s \ {x}]]
  <1>1. \A p \in Prices : f[p] \in Int
    <2> TAKE p \in Prices
    <2>1. p \in Int /\ Taken(asks, p, {q \in Prices : q < p}) \in Int
      BY TakenIs, PricesAreFinite
    <2> QED
      BY <2>1 DEF Spent
  <1>2. ASSUME NEW it PROVE Iter(it) <=> SumsUp(it, f, Prices)
    <2> DEFINE h1 == [s \in SUBSET Prices |->
                                 IF s = {} THEN 0
                                 ELSE LET x == CHOOSE x \in s : TRUE
                                      IN x * Taken(asks, x, {q \in Prices : q < x}) + it[s \ {x}]]
               h2 == [s \in SUBSET Prices |->
                       IF s = {} THEN 0
                       ELSE f[CHOOSE x \in s : TRUE] + it[s \ {CHOOSE x \in s : TRUE}]]
    <2>1. \A s \in SUBSET Prices : h1[s] = h2[s]
      <3> TAKE s \in SUBSET Prices
      <3> DEFINE x == CHOOSE x \in s : TRUE
      <3>1. s # {} => x \in Prices
        OBVIOUS
      <3>2. s # {} => f[x] = x * Taken(asks, x, {q \in Prices : q < x})
        BY <3>1 DEF Spent
      <3> HIDE DEF f
      <3> QED
        BY <3>2
    <2>2. h1 = [s \in SUBSET Prices |-> h1[s]] /\ h2 = [s \in SUBSET Prices |-> h2[s]]
      OBVIOUS
    <2> HIDE DEF h1, h2
    <2>3. h1 = h2
      BY <2>1, <2>2
    <2>4. Iter(it) <=> it = h1
      BY DEF h1
    <2>5. SumsUp(it, f, Prices) <=> it = h2
      BY DEF h2, SumsUp
    <2> HIDE DEF Iter
    <2> QED
      BY <2>3, <2>4, <2>5
  <1> DEFINE it == CHOOSE it : Iter(it)
  <1>3. CostToBuy(asks) = it[Prices]
    BY DEF CostToBuy, MapThenSumSet, MapThenFoldSet
  <1> HIDE DEF f, Iter
  <1>4. \E i : Iter(i)
    BY <1>1, <1>2, PricesAreFinite, SumsUpExists
  <1>5. SumsUp(it, f, Prices)
    BY <1>2, <1>4
  <1>6. CostToBuy(asks) = SumOf(f, Prices)
    BY <1>1, <1>3, <1>5, PricesAreFinite, SumsUpIsSum
  <1> QED
    BY <1>1, <1>6, PricesAreFinite, SumInt DEF f

LEMMA PaidIs ==
  ASSUME NEW bids \in Side
  PROVE  /\ \A p \in Prices : Got(bids)[p] \in Int
         /\ PaidForSale(bids) = SumOf(Got(bids), Prices) /\ PaidForSale(bids) \in Int
  <1> DEFINE f == Got(bids)
             Iter(it) == it = [s \in SUBSET Prices |->
                                 IF s = {} THEN 0
                                 ELSE LET x == CHOOSE x \in s : TRUE
                                      IN x * Taken(bids, x, {q \in Prices : q > x}) + it[s \ {x}]]
  <1>1. \A p \in Prices : f[p] \in Int
    <2> TAKE p \in Prices
    <2>1. p \in Int /\ Taken(bids, p, {q \in Prices : q > p}) \in Int
      BY TakenIs, PricesAreFinite
    <2> QED
      BY <2>1 DEF Got
  <1>2. ASSUME NEW it PROVE Iter(it) <=> SumsUp(it, f, Prices)
    <2> DEFINE h1 == [s \in SUBSET Prices |->
                                 IF s = {} THEN 0
                                 ELSE LET x == CHOOSE x \in s : TRUE
                                      IN x * Taken(bids, x, {q \in Prices : q > x}) + it[s \ {x}]]
               h2 == [s \in SUBSET Prices |->
                       IF s = {} THEN 0
                       ELSE f[CHOOSE x \in s : TRUE] + it[s \ {CHOOSE x \in s : TRUE}]]
    <2>1. \A s \in SUBSET Prices : h1[s] = h2[s]
      <3> TAKE s \in SUBSET Prices
      <3> DEFINE x == CHOOSE x \in s : TRUE
      <3>1. s # {} => x \in Prices
        OBVIOUS
      <3>2. s # {} => f[x] = x * Taken(bids, x, {q \in Prices : q > x})
        BY <3>1 DEF Got
      <3> HIDE DEF f
      <3> QED
        BY <3>2
    <2>2. h1 = [s \in SUBSET Prices |-> h1[s]] /\ h2 = [s \in SUBSET Prices |-> h2[s]]
      OBVIOUS
    <2> HIDE DEF h1, h2
    <2>3. h1 = h2
      BY <2>1, <2>2
    <2>4. Iter(it) <=> it = h1
      BY DEF h1
    <2>5. SumsUp(it, f, Prices) <=> it = h2
      BY DEF h2, SumsUp
    <2> HIDE DEF Iter
    <2> QED
      BY <2>3, <2>4, <2>5
  <1> DEFINE it == CHOOSE it : Iter(it)
  <1>3. PaidForSale(bids) = it[Prices]
    BY DEF PaidForSale, MapThenSumSet, MapThenFoldSet
  <1> HIDE DEF f, Iter
  <1>4. \E i : Iter(i)
    BY <1>1, <1>2, PricesAreFinite, SumsUpExists
  <1>5. SumsUp(it, f, Prices)
    BY <1>2, <1>4
  <1>6. PaidForSale(bids) = SumOf(f, Prices)
    BY <1>1, <1>3, <1>5, PricesAreFinite, SumsUpIsSum
  <1> QED
    BY <1>1, <1>6, PricesAreFinite, SumInt DEF f


\* Level after level the set is filled, and no more than filled.
LEMMA TakenTogether ==
  ASSUME NEW side \in Side, NEW better \in [Prices -> SUBSET Prices],
         \A p \in Prices : p \notin better[p] /\ \A q \in better[p] : better[q] \subseteq better[p],
         \A s \in SUBSET Prices : s # {} => \E p \in s : s \ {p} \subseteq better[p]
  PROVE  SumOf([p \in Prices |-> Taken(side, p, better[p])], Prices)
         = IF Depth(side, Prices) >= SetSize THEN SetSize ELSE Depth(side, Prices)
  <1> DEFINE f == [p \in Prices |-> Taken(side, p, better[p])]
             Filled(T) == IF Depth(side, T) >= SetSize THEN SetSize ELSE Depth(side, T)
             Closed(T) == \A p \in T : better[p] \subseteq T
             B == {T \in SUBSET Prices : Closed(T) /\ SumOf(f, T) # Filled(T)}
  <1>1. SetSize \in Nat /\ IsFiniteSet(Prices)
    BY ArbAssumption, PricesAreFinite
  <1>2. B = {}
    <2> SUFFICES ASSUME B # {} PROVE FALSE
      OBVIOUS
    <2>0. B \in SUBSET SUBSET Prices
      OBVIOUS
    <2> HIDE DEF B
    <2>1. PICK T \in B : IsFiniteSet(T) /\ \A p \in T : T \ {p} \notin B
      BY <1>1, <2>0, LeastSubset
    <2> USE DEF B
    <2>2. T \in SUBSET Prices /\ Closed(T) /\ SumOf(f, T) # Filled(T)
      OBVIOUS
    <2>3. T # {}
      <3>1. SumOf(f, {}) = 0 /\ Depth(side, {}) = 0
        BY SumEmpty, DepthIs
      <3>2. Filled({}) = 0
        BY <1>1, <3>1
      <3> HIDE DEF f, Filled, B
      <3>3. SumOf(f, {}) = Filled({})
        BY <3>1, <3>2
      <3> QED
        BY <2>2, <3>3
    <2>4. PICK p \in T : T \ {p} \subseteq better[p]
      BY <2>2, <2>3
    <2>5. better[p] = T \ {p} /\ p \in Prices
      BY <2>2, <2>4
    <2>6. Closed(T \ {p})
      BY <2>2, <2>4, <2>5
    <2>7. SumOf(f, T \ {p}) = Filled(T \ {p})
      BY <2>1, <2>2, <2>6
    <2>8. \A q \in T : f[q] \in Int /\ side[q] \in Int
      BY <2>2, TakenIs DEF Side
    <2>9. f[p] = Taken(side, p, T \ {p})
      BY <2>5
    <2> HIDE DEF f, B, Closed
    <2>10. /\ SumOf(f, T) = f[p] + SumOf(f, T \ {p})
           /\ SumOf(side, T) = side[p] + SumOf(side, T \ {p})
      BY <2>1, <2>8, SumPick
    <2>11. /\ Depth(side, T) = SumOf(side, T)
           /\ Depth(side, T \ {p}) = SumOf(side, T \ {p}) /\ Depth(side, T \ {p}) \in Int
      BY <2>2, DepthIs
    <2> PICK d \in Int : d = Depth(side, T \ {p})
      BY <2>11
    <2> PICK z \in Nat : z = side[p]
      BY <2>5 DEF Side
    <2>12. f[p] = IF SetSize - d <= 0 THEN 0 ELSE IF z <= SetSize - d THEN z ELSE SetSize - d
      <3>1. T \ {p} \in SUBSET Prices
        BY <2>2
      <3> QED
        BY <2>5, <2>9, <3>1, TakenIs
    <2>13. SumOf(f, T) = f[p] + IF d >= SetSize THEN SetSize ELSE d
      BY <2>7, <2>10
    <2>14. Filled(T) = IF z + d >= SetSize THEN SetSize ELSE z + d
      BY <2>10, <2>11
    <2> HIDE DEF Filled
    <2> QED
      BY <1>1, <2>2, <2>12, <2>13, <2>14
  <1>3. Closed(Prices)
    OBVIOUS
  <1> HIDE DEF f, Closed, Filled
  <1>4. SumOf(f, Prices) = Filled(Prices)
    BY <1>2, <1>3
  <1> QED
    BY <1>4 DEF f, Filled


LEMMA TimesMore ==
  ASSUME NEW a \in Nat, NEW b \in Nat, NEW t \in Nat, a <= b
  PROVE  a * t <= b * t
  <1> PICK d \in Nat : b = a + d
    <2>1. b - a \in Nat /\ b = a + (b - a)
      OBVIOUS
    <2> QED
      BY <2>1
  <1>1. b * t = a * t + d * t
    OBVIOUS
  <1>2. d * t \in Nat /\ a * t \in Nat
    OBVIOUS
  <1> QED
    BY <1>1, <1>2

Below == [p \in Prices |-> {q \in Prices : q < p}]
Above == [p \in Prices |-> {q \in Prices : q > p}]

LEMMA SetIsFilled ==
  ASSUME NEW side \in Side, Fillable(side)
  PROVE  /\ SumOf([p \in Prices |-> Taken(side, p, Below[p])], Prices) = SetSize
         /\ SumOf([p \in Prices |-> Taken(side, p, Above[p])], Prices) = SetSize
  <1>1. /\ Below \in [Prices -> SUBSET Prices]
        /\ \A p \in Prices : p \notin Below[p] /\ \A q \in Below[p] : Below[q] \subseteq Below[p]
    <2>1. Below \in [Prices -> SUBSET Prices]
      BY DEF Below
    <2>2. \A p, q \in Prices : q \in Below[p] <=> q < p
      BY DEF Below
    <2>3. \A p \in Prices : p \notin Below[p]
      BY <2>2, PricesAreFinite
    <2>4. ASSUME NEW p \in Prices, NEW q \in Below[p], NEW r \in Below[q] PROVE r \in Below[p]
      <3>1. q \in Prices /\ r \in Prices
        BY <2>1
      <3> QED
        BY <2>2, <3>1, PricesAreFinite
    <2> QED
      BY <2>1, <2>3, <2>4
  <1>2. /\ Above \in [Prices -> SUBSET Prices]
        /\ \A p \in Prices : p \notin Above[p] /\ \A q \in Above[p] : Above[q] \subseteq Above[p]
    <2>1. Above \in [Prices -> SUBSET Prices]
      BY DEF Above
    <2>2. \A p, q \in Prices : q \in Above[p] <=> q > p
      BY DEF Above
    <2>3. \A p \in Prices : p \notin Above[p]
      BY <2>2, PricesAreFinite
    <2>4. ASSUME NEW p \in Prices, NEW q \in Above[p], NEW r \in Above[q] PROVE r \in Above[p]
      <3>1. q \in Prices /\ r \in Prices
        BY <2>1
      <3> QED
        BY <2>2, <3>1, PricesAreFinite
    <2> QED
      BY <2>1, <2>3, <2>4
  <1>3. \A s \in SUBSET Prices : s # {} => \E p \in s : s \ {p} \subseteq Below[p]
    <2> TAKE s \in SUBSET Prices
    <2> HAVE s # {}
    <2>1. s \in SUBSET (1..One) /\ One \in Nat
      BY ArbAssumption
    <2>2. Max(s) \in s /\ \A y \in s : y <= Max(s)
      BY <2>1, MaxIn
    <2> PICK m \in s : m = Max(s)
      BY <2>2
    <2>3. \A y \in s \ {m} : y < m
      BY <2>2, PricesAreFinite
    <2>4. m \in Prices /\ s \ {m} \subseteq Below[m]
      BY <2>3 DEF Below
    <2> QED
      BY <2>4
  <1>4. \A s \in SUBSET Prices : s # {} => \E p \in s : s \ {p} \subseteq Above[p]
    <2> TAKE s \in SUBSET Prices
    <2> HAVE s # {}
    <2>1. s \in SUBSET Nat
      BY ArbAssumption
    <2>2. PICK m \in s : \A y \in s : m <= y
      BY <2>1, LeastNat
    <2>3. \A y \in s \ {m} : y > m
      BY <2>1, <2>2
    <2>4. m \in Prices /\ s \ {m} \subseteq Above[m]
      BY <2>3 DEF Above
    <2> QED
      BY <2>4
  <1>5. Depth(side, Prices) >= SetSize
    BY DEF Fillable
  <1> QED
    BY <1>1, <1>2, <1>3, <1>4, <1>5, TakenTogether

\* A set cannot be bought out of a book for less than it can be sold into it for.
LEMMA SaleIsCovered ==
  ASSUME NEW book \in Book, Uncrossed(book), Fillable(book.bids), Fillable(book.asks)
  PROVE  PaidForSale(book.bids) <= CostToBuy(book.asks)
  <1> PICK bids \in Side, asks \in Side : bids = book.bids /\ asks = book.asks
    BY DEF Book
  <1>1. \A p, q \in Prices : bids[p] > 0 /\ asks[q] > 0 => p < q
    BY DEF Uncrossed
  <1>2. Prices \subseteq Nat /\ IsFiniteSet(Prices) /\ SetSize \in Nat
    BY ArbAssumption, PricesAreFinite
  <1>3. PICK m \in Nat : /\ \A p \in Prices : bids[p] > 0 => p <= m
                         /\ \A q \in Prices : asks[q] > 0 => m <= q
    <2> DEFINE s == {p \in Prices : bids[p] > 0}
    <2>1. CASE s = {}
      <3>1. \A p \in Prices : ~ (bids[p] > 0)
        BY <2>1
      <3>2. \A q \in Prices : 0 <= q
        BY <1>2
      <3> QED
        BY <3>1, <3>2
    <2>2. CASE s # {}
      <3>1. s \in SUBSET (1..One) /\ One \in Nat
        BY ArbAssumption
      <3>2. Max(s) \in s /\ \A y \in s : y <= Max(s)
        BY <2>2, <3>1, MaxIn
      <3> PICK m \in s : m = Max(s)
        BY <3>2
      <3>3. m \in Nat /\ m \in Prices /\ bids[m] > 0
        BY <1>2
      <3>4. \A q \in Prices : asks[q] > 0 => m <= q
        BY <1>1, <1>2, <3>3
      <3>5. \A p \in Prices : bids[p] > 0 => p <= m
        BY <3>2
      <3> QED
        BY <3>3, <3>4, <3>5
    <2> QED
      BY <2>1, <2>2
  <1> DEFINE ta == [p \in Prices |-> Taken(asks, p, Below[p])]
             tb == [p \in Prices |-> Taken(bids, p, Above[p])]
             ma == [p \in Prices |-> m * ta[p]]
             mb == [p \in Prices |-> m * tb[p]]
  <1>4. SumOf(ta, Prices) = SetSize /\ SumOf(tb, Prices) = SetSize
    BY SetIsFilled
  <1>5. \A p \in Prices : ta[p] \in Nat /\ tb[p] \in Nat
    BY TakenIs DEF Below, Above
  <1>6. \A p \in Prices : Spent(asks)[p] = p * ta[p] /\ Got(bids)[p] = p * tb[p]
    BY DEF Spent, Got, Below, Above
  <1>7. \A p \in Prices : (ta[p] > 0 => asks[p] > 0) /\ (tb[p] > 0 => bids[p] > 0)
    <2> TAKE p \in Prices
    <2>1. Below[p] \in SUBSET Prices /\ Above[p] \in SUBSET Prices
      BY DEF Below, Above
    <2>2. Depth(asks, Below[p]) \in Int /\ Depth(bids, Above[p]) \in Int
      BY <2>1, DepthIs
    <2>3. asks[p] \in Nat /\ bids[p] \in Nat
      BY DEF Side
    <2>4. ta[p] = Taken(asks, p, Below[p]) /\ tb[p] = Taken(bids, p, Above[p])
      OBVIOUS
    <2> HIDE DEF ta, tb
    <2>5. ta[p] = LET left == SetSize - Depth(asks, Below[p])
                  IN IF left <= 0 THEN 0 ELSE IF asks[p] <= left THEN asks[p] ELSE left
      BY <2>1, <2>4, TakenIs
    <2>6. tb[p] = LET left == SetSize - Depth(bids, Above[p])
                  IN IF left <= 0 THEN 0 ELSE IF bids[p] <= left THEN bids[p] ELSE left
      BY <2>1, <2>4, TakenIs
    <2> QED
      BY <1>2, <2>2, <2>3, <2>5, <2>6
  <1> HIDE DEF ta, tb
  <1>8. \A p \in Prices : Got(bids)[p] <= mb[p] /\ ma[p] <= Spent(asks)[p]
    <2> TAKE p \in Prices
    <2> PICK a \in Nat, b \in Nat, r \in Nat : a = ta[p] /\ b = tb[p] /\ r = p
      BY <1>2, <1>5
    <2>1. r * b <= m * b
      <3>1. CASE b = 0
        BY <3>1
      <3>2. CASE b # 0
        BY <1>3, <1>7, <3>2, TimesMore
      <3> QED
        BY <3>1, <3>2
    <2>2. m * a <= r * a
      <3>1. CASE a = 0
        BY <3>1
      <3>2. CASE a # 0
        BY <1>3, <1>7, <3>2, TimesMore
      <3> QED
        BY <3>1, <3>2
    <2> QED
      BY <1>6, <2>1, <2>2
  <1>9. \A p \in Prices : ma[p] = m * ta[p] /\ mb[p] = m * tb[p] /\ ma[p] \in Int /\ mb[p] \in Int
    BY <1>5
  <1> HIDE DEF ma, mb
  <1>10. SumOf(ma, Prices) = m * SetSize /\ SumOf(mb, Prices) = m * SetSize
    <2>0. m \in Int
      OBVIOUS
    <2>1. \A p \in Prices : ta[p] \in Int /\ ma[p] = m * ta[p]
      BY <1>5, <1>9
    <2>2. \A p \in Prices : tb[p] \in Int /\ mb[p] = m * tb[p]
      BY <1>5, <1>9
    <2>3. SumOf(ma, Prices) = m * SumOf(ta, Prices)
      BY <1>2, <2>0, <2>1, SumTimes, Zenon
    <2>4. SumOf(mb, Prices) = m * SumOf(tb, Prices)
      BY <1>2, <2>0, <2>2, SumTimes, Zenon
    <2> QED
      BY <1>4, <2>3, <2>4
  <1>11. SumOf(Got(bids), Prices) <= SumOf(mb, Prices)
    BY <1>2, <1>8, <1>9, PaidIs, SumLeq
  <1>12. SumOf(ma, Prices) <= SumOf(Spent(asks), Prices)
    BY <1>2, <1>8, <1>9, CostIs, SumLeq
  <1>13. m * SetSize \in Int
    BY <1>2
  <1>14. /\ PaidForSale(bids) = SumOf(Got(bids), Prices) /\ PaidForSale(bids) \in Int
         /\ CostToBuy(asks) = SumOf(Spent(asks), Prices) /\ CostToBuy(asks) \in Int
    BY PaidIs, CostIs
  <1> QED
    BY <1>10, <1>11, <1>12, <1>13, <1>14

\* An edge found is one above the gate.
LEMMA GateIs ==
  ASSUME NEW kind \in Kinds, NEW gross \in Int
  PROVE  /\ SignalOrNone(Gate(kind, gross))
         /\ Gate(kind, gross) # NoSignal => gross - SetSize * Costs > SetSize * MinNet
  <1>1. SetSize * Costs \in Int /\ SetSize * MinNet \in Int
    BY ArbAssumption
  <1> QED
    BY <1>1 DEF Gate, SignalOrNone, Signal

LEMMA EvaluateIs ==
  ASSUME NEW yes \in Book, NEW no \in Book
  PROVE  /\ SignalOrNone(LongSet(yes, no)) /\ SignalOrNone(ShortSet(yes, no))
         /\ SignalOrNone(EvaluateMarket(yes, no))
  <1>1. /\ yes.asks \in Side /\ yes.bids \in Side /\ no.asks \in Side /\ no.bids \in Side
        /\ "long_set" \in Kinds /\ "short_set" \in Kinds
    BY DEF Book, Kinds
  <1>2. /\ CostToBuy(yes.asks) \in Int /\ CostToBuy(no.asks) \in Int
        /\ PaidForSale(yes.bids) \in Int /\ PaidForSale(no.bids) \in Int
    BY <1>1, CostIs, PaidIs
  <1>3. /\ SetSize * One - (CostToBuy(yes.asks) + CostToBuy(no.asks)) \in Int
        /\ PaidForSale(yes.bids) + PaidForSale(no.bids) - SetSize * One \in Int
    BY <1>2, ArbAssumption
  <1>4. SignalOrNone(NoSignal)
    BY DEF SignalOrNone
  <1> QED
    BY <1>1, <1>3, <1>4, GateIs DEF LongSet, ShortSet, EvaluateMarket

\* Between uncrossed books the gain of one kind is the loss of the other.
LEMMA KindsExclude ==
  ASSUME MinNet + Costs >= 0, NEW yes \in Book, NEW no \in Book, Uncrossed(yes), Uncrossed(no)
  PROVE  LongSet(yes, no) = NoSignal \/ ShortSet(yes, no) = NoSignal
  <1> SUFFICES ASSUME LongSet(yes, no) # NoSignal, ShortSet(yes, no) # NoSignal PROVE FALSE
    OBVIOUS
  <1>1. /\ yes.asks \in Side /\ yes.bids \in Side /\ no.asks \in Side /\ no.bids \in Side
        /\ "long_set" \in Kinds /\ "short_set" \in Kinds
    BY DEF Book, Kinds
  <1> PICK ya \in Int, na \in Int, yb \in Int, nb \in Int :
         /\ ya = CostToBuy(yes.asks) /\ na = CostToBuy(no.asks)
         /\ yb = PaidForSale(yes.bids) /\ nb = PaidForSale(no.bids)
    BY <1>1, CostIs, PaidIs
  <1> PICK full \in Int, costs \in Int, min \in Int :
         full = SetSize * One /\ costs = SetSize * Costs /\ min = SetSize * MinNet
    BY ArbAssumption
  <1>2. /\ Fillable(yes.asks) /\ Fillable(no.asks)
        /\ Gate("long_set", full - (ya + na)) # NoSignal
    BY DEF LongSet
  <1>3. /\ Fillable(yes.bids) /\ Fillable(no.bids)
        /\ Gate("short_set", yb + nb - full) # NoSignal
    BY DEF ShortSet
  <1>4. full - (ya + na) - costs > min
    BY <1>1, <1>2, GateIs
  <1>5. yb + nb - full - costs > min
    BY <1>1, <1>3, GateIs
  <1>6. yb <= ya /\ nb <= na
    BY <1>2, <1>3, SaleIsCovered
  <1>7. min + costs >= 0
    <2>1. SetSize * (MinNet + Costs) = min + costs
      BY ArbAssumption
    <2>2. SetSize \in Nat /\ MinNet + Costs \in Nat
      BY ArbAssumption
    <2>3. SetSize * (MinNet + Costs) \in Nat
      BY <2>2
    <2> QED
      BY <2>1, <2>3
  <1> QED
    BY <1>4, <1>5, <1>6, <1>7


-----------------------------------------------------------------------------
(* The walk of the levels against every other way of filling a set.        *)

\* What may be taken of the levels of a side: a set, from no level more than it has.
Fills(side) ==
    {f \in [Prices -> Nat] : /\ \A p \in Prices : f[p] <= side[p]
                             /\ SumOf(f, Prices) = SetSize}

\* What a fill is worth, and so costs or earns.
Worth(f) == SumOf([p \in Prices |-> p * f[p]], Prices)

Walked(side, better) == [p \in Prices |-> Taken(side, p, better[p])]

LEMMA WorthIs ==
  ASSUME NEW f \in [Prices -> Nat]
  PROVE  Worth(f) \in Int /\ \A p \in Prices : [r \in Prices |-> r * f[r]][p] \in Int
  <1>1. \A p \in Prices : p * f[p] \in Int
    BY PricesAreFinite
  <1> QED
    BY <1>1, PricesAreFinite, SumInt DEF Worth

\* What is moved from a higher price to a lower one costs less.
LEMMA MovedDown ==
  ASSUME NEW p \in Nat, NEW m \in Nat, NEW t \in Nat, NEW f \in Nat,
         p < m => f <= t, p > m => t <= f
  PROVE  p * t + m * f <= p * f + m * t
  <1>1. CASE p = m
    BY <1>1
  <1>2. CASE p < m
    <2> PICK a \in Nat, b \in Nat : m = p + a /\ t = f + b
      <3>1. m - p \in Nat /\ m = p + (m - p) /\ t - f \in Nat /\ t = f + (t - f)
        BY <1>2
      <3> QED
        BY <3>1
    <2>1. p * f + (p + a) * (f + b) = p * (f + b) + (p + a) * f + a * b
      OBVIOUS
    <2>2. a * b \in Nat /\ p * (f + b) + (p + a) * f \in Nat
      OBVIOUS
    <2> QED
      BY <2>1, <2>2
  <1>3. CASE p > m
    <2> PICK a \in Nat, b \in Nat : p = m + a /\ f = t + b
      <3>1. p - m \in Nat /\ p = m + (p - m) /\ f - t \in Nat /\ f = t + (f - t)
        BY <1>3
      <3> QED
        BY <3>1
    <2>1. (m + a) * (t + b) + m * t = (m + a) * t + m * (t + b) + a * b
      OBVIOUS
    <2>2. a * b \in Nat /\ (m + a) * t + m * (t + b) \in Nat
      OBVIOUS
    <2> QED
      BY <2>1, <2>2
  <1> QED
    BY <1>1, <1>2, <1>3

\* Of two fills, the one with more below a price and less above it is worth less.
LEMMA LowerIsLess ==
  ASSUME NEW t \in [Prices -> Nat], NEW f \in [Prices -> Nat], NEW m \in Nat,
         SumOf(t, Prices) = SetSize, SumOf(f, Prices) = SetSize,
         \A p \in Prices : (p < m => f[p] <= t[p]) /\ (p > m => t[p] <= f[p])
  PROVE  Worth(t) <= Worth(f)
  <1> DEFINE pt == [p \in Prices |-> p * t[p]]
             pf == [p \in Prices |-> p * f[p]]
             mt == [p \in Prices |-> m * t[p]]
             mf == [p \in Prices |-> m * f[p]]
             d1 == [p \in Prices |-> p * t[p] + m * f[p]]
             d2 == [p \in Prices |-> p * f[p] + m * t[p]]
  <1>1. IsFiniteSet(Prices) /\ Prices \subseteq Nat /\ SetSize \in Nat
    BY ArbAssumption, PricesAreFinite
  <1>2. \A p \in Prices : p * t[p] + m * f[p] <= p * f[p] + m * t[p]
    <2> TAKE p \in Prices
    <2>1. p \in Nat /\ t[p] \in Nat /\ f[p] \in Nat
      BY <1>1
    <2> QED
      BY <2>1, MovedDown
  <1>3. \A p \in Prices : /\ p * t[p] \in Int /\ p * f[p] \in Int
                          /\ m * t[p] \in Int /\ m * f[p] \in Int
    BY <1>1
  <1>4. \A p \in Prices : /\ pt[p] \in Int /\ pf[p] \in Int /\ mt[p] \in Int /\ mf[p] \in Int
                          /\ d1[p] = pt[p] + mf[p] /\ d2[p] = pf[p] + mt[p]
                          /\ d1[p] \in Int /\ d2[p] \in Int /\ d1[p] <= d2[p]
                          /\ mt[p] = m * t[p] /\ mf[p] = m * f[p]
    BY <1>2, <1>3
  <1>5. \A p \in Prices : t[p] \in Int /\ f[p] \in Int
    OBVIOUS
  <1>6. Worth(t) = SumOf(pt, Prices) /\ Worth(f) = SumOf(pf, Prices)
    BY DEF Worth
  <1> HIDE DEF pt, pf, mt, mf, d1, d2
  <1>7. SumOf(mt, Prices) = m * SetSize /\ SumOf(mf, Prices) = m * SetSize
    <2>1. m \in Int
      OBVIOUS
    <2>2. SumOf(mt, Prices) = m * SumOf(t, Prices)
      BY <1>1, <1>4, <1>5, <2>1, SumTimes
    <2>3. SumOf(mf, Prices) = m * SumOf(f, Prices)
      BY <1>1, <1>4, <1>5, <2>1, SumTimes
    <2> QED
      BY <2>2, <2>3
  <1>8. /\ SumOf(d1, Prices) = SumOf(pt, Prices) + SumOf(mf, Prices)
        /\ SumOf(d2, Prices) = SumOf(pf, Prices) + SumOf(mt, Prices)
    <2>1. \A p \in Prices : pt[p] \in Int /\ mf[p] \in Int /\ d1[p] = pt[p] + mf[p]
      BY <1>4
    <2>2. \A p \in Prices : pf[p] \in Int /\ mt[p] \in Int /\ d2[p] = pf[p] + mt[p]
      BY <1>4
    <2>3. SumOf(d1, Prices) = SumOf(pt, Prices) + SumOf(mf, Prices)
      BY <1>1, <2>1, SumPlus, Zenon
    <2>4. SumOf(d2, Prices) = SumOf(pf, Prices) + SumOf(mt, Prices)
      BY <1>1, <2>2, SumPlus, Zenon
    <2> QED
      BY <2>3, <2>4
  <1>9. SumOf(d1, Prices) <= SumOf(d2, Prices)
    BY <1>1, <1>4, SumLeq
  <1>10. SumOf(pt, Prices) \in Int /\ SumOf(pf, Prices) \in Int
    BY <1>1, <1>4, SumInt
  <1>11. m * SetSize \in Int
    BY <1>1
  <1> QED
    BY <1>6, <1>7, <1>8, <1>9, <1>10, <1>11

\* Fewer levels are not deeper.
LEMMA DepthMonotone ==
  ASSUME NEW side \in Side, NEW Q \in SUBSET Prices, NEW P \in SUBSET Q
  PROVE  SumOf(side, P) <= SumOf(side, Q)
  <1> DEFINE B == {T \in SUBSET Q : P \subseteq T /\ ~ (SumOf(side, P) <= SumOf(side, T))}
  <1> SUFFICES ASSUME B # {} PROVE FALSE
    OBVIOUS
  <1>1. IsFiniteSet(Q) /\ B \in SUBSET SUBSET Q
    BY PricesAreFinite, FS_Subset
  <1>2. PICK T \in B : IsFiniteSet(T) /\ \A x \in T : T \ {x} \notin B
    <2> HIDE DEF B
    <2> QED
      BY <1>1, LeastSubset
  <1>3. P \subseteq T /\ T \subseteq Q /\ ~ (SumOf(side, P) <= SumOf(side, T))
    OBVIOUS
  <1>4. \A x \in T : side[x] \in Nat /\ side[x] \in Int
    BY <1>3 DEF Side
  <1>5. SumOf(side, P) \in Int
    BY DepthIs
  <1>6. PICK x \in T : x \notin P
    <2>1. T # P
      <3>1. ASSUME T = P PROVE FALSE
        BY <1>3, <1>5, <3>1
      <3> QED
        BY <3>1
    <2> QED
      BY <1>3, <2>1
  <1>7. SumOf(side, P) <= SumOf(side, T \ {x})
    BY <1>2, <1>3, <1>6
  <1> HIDE DEF B
  <1>8. SumOf(side, T) = side[x] + SumOf(side, T \ {x}) /\ SumOf(side, T \ {x}) \in Int
    BY <1>2, <1>4, <1>6, SumPick
  <1> QED
    BY <1>3, <1>4, <1>5, <1>6, <1>7, <1>8

\* A walk that takes of a level has taken all of the better ones.
LEMMA BetterAreTaken ==
  ASSUME NEW side \in Side, NEW better \in [Prices -> SUBSET Prices],
         NEW m \in Prices, NEW p \in better[m], p \notin better[p], better[p] \subseteq better[m],
         Taken(side, m, better[m]) > 0
  PROVE  Taken(side, p, better[p]) = side[p]
  <1> DEFINE T == better[p] \cup {p}
  <1>1. /\ p \in Prices /\ better[m] \in SUBSET Prices /\ better[p] \in SUBSET Prices
        /\ T \in SUBSET Prices /\ T \in SUBSET better[m] /\ T \ {p} = better[p]
    OBVIOUS
  <1>2. /\ side[p] \in Nat /\ side[m] \in Nat /\ SetSize \in Nat
        /\ \A q \in T : side[q] \in Int
    BY <1>1, ArbAssumption DEF Side
  <1>3. SumOf(side, T) <= SumOf(side, better[m])
    BY <1>1, DepthMonotone
  <1>4. SumOf(side, T) = side[p] + SumOf(side, better[p]) /\ SumOf(side, better[p]) \in Int
    <2>1. IsFiniteSet(T) /\ p \in T
      BY <1>1, PricesAreFinite, FS_Subset
    <2> HIDE DEF T
    <2> QED
      BY <1>1, <1>2, <2>1, SumPick
  <1> HIDE DEF T
  <1>5. /\ Depth(side, better[m]) = SumOf(side, better[m]) /\ Depth(side, better[m]) \in Int
        /\ Depth(side, better[p]) = SumOf(side, better[p])
    BY <1>1, DepthIs
  <1>6. Taken(side, m, better[m]) = LET left == SetSize - Depth(side, better[m])
                                    IN IF left <= 0 THEN 0
                                       ELSE IF side[m] <= left THEN side[m] ELSE left
    BY <1>1, TakenIs
  <1>7. Taken(side, p, better[p]) = LET left == SetSize - Depth(side, better[p])
                                    IN IF left <= 0 THEN 0
                                       ELSE IF side[p] <= left THEN side[p] ELSE left
    BY <1>1, TakenIs
  <1>8. SetSize - Depth(side, better[m]) > 0
    BY <1>2, <1>5, <1>6
  <1>9. side[p] <= SetSize - Depth(side, better[p])
    BY <1>2, <1>3, <1>4, <1>5, <1>8
  <1>10. SetSize - Depth(side, better[p]) \in Int
    BY <1>2, <1>4, <1>5
  <1> QED
    BY <1>2, <1>7, <1>9, <1>10

\* What a walk fills it takes from the levels there are.
LEMMA WalkFills ==
  ASSUME NEW side \in Side, Fillable(side), NEW better \in {Below, Above}
  PROVE  /\ Walked(side, better) \in Fills(side)
         /\ Walked(side, better) \in [Prices -> Nat]
         /\ \E p \in Prices : Walked(side, better)[p] > 0
  <1> DEFINE t == Walked(side, better)
  <1>1. better \in [Prices -> SUBSET Prices]
    BY DEF Below, Above
  <1>2. \A p \in Prices : Taken(side, p, better[p]) \in Nat /\ Taken(side, p, better[p]) <= side[p]
    <2> TAKE p \in Prices
    <2>1. better[p] \in SUBSET Prices
      BY <1>1
    <2>2. side[p] \in Nat /\ Depth(side, better[p]) \in Int /\ SetSize \in Nat
      BY <2>1, DepthIs, ArbAssumption DEF Side
    <2> QED
      BY <2>1, <2>2, TakenIs
  <1>3. t \in [Prices -> Nat] /\ \A p \in Prices : t[p] <= side[p]
    BY <1>2 DEF Walked
  <1>4. SumOf(t, Prices) = SetSize
    <2>1. CASE better = Below
      BY <2>1, SetIsFilled DEF Walked
    <2>2. CASE better = Above
      BY <2>2, SetIsFilled DEF Walked
    <2> QED
      BY <2>1, <2>2
  <1>5. \E p \in Prices : t[p] > 0
    <2> SUFFICES ASSUME \A p \in Prices : ~ (t[p] > 0) PROVE FALSE
      OBVIOUS
    <2>1. \A p \in Prices : t[p] \in Int /\ t[p] = 0
      BY <1>3
    <2> HIDE DEF t
    <2>2. \A p \in Prices : t[p] \in Int /\ t[p] = 0 * t[p]
      BY <2>1
    <2>3. SumOf(t, Prices) = 0 * SumOf(t, Prices)
      <3>1. IsFiniteSet(Prices) /\ 0 \in Int
        BY PricesAreFinite
      <3> QED
        BY <2>2, <3>1, SumTimes, Zenon
    <2>4. SetSize = 0 * SetSize /\ SetSize \in Nat \ {0}
      BY <1>4, <2>3, ArbAssumption
    <2> QED
      BY <2>4
  <1> HIDE DEF t
  <1>6. t \in Fills(side)
    BY <1>3, <1>4 DEF Fills
  <1> QED
    BY <1>3, <1>5, <1>6 DEF t

\* There is a fill exactly if a side is deep enough.
LEMMA FillableIs ==
  ASSUME NEW side \in Side
  PROVE  Fillable(side) <=> Fills(side) # {}
  <1>1. ASSUME NEW f \in Fills(side) PROVE Fillable(side)
    <2>1. /\ SumOf(f, Prices) = SetSize /\ SetSize \in Nat
          /\ \A p \in Prices : f[p] \in Int /\ side[p] \in Int /\ f[p] <= side[p]
      BY ArbAssumption DEF Fills, Side
    <2>2. SumOf(f, Prices) <= SumOf(side, Prices)
      BY <2>1, PricesAreFinite, SumLeq
    <2>3. Depth(side, Prices) = SumOf(side, Prices) /\ Depth(side, Prices) \in Int
      BY DepthIs
    <2> QED
      BY <2>1, <2>2, <2>3 DEF Fillable
  <1>2. Fillable(side) => Walked(side, Below) \in Fills(side)
    BY WalkFills
  <1> QED
    BY <1>1, <1>2

\* math/arb.py, vwap_to_fill: walking the asks from the cheapest fills a set at
\* the least that any way of filling it costs.
THEOREM WalkIsCheapest ==
  ASSUME NEW asks \in Side, Fillable(asks)
  PROVE  /\ \E f \in Fills(asks) : Worth(f) = CostToBuy(asks)
         /\ \A f \in Fills(asks) : CostToBuy(asks) <= Worth(f)
  <1> DEFINE t == Walked(asks, Below)
  <1>1. t \in Fills(asks) /\ t \in [Prices -> Nat] /\ \E p \in Prices : t[p] > 0
    BY WalkFills
  <1>2. Worth(t) = CostToBuy(asks)
    <2>1. Spent(asks) = [p \in Prices |-> p * t[p]]
      BY DEF Spent, Walked, Below
    <2> QED
      BY <2>1, CostIs DEF Worth
  <1>3. PICK m \in Prices : t[m] > 0 /\ \A p \in Prices : p > m => t[p] = 0
    <2> DEFINE s == {p \in Prices : t[p] > 0}
    <2>1. s \in SUBSET (1..One) /\ One \in Nat /\ s # {}
      BY <1>1, ArbAssumption
    <2>2. PICK m \in s : m = Max(s) /\ \A y \in s : y <= m
      BY <2>1, MaxIn
    <2>3. ASSUME NEW p \in Prices, p > m PROVE t[p] = 0
      <3>1. p \notin s /\ t[p] \in Nat
        BY <1>1, <2>2, <2>3, PricesAreFinite
      <3> QED
        BY <3>1
    <2> QED
      BY <2>2, <2>3
  <1>4. ASSUME NEW p \in Prices, p < m PROVE t[p] = asks[p]
    <2>1. /\ Below \in [Prices -> SUBSET Prices] /\ p \in Below[m] /\ p \notin Below[p]
          /\ Below[p] \subseteq Below[m]
      <3>1. Below \in [Prices -> SUBSET Prices] /\ \A q, r \in Prices : r \in Below[q] <=> r < q
        BY DEF Below
      <3>2. \A r \in Below[p] : r \in Prices /\ r < p
        BY <3>1
      <3>3. ASSUME NEW r \in Below[p] PROVE r < m
        <4>1. r \in Int /\ p \in Int /\ m \in Int
          BY <3>2, PricesAreFinite
        <4> QED
          BY <1>4, <3>2, <4>1
      <3>4. ~ (p < p)
        BY PricesAreFinite
      <3> QED
        BY <1>4, <3>1, <3>2, <3>3, <3>4
    <2>2. Taken(asks, m, Below[m]) > 0
      BY <1>3 DEF Walked
    <2>3. Taken(asks, p, Below[p]) = asks[p]
      BY <2>1, <2>2, BetterAreTaken
    <2> QED
      BY <2>3 DEF Walked
  <1>5. ASSUME NEW f \in Fills(asks) PROVE Worth(t) <= Worth(f)
    <2>1. /\ f \in [Prices -> Nat] /\ SumOf(f, Prices) = SetSize /\ SumOf(t, Prices) = SetSize
          /\ \A p \in Prices : f[p] <= asks[p]
      BY <1>1 DEF Fills
    <2>2. \A p \in Prices : (p < m => f[p] <= t[p]) /\ (p > m => t[p] <= f[p])
      BY <1>3, <1>4, <2>1
    <2>3. m \in Nat
      BY ArbAssumption
    <2> HIDE DEF t
    <2> QED
      BY <1>1, <2>1, <2>2, <2>3, LowerIsLess
  <1> QED
    BY <1>1, <1>2, <1>5

\* And walking the bids from the dearest sells a set for the most.
THEOREM WalkIsDearest ==
  ASSUME NEW bids \in Side, Fillable(bids)
  PROVE  /\ \E f \in Fills(bids) : Worth(f) = PaidForSale(bids)
         /\ \A f \in Fills(bids) : Worth(f) <= PaidForSale(bids)
  <1> DEFINE t == Walked(bids, Above)
  <1>1. t \in Fills(bids) /\ t \in [Prices -> Nat] /\ \E p \in Prices : t[p] > 0
    BY WalkFills
  <1>2. Worth(t) = PaidForSale(bids)
    <2>1. Got(bids) = [p \in Prices |-> p * t[p]]
      BY DEF Got, Walked, Above
    <2> QED
      BY <2>1, PaidIs DEF Worth
  <1>3. PICK m \in Prices : t[m] > 0 /\ \A p \in Prices : p < m => t[p] = 0
    <2> DEFINE s == {p \in Prices : t[p] > 0}
    <2>1. s \in SUBSET Nat /\ s # {}
      <3>1. Prices \in SUBSET Nat
        BY ArbAssumption
      <3> QED
        BY <1>1, <3>1
    <2>2. PICK m \in s : \A y \in s : m <= y
      BY <2>1, LeastNat
    <2>3. ASSUME NEW p \in Prices, p < m PROVE t[p] = 0
      <3>1. p \notin s /\ t[p] \in Nat
        BY <1>1, <2>2, <2>3, PricesAreFinite
      <3> QED
        BY <3>1
    <2> QED
      BY <2>2, <2>3
  <1>4. ASSUME NEW p \in Prices, p > m PROVE t[p] = bids[p]
    <2>1. /\ Above \in [Prices -> SUBSET Prices] /\ p \in Above[m] /\ p \notin Above[p]
          /\ Above[p] \subseteq Above[m]
      <3>1. Above \in [Prices -> SUBSET Prices] /\ \A q, r \in Prices : r \in Above[q] <=> r > q
        BY DEF Above
      <3>2. \A r \in Above[p] : r \in Prices /\ r > p
        BY <3>1
      <3>3. ASSUME NEW r \in Above[p] PROVE r > m
        <4>1. r \in Int /\ p \in Int /\ m \in Int
          BY <3>2, PricesAreFinite
        <4> QED
          BY <1>4, <3>2, <4>1
      <3>4. ~ (p > p)
        BY PricesAreFinite
      <3> QED
        BY <1>4, <3>1, <3>2, <3>3, <3>4
    <2>2. Taken(bids, m, Above[m]) > 0
      BY <1>3 DEF Walked
    <2>3. Taken(bids, p, Above[p]) = bids[p]
      BY <2>1, <2>2, BetterAreTaken
    <2> QED
      BY <2>3 DEF Walked
  <1>5. ASSUME NEW f \in Fills(bids) PROVE Worth(f) <= Worth(t)
    <2>1. /\ f \in [Prices -> Nat] /\ SumOf(f, Prices) = SetSize /\ SumOf(t, Prices) = SetSize
          /\ \A p \in Prices : f[p] <= bids[p]
      BY <1>1 DEF Fills
    <2>2. \A p \in Prices : (p < m => t[p] <= f[p]) /\ (p > m => f[p] <= t[p])
      BY <1>3, <1>4, <2>1
    <2>3. m \in Nat
      BY ArbAssumption
    <2> HIDE DEF t
    <2> QED
      BY <1>1, <2>1, <2>2, <2>3, LowerIsLess
  <1> QED
    BY <1>1, <1>2, <1>5

\* What a set earns beyond its costs and the profit gate, if its two tokens cost or
\* earn these amounts.
LongNet(yes, no) == SetSize * One - (yes + no) - SetSize * Costs
ShortNet(yes, no) == yes + no - SetSize * One - SetSize * Costs

\* math/arb.py, evaluate_long_set and evaluate_short_set: an edge is found exactly
\* if some way of taking a set from the two books clears the gate, and it is the
\* best of all ways.
THEOREM EdgesAreBest ==
  ASSUME NEW yes \in Book, NEW no \in Book
  PROVE  /\ LongSet(yes, no) # NoSignal <=>
              \E f \in Fills(yes.asks), g \in Fills(no.asks) :
                 LongNet(Worth(f), Worth(g)) > SetSize * MinNet
         /\ LongSet(yes, no) # NoSignal =>
              \A f \in Fills(yes.asks), g \in Fills(no.asks) :
                 LongNet(Worth(f), Worth(g)) <= LongSet(yes, no).net
         /\ ShortSet(yes, no) # NoSignal <=>
              \E f \in Fills(yes.bids), g \in Fills(no.bids) :
                 ShortNet(Worth(f), Worth(g)) > SetSize * MinNet
         /\ ShortSet(yes, no) # NoSignal =>
              \A f \in Fills(yes.bids), g \in Fills(no.bids) :
                 ShortNet(Worth(f), Worth(g)) <= ShortSet(yes, no).net
  <1>1. /\ yes.asks \in Side /\ yes.bids \in Side /\ no.asks \in Side /\ no.bids \in Side
    BY DEF Book
  <1> PICK full \in Int, costs \in Int, min \in Int :
         full = SetSize * One /\ costs = SetSize * Costs /\ min = SetSize * MinNet
    BY ArbAssumption
  <1> PICK ya \in Int, na \in Int, yb \in Int, nb \in Int :
         /\ ya = CostToBuy(yes.asks) /\ na = CostToBuy(no.asks)
         /\ yb = PaidForSale(yes.bids) /\ nb = PaidForSale(no.bids)
    BY <1>1, CostIs, PaidIs
  <1>2. \A side \in Side : \A f \in Fills(side) : Worth(f) \in Int /\ Fillable(side)
    BY WorthIs, FillableIs DEF Fills
  <1>3. LongSet(yes, no) = IF /\ Fillable(yes.asks) /\ Fillable(no.asks)
                              /\ full - (ya + na) - costs > min
                           THEN [kind |-> "long_set", net |-> full - (ya + na) - costs]
                           ELSE NoSignal
    BY DEF LongSet, Gate
  <1>4. ShortSet(yes, no) = IF /\ Fillable(yes.bids) /\ Fillable(no.bids)
                               /\ yb + nb - full - costs > min
                            THEN [kind |-> "short_set", net |-> yb + nb - full - costs]
                            ELSE NoSignal
    BY DEF ShortSet, Gate
  <1>5. /\ \A n : [kind |-> "long_set", net |-> n] # NoSignal
        /\ \A n : [kind |-> "short_set", net |-> n] # NoSignal
    BY DEF NoSignal
  <1>6. ASSUME NEW f \in Fills(yes.asks), NEW g \in Fills(no.asks)
        PROVE  LongNet(Worth(f), Worth(g)) <= full - (ya + na) - costs
    <2>1. /\ Worth(f) \in Int /\ Worth(g) \in Int
          /\ Fillable(yes.asks) /\ Fillable(no.asks)
      BY <1>1, <1>2
    <2>2. ya <= Worth(f) /\ na <= Worth(g)
      BY <1>1, <2>1, WalkIsCheapest
    <2> QED
      BY <2>1, <2>2 DEF LongNet
  <1>7. ASSUME Fillable(yes.asks), Fillable(no.asks)
        PROVE  \E f \in Fills(yes.asks), g \in Fills(no.asks) :
                  LongNet(Worth(f), Worth(g)) = full - (ya + na) - costs
    <2>1. PICK f \in Fills(yes.asks) : Worth(f) = ya
      BY <1>1, <1>7, WalkIsCheapest
    <2>2. PICK g \in Fills(no.asks) : Worth(g) = na
      BY <1>1, <1>7, WalkIsCheapest
    <2> QED
      BY <2>1, <2>2 DEF LongNet
  <1>8. ASSUME NEW f \in Fills(yes.bids), NEW g \in Fills(no.bids)
        PROVE  ShortNet(Worth(f), Worth(g)) <= yb + nb - full - costs
    <2>1. /\ Worth(f) \in Int /\ Worth(g) \in Int
          /\ Fillable(yes.bids) /\ Fillable(no.bids)
      BY <1>1, <1>2
    <2>2. Worth(f) <= yb /\ Worth(g) <= nb
      BY <1>1, <2>1, WalkIsDearest
    <2> QED
      BY <2>1, <2>2 DEF ShortNet
  <1>9. ASSUME Fillable(yes.bids), Fillable(no.bids)
        PROVE  \E f \in Fills(yes.bids), g \in Fills(no.bids) :
                  ShortNet(Worth(f), Worth(g)) = yb + nb - full - costs
    <2>1. PICK f \in Fills(yes.bids) : Worth(f) = yb
      BY <1>1, <1>9, WalkIsDearest
    <2>2. PICK g \in Fills(no.bids) : Worth(g) = nb
      BY <1>1, <1>9, WalkIsDearest
    <2> QED
      BY <2>1, <2>2 DEF ShortNet
  <1>10. /\ \A f \in Fills(yes.asks), g \in Fills(no.asks) :
               /\ LongNet(Worth(f), Worth(g)) \in Int
               /\ Fillable(yes.asks) /\ Fillable(no.asks)
         /\ \A f \in Fills(yes.bids), g \in Fills(no.bids) :
               /\ ShortNet(Worth(f), Worth(g)) \in Int
               /\ Fillable(yes.bids) /\ Fillable(no.bids)
    BY <1>1, <1>2 DEF LongNet, ShortNet
  <1>11. /\ LongSet(yes, no) # NoSignal <=>
              \E f \in Fills(yes.asks), g \in Fills(no.asks) :
                 LongNet(Worth(f), Worth(g)) > min
         /\ LongSet(yes, no) # NoSignal => LongSet(yes, no).net = full - (ya + na) - costs
    <2>1. ASSUME LongSet(yes, no) # NoSignal
          PROVE  /\ LongSet(yes, no).net = full - (ya + na) - costs
                 /\ \E f \in Fills(yes.asks), g \in Fills(no.asks) :
                       LongNet(Worth(f), Worth(g)) > min
      BY <1>3, <1>7, <2>1
    <2>2. ASSUME NEW f \in Fills(yes.asks), NEW g \in Fills(no.asks),
                 LongNet(Worth(f), Worth(g)) > min
          PROVE  LongSet(yes, no) # NoSignal
      <3>1. full - (ya + na) - costs > min
        BY <1>6, <1>10, <2>2
      <3> QED
        BY <1>3, <1>5, <1>10, <3>1
    <2> QED
      BY <2>1, <2>2
  <1>12. /\ ShortSet(yes, no) # NoSignal <=>
              \E f \in Fills(yes.bids), g \in Fills(no.bids) :
                 ShortNet(Worth(f), Worth(g)) > min
         /\ ShortSet(yes, no) # NoSignal => ShortSet(yes, no).net = yb + nb - full - costs
    <2>1. ASSUME ShortSet(yes, no) # NoSignal
          PROVE  /\ ShortSet(yes, no).net = yb + nb - full - costs
                 /\ \E f \in Fills(yes.bids), g \in Fills(no.bids) :
                       ShortNet(Worth(f), Worth(g)) > min
      BY <1>4, <1>9, <2>1
    <2>2. ASSUME NEW f \in Fills(yes.bids), NEW g \in Fills(no.bids),
                 ShortNet(Worth(f), Worth(g)) > min
          PROVE  ShortSet(yes, no) # NoSignal
      <3>1. yb + nb - full - costs > min
        BY <1>8, <1>10, <2>2
      <3> QED
        BY <1>4, <1>5, <1>10, <3>1
    <2> QED
      BY <2>1, <2>2
  <1> QED
    BY <1>6, <1>8, <1>11, <1>12

-----------------------------------------------------------------------------
(* Types.                                                                  *)

LEMMA EmptyBookIs == EmptyBook \in Book
  BY DEF EmptyBook, Book, Side

LEMMA AppliedIs ==
  ASSUME NEW old \in Book, NEW f \in Frame
  PROVE  Applied(old, f) \in Book
  <1>1. CASE f.type = "price_change"
    BY <1>1, FrameIs, ApplyAllIs DEF Applied
  <1>2. CASE f.type # "price_change"
    <2>1. f.book \in Book
      BY <1>2, FrameIs
    <2>2. [old EXCEPT !.bids = f.book.bids] \in Book
      BY <2>1 DEF Book
    <2> QED
      BY <1>2, <2>1, <2>2 DEF Applied
  <1> QED
    BY <1>1, <1>2

LEMMA CopiesIs ==
  ASSUME NEW f \in Frame, DOMAIN books \subseteq Legs, books \in [DOMAIN books -> Book]
  PROVE  /\ DOMAIN Copies(f) = DOMAIN books \cup {f.leg} /\ DOMAIN Copies(f) \subseteq Legs
         /\ Copies(f) \in [DOMAIN Copies(f) -> Book]
         /\ \A leg \in DOMAIN books : leg # f.leg => Copies(f)[leg] = books[leg]
         /\ f.leg \in DOMAIN books => Copies(f)[f.leg] = Applied(books[f.leg], f)
         /\ f.type = "book" /\ ~f.bad => Copies(f)[f.leg] = f.book
  <1> DEFINE new == Applied(IF f.leg \in DOMAIN books THEN books[f.leg] ELSE EmptyBook, f)
  <1>1. new \in Book
    BY AppliedIs, EmptyBookIs
  <1>2. f.leg \in Legs
    BY FrameIs
  <1>3. f.type = "book" /\ ~f.bad => new = f.book
    BY DEF Applied
  <1>4. f.leg \in DOMAIN books => new = Applied(books[f.leg], f)
    OBVIOUS
  <1> HIDE DEF new
  <1>5. Copies(f) = [leg \in DOMAIN books \cup {f.leg} |-> IF leg # f.leg THEN books[leg] ELSE new]
    BY DEF Copies, new
  <1> QED
    BY <1>1, <1>2, <1>3, <1>4, <1>5

LEMMA YieldsIs ==
  ASSUME NEW b \in [Legs -> Book]
  PROVE  SignalOrNone(Yields(b))
  BY EvaluateIs DEF Yields, Legs

LEMMA NoUpdateIs == NoUpdate \in UpdateOrNone
  BY DEF UpdateOrNone

LEMMA EmptyIs == \A S : <<>> \in Seq(S)
  OBVIOUS

LEMMA TwoIs == \A S : \A a, b \in S : <<a, b>> \in Seq(S)
  OBVIOUS

LEMMA AppendIs == \A S : \A s \in Seq(S), e \in S : Append(s, e) \in Seq(S)
  OBVIOUS

LEMMA InitTypeOK == Init => TypeOK
  <1> SUFFICES ASSUME Init PROVE TypeOK
    OBVIOUS
  <1>1. exchange \in [Legs -> Book]
    BY StreamAssumption DEF Init
  <1>2. \A s \in seen : SignalOrNone(s)
    BY <1>1, YieldsIs DEF Init
  <1>3. DOMAIN books \subseteq Legs /\ books \in [DOMAIN books -> Book] /\ synced \subseteq DOMAIN books
    BY DEF Init
  <1>4. SignalOrNone(publishing)
    BY DEF Init, SignalOrNone
  <1>5. moves \in 0..MaxMoves /\ faults \in 0..MaxFaults
    BY StreamAssumption DEF Init
  <1>6. frames \in Seq(Frame) /\ inbox \in Seq(Update) /\ wire \in Seq(Update)
    BY EmptyIs DEF Init
  <1>7. dedup \subseteq Int /\ (\A e \in dedup : e > SetSize * MinNet) /\ published \in Nat
        /\ heard \in 0..published /\ toasts \subseteq Nat
    BY DEF Init
  <1>8. pending \in UpdateOrNone /\ row \in UpdateOrNone /\ lastSeen \in UpdateOrNone
    BY NoUpdateIs DEF Init
  <1>9. connected \in BOOLEAN /\ listening \in BOOLEAN /\ page \in {"loading", "ready", "error"}
    BY DEF Init
  <1> QED
    BY <1>1, <1>2, <1>3, <1>4, <1>5, <1>6, <1>7, <1>8, <1>9, Zenon DEF TypeOK

LEMMA FaultIs == TypeOK /\ Fault => faults' \in 0..MaxFaults
  BY StreamAssumption DEF TypeOK, Fault

LEMMA MoveTypeOK ==
  ASSUME TypeOK, NEW leg \in Legs, NEW delta \in Deltas, Move(leg, delta)
  PROVE  TypeOK'
  <1> USE DEF TypeOK
  <1>1. delta \in Seq(Change) /\ exchange[leg] \in Book
    BY StreamAssumption
  <1>2. exchange' \in [Legs -> Book]
    BY <1>1, ApplyAllIs DEF Move
  <1>3. \A s \in seen' : SignalOrNone(s)
    BY <1>2, YieldsIs DEF Move
  <1>4. moves' \in 0..MaxMoves
    BY StreamAssumption DEF Move
  <1>5. faults' \in 0..MaxFaults
    BY FaultIs DEF Move
  <1>6. frames' \in Seq(Frame)
    <2>1. [type |-> "price_change", leg |-> leg, changes |-> delta, bad |-> FALSE] \in Frame
      BY <1>1 DEF Frame
    <2>2. ASSUME NEW k \in 0..(Len(delta) - 1)
          PROVE  [type |-> "price_change", leg |-> leg, changes |-> SubSeq(delta, 1, k), bad |-> TRUE]
                    \in Frame
      <3>1. SubSeq(delta, 1, k) \in Seq(Change)
        BY <1>1
      <3> QED
        BY <3>1 DEF Frame
    <2>3. CASE UNCHANGED frames
      BY <2>3
    <2>4. CASE ~UNCHANGED frames
      <3>1. \/ frames' = Append(frames, [type |-> "price_change", leg |-> leg,
                                         changes |-> delta, bad |-> FALSE])
            \/ \E k \in 0..(Len(delta) - 1) :
                  frames' = Append(frames, [type |-> "price_change", leg |-> leg,
                                            changes |-> SubSeq(delta, 1, k), bad |-> TRUE])
        BY <2>4, Zenon DEF Move
      <3> QED
        BY <2>1, <2>2, <3>1, AppendIs, Zenon
    <2> QED
      BY <2>3, <2>4
  <1> QED
    BY <1>2, <1>3, <1>4, <1>5, <1>6 DEF Move, redis, route, browser

LEMMA ConnectTypeOK == ASSUME TypeOK, Connect PROVE TypeOK'
  <1> USE DEF TypeOK
  <1>1. \A leg \in Legs, bad \in BOOLEAN : Snapshot(leg, bad) \in Frame
    BY DEF Snapshot, Frame
  <1>2. frames' \in Seq(Frame)
    <2>1. \E a, b \in Frame : frames' = <<a, b>>
      BY <1>1, Zenon DEF Connect
    <2> QED
      BY <2>1, TwoIs
  <1>3. faults' \in 0..MaxFaults
    BY FaultIs DEF Connect
  <1> QED
    BY <1>2, <1>3 DEF Connect, market, redis, route, browser

LEMMA DropTypeOK == ASSUME TypeOK, Drop \/ Restart \/ FailPublish PROVE TypeOK'
  <1> USE DEF TypeOK
  <1>1. SignalOrNone(NoSignal)
    BY DEF SignalOrNone
  <1>2. faults' \in 0..MaxFaults
    BY FaultIs DEF Drop, Restart, FailPublish
  <1>3. frames' \in Seq(Frame)
    BY EmptyIs DEF Drop, Restart, FailPublish
  <1>4. DOMAIN books' \subseteq Legs /\ books' \in [DOMAIN books' -> Book]
    <2>1. CASE UNCHANGED books
      BY <2>1
    <2>2. CASE books' = <<>>
      BY <2>2
    <2> QED
      BY <2>1, <2>2 DEF Drop, Restart, FailPublish
  <1> QED
    BY <1>1, <1>2, <1>3, <1>4 DEF Drop, Restart, FailPublish, market, redis, route, browser

LEMMA IngestTypeOK == ASSUME TypeOK, Ingest PROVE TypeOK'
  <1> USE DEF TypeOK
  <1> DEFINE frame == Head(frames)
             copies == Copies(frame)
             signal == Evaluate(copies, frame)
  <1>1. frame \in Frame /\ frames' \in Seq(Frame)
    BY DEF Ingest
  <1>2. /\ DOMAIN copies = DOMAIN books \cup {frame.leg} /\ DOMAIN copies \subseteq Legs
        /\ copies \in [DOMAIN copies -> Book]
    BY <1>1, CopiesIs
  <1>3. SignalOrNone(signal)
    BY <1>2, YieldsIs DEF Evaluate, SignalOrNone
  <1>4. /\ books' = copies
        /\ synced' \subseteq synced \cup {frame.leg}
        /\ dedup' = IF Moved(signal) THEN {signal.net} ELSE dedup
        /\ publishing' = IF Moved(signal) THEN signal ELSE NoSignal
    BY DEF Ingest
  <1> HIDE DEF frame, copies, signal
  <1>5. /\ DOMAIN books' \subseteq Legs /\ books' \in [DOMAIN books' -> Book]
        /\ synced' \subseteq DOMAIN books'
    BY <1>2, <1>4
  <1>6. dedup' \subseteq Int /\ \A e \in dedup' : e > SetSize * MinNet
    BY <1>3, <1>4 DEF Moved, SignalOrNone, Signal
  <1>7. SignalOrNone(publishing')
    BY <1>3, <1>4 DEF SignalOrNone
  <1> QED
    BY <1>1, <1>5, <1>6, <1>7 DEF Ingest, market, redis, route, browser

LEMMA PublishTypeOK == ASSUME TypeOK, Publish PROVE TypeOK'
  <1> USE DEF TypeOK
  <1>1. published' = published + 1 /\ published' \in Nat \ {0}
    BY DEF Publish
  <1>2. heard' \in 0..published'
    BY <1>1 DEF Publish
  <1>3. faults' \in 0..MaxFaults
    BY FaultIs DEF Publish
  <1>4. [kind |-> publishing.kind, net |-> publishing.net, n |-> published'] \in Update
    BY <1>1 DEF Publish, SignalOrNone, Signal, Update
  <1>5. inbox' \in Seq(Update)
    BY <1>4, AppendIs, Zenon DEF Publish
  <1>6. SignalOrNone(publishing')
    BY DEF Publish, SignalOrNone
  <1> QED
    BY <1>1, <1>2, <1>3, <1>5, <1>6 DEF Publish, market, browser

LEMMA RouteTypeOK ==
  ASSUME TypeOK, Listen \/ BreakStream \/ Receive \/ Flush
  PROVE  TypeOK'
  <1> USE DEF TypeOK
  <1>1. CASE Listen
    BY <1>1 DEF Listen, market, engine, redis, browser
  <1>2. CASE BreakStream
    BY <1>2, FaultIs, NoUpdateIs, EmptyIs DEF BreakStream, Silence, market, engine, redis, browser
  <1>3. CASE Receive
    <2>1. Head(inbox) \in Update /\ Tail(inbox) \in Seq(Update)
      BY <1>3 DEF Receive
    <2>2. pending' \in UpdateOrNone
      BY <1>3, <2>1 DEF Receive, Push, UpdateOrNone
    <2> QED
      BY <1>3, <2>1, <2>2 DEF Receive, market, engine, redis, browser
  <1>4. CASE Flush
    <2>1. wire' \in Seq(Update)
      BY <1>4 DEF Flush, Sent, UpdateOrNone
    <2> QED
      BY <1>4, <2>1, NoUpdateIs DEF Flush, market, engine, redis, browser
  <1> QED
    BY <1>1, <1>2, <1>3, <1>4

LEMMA PageTypeOK ==
  ASSUME TypeOK, HandleUpdate \/ Load \/ FailLoad \/ Reload
  PROVE  TypeOK'
  <1> USE DEF TypeOK
  <1>1. CASE HandleUpdate
    <2> PICK update : update = Head(wire)
      OBVIOUS
    <2>1. update \in Update /\ Tail(wire) \in Seq(Update)
      BY <1>1 DEF HandleUpdate
    <2>2. update \in UpdateOrNone /\ update.n \in Nat
      BY <2>1 DEF UpdateOrNone, Update
    <2>3. /\ toasts' \subseteq toasts \cup {update.n}
          /\ lastSeen' = update /\ row' \in {row, update} /\ wire' = Tail(wire)
      BY <1>1 DEF HandleUpdate
    <2> QED
      BY <1>1, <2>1, <2>2, <2>3 DEF HandleUpdate, market, engine, redis
  <1>2. CASE Load
    BY <1>2, NoUpdateIs DEF Load, market, engine, redis, route
  <1>3. CASE FailLoad
    BY <1>3, FaultIs DEF FailLoad, market, engine, redis, route
  <1>4. CASE Reload
    BY <1>4, FaultIs, NoUpdateIs, EmptyIs DEF Reload, Silence, market, engine, redis
  <1> QED
    BY <1>1, <1>2, <1>3, <1>4

\* Every variable of the exchange, the engine, the route and the page stays in
\* its type, the books whole and every edge above the gate, whatever the frames.
THEOREM TypeCorrect == Spec => []TypeOK
  <1>1. TypeOK /\ [Next]_vars => TypeOK'
    <2> SUFFICES ASSUME TypeOK, [Next]_vars PROVE TypeOK'
      OBVIOUS
    <2>1. CASE UNCHANGED vars
      BY <2>1 DEF TypeOK, vars, market, engine, redis, route, browser
    <2> QED
      BY <2>1, MoveTypeOK, ConnectTypeOK, DropTypeOK, IngestTypeOK, PublishTypeOK, RouteTypeOK,
         PageTypeOK DEF Next
  <1> QED
    BY <1>1, InitTypeOK, PTL DEF Spec

-----------------------------------------------------------------------------
(* What the frames in flight are the history of.                           *)

\* A frame tells what became of the exchange's books when it was sent.
Tells(f, before, after) ==
    /\ \A leg \in Legs \ {f.leg} : after[leg] = before[leg]
    /\ f.type = "book" => after = before /\ (~f.bad => f.book = after[f.leg])
    /\ f.type = "price_change" /\ ~f.bad
          => after[f.leg] = ApplyAll(before[f.leg], f.changes)

\* Books the exchange has had.
Past(b, had) ==
    /\ b \in [Legs -> Book]
    /\ Yields(b) \in had
    /\ \A leg \in Legs : Uncrossed(b[leg])

\* h[k] is what the exchange's books were when the k-th of the frames was sent;
\* the copies that are good are those before the first.
IsHistory(h, sent, now, had, copies, good) ==
    /\ h[Len(sent)] = now
    /\ \A k \in 0..Len(sent) : Past(h[k], had)
    /\ \A k \in 1..Len(sent) : Tells(sent[k], h[k - 1], h[k])
    /\ \A leg \in good : copies[leg] = h[0][leg]

HasHistory == \E h : IsHistory(h, frames, exchange, seen, books, synced)

EngineKeepsUp ==
    /\ ~connected => frames = <<>> /\ synced = {}
    /\ \A d, e \in dedup : d = e
    /\ synced = Legs =>
          /\ Yields(books) # NoSignal => Yields(books).net \in dedup
          /\ publishing # NoSignal => publishing \in seen

StreamInv == TypeOK /\ HasHistory /\ EngineKeepsUp

\* With nothing in flight and no copy trusted, the history is the present.
LEMMA NewHistory ==
  ASSUME NEW now, NEW had, Past(now, had), NEW copies
  PROVE  \E h : IsHistory(h, <<>>, now, had, copies, {})
  <1> DEFINE h == [k \in {0} |-> now]
  <1>1. Len(<<>>) = 0 /\ 0..0 = {0} /\ 1..0 = {} /\ h[0] = now
    OBVIOUS
  <1> HIDE DEF h
  <1>2. IsHistory(h, <<>>, now, had, copies, {})
    BY <1>1 DEF IsHistory
  <1> QED
    BY <1>2

LEMMA PresentIsPast == TypeOK /\ HasHistory => Past(exchange, seen)
  <1> SUFFICES ASSUME TypeOK, HasHistory PROVE Past(exchange, seen)
    OBVIOUS
  <1>1. Len(frames) \in 0..Len(frames)
    BY DEF TypeOK
  <1> QED
    BY <1>1 DEF HasHistory, IsHistory

LEMMA InitStreamInv == Init => StreamInv
  <1> SUFFICES ASSUME Init PROVE StreamInv
    OBVIOUS
  <1>1. TypeOK
    BY InitTypeOK
  <1>2. Past(exchange, seen)
    <2>1. exchange \in [Legs -> Book] /\ \A leg \in Legs : Uncrossed(exchange[leg])
      BY StreamAssumption DEF Init
    <2> QED
      BY <2>1 DEF Past, Init
  <1>3. HasHistory
    BY <1>2, NewHistory DEF Init, HasHistory
  <1>4. EngineKeepsUp
    BY DEF EngineKeepsUp, Init, Legs
  <1> QED
    BY <1>1, <1>3, <1>4 DEF StreamInv

\* One more frame, telling of one more move.
LEMMA LongerHistory ==
  ASSUME NEW sent \in Seq(Frame), NEW now, NEW had, NEW copies, NEW good, NEW h,
         IsHistory(h, sent, now, had, copies, good),
         NEW f, NEW next, NEW had2, had \subseteq had2, Past(next, had2), Tells(f, now, next)
  PROVE  \E g : IsHistory(g, Append(sent, f), next, had2, copies, good)
  <1> PICK N \in Nat : N = Len(sent)
    OBVIOUS
  <1> PICK s : s = Append(sent, f)
    OBVIOUS
  <1>1. Len(s) = N + 1 /\ (\A k \in 1..N : s[k] = sent[k]) /\ s[N + 1] = f
    OBVIOUS
  <1> DEFINE g == [k \in 0..(N + 1) |-> IF k <= N THEN h[k] ELSE next]
  <1>2. g[N + 1] = next /\ \A k \in 0..N : g[k] = h[k]
    OBVIOUS
  <1> HIDE DEF g
  <1>3. h[N] = now
    BY DEF IsHistory
  <1>4. \A k \in 0..(N + 1) : Past(g[k], had2)
    <2> TAKE k \in 0..(N + 1)
    <2>1. CASE k = N + 1
      BY <1>2, <2>1
    <2>2. CASE k \in 0..N
      <3>1. Past(h[k], had)
        BY <2>2 DEF IsHistory
      <3> QED
        BY <1>2, <2>2, <3>1 DEF Past
    <2> QED
      BY <2>1, <2>2
  <1>5. \A k \in 1..(N + 1) : Tells(s[k], g[k - 1], g[k])
    <2> TAKE k \in 1..(N + 1)
    <2>1. CASE k = N + 1
      <3>1. k - 1 = N /\ N \in 0..N
        BY <2>1
      <3> QED
        BY <1>1, <1>2, <1>3, <2>1, <3>1
    <2>2. CASE k \in 1..N
      <3>1. Tells(sent[k], h[k - 1], h[k])
        BY <2>2 DEF IsHistory
      <3>2. g[k - 1] = h[k - 1] /\ g[k] = h[k] /\ s[k] = sent[k]
        BY <1>1, <1>2, <2>2
      <3> QED
        BY <3>1, <3>2
    <2> QED
      BY <2>1, <2>2
  <1>6. \A leg \in good : copies[leg] = g[0][leg]
    BY <1>2 DEF IsHistory
  <1>7. IsHistory(g, s, next, had2, copies, good)
    BY <1>1, <1>2, <1>4, <1>5, <1>6 DEF IsHistory
  <1> QED
    BY <1>7

LEMMA MoveStreamInv ==
  ASSUME StreamInv, TypeOK', NEW leg \in Legs, NEW delta \in Deltas, Move(leg, delta)
  PROVE  StreamInv'
  <1> USE DEF StreamInv
  <1>0. frames \in Seq(Frame) /\ exchange \in [Legs -> Book]
    BY DEF TypeOK
  <1>1. /\ exchange' = [exchange EXCEPT ![leg] = ApplyAll(exchange[leg], delta)]
        /\ Uncrossed(exchange'[leg]) /\ exchange' \in [Legs -> Book]
        /\ seen' = seen \cup {Yields(exchange')}
        /\ UNCHANGED <<connected, books, synced, dedup, publishing>>
    BY <1>0 DEF Move, TypeOK
  <1>2. Past(exchange, seen) /\ \A other \in Legs \ {leg} : exchange'[other] = exchange[other]
    BY <1>0, <1>1, PresentIsPast
  <1>3. Past(exchange', seen')
    <2>1. \A l \in Legs : Uncrossed(exchange'[l])
      BY <1>1, <1>2 DEF Past
    <2> QED
      BY <1>1, <2>1 DEF Past
  <1>4. EngineKeepsUp'
    <2>1. ~connected => frames' = frames
      BY DEF Move
    <2> QED
      BY <1>1, <2>1 DEF EngineKeepsUp
  <1>5. CASE ~connected
    <2>1. frames' = <<>> /\ synced' = {}
      BY <1>1, <1>5 DEF Move, EngineKeepsUp
    <2> QED
      BY <1>3, <1>4, <2>1, NewHistory DEF HasHistory
  <1>6. CASE connected
    <2>1. \E f : frames' = Append(frames, f) /\ Tells(f, exchange, exchange')
      <3>1. CASE frames' = Append(frames, [type |-> "price_change", leg |-> leg,
                                           changes |-> delta, bad |-> FALSE])
        <4>1. Tells([type |-> "price_change", leg |-> leg, changes |-> delta, bad |-> FALSE],
                    exchange, exchange')
          BY <1>0, <1>1, <1>2 DEF Tells
        <4> QED
          BY <3>1, <4>1
      <3>2. ASSUME NEW k \in 0..(Len(delta) - 1),
                   frames' = Append(frames, [type |-> "price_change", leg |-> leg,
                                             changes |-> SubSeq(delta, 1, k), bad |-> TRUE])
            PROVE  \E f : frames' = Append(frames, f) /\ Tells(f, exchange, exchange')
        <4>1. Tells([type |-> "price_change", leg |-> leg, changes |-> SubSeq(delta, 1, k),
                     bad |-> TRUE], exchange, exchange')
          BY <1>2 DEF Tells
        <4> QED
          BY <3>2, <4>1
      <3> QED
        BY <1>6, <3>1, <3>2, Zenon DEF Move
    <2>2. PICK f : frames' = Append(frames, f) /\ Tells(f, exchange, exchange')
      BY <2>1
    <2>3. PICK h : IsHistory(h, frames, exchange, seen, books, synced)
      BY DEF HasHistory
    <2>4. seen \subseteq seen'
      BY <1>1
    <2>5. \E g : IsHistory(g, Append(frames, f), exchange', seen', books, synced)
      BY <1>0, <1>3, <2>2, <2>3, <2>4, LongerHistory
    <2> QED
      BY <1>1, <1>4, <2>2, <2>5 DEF HasHistory
  <1> QED
    BY <1>5, <1>6

\* A snapshot of each leg, and nothing has moved.
LEMMA ConnectStreamInv == ASSUME StreamInv, TypeOK', Connect PROVE StreamInv'
  <1> USE DEF StreamInv
  <1>1. /\ synced' = {} /\ UNCHANGED <<exchange, seen, books, dedup, publishing>> /\ connected'
    BY DEF Connect, market, EngineKeepsUp
  <1>2. Past(exchange, seen)
    BY PresentIsPast
  <1>3. PICK a, b : frames' = <<a, b>> /\ Tells(a, exchange, exchange) /\ Tells(b, exchange, exchange)
    <2>1. \A leg \in Legs, bad \in BOOLEAN : Tells(Snapshot(leg, bad), exchange, exchange)
      BY DEF Tells, Snapshot
    <2> QED
      BY <2>1, Zenon DEF Connect
  <1> DEFINE h == [k \in 0..2 |-> exchange]
  <1>4. Len(frames') = 2 /\ frames'[1] = a /\ frames'[2] = b
    BY <1>3
  <1>5. \A k \in 0..2 : h[k] = exchange
    OBVIOUS
  <1>6. \A k \in 1..2 : Tells(frames'[k], h[k - 1], h[k])
    <2>1. Tells(frames'[1], h[0], h[1]) /\ Tells(frames'[2], h[1], h[2])
      BY <1>3, <1>4, <1>5
    <2>2. \A k \in 1..2 : k = 1 \/ k = 2
      OBVIOUS
    <2> HIDE DEF h
    <2> QED
      BY <2>1, <2>2
  <1> HIDE DEF h
  <1>7. IsHistory(h, frames', exchange, seen, books, {})
    BY <1>2, <1>4, <1>5, <1>6 DEF IsHistory
  <1>8. HasHistory'
    BY <1>1, <1>7 DEF HasHistory
  <1>9. EngineKeepsUp'
    BY <1>1 DEF EngineKeepsUp, Legs
  <1> QED
    BY <1>8, <1>9

\* The socket or the process is gone, with what was in flight.
LEMMA DropStreamInv == ASSUME StreamInv, TypeOK', Drop \/ Restart PROVE StreamInv'
  <1> USE DEF StreamInv
  <1>1. /\ frames' = <<>> /\ synced' = {} /\ UNCHANGED <<exchange, seen>> /\ ~connected'
        /\ dedup' \in {dedup, {}}
    BY DEF Drop, Restart, market
  <1>2. HasHistory'
    BY <1>1, PresentIsPast, NewHistory DEF HasHistory
  <1>3. EngineKeepsUp'
    BY <1>1 DEF EngineKeepsUp, Legs
  <1> QED
    BY <1>2, <1>3

\* The first frame is read: what it tells of is behind the engine's copies now.
LEMMA IngestStreamInv == ASSUME StreamInv, TypeOK', Ingest PROVE StreamInv'
  <1> USE DEF StreamInv
  <1> PICK f : f = Head(frames)
    OBVIOUS
  <1>0. frames \in Seq(Frame)
    BY DEF TypeOK
  <1> PICK N \in Nat : N = Len(frames)
    BY <1>0
  <1>1. /\ frames # <<>> /\ frames \in Seq(Frame) /\ f \in Frame /\ frames' = Tail(frames)
        /\ DOMAIN books \subseteq Legs /\ books \in [DOMAIN books -> Book]
        /\ UNCHANGED <<exchange, seen, connected>>
    BY DEF Ingest, TypeOK, market
  <1>2. /\ f = frames[1] /\ N >= 1 /\ Len(frames') = N - 1
        /\ \A k \in 1..(N - 1) : frames'[k] = frames[k + 1]
    BY <1>1
  <1>3. PICK h : IsHistory(h, frames, exchange, seen, books, synced)
    BY DEF HasHistory
  <1> DEFINE g == [k \in 0..(N - 1) |-> h[k + 1]]
  <1>4. \A k \in 0..(N - 1) : g[k] = h[k + 1]
    OBVIOUS
  <1> HIDE DEF g
  <1>5. Past(h[0], seen) /\ Past(h[1], seen) /\ Tells(f, h[0], h[1]) /\ g[0] = h[1]
    BY <1>2, <1>3, <1>4 DEF IsHistory
  <1>6. \A leg \in synced : books[leg] = h[0][leg] /\ leg \in DOMAIN books
    BY <1>3 DEF IsHistory, TypeOK
  <1>7. /\ books' = Copies(f)
        /\ synced' = IF f.bad THEN synced \ {f.leg}
                     ELSE IF f.type = "book" THEN synced \cup {f.leg}
                     ELSE synced
    BY DEF Ingest
  <1>8. \A leg \in synced' : books'[leg] = h[1][leg]
    <2> TAKE leg \in synced'
    <2>1. CASE leg # f.leg
      <3>1. leg \in synced /\ leg \in Legs
        BY <1>1, <1>6, <1>7, <2>1
      <3>2. books'[leg] = books[leg]
        BY <1>1, <1>6, <1>7, <2>1, <3>1, CopiesIs
      <3> QED
        BY <1>5, <1>6, <2>1, <3>1, <3>2 DEF Tells
    <2>2. CASE leg = f.leg
      <3>1. ~f.bad
        BY <1>7, <2>2
      <3>2. CASE f.type = "book"
        BY <1>1, <1>5, <1>7, <2>2, <3>1, <3>2, CopiesIs DEF Tells
      <3>3. CASE f.type # "book"
        <4>1. f.type = "price_change" /\ f.leg \in synced
          BY <1>1, <1>7, <2>2, <3>1, <3>3, FrameIs
        <4>2. books'[leg] = ApplyAll(books[leg], f.changes)
          BY <1>1, <1>6, <1>7, <2>2, <4>1, CopiesIs DEF Applied
        <4> QED
          BY <1>5, <1>6, <2>2, <3>1, <4>1, <4>2 DEF Tells
      <3> QED
        BY <3>2, <3>3
    <2> QED
      BY <2>1, <2>2
  <1>9. HasHistory'
    <2>1. g[N - 1] = exchange
      BY <1>2, <1>3, <1>4 DEF IsHistory
    <2>2. \A k \in 0..(N - 1) : Past(g[k], seen)
      BY <1>3, <1>4 DEF IsHistory
    <2>3. \A k \in 1..(N - 1) : Tells(frames'[k], g[k - 1], g[k])
      <3> TAKE k \in 1..(N - 1)
      <3>1. k + 1 \in 1..N /\ k - 1 \in 0..(N - 1) /\ k \in 0..(N - 1) /\ (k + 1) - 1 = (k - 1) + 1
        OBVIOUS
      <3>2. Tells(frames[k + 1], h[(k + 1) - 1], h[k + 1])
        BY <1>3, <3>1 DEF IsHistory
      <3> QED
        BY <1>2, <1>4, <3>1, <3>2
    <2>4. IsHistory(g, frames', exchange', seen', books', synced')
      BY <1>1, <1>2, <1>5, <1>8, <2>1, <2>2, <2>3 DEF IsHistory
    <2> QED
      BY <2>4 DEF HasHistory
  <1>10. EngineKeepsUp'
    <2> DEFINE signal == Evaluate(Copies(f), f)
    <2>1. /\ dedup' = IF Moved(signal) THEN {signal.net} ELSE dedup
          /\ publishing' = IF Moved(signal) THEN signal ELSE NoSignal
      BY DEF Ingest
    <2>2. ~connected' => frames' = <<>> /\ synced' = {}
      BY <1>1 DEF EngineKeepsUp
    <2>3. \A d, e \in dedup' : d = e
      BY <2>1 DEF EngineKeepsUp
    <2>4. ASSUME synced' = Legs
          PROVE  /\ Yields(books') # NoSignal => Yields(books').net \in dedup'
                 /\ publishing' # NoSignal => publishing' \in seen'
      <3>1. ~f.bad
        BY <1>1, <1>7, <2>4, FrameIs
      <3>2. DOMAIN books' = Legs
        BY <2>4 DEF TypeOK
      <3>3. signal = Yields(books')
        BY <1>7, <3>1, <3>2 DEF Evaluate
      <3>4. Yields(books') = Yields(h[1])
        BY <1>8, <2>4 DEF Yields, Legs
      <3>5. Yields(books') \in seen'
        BY <1>1, <1>5, <3>4 DEF Past
      <3> HIDE DEF signal
      <3> QED
        BY <2>1, <3>3, <3>5 DEF Moved
    <2> QED
      BY <2>2, <2>3, <2>4 DEF EngineKeepsUp
  <1> QED
    BY <1>9, <1>10

LEMMA NextStreamInv == StreamInv /\ TypeOK' /\ [Next]_vars => StreamInv'
  <1> SUFFICES ASSUME StreamInv, TypeOK', [Next]_vars PROVE StreamInv'
    OBVIOUS
  <1>1. CASE \E leg \in Legs, delta \in Deltas : Move(leg, delta)
    BY <1>1, MoveStreamInv
  <1>2. CASE Connect
    BY <1>2, ConnectStreamInv
  <1>3. CASE Drop \/ Restart
    BY <1>3, DropStreamInv
  <1>4. CASE Ingest
    BY <1>4, IngestStreamInv
  <1>5. CASE Publish \/ FailPublish
    <2>1. publishing' = NoSignal /\ UNCHANGED <<exchange, seen, connected, frames, books, synced, dedup>>
      BY <1>5 DEF Publish, FailPublish, market
    <2> QED
      BY <2>1 DEF StreamInv, HasHistory, EngineKeepsUp
  <1>6. CASE \/ Listen \/ BreakStream \/ Receive \/ Flush \/ HandleUpdate \/ Load \/ FailLoad \/ Reload
             \/ UNCHANGED vars
    <2>1. UNCHANGED <<market, engine>>
      BY <1>6 DEF Listen, BreakStream, Receive, Flush, HandleUpdate, Load, FailLoad, Reload, vars
    <2> QED
      BY <2>1 DEF StreamInv, HasHistory, EngineKeepsUp, market, engine
  <1> QED
    BY <1>1, <1>2, <1>3, <1>4, <1>5, <1>6 DEF Next

LEMMA StreamInvariant == Spec => []StreamInv
  BY InitStreamInv, NextStreamInv, TypeCorrect, PTL DEF Spec

LEMMA CopiesArePast ==
  ASSUME StreamInv, synced = Legs
  PROVE  \E b \in [Legs -> Book] : /\ Past(b, seen) /\ \A leg \in Legs : books[leg] = b[leg]
                                   /\ frames = <<>> => b = exchange
  <1>1. PICK h : IsHistory(h, frames, exchange, seen, books, synced)
    BY DEF StreamInv, HasHistory
  <1>2. 0 \in 0..Len(frames) /\ (frames = <<>> => Len(frames) = 0)
    BY DEF StreamInv, TypeOK
  <1>3. Past(h[0], seen) /\ h[0] \in [Legs -> Book]
    BY <1>1, <1>2 DEF IsHistory, Past
  <1> QED
    BY <1>1, <1>2, <1>3 DEF IsHistory

\* run_stream and evaluate_market: once both copies have recovered, what the
\* engine decides to publish the exchange's books have had, and what they have
\* when all is read it has decided on.
THEOREM PublishedEdgesAreExact == Spec => []EdgesAreExact
  <1>1. StreamInv => EdgesAreExact
    <2> SUFFICES ASSUME StreamInv, synced = Legs
                 PROVE  /\ publishing # NoSignal => publishing \in seen
                        /\ frames = <<>> /\ Yields(exchange) # NoSignal
                              => dedup = {Yields(exchange).net}
      BY DEF EdgesAreExact
    <2>1. PICK b \in [Legs -> Book] : /\ \A leg \in Legs : books[leg] = b[leg]
                                      /\ frames = <<>> => b = exchange
      BY CopiesArePast
    <2>2. Yields(books) = Yields(b)
      BY <2>1 DEF Yields, Legs
    <2> QED
      BY <2>1, <2>2 DEF StreamInv, EngineKeepsUp
  <1> QED
    BY <1>1, StreamInvariant, PTL

\* math/arb.py:181: on recovered copies a long set's edge excludes a short
\* one's, if the gate together with the costs is no loss.
THEOREM KindsExcludeEachOther ==
  ASSUME MinNet + Costs >= 0
  PROVE  Spec => []OneKindAtMost
  <1>1. StreamInv => OneKindAtMost
    <2> SUFFICES ASSUME StreamInv, synced = Legs
                 PROVE  \/ LongSet(books["yes"], books["no"]) = NoSignal
                        \/ ShortSet(books["yes"], books["no"]) = NoSignal
      BY DEF OneKindAtMost
    <2>1. PICK b \in [Legs -> Book] : Past(b, seen) /\ \A leg \in Legs : books[leg] = b[leg]
      BY CopiesArePast
    <2>2. /\ b["yes"] \in Book /\ b["no"] \in Book /\ Uncrossed(b["yes"]) /\ Uncrossed(b["no"])
          /\ books["yes"] = b["yes"] /\ books["no"] = b["no"]
      BY <2>1 DEF Past, Legs
    <2> QED
      BY <2>2, KindsExclude
  <1> QED
    BY <1>1, StreamInvariant, PTL

-----------------------------------------------------------------------------
(* Copies that catch up.                                                   *)

\* The frames in flight read one after the other.
LEMMA ReadIs ==
  ASSUME TypeOK, NEW leg \in Legs
  PROVE  \E c : /\ Read(leg) = c[Len(frames)]
                /\ leg \in DOMAIN books => c[0] = books[leg]
                /\ \A k \in 1..Len(frames) :
                      c[k] = IF frames[k].leg = leg THEN Applied(c[k - 1], frames[k]) ELSE c[k - 1]
  <1> PICK b : b = IF leg \in DOMAIN books THEN books[leg] ELSE EmptyBook
    OBVIOUS
  <1>1. b \in Book
    BY EmptyBookIs DEF TypeOK
  <1> PICK sent \in Seq(Frame) : sent = frames
    BY DEF TypeOK
  <1> DEFINE N == Len(sent)
             Next1(old, f) == IF f.leg = leg THEN Applied(old, f) ELSE old
             Iter(iter) == iter = [s \in SUBSET DOMAIN sent |->
                                     IF s = {} THEN b
                                     ELSE Next1(iter[s \ {Max(s)}], sent[Max(s)])]
             F == [p \in (1..N) \X Book |-> Next1(p[2], sent[p[1]])]
  <1>2. N \in Nat /\ DOMAIN sent = 1..N /\ \A k \in 1..N : sent[k] \in Frame
    OBVIOUS
  <1>3. F \in [(1..N) \X Book -> Book]
    BY <1>2, AppliedIs
  <1>4. \A k \in 1..N, v \in Book : F[<<k, v>>] = Next1(v, sent[k])
    OBVIOUS
  <1> HIDE DEF F, Next1
  <1>5. PICK g \in [SUBSET (1..N) -> Book] : FoldsLeft(g, N, b, F)
    BY <1>1, <1>2, <1>3, FoldLeftExists
  <1>6. \A s \in SUBSET (1..N) : g[s] = IF s = {} THEN b ELSE Next1(g[s \ {Max(s)}], sent[Max(s)])
    BY <1>2, <1>4, <1>5, MaxIn DEF FoldsLeft
  <1>7. Iter(g)
    <2> DEFINE h == [s \in SUBSET DOMAIN sent |->
                       IF s = {} THEN b ELSE Next1(g[s \ {Max(s)}], sent[Max(s)])]
    <2>1. h = [s \in SUBSET (1..N) |-> h[s]] /\ g = [s \in SUBSET (1..N) |-> g[s]]
      BY <1>2
    <2>2. \A s \in SUBSET (1..N) : g[s] = h[s]
      BY <1>2, <1>6
    <2> HIDE DEF h, N
    <2>3. g = h
      BY <2>1, <2>2
    <2> QED
      BY <2>3 DEF h
  <1> DEFINE iter == CHOOSE iter : Iter(iter)
  <1>8. Iter(iter)
    BY <1>7
  <1>9. Read(leg) = iter[DOMAIN sent]
    BY DEF Read, FoldLeft, MapThenFoldSet, Next1
  <1>10. \A s \in SUBSET (1..N) :
            iter[s] = IF s = {} THEN b ELSE Next1(iter[s \ {Max(s)}], sent[Max(s)])
    <2> HIDE DEF iter, N
    <2> QED
      BY <1>2, <1>8
  <1> HIDE DEF iter, Iter, N
  <1> DEFINE c == [k \in 0..N |-> iter[1..k]]
  <1>11. \A k \in 0..N : c[k] = iter[1..k]
    OBVIOUS
  <1> HIDE DEF c
  <1>12. Read(leg) = c[N]
    BY <1>2, <1>9, <1>11
  <1>13. c[0] = b
    <2>1. 1..0 = {} /\ 0 \in 0..N
      BY <1>2
    <2> QED
      BY <1>10, <1>11, <2>1
  <1>14. \A k \in 1..N : c[k] = Next1(c[k - 1], sent[k])
    <2> TAKE k \in 1..N
    <2>1. k \in 0..N /\ k - 1 \in 0..N
      BY <1>2
    <2>2. iter[1..k] = Next1(iter[1..(k - 1)], sent[k])
      BY <1>2, <1>10, MaxOfInterval
    <2> QED
      BY <1>11, <2>1, <2>2
  <1> QED
    BY <1>12, <1>13, <1>14 DEF N, Next1

\* LiveBook and BookStore: a copy the frames in flight rebuild from a snapshot,
\* or carry on from, ends as the exchange's book.
THEOREM CopiesDoCatchUp == Spec => []CopiesCatchUp
  <1>1. StreamInv => CopiesCatchUp
    <2> SUFFICES ASSUME StreamInv, NEW leg \in Legs, Recovering(leg)
                 PROVE  Read(leg) = exchange[leg]
      BY DEF CopiesCatchUp
    <2> PICK sent \in Seq(Frame) : sent = frames
      BY DEF StreamInv, TypeOK
    <2> PICK N \in Nat : N = Len(sent)
      OBVIOUS
    <2>1. PICK h : IsHistory(h, sent, exchange, seen, books, synced)
      BY DEF StreamInv, HasHistory
    <2>2. PICK c : /\ Read(leg) = c[N]
                   /\ leg \in DOMAIN books => c[0] = books[leg]
                   /\ \A k \in 1..N :
                         c[k] = IF sent[k].leg = leg THEN Applied(c[k - 1], sent[k]) ELSE c[k - 1]
      BY ReadIs DEF StreamInv
    <2>3. \A k \in 1..N : sent[k] \in Frame /\ (sent[k].leg = leg => ~sent[k].bad)
      <3> TAKE k \in 1..N
      <3>1. sent[k] \in Frame /\ sent[k] \in ToSet(frames)
        BY DEF ToSet
      <3> QED
        BY <3>1 DEF Recovering, InFlight
    <2>4. leg \in synced \/ \E k \in 1..N : sent[k].leg = leg /\ sent[k].type = "book"
      <3>1. ASSUME NEW f \in ToSet(frames), f.leg = leg, f.type = "book"
            PROVE  \E k \in 1..N : sent[k].leg = leg /\ sent[k].type = "book"
        <4>1. PICK k \in 1..N : f = sent[k]
          BY DEF ToSet
        <4> QED
          BY <3>1, <4>1
      <3> QED
        BY <3>1 DEF Recovering, InFlight
    <2> DEFINE Rests(k) == leg \in synced \/ \E j \in 1..k : sent[j].leg = leg /\ sent[j].type = "book"
               T == {k \in 0..N : Rests(k) /\ c[k] # h[k][leg]}
    <2>5. T = {}
      <3> SUFFICES ASSUME T # {} PROVE FALSE
        OBVIOUS
      <3>1. PICK k \in T : \A m \in T : k <= m
        BY T \in SUBSET Nat, LeastNat
      <3>2. k \in 0..N /\ Rests(k) /\ c[k] # h[k][leg]
        OBVIOUS
      <3>3. k # 0
        <4> SUFFICES ASSUME k = 0 PROVE FALSE
          OBVIOUS
        <4>1. leg \in synced
          BY <3>2
        <4>2. c[0] = books[leg] /\ books[leg] = h[0][leg]
          BY <2>1, <2>2, <4>1 DEF IsHistory, StreamInv, TypeOK
        <4> QED
          BY <3>2, <4>2
      <3> DEFINE f == sent[k]
      <3>4. k \in 1..N /\ k - 1 \in 0..N /\ k - 1 \notin T
        BY <3>1, <3>2, <3>3
      <3>5. Rests(k - 1) => c[k - 1] = h[k - 1][leg]
        BY <3>4
      <3>6. Tells(f, h[k - 1], h[k])
        BY <2>1, <3>4 DEF IsHistory
      <3>7. c[k] = IF f.leg = leg THEN Applied(c[k - 1], f) ELSE c[k - 1]
        BY <2>2, <3>4
      <3>8. f \in Frame /\ (f.leg = leg => ~f.bad)
        BY <2>3, <3>4
      <3>9. CASE f.leg = leg /\ f.type = "book"
        <4>1. c[k] = f.book
          BY <3>7, <3>8, <3>9 DEF Applied
        <4> QED
          BY <3>2, <3>6, <3>8, <3>9, <4>1 DEF Tells
      <3>10. CASE ~ (f.leg = leg /\ f.type = "book")
        <4>1. Rests(k - 1)
          <5>1. \A j \in 1..k : j \in 1..(k - 1) \/ j = k
            BY <3>4
          <5> QED
            BY <3>2, <3>10, <5>1
        <4>2. c[k - 1] = h[k - 1][leg]
          BY <3>5, <4>1
        <4>3. CASE f.leg = leg
          <5>1. f.type = "price_change" /\ ~f.bad
            BY <3>8, <3>10, <4>3, FrameIs
          <5>2. c[k] = ApplyAll(c[k - 1], f.changes)
            BY <3>7, <4>3, <5>1 DEF Applied
          <5> QED
            BY <3>2, <3>6, <4>2, <4>3, <5>1, <5>2 DEF Tells
        <4>4. CASE f.leg # leg
          BY <3>2, <3>6, <3>7, <4>2, <4>4 DEF Tells
        <4> QED
          BY <4>3, <4>4
      <3> QED
        BY <3>9, <3>10
    <2>6. N \in 0..N /\ Rests(N)
      BY <2>4
    <2> HIDE DEF Rests
    <2>7. c[N] = h[N][leg]
      BY <2>5, <2>6
    <2>8. h[N] = exchange
      BY <2>1 DEF IsHistory
    <2> QED
      BY <2>2, <2>7, <2>8
  <1> QED
    BY <1>1, StreamInvariant, PTL
=============================================================================
