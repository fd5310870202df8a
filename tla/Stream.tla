------------------------------- MODULE Stream -------------------------------
(***************************************************************************)
(* The live arbitrage stream of one market, from the exchange's books to   *)
(* the row of the signals page.                                            *)
(*                                                                         *)
(*   - the engine (streaming/engine.py, book_state.py) keeps a copy of the *)
(*     two books from WebSocket frames: a snapshot of each leg on every    *)
(*     connection, then deltas; after each frame it evaluates the market   *)
(*     and publishes an edge that moved;                                   *)
(*   - Redis hands a publication to whoever is subscribed at that moment;  *)
(*   - the SSE route (web api/stream/route.ts) keeps the newest update and *)
(*     flushes it ten times a second;                                      *)
(*   - the page (web signals/page.tsx) loads a list, merges the updates    *)
(*     into it and raises a toast when an edge rises to High.              *)
(*                                                                         *)
(* Markets do not interact: every table of the code is keyed by market.    *)
(* A signal carries n, its place among the published ones, which the code  *)
(* does not have.                                                          *)
(***************************************************************************)
EXTENDS Arb, SequencesExt

CONSTANTS
    Deltas,        \* the sequences of level changes the exchange makes
    InitialBooks,  \* where the exchange starts
    High,          \* HIGH_EDGE_THRESHOLD
    MaxMoves,      \* bound: how often the exchange moves
    MaxFaults      \* bound: how many faults of any kind there are

Legs == {"yes", "no"}
Change == [side: {"bids", "asks"}, price: Prices, size: Nat]

ASSUME StreamAssumption ==
    /\ Deltas \subseteq Seq(Change)
    /\ InitialBooks \subseteq {b \in [Legs -> Book] : \A leg \in Legs : Uncrossed(b[leg])}
    /\ High \in Int
    /\ MaxMoves \in Nat
    /\ MaxFaults \in Nat

VARIABLES
    exchange,    \* the true books
    connected,   \* the WebSocket
    frames,      \* sent on it and not yet read
    books,       \* BookStore.books: the engine's copies, of the legs it has seen
    synced,      \* a leg whose copy rests on this connection's good frames alone
    dedup,       \* the net edge the engine last decided to publish, if any
    publishing,  \* the signal whose publication is awaited
    published,   \* how many signals reached Redis
    heard,       \* the last of them that reached the route
    seen,        \* what the true books have yielded so far
    listening,   \* the browser's event source, subscribed through the route
    inbox,       \* from Redis to the route
    pending,     \* the route's conflator
    wire,        \* from the route to the page
    page,        \* the list: "loading", "ready" or "error"
    row,         \* the market's live row
    lastSeen,    \* what the page compares the next update with
    toasts,      \* the updates a toast was raised for
    moves, faults

market == <<exchange, seen, moves>>
engine == <<connected, frames, books, synced, dedup, publishing>>
route == <<listening, inbox, pending, wire>>
browser == <<page, row, lastSeen, toasts>>
redis == <<published, heard>>
vars == <<market, engine, redis, route, browser, faults>>

NoUpdate == [kind |-> "none", net |-> 0, n |-> 0]

Signal == [kind: Kinds, net: Int]
Update == [kind: Kinds, net: Int, n: Nat \ {0}]

\* On the wire a frame is a snapshot or a delta.  A bad one fails half way: of
\* its snapshot the asks are not applied, its delta ends at what was readable.
Frame ==
    [type: {"book"}, leg: Legs, book: Book, bad: BOOLEAN]
    \cup [type: {"price_change"}, leg: Legs, changes: Seq(Change), bad: BOOLEAN]

-----------------------------------------------------------------------------
(* Books.                                                                  *)

EmptyBook == [bids |-> [p \in Prices |-> 0], asks |-> [p \in Prices |-> 0]]

\* One level is set; a size of 0 removes it.
ApplyChange(book, change) == [book EXCEPT ![change.side][change.price] = change.size]

ApplyAll(book, changes) == FoldLeft(ApplyChange, book, changes)

\* Mutant: of a delta only the first change is applied.
AppliedFirst(old, frame) ==
    IF frame.type = "price_change" THEN ApplyAll(old, SubSeq(frame.changes, 1, 1))
    ELSE IF frame.bad THEN [old EXCEPT !.bids = frame.book.bids]
    ELSE frame.book

Merged(old, new) == [p \in Prices |-> IF new[p] > 0 THEN new[p] ELSE old[p]]

\* Mutant: a snapshot leaves the levels it does not name.
AppliedMerged(old, frame) ==
    IF frame.type = "price_change" THEN ApplyAll(old, frame.changes)
    ELSE [bids |-> Merged(old.bids, frame.book.bids),
          asks |-> IF frame.bad THEN old.asks ELSE Merged(old.asks, frame.book.asks)]

\* LiveBook.apply_book and apply_price_change.
Applied(old, frame) ==
    IF frame.type = "price_change" THEN ApplyAll(old, frame.changes)
    ELSE IF frame.bad THEN [old EXCEPT !.bids = frame.book.bids]
    ELSE frame.book

\* BookStore.apply: a leg's first frame, of either type, makes its book.
Copies(frame) ==
    [leg \in DOMAIN books \cup {frame.leg} |->
        IF leg # frame.leg THEN books[leg]
        ELSE Applied(IF leg \in DOMAIN books THEN books[leg] ELSE EmptyBook, frame)]

-----------------------------------------------------------------------------
(* The exchange and the connection.                                        *)

Fault == faults < MaxFaults /\ faults' = faults + 1

Yields(b) == EvaluateMarket(b["yes"], b["no"])

\* A leg's book changes; those connected are told, perhaps unreadably.
Move(leg, delta) ==
    LET book == ApplyAll(exchange[leg], delta)
    IN /\ moves < MaxMoves
       /\ Uncrossed(book)
       /\ book # exchange[leg]
       /\ moves' = moves + 1
       /\ exchange' = [exchange EXCEPT ![leg] = book]
       /\ seen' = seen \cup {Yields(exchange')}
       /\ \/ /\ frames' = IF connected
                          THEN Append(frames, [type |-> "price_change", leg |-> leg,
                                               changes |-> delta, bad |-> FALSE])
                          ELSE frames
             /\ UNCHANGED faults
          \/ /\ connected
             /\ Fault
             /\ \E k \in 0..(Len(delta) - 1) :
                   frames' = Append(frames, [type |-> "price_change", leg |-> leg,
                                             changes |-> SubSeq(delta, 1, k), bad |-> TRUE])
       /\ UNCHANGED <<connected, books, synced, dedup, publishing, redis, route, browser>>

Snapshot(leg, bad) == [type |-> "book", leg |-> leg, book |-> exchange[leg], bad |-> bad]

\* connect_clob_ws: on subscribing, a snapshot of each leg; the copies stay.
Connect ==
    /\ ~connected
    /\ connected' = TRUE
    /\ \E first \in Legs : \E second \in Legs \ {first} :
          \/ /\ frames' = <<Snapshot(first, FALSE), Snapshot(second, FALSE)>>
             /\ UNCHANGED faults
          \/ /\ Fault
             /\ \/ frames' = <<Snapshot(first, TRUE), Snapshot(second, FALSE)>>
                \/ frames' = <<Snapshot(first, FALSE), Snapshot(second, TRUE)>>
    /\ UNCHANGED <<market, books, synced, dedup, publishing, redis, route, browser>>

\* The socket fails: what was not read is lost, the copies and dedup stay.
Drop ==
    /\ connected
    /\ Fault
    /\ connected' = FALSE
    /\ frames' = <<>>
    /\ synced' = {}
    /\ UNCHANGED <<market, books, dedup, publishing, redis, route, browser>>

-----------------------------------------------------------------------------
(* The engine.                                                             *)

\* Mutant: the market is evaluated before the frame is applied.
EvaluateStale(copies, frame) ==
    IF frame.bad \/ DOMAIN books # Legs THEN NoSignal ELSE Yields(books)

\* Both legs must have been seen; after a bad frame nothing is evaluated.
Evaluate(copies, frame) ==
    IF frame.bad \/ DOMAIN copies # Legs THEN NoSignal ELSE Yields(copies)

\* Mutant: an edge that is gone is noted as well.
MovedAny(signal) == signal.net \notin dedup

\* The net edge differs from the last; the kind is not compared.
Moved(signal) == signal # NoSignal /\ signal.net \notin dedup

\* run_stream: one frame, up to the await of publish.  The edge is noted as
\* published before it is; an edge that is gone is not noted at all.
Ingest ==
    /\ frames # <<>>
    /\ publishing = NoSignal
    /\ LET frame == Head(frames)
           copies == Copies(frame)
           signal == Evaluate(copies, frame)
       IN /\ books' = copies
          /\ synced' = IF frame.bad THEN synced \ {frame.leg}
                       ELSE IF frame.type = "book" THEN synced \cup {frame.leg}
                       ELSE synced
          /\ dedup' = IF Moved(signal) THEN {signal.net} ELSE dedup
          /\ publishing' = IF Moved(signal) THEN signal ELSE NoSignal
    /\ frames' = Tail(frames)
    /\ UNCHANGED <<market, connected, redis, route, browser, faults>>

\* publish_signal: to the route if it is subscribed at this moment; the route's
\* Redis client may be subscribing anew, unnoticed by the browser.
Publish ==
    /\ publishing # NoSignal
    /\ publishing' = NoSignal
    /\ published' = published + 1
    /\ \/ /\ listening
          /\ inbox' = Append(inbox, [kind |-> publishing.kind, net |-> publishing.net,
                                     n |-> published'])
          /\ heard' = published'
          /\ UNCHANGED faults
       \/ /\ ~listening
          /\ UNCHANGED <<inbox, heard, faults>>
       \/ /\ listening
          /\ Fault
          /\ UNCHANGED <<inbox, heard>>
    /\ UNCHANGED <<market, connected, frames, books, synced, dedup, listening, pending, wire,
                   browser>>

\* Redis refuses: run_stream logs it as a bad frame and goes on.
FailPublish ==
    /\ publishing # NoSignal
    /\ Fault
    /\ publishing' = NoSignal
    /\ UNCHANGED <<market, connected, frames, books, synced, dedup, redis, route, browser>>

\* The process dies and starts anew, with nothing.
Restart ==
    /\ Fault
    /\ connected' = FALSE
    /\ frames' = <<>>
    /\ books' = <<>>
    /\ synced' = {}
    /\ dedup' = {}
    /\ publishing' = NoSignal
    /\ UNCHANGED <<market, redis, route, browser>>

-----------------------------------------------------------------------------
(* The route.                                                              *)

Listen ==
    /\ ~listening
    /\ listening' = TRUE
    /\ UNCHANGED <<market, engine, redis, inbox, pending, wire, browser, faults>>

Silence ==
    /\ listening' = FALSE
    /\ inbox' = <<>>
    /\ pending' = NoUpdate
    /\ wire' = <<>>

\* Either connection of the route fails; the browser will connect again.
BreakStream ==
    /\ listening
    /\ Fault
    /\ Silence
    /\ UNCHANGED <<market, engine, redis, browser>>

\* Conflator.push: the newest update of an id is kept.
Push(held, update) == update

Receive ==
    /\ inbox # <<>>
    /\ pending' = Push(pending, Head(inbox))
    /\ inbox' = Tail(inbox)
    /\ UNCHANGED <<market, engine, redis, listening, wire, browser, faults>>

\* Mutant: what is drained is sent only when the one before was read.
SentIfRead(batch) == IF wire = <<>> THEN <<batch>> ELSE wire

Sent(batch) == Append(wire, batch)

Flush ==
    /\ pending # NoUpdate
    /\ wire' = Sent(pending)
    /\ pending' = NoUpdate
    /\ UNCHANGED <<market, engine, redis, listening, inbox, browser, faults>>

-----------------------------------------------------------------------------
(* The page.                                                               *)

\* Mutant: every update of a high edge is a rising one.
IsHigh(prev, next) == next.net >= High

\* shouldToastSignal.
ShouldToast(prev, next) == next.net >= High /\ (prev = NoUpdate \/ prev.net < High)

\* onmessage: an update that comes before the list has loaded is not merged,
\* but it is compared with, and it may raise a toast.
HandleUpdate ==
    /\ wire # <<>>
    /\ LET update == Head(wire)
       IN /\ toasts' = IF ShouldToast(lastSeen, update) THEN toasts \cup {update.n} ELSE toasts
          /\ lastSeen' = update
          /\ row' = IF page = "ready" THEN update ELSE row
    /\ wire' = Tail(wire)
    /\ UNCHANGED <<market, engine, redis, listening, inbox, pending, page, faults>>

\* The list arrives: it names its rows otherwise, so no live row is in it, and
\* what the page remembered of the live ones is replaced.
Load ==
    /\ page = "loading"
    /\ page' = "ready"
    /\ lastSeen' = NoUpdate
    /\ UNCHANGED <<market, engine, redis, route, row, toasts, faults>>

FailLoad ==
    /\ page = "loading"
    /\ Fault
    /\ page' = "error"
    /\ UNCHANGED <<market, engine, redis, route, row, lastSeen, toasts>>

Reload ==
    /\ Fault
    /\ Silence
    /\ page' = "loading"
    /\ row' = NoUpdate
    /\ lastSeen' = NoUpdate
    /\ UNCHANGED <<market, engine, redis, toasts>>

-----------------------------------------------------------------------------
Init ==
    /\ exchange \in InitialBooks
    /\ connected = FALSE
    /\ frames = <<>>
    /\ books = <<>>
    /\ synced = {}
    /\ dedup = {}
    /\ publishing = NoSignal
    /\ published = 0
    /\ heard = 0
    /\ seen = {Yields(exchange)}
    /\ listening = FALSE
    /\ inbox = <<>>
    /\ pending = NoUpdate
    /\ wire = <<>>
    /\ page = "loading"
    /\ row = NoUpdate
    /\ lastSeen = NoUpdate
    /\ toasts = {}
    /\ moves = 0
    /\ faults = 0

Next ==
    \/ \E leg \in Legs, delta \in Deltas : Move(leg, delta)
    \/ Connect \/ Drop
    \/ Ingest \/ Publish \/ FailPublish \/ Restart
    \/ Listen \/ BreakStream \/ Receive \/ Flush
    \/ HandleUpdate \/ Load \/ FailLoad \/ Reload

Spec == Init /\ [][Next]_vars

\* The loops of the route and of the browser run; nothing is asked of the
\* exchange, of the engine or of the operator.
FairSpec == Spec /\ WF_vars(Receive) /\ WF_vars(Flush) /\ WF_vars(HandleUpdate)

-----------------------------------------------------------------------------
(* Properties.                                                             *)

UpdateOrNone == Update \cup {NoUpdate}

SignalOrNone(s) == s = NoSignal \/ (s \in Signal /\ s.net > SetSize * MinNet)

TypeOK ==
    /\ exchange \in [Legs -> Book]
    /\ connected \in BOOLEAN
    /\ frames \in Seq(Frame)
    /\ DOMAIN books \subseteq Legs /\ books \in [DOMAIN books -> Book]
    /\ synced \subseteq DOMAIN books
    /\ dedup \subseteq Int /\ \A e \in dedup : e > SetSize * MinNet
    /\ SignalOrNone(publishing)
    /\ published \in Nat
    /\ heard \in 0..published
    /\ \A s \in seen : SignalOrNone(s)
    /\ listening \in BOOLEAN
    /\ inbox \in Seq(Update)
    /\ pending \in UpdateOrNone
    /\ wire \in Seq(Update)
    /\ page \in {"loading", "ready", "error"}
    /\ row \in UpdateOrNone
    /\ lastSeen \in UpdateOrNone
    /\ toasts \subseteq Nat
    /\ moves \in 0..MaxMoves
    /\ faults \in 0..MaxFaults

InFlight(leg) == {f \in ToSet(frames) : f.leg = leg}

\* The leg's copy rests, or will rest, on good frames of this connection.
Recovering(leg) ==
    /\ \A f \in InFlight(leg) : ~f.bad
    /\ leg \in synced \/ \E f \in InFlight(leg) : f.type = "book"

\* The copy a leg comes to when its frames in flight are applied.
Read(leg) ==
    FoldLeft(LAMBDA book, f : IF f.leg = leg THEN Applied(book, f) ELSE book,
             IF leg \in DOMAIN books THEN books[leg] ELSE EmptyBook, frames)

\* A copy the frames in flight are applied to is the exchange's book: a drop or
\* a restart leaves no level behind, and no delta is applied twice or not at all.
CopiesCatchUp == \A leg \in Legs : Recovering(leg) => Read(leg) = exchange[leg]

\* Once both legs have recovered, an edge the engine decides to publish is one
\* that the exchange's own books have had; and none is missed: when every frame is
\* read, the net edge of the exchange's books is the one it decided on last.
EdgesAreExact ==
    synced = Legs =>
        /\ publishing # NoSignal => publishing \in seen
        /\ frames = <<>> /\ Yields(exchange) # NoSignal => dedup = {Yields(exchange).net}

\* What evaluate_market rests on (math/arb.py:181): on recovered copies the
\* two kinds of arbitrage exclude each other, so that trying long first hides
\* no short one.
OneKindAtMost ==
    synced = Legs =>
        \/ LongSet(books["yes"], books["no"]) = NoSignal
        \/ ShortSet(books["yes"], books["no"]) = NoSignal

\* What is on its way to the page, the oldest first.
Pipe == wire \o (IF pending = NoUpdate THEN <<>> ELSE <<pending>>) \o inbox

\* Conflation drops intermediate updates only: whatever is on its way, the
\* last of it is the last one the route was handed, none is overtaken and none is older
\* than the row, through reloads of the page and restarts of the engine.
NewestSurvives ==
    /\ Pipe # <<>> => Last(Pipe).n = heard /\ Head(Pipe).n > row.n
    /\ \A i, j \in DOMAIN Pipe : i < j => Pipe[i].n < Pipe[j].n

\* What the operator is told of is what the table shows: once the list has
\* loaded, an update raises a toast if and only if the row rises to High by it,
\* although the two decide on different memories of the row.
ToastsFollowTable ==
    [][row' # row /\ row' # NoUpdate
       => (row'.n \in toasts' <=> row'.net >= High /\ (row = NoUpdate \/ row.net < High))]_vars

\* What is on its way to a page that has loaded is shown, or something newer
\* is (asked of the first MaxMoves signals), unless the connection breaks or the page is loaded again.
NewestIsShown ==
    \A k \in 1..MaxMoves :
        page = "ready" /\ Pipe # <<>> /\ Last(Pipe).n = k
            ~> row.n >= k \/ ~listening \/ page # "ready"

\* What streaming/engine.py says of itself (lines 5-6): the live edge equals the
\* periodic scan and the backtest; then it is one of the exchange's books.
LiveEqualsReplay == publishing # NoSignal => publishing \in seen
=============================================================================
