-------------------------------- MODULE Arb ---------------------------------
(***************************************************************************)
(* The set-arbitrage arithmetic (math/arb.py): one YES and one NO token    *)
(* redeem for One.  A side of a book is its size at each price, 0 where    *)
(* there is no level.  Edges are for SetSize sets, not per set, so that no *)
(* average has to be divided out.                                          *)
(***************************************************************************)
EXTENDS Integers, FiniteSetsExt

CONSTANTS
    Prices,
    One,         \* what a complete set redeems for
    SetSize,     \* arb_set_size
    Costs,       \* arb_gas + arb_slippage, per set
    MinNet       \* arb_min_net_edge, per set

ASSUME ArbAssumption ==
    /\ One \in Nat
    /\ Prices \subseteq 1..One
    /\ SetSize \in Nat \ {0}
    /\ Costs \in Nat
    /\ MinNet \in Int

Side == [Prices -> Nat]
Book == [bids: Side, asks: Side]

Depth(side, prices) == MapThenSumSet(LAMBDA p : side[p], prices)

Fillable(side) == Depth(side, Prices) >= SetSize

\* vwap_to_fill: a level gives what the better ones left to take.
Taken(side, p, better) ==
    Min({side[p], Max({0, SetSize - Depth(side, better)})})

CostToBuy(asks) ==
    MapThenSumSet(LAMBDA p : p * Taken(asks, p, {q \in Prices : q < p}), Prices)

PaidForSale(bids) ==
    MapThenSumSet(LAMBDA p : p * Taken(bids, p, {q \in Prices : q > p}), Prices)

Kinds == {"long_set", "short_set"}
NoSignal == [kind |-> "none", net |-> 0]

\* The cost gate: flag only what clears the costs and the profit gate, strictly.
Gate(kind, gross) ==
    LET net == gross - SetSize * Costs
    IN IF net > SetSize * MinNet THEN [kind |-> kind, net |-> net] ELSE NoSignal

LongSet(yes, no) ==
    IF Fillable(yes.asks) /\ Fillable(no.asks)
    THEN Gate("long_set", SetSize * One - (CostToBuy(yes.asks) + CostToBuy(no.asks)))
    ELSE NoSignal

ShortSet(yes, no) ==
    IF Fillable(yes.bids) /\ Fillable(no.bids)
    THEN Gate("short_set", PaidForSale(yes.bids) + PaidForSale(no.bids) - SetSize * One)
    ELSE NoSignal

EvaluateMarket(yes, no) ==
    IF LongSet(yes, no) # NoSignal THEN LongSet(yes, no) ELSE ShortSet(yes, no)

\* No level to buy at is above a level to sell at: an exchange's own book.
Uncrossed(book) ==
    \A p, q \in Prices : book.bids[p] > 0 /\ book.asks[q] > 0 => p < q
=============================================================================
