------------------------------ MODULE MCStream ------------------------------
(***************************************************************************)
(* Small instances of Stream for TLC.  Two asks of 3 net 3, of 3 and 4 net *)
(* 2, of 4 net 1; two bids of 6 net 1 the other way.                       *)
(***************************************************************************)
EXTENDS Stream

Set(side, price, size) == [side |-> side, price |-> price, size |-> size]

\* A better offer comes and goes, and a leg is requoted over 6 and back: read
\* half way, the requote leaves a crossed book.
SmallDeltas ==
    {<<Set("asks", 3, 1)>>,
     <<Set("asks", 3, 0)>>,
     <<Set("bids", 6, 1), Set("asks", 4, 0)>>,
     <<Set("asks", 4, 1), Set("bids", 6, 0)>>}

At4 == [EmptyBook EXCEPT !.asks[4] = 1]

OneStart == {[leg \in Legs |-> At4]}
=============================================================================
