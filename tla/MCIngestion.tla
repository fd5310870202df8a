---------------------------- MODULE MCIngestion -----------------------------
(***************************************************************************)
(* Small instances of Ingestion for TLC.                                   *)
(***************************************************************************)
EXTENDS Ingestion

CONSTANTS a, b, s1, s2, p1

Rank == [m \in Markets |-> IF m = a THEN 2 ELSE 1]

TwoScannersOrAPoller == {{s1, s2}, {s1, p1}}

APrint(id, m, token, time) == [id |-> id, market |-> m, token |-> token, time |-> time]

\* Two of one second and token, and a later one of the other token.
FewPrints == {APrint(1, a, "yes", 1), APrint(2, a, "yes", 1), APrint(3, a, "no", 2)}
=============================================================================
