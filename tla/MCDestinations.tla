--------------------------- MODULE MCDestinations ---------------------------
(***************************************************************************)
(* Destinations on a small instance: one browser and its tests; any other  *)
(* event is for destinations outside of the instance.                      *)
(***************************************************************************)
EXTENDS Destinations, TLC

TestsHere == [e \in Events |-> IF e \in Tests THEN Dests ELSE {}]
AgeOne    == [e \in Events |-> 1]

\* Bound on what one behaviour holds: the browser's subscriptions, the tests
\* asked for and the faults, together.
MaxMoves == 4

Moves == Cardinality({e \in Tests : expiry[e] > 0}) + faults

SmallSpec ==
    /\ DestInit
    /\ [][DestNext /\ \A t \in Dests : subs'[t] + Moves' <= MaxMoves]_destVars

Interchangeable == Permutations(Requests) \cup Permutations(Tests)
=============================================================================
