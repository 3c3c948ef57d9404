---------------------------- MODULE MCAutoRefresh ----------------------------
(* AutoRefresh on small instances. *)
EXTENDS AutoRefresh, TLC

DerivedFloor == {None}
FloorOfTwo   == {None, 2}

Interchangeable == Permutations(Workers)
=============================================================================
