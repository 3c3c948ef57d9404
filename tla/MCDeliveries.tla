---------------------------- MODULE MCDeliveries ----------------------------
(***************************************************************************)
(* Deliveries on small instances: an opportunity (or a quota warning) for  *)
(* every destination, a test push for the one it names.                    *)
(***************************************************************************)
EXTENDS Deliveries, TLC

CONSTANTS opportunity, testPush, t1, t2

ToEveryone == [e \in Events |-> Dests]
TestToOne  == [e \in Events |-> IF e = testPush THEN {t1} ELSE Dests]
AgeTwo     == [e \in Events |-> 2]
AgeThree   == [e \in Events |-> 3]

Interchangeable == Permutations(Workers)
=============================================================================
