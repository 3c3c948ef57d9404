-------------------------- MODULE MCWatchLifecycle --------------------------
(***************************************************************************)
(* WatchLifecycle on small instances.  Where every process plays every     *)
(* role, processes and watches are interchangeable: safety runs use that   *)
(* symmetry, liveness runs do not.                                         *)
(***************************************************************************)
EXTENDS WatchLifecycle, TLC

Interchangeable == Permutations(Procs) \cup Permutations(Watches)

\* RecurringSpec, narrowed because liveness is the costly part: every watch but
\* one has been created, the event does not start, and a price that has been
\* offered stays.  FillableEventuallyFires supposes the last two of a watch in
\* the end, and the safety run has all the rest.
LateWatch == CHOOSE w \in Watches : TRUE

LiveSpec ==
    /\ Quiet([w \in Watches |-> IF w = LateWatch THEN "absent" ELSE "active"])
    /\ [][Next /\ ~started' /\ fillable \subseteq fillable']_vars
    /\ RecurringFairness
=============================================================================
