--------------------------- MODULE WatchContract ---------------------------
(***************************************************************************)
(* What the watch subsystem promises, without transactions, locks or       *)
(* statements: a watch is created once, fires at most once, is announced   *)
(* exactly when it fires, and once it has stopped being live it never is   *)
(* live again.  One step is one committed database transaction, which may  *)
(* create a watch, retire some and fire some.                              *)
(*                                                                         *)
(* The contract deliberately lets a watch fire that is no longer live: the *)
(* code allows it (a cancel committed while an evaluation runs), see the   *)
(* run wl_terminal in the README.                                          *)
(***************************************************************************)
EXTENDS Naturals

CONSTANT Watches

VARIABLES
    created,    \* watches whose row is committed
    live,       \* those stored as active
    fired,      \* those with an opportunity
    announced   \* per watch, the opportunity.identified events in the outbox

contractVars == <<created, live, fired, announced>>

Init ==
    /\ created = {}
    /\ live = {}
    /\ fired = {}
    /\ announced = [w \in Watches |-> 0]

Commit(C, F, R) ==
    /\ C \cap created = {}
    /\ F \subseteq (created \cup C) \ fired
    /\ R \subseteq created \cup C
    /\ created' = created \cup C
    /\ fired' = fired \cup F
    /\ live' = (live \cup C) \ (F \cup R)
    /\ announced' = [w \in Watches |->
                       IF w \in F THEN announced[w] + 1 ELSE announced[w]]

Next == \E C, F, R \in SUBSET Watches : Commit(C, F, R)

Spec == Init /\ [][Next]_contractVars

\* What follows of every reachable state: only a created watch is live or has
\* fired, none is both, and each has been announced as often as it fired.
Consistent ==
    /\ created \subseteq Watches /\ live \subseteq created /\ fired \subseteq created
    /\ live \cap fired = {}
    /\ announced = [w \in Watches |-> IF w \in fired THEN 1 ELSE 0]

\* The watches a step makes live again.
Revives == (live' \cap created) \ live

\* And of every step: it revives no watch and takes no firing back.
NeverLiveAgain == [][Revives = {} /\ fired \subseteq fired']_contractVars
=============================================================================
