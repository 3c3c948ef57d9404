----------------------- MODULE WatchLifecycleProofs -----------------------
(***************************************************************************)
(* The safety of WatchLifecycle for any number of watches and processes,   *)
(* and that it implements WatchContract.                                   *)
(***************************************************************************)
EXTENDS WatchLifecycle, TLAPS

-----------------------------------------------------------------------------
(* The inductive invariant: TypeOK and the three state properties, with what
   a transaction in flight must have done by each step for them to survive
   its commit. *)

\* One transaction at a time holds a row, and one a key of opportunities; a
\* key in flight is not committed.
LocksExclusive ==
    /\ \A p, q \in Procs, w \in Watches :
         wrote[p][w] # "none" /\ wrote[q][w] # "none" => p = q
    /\ \A p, q \in Procs, w \in Watches :
         w \in inserted[p] /\ w \in inserted[q] => p = q
    /\ \A p \in Procs : inserted[p] \cap opp = {}

\* A pending `active` is a new row's; a pending `triggered` comes with its
\* opportunity.
WritesJustified ==
    \A p \in Procs, w \in Watches :
        /\ wrote[p][w] = "active" => status[w] = "absent"
        /\ wrote[p][w] = "triggered" => w \in inserted[p]

\* What has been decided and inserted by each step of a unit of work.
StagesDone ==
    \A p \in Procs :
        /\ pc[p] \notin {"insert", "trigger", "commit"} =>
             fires[p] = {} /\ inserted[p] = {}
        /\ pc[p] = "insert" => fires[p] \ todo[p] \subseteq opp \cup inserted[p]
        /\ pc[p] \in {"trigger", "commit"} => fires[p] \subseteq opp \cup inserted[p]
        /\ pc[p] = "trigger" => todo[p] \subseteq inserted[p]
        /\ pc[p] = "trigger" =>
             \A w \in inserted[p] \ todo[p] : wrote[p][w] = "triggered"
        /\ pc[p] = "commit" => \A w \in inserted[p] : wrote[p][w] = "triggered"

\* Nothing the evaluation read as lapsed is among what it may fire.
LapsedKept ==
    \A p \in Procs :
        /\ lapsedAt[p] \cap live[p] = {}
        /\ lapsedAt[p] \cap fires[p] = {}
        /\ lapsedAt[p] \cap inserted[p] = {}
        /\ pc[p] \in {"idle", "begin", "list"} => live[p] = {}
        /\ pc[p] = "insert" => todo[p] \subseteq fires[p]

IInv ==
    /\ TypeOK
    /\ LocksExclusive
    /\ WritesJustified
    /\ StagesDone
    /\ LapsedKept
    /\ AnnouncedExactlyOnce
    /\ FiredLeavesActive
    /\ TriggeredHasOpportunity

-----------------------------------------------------------------------------
LEMMA InitIInv == Init => IInv
<1> SUFFICES ASSUME Init PROVE IInv
  OBVIOUS
<1> USE DEF Init, Quiet, NoWrites
<1>1. TypeOK
  <2>1. wrote \in [Procs -> [Watches -> {"none"} \cup (Statuses \ {"absent"})]]
    OBVIOUS
  <2>2. faults \in 0..MaxFaults
    BY FaultsAssumption DEF FaultsAssumption
  <2>. QED
    BY <2>1, <2>2 DEF TypeOK, Statuses, Steps
<1>2. LocksExclusive /\ WritesJustified /\ StagesDone /\ LapsedKept
  BY DEF LocksExclusive, WritesJustified, StagesDone, LapsedKept
<1>3. AnnouncedExactlyOnce /\ FiredLeavesActive /\ TriggeredHasOpportunity
  BY DEF AnnouncedExactlyOnce, FiredLeavesActive, TriggeredHasOpportunity
<1>. QED
  BY <1>1, <1>2, <1>3 DEF IInv

LEMMA RefreshIInv ==
  ASSUME IInv, NEW p \in Procs, Refresh(p)
  PROVE  IInv'
<1> USE DEF IInv, Refresh, Goto, db, world
<1>1. TypeOK'
  BY DEF TypeOK, Statuses, Steps
<1>2. LocksExclusive'
  BY DEF LocksExclusive, TypeOK
<1>3. WritesJustified'
  BY DEF WritesJustified, TypeOK, StagesDone
<1>4. StagesDone'
  BY DEF StagesDone, TypeOK
<1>5. LapsedKept'
  BY DEF LapsedKept, TypeOK, StagesDone
<1>6. AnnouncedExactlyOnce' /\ FiredLeavesActive' /\ TriggeredHasOpportunity'
  BY DEF AnnouncedExactlyOnce, FiredLeavesActive, TriggeredHasOpportunity
<1>. QED
  BY <1>1, <1>2, <1>3, <1>4, <1>5, <1>6

LEMMA EvalBeginIInv ==
  ASSUME IInv, NEW p \in Procs, EvalBegin(p)
  PROVE  IInv'
<1> USE DEF IInv, EvalBegin, Goto, db, world
<1>1. TypeOK'
  BY DEF TypeOK, Statuses, Steps
<1>2. LocksExclusive'
  BY DEF LocksExclusive, TypeOK
<1>3. WritesJustified'
  BY DEF WritesJustified, TypeOK, StagesDone
<1>4. StagesDone'
  BY DEF StagesDone, TypeOK
<1>5. LapsedKept'
  BY DEF LapsedKept, TypeOK, StagesDone
<1>6. AnnouncedExactlyOnce' /\ FiredLeavesActive' /\ TriggeredHasOpportunity'
  BY DEF AnnouncedExactlyOnce, FiredLeavesActive, TriggeredHasOpportunity
<1>. QED
  BY <1>1, <1>2, <1>3, <1>4, <1>5, <1>6

LEMMA EvalListIInv ==
  ASSUME IInv, NEW p \in Procs, EvalList(p)
  PROVE  IInv'
<1> USE DEF IInv, EvalList, Goto, db, world
<1>1. TypeOK'
  BY DEF TypeOK, Statuses, Steps
<1>2. LocksExclusive'
  BY DEF LocksExclusive, TypeOK
<1>3. WritesJustified'
  BY DEF WritesJustified, TypeOK, StagesDone
<1>4. StagesDone'
  BY DEF StagesDone, TypeOK
<1>5. LapsedKept'
  BY DEF LapsedKept, TypeOK, StagesDone
<1>6. AnnouncedExactlyOnce' /\ FiredLeavesActive' /\ TriggeredHasOpportunity'
  BY DEF AnnouncedExactlyOnce, FiredLeavesActive, TriggeredHasOpportunity
<1>. QED
  BY <1>1, <1>2, <1>3, <1>4, <1>5, <1>6

LEMMA ExpireRowIInv ==
  ASSUME IInv, NEW p \in Procs, NEW w \in Watches, ExpireRow(p, w)
  PROVE  IInv'
<1> USE DEF IInv, ExpireRow, Goto, WriteRow, RowFree, db, world
<1>1. TypeOK'
  BY DEF TypeOK, Statuses, Steps
<1>2. LocksExclusive'
  BY DEF LocksExclusive, TypeOK
<1>3. WritesJustified'
  BY DEF WritesJustified, TypeOK, StagesDone
<1>4. StagesDone'
  BY DEF StagesDone, TypeOK
<1>5. LapsedKept'
  BY DEF LapsedKept, TypeOK, StagesDone
<1>6. AnnouncedExactlyOnce' /\ FiredLeavesActive' /\ TriggeredHasOpportunity'
  BY DEF AnnouncedExactlyOnce, FiredLeavesActive, TriggeredHasOpportunity
<1>. QED
  BY <1>1, <1>2, <1>3, <1>4, <1>5, <1>6

LEMMA CreateInsertIInv ==
  ASSUME IInv, NEW p \in Procs, NEW w \in Watches, CreateInsert(p, w)
  PROVE  IInv'
<1> USE DEF IInv, CreateInsert, Goto, db, world
<1>1. TypeOK'
  BY DEF TypeOK, Statuses, Steps
<1>2. LocksExclusive'
  BY DEF LocksExclusive, TypeOK
<1>3. WritesJustified'
  BY DEF WritesJustified, TypeOK, StagesDone
<1>4. StagesDone'
  BY DEF StagesDone, TypeOK
<1>5. LapsedKept'
  BY DEF LapsedKept, TypeOK, StagesDone
<1>6. AnnouncedExactlyOnce' /\ FiredLeavesActive' /\ TriggeredHasOpportunity'
  BY DEF AnnouncedExactlyOnce, FiredLeavesActive, TriggeredHasOpportunity
<1>. QED
  BY <1>1, <1>2, <1>3, <1>4, <1>5, <1>6

LEMMA ReadQuotesIInv ==
  ASSUME IInv, NEW p \in Procs, ReadQuotes(p)
  PROVE  IInv'
<1> USE DEF IInv, ReadQuotes, Goto, db, world
<1>1. TypeOK'
  BY DEF TypeOK, Statuses, Steps
<1>2. LocksExclusive'
  BY DEF LocksExclusive, TypeOK
<1>3. WritesJustified'
  BY DEF WritesJustified, TypeOK, StagesDone
<1>4. StagesDone'
  BY DEF StagesDone, TypeOK
<1>5. LapsedKept'
  BY DEF LapsedKept, TypeOK, StagesDone
<1>6. AnnouncedExactlyOnce' /\ FiredLeavesActive' /\ TriggeredHasOpportunity'
  BY DEF AnnouncedExactlyOnce, FiredLeavesActive, TriggeredHasOpportunity
<1>. QED
  BY <1>1, <1>2, <1>3, <1>4, <1>5, <1>6

LEMMA InsertOppIInv ==
  ASSUME IInv, NEW p \in Procs, NEW w \in Watches, InsertOpp(p, w)
  PROVE  IInv'
<1> USE DEF IInv, InsertOpp, KeyFree, db, world
<1>1. TypeOK'
  BY DEF TypeOK, Statuses, Steps
<1>2. LocksExclusive'
  BY DEF LocksExclusive, TypeOK
<1>3. WritesJustified'
  BY DEF WritesJustified, TypeOK, StagesDone
<1>4. StagesDone'
  BY DEF StagesDone, TypeOK
<1>5. LapsedKept'
  BY DEF LapsedKept, TypeOK, StagesDone
<1>6. AnnouncedExactlyOnce' /\ FiredLeavesActive' /\ TriggeredHasOpportunity'
  BY DEF AnnouncedExactlyOnce, FiredLeavesActive, TriggeredHasOpportunity
<1>. QED
  BY <1>1, <1>2, <1>3, <1>4, <1>5, <1>6

LEMMA InsertDoneIInv ==
  ASSUME IInv, NEW p \in Procs, InsertDone(p)
  PROVE  IInv'
<1> USE DEF IInv, InsertDone, Goto, db, world
<1>1. TypeOK'
  BY DEF TypeOK, Statuses, Steps
<1>2. LocksExclusive'
  BY DEF LocksExclusive, TypeOK
<1>3. WritesJustified'
  BY DEF WritesJustified, TypeOK, StagesDone
<1>4. StagesDone'
  BY DEF StagesDone, TypeOK
<1>5. LapsedKept'
  BY DEF LapsedKept, TypeOK, StagesDone
<1>6. AnnouncedExactlyOnce' /\ FiredLeavesActive' /\ TriggeredHasOpportunity'
  BY DEF AnnouncedExactlyOnce, FiredLeavesActive, TriggeredHasOpportunity
<1>. QED
  BY <1>1, <1>2, <1>3, <1>4, <1>5, <1>6

LEMMA TriggerRowIInv ==
  ASSUME IInv, NEW p \in Procs, NEW w \in Watches, TriggerRow(p, w)
  PROVE  IInv'
<1> USE DEF IInv, TriggerRow, Goto, WriteRow, RowFree, db, world
<1>1. TypeOK'
  BY DEF TypeOK, Statuses, Steps
<1>2. LocksExclusive'
  BY DEF LocksExclusive, TypeOK
<1>3. WritesJustified'
  BY DEF WritesJustified, TypeOK, StagesDone
<1>4. StagesDone'
  BY DEF StagesDone, TypeOK
<1>5. LapsedKept'
  BY DEF LapsedKept, TypeOK, StagesDone
<1>6. AnnouncedExactlyOnce' /\ FiredLeavesActive' /\ TriggeredHasOpportunity'
  BY DEF AnnouncedExactlyOnce, FiredLeavesActive, TriggeredHasOpportunity
<1>. QED
  BY <1>1, <1>2, <1>3, <1>4, <1>5, <1>6

LEMMA CancelCheckIInv ==
  ASSUME IInv, NEW p \in Procs, NEW w \in Watches, CancelCheck(p, w)
  PROVE  IInv'
<1> USE DEF IInv, CancelCheck, Goto, db, world
<1>1. TypeOK'
  BY DEF TypeOK, Statuses, Steps
<1>2. LocksExclusive'
  BY DEF LocksExclusive, TypeOK
<1>3. WritesJustified'
  BY DEF WritesJustified, TypeOK, StagesDone
<1>4. StagesDone'
  BY DEF StagesDone, TypeOK
<1>5. LapsedKept'
  BY DEF LapsedKept, TypeOK, StagesDone
<1>6. AnnouncedExactlyOnce' /\ FiredLeavesActive' /\ TriggeredHasOpportunity'
  BY DEF AnnouncedExactlyOnce, FiredLeavesActive, TriggeredHasOpportunity
<1>. QED
  BY <1>1, <1>2, <1>3, <1>4, <1>5, <1>6

LEMMA CancelRowIInv ==
  ASSUME IInv, NEW p \in Procs, NEW w \in Watches, CancelRow(p, w)
  PROVE  IInv'
<1> USE DEF IInv, CancelRow, Goto, WriteRow, RowFree, db, world
<1>1. TypeOK'
  BY DEF TypeOK, Statuses, Steps
<1>2. LocksExclusive'
  BY DEF LocksExclusive, TypeOK
<1>3. WritesJustified'
  BY DEF WritesJustified, TypeOK, StagesDone
<1>4. StagesDone'
  BY DEF StagesDone, TypeOK
<1>5. LapsedKept'
  BY DEF LapsedKept, TypeOK, StagesDone
<1>6. AnnouncedExactlyOnce' /\ FiredLeavesActive' /\ TriggeredHasOpportunity'
  BY DEF AnnouncedExactlyOnce, FiredLeavesActive, TriggeredHasOpportunity
<1>. QED
  BY <1>1, <1>2, <1>3, <1>4, <1>5, <1>6

LEMMA RollbackIInv ==
  ASSUME IInv, NEW p \in Procs, Finish(p), UNCHANGED <<db, world>>, faults' \in 0..MaxFaults
  PROVE  IInv'
<1> USE DEF IInv, Finish, Goto, NoWrites, db, world
<1>1. TypeOK'
  BY DEF TypeOK, Statuses, Steps
<1>2. LocksExclusive'
  BY DEF LocksExclusive, TypeOK
<1>3. WritesJustified'
  BY DEF WritesJustified, TypeOK, StagesDone, LocksExclusive
<1>4. StagesDone'
  BY DEF StagesDone, TypeOK
<1>5. LapsedKept'
  BY DEF LapsedKept, TypeOK
<1>6. AnnouncedExactlyOnce'
  BY DEF AnnouncedExactlyOnce, TypeOK, LocksExclusive
<1>7. FiredLeavesActive'
  BY DEF FiredLeavesActive, TypeOK, WritesJustified, StagesDone
<1>8. TriggeredHasOpportunity'
  BY DEF TriggeredHasOpportunity, TypeOK, WritesJustified
<1>. QED
  BY <1>1, <1>2, <1>3, <1>4, <1>5, <1>6, <1>7, <1>8

LEMMA CommitIInv ==
  ASSUME IInv, NEW p \in Procs, Commit(p)
  PROVE  IInv'
<1> USE DEF IInv, Commit, Finish, Goto, NoWrites, world
<1>1. TypeOK'
  BY DEF TypeOK, Statuses, Steps
<1>2. LocksExclusive'
  BY DEF LocksExclusive, TypeOK
<1>3. WritesJustified'
  BY DEF WritesJustified, TypeOK, StagesDone, LocksExclusive
<1>4. StagesDone'
  BY DEF StagesDone, TypeOK
<1>5. LapsedKept'
  BY DEF LapsedKept, TypeOK
<1>6. AnnouncedExactlyOnce'
  BY DEF AnnouncedExactlyOnce, TypeOK, LocksExclusive
<1>7. FiredLeavesActive'
  BY DEF FiredLeavesActive, TypeOK, WritesJustified, StagesDone
<1>8. TriggeredHasOpportunity'
  BY DEF TriggeredHasOpportunity, TypeOK, WritesJustified
<1>. QED
  BY <1>1, <1>2, <1>3, <1>4, <1>5, <1>6, <1>7, <1>8

LEMMA WorldIInv ==
  ASSUME IInv, UNCHANGED <<db, local, faults>>, lapsed' \subseteq Watches, fillable' = fillable, started' \in BOOLEAN
  PROVE  IInv'
<1> USE DEF IInv, db, local
<1>1. TypeOK'
  BY DEF TypeOK, Statuses, Steps
<1>2. LocksExclusive'
  BY DEF LocksExclusive, TypeOK
<1>3. WritesJustified'
  BY DEF WritesJustified, TypeOK, StagesDone, LocksExclusive
<1>4. StagesDone'
  BY DEF StagesDone, TypeOK
<1>5. LapsedKept'
  BY DEF LapsedKept, TypeOK
<1>6. AnnouncedExactlyOnce'
  BY DEF AnnouncedExactlyOnce, TypeOK, LocksExclusive
<1>7. FiredLeavesActive'
  BY DEF FiredLeavesActive, TypeOK, WritesJustified, StagesDone
<1>8. TriggeredHasOpportunity'
  BY DEF TriggeredHasOpportunity, TypeOK, WritesJustified
<1>. QED
  BY <1>1, <1>2, <1>3, <1>4, <1>5, <1>6, <1>7, <1>8

LEMMA NextIInv == IInv /\ [Next]_vars => IInv'
<1> SUFFICES ASSUME IInv, [Next]_vars PROVE IInv'
  OBVIOUS
<1>1. ASSUME NEW p \in Procs, Step(p) PROVE IInv'
  BY <1>1, EvalBeginIInv, EvalListIInv, ExpireRowIInv, ReadQuotesIInv, InsertOppIInv,
     InsertDoneIInv, TriggerRowIInv, CancelRowIInv, CommitIInv DEF Step
<1>2. ASSUME NEW p \in Procs, Abort(p) PROVE IInv'
  <2>1. faults' \in 0..MaxFaults
    BY <1>2, FaultsAssumption DEF FaultsAssumption, Abort, IInv, TypeOK
  <2>. QED
    BY <1>2, <2>1, RollbackIInv DEF Abort
<1>3. ASSUME NEW p \in Procs, DeadlockVictim(p) PROVE IInv'
  <2>1. faults' \in 0..MaxFaults
    BY <1>3 DEF DeadlockVictim, IInv, TypeOK
  <2>. QED
    BY <1>3, <2>1, RollbackIInv DEF DeadlockVictim
<1>4. ASSUME NEW w \in Watches, TtlLapse(w) PROVE IInv'
  BY <1>4, WorldIInv DEF TtlLapse, IInv, TypeOK
<1>5. CASE EventStarts
  BY <1>5, WorldIInv DEF EventStarts, IInv, TypeOK
<1>6. CASE UNCHANGED vars
  BY <1>6, WorldIInv DEF vars, world, IInv, TypeOK
<1>. QED
  BY <1>1, <1>2, <1>3, <1>4, <1>5, <1>6, RefreshIInv, CreateInsertIInv, CancelCheckIInv
     DEF Next

\* Every reachable state satisfies the inductive invariant.
THEOREM Invariance == Spec => []IInv
<1>. QED
  BY InitIInv, NextIInv, PTL DEF Spec

-----------------------------------------------------------------------------
\* Every variable keeps its type, for any number of watches and processes.
THEOREM TypeCorrect == Spec => []TypeOK
<1>1. IInv => TypeOK
  BY DEF IInv
<1>. QED
  BY <1>1, Invariance, PTL

\* The outbox announces each opportunity once and nothing else, however many
\* evaluations race for the watch.
THEOREM AnnouncementSafety == Spec => []AnnouncedExactlyOnce
<1>1. IInv => AnnouncedExactlyOnce
  BY DEF IInv
<1>. QED
  BY <1>1, Invariance, PTL

\* A watch that fired is never active again.
THEOREM RetirementSafety == Spec => []FiredLeavesActive
<1>1. IInv => FiredLeavesActive
  BY DEF IInv
<1>. QED
  BY <1>1, Invariance, PTL

\* A watch that is `triggered` always has its opportunity: no rollback and no
\* lost race leaves the status without the row.
THEOREM TriggeredSafety == Spec => []TriggeredHasOpportunity
<1>1. IInv => TriggeredHasOpportunity
  BY DEF IInv
<1>. QED
  BY <1>1, Invariance, PTL

\* A committed evaluation has left no watch it decided to fire without an
\* opportunity: what it lost the race for is already committed.
THEOREM EvaluationIsComplete == Spec => EvaluationComplete
<1>1. IInv /\ [Next]_vars =>
        [\A p \in Procs : Commit(p) => fires[p] \subseteq opp']_vars
  BY DEF IInv, StagesDone, Commit
<1>. QED
  BY <1>1, Invariance, PTL DEF Spec, EvaluationComplete

\* An evaluation never fires a watch its own clock reading had expired.
THEOREM ExpiryRespected == Spec => LapsedAtReadingNeverFires
<1>1. IInv /\ [Next]_vars =>
        [\A p \in Procs : Commit(p) => lapsedAt[p] \cap (opp' \ opp) = {}]_vars
  BY DEF IInv, LapsedKept, Commit
<1>. QED
  BY <1>1, Invariance, PTL DEF Spec, LapsedAtReadingNeverFires

-----------------------------------------------------------------------------
(* Refinement: a commit is a step of the contract, everything else stutters. *)

LEMMA CommitImplements ==
  ASSUME IInv, NEW p \in Procs, Commit(p)
  PROVE  Contract!Next
<1> DEFINE C == {w \in Watches : status[w] = "absent" /\ wrote[p][w] # "none"}
           R == {w \in Watches : wrote[p][w] \notin {"none", "active"}}
<1> USE DEF IInv, Commit, TypeOK, Statuses
<1>1. inserted[p] \subseteq R
  BY DEF StagesDone
<1>2. inserted[p] \cap opp = {}
  BY DEF LocksExclusive
<1>3. \A w \in Watches : status'[w] # "absent" <=> status[w] # "absent" \/ w \in C
  OBVIOUS
<1>4. \A w \in Watches :
        status'[w] = "active" <=> (status[w] = "active" \/ w \in C) /\ w \notin R
  BY DEF WritesJustified
<1>5. R \subseteq {w \in Watches : status[w] # "absent"} \cup C
  OBVIOUS
<1>6. Contract!Commit(C, inserted[p], R)
  BY <1>1, <1>2, <1>3, <1>4, <1>5 DEF Contract!Commit
<1>7. C \in SUBSET Watches /\ inserted[p] \in SUBSET Watches /\ R \in SUBSET Watches
  OBVIOUS
<1>8. \E X, F, Y \in SUBSET Watches : Contract!Commit(X, F, Y)
  <2>. HIDE DEF C, R, IInv, Commit, TypeOK
  <2>. QED
    BY <1>6, <1>7 DEF Contract!Commit
<1>. QED
  BY <1>8 DEF Contract!Next

LEMMA StepImplements == IInv /\ [Next]_vars => [Contract!Next]_(Contract!contractVars)
<1> SUFFICES ASSUME IInv, [Next]_vars
             PROVE  Contract!Next \/ UNCHANGED Contract!contractVars
  OBVIOUS
<1>1. ASSUME NEW p \in Procs, Commit(p) PROVE Contract!Next
  BY <1>1, CommitImplements
<1>2. ASSUME UNCHANGED db PROVE UNCHANGED Contract!contractVars
  BY <1>2 DEF db, Contract!contractVars
<1>3. (\E p \in Procs : Commit(p)) \/ UNCHANGED db
  BY DEF Next, Step, vars, Refresh, EvalBegin, EvalList, ExpireRow, CreateInsert, ReadQuotes,
     InsertOpp, InsertDone, TriggerRow, CancelCheck, CancelRow, Abort, DeadlockVictim,
     TtlLapse, EventStarts
<1>. QED
  BY <1>1, <1>2, <1>3

\* Transactions at READ COMMITTED, with their locks, races, aborts and crashes,
\* implement the contract: created once, fired at most once, announced when
\* fired, never live again.
THEOREM Refinement == Spec => ImplementsContract
<1>1. Init => Contract!Init
  BY DEF Init, Quiet, Contract!Init
<1>. QED
  BY <1>1, StepImplements, Invariance, PTL DEF Spec, ImplementsContract, Contract!Spec

-----------------------------------------------------------------------------
(* What the contract promises of every state and step it allows, and so of
   the code's. *)

\* A contract step keeps Consistent, revives no watch and takes no firing back.
LEMMA ContractStep ==
  ASSUME Contract!Consistent, Contract!Next
  PROVE  /\ Contract!Consistent'
         /\ Contract!Revives = {}
         /\ opp \subseteq opp'
<1>. DEFINE rows == {w \in Watches : status[w] # "absent"}
            active == {w \in Watches : status[w] = "active"}
<1>1. PICK C \in SUBSET Watches, F \in SUBSET Watches, R \in SUBSET Watches :
        Contract!Commit(C, F, R)
  BY DEF Contract!Next
<1>2. /\ C \cap rows = {} /\ F \subseteq (rows \cup C) \ opp
      /\ rows' = rows \cup C
      /\ opp' = opp \cup F
      /\ active' = (active \cup C) \ (F \cup R)
      /\ outbox' = [w \in Watches |-> IF w \in F THEN outbox[w] + 1 ELSE outbox[w]]
  BY <1>1 DEF Contract!Commit
<1>3. /\ active \subseteq rows /\ opp \subseteq rows /\ active \cap opp = {}
      /\ outbox = [w \in Watches |-> IF w \in opp THEN 1 ELSE 0]
  BY DEF Contract!Consistent
<1>4. rows' \subseteq Watches
  OBVIOUS
<1>. HIDE DEF rows, active
<1>5. /\ active' \subseteq rows' /\ opp' \subseteq rows' /\ active' \cap opp' = {}
      /\ active' \cap rows \subseteq active
  BY <1>2, <1>3
<1>6. outbox' = [w \in Watches |-> IF w \in opp' THEN 1 ELSE 0]
  BY <1>2, <1>3
<1>7. opp \subseteq opp'
  BY <1>2
<1>8. Contract!Consistent'
  BY <1>4, <1>5, <1>6 DEF Contract!Consistent, rows, active
<1>9. Contract!Revives = {}
  BY <1>5 DEF Contract!Revives, rows, active
<1>. QED
  BY <1>7, <1>8, <1>9

\* However the transactions of evaluations, creations and cancellations
\* interleave, committed watches, opportunities and announcements agree as the
\* contract says.
THEOREM ContractHolds == Spec => []Contract!Consistent
<1>1. Contract!Init => Contract!Consistent
  BY DEF Contract!Init, Contract!Consistent
<1>2. Contract!Consistent /\ [Contract!Next]_(Contract!contractVars) => Contract!Consistent'
  <2>1. ASSUME Contract!Consistent, UNCHANGED Contract!contractVars
        PROVE  Contract!Consistent'
    BY <2>1 DEF Contract!Consistent, Contract!contractVars
  <2>. QED
    BY <2>1, ContractStep
<1>. QED
  BY <1>1, <1>2, Refinement, PTL DEF ImplementsContract, Contract!Spec

\* A watch that has once stopped being active never is again, by whichever
\* transactions in flight still hold it as active, and an opportunity stays.
THEOREM NeverRevived == Spec => Contract!NeverLiveAgain
<1>1. Contract!Consistent /\ [Contract!Next]_(Contract!contractVars)
        => [Contract!Revives = {} /\ opp \subseteq opp']_(Contract!contractVars)
  BY ContractStep
<1>. QED
  BY <1>1, ContractHolds, Refinement, PTL
  DEF ImplementsContract, Contract!Spec, Contract!NeverLiveAgain
=============================================================================
