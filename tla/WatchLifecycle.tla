--------------------------- MODULE WatchLifecycle ---------------------------
(***************************************************************************)
(* The watch lifecycle of the backend: every path that writes              *)
(* watch_intents.status or inserts an opportunity, for one sporting event. *)
(*                                                                         *)
(*   backend/app/application/watch_intent_service.py                       *)
(*   backend/app/infrastructure/persistence/watch_intent_uow.py            *)
(*                                                                         *)
(* A process is a request thread or the Auto-Refresh worker.  It runs one  *)
(* unit of work at a time: a PostgreSQL transaction at READ COMMITTED.     *)
(* Each SELECT is a step that sees what is committed then; each row an     *)
(* UPDATE reaches is a step that waits for the row's lock; each INSERT of  *)
(* an opportunity is a step that waits for a pending insert of the same    *)
(* watch_intent_id.  What a transaction wrote is its own until it commits. *)
(***************************************************************************)
EXTENDS Naturals

CONSTANTS
    Watches,      \* watch intents on the event, created or not
    Procs,        \* threads and workers that run units of work
    Refreshers,   \* those that ingest quotes and evaluate
    Creators,     \* those that serve POST /watch-intents
    Cancellers,   \* those that serve DELETE /watch-intents/{id}
    MaxFaults     \* bound on transactions lost to an error or a crash

ASSUME ProcsAssumption ==
    /\ Refreshers \subseteq Procs
    /\ Creators \subseteq Procs
    /\ Cancellers \subseteq Procs

ASSUME FaultsAssumption == MaxFaults \in Nat

VARIABLES
    status,       \* watch_intents.status, committed ("absent": no row)
    opp,          \* watches with a committed row in opportunities
    outbox,       \* per watch, opportunity.identified rows in public_events
    fillable,     \* watches whose target the committed latest quotes meet
    lapsed,       \* watches whose expires_at has passed
    started,      \* the event's starts_at has passed
    pc,           \* where each process is
    lapsedAt,     \* the TTLs passed at the `now` the evaluation read once
    live,         \* watches the evaluation listed as active and unexpired
    fires,        \* watches it decided to fire
    todo,         \* rows the current statement has still to write
    wrote,        \* status a transaction wrote and has not committed
    inserted,     \* opportunities it inserted and has not committed
    faults        \* transactions lost so far

db    == <<status, opp, outbox>>
world == <<fillable, lapsed, started>>
local == <<pc, lapsedAt, live, fires, todo, wrote, inserted>>
vars  == <<db, world, local, faults>>

Statuses == {"absent", "active", "expired", "cancelled", "triggered"}
Steps == {"idle", "begin", "list", "expire", "read", "insert", "trigger",
          "cancel", "commit"}

TypeOK ==
    /\ status \in [Watches -> Statuses]
    /\ opp \subseteq Watches
    /\ outbox \in [Watches -> Nat]
    /\ fillable \subseteq Watches
    /\ lapsed \subseteq Watches
    /\ started \in BOOLEAN
    /\ pc \in [Procs -> Steps]
    /\ lapsedAt \in [Procs -> SUBSET Watches]
    /\ live \in [Procs -> SUBSET Watches]
    /\ fires \in [Procs -> SUBSET Watches]
    /\ todo \in [Procs -> SUBSET Watches]
    /\ wrote \in [Procs -> [Watches -> {"none"} \cup (Statuses \ {"absent"})]]
    /\ inserted \in [Procs -> SUBSET Watches]
    /\ faults \in 0..MaxFaults

NoWrites == [w \in Watches |-> "none"]

\* No transaction in flight, and these rows committed.
Quiet(rows) ==
    /\ status = rows
    /\ opp = {}
    /\ outbox = [w \in Watches |-> 0]
    /\ fillable = {}
    /\ lapsed = {}
    /\ started = FALSE
    /\ pc = [p \in Procs |-> "idle"]
    /\ lapsedAt = [p \in Procs |-> {}]
    /\ live = [p \in Procs |-> {}]
    /\ fires = [p \in Procs |-> {}]
    /\ todo = [p \in Procs |-> {}]
    /\ wrote = [p \in Procs |-> NoWrites]
    /\ inserted = [p \in Procs |-> {}]
    /\ faults = 0

Init == Quiet([w \in Watches |-> "absent"])

Goto(p, step) == pc' = [pc EXCEPT ![p] = step]

\* The row lock an UPDATE needs: no other transaction has written the row.
RowFree(p, w) == \A q \in Procs \ {p} : wrote[q][w] = "none"

\* unique(watch_intent_id): an INSERT waits while another one is in flight.
KeyFree(p, w) == \A q \in Procs \ {p} : w \notin inserted[q]

WriteRow(p, w, s) ==
    /\ wrote' = [wrote EXCEPT ![p][w] = s]
    /\ todo' = [todo EXCEPT ![p] = @ \ {w}]

-----------------------------------------------------------------------------
\* A refresh of the event commits its quotes, and with them possibly a new
\* starts_at, then calls evaluate_for_event in a transaction of its own.
Refresh(p) ==
    /\ p \in Refreshers
    /\ pc[p] = "idle"
    /\ fillable' \in SUBSET Watches
    /\ started' \in BOOLEAN
    /\ Goto(p, "begin")
    /\ UNCHANGED <<db, lapsed, lapsedAt, live, fires, todo, wrote, inserted, faults>>

\* Mutant: starts_at compared the wrong way round.
EvalBeginReversed(p) ==
    /\ pc[p] = "begin"
    /\ Goto(p, IF ~started THEN "commit" ELSE "list")
    /\ lapsedAt' = [lapsedAt EXCEPT ![p] = lapsed]
    /\ UNCHANGED <<db, world, live, fires, todo, wrote, inserted, faults>>

\* evaluate_for_event reads the clock once, then skips a started event.
EvalBegin(p) ==
    /\ pc[p] = "begin"
    /\ Goto(p, IF started THEN "commit" ELSE "list")
    /\ lapsedAt' = [lapsedAt EXCEPT ![p] = IF started THEN {} ELSE lapsed]
    /\ UNCHANGED <<db, world, live, fires, todo, wrote, inserted, faults>>

\* Mutant: the watches just listed as expired are evaluated with the others.
EvalListKeepsExpired(p) ==
    /\ pc[p] = "list"
    /\ LET active == {w \in Watches : status[w] = "active"} IN
         /\ todo' = [todo EXCEPT ![p] = active \cap lapsedAt[p]]
         /\ live' = [live EXCEPT ![p] = active]
         /\ Goto(p, IF active \cap lapsedAt[p] = {} THEN "read" ELSE "expire")
    /\ UNCHANGED <<db, world, lapsedAt, fires, wrote, inserted, faults>>

\* SELECT ... WHERE status = 'active', split by is_expired_at(now).
EvalList(p) ==
    /\ pc[p] = "list"
    /\ LET active == {w \in Watches : status[w] = "active"} IN
         /\ todo' = [todo EXCEPT ![p] = active \cap lapsedAt[p]]
         /\ live' = [live EXCEPT ![p] = active \ lapsedAt[p]]
         /\ Goto(p, IF active \cap lapsedAt[p] = {} THEN "read" ELSE "expire")
    /\ UNCHANGED <<db, world, lapsedAt, fires, wrote, inserted, faults>>

\* UPDATE ... SET status = 'expired' WHERE id IN (...), a row at a time.
ExpireRow(p, w) ==
    /\ pc[p] = "expire"
    /\ w \in todo[p]
    /\ RowFree(p, w)
    /\ WriteRow(p, w, "expired")
    /\ Goto(p, IF todo[p] = {w} THEN "read" ELSE "expire")
    /\ UNCHANGED <<db, world, lapsedAt, live, fires, inserted, faults>>

\* POST /watch-intents inserts the row, then evaluates only that watch, unless
\* its TTL is already past.  Nothing here asks whether the event has started.
CreateInsert(p, w) ==
    /\ p \in Creators
    /\ pc[p] = "idle"
    /\ status[w] = "absent"
    /\ \A q \in Procs : wrote[q][w] = "none"
    /\ wrote' = [wrote EXCEPT ![p][w] = "active"]
    /\ lapsedAt' = [lapsedAt EXCEPT ![p] = lapsed]
    /\ live' = [live EXCEPT ![p] = {w} \ lapsed]
    /\ Goto(p, IF w \in lapsed THEN "commit" ELSE "read")
    /\ UNCHANGED <<db, world, fires, todo, inserted, faults>>

\* list_quotes and the pure evaluation: the live watches whose target is met.
ReadQuotes(p) ==
    /\ pc[p] = "read"
    /\ fires' = [fires EXCEPT ![p] = live[p] \cap fillable]
    /\ todo' = [todo EXCEPT ![p] = live[p] \cap fillable]
    /\ live' = [live EXCEPT ![p] = {}]
    /\ Goto(p, IF live[p] \cap fillable = {} THEN "commit" ELSE "insert")
    /\ UNCHANGED <<db, world, lapsedAt, wrote, inserted, faults>>

\* Mutant: a skipped insert counts as an accepted one.
InsertOppIgnoresConflict(p, w) ==
    /\ pc[p] = "insert"
    /\ w \in todo[p]
    /\ KeyFree(p, w)
    /\ todo' = [todo EXCEPT ![p] = @ \ {w}]
    /\ inserted' = [inserted EXCEPT ![p] = @ \cup {w}]
    /\ UNCHANGED <<db, world, pc, lapsedAt, live, fires, wrote, faults>>

\* Mutant: an insert still in flight elsewhere is already a conflict.
InsertOppSkipsPending(p, w) ==
    /\ pc[p] = "insert"
    /\ w \in todo[p]
    /\ todo' = [todo EXCEPT ![p] = @ \ {w}]
    /\ inserted' = [inserted EXCEPT ![p] =
                       IF w \in opp \/ ~KeyFree(p, w) THEN @ ELSE @ \cup {w}]
    /\ UNCHANGED <<db, world, pc, lapsedAt, live, fires, wrote, faults>>

\* Mutant: a conflict is retried from the reading of the quotes.
InsertOppRetriesConflict(p, w) ==
    /\ pc[p] = "insert"
    /\ w \in todo[p]
    /\ KeyFree(p, w)
    /\ todo' = [todo EXCEPT ![p] = @ \ {w}]
    /\ inserted' = [inserted EXCEPT ![p] = IF w \in opp THEN @ ELSE @ \cup {w}]
    /\ live' = [live EXCEPT ![p] = IF w \in opp THEN {w} ELSE {}]
    /\ Goto(p, IF w \in opp THEN "read" ELSE "insert")
    /\ UNCHANGED <<db, world, lapsedAt, fires, wrote, faults>>

\* INSERT ... ON CONFLICT (watch_intent_id) DO NOTHING RETURNING id: the row of
\* another evaluation, once committed, makes this one a no-op.
InsertOpp(p, w) ==
    /\ pc[p] = "insert"
    /\ w \in todo[p]
    /\ KeyFree(p, w)
    /\ todo' = [todo EXCEPT ![p] = @ \ {w}]
    /\ inserted' = [inserted EXCEPT ![p] = IF w \in opp THEN @ ELSE @ \cup {w}]
    /\ UNCHANGED <<db, world, pc, lapsedAt, live, fires, wrote, faults>>

\* Mutant: opportunities are committed without retiring their watches.
InsertDoneWithoutRetiring(p) ==
    /\ pc[p] = "insert"
    /\ todo[p] = {}
    /\ Goto(p, "commit")
    /\ UNCHANGED <<db, world, lapsedAt, live, fires, todo, wrote, inserted, faults>>

\* _notify_and_retire is given the opportunities the database accepted, and
\* has nothing to do when there is none.
InsertDone(p) ==
    /\ pc[p] = "insert"
    /\ todo[p] = {}
    /\ todo' = [todo EXCEPT ![p] = inserted[p]]
    /\ Goto(p, IF inserted[p] = {} THEN "commit" ELSE "trigger")
    /\ UNCHANGED <<db, world, lapsedAt, live, fires, wrote, inserted, faults>>

\* UPDATE ... SET status = 'triggered' WHERE id IN (...): whatever the row's
\* status has become since it was listed.
TriggerRow(p, w) ==
    /\ pc[p] = "trigger"
    /\ w \in todo[p]
    /\ RowFree(p, w)
    /\ WriteRow(p, w, "triggered")
    /\ Goto(p, IF todo[p] = {w} THEN "commit" ELSE "trigger")
    /\ UNCHANGED <<db, world, lapsedAt, live, fires, inserted, faults>>

\* DELETE /watch-intents/{id} reads the watch and refuses a triggered one; an
\* id without a row is refused after an UPDATE that touches nothing.
CancelCheck(p, w) ==
    /\ p \in Cancellers
    /\ pc[p] = "idle"
    /\ status[w] \notin {"absent", "triggered"}
    /\ todo' = [todo EXCEPT ![p] = {w}]
    /\ Goto(p, "cancel")
    /\ UNCHANGED <<db, world, lapsedAt, live, fires, wrote, inserted, faults>>

\* UPDATE ... SET status = 'cancelled' WHERE id = :id
CancelRow(p, w) ==
    /\ pc[p] = "cancel"
    /\ w \in todo[p]
    /\ RowFree(p, w)
    /\ WriteRow(p, w, "cancelled")
    /\ Goto(p, "commit")
    /\ UNCHANGED <<db, world, lapsedAt, live, fires, inserted, faults>>

\* The end of a transaction either way: its session is closed.
Finish(p) ==
    /\ Goto(p, "idle")
    /\ lapsedAt' = [lapsedAt EXCEPT ![p] = {}]
    /\ live' = [live EXCEPT ![p] = {}]
    /\ fires' = [fires EXCEPT ![p] = {}]
    /\ todo' = [todo EXCEPT ![p] = {}]
    /\ wrote' = [wrote EXCEPT ![p] = NoWrites]
    /\ inserted' = [inserted EXCEPT ![p] = {}]

\* Mutant: rows the transaction did not touch are written back too.
CommitEveryRow(p) ==
    /\ pc[p] = "commit"
    /\ status' = wrote[p]
    /\ opp' = opp \cup inserted[p]
    /\ outbox' = [w \in Watches |->
                    IF w \in inserted[p] THEN outbox[w] + 1 ELSE outbox[w]]
    /\ Finish(p)
    /\ UNCHANGED <<world, faults>>

\* Mutant: every opportunity evaluated is announced, accepted or not.
CommitAnnouncesAll(p) ==
    /\ pc[p] = "commit"
    /\ status' = [w \in Watches |->
                    IF wrote[p][w] = "none" THEN status[w] ELSE wrote[p][w]]
    /\ opp' = opp \cup inserted[p]
    /\ outbox' = [w \in Watches |->
                    IF w \in fires[p] THEN outbox[w] + 1 ELSE outbox[w]]
    /\ Finish(p)
    /\ UNCHANGED <<world, faults>>

\* __exit__ writes the staged events with the rows and commits.
Commit(p) ==
    /\ pc[p] = "commit"
    /\ status' = [w \in Watches |->
                    IF wrote[p][w] = "none" THEN status[w] ELSE wrote[p][w]]
    /\ opp' = opp \cup inserted[p]
    /\ outbox' = [w \in Watches |->
                    IF w \in inserted[p] THEN outbox[w] + 1 ELSE outbox[w]]
    /\ Finish(p)
    /\ UNCHANGED <<world, faults>>

\* Mutant: the UPDATEs were committed as they ran; only the inserts roll back.
AbortKeepsUpdates(p) ==
    /\ pc[p] # "idle"
    /\ faults < MaxFaults
    /\ faults' = faults + 1
    /\ status' = [w \in Watches |->
                    IF wrote[p][w] = "none" THEN status[w] ELSE wrote[p][w]]
    /\ Finish(p)
    /\ UNCHANGED <<opp, outbox, world>>

\* An exception in the unit of work, a lost connection or a crash of the
\* process: everything uncommitted is rolled back and nothing retries it.
Abort(p) ==
    /\ pc[p] # "idle"
    /\ faults < MaxFaults
    /\ faults' = faults + 1
    /\ Finish(p)
    /\ UNCHANGED <<db, world>>

\* What p's current statement may be waiting for.
WaitsFor(p, q) ==
    \E w \in todo[p] :
        \/ pc[p] \in {"expire", "trigger", "cancel"} /\ wrote[q][w] # "none"
        \/ pc[p] = "insert" /\ w \in inserted[q]

Deadlocked(S) == \A p \in S : \E q \in S \ {p} : WaitsFor(p, q)

\* PostgreSQL breaks a cycle of waiting transactions by aborting one of them.
DeadlockVictim(p) ==
    /\ \E S \in SUBSET Procs : p \in S /\ Deadlocked(S)
    /\ Finish(p)
    /\ UNCHANGED <<db, world, faults>>

TtlLapse(w) ==
    /\ w \notin lapsed
    /\ lapsed' = lapsed \cup {w}
    /\ UNCHANGED <<db, fillable, started, local, faults>>

EventStarts ==
    /\ ~started
    /\ started' = TRUE
    /\ UNCHANGED <<db, fillable, lapsed, local, faults>>

\* A transaction's own next step, other than being aborted.
Step(p) ==
    \/ EvalBegin(p)
    \/ EvalList(p)
    \/ \E w \in Watches : ExpireRow(p, w)
    \/ ReadQuotes(p)
    \/ \E w \in Watches : InsertOpp(p, w)
    \/ InsertDone(p)
    \/ \E w \in Watches : TriggerRow(p, w)
    \/ \E w \in Watches : CancelRow(p, w)
    \/ Commit(p)

Next ==
    \/ \E p \in Procs :
         \/ Refresh(p)
         \/ \E w \in Watches : CreateInsert(p, w) \/ CancelCheck(p, w)
         \/ Step(p)
         \/ Abort(p)
         \/ DeadlockVictim(p)
    \/ \E w \in Watches : TtlLapse(w)
    \/ EventStarts

Spec == Init /\ [][Next]_vars

\* The database serves lock waiters in order and looks for deadlocks, so a
\* transaction that has begun is never starved.
Fairness == \A p \in Procs : SF_vars(Step(p)) /\ SF_vars(DeadlockVictim(p))

\* Besides, Auto-Refresh is on: some process keeps refreshing the event.
RecurringFairness == Fairness /\ SF_vars(\E p \in Refreshers : Refresh(p))

RecurringSpec == Spec /\ RecurringFairness

-----------------------------------------------------------------------------
\* A watch's opportunity.identified event is in the outbox exactly once when
\* the watch has an opportunity and never otherwise, although two evaluations
\* may both find it fillable (ADR-0008, ADR-0014).
AnnouncedExactlyOnce ==
    \A w \in Watches : outbox[w] = IF w \in opp THEN 1 ELSE 0

\* A watch that has fired is never again listed as active: it cannot be
\* evaluated, paid for by Auto-Refresh, or shown as live.
FiredLeavesActive ==
    \A w \in opp : status[w] \notin {"absent", "active"}

\* `triggered` always has an opportunity to show for it: the status and the
\* row commit together, and no loser of the insert race writes the status.
TriggeredHasOpportunity ==
    \A w \in Watches : status[w] = "triggered" => w \in opp

\* A transaction that commits leaves every watch it decided to fire with an
\* opportunity, its own or the one that beat it: ON CONFLICT DO NOTHING may
\* only skip a row that is committed, never one that is still rolled back.
EvaluationComplete ==
    [][\A p \in Procs : Commit(p) => fires[p] \subseteq opp']_vars

\* A watch whose TTL had passed when the evaluation read its clock gets no
\* opportunity from that evaluation, whatever changes before it commits.
LapsedAtReadingNeverFires ==
    [][\A p \in Procs : Commit(p) => lapsedAt[p] \cap (opp' \ opp) = {}]_vars

\* Every transaction ends, deadlocks and lock queues included.
TransactionsEnd ==
    \A p \in Procs : (pc[p] # "idle") ~> (pc[p] = "idle")

\* While refreshes recur, an active watch that stays fillable, unexpired and
\* before its event's start fires unless it is cancelled: the refreshes it
\* raced with or that crashed before evaluating are made good by a later one.
\* Evaluations that insert the keys of two watches in opposite orders
\* (watch_intent_uow.py:130) could deadlock and kill each other for ever, so
\* it is also supposed that the deadlocks come to an end.
FillableEventuallyFires ==
    \A w \in Watches :
        /\ <>[](w \in fillable /\ w \notin lapsed /\ ~started)
        /\ <>[][\A p \in Procs : ~DeadlockVictim(p)]_vars
        => [](status[w] = "active" => <>(w \in opp \/ status[w] = "cancelled"))

Contract == INSTANCE WatchContract WITH
    created   <- {w \in Watches : status[w] # "absent"},
    live      <- {w \in Watches : status[w] = "active"},
    fired     <- opp,
    announced <- outbox

\* Transactions, locks and statements implement the contract.
ImplementsContract == Contract!Spec

-----------------------------------------------------------------------------
\* Claims of the documentation and the comments that the code does not keep.

\* stages-5-6-data-flows.md: "All three exits are terminal; nothing returns to
\* `active`", and watch_intent_service.py: "`triggered` is terminal."  Updates go
\* by id alone: a cancel that read the watch before it fired overwrites
\* triggered, and an evaluation overwrites what it listed as active before.
\* (That an expired watch may be cancelled takes no race and is left out.)
ExitsAreTerminal ==
    [][\A w \in Watches :
         status[w] \in {"cancelled", "triggered"} => status'[w] = status[w]]_vars
=============================================================================
