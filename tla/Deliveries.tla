----------------------------- MODULE Deliveries -----------------------------
(***************************************************************************)
(* The notifier: how an event of the public outbox becomes one delivery    *)
(* per destination, and how workers claim, send, retry and settle them.    *)
(*                                                                         *)
(*   services/notifier/internal/notifier/notifier.go                       *)
(*   services/notifier/internal/store/store.go                             *)
(*                                                                         *)
(* Several notifier processes may run.  Database statements are steps;     *)
(* between a claim's commit, the push and the recording of its result any  *)
(* other worker, the clock or a crash may come.  One discrete clock stands *)
(* for the database's now() and the workers' time.Now.                     *)
(***************************************************************************)
EXTENDS Naturals, FiniteSets

CONSTANTS
    Events,       \* public events, written or not
    Dests,        \* destinations
    Workers,      \* notifier processes
    Audience,     \* the destinations an event's type addresses
    MaxAge,       \* how long after its writing an event is worth delivering
    BatchSize,    \* events per fan-out, deliveries per claim
    Lease,        \* how long a claim lasts
    Delays,       \* possible backoff delays, jitter included
    LastWrite,    \* bound: no event is written later than this
    LastFault,    \* bound: no crash and no failed statement later than this
    MaxFaults,    \* bound on crashes and failed statements
    MaxTime,      \* bound on the clock
    NoDelivery    \* not a delivery

\* deliveries rows: at most one per (event_id, destination_id).
Rows == {<<e, t>> : e \in Events, t \in Dests}
Addressed == {r \in Rows : r[2] \in Audience[r[1]]}

ASSUME EventsAssumption ==
    /\ Audience \in [Events -> SUBSET Dests]
    /\ MaxAge \in [Events -> Nat \ {0}]
    /\ NoDelivery \notin Rows

ASSUME TimingAssumption ==
    /\ BatchSize \in Nat \ {0}
    /\ Lease \in Nat \ {0}
    /\ Delays \subseteq Nat \ {0}

ASSUME BoundsAssumption ==
    {LastWrite, LastFault, MaxFaults, MaxTime} \subseteq Nat

VARIABLES
    now,          \* the clock
    expiry,       \* per event, events.ExpiresAt; 0 while it is not written
    dispatched,   \* events whose dispatched_at is set
    active,       \* destinations that are registered, with disabled_at NULL
    status,       \* deliveries.status; "none": no row
    due,          \* deliveries.next_attempt_at
    lockedUntil,  \* deliveries.locked_until; 0: NULL
    attempts,     \* deliveries.attempts; also names the latest claim's token
    pc,           \* where each worker is in its cycle
    fanning,      \* events a worker's open fan-out has locked
    fanned,       \* those it has expanded
    newRows,      \* the rows it inserted and has not committed
    token,        \* per worker and delivery, the claim it holds; 0: none
    lease,        \* LockedUntil of the claims in a worker's batch
    full,         \* whether that batch was full
    current,      \* the delivery a worker is sending or recording
    outcome,      \* what it has to record
    accepted,     \* deliveries the push service took at least once
    owed,         \* deliveries an active destination can expect (history)
    faults

rows    == <<status, due, lockedUntil, attempts>>
outboxv == <<expiry, dispatched>>
fanv    == <<fanning, fanned, newRows>>
workv   == <<token, lease, full, current, outcome>>
history == <<accepted, owed>>
vars    == <<now, outboxv, active, rows, pc, fanv, workv, history, faults>>

Final    == {"delivered", "failed", "expired", "gone"}
Outcomes == Final \cup {"none", "retry"}
Stages   == {"wait", "fanout", "expand", "claim", "work", "send", "record"}

TypeOK ==
    /\ now \in 0..MaxTime
    /\ expiry \in [Events -> Nat]
    /\ dispatched \subseteq Events
    /\ active \subseteq Dests
    /\ status \in [Rows -> Final \cup {"none", "pending"}]
    /\ due \in [Rows -> Nat]
    /\ lockedUntil \in [Rows -> Nat]
    /\ attempts \in [Rows -> Nat]
    /\ pc \in [Workers -> Stages]
    /\ fanning \in [Workers -> SUBSET Events]
    /\ fanned \in [Workers -> SUBSET Events]
    /\ newRows \in [Workers -> SUBSET Rows]
    /\ token \in [Workers -> [Rows -> Nat]]
    /\ lease \in [Workers -> Nat]
    /\ full \in [Workers -> BOOLEAN]
    /\ current \in [Workers -> Rows \cup {NoDelivery}]
    /\ outcome \in [Workers -> Outcomes]
    /\ accepted \subseteq Rows
    /\ owed \subseteq Rows
    /\ faults \in 0..MaxFaults

NoClaims == [r \in Rows |-> 0]

\* The tables are empty, but for the destinations; these are registered.
InitWith(registered) ==
    /\ now = 0
    /\ expiry = [e \in Events |-> 0]
    /\ dispatched = {}
    /\ active = registered
    /\ status = [r \in Rows |-> "none"]
    /\ due = [r \in Rows |-> 0]
    /\ lockedUntil = [r \in Rows |-> 0]
    /\ attempts = [r \in Rows |-> 0]
    /\ pc = [w \in Workers |-> "wait"]
    /\ fanning = [w \in Workers |-> {}]
    /\ fanned = [w \in Workers |-> {}]
    /\ newRows = [w \in Workers |-> {}]
    /\ token = [w \in Workers |-> NoClaims]
    /\ lease = [w \in Workers |-> 0]
    /\ full = [w \in Workers |-> FALSE]
    /\ current = [w \in Workers |-> NoDelivery]
    /\ outcome = [w \in Workers |-> "none"]
    /\ accepted = {}
    /\ owed = {}
    /\ faults = 0

Init == InitWith(Dests)

Goto(w, stage) == pc' = [pc EXCEPT ![w] = stage]
Min2(a, b) == IF a < b THEN a ELSE b

-----------------------------------------------------------------------------
(* The backend's side *)

\* A backend transaction commits an event to the outbox.  It is owed to the
\* addressed destinations that are active then.
WriteEvent(e) ==
    /\ expiry[e] = 0
    /\ now <= LastWrite
    /\ expiry' = [expiry EXCEPT ![e] = now + MaxAge[e]]
    /\ owed' = owed \cup {r \in Addressed : r[1] = e /\ r[2] \in active}
    /\ UNCHANGED <<now, dispatched, active, rows, pc, fanv, workv, accepted, faults>>

\* A browser registers, or again after it was gone: the destination is active.
Resubscribe(t) ==
    /\ t \notin active
    /\ now <= LastWrite
    /\ active' = active \cup {t}
    /\ UNCHANGED <<now, outboxv, rows, pc, fanv, workv, history, faults>>

-----------------------------------------------------------------------------
(* Fan-out *)

\* NOTIFY or the sweep timer ends the wait; RunOnce begins with fan-out.
Wake(w) ==
    /\ pc[w] = "wait"
    /\ Goto(w, "fanout")
    /\ UNCHANGED <<now, outboxv, active, rows, fanv, workv, history, faults>>

Undispatched ==
    {e \in Events : expiry[e] > 0 /\ e \notin dispatched
                    /\ \A v \in Workers : e \notin fanning[v]}

\* Mutant: events are marked dispatched when they are selected.
FanOutSelectMarks(w) ==
    /\ pc[w] = "fanout"
    /\ \E E \in SUBSET Undispatched :
         /\ Cardinality(E) = Min2(BatchSize, Cardinality(Undispatched))
         /\ fanning' = [fanning EXCEPT ![w] = E]
         /\ dispatched' = dispatched \cup E
         /\ Goto(w, IF E = {} THEN "claim" ELSE "expand")
    /\ UNCHANGED <<now, expiry, active, rows, fanned, newRows, workv, history, faults>>

\* SELECT ... WHERE dispatched_at IS NULL LIMIT n FOR UPDATE SKIP LOCKED.
\* With nothing to fan out RunOnce goes on to the deliveries.
FanOutSelect(w) ==
    /\ pc[w] = "fanout"
    /\ \E E \in SUBSET Undispatched :
         /\ Cardinality(E) = Min2(BatchSize, Cardinality(Undispatched))
         /\ fanning' = [fanning EXCEPT ![w] = E]
         /\ Goto(w, IF E = {} THEN "claim" ELSE "expand")
    /\ UNCHANGED <<now, outboxv, active, rows, fanned, newRows, workv, history, faults>>

\* INSERT INTO deliveries ... SELECT the active addressed destinations, ON
\* CONFLICT DO NOTHING; the rows stay invisible until the commit.
FanOutExpand(w, e) ==
    /\ pc[w] = "expand"
    /\ e \in fanning[w] \ fanned[w]
    /\ newRows' = [newRows EXCEPT ![w] = @ \cup
                     {r \in Addressed : r[1] = e /\ r[2] \in active /\ status[r] = "none"}]
    /\ fanned' = [fanned EXCEPT ![w] = @ \cup {e}]
    /\ UNCHANGED <<now, outboxv, active, rows, pc, fanning, workv, history, faults>>

\* The commit sets dispatched_at.  A full batch is followed by another.
FanOutCommit(w) ==
    /\ pc[w] = "expand"
    /\ fanned[w] = fanning[w]
    /\ dispatched' = dispatched \cup fanning[w]
    /\ status' = [r \in Rows |-> IF r \in newRows[w] THEN "pending" ELSE status[r]]
    /\ due' = [r \in Rows |-> IF r \in newRows[w] THEN now ELSE due[r]]
    /\ fanning' = [fanning EXCEPT ![w] = {}]
    /\ fanned' = [fanned EXCEPT ![w] = {}]
    /\ newRows' = [newRows EXCEPT ![w] = {}]
    /\ Goto(w, IF Cardinality(fanning[w]) < BatchSize THEN "claim" ELSE "fanout")
    /\ UNCHANGED <<now, expiry, active, lockedUntil, attempts, workv, history, faults>>

-----------------------------------------------------------------------------
(* Claims *)

\* Mutant: a lease can be taken over at the very instant it ends.
DueAtLeaseEnd == {r \in Rows : /\ status[r] = "pending"
                               /\ due[r] <= now
                               /\ lockedUntil[r] <= now}

\* Mutant: a claim whose holder died is never recovered.
DueUnlocked == {r \in Rows : /\ status[r] = "pending"
                             /\ due[r] <= now
                             /\ lockedUntil[r] = 0}

\* Pending, its next attempt due, and neither claimed nor under a live lease.
Due == {r \in Rows : /\ status[r] = "pending"
                     /\ due[r] <= now
                     /\ lockedUntil[r] = 0 \/ lockedUntil[r] < now}

\* ClaimDue: the longest due first, each with a lease and a fresh token.
ClaimDue(w) ==
    /\ pc[w] = "claim"
    /\ \E C \in SUBSET Due :
         /\ Cardinality(C) = Min2(BatchSize, Cardinality(Due))
         /\ \A r \in C, s \in Due \ C : due[r] <= due[s]
         /\ lockedUntil' = [r \in Rows |->
                              IF r \in C THEN now + Lease ELSE lockedUntil[r]]
         /\ attempts' = [r \in Rows |-> IF r \in C THEN attempts[r] + 1 ELSE attempts[r]]
         /\ token' = [token EXCEPT ![w] =
                        [r \in Rows |-> IF r \in C THEN attempts[r] + 1 ELSE 0]]
         /\ full' = [full EXCEPT ![w] = Cardinality(C) = BatchSize]
    /\ lease' = [lease EXCEPT ![w] = now + Lease]
    /\ Goto(w, "work")
    /\ UNCHANGED <<now, outboxv, active, status, due, fanv, current, outcome, history, faults>>

\* A full batch is followed by another claim; otherwise the cycle is over.
BatchDone(w) ==
    /\ pc[w] = "work"
    /\ token[w] = NoClaims
    /\ Goto(w, IF full[w] THEN "claim" ELSE "wait")
    /\ full' = [full EXCEPT ![w] = FALSE]
    /\ lease' = [lease EXCEPT ![w] = 0]
    /\ UNCHANGED <<now, outboxv, active, rows, fanv, token, current, outcome, history, faults>>

-----------------------------------------------------------------------------
(* Sending: one delivery of the batch after another *)

Holds(w, r) == token[w][r] > 0

\* Nothing more is done with this claim.
Drop(w, r) ==
    /\ token' = [token EXCEPT ![w][r] = 0]
    /\ current' = [current EXCEPT ![w] = NoDelivery]
    /\ outcome' = [outcome EXCEPT ![w] = "none"]
    /\ Goto(w, "work")

\* The outcome is known and goes to the database next.
Decide(w, r, o) ==
    /\ current' = [current EXCEPT ![w] = r]
    /\ outcome' = [outcome EXCEPT ![w] = o]
    /\ Goto(w, "record")

Expired(r) == now >= expiry[r[1]]

\* Past its event's max age a delivery is expired without being sent.
FoundExpired(w, r) ==
    /\ pc[w] = "work" /\ Holds(w, r)
    /\ Expired(r)
    /\ Decide(w, r, "expired")
    /\ UNCHANGED <<now, outboxv, active, rows, fanv, token, lease, full, history, faults>>

\* An event that cannot be rendered; or, with the lease not over, keys or a
\* payload that can never be sent.
Unsendable(w, r) ==
    /\ pc[w] = "work" /\ Holds(w, r)
    /\ ~Expired(r)
    /\ Decide(w, r, "failed")
    /\ UNCHANGED <<now, outboxv, active, rows, fanv, token, lease, full, history, faults>>

\* Mutant: the request's deadline is not the end of the lease.
SendStartAnyTime(w, r) ==
    /\ pc[w] = "work" /\ Holds(w, r)
    /\ ~Expired(r)
    /\ current' = [current EXCEPT ![w] = r]
    /\ Goto(w, "send")
    /\ UNCHANGED <<now, outboxv, active, rows, fanv, token, lease, full, outcome, history, faults>>

\* The push request starts under a deadline at the end of the lease.
SendStart(w, r) ==
    /\ pc[w] = "work" /\ Holds(w, r)
    /\ ~Expired(r)
    /\ now < lease[w]
    /\ current' = [current EXCEPT ![w] = r]
    /\ Goto(w, "send")
    /\ UNCHANGED <<now, outboxv, active, rows, fanv, token, lease, full, outcome, history, faults>>

\* The earlier sends of the batch used the lease up: this one's context is
\* over before it starts, and nothing is recorded.
SendTooLate(w, r) ==
    /\ pc[w] = "work" /\ Holds(w, r)
    /\ ~Expired(r)
    /\ now >= lease[w]
    /\ Drop(w, r)
    /\ UNCHANGED <<now, outboxv, active, rows, fanv, lease, full, history, faults>>

\* The push service answers 2xx, 404 or 410, another 4xx, or 429 or 5xx.
Answered(w, o) ==
    /\ pc[w] = "send"
    /\ o \in {"delivered", "gone", "failed", "retry"}
    /\ Decide(w, current[w], o)
    /\ accepted' = IF o = "delivered" THEN accepted \cup {current[w]} ELSE accepted
    /\ UNCHANGED <<now, outboxv, active, rows, fanv, token, lease, full, owed, faults>>

\* Mutant: a request that ended in an error counts as sent.
AnswerAssumed(w) ==
    /\ pc[w] = "send"
    /\ accepted' \in {accepted, accepted \cup {current[w]}}
    /\ Decide(w, current[w], "delivered")
    /\ UNCHANGED <<now, outboxv, active, rows, fanv, token, lease, full, owed, faults>>

\* A network error before the deadline: the push service may have taken the
\* notification all the same.
AnswerLost(w) ==
    /\ pc[w] = "send"
    /\ accepted' \in {accepted, accepted \cup {current[w]}}
    /\ Decide(w, current[w], "retry")
    /\ UNCHANGED <<now, outboxv, active, rows, fanv, token, lease, full, owed, faults>>

\* The deadline ends the request.  Nothing is recorded: the claim may already
\* be another worker's.
DeadlineEndsSend(w) ==
    /\ pc[w] = "send"
    /\ now >= lease[w]
    /\ accepted' \in {accepted, accepted \cup {current[w]}}
    /\ Drop(w, current[w])
    /\ UNCHANGED <<now, outboxv, active, rows, fanv, lease, full, owed, faults>>

-----------------------------------------------------------------------------
(* Results *)

\* Mutant: the fence is the token alone.
FencedByToken(w, r) == attempts[r] = token[w][r]

\* WHERE id = $1 AND claim_token = $2 AND status = 'pending'
Fenced(w, r) == status[r] = "pending" /\ attempts[r] = token[w][r]

\* Mutant: whatever the outcome is, it is stored as the status.
RecordAnything(w) ==
    /\ pc[w] = "record"
    /\ Fenced(w, current[w])
    /\ status' = [status EXCEPT ![current[w]] = outcome[w]]
    /\ lockedUntil' = [lockedUntil EXCEPT ![current[w]] = 0]
    /\ Drop(w, current[w])
    /\ UNCHANGED <<now, outboxv, active, due, attempts, fanv, lease, full, history, faults>>

\* Record commits a final outcome.  `gone` disables the destination and gives
\* up everything else committed for it and still pending.
Record(w) ==
    /\ pc[w] = "record"
    /\ outcome[w] \in Final
    /\ LET r == current[w]
           settled == IF outcome[w] = "gone"
                        THEN {s \in Rows : s[2] = r[2] /\ status[s] = "pending"}
                        ELSE {r}
       IN /\ Fenced(w, r)
          /\ status' = [s \in Rows |-> IF s \in settled THEN outcome[w] ELSE status[s]]
          /\ lockedUntil' = [s \in Rows |-> IF s \in settled THEN 0 ELSE lockedUntil[s]]
          /\ active' = IF outcome[w] = "gone" THEN active \ {r[2]} ELSE active
          /\ owed' = IF outcome[w] = "gone"
                       THEN {s \in owed : s[2] # r[2] \/ status[s] # "none"}
                       ELSE owed
          /\ Drop(w, r)
    /\ UNCHANGED <<now, outboxv, due, attempts, fanv, lease, full, accepted, faults>>

\* The token no longer matches: the result is dropped.
RecordStale(w) ==
    /\ pc[w] = "record"
    /\ ~Fenced(w, current[w])
    /\ Drop(w, current[w])
    /\ UNCHANGED <<now, outboxv, active, rows, fanv, lease, full, history, faults>>

\* Another attempt after a backoff, when it can land before the event's expiry.
Retry(w, delay) ==
    /\ pc[w] = "record"
    /\ outcome[w] = "retry"
    /\ now + delay < expiry[current[w][1]]
    /\ Fenced(w, current[w])
    /\ due' = [due EXCEPT ![current[w]] = now + delay]
    /\ lockedUntil' = [lockedUntil EXCEPT ![current[w]] = 0]
    /\ Drop(w, current[w])
    /\ UNCHANGED <<now, outboxv, active, status, attempts, fanv, lease, full, history, faults>>

\* Otherwise it is given up as expired.
GiveUp(w, delay) ==
    /\ pc[w] = "record"
    /\ outcome[w] = "retry"
    /\ now + delay >= expiry[current[w][1]]
    /\ Decide(w, current[w], "expired")
    /\ UNCHANGED <<now, outboxv, active, rows, fanv, token, lease, full, history, faults>>

\* A statement fails (connection lost, deadlock victim): it is logged only.
RecordFails(w) ==
    /\ pc[w] = "record"
    /\ now <= LastFault /\ faults < MaxFaults
    /\ faults' = faults + 1
    /\ Drop(w, current[w])
    /\ UNCHANGED <<now, outboxv, active, rows, fanv, lease, full, history>>

\* The process dies, is shut down or its cycle ends on an error: an open
\* fan-out rolls back, claims stay locked until their lease is over.
Crash(w) ==
    /\ pc[w] # "wait"
    /\ now <= LastFault /\ faults < MaxFaults
    /\ faults' = faults + 1
    /\ Goto(w, "wait")
    /\ fanning' = [fanning EXCEPT ![w] = {}]
    /\ fanned' = [fanned EXCEPT ![w] = {}]
    /\ newRows' = [newRows EXCEPT ![w] = {}]
    /\ token' = [token EXCEPT ![w] = NoClaims]
    /\ lease' = [lease EXCEPT ![w] = 0]
    /\ full' = [full EXCEPT ![w] = FALSE]
    /\ current' = [current EXCEPT ![w] = NoDelivery]
    /\ outcome' = [outcome EXCEPT ![w] = "none"]
    /\ accepted' \in IF pc[w] = "send" THEN {accepted, accepted \cup {current[w]}}
                                       ELSE {accepted}
    /\ UNCHANGED <<now, outboxv, active, rows, owed>>

\* Time passes, but not over the end of a lease a request is running under:
\* its context is cancelled there.
Tick ==
    /\ now < MaxTime
    /\ \A w \in Workers : pc[w] = "send" => now < lease[w]
    /\ now' = now + 1
    /\ UNCHANGED <<outboxv, active, rows, pc, fanv, workv, history, faults>>

\* A worker's own next step.
Step(w) ==
    \/ Wake(w)
    \/ FanOutSelect(w)
    \/ \E e \in Events : FanOutExpand(w, e)
    \/ FanOutCommit(w)
    \/ ClaimDue(w)
    \/ BatchDone(w)
    \/ \E r \in Rows : \/ FoundExpired(w, r) \/ Unsendable(w, r)
                       \/ SendStart(w, r) \/ SendTooLate(w, r)
    \/ \E o \in Outcomes : Answered(w, o)
    \/ AnswerLost(w)
    \/ DeadlineEndsSend(w)
    \/ Record(w)
    \/ RecordStale(w)
    \/ \E delay \in Delays : Retry(w, delay) \/ GiveUp(w, delay)

Next ==
    \/ \E e \in Events : WriteEvent(e)
    \/ \E t \in Dests : Resubscribe(t)
    \/ \E w \in Workers : Step(w) \/ RecordFails(w) \/ Crash(w)
    \/ Tick

Spec == Init /\ [][Next]_vars

\* The notifier's loop goes on after every error and restart, the sweep timer
\* fires whatever NOTIFY does, every request ends by its deadline, and time
\* passes.
FairSpec == Spec /\ WF_vars(Tick) /\ \A w \in Workers : WF_vars(Step(w))

-----------------------------------------------------------------------------
\* A settled delivery is never changed again: not by the worker whose lease
\* ran out, nor by another delivery's `gone`.
FinalIsFinal ==
    [][\A r \in Rows : status[r] \in Final => status'[r] = status[r]]_vars

\* No two workers have a push request for the same delivery running: a lease
\* is only taken over when the request under it has ended.
NoConcurrentSend ==
    \A v, w \in Workers :
        pc[v] = "send" /\ pc[w] = "send" /\ current[v] = current[w] => v = w

\* What is recorded as delivered was taken by the push service.
DeliveredWasAccepted ==
    \A r \in Rows : status[r] = "delivered" => r \in accepted

\* A delivery recorded as delivered is not sent again, by no worker that has
\* claimed it before.
NoResendAfterDelivered ==
    [][\A w \in Workers :
         pc'[w] = "send" /\ pc[w] # "send" => status[current'[w]] # "delivered"]_vars

\* When an event is marked dispatched, every destination owed it has a row:
\* a fan-out that crashed or ran beside another lost none.
OwedHaveRows ==
    \A r \in owed : r[1] \in dispatched => status[r] # "none"

\* Every delivery owed is settled in the end, or its destination went away
\* before the event was fanned out.
EventuallySettled ==
    \A r \in Rows : (r \in owed) ~> (r \notin owed \/ status[r] \in Final)

-----------------------------------------------------------------------------
\* ADR-0015: on 404 or 410 "the destination is soft-disabled [...] and its
\* other pending deliveries become `gone`".
GoneHasNothingPending ==
    \A r \in Rows : r[2] \notin active => status[r] # "pending"
=============================================================================
