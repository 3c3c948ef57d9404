---------------------------- MODULE Destinations ----------------------------
(***************************************************************************)
(* Destinations: browsers register for pushes, ask for tests, and are      *)
(* disabled by the notifier when their subscription is gone.               *)
(*                                                                         *)
(*   backend/app/application/destination_service.py                        *)
(*   backend/app/infrastructure/persistence/destination_uow.py             *)
(*                                                                         *)
(* A request reads in one statement and decides; its write commits later.  *)
(* The notifier is module Deliveries, whose tables this one shares: every  *)
(* step is one of Deliveries or leaves its variables alone.  The push      *)
(* service answers as the browser's subscription stands.                   *)
(***************************************************************************)
EXTENDS Deliveries

CONSTANTS
    Requests,     \* request threads of the API
    Tests,        \* the events that are tests
    TestCooldown, \* TEST_COOLDOWN
    MaxSubs,      \* bound on subscriptions of one browser
    NoRequest     \* what an idle thread is doing

TestsOf(t) == {e \in Tests : Audience[e] = {t}}

ASSUME DestinationsAssumption ==
    /\ Tests \subseteq Events
    /\ IsFiniteSet(Tests) /\ IsFiniteSet(Requests)
    /\ TestCooldown \in Nat /\ MaxSubs \in Nat
    /\ Tests \subseteq UNION {TestsOf(t) : t \in Dests}

VARIABLES
    registered,   \* destinations that have a row; the inactive ones are gone
    config,       \* the keys of each row, named by the subscription they are of
    subs,         \* per browser, the subscriptions it has made
    subscribed,   \* browsers whose latest subscription stands
    request,      \* what each thread has read and is about to write
    askedAt,      \* per test, public_events.created_at
    enrolled,     \* history: browsers whose latest subscription is registered
    overtaken     \* history: those about which a 404 or 410 was recorded since

browsers == <<subs, subscribed, enrolled, overtaken>>
destv    == <<registered, config, browsers, request, askedAt>>
destVars == <<vars, destv>>

Registrations == [dest : Dests, sub : Nat, found : {"none", "active", "gone"}]
TestRequests == [dest : Dests, at : Nat]

ASSUME NoRequestAssumption == NoRequest \notin Registrations \cup TestRequests

DestTypeOK ==
    /\ registered \subseteq Dests
    /\ active \subseteq registered
    /\ config \in [Dests -> Nat]
    /\ subs \in [Dests -> Nat]
    /\ subscribed \subseteq Dests
    /\ request \in [Requests -> Registrations \cup TestRequests \cup {NoRequest}]
    /\ askedAt \in [Tests -> Nat]
    /\ enrolled \subseteq subscribed
    /\ overtaken \subseteq subscribed

\* Nobody has registered yet.
DestInit ==
    /\ InitWith({})
    /\ registered = {}
    /\ config = [t \in Dests |-> 0]
    /\ subs = [t \in Dests |-> 0]
    /\ subscribed = {} /\ enrolled = {} /\ overtaken = {}
    /\ request = [p \in Requests |-> NoRequest]
    /\ askedAt = [e \in Tests |-> 0]

-----------------------------------------------------------------------------
\* The browser subscribes with the push service, for the same endpoint; the
\* subscription ends, when the permission is withdrawn or it is forgotten.
Subscribe(t) ==
    /\ t \notin subscribed
    /\ subs[t] < MaxSubs
    /\ subs' = [subs EXCEPT ![t] = @ + 1]
    /\ subscribed' = subscribed \cup {t}
    /\ UNCHANGED <<vars, registered, config, enrolled, overtaken, request, askedAt>>

Unsubscribe(t) ==
    /\ t \in subscribed
    /\ subscribed' = subscribed \ {t}
    /\ enrolled' = enrolled \ {t}
    /\ overtaken' = overtaken \ {t}
    /\ UNCHANGED <<vars, registered, config, subs, request, askedAt>>

-----------------------------------------------------------------------------
\* register_web_push: the SELECT by address.
RegisterRead(p, t) ==
    /\ request[p] = NoRequest
    /\ t \in subscribed
    /\ request' = [request EXCEPT ![p] =
                     [dest |-> t, sub |-> subs[t],
                      found |-> IF t \notin registered THEN "none"
                                ELSE IF t \in active THEN "active" ELSE "gone"]]
    /\ UNCHANGED <<vars, registered, config, browsers, askedAt>>

\* Mutant: a destination that is gone only gets its keys refreshed.
ActivatesIfNew(found) == found = "none"

\* A new row is active; `reactivate` is what the SELECT found.
Activates(found) == found \in {"none", "gone"}

\* Mutant: the row is taken to be there.
RegisterWriteUpdates(p) ==
    /\ request[p] \in Registrations
    /\ LET t == request[p].dest IN
         /\ config' = [config EXCEPT ![t] = request[p].sub]
         /\ IF Activates(request[p].found) /\ t \notin active
            THEN Resubscribe(t) ELSE UNCHANGED vars
         /\ enrolled' = IF t \in subscribed /\ request[p].sub = subs[t]
                        THEN enrolled \cup {t} ELSE enrolled
    /\ request' = [request EXCEPT ![p] = NoRequest]
    /\ UNCHANGED <<registered, subs, subscribed, overtaken, askedAt>>

\* The INSERT, or the UPDATE by id of the keys and of what disabled it, and the
\* commit.
RegisterWrite(p) ==
    /\ request[p] \in Registrations
    /\ LET t == request[p].dest
           found == request[p].found
       IN  /\ found = "none" => t \notin registered
           /\ registered' = registered \cup {t}
           /\ config' = [config EXCEPT ![t] = request[p].sub]
           /\ IF Activates(found) /\ t \notin active THEN Resubscribe(t) ELSE UNCHANGED vars
           /\ enrolled' = IF t \in subscribed /\ request[p].sub = subs[t]
                          THEN enrolled \cup {t} ELSE enrolled
    /\ request' = [request EXCEPT ![p] = NoRequest]
    /\ UNCHANGED <<subs, subscribed, overtaken, askedAt>>

\* The INSERT of an address another request has registered meanwhile violates
\* its uniqueness; any request may fail, and has changed nothing.
RequestFails(p) ==
    /\ request[p] # NoRequest
    /\ request' = [request EXCEPT ![p] = NoRequest]
    /\ UNCHANGED <<vars, registered, config, browsers, askedAt>>

-----------------------------------------------------------------------------
\* Mutant: a test counts once the notifier has fanned it out.
CooledSinceDispatched(t) ==
    \A e \in TestsOf(t) : e \in dispatched => askedAt[e] + TestCooldown <= now

\* latest_test_requested_at lies the cooldown back, if there has been a test.
CooledDown(t) ==
    \A e \in TestsOf(t) : expiry[e] > 0 => askedAt[e] + TestCooldown <= now

\* send_test reads the clock, the destination and its latest test.  A request
\* it refuses changes nothing.
TestCheck(p, t) ==
    /\ request[p] = NoRequest
    /\ t \in active
    /\ CooledDown(t)
    /\ request' = [request EXCEPT ![p] = [dest |-> t, at |-> now]]
    /\ UNCHANGED <<vars, registered, config, browsers, askedAt>>

\* The event is inserted and committed; its created_at is the transaction's.
TestWrite(p) ==
    /\ request[p] \in TestRequests
    /\ \E e \in TestsOf(request[p].dest) :
         /\ WriteEvent(e)
         /\ askedAt' = [askedAt EXCEPT ![e] = request[p].at]
    /\ request' = [request EXCEPT ![p] = NoRequest]
    /\ UNCHANGED <<registered, config, browsers>>

-----------------------------------------------------------------------------
\* The push service takes a message for a subscription that stands, and answers
\* 404 or 410 only for one that does not.
AnswersTrue(w) ==
    pc[w] = "send" /\ pc'[w] = "record" =>
      /\ outcome'[w] = "delivered" => current[w][2] \in subscribed
      /\ outcome'[w] = "gone" => current[w][2] \notin subscribed

\* The destinations a result that is recorded disables.
Disabled == active \ active'

NotifierStep(w) ==
    /\ Step(w) \/ RecordFails(w) \/ Crash(w)
    /\ AnswersTrue(w)
    /\ overtaken' = overtaken \cup (Disabled \cap subscribed)
    /\ UNCHANGED <<registered, config, subs, subscribed, enrolled, request, askedAt>>

OtherEvent ==
    /\ \E e \in Events \ Tests : WriteEvent(e)
    /\ UNCHANGED destv

TimePasses == Tick /\ UNCHANGED destv

DestNext ==
    \/ \E t \in Dests : Subscribe(t) \/ Unsubscribe(t)
    \/ \E p \in Requests :
         \/ \E t \in Dests : RegisterRead(p, t) \/ TestCheck(p, t)
         \/ RegisterWrite(p)
         \/ TestWrite(p)
         \/ RequestFails(p)
    \/ \E w \in Workers : NotifierStep(w)
    \/ OtherEvent
    \/ TimePasses

DestSpec == DestInit /\ [][DestNext]_destVars

-----------------------------------------------------------------------------
\* A browser that has registered the subscription it holds is active, unless a
\* 404 or 410 for an earlier subscription was recorded after this one began:
\* whatever requests and results for the destination cross each other, none
\* else can disable it or keep it disabled.
EnrolledIsActive ==
    \A t \in enrolled : t \in active \/ t \in overtaken

\* The tests of a destination asked for within one cooldown from `start`.
TestsWithin(t, start) ==
    {e \in TestsOf(t) : /\ expiry[e] > 0
                        /\ askedAt[e] >= start
                        /\ askedAt[e] < start + TestCooldown}

\* What the cooldown does bound: within one of them a destination gets no more
\* tests than the API has threads, for only those whose checks overlap slip
\* through together, and a thread that has sent its test is refused the next
\* (destination_service.py:87-101).  One test per window is more than the code
\* keeps: OneTestPerWindow.
TestBurstBounded ==
    \A t \in Dests : \A start \in 0..now :
        Cardinality(TestsWithin(t, start)) <= Cardinality(Requests)

-----------------------------------------------------------------------------
\* A claim of a comment that the code does not keep.

\* destination_service.py:12-13: "One test per destination per window. A test
\* is a real push through the real pipeline, so a held-down button must not
\* become a burst at the push service."  Two requests that both read the latest
\* test before either has written its own both find the cooldown over.
OneTestPerWindow ==
    \A t \in Dests : \A start \in 0..now :
        Cardinality(TestsWithin(t, start)) <= 1
=============================================================================
