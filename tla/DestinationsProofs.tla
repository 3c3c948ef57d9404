------------------------- MODULE DestinationsProofs -------------------------
(***************************************************************************)
(* What registering and testing promise, for any browsers, workers, tests, *)
(* requests and cooldown.                                                  *)
(*                                                                         *)
(* Every step here is a step of Deliveries or leaves its variables alone,  *)
(* so the notifier's invariant comes with it.  Of registrations: what one  *)
(* read as active stays so, or is overtaken by a late result (ReadsKept).  *)
(* Of tests: those written and those checked and not yet written are no    *)
(* more than the threads, in every window (TestsCounted); a thread that    *)
(* passes the check finds none written in the windows it adds to.          *)
(***************************************************************************)
EXTENDS Destinations, DeliveriesProofs, FiniteSetTheorems

ReadsKept ==
    \A p \in Requests :
        LET t == request[p].dest IN
          request[p] \in Registrations =>
             /\ request[p].sub <= subs[t]
             /\ /\ request[p].found = "active"
                /\ t \in subscribed /\ request[p].sub = subs[t]
                => t \in active \/ t \in overtaken
             /\ request[p].found # "none" => t \in registered

InWindow(at, start) == at >= start /\ at < start + TestCooldown

Written(t, start) == {e \in TestsOf(t) : expiry[e] > 0 /\ InWindow(askedAt[e], start)}

Pending(t, start) ==
    {p \in Requests : /\ request[p] \in TestRequests
                      /\ request[p].dest = t
                      /\ InWindow(request[p].at, start)}

TestsCounted ==
    \A t \in Dests : \A start \in Nat :
        Cardinality(Written(t, start)) + Cardinality(Pending(t, start))
          <= Cardinality(Requests)

DestInv ==
    /\ IInv
    /\ DestTypeOK
    /\ ReadsKept
    /\ EnrolledIsActive
    /\ TestsCounted

-----------------------------------------------------------------------------
\* The two kinds of request are told apart by their fields.
LEMMA RequestKinds ==
  ASSUME NEW r
  PROVE  /\ ~(r \in Registrations /\ r \in TestRequests)
         /\ r = NoRequest => r \notin Registrations /\ r \notin TestRequests
         /\ r \in Registrations => r.dest \in Dests /\ r.sub \in Nat
         /\ r \in TestRequests => r.dest \in Dests /\ r.at \in Nat
<1>1. r \in Registrations => DOMAIN r = {"dest", "sub", "found"}
  BY DEF Registrations
<1>2. r \in TestRequests => DOMAIN r = {"dest", "at"}
  BY DEF TestRequests
<1>3. {"dest", "sub", "found"} # {"dest", "at"}
  OBVIOUS
<1>4. ~(r \in Registrations /\ r \in TestRequests)
  BY <1>1, <1>2, <1>3
<1>. QED
  BY <1>4, NoRequestAssumption DEF NoRequestAssumption, Registrations, TestRequests

\* The sets that are counted are finite.
LEMMA Finite ==
  ASSUME NEW t \in Dests, NEW start \in Nat
  PROVE  /\ IsFiniteSet(Written(t, start)) /\ Cardinality(Written(t, start)) \in Nat
         /\ IsFiniteSet(Pending(t, start)) /\ Cardinality(Pending(t, start)) \in Nat
         /\ Cardinality(Requests) \in Nat
         /\ Cardinality(Pending(t, start)) <= Cardinality(Requests)
<1>1. IsFiniteSet(Tests) /\ IsFiniteSet(Requests)
  BY DestinationsAssumption DEF DestinationsAssumption
<1>2. Written(t, start) \subseteq Tests /\ Pending(t, start) \subseteq Requests
  BY DEF Written, TestsOf, Pending
<1>. QED
  BY <1>1, <1>2, FS_Subset, FS_CardinalityType

\* What the notifier does writes no event and registers nobody.
LEMMA NotifierFrame ==
  ASSUME NEW w \in Workers, Step(w) \/ RecordFails(w) \/ Crash(w)
  PROVE  expiry' = expiry /\ active' \subseteq active
<1>. USE DEF outboxv
<1>1. CASE Wake(w) \/ FanOutSelect(w) \/ FanOutCommit(w) \/ ClaimDue(w) \/ BatchDone(w)
  BY <1>1 DEF Wake, FanOutSelect, FanOutCommit, ClaimDue, BatchDone
<1>2. ASSUME NEW e \in Events, FanOutExpand(w, e) PROVE expiry' = expiry /\ active' = active
  BY <1>2 DEF FanOutExpand
<1>3. ASSUME NEW r \in Rows,
             \/ FoundExpired(w, r) \/ Unsendable(w, r) \/ SendStart(w, r) \/ SendTooLate(w, r)
      PROVE  expiry' = expiry /\ active' = active
  BY <1>3 DEF FoundExpired, Unsendable, SendStart, SendTooLate
<1>4. ASSUME NEW o \in Outcomes, Answered(w, o) PROVE expiry' = expiry /\ active' = active
  BY <1>4 DEF Answered
<1>5. CASE AnswerLost(w) \/ DeadlineEndsSend(w) \/ RecordStale(w) \/ RecordFails(w) \/ Crash(w)
  BY <1>5 DEF AnswerLost, DeadlineEndsSend, RecordStale, RecordFails, Crash
<1>6. ASSUME NEW delay \in Delays, Retry(w, delay) \/ GiveUp(w, delay)
      PROVE  expiry' = expiry /\ active' = active
  BY <1>6 DEF Retry, GiveUp
<1>7. CASE Record(w)
  BY <1>7 DEF Record
<1>. QED
  BY <1>1, <1>2, <1>3, <1>4, <1>5, <1>6, <1>7 DEF Step

\* Every step is one of Deliveries, or leaves its variables alone.
LEMMA StepsOfDeliveries ==
  ASSUME [DestNext]_destVars
  PROVE  [Next]_vars
<1>1. ASSUME NEW p \in Requests, RegisterWrite(p) PROVE [Next]_vars
  <2>1. CASE request[p].dest \in Dests /\ Resubscribe(request[p].dest)
    BY <2>1 DEF Next
  <2>2. request[p].dest \in Dests
    BY <1>1, RequestKinds DEF RegisterWrite
  <2>. QED
    BY <1>1, <2>1, <2>2 DEF RegisterWrite
<1>2. ASSUME NEW p \in Requests, TestWrite(p) PROVE [Next]_vars
  BY <1>2, DestinationsAssumption DEF DestinationsAssumption, TestWrite, TestsOf, Next
<1>3. ASSUME NEW w \in Workers, NotifierStep(w) PROVE [Next]_vars
  BY <1>3 DEF NotifierStep, Next
<1>4. CASE OtherEvent \/ TimePasses
  BY <1>4 DEF OtherEvent, TimePasses, Next
<1>5. ASSUME NEW t \in Dests, Subscribe(t) \/ Unsubscribe(t) PROVE [Next]_vars
  BY <1>5 DEF Subscribe, Unsubscribe
<1>6. ASSUME NEW p \in Requests,
             RequestFails(p) \/ \E t \in Dests : RegisterRead(p, t) \/ TestCheck(p, t)
      PROVE  [Next]_vars
  BY <1>6 DEF RequestFails, RegisterRead, TestCheck
<1>7. CASE UNCHANGED destVars
  BY <1>7 DEF destVars
<1>. QED
  BY <1>1, <1>2, <1>3, <1>4, <1>5, <1>6, <1>7 DEF DestNext

-----------------------------------------------------------------------------
\* A step that writes and checks no test keeps the count.
LEMMA CountUndisturbed ==
  ASSUME TestsCounted, UNCHANGED <<expiry, askedAt>>,
         \A p \in Requests : request'[p] = request[p] \/ request'[p] \notin TestRequests
  PROVE  TestsCounted'
<1> SUFFICES ASSUME NEW t \in Dests, NEW start \in Nat
             PROVE  Cardinality(Written(t, start)') + Cardinality(Pending(t, start)')
                      <= Cardinality(Requests)
  BY DEF TestsCounted
<1>1. Written(t, start)' = Written(t, start)
  BY DEF Written, TestsOf, InWindow
<1>2. Pending(t, start)' \subseteq Pending(t, start)
  BY DEF Pending, InWindow
<1>3. /\ Cardinality(Pending(t, start)') <= Cardinality(Pending(t, start))
      /\ Cardinality(Pending(t, start)') \in Nat
  BY <1>2, Finite, FS_Subset, FS_CardinalityType
<1>. QED
  BY <1>1, <1>3, Finite DEF TestsCounted

\* A request that passes the check adds to windows without a written test.
LEMMA CheckCounted ==
  ASSUME DestInv, NEW p \in Requests, NEW u \in Dests, TestCheck(p, u)
  PROVE  TestsCounted'
<1> SUFFICES ASSUME NEW t \in Dests, NEW start \in Nat
             PROVE  Cardinality(Written(t, start)') + Cardinality(Pending(t, start)')
                      <= Cardinality(Requests)
  BY DEF TestsCounted
<1>1. now \in Nat /\ TestCooldown \in Nat /\ \A e \in Tests : askedAt[e] \in Nat
  BY BoundsAssumption, DestinationsAssumption
     DEF BoundsAssumption, DestinationsAssumption, DestInv, DestTypeOK, IInv, TypeOK
<1>2. Written(t, start)' = Written(t, start)
  BY DEF Written, TestsOf, InWindow, TestCheck, vars, outboxv
<1>3. IsFiniteSet(Requests) /\ Pending(t, start)' \subseteq Requests
  BY DestinationsAssumption DEF DestinationsAssumption, Pending
<1>4. Cardinality(Pending(t, start)') \in Nat
      /\ Cardinality(Pending(t, start)') <= Cardinality(Requests)
  BY <1>3, FS_Subset, FS_CardinalityType
<1>5. CASE t = u /\ InWindow(now, start)
  <2>1. Written(t, start) = {}
    BY <1>1, <1>5 DEF Written, TestsOf, InWindow, TestCheck, CooledDown
  <2>2. Cardinality(Written(t, start)') = 0
    BY <1>2, <2>1, FS_EmptySet
  <2>. QED
    BY <1>4, <2>2, Finite
<1>6. CASE ~(t = u /\ InWindow(now, start))
  <2>1. \A q \in Requests : q # p => request'[q] = request[q]
    BY DEF TestCheck, DestInv, DestTypeOK
  <2>2. request'[p].dest = u /\ request'[p].at = now
    BY DEF TestCheck, DestInv, DestTypeOK
  <2>3. Pending(t, start)' \subseteq Pending(t, start)
    BY <1>6, <2>1, <2>2 DEF Pending, InWindow
  <2>4. Cardinality(Pending(t, start)') <= Cardinality(Pending(t, start))
    BY <2>3, Finite, FS_Subset
  <2>. QED
    BY <1>2, <1>4, <2>4, Finite DEF DestInv, TestsCounted
<1>. QED
  BY <1>5, <1>6

\* A test that is written was pending in the same windows.
LEMMA WriteCounted ==
  ASSUME DestInv, NEW p \in Requests, TestWrite(p)
  PROVE  TestsCounted'
<1> SUFFICES ASSUME NEW t \in Dests, NEW start \in Nat
             PROVE  Cardinality(Written(t, start)') + Cardinality(Pending(t, start)')
                      <= Cardinality(Requests)
  BY DEF TestsCounted
<1>1. PICK e \in TestsOf(request[p].dest) :
         WriteEvent(e) /\ askedAt' = [askedAt EXCEPT ![e] = request[p].at]
  BY DEF TestWrite
<1>2. /\ request[p] \in TestRequests /\ request[p].dest \in Dests /\ request[p].at \in Nat
      /\ request' = [request EXCEPT ![p] = NoRequest]
      /\ e \in Tests /\ e \in Events
  BY <1>1, RequestKinds, DestinationsAssumption
     DEF DestinationsAssumption, TestWrite, TestsOf
<1>3. /\ expiry[e] = 0
      /\ \A f \in Events : f # e => expiry'[f] = expiry[f]
      /\ \A f \in Tests : f # e => askedAt'[f] = askedAt[f]
      /\ askedAt'[e] = request[p].at
  BY <1>1, <1>2 DEF WriteEvent, DestInv, DestTypeOK, IInv, TypeOK
<1>4. /\ \A q \in Requests : q # p => request'[q] = request[q]
      /\ request'[p] \notin TestRequests
  BY <1>2, RequestKinds DEF DestInv, DestTypeOK
<1>5. Pending(t, start)' = Pending(t, start) \ {p}
  BY <1>4 DEF Pending, InWindow
<1>6. e \notin Written(t, start)
  BY <1>3 DEF Written
<1>7. CASE p \in Pending(t, start)
  <2>1. Written(t, start)' \subseteq Written(t, start) \cup {e}
    BY <1>2, <1>3, DestinationsAssumption
       DEF DestinationsAssumption, Written, TestsOf, InWindow
  <2>2. /\ IsFiniteSet(Written(t, start) \cup {e})
        /\ Cardinality(Written(t, start) \cup {e}) = Cardinality(Written(t, start)) + 1
    BY <1>6, Finite, FS_AddElement
  <2>3. /\ Cardinality(Written(t, start)') \in Nat
        /\ Cardinality(Written(t, start)') <= Cardinality(Written(t, start)) + 1
    BY <2>1, <2>2, FS_Subset, FS_CardinalityType
  <2>4. Cardinality(Pending(t, start)') = Cardinality(Pending(t, start)) - 1
    BY <1>5, <1>7, Finite, FS_RemoveElement
  <2>. QED
    BY <2>3, <2>4, Finite DEF DestInv, TestsCounted
<1>8. CASE p \notin Pending(t, start)
  <2>1. ~(request[p].dest = t /\ InWindow(request[p].at, start))
    BY <1>2, <1>8 DEF Pending
  <2>2. e \in TestsOf(t) => request[p].dest = t
    BY <1>1 DEF TestsOf
  <2>3. Written(t, start)' \subseteq Written(t, start)
    BY <1>2, <1>3, <2>1, <2>2, DestinationsAssumption
       DEF DestinationsAssumption, Written, TestsOf, InWindow
  <2>4. /\ Cardinality(Written(t, start)') \in Nat
        /\ Cardinality(Written(t, start)') <= Cardinality(Written(t, start))
    BY <2>3, Finite, FS_Subset, FS_CardinalityType
  <2>5. Pending(t, start)' = Pending(t, start)
    BY <1>5, <1>8
  <2>. QED
    BY <2>4, <2>5, Finite DEF DestInv, TestsCounted
<1>. QED
  BY <1>7, <1>8

-----------------------------------------------------------------------------
(* What every step keeps besides: the types, what registrations have read, and
   that an enrolled destination is active or overtaken. *)
Kept == DestTypeOK' /\ ReadsKept' /\ EnrolledIsActive'

\* A new subscription is a later one than any that was read.
LEMMA SubscribeKept ==
  ASSUME DestInv, NEW u \in Dests, Subscribe(u)
  PROVE  Kept
<1> USE DEF DestInv, Subscribe, vars
<1>1. DestTypeOK'
  BY DEF DestTypeOK
<1>2. ReadsKept'
  <2> SUFFICES ASSUME NEW p \in Requests, request[p] \in Registrations
               PROVE  LET t == request[p].dest IN
                        /\ request[p].sub <= subs'[t]
                        /\ /\ request[p].found = "active"
                           /\ t \in subscribed' /\ request[p].sub = subs'[t]
                           => t \in active \/ t \in overtaken
                        /\ request[p].found # "none" => t \in registered
    BY DEF ReadsKept
  <2>1. request[p].dest \in Dests /\ request[p].sub \in Nat
    BY RequestKinds
  <2>2. subs[request[p].dest] \in Nat /\ subs[u] \in Nat
    BY <2>1 DEF DestTypeOK
  <2>3. subs'[request[p].dest] =
          IF request[p].dest = u THEN subs[u] + 1 ELSE subs[request[p].dest]
    BY <2>1 DEF DestTypeOK
  <2>4. request[p].dest # u /\ request[p].dest \in subscribed'
          => request[p].dest \in subscribed
    OBVIOUS
  <2>. QED
    BY <2>1, <2>2, <2>3, <2>4 DEF ReadsKept
<1>3. EnrolledIsActive'
  BY DEF EnrolledIsActive
<1>. QED
  BY <1>1, <1>2, <1>3 DEF Kept

\* A subscription that has ended is nobody's to expect anything of.
LEMMA UnsubscribeKept ==
  ASSUME DestInv, NEW u \in Dests, Unsubscribe(u)
  PROVE  Kept
<1> USE DEF DestInv, Unsubscribe, vars
<1>1. DestTypeOK'
  BY DEF DestTypeOK
<1>2. ReadsKept'
  BY DEF ReadsKept
<1>3. EnrolledIsActive'
  BY DEF EnrolledIsActive
<1>. QED
  BY <1>1, <1>2, <1>3 DEF Kept

\* What a registration reads is true of the state it reads.
LEMMA RegisterReadKept ==
  ASSUME DestInv, NEW p \in Requests, NEW u \in Dests, RegisterRead(p, u)
  PROVE  Kept
<1> USE DEF DestInv, RegisterRead, vars, browsers
<1> DEFINE r == [dest |-> u, sub |-> subs[u],
                 found |-> IF u \notin registered THEN "none"
                           ELSE IF u \in active THEN "active" ELSE "gone"]
<1>1. subs[u] \in Nat /\ active \subseteq registered
  BY DEF DestTypeOK
<1>2. r \in Registrations /\ r.dest = u /\ r.sub = subs[u]
      /\ (r.found = "active" => u \in active) /\ (r.found # "none" => u \in registered)
  BY <1>1 DEF Registrations
<1>3. request' = [request EXCEPT ![p] = r]
  OBVIOUS
<1>. HIDE DEF r
<1>4. DestTypeOK'
  BY <1>2, <1>3 DEF DestTypeOK
<1>5. \A q \in Requests : request'[q] = IF q = p THEN r ELSE request[q]
  BY <1>3 DEF DestTypeOK
<1>6. ReadsKept'
  BY <1>1, <1>2, <1>5 DEF ReadsKept
<1>7. EnrolledIsActive'
  BY DEF EnrolledIsActive
<1>. QED
  BY <1>4, <1>6, <1>7 DEF Kept

\* The write activates what was read as new or gone; what was read as active is
\* active still, or overtaken.
LEMMA RegisterWriteKept ==
  ASSUME DestInv, NEW p \in Requests, RegisterWrite(p)
  PROVE  Kept
<1> DEFINE u == request[p].dest
<1>1. u \in Dests /\ request[p].sub \in Nat /\ request[p] \in Registrations
  BY RequestKinds DEF RegisterWrite
<1>2. /\ registered' = registered \cup {u}
      /\ config' = [config EXCEPT ![u] = request[p].sub]
      /\ enrolled' = IF u \in subscribed /\ request[p].sub = subs[u]
                     THEN enrolled \cup {u} ELSE enrolled
      /\ request' = [request EXCEPT ![p] = NoRequest]
      /\ UNCHANGED <<subs, subscribed, overtaken, askedAt>>
  BY DEF RegisterWrite
<1>3. IF Activates(request[p].found) /\ u \notin active
        THEN active' = active \cup {u} ELSE active' = active
  BY DEF RegisterWrite, Resubscribe, vars
<1>4. DestTypeOK'
  BY <1>1, <1>2, <1>3 DEF DestInv, DestTypeOK
<1>5. active \subseteq active' /\ registered \subseteq registered'
  BY <1>2, <1>3
<1>6. \A q \in Requests : q # p => request'[q] = request[q]
  BY <1>2 DEF DestInv, DestTypeOK
<1>7. request'[p] \notin Registrations
  BY <1>2, RequestKinds DEF DestInv, DestTypeOK
<1>8. ReadsKept'
  BY <1>2, <1>5, <1>6, <1>7 DEF DestInv, ReadsKept
<1>9. u \in enrolled' => u \in active' \/ u \in overtaken'
  <2>1. CASE Activates(request[p].found)
    BY <2>1, <1>3
  <2>2. CASE ~Activates(request[p].found)
    <3>1. request[p].found = "active"
      BY <2>2, <1>1 DEF Activates, Registrations
    <3>. QED
      BY <3>1, <1>1, <1>2, <1>5 DEF DestInv, ReadsKept, EnrolledIsActive
  <2>. QED
    BY <2>1, <2>2
<1>10. EnrolledIsActive'
  BY <1>2, <1>5, <1>9 DEF DestInv, EnrolledIsActive
<1>. QED
  BY <1>4, <1>8, <1>10 DEF Kept

\* Tests and requests that end do not touch registrations.
LEMMA OtherRequestsKept ==
  ASSUME DestInv, NEW p \in Requests,
         RequestFails(p) \/ TestWrite(p) \/ \E u \in Dests : TestCheck(p, u)
  PROVE  Kept
<1>1. UNCHANGED <<registered, config, subs, subscribed, enrolled, overtaken, active>>
  BY DEF RequestFails, TestWrite, TestCheck, WriteEvent, vars, browsers
<1>2. PICK r \in TestRequests \cup {NoRequest} : request' = [request EXCEPT ![p] = r]
  <2>1. now \in Nat
    BY BoundsAssumption DEF BoundsAssumption, DestInv, IInv, TypeOK
  <2>2. \A u \in Dests : [dest |-> u, at |-> now] \in TestRequests
    BY <2>1 DEF TestRequests
  <2>. QED
    BY <2>2 DEF RequestFails, TestWrite, TestCheck
<1>3. askedAt' \in [Tests -> Nat]
  <2>1. CASE UNCHANGED askedAt
    BY <2>1 DEF DestInv, DestTypeOK
  <2>2. CASE TestWrite(p)
    BY <2>2, RequestKinds DEF TestWrite, DestInv, DestTypeOK
  <2>. QED
    BY <2>1, <2>2 DEF RequestFails, TestCheck
<1>4. DestTypeOK'
  BY <1>1, <1>2, <1>3 DEF DestInv, DestTypeOK
<1>5. r \notin Registrations
  BY RequestKinds
<1>6. \A q \in Requests : request'[q] = IF q = p THEN r ELSE request[q]
  BY <1>2 DEF DestInv, DestTypeOK
<1>7. ReadsKept'
  BY <1>1, <1>5, <1>6 DEF DestInv, ReadsKept
<1>8. EnrolledIsActive'
  BY <1>1 DEF DestInv, EnrolledIsActive
<1>. QED
  BY <1>4, <1>7, <1>8 DEF Kept

\* The notifier disables destinations; those subscribed are overtaken.
LEMMA NotifierKept ==
  ASSUME DestInv, NEW w \in Workers, NotifierStep(w)
  PROVE  Kept /\ expiry' = expiry
<1>1. expiry' = expiry /\ active' \subseteq active
  BY NotifierFrame DEF NotifierStep
<1>2. /\ overtaken' = overtaken \cup ((active \ active') \cap subscribed)
      /\ UNCHANGED <<registered, config, subs, subscribed, enrolled, request, askedAt>>
  BY DEF NotifierStep, Disabled
<1>3. DestTypeOK'
  BY <1>1, <1>2 DEF DestInv, DestTypeOK
<1>4. \A t \in subscribed : t \in active \/ t \in overtaken => t \in active' \/ t \in overtaken'
  BY <1>2
<1>5. ReadsKept'
  BY <1>2, <1>4 DEF DestInv, ReadsKept
<1>6. EnrolledIsActive'
  BY <1>2, <1>4 DEF DestInv, DestTypeOK, EnrolledIsActive
<1>. QED
  BY <1>1, <1>3, <1>5, <1>6 DEF Kept

\* Other events and the clock leave destinations alone.
LEMMA BystandersKept ==
  ASSUME DestInv, OtherEvent \/ TimePasses \/ UNCHANGED destVars
  PROVE  Kept
<1>1. UNCHANGED destv /\ UNCHANGED active
  BY DEF OtherEvent, TimePasses, destVars, WriteEvent, Tick, vars
<1>. QED
  BY <1>1 DEF destv, browsers, Kept, DestInv, DestTypeOK, ReadsKept, EnrolledIsActive

\* An event that is no test is in no window.
LEMMA OtherEventCounted ==
  ASSUME DestInv, OtherEvent
  PROVE  TestsCounted'
<1>1. PICK f \in Events \ Tests : WriteEvent(f) /\ UNCHANGED destv
  BY DEF OtherEvent
<1>2. \A e \in Tests : expiry'[e] = expiry[e]
  BY <1>1, DestinationsAssumption
     DEF DestinationsAssumption, WriteEvent, DestInv, IInv, TypeOK
<1>3. \A t \in Dests, start \in Nat : Written(t, start)' = Written(t, start)
  BY <1>1, <1>2 DEF destv, Written, TestsOf, InWindow
<1>4. \A t \in Dests, start \in Nat : Pending(t, start)' = Pending(t, start)
  BY <1>1 DEF destv, Pending, InWindow
<1>. QED
  BY <1>3, <1>4 DEF DestInv, TestsCounted

-----------------------------------------------------------------------------
\* Nobody has registered, no test is written or checked.
LEMMA InitDestInv ==
  ASSUME DestInit
  PROVE  DestInv
<1>1. IInv
  BY InitIInv DEF DestInit
<1>2. DestTypeOK
  BY DEF DestInit, InitWith, DestTypeOK
<1>3. \A p \in Requests : request[p] = NoRequest
  BY DEF DestInit
<1>4. ReadsKept
  BY <1>3, NoRequestAssumption DEF NoRequestAssumption, ReadsKept
<1>5. EnrolledIsActive
  BY DEF DestInit, EnrolledIsActive
<1>6. TestsCounted
  <2> SUFFICES ASSUME NEW t \in Dests, NEW start \in Nat
               PROVE  Cardinality(Written(t, start)) + Cardinality(Pending(t, start))
                        <= Cardinality(Requests)
    BY DEF TestsCounted
  <2>1. \A e \in Tests : expiry[e] = 0
    BY DestinationsAssumption DEF DestinationsAssumption, DestInit, InitWith
  <2>2. Written(t, start) = {}
    BY <2>1 DEF Written, TestsOf
  <2>3. Cardinality(Written(t, start)) = 0
    BY <2>2, FS_EmptySet
  <2>. QED
    BY <2>3, Finite
<1>. QED
  BY <1>1, <1>2, <1>4, <1>5, <1>6 DEF DestInv

\* Every step keeps the invariant.
LEMMA NextDestInv ==
  ASSUME DestInv, [DestNext]_destVars
  PROVE  DestInv'
<1>1. IInv'
  BY StepsOfDeliveries, NextIInv DEF DestInv
<1>2. ASSUME NEW t \in Dests, Subscribe(t) \/ Unsubscribe(t) PROVE Kept /\ TestsCounted'
  <2>1. UNCHANGED <<expiry, askedAt, request>>
    BY <1>2 DEF Subscribe, Unsubscribe, vars, outboxv
  <2>2. TestsCounted'
    BY <2>1, CountUndisturbed DEF DestInv
  <2>. QED
    BY <1>2, <2>2, SubscribeKept, UnsubscribeKept
<1>3. ASSUME NEW p \in Requests, NEW t \in Dests, RegisterRead(p, t)
      PROVE  Kept /\ TestsCounted'
  <2>1. UNCHANGED <<expiry, askedAt>>
    BY <1>3 DEF RegisterRead, vars, outboxv
  <2>2. [dest |-> t, sub |-> subs[t],
         found |-> IF t \notin registered THEN "none"
                   ELSE IF t \in active THEN "active" ELSE "gone"] \in Registrations
    BY DEF Registrations, DestInv, DestTypeOK
  <2>3. request'[p] \in Registrations /\ \A q \in Requests : q # p => request'[q] = request[q]
    BY <1>3, <2>2 DEF RegisterRead, DestInv, DestTypeOK
  <2>4. \A q \in Requests : request'[q] = request[q] \/ request'[q] \notin TestRequests
    BY <2>3, RequestKinds
  <2>5. TestsCounted'
    BY <2>1, <2>4, CountUndisturbed DEF DestInv
  <2>. QED
    BY <1>3, <2>5, RegisterReadKept
<1>4. ASSUME NEW p \in Requests, RegisterWrite(p) \/ RequestFails(p)
      PROVE  Kept /\ TestsCounted'
  <2>1. /\ UNCHANGED <<expiry, askedAt>>
        /\ request' = [request EXCEPT ![p] = NoRequest]
    BY <1>4 DEF RegisterWrite, RequestFails, Resubscribe, vars, outboxv
  <2>2. \A q \in Requests : request'[q] = request[q] \/ request'[q] \notin TestRequests
    BY <2>1, RequestKinds DEF DestInv, DestTypeOK
  <2>3. TestsCounted'
    BY <2>1, <2>2, CountUndisturbed DEF DestInv
  <2>. QED
    BY <1>4, <2>3, RegisterWriteKept, OtherRequestsKept
<1>5. ASSUME NEW p \in Requests, NEW t \in Dests, TestCheck(p, t)
      PROVE  Kept /\ TestsCounted'
  BY <1>5, CheckCounted, OtherRequestsKept
<1>6. ASSUME NEW p \in Requests, TestWrite(p)
      PROVE  Kept /\ TestsCounted'
  BY <1>6, WriteCounted, OtherRequestsKept
<1>7. ASSUME NEW w \in Workers, NotifierStep(w)
      PROVE  Kept /\ TestsCounted'
  <2>1. UNCHANGED <<expiry, askedAt, request>>
    BY <1>7, NotifierKept DEF NotifierStep
  <2>2. TestsCounted'
    BY <2>1, CountUndisturbed DEF DestInv
  <2>. QED
    BY <1>7, <2>2, NotifierKept
<1>8. CASE OtherEvent
  BY <1>1, <1>8, BystandersKept, OtherEventCounted DEF Kept, DestInv
<1>9. CASE TimePasses \/ UNCHANGED destVars
  <2>1. UNCHANGED <<expiry, askedAt, request>>
    BY <1>9 DEF TimePasses, Tick, destv, destVars, vars, outboxv
  <2>2. TestsCounted'
    BY <2>1, CountUndisturbed DEF DestInv
  <2>. QED
    BY <1>1, <1>9, <2>2, BystandersKept DEF Kept, DestInv
<1>. QED
  BY <1>1, <1>2, <1>3, <1>4, <1>5, <1>6, <1>7, <1>8, <1>9 DEF Kept, DestInv, DestNext

-----------------------------------------------------------------------------
\* The inductive invariant of registrations, tests and the notifier together.
THEOREM DestInvariance == DestSpec => []DestInv
<1>1. DestInit => DestInv
  BY InitDestInv
<1>2. DestInv /\ [DestNext]_destVars => DestInv'
  BY NextDestInv
<1>. QED
  BY <1>1, <1>2, PTL DEF DestSpec

\* The tables and requests of destinations stay within their types; only what
\* is registered is active.
THEOREM DestTypeCorrect == DestSpec => []DestTypeOK
<1>1. DestInv => DestTypeOK
  BY DEF DestInv
<1>. QED
  BY <1>1, DestInvariance, PTL

\* A registered, standing subscription is active or overtaken by a late result.
THEOREM Enrolment == DestSpec => []EnrolledIsActive
<1>1. DestInv => EnrolledIsActive
  BY DEF DestInv
<1>. QED
  BY <1>1, DestInvariance, PTL

\* In no window of a cooldown's length are more tests written than there are
\* threads.
THEOREM TestBursts == DestSpec => []TestBurstBounded
<1>1. ASSUME DestInv PROVE TestBurstBounded
  <2>1. ASSUME NEW t \in Dests, NEW start \in Nat
        PROVE  Cardinality(Written(t, start)) <= Cardinality(Requests)
    <3>1. Cardinality(Written(t, start)) + Cardinality(Pending(t, start))
            <= Cardinality(Requests)
      BY <1>1 DEF DestInv, TestsCounted
    <3>. QED
      BY <3>1, Finite
  <2>. QED
    BY <2>1 DEF TestBurstBounded, TestsWithin, Written, InWindow
<1>2. DestInv => TestBurstBounded
  BY <1>1
<1>. QED
  BY <1>2, DestInvariance, PTL

\* Whatever registrations and tests do meanwhile, the notifier composed with
\* them keeps one request per delivery at a time.
THEOREM OneSenderStill == DestSpec => []NoConcurrentSend
<1>1. DestInv => NoConcurrentSend
  BY OneSender DEF DestInv
<1>. QED
  BY <1>1, DestInvariance, PTL
=============================================================================
