------------------------ MODULE QuoteIngestionProofs ------------------------
(***************************************************************************)
(* What refreshes promise, for any number of threads, events, versions of  *)
(* the odds and watches, and any TTL.                                      *)
(*                                                                         *)
(* Every step of a refresh is a step of the provider cache or leaves it    *)
(* alone (StepCaches), so what ProviderCacheProofs shows of a response     *)
(* holds of the payload a refresh ingests.  The rest is one invariant:     *)
(* what a transaction has inserted belongs to it alone (MadeApart), its    *)
(* quotes have their markets (QuotesPlaced), and the events a refresh has  *)
(* left behind are in the history (Progress).                              *)
(***************************************************************************)
EXTENDS QuoteIngestion, ProviderCacheProofs, QuoteEnginesProofs

MarketIds == {m.id : m \in markets}

Evaluating == {"evalBegin", "evaluate", "announce"}

\* Where a thread is agrees with its payload: a deliberate refresh that was
\* served, whose current event is stored or about to be.
ThreadOK(c) ==
    pc[c] # "idle" =>
      /\ stage[c] = "served" /\ call[c].live
      /\ pc[c] # "stamp" => todo[c] # <<>>
      /\ pc[c] = "stamp" => OfSport(c) /\ todo[c] = <<>>
      /\ ~OfSport(c) => Len(todo[c]) = 1
      /\ pc[c] \in {"look", "insertMarket", "replace"} => pos[c] \in 1..Len(Quotes(c))
      /\ pc[c] \in {"updateEvent", "insertEvent"} => pos[c] = 1
      /\ pc[c] = "commit" => pos[c] = Len(Quotes(c)) + 1
      /\ pc[c] \in Writing \cup {"updateEvent", "insertEvent"} =>
           \/ row[c] = None /\ StoredEvent(Event(c)) # {}
           \/ row[c] # None /\ row[c].external_id = Event(c)

\* A market is inserted by one transaction at a time, and only once.
MadeApart ==
    /\ \A c, d \in Callers : c # d => made[c] \cap made[d] = {}
    /\ \A c \in Callers : made[c] \cap MarketIds = {}

\* The quotes a transaction is through with have a market, stored or its own;
\* its own markets are of such quotes.
QuotesPlaced(c) ==
    /\ pc[c] \notin Writing => made[c] = {}
    /\ pc[c] \in Writing =>
         /\ \A i \in 1..(pos[c] - 1) : MarketId(Quotes(c)[i]) \in made[c] \cup MarketIds
         /\ pc[c] = "replace" => MarketId(Quote(c)) \in made[c] \cup MarketIds
         /\ \A id \in made[c] : \E i \in 1..(pos[c] - 1) : MarketId(Quotes(c)[i]) = id

SnapshotsKnown ==
    \A a \in audit : a.event_type = "MarketSnapshotCreated" => a.aggregate_id \in MarketIds

\* Each quote of a version's payload for an event has its row in the history.
Ingested(version, e) ==
    \A j \in DOMAIN Payload[version][e] : \E h \in history :
        /\ h.version = version
        /\ BookKey(Payload[version][e][j]) = <<h.market_id, h.sportsbook>>

\* A refresh of the sport goes through the feed in order, and what is no
\* longer ahead of it has been ingested.
Progress(c) ==
    pc[c] # "idle" /\ OfSport(c) =>
      LET feed == Offers[got[c]]
          past == Len(feed) - Len(todo[c])
      IN  /\ past \in Nat
          /\ \A i \in 1..Len(todo[c]) : todo[c][i] = feed[past + i].id
          /\ \A i \in 1..past : Ingested(got[c], feed[i].id)
          /\ pc[c] \in Evaluating => Ingested(got[c], Event(c))

\* What was committed before a call began is no newer than its floor.
SinceKept(c) ==
    since[c] > 0 =>
      /\ stage[c] # "idle" /\ call[c].live
      /\ \A r \in latest : r.commit <= since[c] => r.version <= call[c].floor

ThreadInv(c) == ThreadOK(c) /\ QuotesPlaced(c) /\ Progress(c) /\ SinceKept(c)

IngestInv ==
    /\ TypeOK
    /\ CacheInv
    /\ \A c \in Callers : ThreadInv(c)
    /\ MadeApart
    /\ SnapshotsKnown
    /\ OneSnapshotPerMarket
    /\ LatestIsNewestHistory

-----------------------------------------------------------------------------
\* Steps of a refresh are steps of the cache.
LEMMA StepCaches == [Next]_vars => [CacheNext]_cacheVars
<1>. SUFFICES ASSUME Next PROVE [CacheNext]_cacheVars
  BY DEF vars
<1>1. ASSUME NEW c \in Callers, EndRefresh(c) PROVE CacheNext
  BY <1>1 DEF EndRefresh, CacheNext
<1>2. ASSUME NEW c \in Callers, NextEvent(c) PROVE [CacheNext]_cacheVars
  BY <1>1, <1>2 DEF NextEvent
<1>3. CASE \E c \in Callers, k \in Keys : Click(c, k)
  BY <1>3 DEF Click, CacheNext
<1>4. CASE \E c \in Callers : Scan(c)
  BY <1>4, IngestionAssumption DEF Scan, CacheNext
<1>5. CASE \E c \in Callers : Fetch(c) \/ FetchFails(c) \/ ReceiveScan(c)
  BY <1>5 DEF Fetch, FetchFails, ReceiveScan, CacheNext
<1>6. CASE World
  BY <1>6 DEF World, CacheNext
<1>7. CASE \E c \in Callers : \/ Receive(c) \/ Begin(c) \/ WriteEvent(c) \/ Look(c)
                              \/ InsertMarket(c) \/ Replace(c) \/ Commit(c) \/ Evaluate(c)
  BY <1>7 DEF Receive, Begin, WriteEvent, Look, InsertMarket, Replace, Commit, AfterCommit, Evaluate
<1>8. CASE \E c \in Callers : Lose(c) \/ Stamp(c) \/ DeadlockVictim(c)
  BY <1>1, <1>8 DEF Lose, Stamp, DeadlockVictim
<1>9. CASE \E c \in Callers : EvalBegin(c) \/ Announce(c) \/ Abort(c)
  BY <1>1, <1>2, <1>9 DEF EvalBegin, Announce, Abort
<1>. QED
  BY <1>3, <1>4, <1>5, <1>6, <1>7, <1>8, <1>9 DEF Next

\* The provider cache as refreshes use it is the one ProviderCache describes.
THEOREM RefreshesCache == Spec => CacheSpec
<1>1. Init => CacheInit
  BY DEF Init
<1>. QED
  BY <1>1, StepCaches, PTL DEF Spec, CacheSpec
-----------------------------------------------------------------------------
\* An answer lists events.
LEMMA AnswersList ==
  ASSUME NEW k, NEW version \in 0..MaxVersion
  PROVE  Listed(k, version) \in Seq(ListedEvents)
<1>1. Offers[version] \in Seq(ListedEvents)
  BY IngestionAssumption
<1>2. Kept(Offers[version], LAMBDA o : o.id = k) \in Seq({o \in ListedEvents : o.id = k})
  BY <1>1, ListedEventKept
<1>3. Seq({o \in ListedEvents : o.id = k}) \subseteq Seq(ListedEvents)
  OBVIOUS
<1>. QED
  BY <1>1, <1>2, <1>3 DEF Listed

\* The quotes mapped of an event's outcomes, before they are checked.
MappedQuotes(e) ==
    [event_id : {e}, sportsbook : Nat, market_type : MarketTypes,
     selection : STRING, price : Int, line : Int \cup {None},
     quoted_at : Nat \cup {None}]

\* An outcome that is not skipped is mapped to a quote.
LEMMA OutcomesMapped ==
  ASSUME NEW e, NEW outcomes \in Seq(Outcomes)
  PROVE  MapEventToQuotes(e, outcomes) \in Seq(MappedQuotes(e))
<1>. DEFINE type(o) == MARKET_TYPE_MAP[o.market]
            P == {i \in DOMAIN outcomes :
                    /\ outcomes[i].market \in DOMAIN MARKET_TYPE_MAP
                    /\ outcomes[i].price # None
                    /\ type(outcomes[i]) = "total" => outcomes[i].name \in {"over", "under"}}
            quote(o) == [event_id    |-> e,
                         sportsbook  |-> o.bookmaker,
                         market_type |-> type(o),
                         selection   |-> o.name,
                         price       |-> o.price,
                         line        |-> IF type(o) = "moneyline" THEN None ELSE o.point,
                         quoted_at   |-> IF o.last_update # None THEN o.last_update
                                         ELSE o.bookmaker_last_update]
            f == [i \in P |-> quote(outcomes[i])]
<1>1. IsFiniteSet(P) /\ \A x \in P : x \in Int
  BY PlacesFinite
<1>2. ASSUME NEW i \in P PROVE quote(outcomes[i]) \in MappedQuotes(e)
  <2>1. outcomes[i] \in Outcomes
    BY ElementOfSeq
  <2>2. type(outcomes[i]) \in MarketTypes
    BY DEF MARKET_TYPE_MAP, MarketTypes
  <2>. HIDE DEF type
  <2>3. outcomes[i].price # None
    OBVIOUS
  <2>. QED
    BY <2>1, <2>2, <2>3 DEF Outcomes, MappedQuotes
<1>3. f \in [P -> MappedQuotes(e)]
  BY <1>2
<1>4. [i \in DOMAIN Ascending(P) |-> f[Ascending(P)[i]]] \in Seq(MappedQuotes(e))
  BY <1>1, <1>3, PlacesMapped
<1>5. \A i \in DOMAIN Ascending(P) : Ascending(P)[i] \in P
  BY <1>1, PlacesAscend
<1>. QED
  BY <1>4, <1>5 DEF MapEventToQuotes, Kept

\* A quote that is not skipped is normal.
LEMMA QuotesNormalized ==
  ASSUME NEW e, NEW quotes \in Seq(MappedQuotes(e))
  PROVE  NormalizeQuotes(e, quotes) \in Seq(NormalQuotes(e))
<1>. DEFINE P == {i \in DOMAIN quotes : Normal(e, quotes[i])}
            f == [i \in P |-> quotes[i]]
<1>1. IsFiniteSet(P) /\ \A x \in P : x \in Int
  BY PlacesFinite
<1>2. ASSUME NEW i \in P PROVE quotes[i] \in NormalQuotes(e)
  <2>1. quotes[i] \in MappedQuotes(e) /\ Normal(e, quotes[i])
    BY ElementOfSeq
  <2>. QED
    BY <2>1 DEF MappedQuotes, NormalQuotes, Normal
<1>3. f \in [P -> NormalQuotes(e)]
  BY <1>2
<1>4. [i \in DOMAIN Ascending(P) |-> f[Ascending(P)[i]]] \in Seq(NormalQuotes(e))
  BY <1>1, <1>3, PlacesMapped
<1>5. \A i \in DOMAIN Ascending(P) : Ascending(P)[i] \in P
  BY <1>1, PlacesAscend
<1>. QED
  BY <1>4, <1>5 DEF NormalizeQuotes, Kept

\* What an answer brings for an event is normal quotes of it.
LEMMA PayloadNormal ==
  ASSUME NEW version \in 0..MaxVersion, NEW e \in Events
  PROVE  Payload[version][e] \in Seq(NormalQuotes(e))
<1>. DEFINE answer == Listed(e, version)
<1>1. Payload[version][e] =
         IF answer = <<>> THEN <<>>
         ELSE NormalizeQuotes(e, MapEventToQuotes(e, Head(answer).outcomes))
  BY DEF Payload
<1>2. answer \in Seq(ListedEvents)
  BY AnswersList
<1>. HIDE DEF answer
<1>3. CASE answer = <<>>
  <2>1. <<>> \in Seq(NormalQuotes(e))
    OBVIOUS
  <2>. QED
    BY <1>1, <1>3, <2>1
<1>4. CASE answer # <<>>
  <2>1. Head(answer) \in ListedEvents
    BY <1>2, <1>4
  <2>2. Head(answer).outcomes \in Seq(Outcomes)
    BY <2>1 DEF ListedEvents
  <2>3. MapEventToQuotes(e, Head(answer).outcomes) \in Seq(MappedQuotes(e))
    BY <2>2, OutcomesMapped
  <2>. QED
    BY <1>1, <1>4, <2>3, QuotesNormalized
<1>. QED
  BY <1>3, <1>4

-----------------------------------------------------------------------------
\* The payload of a refresh that has an event to go through.
LEMMA QuotesKnown ==
  ASSUME TypeOK, CacheInv, NEW c \in Callers, ThreadOK(c), pc[c] # "idle", todo[c] # <<>>
  PROVE  /\ got[c] \in 0..MaxVersion /\ got[c] <= offer
         /\ call[c] \in Calls
         /\ Event(c) \in Events
         /\ Tail(todo[c]) \in Seq(Events) /\ Len(Tail(todo[c])) = Len(todo[c]) - 1
         /\ Len(todo[c]) \in Nat \ {0}
         /\ Quotes(c) \in Seq(NormalQuotes(Event(c)))
         /\ Len(Quotes(c)) \in Nat
         /\ DOMAIN Quotes(c) = 1..Len(Quotes(c))
<1>1. stage[c] = "served"
  BY DEF ThreadOK
<1>2. got[c] \in Nat /\ got[c] <= offer /\ offer <= MaxVersion /\ offer \in Nat
  BY <1>1 DEF CacheInv, FloorsOffered, CacheTypeOK, TypeOK
<1>3. got[c] \in 0..MaxVersion /\ call[c] \in Calls
  BY <1>1, <1>2, CacheAssumption DEF CacheTypeOK, TypeOK
<1>4. todo[c] \in Seq(Events)
  BY DEF TypeOK
<1>5. Event(c) \in Events /\ Tail(todo[c]) \in Seq(Events) /\ Len(todo[c]) \in Nat \ {0}
      /\ Len(Tail(todo[c])) = Len(todo[c]) - 1
  BY <1>4 DEF Event
<1>6. Payload[got[c]][Event(c)] \in
         Seq(NormalQuotes(Event(c)))
  BY <1>3, <1>5, PayloadNormal
<1>7. Quotes(c) = Payload[got[c]][Event(c)]
  BY DEF Quotes
<1>8. Len(Quotes(c)) \in Nat /\ DOMAIN Quotes(c) = 1..Len(Quotes(c))
  BY <1>6, <1>7
<1>. QED
  BY <1>2, <1>3, <1>5, <1>6, <1>7, <1>8

\* A quote names a market.
LEMMA QuoteKeys ==
  ASSUME NEW q, NEW e \in Events,
         q \in NormalQuotes(e)
  PROVE  MarketId(q) \in MarketKeys
<1>1. q.line \in Int \cup {None}
  BY DEF NormalQuotes
<1>2. ASSUME NEW i \in Int PROVE (i + 5) \div 10 \in Int
  OBVIOUS
<1>3. LineKey(q.line) \in Int \cup {None}
  BY <1>1, <1>2, Zenon DEF LineKey
<1>. QED
  BY <1>3 DEF MarketId, MarketKeys, NormalQuotes

\* A thread that does not move is disturbed neither by tables that grow nor by
\* latest rows newer than what its call saw.
Still(d) ==
    /\ stage'[d] = stage[d] /\ call'[d] = call[d] /\ got'[d] = got[d]
    /\ pc'[d] = pc[d] /\ todo'[d] = todo[d] /\ pos'[d] = pos[d] /\ row'[d] = row[d]
    /\ made'[d] = made[d] /\ since'[d] = since[d]

\* Its part of the invariant stays.
LEMMA Undisturbed ==
  ASSUME NEW d \in Callers, ThreadInv(d), Still(d),
         \A e : StoredEvent(e) # {} => StoredEvent(e)' # {},
         MarketIds \subseteq MarketIds', history \subseteq history',
         \A r \in latest' : r \in latest \/ ~(r.commit <= since[d])
  PROVE  ThreadInv(d)'
<1>. USE DEF Still
<1>1. Event(d)' = Event(d) /\ Quotes(d)' = Quotes(d) /\ OfSport(d)' = OfSport(d)
      /\ Quote(d)' = Quote(d)
  BY DEF Event, Quotes, OfSport, Quote
<1>2. ThreadOK(d)'
  BY <1>1 DEF ThreadInv, ThreadOK
<1>3. QuotesPlaced(d)'
  BY <1>1 DEF ThreadInv, QuotesPlaced
<1>4. Progress(d)'
  <2>1. ASSUME NEW version, NEW e, Ingested(version, e) PROVE Ingested(version, e)'
    BY <2>1 DEF Ingested
  <2>. QED
    BY <1>1, <2>1 DEF ThreadInv, Progress
<1>5. SinceKept(d)'
  BY DEF ThreadInv, SinceKept
<1>. QED
  BY <1>2, <1>3, <1>4, <1>5 DEF ThreadInv

\* What is left to show of a step of c that commits nothing.
LEMMA ThreadStep ==
  ASSUME IngestInv, NEW c \in Callers,
         UNCHANGED <<stored, markets, latest, history, audit>>,
         \A d \in Others(c) : Still(d),
         TypeOK', CacheInv', ThreadInv(c)',
         made'[c] \cap MarketIds = {},
         \A d \in Others(c) : made'[c] \cap made[d] = {}
  PROVE  IngestInv'
<1>1. MarketIds' = MarketIds /\ \A e : StoredEvent(e)' = StoredEvent(e)
  BY DEF MarketIds, StoredEvent
<1>2. \A d \in Callers : ThreadInv(d)'
  BY <1>1, Undisturbed DEF IngestInv, Others
<1>3. MadeApart'
  BY <1>1 DEF IngestInv, MadeApart, Others, Still
<1>4. SnapshotsKnown'
  BY <1>1 DEF IngestInv, SnapshotsKnown
<1>5. OneSnapshotPerMarket' /\ LatestIsNewestHistory'
  BY DEF IngestInv, OneSnapshotPerMarket, LatestIsNewestHistory
<1>. QED
  BY <1>2, <1>3, <1>4, <1>5 DEF IngestInv

\* The clock and the odds move, or a refresh is over and its thread forgets it.
LEMMA RowsKept ==
  ASSUME TypeOK, now' \in Nat, now <= now', offer' \in Nat, offer <= offer',
         commits' = commits, markets' = markets
  PROVE  QuoteRows \subseteq QuoteRows'
  BY DEF TypeOK, CacheTypeOK, QuoteRows

\* The types of what a thread keeps to itself.
ThreadTypes ==
    /\ pc \in [Callers -> Steps]
    /\ todo \in [Callers -> Seq(Events)]
    /\ pos \in [Callers -> Nat]
    /\ clock \in [Callers -> 0..now]
    /\ row \in [Callers -> EventRows \cup {None}]
    /\ snap \in [Callers -> 0..commits]
    /\ made \in [Callers -> SUBSET MarketKeys]
    /\ found = [c \in Callers |-> IF pc[c] = "announce" THEN found[c] ELSE {}]
    /\ since \in [Callers -> 0..commits]

\* A step that leaves the tables alone keeps their types.
LEMMA ThreadStepTypes ==
  ASSUME IngestInv, CacheInv', ThreadTypes',
         UNCHANGED <<now, offer, stored, markets, latest, history, commits>>,
         known' \in [Events -> Nat \cup {None}],
         refreshed' \in Nat \cup {None}, faults' \in 0..MaxFaults
  PROVE  TypeOK'
<1>1. QuoteRows' = QuoteRows /\ \A e : StoredEvent(e)' = StoredEvent(e)
  BY DEF QuoteRows, StoredEvent
<1>2. CacheTypeOK'
  BY DEF CacheInv
<1>3. /\ offer' <= MaxVersion
      /\ stored' \subseteq EventRows
      /\ markets' \subseteq MarketRows
      /\ \A m \in markets' : m.id = MarketId(m) /\ StoredEvent(m.event_id)' # {}
      /\ latest' \cup history' \subseteq QuoteRows'
      /\ commits' \in Nat
  BY <1>1 DEF IngestInv, TypeOK
<1>. QED
  BY <1>2, <1>3 DEF TypeOK, ThreadTypes

\* A refresh that is over leaves nothing but what it committed.
LEMMA EndRefreshInv ==
  ASSUME IngestInv, CacheInv', NEW c \in Callers, EndRefresh(c),
         UNCHANGED <<known, stored, markets, latest, history, audit, commits>>,
         refreshed' \in Nat \cup {None}, faults' \in 0..MaxFaults
  PROVE  IngestInv'
<1>. USE DEF EndRefresh, Done, Leave, Goto, NewThread, caches, locals
<1>1. TypeOK'
  <2>1. /\ pc' \in [Callers -> Steps]
        /\ todo' \in [Callers -> Seq(Events)]
        /\ pos' \in [Callers -> Nat]
    BY DEF IngestInv, TypeOK, Steps
  <2>2. /\ clock' \in [Callers -> 0..now']
        /\ snap' \in [Callers -> 0..commits']
        /\ since' \in [Callers -> 0..commits']
    BY DEF IngestInv, TypeOK, CacheTypeOK
  <2>3. /\ row' \in [Callers -> EventRows \cup {None}]
        /\ made' \in [Callers -> SUBSET MarketKeys]
    BY DEF IngestInv, TypeOK
  <2>4. found' = [d \in Callers |-> IF pc'[d] = "announce" THEN found'[d] ELSE {}]
    BY DEF IngestInv, TypeOK
  <2>. QED
    BY <2>1, <2>2, <2>3, <2>4, ThreadStepTypes DEF ThreadTypes, IngestInv, TypeOK
<1>2. \A d \in Others(c) : Still(d)
  BY DEF Still, Others, IngestInv, TypeOK, CacheTypeOK
<1>3. /\ pc'[c] = "idle" /\ made'[c] = {} /\ since'[c] = 0
  BY DEF IngestInv, TypeOK
<1>4. ThreadInv(c)'
  <2>1. ThreadOK(c)' /\ QuotesPlaced(c)' /\ Progress(c)'
    BY <1>3 DEF ThreadOK, QuotesPlaced, Progress, Writing
  <2>2. SinceKept(c)'
    BY <1>3 DEF SinceKept
  <2>. QED
    BY <2>1, <2>2 DEF ThreadInv
<1>. QED
  BY <1>1, <1>2, <1>3, <1>4, ThreadStep

\* An event has been evaluated; the next one, or the stamp, is ahead.
LEMMA NextEventInv ==
  ASSUME IngestInv, CacheInv', NEW c \in Callers, pc[c] \in Evaluating, NextEvent(c),
         UNCHANGED <<known, stored, markets, latest, history, audit, commits, refreshed>>,
         faults' \in 0..MaxFaults
  PROVE  IngestInv'
<1>. DEFINE rest == Tail(todo[c])
<1>1. CASE EndRefresh(c)
  BY <1>1, EndRefreshInv DEF IngestInv, TypeOK
<1>2. CASE ~EndRefresh(c)
  <2>1. /\ ThreadOK(c) /\ Progress(c) /\ SinceKept(c)
        /\ pc[c] # "idle" /\ pc[c] # "stamp" /\ todo[c] # <<>>
    BY DEF IngestInv, ThreadInv, ThreadOK, Evaluating
  <2>2. /\ Event(c) \in Events /\ got[c] \in 0..MaxVersion
        /\ rest \in Seq(Events) /\ Len(rest) = Len(todo[c]) - 1 /\ Len(todo[c]) \in Nat \ {0}
        /\ \A i \in 1..Len(rest) : rest[i] = todo[c][i + 1]
        /\ todo[c] \in Seq(Events) /\ Event(c) = todo[c][1]
    <3>1. todo[c] \in Seq(Events)
      BY DEF IngestInv, TypeOK
    <3>2. \A i \in 1..Len(rest) : rest[i] = todo[c][i + 1]
      BY <2>1, <3>1
    <3>. QED
      BY <2>1, <3>1, <3>2, QuotesKnown DEF IngestInv, Event
  <2>3. OfSport(c)
    <3>1. CASE ~OfSport(c)
      <4>1. Len(todo[c]) = 1
        BY <2>1, <3>1 DEF ThreadOK
      <4>. HIDE DEF rest
      <4>2. Len(rest) = 0
        BY <2>2, <4>1
      <4>3. rest = <<>>
        BY <2>2, <4>2, EmptySeq
      <4>. QED
        BY <1>2, <3>1, <4>3, Zenon DEF NextEvent, rest
    <3>. QED
      BY <3>1
  <2>4. /\ pc' = [pc EXCEPT ![c] = IF rest = <<>> THEN "stamp" ELSE "begin"]
        /\ todo' = [todo EXCEPT ![c] = rest]
        /\ pos' = [pos EXCEPT ![c] = 0]
        /\ clock' = [clock EXCEPT ![c] = 0]
        /\ row' = [row EXCEPT ![c] = None]
        /\ snap' = [snap EXCEPT ![c] = 0]
        /\ made' = [made EXCEPT ![c] = {}]
        /\ found' = [found EXCEPT ![c] = {}]
        /\ UNCHANGED <<cacheVars, since>>
    BY <1>2, <2>3, Zenon DEF NextEvent, Goto
  <2>5. UNCHANGED <<now, offer, stage, call, got>>
    BY <2>4 DEF cacheVars, caches, locals
  <2>6. TypeOK'
    <3>1. /\ pc' \in [Callers -> Steps]
          /\ todo' \in [Callers -> Seq(Events)]
          /\ pos' \in [Callers -> Nat]
      BY <2>2, <2>4 DEF IngestInv, TypeOK, Steps
    <3>2. /\ clock' \in [Callers -> 0..now']
          /\ snap' \in [Callers -> 0..commits']
          /\ since' \in [Callers -> 0..commits']
      BY <2>4, <2>5 DEF IngestInv, TypeOK, CacheTypeOK
    <3>3. /\ row' \in [Callers -> EventRows \cup {None}]
          /\ made' \in [Callers -> SUBSET MarketKeys]
      BY <2>4 DEF IngestInv, TypeOK
    <3>4. found' = [d \in Callers |-> IF pc'[d] = "announce" THEN found'[d] ELSE {}]
      BY <2>4 DEF IngestInv, TypeOK
    <3>5. refreshed' \in Nat \cup {None}
      BY DEF IngestInv, TypeOK
    <3>. QED
      BY <2>5, <3>1, <3>2, <3>3, <3>4, <3>5, ThreadStepTypes DEF ThreadTypes, IngestInv, TypeOK
  <2>7. \A d \in Others(c) : Still(d)
    BY <2>4, <2>5 DEF Still, Others, IngestInv, TypeOK
  <2>8. /\ pc'[c] = IF rest = <<>> THEN "stamp" ELSE "begin"
        /\ todo'[c] = rest /\ made'[c] = {} /\ since'[c] = since[c]
    BY <2>4 DEF IngestInv, TypeOK
  <2>9. ThreadInv(c)'
    <3>1. ThreadOK(c)'
      BY <2>1, <2>2, <2>3, <2>5, <2>8 DEF ThreadOK, OfSport, Writing
    <3>2. QuotesPlaced(c)'
      BY <2>8 DEF QuotesPlaced, Writing
    <3>3. Progress(c)'
      <4>. DEFINE feed == Offers[got[c]]
                  past == Len(feed) - Len(todo[c])
      <4>1. /\ past \in Nat
            /\ \A i \in 1..Len(todo[c]) : todo[c][i] = feed[past + i].id
            /\ \A i \in 1..past : Ingested(got[c], feed[i].id)
            /\ Ingested(got[c], Event(c))
        BY <2>1, <2>3 DEF Progress
      <4>2. feed \in Seq(ListedEvents)
        BY <2>2, IngestionAssumption
      <4>3. Len(feed) \in Nat
        BY <4>2, LenProperties
      <4>. HIDE DEF feed, rest
      <4>4. Len(feed) - Len(rest) = past + 1
        BY <2>2, <4>3
      <4>5. \A i \in 1..Len(rest) : rest[i] = feed[past + 1 + i].id
        <5>. SUFFICES ASSUME NEW i \in 1..Len(rest) PROVE rest[i] = feed[past + 1 + i].id
          OBVIOUS
        <5>1. i + 1 \in 1..Len(todo[c]) /\ past + (i + 1) = past + 1 + i
          BY <2>2, <4>1
        <5>. QED
          BY <2>2, <4>1, <5>1
      <4>6. feed[past + 1].id = Event(c)
        <5>1. 1 \in 1..Len(todo[c])
          BY <2>2
        <5>. QED
          BY <2>2, <4>1, <5>1
      <4>. HIDE DEF past
      <4>7. \A i \in 1..(past + 1) : Ingested(got[c], feed[i].id)
        BY <4>1, <4>6
      <4>8. ASSUME NEW version, NEW e, Ingested(version, e) PROVE Ingested(version, e)'
        BY <4>8 DEF Ingested
      <4>9. got'[c] = got[c] /\ pc'[c] \notin Evaluating
        BY <2>5, <2>8 DEF Evaluating
      <4>10. past + 1 \in Nat /\ Offers[got'[c]] = feed /\ todo'[c] = rest
        BY <2>8, <4>1, <4>9 DEF feed
      <4>. QED
        BY <4>4, <4>5, <4>7, <4>8, <4>9, <4>10 DEF Progress
    <3>4. SinceKept(c)'
      BY <2>1, <2>5, <2>8 DEF SinceKept
    <3>. QED
      BY <3>1, <3>2, <3>3, <3>4 DEF ThreadInv
  <2>. QED
    BY <2>6, <2>7, <2>8, <2>9, ThreadStep
<1>. QED
  BY <1>1, <1>2

-----------------------------------------------------------------------------
\* A thread that has no payload yet moves within the cache.
LEMMA IdleStep ==
  ASSUME IngestInv, CacheInv', NEW c \in Callers, pc[c] = "idle",
         UNCHANGED <<now, offer, tables, thread, faults>>,
         known' \in [Events -> Nat \cup {None}],
         since' \in [Callers -> 0..commits],
         \A d \in Others(c) : /\ stage'[d] = stage[d] /\ call'[d] = call[d]
                              /\ got'[d] = got[d] /\ since'[d] = since[d],
         SinceKept(c)'
  PROVE  IngestInv'
<1>. USE DEF tables, thread
<1>1. TypeOK'
  <2>1. ThreadTypes'
    BY DEF IngestInv, TypeOK, ThreadTypes
  <2>. QED
    BY <2>1, ThreadStepTypes DEF IngestInv, TypeOK
<1>2. \A d \in Others(c) : Still(d)
  BY DEF Still
<1>3. ThreadInv(c)'
  BY DEF IngestInv, ThreadInv, ThreadOK, QuotesPlaced, Progress, Writing
<1>4. /\ made'[c] \cap MarketIds = {}
      /\ \A d \in Others(c) : made'[c] \cap made[d] = {}
  BY DEF IngestInv, MadeApart, Others
<1>. QED
  BY <1>1, <1>2, <1>3, <1>4, ThreadStep

\* A deliberate refresh arrives: what is committed is no newer than its floor.
LEMMA ClickInv ==
  ASSUME IngestInv, CacheInv', NEW c \in Callers, NEW k \in Keys, Click(c, k)
  PROVE  IngestInv'
<1>. USE DEF Click, Arrive, caches
<1>1. pc[c] = "idle"
  BY DEF IngestInv, ThreadInv, ThreadOK
<1>2. /\ stage' = [stage EXCEPT ![c] = "arrived"]
      /\ call' = [call EXCEPT ![c] = [key |-> k, live |-> TRUE, arrivedAt |-> now,
                                      floor |-> Floor(k), known |-> newest[k]]]
      /\ since' = [since EXCEPT ![c] = IF Answered(k) = {} THEN commits ELSE 0]
      /\ UNCHANGED <<now, offer, got, tables, thread, known, faults>>
  OBVIOUS
<1>3. /\ stage \in [Callers -> Stages] /\ call \in [Callers -> Calls \cup {NoCall}]
      /\ since \in [Callers -> 0..commits] /\ commits \in Nat
      /\ known \in [Events -> Nat \cup {None}]
  BY DEF IngestInv, TypeOK, CacheTypeOK
<1>4. since' \in [Callers -> 0..commits]
  BY <1>2, <1>3
<1>5. SinceKept(c)'
  <2>1. stage'[c] = "arrived" /\ call'[c].live /\ call'[c].floor = Floor(k)
    BY <1>2, <1>3
  <2>2. CASE Answered(k) = {}
    <3>1. Floor(k) = offer
      BY <2>2 DEF Floor
    <3>2. \A r \in latest' : r.version <= offer
      BY <1>2 DEF tables, IngestInv, TypeOK, QuoteRows, CacheTypeOK
    <3>. QED
      BY <2>1, <3>1, <3>2 DEF SinceKept
  <2>3. CASE Answered(k) # {}
    BY <1>2, <1>3, <2>3 DEF SinceKept
  <2>. QED
    BY <2>2, <2>3
<1>6. \A d \in Others(c) : /\ stage'[d] = stage[d] /\ call'[d] = call[d]
                           /\ got'[d] = got[d] /\ since'[d] = since[d]
  BY <1>2, <1>3 DEF Others
<1>. QED
  BY <1>1, <1>2, <1>3, <1>4, <1>5, <1>6, IdleStep

\* A listing arrives at the cache.
LEMMA ScanInv ==
  ASSUME IngestInv, CacheInv', NEW c \in Callers, Scan(c)
  PROVE  IngestInv'
<1>. USE DEF Scan, Arrive, caches
<1>1. pc[c] = "idle"
  BY DEF IngestInv, ThreadInv, ThreadOK
<1>2. /\ stage \in [Callers -> Stages] /\ call \in [Callers -> Calls \cup {NoCall}]
      /\ since \in [Callers -> 0..commits] /\ commits \in Nat
      /\ known \in [Events -> Nat \cup {None}]
  BY DEF IngestInv, TypeOK, CacheTypeOK
<1>3. SinceKept(c)'
  BY DEF SinceKept, IngestInv, ThreadInv
<1>4. \A d \in Others(c) : /\ stage'[d] = stage[d] /\ call'[d] = call[d]
                           /\ got'[d] = got[d] /\ since'[d] = since[d]
  BY <1>2 DEF Others
<1>. QED
  BY <1>1, <1>2, <1>3, <1>4, IdleStep

\* Inside of fetch a call stays what it is.
LEMMA FetchInv ==
  ASSUME IngestInv, CacheInv', NEW c \in Callers, Fetch(c)
  PROVE  IngestInv'
<1>. USE DEF Fetch
<1>1. /\ stage[c] \notin {"idle", "served"} /\ stage'[c] # "idle"
      /\ UNCHANGED <<now, offer, call>>
      /\ \A d \in Others(c) : stage'[d] = stage[d] /\ got'[d] = got[d]
  <2>. USE DEF Others, IngestInv, TypeOK, CacheTypeOK
  <2>1. CASE ReuseOnArrival(c)
    BY <2>1 DEF ReuseOnArrival, Serve
  <2>2. CASE Queue(c)
    BY <2>2 DEF Queue
  <2>3. CASE ReuseQueued(c)
    BY <2>3 DEF ReuseQueued, Serve
  <2>4. CASE BeginLoad(c)
    BY <2>4 DEF BeginLoad
  <2>5. CASE Upstream(c)
    BY <2>5 DEF Upstream
  <2>6. CASE Store(c)
    BY <2>6 DEF Store, Serve
  <2>. QED
    BY <2>1, <2>2, <2>3, <2>4, <2>5, <2>6 DEF Fetching
<1>2. pc[c] = "idle"
  BY <1>1 DEF IngestInv, ThreadInv, ThreadOK
<1>3. SinceKept(c)'
  BY <1>1 DEF tables, SinceKept, IngestInv, ThreadInv
<1>4. since' \in [Callers -> 0..commits] /\ known' \in [Events -> Nat \cup {None}]
  BY DEF IngestInv, TypeOK
<1>. QED
  BY <1>1, <1>2, <1>3, <1>4, IdleStep

\* A load that fails is forgotten.
LEMMA FetchFailsInv ==
  ASSUME IngestInv, CacheInv', NEW c \in Callers, FetchFails(c)
  PROVE  IngestInv'
<1>. USE DEF FetchFails, Fail, Leave, caches
<1>1. pc[c] = "idle"
  BY DEF IngestInv, ThreadInv, ThreadOK
<1>2. /\ since \in [Callers -> 0..commits] /\ commits \in Nat
      /\ known \in [Events -> Nat \cup {None}]
  BY DEF IngestInv, TypeOK
<1>3. since' \in [Callers -> 0..commits] /\ since'[c] = 0
  BY <1>2
<1>4. SinceKept(c)'
  BY <1>3 DEF SinceKept
<1>5. \A d \in Others(c) : /\ stage'[d] = stage[d] /\ call'[d] = call[d]
                           /\ got'[d] = got[d] /\ since'[d] = since[d]
  BY <1>2 DEF Others, IngestInv, TypeOK, CacheTypeOK
<1>. QED
  BY <1>1, <1>2, <1>3, <1>4, <1>5, IdleStep

\* The events of an answer.
LEMMA AnswerFields ==
  ASSUME NEW answer \in Seq(ListedEvents)
  PROVE  \A i \in DOMAIN answer : answer[i].id \in Events /\ answer[i].starts_at \in Nat
<1>. SUFFICES ASSUME NEW i \in DOMAIN answer
              PROVE  answer[i].id \in Events /\ answer[i].starts_at \in Nat
  OBVIOUS
<1>1. i \in 1..Len(answer)
  BY LenProperties
<1>2. answer[i] \in ListedEvents
  BY <1>1, ElementOfSeq
<1>. QED
  BY <1>2 DEF ListedEvents

\* _cache_event keeps start times only.
LEMMA Remembered ==
  ASSUME known \in [Events -> Nat \cup {None}], NEW answer \in Seq(ListedEvents),
         Remember(answer)
  PROVE  known' \in [Events -> Nat \cup {None}]
<1>1. \A i \in DOMAIN answer : answer[i].starts_at \in Nat
  BY AnswerFields
<1>. DEFINE start(e) == IF \E i \in DOMAIN answer : answer[i].id = e
                        THEN (CHOOSE o \in {answer[i] : i \in DOMAIN answer} : o.id = e).starts_at
                        ELSE known[e]
<1>2. ASSUME NEW e \in Events PROVE start(e) \in Nat \cup {None}
  <2>1. CASE \E i \in DOMAIN answer : answer[i].id = e
    <3>. DEFINE o == CHOOSE o \in {answer[i] : i \in DOMAIN answer} : o.id = e
    <3>1. \E x \in {answer[i] : i \in DOMAIN answer} : x.id = e
      BY <2>1
    <3>2. o \in {answer[i] : i \in DOMAIN answer}
      BY <3>1
    <3>. HIDE DEF o
    <3>3. o.starts_at \in Nat
      BY <1>1, <3>2
    <3>. QED
      BY <2>1, <3>3 DEF o
  <2>2. CASE ~\E i \in DOMAIN answer : answer[i].id = e
    BY <2>2
  <2>. QED
    BY <2>1, <2>2
<1>3. known' = [e \in Events |-> start(e)]
  BY DEF Remember
<1>. HIDE DEF start
<1>. QED
  BY <1>2, <1>3

\* A listing remembers the events it was answered with.
LEMMA ReceiveScanInv ==
  ASSUME IngestInv, CacheInv', NEW c \in Callers, ReceiveScan(c)
  PROVE  IngestInv'
<1>. USE DEF ReceiveScan, Done, Leave, caches
<1>1. pc[c] = "idle" /\ since[c] = 0
  <2>1. since[c] \in 0..commits /\ commits \in Nat
    BY DEF IngestInv, TypeOK
  <2>. QED
    BY <2>1 DEF IngestInv, ThreadInv, ThreadOK, SinceKept
<1>2. got[c] \in 0..MaxVersion
  BY CacheAssumption DEF IngestInv, CacheInv, FloorsOffered, CacheTypeOK, TypeOK
<1>3. Offers[got[c]] \in Seq(ListedEvents)
  BY <1>2, IngestionAssumption
<1>4. known' \in [Events -> Nat \cup {None}]
  BY <1>3, Remembered DEF IngestInv, TypeOK
<1>5. SinceKept(c)'
  BY <1>1 DEF SinceKept
<1>6. since' \in [Callers -> 0..commits]
  BY DEF IngestInv, TypeOK
<1>7. \A d \in Others(c) : /\ stage'[d] = stage[d] /\ call'[d] = call[d]
                           /\ got'[d] = got[d] /\ since'[d] = since[d]
  BY DEF Others, IngestInv, TypeOK, CacheTypeOK
<1>. QED
  BY <1>1, <1>4, <1>5, <1>6, <1>7, IdleStep

\* A refresh starts with all of its payload ahead of it.
LEMMA ReceiveInv ==
  ASSUME IngestInv, CacheInv', NEW c \in Callers, Receive(c)
  PROVE  IngestInv'
<1>. DEFINE k == call[c].key
            answer == Listed(k, got[c])
            events == IF k = Feed THEN Ids(answer) ELSE <<k>>
<1>1. /\ stage[c] = "served" /\ call[c].live /\ pc[c] = "idle"
      /\ Remember(answer)
      /\ todo' = [todo EXCEPT ![c] = events]
      /\ pc' = [pc EXCEPT ![c] = IF events = <<>> THEN "stamp" ELSE "begin"]
      /\ UNCHANGED <<cacheVars, tables, pos, clock, row, snap, made, found, since, faults>>
  BY DEF Receive, Goto
<1>2. UNCHANGED <<now, offer, stage, call, got>>
  BY <1>1 DEF cacheVars, caches, locals
<1>3. got[c] \in 0..MaxVersion /\ k \in Keys
  <2>1. got[c] \in Nat /\ offer \in Nat /\ offer <= MaxVersion
    BY DEF IngestInv, CacheTypeOK, TypeOK
  <2>2. got[c] <= offer
    BY <1>1 DEF IngestInv, CacheInv, FloorsOffered
  <2>. QED
    BY <1>1, <2>1, <2>2, CacheAssumption, CallKnown DEF IngestInv, TypeOK
<1>4. answer \in Seq(ListedEvents)
  BY <1>3, AnswersList
<1>5. ASSUME k = Feed
      PROVE  /\ events \in Seq(Events) /\ answer = Offers[got[c]]
             /\ Len(events) = Len(answer) /\ Len(answer) \in Nat
             /\ \A i \in 1..Len(events) : events[i] = answer[i].id
  <2>1. Len(answer) \in Nat /\ DOMAIN answer = 1..Len(answer)
    BY <1>4, LenProperties
  <2>2. \A i \in 1..Len(answer) : answer[i].id \in Events
    BY <1>4, <2>1, AnswerFields
  <2>3. events = [i \in 1..Len(answer) |-> answer[i].id]
    BY <1>5, <2>1 DEF Ids
  <2>4. answer = Offers[got[c]]
    BY <1>5 DEF Listed
  <2>. HIDE DEF answer, events
  <2>. QED
    BY <2>1, <2>2, <2>3, <2>4
<1>6. ASSUME k # Feed PROVE events \in Seq(Events) /\ Len(events) = 1 /\ events # <<>>
  <2>1. k \in Events
    BY <1>3, <1>6 DEF Events
  <2>. QED
    BY <1>6, <2>1
<1>. HIDE DEF answer, events
<1>7. events \in Seq(Events)
  BY <1>5, <1>6
<1>8. TypeOK'
  <2>1. known' \in [Events -> Nat \cup {None}]
    BY <1>1, <1>4, Remembered DEF IngestInv, TypeOK
  <2>2. ThreadTypes'
    BY <1>1, <1>2, <1>7 DEF ThreadTypes, IngestInv, TypeOK, Steps, tables
  <2>. QED
    BY <1>1, <1>2, <2>1, <2>2, ThreadStepTypes DEF tables, IngestInv, TypeOK
<1>9. pc'[c] = (IF events = <<>> THEN "stamp" ELSE "begin") /\ todo'[c] = events
  BY <1>1 DEF IngestInv, TypeOK
<1>10. ThreadInv(c)'
  <2>1. OfSport(c)' <=> k = Feed
    BY <1>2 DEF OfSport
  <2>2. ThreadOK(c)'
    BY <1>1, <1>2, <1>6, <1>9, <2>1 DEF ThreadOK, Writing
  <2>3. QuotesPlaced(c)'
    BY <1>1, <1>9 DEF QuotesPlaced, Writing, IngestInv, ThreadInv
  <2>4. Progress(c)'
    BY <1>2, <1>5, <1>9, <2>1 DEF Progress, Evaluating
  <2>5. SinceKept(c)'
    BY <1>1, <1>2 DEF SinceKept, IngestInv, ThreadInv, tables
  <2>. QED
    BY <2>2, <2>3, <2>4, <2>5 DEF ThreadInv
<1>11. \A d \in Others(c) : Still(d)
  BY <1>1, <1>2 DEF Still, Others, IngestInv, TypeOK
<1>12. /\ made'[c] \cap MarketIds = {}
       /\ \A d \in Others(c) : made'[c] \cap made[d] = {}
  BY <1>1 DEF IngestInv, MadeApart, Others
<1>. QED
  BY <1>1, <1>8, <1>10, <1>11, <1>12, ThreadStep DEF tables

\* Time passes, the odds change.
LEMMA WorldInv ==
  ASSUME IngestInv, CacheInv', World
  PROVE  IngestInv'
<1>1. /\ UNCHANGED <<stage, call, seen, got, known, tables, thread, since, faults>>
      /\ now' \in Nat /\ now <= now' /\ offer' \in Nat /\ offer <= offer' /\ offer' <= MaxVersion
  BY CacheAssumption DEF World, Change, Tick, locals, IngestInv, TypeOK, CacheTypeOK
<1>. USE DEF tables, thread
<1>2. TypeOK'
  <2>1. QuoteRows \subseteq QuoteRows'
    BY <1>1, RowsKept DEF IngestInv
  <2>2. CacheTypeOK'
    BY DEF CacheInv
  <2>3. \A e : StoredEvent(e)' = StoredEvent(e)
    BY <1>1 DEF StoredEvent
  <2>4. clock' \in [Callers -> 0..now']
    BY <1>1 DEF IngestInv, TypeOK, CacheTypeOK
  <2>. QED
    BY <1>1, <2>1, <2>2, <2>3, <2>4 DEF IngestInv, TypeOK
<1>3. MarketIds' = MarketIds /\ \A e : StoredEvent(e)' = StoredEvent(e)
  BY <1>1 DEF MarketIds, StoredEvent
<1>4. \A d \in Callers : ThreadInv(d)'
  BY <1>1, <1>3, Undisturbed DEF IngestInv, Still
<1>5. MadeApart' /\ SnapshotsKnown'
  BY <1>1, <1>3 DEF IngestInv, MadeApart, SnapshotsKnown
<1>6. OneSnapshotPerMarket' /\ LatestIsNewestHistory'
  BY <1>1 DEF IngestInv, OneSnapshotPerMarket, LatestIsNewestHistory
<1>. QED
  BY <1>2, <1>4, <1>5, <1>6 DEF IngestInv

-----------------------------------------------------------------------------
\* A statement of c's transaction: the tables stay as they are.
LEMMA StatementStep ==
  ASSUME IngestInv, CacheInv', NEW c \in Callers,
         pc[c] # "idle", pc'[c] # "idle", pc'[c] \in Evaluating => pc[c] \in Evaluating,
         UNCHANGED <<cacheVars, known, tables, todo, since, faults>>,
         \A d \in Others(c) : /\ pc'[d] = pc[d] /\ pos'[d] = pos[d] /\ row'[d] = row[d]
                              /\ made'[d] = made[d],
         ThreadTypes', ThreadOK(c)', QuotesPlaced(c)',
         made'[c] \cap MarketIds = {},
         \A d \in Others(c) : made'[c] \cap made[d] = {}
  PROVE  IngestInv'
<1>1. UNCHANGED <<now, offer, stage, call, got>>
  BY DEF cacheVars, caches, locals
<1>. USE DEF tables
<1>2. TypeOK'
  BY <1>1, ThreadStepTypes DEF IngestInv, TypeOK
<1>3. Progress(c)'
  <2>1. Event(c)' = Event(c) /\ OfSport(c)' = OfSport(c)
    BY <1>1 DEF Event, OfSport
  <2>2. ASSUME NEW version, NEW e, Ingested(version, e) PROVE Ingested(version, e)'
    BY <2>2 DEF Ingested
  <2>3. Progress(c)
    BY DEF IngestInv, ThreadInv
  <2>. QED
    BY <1>1, <2>1, <2>2, <2>3 DEF Progress
<1>4. SinceKept(c)'
  BY <1>1 DEF SinceKept, IngestInv, ThreadInv
<1>5. ThreadInv(c)'
  BY <1>3, <1>4 DEF ThreadInv
<1>6. \A d \in Others(c) : Still(d)
  BY <1>1 DEF Still
<1>. QED
  BY <1>2, <1>5, <1>6, ThreadStep

\* The transaction begins with the event's row, stored or to be written.
LEMMA BeginInv ==
  ASSUME IngestInv, CacheInv', NEW c \in Callers, Begin(c)
  PROVE  IngestInv'
<1>. DEFINE there == StoredEvent(Event(c)) # {}
<1>1. /\ pc[c] = "begin"
      /\ clock' = [clock EXCEPT ![c] = now]
      /\ pos' = [pos EXCEPT ![c] = 1]
      /\ row' = [row EXCEPT ![c] = IF there /\ ~OfSport(c) THEN None ELSE EventRow(c)]
      /\ \/ ~there /\ pc' = [pc EXCEPT ![c] = "insertEvent"]
         \/ there /\ OfSport(c) /\ pc' = [pc EXCEPT ![c] = "updateEvent"]
         \/ /\ there /\ ~OfSport(c)
            /\ pc' = [pc EXCEPT ![c] = IF Quotes(c) = <<>> THEN "commit" ELSE "look"]
      /\ UNCHANGED <<cacheVars, known, tables, todo, snap, made, found, since, faults>>
  BY DEF Begin, Goto, GotoQuotes
<1>2. ThreadOK(c) /\ QuotesPlaced(c) /\ todo[c] # <<>>
  BY <1>1 DEF IngestInv, ThreadInv, ThreadOK
<1>3. /\ Event(c) \in Events /\ Len(Quotes(c)) \in Nat
      /\ Quotes(c) = <<>> <=> Len(Quotes(c)) = 0
  BY <1>1, <1>2, QuotesKnown, EmptySeq DEF IngestInv
<1>4. EventRow(c) \in EventRows /\ EventRow(c) # None /\ EventRow(c).external_id = Event(c)
  <2>1. known[Event(c)] \in Nat \cup {None}
    BY <1>3 DEF IngestInv, TypeOK
  <2>2. EventRow(c) \in EventRows /\ EventRow(c).external_id = Event(c)
    BY <1>3, <2>1 DEF EventRow, EventRows
  <2>. QED
    BY <2>2, IngestionAssumption
<1>5. UNCHANGED <<now, offer, stage, call, got>> /\ commits' = commits
  BY <1>1 DEF cacheVars, caches, locals, tables
<1>6. ThreadTypes'
  <2>1. pc' \in [Callers -> Steps] /\ pc'[c] # "announce"
        /\ \A d \in Others(c) : pc'[d] = pc[d]
    BY <1>1 DEF IngestInv, TypeOK, Steps, Writing, Others
  <2>2. row' \in [Callers -> EventRows \cup {None}]
    BY <1>1, <1>4 DEF IngestInv, TypeOK
  <2>3. clock' \in [Callers -> 0..now'] /\ pos' \in [Callers -> Nat]
    BY <1>1, <1>5 DEF IngestInv, TypeOK, CacheTypeOK
  <2>4. found' = [d \in Callers |-> IF pc'[d] = "announce" THEN found'[d] ELSE {}]
    BY <1>1 DEF IngestInv, TypeOK
  <2>. QED
    BY <1>1, <1>5, <2>1, <2>2, <2>3, <2>4 DEF ThreadTypes, IngestInv, TypeOK
<1>7. /\ pos'[c] = 1
      /\ row'[c] = (IF there /\ ~OfSport(c) THEN None ELSE EventRow(c))
      /\ \/ ~there /\ pc'[c] = "insertEvent"
         \/ there /\ OfSport(c) /\ pc'[c] = "updateEvent"
         \/ there /\ ~OfSport(c) /\ pc'[c] = (IF Quotes(c) = <<>> THEN "commit" ELSE "look")
  BY <1>1 DEF IngestInv, TypeOK
<1>8. /\ Event(c)' = Event(c) /\ Quotes(c)' = Quotes(c) /\ OfSport(c)' = OfSport(c)
      /\ StoredEvent(Event(c))' = StoredEvent(Event(c)) /\ MarketIds' = MarketIds
  BY <1>1, <1>5 DEF Event, Quotes, OfSport, StoredEvent, MarketIds, tables
<1>9. ThreadOK(c)'
  BY <1>1, <1>2, <1>3, <1>4, <1>5, <1>7, <1>8 DEF ThreadOK
<1>10. made'[c] = {}
  BY <1>1, <1>2 DEF QuotesPlaced, Writing
<1>11. QuotesPlaced(c)'
  BY <1>7, <1>10 DEF QuotesPlaced
<1>12. pc'[c] \notin {"idle"} \cup Evaluating
  BY <1>7 DEF Evaluating
<1>13. \A d \in Others(c) : /\ pc'[d] = pc[d] /\ pos'[d] = pos[d] /\ row'[d] = row[d]
                            /\ made'[d] = made[d]
  BY <1>1 DEF Others, IngestInv, TypeOK
<1>. QED
  BY <1>1, <1>6, <1>9, <1>10, <1>11, <1>12, <1>13, StatementStep

\* The events row is written before any quote.
LEMMA WriteEventInv ==
  ASSUME IngestInv, CacheInv', NEW c \in Callers, WriteEvent(c)
  PROVE  IngestInv'
<1>1. /\ pc[c] \in {"updateEvent", "insertEvent"}
      /\ pc' = [pc EXCEPT ![c] = IF Quotes(c) = <<>> THEN "commit" ELSE "look"]
      /\ UNCHANGED <<cacheVars, known, tables, todo, pos, clock, row, snap, made, found, since,
                     faults>>
  BY DEF WriteEvent, Goto, GotoQuotes
<1>2. ThreadOK(c) /\ QuotesPlaced(c) /\ todo[c] # <<>>
  BY <1>1 DEF IngestInv, ThreadInv, ThreadOK
<1>3. Len(Quotes(c)) \in Nat /\ (Quotes(c) = <<>> <=> Len(Quotes(c)) = 0)
  BY <1>1, <1>2, QuotesKnown, EmptySeq DEF IngestInv
<1>4. UNCHANGED <<now, offer, stage, call, got>> /\ commits' = commits
  BY <1>1 DEF cacheVars, caches, locals, tables
<1>5. ThreadTypes'
  BY <1>1, <1>4 DEF ThreadTypes, IngestInv, TypeOK, Steps, Writing
<1>6. pc'[c] = IF Quotes(c) = <<>> THEN "commit" ELSE "look"
  BY <1>1 DEF IngestInv, TypeOK
<1>7. /\ Event(c)' = Event(c) /\ Quotes(c)' = Quotes(c) /\ OfSport(c)' = OfSport(c)
      /\ StoredEvent(Event(c))' = StoredEvent(Event(c))
  BY <1>1, <1>4 DEF Event, Quotes, OfSport, StoredEvent, tables
<1>8. ThreadOK(c)'
  BY <1>1, <1>2, <1>3, <1>4, <1>6, <1>7 DEF ThreadOK
<1>9. made'[c] = {} /\ pos'[c] = 1
  BY <1>1, <1>2 DEF QuotesPlaced, Writing, ThreadOK
<1>10. QuotesPlaced(c)'
  BY <1>6, <1>9 DEF QuotesPlaced
<1>11. pc'[c] \notin {"idle"} \cup Evaluating
  BY <1>6 DEF Evaluating
<1>12. \A d \in Others(c) : /\ pc'[d] = pc[d] /\ pos'[d] = pos[d] /\ row'[d] = row[d]
                            /\ made'[d] = made[d]
  BY <1>1 DEF Others, IngestInv, TypeOK
<1>. QED
  BY <1>1, <1>5, <1>8, <1>9, <1>10, <1>11, <1>12, StatementStep

\* The search for a quote's market, and for the row to replace.
LEMMA LookInv ==
  ASSUME IngestInv, CacheInv', NEW c \in Callers, Look(c)
  PROVE  IngestInv'
<1>1. /\ pc[c] = "look"
      /\ \/ /\ MarketId(Quote(c)) \in made[c] \cup MarketIds
            /\ pc' = [pc EXCEPT ![c] = "replace"]
            /\ snap' = [snap EXCEPT ![c] = CommitOf(Quote(c))]
         \/ /\ pc' = [pc EXCEPT ![c] = "insertMarket"]
            /\ snap' = snap
      /\ UNCHANGED <<cacheVars, known, tables, todo, pos, clock, row, made, found, since, faults>>
  BY DEF Look, Goto, MarketIds
<1>2. ThreadOK(c) /\ QuotesPlaced(c) /\ todo[c] # <<>>
  BY <1>1 DEF IngestInv, ThreadInv, ThreadOK
<1>3. UNCHANGED <<now, offer, stage, call, got>> /\ commits' = commits
  BY <1>1 DEF cacheVars, caches, locals, tables
<1>4. CommitOf(Quote(c)) \in 0..commits
  <2>. DEFINE rows == LatestRow(MarketId(Quote(c)), Quote(c).sportsbook, latest)
  <2>1. commits \in Nat /\ \A r \in rows : r.commit \in 1..commits
    BY DEF LatestRow, IngestInv, TypeOK, QuoteRows
  <2>. HIDE DEF rows
  <2>2. CASE rows = {}
    BY <2>1, <2>2 DEF CommitOf, rows
  <2>3. CASE rows # {}
    <3>1. (CHOOSE r \in rows : TRUE) \in rows
      BY <2>3
    <3>2. CommitOf(Quote(c)) = (CHOOSE r \in rows : TRUE).commit
      BY <2>3 DEF CommitOf, rows
    <3>. QED
      BY <2>1, <3>1, <3>2
  <2>. QED
    BY <2>2, <2>3
<1>5. ThreadTypes'
  <2>1. snap' \in [Callers -> 0..commits']
    BY <1>1, <1>3, <1>4 DEF IngestInv, TypeOK
  <2>2. pc' \in [Callers -> Steps]
        /\ found' = [d \in Callers |-> IF pc'[d] = "announce" THEN found'[d] ELSE {}]
    BY <1>1 DEF IngestInv, TypeOK, Steps, Writing
  <2>. QED
    BY <1>1, <1>3, <2>1, <2>2 DEF ThreadTypes, IngestInv, TypeOK
<1>6. \/ pc'[c] = "replace" /\ MarketId(Quote(c)) \in made[c] \cup MarketIds
      \/ pc'[c] = "insertMarket"
  BY <1>1 DEF IngestInv, TypeOK
<1>7. /\ Event(c)' = Event(c) /\ Quotes(c)' = Quotes(c) /\ OfSport(c)' = OfSport(c)
      /\ Quote(c)' = Quote(c)
      /\ StoredEvent(Event(c))' = StoredEvent(Event(c)) /\ MarketIds' = MarketIds
  BY <1>1, <1>3 DEF Event, Quotes, Quote, OfSport, StoredEvent, MarketIds, tables
<1>8. ThreadOK(c)'
  BY <1>1, <1>2, <1>3, <1>6, <1>7 DEF ThreadOK, Writing
<1>9. QuotesPlaced(c)'
  BY <1>1, <1>2, <1>6, <1>7 DEF QuotesPlaced, Writing
<1>10. pc'[c] \notin {"idle"} \cup Evaluating
  BY <1>6 DEF Evaluating
<1>11. \A d \in Others(c) : /\ pc'[d] = pc[d] /\ pos'[d] = pos[d] /\ row'[d] = row[d]
                            /\ made'[d] = made[d]
  BY <1>1 DEF Others, IngestInv, TypeOK
<1>12. made'[c] \cap MarketIds = {} /\ \A d \in Others(c) : made'[c] \cap made[d] = {}
  BY <1>1 DEF IngestInv, MadeApart, Others
<1>. QED
  BY <1>1, <1>5, <1>8, <1>9, <1>10, <1>11, <1>12, StatementStep

\* A quote has been written: its market is there, or is the transaction's own.
LEMMA NextQuoteInv ==
  ASSUME IngestInv, CacheInv', NEW c \in Callers, pc[c] \in {"insertMarket", "replace"},
         NextQuote(c),
         UNCHANGED <<cacheVars, known, tables, todo, clock, row, found, since, faults>>,
         NEW own, made' = [made EXCEPT ![c] = own],
         made[c] \subseteq own, own \subseteq made[c] \cup {MarketId(Quote(c))},
         MarketId(Quote(c)) \in own \cup MarketIds,
         own \cap MarketIds = {}, \A d \in Others(c) : own \cap made[d] = {}
  PROVE  IngestInv'
<1>1. /\ pos' = [pos EXCEPT ![c] = @ + 1]
      /\ snap' = [snap EXCEPT ![c] = 0]
      /\ pc' = [pc EXCEPT ![c] = IF pos[c] = Len(Quotes(c)) THEN "commit" ELSE "look"]
  BY DEF NextQuote, Goto
<1>2. ThreadOK(c) /\ QuotesPlaced(c) /\ todo[c] # <<>>
  BY DEF IngestInv, ThreadInv, ThreadOK
<1>3. /\ Event(c) \in Events /\ Quotes(c) \in Seq(NormalQuotes(Event(c)))
      /\ Len(Quotes(c)) \in Nat /\ pos[c] \in 1..Len(Quotes(c))
  BY <1>2, QuotesKnown DEF IngestInv, ThreadOK
<1>4. MarketId(Quote(c)) \in MarketKeys
  <2>1. Quote(c) \in NormalQuotes(Event(c))
    BY <1>3, ElementOfSeq DEF Quote
  <2>. QED
    BY <1>3, <2>1, QuoteKeys
<1>5. UNCHANGED <<now, offer, stage, call, got>> /\ commits' = commits
  BY DEF cacheVars, caches, locals, tables
<1>6. ThreadTypes'
  <2>1. made' \in [Callers -> SUBSET MarketKeys]
    BY <1>4 DEF IngestInv, TypeOK
  <2>2. pos' \in [Callers -> Nat] /\ snap' \in [Callers -> 0..commits']
    BY <1>1, <1>5 DEF IngestInv, TypeOK
  <2>3. pc' \in [Callers -> Steps]
        /\ found' = [d \in Callers |-> IF pc'[d] = "announce" THEN found'[d] ELSE {}]
    BY <1>1 DEF IngestInv, TypeOK, Steps, Writing
  <2>. QED
    BY <1>5, <2>1, <2>2, <2>3 DEF ThreadTypes, IngestInv, TypeOK
<1>7. /\ pc'[c] = (IF pos[c] = Len(Quotes(c)) THEN "commit" ELSE "look")
      /\ pos'[c] = pos[c] + 1 /\ made'[c] = own
  BY <1>1 DEF IngestInv, TypeOK
<1>8. /\ Event(c)' = Event(c) /\ Quotes(c)' = Quotes(c) /\ OfSport(c)' = OfSport(c)
      /\ StoredEvent(Event(c))' = StoredEvent(Event(c)) /\ MarketIds' = MarketIds
  BY <1>5 DEF Event, Quotes, OfSport, StoredEvent, MarketIds, tables
<1>9. ThreadOK(c)'
  BY <1>2, <1>3, <1>5, <1>7, <1>8 DEF ThreadOK, Writing
<1>10. QuotesPlaced(c)'
  <2>1. Quote(c) = Quotes(c)[pos[c]]
    BY DEF Quote
  <2>2. \A i \in 1..(pos'[c] - 1) : MarketId(Quotes(c)[i]) \in own \cup MarketIds
    BY <1>2, <1>3, <1>7, <2>1 DEF QuotesPlaced, Writing
  <2>3. \A id \in own : \E i \in 1..(pos'[c] - 1) : MarketId(Quotes(c)[i]) = id
    <3>. SUFFICES ASSUME NEW id \in own
                  PROVE  \E i \in 1..(pos'[c] - 1) : MarketId(Quotes(c)[i]) = id
      OBVIOUS
    <3>1. CASE id \in made[c]
      BY <1>2, <1>3, <1>7, <3>1 DEF QuotesPlaced, Writing
    <3>2. CASE id = MarketId(Quote(c))
      BY <1>3, <1>7, <2>1, <3>2
    <3>. QED
      BY <3>1, <3>2
  <2>. QED
    BY <1>7, <1>8, <2>2, <2>3 DEF QuotesPlaced, Writing
<1>11. pc'[c] \notin {"idle"} \cup Evaluating
  BY <1>7 DEF Evaluating
<1>12. \A d \in Others(c) : /\ pc'[d] = pc[d] /\ pos'[d] = pos[d] /\ row'[d] = row[d]
                            /\ made'[d] = made[d]
  BY <1>1 DEF Others, IngestInv, TypeOK
<1>. QED
  BY <1>6, <1>7, <1>9, <1>10, <1>11, <1>12, StatementStep

\* A market inserted is nobody else's, for its key was free.
LEMMA InsertMarketInv ==
  ASSUME IngestInv, CacheInv', NEW c \in Callers, InsertMarket(c)
  PROVE  IngestInv'
<1>. DEFINE own == made[c] \cup {MarketId(Quote(c))}
<1>1. own \cap MarketIds = {}
  BY DEF InsertMarket, MarketIds, IngestInv, MadeApart
<1>2. \A d \in Others(c) : own \cap made[d] = {}
  BY DEF InsertMarket, IngestInv, MadeApart, Others
<1>3. made' = [made EXCEPT ![c] = own]
  BY DEF InsertMarket
<1>. QED
  BY <1>1, <1>2, <1>3, NextQuoteInv DEF InsertMarket

\* A quote is replaced in a market that is there.
LEMMA ReplaceInv ==
  ASSUME IngestInv, CacheInv', NEW c \in Callers, Replace(c)
  PROVE  IngestInv'
<1>1. made' = [made EXCEPT ![c] = made[c]]
  BY DEF Replace, IngestInv, TypeOK
<1>2. MarketId(Quote(c)) \in made[c] \cup MarketIds
  BY DEF Replace, IngestInv, ThreadInv, QuotesPlaced, Writing
<1>3. made[c] \cap MarketIds = {} /\ \A d \in Others(c) : made[c] \cap made[d] = {}
  BY DEF IngestInv, MadeApart, Others
<1>. QED
  BY <1>1, <1>2, <1>3, NextQuoteInv DEF Replace

-----------------------------------------------------------------------------
\* What ends a refresh commits nothing but the stamp.
LEMMA EndsInv ==
  ASSUME IngestInv, CacheInv', NEW c \in Callers, Lose(c) \/ DeadlockVictim(c) \/ Stamp(c)
  PROVE  IngestInv'
<1>1. EndRefresh(c) /\ UNCHANGED <<known, stored, markets, latest, history, audit, commits, faults>>
  BY DEF Lose, DeadlockVictim, Stamp, tables
<1>2. refreshed' \in Nat \cup {None}
  BY DEF Lose, DeadlockVictim, Stamp, tables, IngestInv, TypeOK, CacheTypeOK
<1>3. faults' \in 0..MaxFaults
  BY <1>1 DEF IngestInv, TypeOK
<1>. QED
  BY <1>1, <1>2, <1>3, EndRefreshInv

\* An error loses one transaction.
LEMMA AbortInv ==
  ASSUME IngestInv, CacheInv', NEW c \in Callers, Abort(c)
  PROVE  IngestInv'
<1>1. faults' \in 0..MaxFaults
  BY IngestionAssumption DEF Abort, IngestInv, TypeOK
<1>2. refreshed' \in Nat \cup {None}
  BY DEF Abort, tables, IngestInv, TypeOK
<1>3. CASE EndRefresh(c)
  BY <1>1, <1>2, <1>3, EndRefreshInv DEF Abort, tables
<1>4. CASE pc[c] \in Evaluating /\ NextEvent(c)
  BY <1>1, <1>4, NextEventInv DEF Abort, tables
<1>. QED
  BY <1>3, <1>4 DEF Abort, Evaluating

\* Opportunities are inserted; the tables of ingestion stay as they are.
LEMMA AnnounceInv ==
  ASSUME IngestInv, CacheInv', NEW c \in Callers, Announce(c)
  PROVE  IngestInv'
<1>1. pc[c] \in Evaluating /\ NextEvent(c)
  BY DEF Announce, Evaluating
<1>2. UNCHANGED <<known, stored, markets, latest, history, audit, commits, refreshed>>
  BY DEF Announce
<1>3. faults' \in 0..MaxFaults
  BY DEF Announce, IngestInv, TypeOK
<1>. QED
  BY <1>1, <1>2, <1>3, NextEventInv

\* An evaluation reads.
LEMMA EvaluationInv ==
  ASSUME IngestInv, CacheInv', NEW c \in Callers, EvalBegin(c) \/ Evaluate(c)
  PROVE  IngestInv'
<1>1. CASE EvalBegin(c) /\ NextEvent(c)
  <2>1. faults' \in 0..MaxFaults
    BY <1>1 DEF EvalBegin, IngestInv, TypeOK
  <2>. QED
    BY <1>1, <2>1, NextEventInv DEF EvalBegin, Evaluating, tables
<1>2. CASE ~(EvalBegin(c) /\ NextEvent(c))
  <2>1. /\ pc[c] \in {"evalBegin", "evaluate"}
        /\ \/ /\ pc' = [pc EXCEPT ![c] = "evaluate"]
              /\ clock' = [clock EXCEPT ![c] = now] /\ found' = found
           \/ /\ pc' = [pc EXCEPT ![c] = "announce"]
              /\ clock' = clock /\ \E new : found' = [found EXCEPT ![c] = new]
        /\ UNCHANGED <<cacheVars, known, tables, todo, pos, row, snap, made, since, faults>>
    BY <1>2 DEF EvalBegin, Evaluate, Goto
  <2>2. UNCHANGED <<now, offer, stage, call, got>> /\ commits' = commits
    BY <2>1 DEF cacheVars, caches, locals, tables
  <2>3. pc'[c] \in {"evaluate", "announce"}
    BY <2>1 DEF IngestInv, TypeOK
  <2>4. ThreadTypes'
    <3>1. pc' \in [Callers -> Steps]
      BY <2>1 DEF IngestInv, TypeOK, Steps
    <3>3. clock' \in [Callers -> 0..now']
      <4>1. now \in 0..now /\ clock \in [Callers -> 0..now]
        BY DEF IngestInv, TypeOK, CacheTypeOK
      <4>. QED
        BY <2>1, <2>2, <4>1
    <3>2. found' = [d \in Callers |-> IF pc'[d] = "announce" THEN found'[d] ELSE {}]
      BY <2>1 DEF IngestInv, TypeOK
    <3>. QED
      BY <2>1, <2>2, <3>1, <3>2, <3>3 DEF ThreadTypes, IngestInv, TypeOK
  <2>5. Event(c)' = Event(c) /\ OfSport(c)' = OfSport(c)
    BY <2>1, <2>2 DEF Event, OfSport
  <2>6. ThreadOK(c)' /\ QuotesPlaced(c)'
    BY <2>1, <2>2, <2>3, <2>5 DEF IngestInv, ThreadInv, ThreadOK, QuotesPlaced, Writing
  <2>7. \A d \in Others(c) : /\ pc'[d] = pc[d] /\ pos'[d] = pos[d] /\ row'[d] = row[d]
                             /\ made'[d] = made[d]
    BY <2>1 DEF Others, IngestInv, TypeOK
  <2>8. made'[c] \cap MarketIds = {} /\ \A d \in Others(c) : made'[c] \cap made[d] = {}
    BY <2>1 DEF IngestInv, MadeApart, Others
  <2>9. pc[c] # "idle" /\ pc'[c] # "idle" /\ pc[c] \in Evaluating
    BY <2>1, <2>3 DEF Evaluating
  <2>. QED
    BY <2>1, <2>4, <2>6, <2>7, <2>8, <2>9, StatementStep
<1>. QED
  BY <1>1, <1>2

-----------------------------------------------------------------------------
\* The quotes that created their market.
Created(c) == {i \in DOMAIN Quotes(c) : PersistedQuotes(c)[i].market_created}

MarketIsNew(c, i) ==
    /\ MarketId(Quotes(c)[i]) \in made[c]
    /\ \A j \in 1..(i - 1) : MarketId(Quotes(c)[j]) # MarketId(Quotes(c)[i])

\* What a refresh knows when it commits.
LEMMA CommitKnown ==
  ASSUME IngestInv, NEW c \in Callers, pc[c] = "commit"
  PROVE  /\ ThreadInv(c) /\ todo[c] # <<>> /\ Event(c) \in Events
         /\ got[c] \in 0..offer /\ commits \in Nat /\ clock[c] \in 0..now
         /\ Len(Quotes(c)) \in Nat /\ DOMAIN Quotes(c) = 1..Len(Quotes(c))
         /\ \A i \in 1..Len(Quotes(c)) :
              /\ Quotes(c)[i] \in NormalQuotes(Event(c))
              /\ MarketId(Quotes(c)[i]) \in MarketKeys
              /\ MarketId(Quotes(c)[i]) \in made[c] \cup MarketIds
              /\ PersistedQuotes(c)[i].quote = Quotes(c)[i]
              /\ PersistedQuotes(c)[i].market_id = MarketId(Quotes(c)[i])
              /\ PersistedQuotes(c)[i].market_created <=> MarketIsNew(c, i)
         /\ \A id \in made[c] : \E i \in 1..Len(Quotes(c)) : MarketId(Quotes(c)[i]) = id
         /\ \/ row[c] = None /\ StoredEvent(Event(c)) # {}
            \/ row[c] # None /\ row[c].external_id = Event(c)
<1>1. ThreadInv(c) /\ todo[c] # <<>> /\ ThreadOK(c)
  BY DEF IngestInv, ThreadInv, ThreadOK
<1>2. /\ Event(c) \in Events /\ got[c] \in 0..offer
      /\ Quotes(c) \in Seq(NormalQuotes(Event(c)))
      /\ Len(Quotes(c)) \in Nat /\ DOMAIN Quotes(c) = 1..Len(Quotes(c))
  <2>1. offer \in Nat /\ TypeOK /\ CacheInv
    BY DEF IngestInv, TypeOK, CacheTypeOK
  <2>. QED
    BY <1>1, <2>1, QuotesKnown
<1>3. pos[c] - 1 = Len(Quotes(c))
  BY <1>1, <1>2 DEF ThreadOK
<1>4. ASSUME NEW i \in 1..Len(Quotes(c))
      PROVE  /\ Quotes(c)[i] \in NormalQuotes(Event(c))
             /\ MarketId(Quotes(c)[i]) \in MarketKeys
             /\ MarketId(Quotes(c)[i]) \in made[c] \cup MarketIds
             /\ PersistedQuotes(c)[i].quote = Quotes(c)[i]
             /\ PersistedQuotes(c)[i].market_id = MarketId(Quotes(c)[i])
             /\ PersistedQuotes(c)[i].market_created <=> MarketIsNew(c, i)
  <2>1. Quotes(c)[i] \in NormalQuotes(Event(c))
    BY <1>2, ElementOfSeq
  <2>2. MarketId(Quotes(c)[i]) \in MarketKeys
    BY <1>2, <2>1, QuoteKeys
  <2>3. MarketId(Quotes(c)[i]) \in made[c] \cup MarketIds
    BY <1>1, <1>3 DEF ThreadInv, QuotesPlaced, Writing
  <2>4. PersistedQuotes(c)[i] = [quote          |-> Quotes(c)[i],
                                 market_id      |-> MarketId(Quotes(c)[i]),
                                 market_created |-> MarketIsNew(c, i)]
    BY <1>2, Zenon DEF PersistedQuotes, MarketIsNew
  <2>. QED
    BY <2>1, <2>2, <2>3, <2>4
<1>5. \A id \in made[c] : \E i \in 1..Len(Quotes(c)) : MarketId(Quotes(c)[i]) = id
  BY <1>1, <1>3 DEF ThreadInv, QuotesPlaced, Writing
<1>6. \/ row[c] = None /\ StoredEvent(Event(c)) # {}
      \/ row[c] # None /\ row[c].external_id = Event(c)
  BY <1>1 DEF ThreadOK, Writing
<1>7. commits \in Nat /\ clock[c] \in 0..now
  BY DEF IngestInv, TypeOK
<1>. QED
  BY <1>1, <1>2, <1>4, <1>5, <1>6, <1>7

\* Every market a refresh inserts was created by one of its quotes.
LEMMA CreatedOnce ==
  ASSUME IngestInv, NEW c \in Callers, pc[c] = "commit"
  PROVE  /\ Created(c) \subseteq 1..Len(Quotes(c))
         /\ \A i \in Created(c) : MarketId(Quotes(c)[i]) \in made[c]
         /\ \A id \in made[c] : \E i \in Created(c) :
              /\ MarketId(Quotes(c)[i]) = id
              /\ \A j \in Created(c) : MarketId(Quotes(c)[j]) = id => j = i
<1>1. Created(c) \subseteq 1..Len(Quotes(c))
  BY CommitKnown DEF Created
<1>2. \A i \in 1..Len(Quotes(c)) : i \in Created(c) <=>
         /\ MarketId(Quotes(c)[i]) \in made[c]
         /\ \A j \in 1..(i - 1) : MarketId(Quotes(c)[j]) # MarketId(Quotes(c)[i])
  BY CommitKnown DEF Created, MarketIsNew
<1>3. ASSUME NEW id \in made[c]
      PROVE  \E i \in Created(c) :
                /\ MarketId(Quotes(c)[i]) = id
                /\ \A j \in Created(c) : MarketId(Quotes(c)[j]) = id => j = i
  <2>. DEFINE S == {i \in 1..Len(Quotes(c)) : MarketId(Quotes(c)[i]) = id}
  <2>1. S \subseteq Nat /\ S # {}
    <3>1. \E i \in 1..Len(Quotes(c)) : MarketId(Quotes(c)[i]) = id
      BY <1>3, CommitKnown
    <3>. QED
      BY <3>1
  <2>2. PICK i \in S : \A j \in S : i <= j
    BY <2>1, FirstOf
  <2>3. Len(Quotes(c)) \in Nat
    BY CommitKnown
  <2>4. i \in Created(c)
    BY <1>2, <2>2, <2>3
  <2>5. ASSUME NEW j \in Created(c), MarketId(Quotes(c)[j]) = id PROVE j = i
    <3>1. j \in S /\ j \in Nat /\ i \in Nat /\ i <= j /\ i >= 1
      BY <1>1, <2>2, <2>3, <2>5
    <3>2. ~(i \in 1..(j - 1))
      BY <1>1, <1>2, <2>2, <2>5
    <3>. QED
      BY <3>1, <3>2
  <2>. QED
    BY <2>2, <2>4, <2>5
<1>. QED
  BY <1>1, <1>2, <1>3

\* The market a quote creates.
MarketOf(q) ==
    [id |-> MarketId(q), event_id |-> q.event_id, market_type |-> q.market_type,
     selection |-> q.selection, line |-> q.line]

\* The markets a commit inserts are those its quotes created.
LEMMA CreatedMarkets ==
  ASSUME IngestInv, NEW c \in Callers, pc[c] = "commit"
  PROVE  NewMarkets(c) = {MarketOf(Quotes(c)[i]) : i \in Created(c)}
<1>1. \A i \in Created(c) : /\ PersistedQuotes(c)[i].quote = Quotes(c)[i]
                            /\ PersistedQuotes(c)[i].market_id = MarketId(Quotes(c)[i])
  BY CommitKnown, CreatedOnce
<1>2. NewMarkets(c) =
        {[id |-> p.market_id, event_id |-> p.quote.event_id, market_type |-> p.quote.market_type,
          selection |-> p.quote.selection, line |-> p.quote.line] :
            p \in {PersistedQuotes(c)[i] : i \in Created(c)}}
  BY Zenon DEF NewMarkets, Created
<1>. QED
  BY <1>1, <1>2 DEF MarketOf

\* What a commit adds to the markets.
LEMMA CommitMarkets ==
  ASSUME IngestInv, NEW c \in Callers, Commit(c)
  PROVE  /\ NewMarkets(c) \subseteq MarketRows
         /\ \A m \in NewMarkets(c) : m.id = MarketId(m) /\ m.event_id = Event(c)
         /\ markets' = markets \cup NewMarkets(c)
         /\ MarketIds' = MarketIds \cup made[c]
<1>1. pc[c] = "commit" /\ markets' = markets \cup NewMarkets(c)
  BY DEF Commit, AfterCommit
<1>2. NewMarkets(c) = {MarketOf(Quotes(c)[i]) : i \in Created(c)}
  BY <1>1, CreatedMarkets
<1>3. ASSUME NEW i \in Created(c)
      PROVE  /\ MarketOf(Quotes(c)[i]) \in MarketRows
             /\ MarketOf(Quotes(c)[i]).id = MarketId(MarketOf(Quotes(c)[i]))
             /\ MarketOf(Quotes(c)[i]).event_id = Event(c)
             /\ MarketOf(Quotes(c)[i]).id = MarketId(Quotes(c)[i])
  <2>1. /\ Quotes(c)[i] \in NormalQuotes(Event(c)) /\ Event(c) \in Events
        /\ MarketId(Quotes(c)[i]) \in MarketKeys
    BY <1>1, CommitKnown, CreatedOnce
  <2>2. /\ Quotes(c)[i].event_id = Event(c) /\ Quotes(c)[i].market_type \in MarketTypes
        /\ Quotes(c)[i].selection \in STRING \ {""} /\ Quotes(c)[i].line \in Int \cup {None}
    BY <2>1 DEF NormalQuotes
  <2>. QED
    BY <2>1, <2>2 DEF MarketOf, MarketRows, MarketId
<1>4. {m.id : m \in NewMarkets(c)} = made[c]
  <2>1. ASSUME NEW m \in NewMarkets(c) PROVE m.id \in made[c]
    BY <1>1, <1>2, <1>3, CreatedOnce
  <2>2. ASSUME NEW id \in made[c] PROVE \E m \in NewMarkets(c) : m.id = id
    BY <1>1, <1>2, <1>3, CreatedOnce
  <2>. QED
    BY <2>1, <2>2
<1>5. MarketIds' = MarketIds \cup {m.id : m \in NewMarkets(c)}
  BY <1>1 DEF MarketIds
<1>. QED
  BY <1>1, <1>2, <1>3, <1>4, <1>5

\* What it adds to the history.
LEMMA CommitRows ==
  ASSUME IngestInv, NEW c \in Callers, Commit(c)
  PROVE  /\ Rows(c) \subseteq QuoteRows'
         /\ \A r \in Rows(c) : /\ r.commit = commits + 1 /\ r.version = got[c]
                               /\ r.place \in 1..Len(Quotes(c))
         /\ \A i \in 1..Len(Quotes(c)) : \E r \in Rows(c) :
              BookKey(Quotes(c)[i]) = <<r.market_id, r.sportsbook>>
<1>1. /\ pc[c] = "commit" /\ commits' = commits + 1 /\ UNCHANGED <<now, offer>>
      /\ MarketIds' = MarketIds \cup made[c]
  BY CommitMarkets DEF Commit, AfterCommit, cacheVars
<1>. DEFINE r(i) == [market_id   |-> MarketId(Quotes(c)[i]),
                     sportsbook  |-> Quotes(c)[i].sportsbook,
                     price       |-> Quotes(c)[i].price,
                     quoted_at   |-> Quotes(c)[i].quoted_at,
                     ingested_at |-> clock[c],
                     version     |-> got[c],
                     commit      |-> commits + 1,
                     place       |-> i]
<1>2. Rows(c) = {r(i) : i \in 1..Len(Quotes(c))}
  BY <1>1, CommitKnown DEF Rows
<1>3. ASSUME NEW i \in 1..Len(Quotes(c))
      PROVE  r(i) \in QuoteRows'
  <2>1. /\ MarketId(Quotes(c)[i]) \in MarketIds'
        /\ Quotes(c)[i] \in NormalQuotes(Event(c))
        /\ got[c] \in 0..offer' /\ clock[c] \in 0..now' /\ commits + 1 \in 1..commits'
        /\ i \in Nat \ {0}
    BY <1>1, CommitKnown
  <2>2. /\ Quotes(c)[i].sportsbook \in Nat \ {0} /\ Quotes(c)[i].price \in Int
        /\ Quotes(c)[i].quoted_at \in Nat \cup {None}
    BY <2>1 DEF NormalQuotes
  <2>. QED
    BY <2>1, <2>2 DEF QuoteRows, MarketIds
<1>4. ASSUME NEW i \in 1..Len(Quotes(c))
      PROVE BookKey(Quotes(c)[i]) = <<r(i).market_id, r(i).sportsbook>>
  BY DEF BookKey
<1>5. ASSUME NEW i \in 1..Len(Quotes(c))
      PROVE  r(i).commit = commits + 1 /\ r(i).version = got[c] /\ r(i).place = i
  OBVIOUS
<1>. HIDE DEF r
<1>. QED
  BY <1>2, <1>3, <1>4, <1>5

\* Its snapshots are of the markets it adds, one each.
Snapshots(id) ==
    {a \in audit : a.event_type = "MarketSnapshotCreated" /\ a.aggregate_id = id}

\* New markets get their only snapshot, old ones no more.
LEMMA CommitSnapshots ==
  ASSUME IngestInv, NEW c \in Callers, Commit(c)
  PROVE  /\ SnapshotsKnown'
         /\ OneSnapshotPerMarket'
<1>1. /\ pc[c] = "commit"
      /\ audit' = audit \cup RefreshEvents(commits + 1, Event(c), PersistedQuotes(c))
      /\ MarketIds' = MarketIds \cup made[c] /\ made[c] \cap MarketIds = {}
  BY CommitMarkets DEF Commit, AfterCommit, IngestInv, MadeApart
<1>. DEFINE a(i) == MarketSnapshotCreated(commits + 1, PersistedQuotes(c)[i])
            new == {a(i) : i \in Created(c)}
<1>2. ASSUME NEW x PROVE
        x \in audit' /\ x.event_type = "MarketSnapshotCreated" <=>
          \/ x \in audit /\ x.event_type = "MarketSnapshotCreated"
          \/ x \in new
  <2>. DEFINE updates == {QuoteUpdated(commits + 1, PersistedQuotes(c)[i]) :
                            i \in DOMAIN PersistedQuotes(c)}
              summary == QuotesRefreshed(commits + 1, Event(c), PersistedQuotes(c))
  <2>1. DOMAIN PersistedQuotes(c) = DOMAIN Quotes(c)
    BY DEF PersistedQuotes
  <2>2. RefreshEvents(commits + 1, Event(c), PersistedQuotes(c)) = new \cup updates \cup {summary}
    BY <2>1, Zenon DEF RefreshEvents, Created
  <2>3. ASSUME NEW u \in updates PROVE u.event_type = "QuoteUpdated"
    BY DEF QuoteUpdated
  <2>4. summary.event_type = "QuotesRefreshed"
    BY DEF QuotesRefreshed
  <2>5. ASSUME NEW n \in new PROVE n.event_type = "MarketSnapshotCreated"
    BY DEF MarketSnapshotCreated
  <2>. HIDE DEF new, updates, summary
  <2>. QED
    BY <1>1, <2>2, <2>3, <2>4, <2>5
<1>3. \A i \in Created(c) : a(i).aggregate_id = MarketId(Quotes(c)[i])
  BY <1>1, CommitKnown, CreatedOnce DEF MarketSnapshotCreated
<1>. HIDE DEF a
<1>4. SnapshotsKnown'
  <2>. SUFFICES ASSUME NEW x \in audit', x.event_type = "MarketSnapshotCreated"
                PROVE  x.aggregate_id \in MarketIds'
    BY DEF SnapshotsKnown
  <2>. QED
    BY <1>1, <1>2, <1>3, CreatedOnce DEF IngestInv, SnapshotsKnown
<1>5. ASSUME NEW m \in markets' PROVE Cardinality(Snapshots(m.id)') = 1
  <2>1. m.id \in MarketIds \cup made[c]
    BY <1>1 DEF MarketIds
  <2>2. CASE m.id \in MarketIds
    <3>1. Snapshots(m.id)' = Snapshots(m.id)
      BY <1>1, <1>2, <1>3, <2>2, CreatedOnce DEF Snapshots
    <3>2. \E n \in markets : n.id = m.id
      BY <2>2 DEF MarketIds
    <3>. QED
      BY <3>1, <3>2 DEF IngestInv, OneSnapshotPerMarket, Snapshots
  <2>3. CASE m.id \in made[c]
    <3>1. PICK i \in Created(c) : /\ MarketId(Quotes(c)[i]) = m.id
                                 /\ \A j \in Created(c) : MarketId(Quotes(c)[j]) = m.id => j = i
      BY <1>1, <2>3, CreatedOnce
    <3>2. Snapshots(m.id)' = {a(i)}
      BY <1>1, <1>2, <1>3, <2>3, <3>1 DEF Snapshots, IngestInv, SnapshotsKnown
    <3>. QED
      BY <3>2, FS_Singleton
  <2>. QED
    BY <2>1, <2>2, <2>3
<1>6. OneSnapshotPerMarket'
  BY <1>5 DEF OneSnapshotPerMarket, Snapshots
<1>. QED
  BY <1>4, <1>6

\* The new rows of a book are newer than its old ones, and the last one stays.
LEMMA CommitLatest ==
  ASSUME IngestInv, NEW c \in Callers, Commit(c)
  PROVE  LatestIsNewestHistory'
<1>1. /\ latest' = {r \in latest : \A s \in Rows(c) : ~SameBook(r, s)} \cup Replacing(c)
      /\ history' = history \cup Rows(c) /\ pc[c] = "commit"
  BY DEF Commit
<1>2. /\ \A h \in history : h.commit < commits + 1
      /\ \A h \in Rows(c) : h.commit = commits + 1 /\ h.place \in 1..Len(Quotes(c))
      /\ Len(Quotes(c)) \in Nat
  <2>1. \A h \in history : h.commit \in 1..commits
    BY DEF IngestInv, TypeOK, QuoteRows
  <2>2. commits \in Nat /\ Len(Quotes(c)) \in Nat
    BY <1>1, CommitKnown
  <2>. QED
    BY <2>1, <2>2, CommitRows
<1>3. LatestIsNewestHistory
  BY DEF IngestInv
<1>4. ASSUME NEW h \in Rows(c) PROVE \E r \in Replacing(c) : SameBook(r, h)
  <2>. DEFINE S == {s.place : s \in {s \in Rows(c) : SameBook(s, h)}}
  <2>1. S \subseteq 0..Len(Quotes(c)) /\ S # {}
    BY <1>2, <1>4 DEF SameBook
  <2>2. PICK n \in S : \A m \in S : m <= n
    BY <1>2, <2>1, LastOf
  <2>3. PICK s \in Rows(c) : SameBook(s, h) /\ s.place = n
    BY <2>2
  <2>4. ASSUME NEW t \in Rows(c), SameBook(s, t) PROVE t.place <= s.place
    BY <2>2, <2>3, <2>4 DEF SameBook
  <2>. QED
    BY <2>3, <2>4 DEF Replacing
<1>5. ASSUME NEW r \in latest'
      PROVE  /\ r \in history'
             /\ \A h \in history' : SameBook(h, r) =>
                  h.commit < r.commit \/ (h.commit = r.commit /\ h.place <= r.place)
  <2>1. CASE r \in latest /\ \A s \in Rows(c) : ~SameBook(r, s)
    BY <1>1, <1>3, <2>1 DEF LatestIsNewestHistory, SameBook
  <2>2. CASE r \in Replacing(c)
    <3>1. r \in Rows(c) /\ \A s \in Rows(c) : SameBook(r, s) => s.place <= r.place
      BY <2>2 DEF Replacing
    <3>. QED
      BY <1>1, <1>2, <3>1 DEF SameBook
  <2>. QED
    BY <1>1, <1>5, <2>1, <2>2
<1>6. ASSUME NEW h \in history' PROVE \E r \in latest' : SameBook(r, h)
  <2>1. CASE h \in Rows(c)
    BY <1>1, <1>4, <2>1
  <2>2. CASE h \in history
    <3>1. PICK r \in latest : SameBook(r, h)
      BY <1>3, <2>2 DEF LatestIsNewestHistory
    <3>2. CASE \A s \in Rows(c) : ~SameBook(r, s)
      BY <1>1, <3>1, <3>2
    <3>3. CASE \E s \in Rows(c) : SameBook(r, s)
      BY <1>1, <1>4, <3>1, <3>3 DEF SameBook
    <3>. QED
      BY <3>2, <3>3
  <2>. QED
    BY <1>1, <1>6, <2>1, <2>2
<1>. QED
  BY <1>5, <1>6, Zenon DEF LatestIsNewestHistory, SameBook

\* A commit stores rows of their types, and no event goes.
LEMMA CommitTypes ==
  ASSUME IngestInv, CacheInv', NEW c \in Callers, Commit(c)
  PROVE  /\ TypeOK'
         /\ \A e : StoredEvent(e) # {} => StoredEvent(e)' # {}
<1>1. /\ pc[c] = "commit"
      /\ latest' = {r \in latest : \A s \in Rows(c) : ~SameBook(r, s)} \cup Replacing(c)
      /\ history' = history \cup Rows(c)
      /\ pc' = [pc EXCEPT ![c] = "evalBegin"]
      /\ clock' = [clock EXCEPT ![c] = 0]
      /\ row' = [row EXCEPT ![c] = None]
      /\ made' = [made EXCEPT ![c] = {}]
      /\ commits' = commits + 1
      /\ stored' = IF row[c] = None THEN stored
                   ELSE (stored \ StoredEvent(Event(c))) \cup {row[c]}
      /\ UNCHANGED <<cacheVars, known, refreshed, todo, pos, snap, found, since, faults>>
  BY DEF Commit, AfterCommit, Goto
<1>2. /\ markets' = markets \cup NewMarkets(c) /\ NewMarkets(c) \subseteq MarketRows
      /\ \A m \in NewMarkets(c) : m.id = MarketId(m) /\ m.event_id = Event(c)
      /\ Rows(c) \subseteq QuoteRows'
  BY CommitMarkets, CommitRows
<1>3. UNCHANGED <<now, offer>>
  BY <1>1 DEF cacheVars
<1>4. ASSUME NEW e, StoredEvent(e) # {} PROVE StoredEvent(e)' # {}
  <2>1. CASE row[c] = None
    BY <1>1, <1>4, <2>1 DEF StoredEvent
  <2>2. CASE row[c] # None
    <3>1. row[c] \in stored' /\ row[c].external_id = Event(c)
      BY <1>1, <2>2, CommitKnown
    <3>2. PICK s \in stored : s.external_id = e
      BY <1>4 DEF StoredEvent
    <3>. QED
      BY <1>1, <2>2, <3>1, <3>2 DEF StoredEvent
  <2>. QED
    BY <2>1, <2>2
<1>5. \E s \in stored' : s.external_id = Event(c)
  <2>1. CASE row[c] = None
    BY <1>1, <2>1, CommitKnown DEF StoredEvent
  <2>2. CASE row[c] # None
    BY <1>1, <2>2, CommitKnown
  <2>. QED
    BY <2>1, <2>2
<1>6. stored' \subseteq EventRows
  BY <1>1 DEF IngestInv, TypeOK
<1>7. \A m \in markets' : m.id = MarketId(m) /\ StoredEvent(m.event_id)' # {}
  <2>1. ASSUME NEW m \in markets PROVE m.id = MarketId(m) /\ StoredEvent(m.event_id)' # {}
    BY <1>4 DEF IngestInv, TypeOK
  <2>2. ASSUME NEW m \in NewMarkets(c) PROVE m.id = MarketId(m) /\ StoredEvent(m.event_id)' # {}
    BY <1>2, <1>5 DEF StoredEvent
  <2>. QED
    BY <1>2, <2>1, <2>2
<1>8. latest' \cup history' \subseteq QuoteRows'
  <2>1. QuoteRows \subseteq QuoteRows'
    BY <1>1, <1>2, <1>3 DEF QuoteRows, IngestInv, TypeOK
  <2>. QED
    BY <1>1, <1>2, <2>1 DEF Replacing, IngestInv, TypeOK
<1>9. ThreadTypes'
  <2>1. pc' \in [Callers -> Steps]
        /\ found' = [d \in Callers |-> IF pc'[d] = "announce" THEN found'[d] ELSE {}]
    BY <1>1 DEF IngestInv, TypeOK, Steps
  <2>2. clock' \in [Callers -> 0..now'] /\ commits' \in Nat
    BY <1>1, <1>3 DEF IngestInv, TypeOK, CacheTypeOK
  <2>3. /\ row' \in [Callers -> EventRows \cup {None}]
        /\ made' \in [Callers -> SUBSET MarketKeys]
    BY <1>1 DEF IngestInv, TypeOK
  <2>4. snap' \in [Callers -> 0..commits'] /\ since' \in [Callers -> 0..commits']
    BY <1>1 DEF IngestInv, TypeOK
  <2>. QED
    BY <1>1, <2>1, <2>2, <2>3, <2>4 DEF ThreadTypes, IngestInv, TypeOK
<1>10. /\ CacheTypeOK' /\ offer' <= MaxVersion /\ commits' \in Nat
       /\ markets' \subseteq MarketRows
  BY <1>1, <1>2, <1>3 DEF CacheInv, IngestInv, TypeOK
<1>. QED
  BY <1>1, <1>4, <1>6, <1>7, <1>8, <1>9, <1>10 DEF TypeOK, ThreadTypes, IngestInv

\* A commit.
LEMMA CommitInv ==
  ASSUME IngestInv, CacheInv', NEW c \in Callers, Commit(c)
  PROVE  IngestInv'
<1>1. /\ pc[c] = "commit"
      /\ latest' = {r \in latest : \A s \in Rows(c) : ~SameBook(r, s)} \cup Replacing(c)
      /\ history' = history \cup Rows(c)
      /\ pc' = [pc EXCEPT ![c] = "evalBegin"]
      /\ row' = [row EXCEPT ![c] = None]
      /\ made' = [made EXCEPT ![c] = {}]
      /\ UNCHANGED <<cacheVars, todo, pos, since>>
  BY DEF Commit, AfterCommit, Goto
<1>2. UNCHANGED <<now, offer, stage, call, got>>
  BY <1>1 DEF cacheVars, caches, locals
<1>3. pc'[c] = "evalBegin" /\ made'[c] = {}
  BY <1>1 DEF IngestInv, TypeOK
<1>4. MarketIds' = MarketIds \cup made[c]
  BY CommitMarkets
<1>5. \A d \in Callers, r \in latest' : r \in latest \/ ~(r.commit <= since[d])
  <2>1. \A r \in Rows(c) : r.commit = commits + 1
    BY CommitRows
  <2>2. commits \in Nat /\ \A d \in Callers : since[d] \in 0..commits
    BY DEF IngestInv, TypeOK
  <2>3. Replacing(c) \subseteq Rows(c)
    BY DEF Replacing
  <2>. QED
    BY <1>1, <2>1, <2>2, <2>3
<1>6. \A d \in Others(c) : ThreadInv(d)'
  <2>1. \A d \in Others(c) : Still(d)
    BY <1>1, <1>2 DEF Still, Others, IngestInv, TypeOK
  <2>2. MarketIds \subseteq MarketIds' /\ history \subseteq history'
    BY <1>1, <1>4
  <2>3. \A d \in Others(c) : d \in Callers /\ ThreadInv(d)
    BY DEF Others, IngestInv
  <2>. QED
    BY <1>5, <2>1, <2>2, <2>3, CommitTypes, Undisturbed
<1>7. ThreadInv(c)'
  <2>1. Event(c)' = Event(c) /\ OfSport(c)' = OfSport(c)
    BY <1>1, <1>2 DEF Event, OfSport
  <2>2. ThreadOK(c)'
    BY <1>1, <1>2, <1>3, <2>1 DEF ThreadOK, Writing, IngestInv, ThreadInv
  <2>3. QuotesPlaced(c)'
    BY <1>3 DEF QuotesPlaced, Writing
  <2>4. Progress(c)'
    <3>1. ASSUME NEW version, NEW e, Ingested(version, e) PROVE Ingested(version, e)'
      BY <1>1, <3>1 DEF Ingested
    <3>2. Ingested(got[c], Event(c))'
      <4>1. \A i \in 1..Len(Quotes(c)) : \E r \in Rows(c) :
              r.version = got[c] /\ BookKey(Quotes(c)[i]) = <<r.market_id, r.sportsbook>>
        BY CommitRows
      <4>2. Quotes(c) = Payload[got[c]][Event(c)] /\ DOMAIN Quotes(c) = 1..Len(Quotes(c))
        BY <1>1, CommitKnown DEF Quotes
      <4>. QED
        BY <1>1, <1>2, <2>1, <4>1, <4>2 DEF Ingested
    <3>3. Progress(c)
      BY DEF IngestInv, ThreadInv
    <3>. QED
      BY <1>1, <1>2, <2>1, <3>1, <3>2, <3>3 DEF Progress
  <2>5. SinceKept(c)'
    BY <1>1, <1>2, <1>5 DEF SinceKept, IngestInv, ThreadInv
  <2>. QED
    BY <2>2, <2>3, <2>4, <2>5 DEF ThreadInv
<1>8. MadeApart'
  <2>1. \A d \in Callers : made'[d] = IF d = c THEN {} ELSE made[d]
    BY <1>1 DEF IngestInv, TypeOK
  <2>. QED
    BY <1>4, <2>1 DEF IngestInv, MadeApart
<1>. QED
  BY <1>6, <1>7, <1>8, CommitTypes, CommitSnapshots, CommitLatest DEF IngestInv, Others

-----------------------------------------------------------------------------
\* A process that starts, on an empty database.
LEMMA IngestInit == Init => IngestInv
<1>. SUFFICES ASSUME Init PROVE IngestInv
  OBVIOUS
<1>. USE DEF Init, NoThreads
<1>1. CacheInv
  BY InitInv
<1>2. TypeOK
  BY <1>1, CacheAssumption, IngestionAssumption DEF CacheInit, CacheInv, TypeOK, Steps
<1>3. \A c \in Callers : ThreadInv(c)
  <2>1. \A c \in Callers : pc[c] = "idle" /\ made[c] = {} /\ since[c] = 0
    OBVIOUS
  <2>2. \A c \in Callers : ThreadOK(c) /\ Progress(c)
    BY <2>1 DEF ThreadOK, Progress
  <2>3. \A c \in Callers : QuotesPlaced(c)
    BY <2>1 DEF QuotesPlaced, Writing
  <2>4. \A c \in Callers : SinceKept(c)
    BY <2>1 DEF SinceKept
  <2>. QED
    BY <2>2, <2>3, <2>4 DEF ThreadInv
<1>4. MadeApart /\ SnapshotsKnown
  BY DEF MadeApart, SnapshotsKnown
<1>5. OneSnapshotPerMarket /\ LatestIsNewestHistory
  BY DEF OneSnapshotPerMarket, LatestIsNewestHistory
<1>. QED
  BY <1>1, <1>2, <1>3, <1>4, <1>5 DEF IngestInv

\* The invariant is inductive.
LEMMA IngestStep == IngestInv /\ [Next]_vars => IngestInv'
<1>. SUFFICES ASSUME IngestInv, [Next]_vars PROVE IngestInv'
  OBVIOUS
<1>1. CacheInv'
  BY StepCaches, StepInv DEF IngestInv
<1>2. CASE UNCHANGED vars
  <2>. USE <1>2 DEF vars, tables, thread, cacheVars, caches, locals
  <2>1. TypeOK'
    BY DEF IngestInv, TypeOK, CacheTypeOK, QuoteRows, StoredEvent
  <2>2. MarketIds' = MarketIds /\ \A e : StoredEvent(e)' = StoredEvent(e)
    BY DEF MarketIds, StoredEvent
  <2>3. \A d \in Callers : ThreadInv(d)'
    BY <2>2, Undisturbed DEF IngestInv, Still
  <2>4. MadeApart' /\ SnapshotsKnown'
    BY <2>2 DEF IngestInv, MadeApart, SnapshotsKnown
  <2>5. OneSnapshotPerMarket' /\ LatestIsNewestHistory'
    BY DEF IngestInv, OneSnapshotPerMarket, LatestIsNewestHistory
  <2>. QED
    BY <1>1, <2>1, <2>3, <2>4, <2>5 DEF IngestInv
<1>3. CASE \E c \in Callers, k \in Keys : Click(c, k)
  BY <1>1, <1>3, ClickInv
<1>4. CASE \E c \in Callers : Scan(c) \/ Fetch(c) \/ FetchFails(c) \/ ReceiveScan(c) \/ Receive(c)
  BY <1>1, <1>4, ScanInv, FetchInv, FetchFailsInv, ReceiveScanInv, ReceiveInv
<1>5. CASE \E c \in Callers : Begin(c) \/ WriteEvent(c) \/ Look(c)
  BY <1>1, <1>5, BeginInv, WriteEventInv, LookInv
<1>6. CASE \E c \in Callers : InsertMarket(c) \/ Replace(c) \/ Commit(c)
  BY <1>1, <1>6, InsertMarketInv, ReplaceInv, CommitInv
<1>7. CASE \E c \in Callers : EvalBegin(c) \/ Evaluate(c) \/ Announce(c)
  BY <1>1, <1>7, EvaluationInv, AnnounceInv
<1>8. CASE \E c \in Callers : Lose(c) \/ Stamp(c) \/ Abort(c) \/ DeadlockVictim(c)
  BY <1>1, <1>8, EndsInv, AbortInv
<1>9. CASE World
  BY <1>1, <1>9, WorldInv
<1>. QED
  BY <1>2, <1>3, <1>4, <1>5, <1>6, <1>7, <1>8, <1>9 DEF Next

\* Refreshes keep the invariant, whatever their threads, errors and deadlocks.
THEOREM IngestInvariance == Spec => []IngestInv
<1>. QED
  BY IngestInit, IngestStep, PTL DEF Spec

\* Tables, threads and cache keep their types; every market's event is stored.
THEOREM IngestTypeCorrect == Spec => []TypeOK
<1>1. IngestInv => TypeOK
  BY DEF IngestInv
<1>. QED
  BY <1>1, IngestInvariance, PTL

\* No deliberate refresh ingests odds older than upstream offered when it was
\* asked for, but for a load upstream had answered by then.
THEOREM DeliberateRefreshes == Spec => []LiveIsCurrent
<1>. QED
  BY RefreshesCache, LiveCalls, PTL

\* What refreshes of a key are handed never goes back in time.
THEOREM RefreshResponsesAge == Spec => []NeverOlderThanServed
<1>. QED
  BY RefreshesCache, ResponsesAge, PTL

\* The board shows the newest row of each book's history, whichever
\* transactions raced for it.
THEOREM BoardFollowsHistory == Spec => []LatestIsNewestHistory
<1>1. IngestInv => LatestIsNewestHistory
  BY DEF IngestInv
<1>. QED
  BY <1>1, IngestInvariance, PTL

\* A market is announced once, however many refreshes found it missing.
THEOREM AnnouncedOnce == Spec => []OneSnapshotPerMarket
<1>1. IngestInv => OneSnapshotPerMarket
  BY DEF IngestInv
<1>. QED
  BY <1>1, IngestInvariance, PTL

\* A sport is stamped only once every quote of its pull is in the history.
THEOREM StampsEarned == Spec => StampMeansIngested
<1>. DEFINE A == \A c \in Callers : Stamp(c) =>
         \A i \in DOMAIN Offers[got[c]] :
           LET quotes == Payload[got[c]][Offers[got[c]][i].id] IN
             \A j \in DOMAIN quotes : \E h \in history :
                h.version = got[c] /\ BookKey(quotes[j]) = <<h.market_id, h.sportsbook>>
<1>1. IngestInv => A
  <2>. SUFFICES ASSUME IngestInv, NEW c \in Callers, Stamp(c),
                       NEW i \in DOMAIN Offers[got[c]]
                PROVE  Ingested(got[c], Offers[got[c]][i].id)
    BY Zenon DEF Ingested
  <2>1. pc[c] = "stamp" /\ ThreadOK(c) /\ Progress(c) /\ stage[c] = "served"
    BY DEF Stamp, IngestInv, ThreadInv, ThreadOK
  <2>2. OfSport(c) /\ Len(todo[c]) = 0
    BY <2>1, EmptySeq DEF ThreadOK
  <2>3. got[c] \in 0..MaxVersion
    <3>1. got[c] \in Nat /\ offer \in Nat /\ offer <= MaxVersion
      BY DEF IngestInv, CacheTypeOK, TypeOK
    <3>2. got[c] <= offer
      BY <2>1 DEF IngestInv, CacheInv, FloorsOffered
    <3>. QED
      BY <3>1, <3>2, CacheAssumption
  <2>4. Offers[got[c]] \in Seq(ListedEvents)
    BY <2>3, IngestionAssumption
  <2>5. Len(Offers[got[c]]) \in Nat /\ i \in 1..Len(Offers[got[c]])
    BY <2>4, LenProperties
  <2>. QED
    BY <2>1, <2>2, <2>5 DEF Progress
<1>2. IngestInv /\ [Next]_vars => [A]_vars
  BY <1>1
<1>. QED
  BY <1>2, IngestInvariance, PTL DEF Spec, StampMeansIngested, A

\* A refresh asked for after another one's commit does not put older odds in
\* its place.
THEOREM LaterRefreshes == Spec => LaterRefreshNotOlder
<1>. DEFINE A == \A c \in Callers : pc[c] = "commit" /\ pc'[c] = "evalBegin" =>
         \A r \in latest, s \in latest' \ latest :
            SameBook(r, s) /\ r.commit <= since[c] => r.version <= s.version
<1>1. ASSUME NEW c \in Callers, pc[c] = "commit", pc'[c] = "evalBegin", IngestInv, Next
      PROVE  Commit(c)
  <2>1. \A d \in Callers : EndRefresh(d) => pc' = [pc EXCEPT ![d] = "idle"]
    BY DEF EndRefresh, Goto
  <2>2. \A d \in Callers : NextEvent(d) => \E step \in {"idle", "stamp", "begin"} :
                                            pc' = [pc EXCEPT ![d] = step]
    BY <2>1 DEF NextEvent, Goto
  <2>3. pc \in [Callers -> Steps]
    BY <1>1 DEF IngestInv, TypeOK
  <2>4. ASSUME NEW d \in Callers, NEW step, pc' = [pc EXCEPT ![d] = step], step # "evalBegin"
        PROVE  FALSE
    BY <1>1, <2>3, <2>4
  <2>5. CASE \E d \in Callers, k \in Keys : Click(d, k)
    BY <1>1, <2>5 DEF Click, thread
  <2>6. CASE \E d \in Callers : Scan(d) \/ Fetch(d) \/ FetchFails(d) \/ ReceiveScan(d)
    BY <1>1, <2>6 DEF Scan, Fetch, FetchFails, ReceiveScan, thread
  <2>7. CASE \E d \in Callers : Receive(d) \/ Begin(d) \/ WriteEvent(d) \/ Look(d)
    BY <2>4, <2>7 DEF Receive, Begin, WriteEvent, Look, Goto, GotoQuotes
  <2>8. CASE \E d \in Callers : InsertMarket(d) \/ Replace(d) \/ Evaluate(d)
    BY <2>4, <2>8 DEF InsertMarket, Replace, Evaluate, NextQuote, Goto
  <2>9. CASE \E d \in Callers : Lose(d) \/ Stamp(d) \/ DeadlockVictim(d)
    BY <2>1, <2>4, <2>9 DEF Lose, Stamp, DeadlockVictim
  <2>10. CASE \E d \in Callers : EvalBegin(d) \/ Announce(d) \/ Abort(d)
    BY <2>1, <2>2, <2>4, <2>10 DEF EvalBegin, Announce, Abort, Goto
  <2>11. CASE World
    BY <1>1, <2>11 DEF World, thread
  <2>12. CASE \E d \in Callers : Commit(d)
    <3>1. PICK d \in Callers : Commit(d)
      BY <2>12
    <3>2. pc' = [pc EXCEPT ![d] = "evalBegin"]
      BY <3>1 DEF Commit, AfterCommit, Goto
    <3>. QED
      BY <1>1, <2>3, <3>1, <3>2
  <2>. QED
    BY <1>1, <2>5, <2>6, <2>7, <2>8, <2>9, <2>10, <2>11, <2>12 DEF Next
<1>2. IngestInv /\ Next => A
  <2>. SUFFICES ASSUME IngestInv, Next, NEW c \in Callers, pc[c] = "commit", pc'[c] = "evalBegin",
                       NEW r \in latest, NEW s \in latest', s \notin latest,
                       r.commit <= since[c]
                PROVE  r.version <= s.version
    OBVIOUS
  <2>1. Commit(c)
    BY <1>1
  <2>2. s.version = got[c]
    BY <2>1, CommitRows DEF Commit, Replacing
  <2>3. since[c] \in Nat /\ r.commit \in Nat \ {0} /\ r.version \in Nat
    <3>1. r \in QuoteRows /\ commits \in Nat /\ since[c] \in 0..commits /\ offer \in Nat
      BY DEF IngestInv, TypeOK, CacheTypeOK
    <3>. QED
      BY <3>1 DEF QuoteRows
  <2>4. since[c] > 0
    BY <2>3
  <2>5. r.version <= call[c].floor /\ stage[c] = "served" /\ call[c].live
    BY <2>4 DEF IngestInv, ThreadInv, ThreadOK, SinceKept
  <2>6. got[c] >= call[c].floor
    BY <2>5 DEF IngestInv, CacheInv, LiveIsCurrent
  <2>7. call[c].floor \in Nat /\ got[c] \in Nat
    BY <2>5, CallKnown DEF IngestInv, TypeOK, CacheTypeOK
  <2>. QED
    BY <2>2, <2>3, <2>5, <2>6, <2>7
<1>3. IngestInv /\ [Next]_vars => [A]_vars
  BY <1>2
<1>. QED
  BY <1>3, IngestInvariance, PTL DEF Spec, LaterRefreshNotOlder, A

=============================================================================
