-------------------------- MODULE QuoteReadersProofs --------------------------
(***************************************************************************)
(* What the readers of the quotes agree on, whichever refreshes commit and *)
(* in whatever order: the event list, the line board, recommendations,     *)
(* watches and the verdict on an opportunity.                              *)
(*                                                                         *)
(* QuoteEnginesProofs says what each of them computes of tables that have  *)
(* one row of a key.  That the tables have is an invariant of refreshes    *)
(* (TablesKeyed), like what the opportunities say of their time            *)
(* (TimesTold); both are inductive together with IngestInv.                *)
(***************************************************************************)
EXTENDS QuoteIngestionProofs

\* One row of an event, of a market, and of a book in a market; only finitely
\* many of each.
TablesKeyed ==
    /\ IsFiniteSet(stored) /\ IsFiniteSet(markets) /\ IsFiniteSet(latest)
    /\ \A e, f \in stored : e.external_id = f.external_id => e = f
    /\ \A m, n \in markets : m.id = n.id => m = n
    /\ \A r, s \in latest : SameBook(r, s) => r = s

\* An opportunity has no time of its own until it is inserted, and is told to
\* last at least as long as its row.
TimesTold ==
    /\ \A c \in Callers : \A o \in found[c] : o.created_at = None
    /\ \A o \in opps : /\ o.created_at \in Nat /\ o.told.expires_at \in Nat
                       /\ o.created_at + OpportunityTtl <= o.told.expires_at

ReadersInv == IngestInv /\ TablesKeyed /\ TimesTold

-----------------------------------------------------------------------------
\* What a function takes on finitely many values is finitely many.
LEMMA ImageFinite ==
  ASSUME NEW S, IsFiniteSet(S), NEW f
  PROVE  IsFiniteSet({f[x] : x \in S})
<1>. DEFINE T == {f[x] : x \in S}
            g == [x \in S |-> f[x]]
<1>1. g \in Surjection(S, T)
  BY DEF Surjection
<1>. HIDE DEF g, T
<1>2. IsFiniteSet(T)
  BY <1>1, FS_Surjection
<1>. QED
  BY <1>2 DEF T

\* A commit inserts finitely many rows, and one row of a place in its payload.
LEMMA RowsFew ==
  ASSUME IngestInv, NEW c \in Callers, pc[c] = "commit"
  PROVE  /\ IsFiniteSet(Rows(c))
         /\ \A r, s \in Rows(c) : r.place = s.place => r = s
         /\ \A r \in Rows(c) : r.place \in Nat
<1>. DEFINE n == Len(Quotes(c))
            f == [i \in 1..n |-> [market_id   |-> MarketId(Quotes(c)[i]),
                                  sportsbook  |-> Quotes(c)[i].sportsbook,
                                  price       |-> Quotes(c)[i].price,
                                  quoted_at   |-> Quotes(c)[i].quoted_at,
                                  ingested_at |-> clock[c],
                                  version     |-> got[c],
                                  commit      |-> commits + 1,
                                  place       |-> i]]
<1>1. n \in Nat /\ DOMAIN Quotes(c) = 1..n
  BY CommitKnown
<1>2. Rows(c) = {f[i] : i \in 1..n}
  BY <1>1 DEF Rows
<1>3. \A i \in 1..n : f[i].place = i
  OBVIOUS
<1>. HIDE DEF f, n
<1>4. IsFiniteSet({f[i] : i \in 1..n})
  <2>1. PICK D : D = 1..n
    OBVIOUS
  <2>2. IsFiniteSet(D)
    BY <1>1, <2>1, FS_Interval
  <2>3. IsFiniteSet({f[i] : i \in D})
    BY <2>2, ImageFinite
  <2>. QED
    BY <2>1, <2>3
<1>. QED
  BY <1>1, <1>2, <1>3, <1>4

\* The markets it inserts are finitely many, and one of each id.
LEMMA MarketsFew ==
  ASSUME IngestInv, NEW c \in Callers, Commit(c)
  PROVE  /\ IsFiniteSet(NewMarkets(c))
         /\ \A m, n \in NewMarkets(c) : m.id = n.id => m = n
         /\ \A m \in NewMarkets(c) : m.id \in made[c]
<1>. DEFINE f == [i \in Created(c) |-> MarketOf(Quotes(c)[i])]
<1>1. pc[c] = "commit"
  BY DEF Commit
<1>2. NewMarkets(c) = {f[i] : i \in Created(c)}
  BY <1>1, CreatedMarkets
<1>3. \A i \in Created(c) : f[i].id = MarketId(Quotes(c)[i])
  BY DEF MarketOf
<1>. HIDE DEF f
<1>4. IsFiniteSet(Created(c))
  <2>1. PICK D : D = 1..Len(Quotes(c))
    OBVIOUS
  <2>2. IsFiniteSet(D)
    BY <1>1, <2>1, CommitKnown, FS_Interval
  <2>3. Created(c) \in SUBSET D
    BY <1>1, <2>1, CreatedOnce
  <2>. QED
    BY <2>2, <2>3, FS_Subset
<1>5. IsFiniteSet({f[i] : i \in Created(c)})
  BY <1>4, ImageFinite
<1>6. ASSUME NEW i \in Created(c), NEW j \in Created(c), f[i].id = f[j].id PROVE i = j
  BY <1>1, <1>3, <1>6, CreatedOnce
<1>7. \A i \in Created(c) : f[i].id \in made[c]
  BY <1>1, <1>3, CreatedOnce
<1>. QED
  BY <1>2, <1>5, <1>6, <1>7

\* A commit keeps the keys of the tables.
LEMMA CommitKeyed ==
  ASSUME IngestInv, TablesKeyed, NEW c \in Callers, Commit(c)
  PROVE  TablesKeyed'
<1>1. /\ pc[c] = "commit"
      /\ latest' = {r \in latest : \A s \in Rows(c) : ~SameBook(r, s)} \cup Replacing(c)
      /\ markets' = markets \cup NewMarkets(c)
      /\ stored' = IF row[c] = None THEN stored
                   ELSE (stored \ StoredEvent(Event(c))) \cup {row[c]}
  BY DEF Commit, AfterCommit
<1>2. /\ IsFiniteSet(stored')
      /\ \A e, f \in stored' : e.external_id = f.external_id => e = f
  <2>1. IsFiniteSet(stored \ StoredEvent(Event(c)))
    BY FS_Subset DEF TablesKeyed
  <2>2. IsFiniteSet((stored \ StoredEvent(Event(c))) \cup {row[c]})
    BY <2>1, FS_AddElement
  <2>3. row[c] # None => row[c].external_id = Event(c)
    BY <1>1, CommitKnown
  <2>. QED
    BY <1>1, <2>2, <2>3 DEF TablesKeyed, StoredEvent
<1>3. /\ IsFiniteSet(markets')
      /\ \A m, n \in markets' : m.id = n.id => m = n
  <2>1. IsFiniteSet(markets \cup NewMarkets(c))
    BY MarketsFew, FS_Union DEF TablesKeyed
  <2>2. ASSUME NEW m \in markets, NEW n \in NewMarkets(c) PROVE m.id # n.id
    BY MarketsFew DEF IngestInv, MadeApart, MarketIds
  <2>. QED
    BY <1>1, <2>1, <2>2, MarketsFew DEF TablesKeyed
<1>4. /\ IsFiniteSet(latest')
      /\ \A r, s \in latest' : SameBook(r, s) => r = s
  <2>1. Replacing(c) \subseteq Rows(c) /\ IsFiniteSet(Rows(c))
    BY <1>1, RowsFew DEF Replacing
  <2>2. IsFiniteSet(Replacing(c)) /\ IsFiniteSet({r \in latest : \A s \in Rows(c) : ~SameBook(r, s)})
    BY <2>1, FS_Subset DEF TablesKeyed
  <2>3. IsFiniteSet(latest')
    BY <1>1, <2>2, FS_Union
  <2>4. ASSUME NEW r \in Replacing(c), NEW s \in Replacing(c), SameBook(r, s) PROVE r = s
    <3>1. /\ r \in Rows(c) /\ s \in Rows(c) /\ r.place \in Nat /\ s.place \in Nat
          /\ s.place <= r.place /\ r.place <= s.place
      BY <1>1, <2>4, RowsFew DEF Replacing, SameBook
    <3>. QED
      BY <1>1, <3>1, RowsFew
  <2>. QED
    BY <1>1, <2>1, <2>3, <2>4 DEF TablesKeyed, SameBook
<1>. QED
  BY <1>2, <1>3, <1>4 DEF TablesKeyed

-----------------------------------------------------------------------------
\* An evaluation finds opportunities without a time.
LEMMA EvaluateTimes ==
  ASSUME IngestInv, TimesTold, NEW c \in Callers, Evaluate(c)
  PROVE  TimesTold'
<1>. DEFINE quotes == ListLatestQuotes(Event(c), markets, latest)
            new == {EvaluateWatch(w, quotes, markets) : w \in ActiveOn(Event(c))} \ {None}
<1>1. found' = [found EXCEPT ![c] = new] /\ opps' = opps
  BY DEF Evaluate, tables
<1>2. ASSUME NEW w PROVE \/ EvaluateWatch(w, quotes, markets) = None
                         \/ EvaluateWatch(w, quotes, markets).created_at = None
  BY DEF EvaluateWatch
<1>3. \A o \in new : o.created_at = None
  BY <1>2
<1>4. \A d \in Callers : found'[d] = IF d = c THEN new ELSE found[d]
  BY <1>1 DEF IngestInv, TypeOK
<1>. HIDE DEF new
<1>. QED
  BY <1>1, <1>3, <1>4 DEF TimesTold

\* An evaluation that inserts tells a time from now, not from when it began.
LEMMA AnnounceTimes ==
  ASSUME IngestInv, TimesTold, NEW c \in Callers, Announce(c)
  PROVE  TimesTold'
<1>. DEFINE told(o) == OpportunityIdentified(o, EventContext(o, stored, latest),
                                             OpportunityTtl, now)
            row_of(o) == [watch_intent_id |-> o.watch_intent_id, market_id |-> o.market_id,
                          best_sportsbook |-> o.best_sportsbook, best_price |-> o.best_price,
                          created_at      |-> clock[c], told |-> told(o)]
<1>1. found' = [found EXCEPT ![c] = {}]
  BY DEF Announce, NextEvent, EndRefresh, NewThread
<1>2. \A d \in Callers : found'[d] = IF d = c THEN {} ELSE found[d]
  BY <1>1 DEF IngestInv, TypeOK
<1>3. ASSUME NEW o \in opps' PROVE o \in opps \/ \E p \in found[c] : o = row_of(p)
  BY DEF Announce
<1>4. clock[c] \in Nat /\ clock[c] <= now /\ now \in Nat /\ OpportunityTtl \in Nat
  BY IngestionAssumption DEF IngestInv, TypeOK, CacheTypeOK
<1>5. ASSUME NEW p \in found[c]
      PROVE  row_of(p).created_at = clock[c] /\ row_of(p).told.expires_at = now + OpportunityTtl
  BY DEF OpportunityIdentified, TimesTold
<1>. HIDE DEF row_of
<1>6. ASSUME NEW o \in opps'
      PROVE  /\ o.created_at \in Nat /\ o.told.expires_at \in Nat
             /\ o.created_at + OpportunityTtl <= o.told.expires_at
  <2>1. CASE o \in opps
    BY <2>1 DEF TimesTold
  <2>2. CASE \E p \in found[c] : o = row_of(p)
    BY <1>4, <1>5, <2>2
  <2>. QED
    BY <1>3, <2>1, <2>2
<1>. QED
  BY <1>2, <1>6 DEF TimesTold

\* Steps of a thread that neither evaluate nor insert find nothing.
LEMMA OtherTimes ==
  ASSUME IngestInv, TimesTold, NEW c \in Callers, opps' = opps,
         found' = found \/ found' = [found EXCEPT ![c] = {}]
  PROVE  TimesTold'
<1>1. \A d \in Callers : found'[d] = found[d] \/ found'[d] = {}
  BY DEF IngestInv, TypeOK
<1>. QED
  BY <1>1 DEF TimesTold

\* Refreshes keep both.
LEMMA ReadersStep == ReadersInv /\ [Next]_vars => ReadersInv'
<1>. SUFFICES ASSUME ReadersInv, [Next]_vars PROVE ReadersInv'
  OBVIOUS
<1>. USE DEF ReadersInv
<1>1. IngestInv'
  BY IngestStep
<1>. DEFINE TablesSame == UNCHANGED <<stored, markets, latest>>
<1>2. TablesSame => TablesKeyed'
  BY DEF TablesKeyed, SameBook
<1>3. ASSUME NEW c \in Callers, EndRefresh(c) PROVE found' = [found EXCEPT ![c] = {}]
  BY <1>3 DEF EndRefresh, NewThread
<1>4. ASSUME NEW c \in Callers, NextEvent(c) PROVE found' = [found EXCEPT ![c] = {}]
  BY <1>3, <1>4 DEF NextEvent
<1>5. CASE UNCHANGED vars
  <2>1. TablesSame /\ opps' = opps /\ found' = found
    BY <1>5 DEF vars, tables, thread
  <2>2. TimesTold'
    BY <2>1 DEF TimesTold
  <2>. QED
    BY <1>1, <1>2, <2>1, <2>2
<1>6. CASE World
  <2>1. TablesSame /\ opps' = opps /\ found' = found
    BY <1>6 DEF World, tables, thread
  <2>2. TimesTold'
    BY <2>1 DEF TimesTold
  <2>. QED
    BY <1>1, <1>2, <2>1, <2>2
<1>7. ASSUME NEW c \in Callers,
             \/ \E k \in Keys : Click(c, k)
             \/ Scan(c) \/ Fetch(c) \/ FetchFails(c) \/ ReceiveScan(c) \/ Receive(c)
             \/ Begin(c) \/ WriteEvent(c) \/ Look(c) \/ InsertMarket(c) \/ Replace(c)
      PROVE  ReadersInv'
  <2>1. TablesSame /\ opps' = opps /\ found' = found
    BY <1>7 DEF Click, Scan, Fetch, FetchFails, ReceiveScan, Receive, Begin, WriteEvent, Look,
                InsertMarket, Replace, tables, thread
  <2>. QED
    BY <1>1, <1>2, <2>1, OtherTimes
<1>8. ASSUME NEW c \in Callers, Lose(c) \/ Stamp(c) \/ DeadlockVictim(c)
      PROVE  ReadersInv'
  <2>1. TablesSame /\ opps' = opps /\ found' = [found EXCEPT ![c] = {}]
    BY <1>3, <1>8 DEF Lose, Stamp, DeadlockVictim, tables
  <2>. QED
    BY <1>1, <1>2, <2>1, OtherTimes
<1>9. ASSUME NEW c \in Callers, EvalBegin(c) \/ Abort(c)
      PROVE  ReadersInv'
  <2>1. /\ TablesSame /\ opps' = opps
        /\ found' = found \/ found' = [found EXCEPT ![c] = {}]
    BY <1>3, <1>4, <1>9 DEF EvalBegin, Abort, tables
  <2>. QED
    BY <1>1, <1>2, <2>1, OtherTimes
<1>10. ASSUME NEW c \in Callers, Commit(c)
       PROVE  ReadersInv'
  <2>1. opps' = opps /\ found' = found
    BY <1>10 DEF Commit, AfterCommit
  <2>. QED
    BY <1>1, <1>10, <2>1, CommitKeyed, OtherTimes
<1>11. ASSUME NEW c \in Callers, Evaluate(c)
       PROVE  ReadersInv'
  <2>1. TablesSame
    BY <1>11 DEF Evaluate, tables
  <2>. QED
    BY <1>1, <1>2, <1>11, <2>1, EvaluateTimes
<1>12. ASSUME NEW c \in Callers, Announce(c)
       PROVE  ReadersInv'
  <2>1. TablesSame
    BY <1>12 DEF Announce
  <2>. QED
    BY <1>1, <1>2, <1>12, <2>1, AnnounceTimes
<1>. QED
  BY <1>5, <1>6, <1>7, <1>8, <1>9, <1>10, <1>11, <1>12 DEF Next

\* Whatever refreshes race, the tables keep their keys and the times their order.
THEOREM ReadersInvariance == Spec => []ReadersInv
<1>1. Init => ReadersInv
  <2>. SUFFICES ASSUME Init PROVE ReadersInv
    OBVIOUS
  <2>1. IngestInv
    BY IngestInit
  <2>2. TablesKeyed
    BY FS_EmptySet DEF Init, TablesKeyed
  <2>3. TimesTold
    BY DEF Init, NoThreads, TimesTold
  <2>. QED
    BY <2>1, <2>2, <2>3 DEF ReadersInv
<1>. QED
  BY <1>1, ReadersStep, PTL DEF Spec

-----------------------------------------------------------------------------
\* What a consumer was told has expired the API calls valid no more.
THEOREM ExpiryTold == Spec => []ToldExpiredIsExpired
<1>1. ReadersInv => ToldExpiredIsExpired
  <2>. SUFFICES ASSUME ReadersInv,
                       NEW verdict \in ListOpportunities(opps, latest, OpportunityTtl, now),
                       now > verdict.opportunity.told.expires_at
                PROVE  ~verdict.is_valid
    BY DEF ToldExpiredIsExpired
  <2>. DEFINE reason(o) == CheckValidity(o.created_at, LatestQuoteTime(o, latest),
                                         OpportunityTtl, now)
  <2>1. PICK o \in opps : verdict = [opportunity |-> o, is_valid |-> reason(o) = "valid",
                                     reason |-> reason(o)]
    BY DEF ListOpportunities
  <2>. HIDE DEF reason
  <2>2. verdict.opportunity = o /\ verdict.is_valid = (reason(o) = "valid")
    BY <2>1
  <2>3. /\ o.created_at \in Nat /\ o.told.expires_at \in Nat
        /\ o.created_at + OpportunityTtl <= o.told.expires_at
    BY DEF ReadersInv, TimesTold
  <2>4. now \in Nat /\ OpportunityTtl \in Nat
    BY IngestionAssumption DEF ReadersInv, IngestInv, TypeOK, CacheTypeOK
  <2>5. now - o.created_at > OpportunityTtl
    BY <2>2, <2>3, <2>4
  <2>6. reason(o) \in {"missing_timestamp", "expired"}
    BY <2>5 DEF CheckValidity, reason
  <2>. QED
    BY <2>2, <2>6
<1>. QED
  BY <1>1, ReadersInvariance, PTL

-----------------------------------------------------------------------------
\* An order intent for the line of a market.
Asks(intent, m) ==
    /\ intent.event_id = m.event_id /\ intent.market_type = m.market_type
    /\ intent.selection = m.selection /\ intent.line = m.line
    /\ intent.target_price \in Int

\* A recommendation, its row and its event are of the market's best quote.
LEMMA AdviceNamesBest ==
  ASSUME NEW mkts, NEW rows, BookTables(mkts, rows), NEW m \in mkts,
         QuotesOf(m, rows) # {}, NEW intent, Asks(intent, m), NEW id
  PROVE  LET Q      == QuotesOf(m, rows)
             advice == Recommend(id, intent, mkts, rows)
         IN  /\ advice.returned.fillable <=> Fillable(intent, Q) # {}
             /\ \A kept \in advice.execution_recommendations :
                   kept.best_quote = QuotePayload(Best(Q))
             /\ \A w \in advice.workflow_events :
                   w.event_type = "ExecutionRecommendationGenerated" =>
                     w.payload.best_quote = QuoteSnapshot(Best(Q), None)
<1>. DEFINE Q == QuotesOf(m, rows)
            all == ListLatestQuotes(intent.event_id, mkts, rows)
            recommendation == GenerateRecommendation(intent, MatchQuotes(intent, all))
            advice == Recommend(id, intent, mkts, rows)
<1>1. MatchQuotes(intent, all) = Q
  BY MatchedQuotes DEF Asks
<1>2. PricedQuotes(Q)
  BY MarketQuotesPriced
<1>. HIDE DEF Q
<1>3. /\ recommendation.fillable <=> Fillable(intent, Q) # {}
      /\ recommendation.best_quote = Best(Q)
  BY <1>1, <1>2, RecommendsBest DEF Q, Asks
<1>. HIDE DEF recommendation
<1>4. /\ advice.returned = recommendation
      /\ advice.execution_recommendations = {CreateExecutionRecommendation(id, recommendation)}
      /\ advice.workflow_events =
            {OrderIntentSubmitted(id, intent),
             ExecutionRecommendationGenerated(id, id, recommendation, None)}
  BY DEF Recommend, recommendation
<1>5. CreateExecutionRecommendation(id, recommendation).best_quote = QuotePayload(Best(Q))
  BY <1>3 DEF CreateExecutionRecommendation
<1>6. /\ OrderIntentSubmitted(id, intent).event_type = "OrderIntentSubmitted"
      /\ ExecutionRecommendationGenerated(id, id, recommendation, None).payload.best_quote
            = QuoteSnapshot(Best(Q), None)
  BY <1>3 DEF OrderIntentSubmitted, ExecutionRecommendationGenerated
<1>. HIDE DEF advice
<1>. QED
  BY <1>3, <1>4, <1>5, <1>6 DEF Q, advice

\* A payload or a snapshot of a quote names its book, or is none.
LEMMA PayloadNamesBook ==
  ASSUME NEW m, NEW r
  PROVE  LET q == RowToQuote(m, r) IN
           /\ QuotePayload(q) # None => QuotePayload(q).sportsbook = q.sportsbook
           /\ QuoteSnapshot(q, None) # None => QuoteSnapshot(q, None).sportsbook = q.sportsbook
BY DEF QuotePayload, QuoteSnapshot, RowToQuote

\* Tables with the types of QuoteIngestion's.
TypedTables(mkts, rows) ==
    /\ BookTables(mkts, rows)
    /\ mkts \subseteq MarketRows
    /\ \A r \in rows : r.sportsbook \in Nat \ {0}

\* A watch on a market's line fires on the best quote, if it can be filled.
LEMMA WatchFiresOnBest ==
  ASSUME NEW mkts, NEW rows, TypedTables(mkts, rows), NEW m \in mkts, NEW watch,
         Asks(watch, m), watch.id = None
  PROVE  LET Q     == QuotesOf(m, rows)
             fired == EvaluateWatch(watch, ListLatestQuotes(m.event_id, mkts, rows), mkts)
         IN  /\ Fillable(watch, Q) # {} <=> fired # None
             /\ fired # None => /\ fired.best_sportsbook = Best(Q).sportsbook
                                /\ fired.best_price = Best(Q).price
<1>. DEFINE Q == QuotesOf(m, rows)
            all == ListLatestQuotes(m.event_id, mkts, rows)
            fillable == Fillable(watch, Q)
            ids == {n.id : n \in MatchQuotes(watch, mkts)}
            market == CHOOSE id \in ids : TRUE
            quotes == [i \in 1..Cardinality(fillable) |->
                         [sportsbook |-> RankQuotes(fillable)[i].sportsbook,
                          price      |-> RankQuotes(fillable)[i].price]]
            opportunity == [watch_intent_id |-> watch.id,
                            market_id       |-> market,
                            best_sportsbook |-> Best(fillable).sportsbook,
                            best_price      |-> Best(fillable).price,
                            matching_quotes |-> quotes,
                            created_at      |-> None]
            fired == EvaluateWatch(watch, all, mkts)
<1>1. MatchQuotes(watch, all) = Q
  BY MatchedQuotes DEF Asks, TypedTables
<1>2. fired = IF fillable = {} \/ ids = {} THEN None ELSE opportunity
  BY <1>1 DEF EvaluateWatch
<1>3. PricedQuotes(Q) /\ \A q \in Q : q.sportsbook \in Nat \ {0}
  BY MarketQuotesPriced DEF TypedTables, QuotesOf, RowToQuote
<1>4. ids # {}
  <2>1. m \in MatchQuotes(watch, mkts)
    BY DEF MatchQuotes, Asks
  <2>. QED
    BY <2>1
<1>5. market \in MarketKeys
  <2>1. \A id \in ids : id \in MarketKeys
    BY DEF MatchQuotes, TypedTables, MarketRows
  <2>. HIDE DEF ids
  <2>. QED
    BY <1>4, <2>1
<1>6. fillable \in SUBSET Q /\ PricedQuotes(fillable)
  BY <1>3, FS_Subset DEF Fillable, PricedQuotes
<1>. HIDE DEF Q, all, ids, market, fired, fillable
<1>7. CASE fillable = {}
  BY <1>2, <1>7 DEF Q, all, fired, fillable
<1>8. CASE fillable # {}
  <2>1. Best(fillable) = Best(Q) /\ Best(fillable) \in fillable
    BY <1>3, <1>6, <1>8, BestCanBeFilled, BestIsBetter DEF fillable, Asks
  <2>2. /\ Best(fillable).sportsbook \in Nat \ {0}
        /\ Best(fillable).price \in Int
    BY <1>3, <1>6, <2>1 DEF PricedQuotes
  <2>3. quotes \in Seq([sportsbook : Nat \ {0}, price : Int])
    <3>. DEFINE ranked == RankQuotes(fillable)
                n == Cardinality(fillable)
    <3>1. Sorts(ranked, fillable, Ranking(fillable)) /\ n \in Nat
      BY <1>6, RankingSorts, FS_CardinalityType DEF PricedQuotes
    <3>. HIDE DEF ranked, n
    <3>2. \A i \in 1..n : ranked[i] \in fillable
      BY <3>1 DEF Sorts, n
    <3>3. \A i \in 1..n : ranked[i].sportsbook \in Nat \ {0} /\ ranked[i].price \in Int
      BY <1>3, <1>6, <3>2 DEF PricedQuotes
    <3>4. [i \in 1..n |-> [sportsbook |-> ranked[i].sportsbook, price |-> ranked[i].price]]
            \in Seq([sportsbook : Nat \ {0}, price : Int])
      BY <3>1, <3>3
    <3>. QED
      BY <3>4 DEF ranked, n
  <2>. HIDE DEF quotes
  <2>4. opportunity \in Opportunities
    BY <1>5, <2>2, <2>3 DEF Opportunities
  <2>5. opportunity # None
    BY <2>4, IngestionAssumption
  <2>6. fired = opportunity
    BY <1>2, <1>4, <1>8
  <2>. QED
    BY <1>8, <2>1, <2>5, <2>6 DEF Q, all, fired, fillable
<1>. QED
  BY <1>7, <1>8

\* Board, recommendation, its records and watch agree on a quoted market.
LEMMA BooksAgree ==
  ASSUME NEW mkts, NEW rows, TypedTables(mkts, rows), NEW m \in mkts, NEW r \in rows,
         r.market_id = m.id, NEW target \in Int
  PROVE  AgreedOn(m, target, mkts, rows)
<1>. DEFINE Q == QuotesOf(m, rows)
            intent == [event_id |-> m.event_id, market_type |-> m.market_type,
                       selection |-> m.selection, line |-> m.line, target_price |-> target]
            watch  == [id |-> None, event_id |-> m.event_id, market_type |-> m.market_type,
                       selection |-> m.selection, line |-> m.line, target_price |-> target]
            board  == ToBoardMarket([market |-> m, quotes |-> Q])
            advice == Recommend(None, intent, mkts, rows)
            fired  == EvaluateWatch(watch, ListLatestQuotes(m.event_id, mkts, rows), mkts)
            records == advice.execution_recommendations \cup
                         {w.payload : w \in {w \in advice.workflow_events :
                                              w.event_type = "ExecutionRecommendationGenerated"}}
<1>1. Q # {} /\ PricedQuotes(Q) /\ BookTables(mkts, rows)
  BY MarketQuotesPriced DEF QuotesOf, TypedTables
<1>2. PICK b : Best(Q) = RowToQuote(m, b)
  <2>1. Best(Q) \in Q
    BY <1>1, BestIsBetter
  <2>. QED
    BY <2>1 DEF QuotesOf
<1>3. board.best_sportsbook = Best(Q).sportsbook /\ board.best_price = Best(Q).price
  BY <1>1 DEF ToBoardMarket
<1>4. Asks(intent, m) /\ Asks(watch, m) /\ watch.id = None
  BY DEF Asks
<1>5. Fillable(intent, Q) = Fillable(watch, Q)
  BY DEF Fillable
<1>. HIDE DEF Q, intent, watch
<1>6. /\ advice.returned.fillable <=> Fillable(intent, Q) # {}
      /\ \A kept \in advice.execution_recommendations : kept.best_quote = QuotePayload(Best(Q))
      /\ \A w \in advice.workflow_events :
            w.event_type = "ExecutionRecommendationGenerated" =>
              w.payload.best_quote = QuoteSnapshot(Best(Q), None)
  BY <1>1, <1>4, AdviceNamesBest DEF Q
<1>7. /\ Fillable(watch, Q) # {} <=> fired # None
      /\ fired # None => /\ fired.best_sportsbook = Best(Q).sportsbook
                         /\ fired.best_price = Best(Q).price
  BY <1>4, WatchFiresOnBest DEF Q
<1>. HIDE DEF board, advice, fired
<1>8. \A kept \in records : kept.best_quote # None =>
                               kept.best_quote.sportsbook = board.best_sportsbook
  BY <1>2, <1>3, <1>6, PayloadNamesBook
<1>. QED
  BY <1>3, <1>5, <1>6, <1>7, <1>8 DEF AgreedOn, Q, intent, watch, board, advice, fired

\* The tables as the engines need them.
TablesReady == TypedTables(markets, latest) /\ EventTable(stored)

\* They always are.
LEMMA TablesTyped == ReadersInv => TablesReady
<1>. SUFFICES ASSUME ReadersInv PROVE TypedTables(markets, latest) /\ EventTable(stored)
  BY DEF TablesReady
<1>1. \A r \in latest : r.sportsbook \in Nat \ {0} /\ r.price \in Int
  BY DEF ReadersInv, IngestInv, TypeOK, QuoteRows
<1>2. \A m \in markets : m.id = MarketId(m) /\ m \in MarketRows
  BY DEF ReadersInv, IngestInv, TypeOK
<1>3. \A e \in stored : e.external_id \in Events /\ e.starts_at \in Nat \cup {None}
  BY DEF ReadersInv, IngestInv, TypeOK, EventRows
<1>4. EventTable(stored)
  <2>1. \A e \in stored : e.external_id \in Int
    <3>1. \A k \in Events : k \in Int
      BY IngestionAssumption
    <3>. QED
      BY <1>3, <3>1
  <2>2. \A e \in stored : e.starts_at # None => e.starts_at \in Int
    BY <1>3
  <2>. QED
    BY <2>1, <2>2 DEF ReadersInv, TablesKeyed, EventTable
<1>. QED
  BY <1>1, <1>2, <1>4 DEF ReadersInv, TablesKeyed, SameBook, TypedTables, BookTables

\* And so they are after a step.
LEMMA TablesTypedNext == ReadersInv' => TypedTables(markets', latest') /\ EventTable(stored')
<1>1. ReadersInv' => TablesReady'
  BY TablesTyped, PTL
<1>. QED
  BY <1>1 DEF TablesReady

\* The board, a recommendation, its records and a watch name the same best book
\* after every commit, at any target.
THEOREM BestBooks == Spec => BestBookAgreed
<1>. DEFINE A == latest' # latest => \A m \in markets', r \in latest' :
                   r.market_id = m.id => \A target \in {r.price, r.price + 1} :
                                           AgreedOn(m, target, markets', latest')
<1>1. ReadersInv' => A
  <2>. SUFFICES ASSUME ReadersInv', NEW m \in markets', NEW r \in latest', r.market_id = m.id,
                       NEW target \in {r.price, r.price + 1}
                PROVE  AgreedOn(m, target, markets', latest')
    OBVIOUS
  <2>1. TypedTables(markets', latest')
    BY TablesTypedNext
  <2>2. target \in Int
    BY <2>1 DEF TypedTables, BookTables
  <2>. QED
    BY <2>1, <2>2, BooksAgree
<1>. HIDE DEF A
<1>2. ReadersInv /\ [Next]_vars => [A]_vars
  BY <1>1, ReadersStep
<1>. QED
  BY <1>2, ReadersInvariance, PTL DEF Spec, BestBookAgreed, A

-----------------------------------------------------------------------------
\* Every event of a table is on one page, at one place.
LEMMA EventsPaged ==
  ASSUME NEW E, EventTable(E), NEW filter, NEW moment, NEW mkts, NEW rows,
         NEW size \in Nat \ {0}
  PROVE  LET page(p) == EventPage(E, filter, moment, p, size, mkts, rows)
             pages   == page(1).total_pages
         IN  /\ \A e \in ApplyFilter(E, filter, moment) :
                  Cardinality({place \in (1..pages) \X (1..size) :
                                 /\ place[2] <= Len(page(place[1]).events)
                                 /\ page(place[1]).events[place[2]].id = e.external_id}) = 1
             /\ page(pages + 1).events = <<>>
<1>. DEFINE page(p) == EventPage(E, filter, moment, p, size, mkts, rows)
            pages == page(1).total_pages
            S == ApplyFilter(E, filter, moment)
            places(e) == {at \in (1..pages) \X (1..size) :
                            /\ at[2] <= Len(page(at[1]).events)
                            /\ page(at[1]).events[at[2]].id = e.external_id}
<1>1. EventTable(S)
  <2>1. S \in SUBSET E
    BY DEF ApplyFilter
  <2>. HIDE DEF S
  <2>2. IsFiniteSet(S)
    BY <2>1, FS_Subset DEF EventTable
  <2>. QED
    BY <2>1, <2>2 DEF EventTable
<1>2. /\ \A e \in S : \E place \in (1..pages) \X (1..size) : places(e) = {place}
      /\ page(pages + 1).events = <<>>
  BY <1>1, PagesShowAll
<1>3. \A e \in S : Cardinality(places(e)) = 1
  <2>. HIDE DEF S, places
  <2>. QED
    BY <1>2, FS_Singleton
<1>. QED
  BY <1>2, <1>3

\* The pages of a listing partition what its filter lets through.
THEOREM PagesShown == Spec => PagesPartition
<1>. DEFINE A == <<stored, now>>' # <<stored, now>> =>
         \A include_started \in BOOLEAN, page_size \in 1..2 :
           LET filter  == [sport |-> None, include_started |-> include_started]
               page(p) == EventPage(stored', filter, now', p, page_size, markets', latest')
               pages   == page(1).total_pages
           IN  /\ \A e \in ApplyFilter(stored', filter, now') :
                    Cardinality({place \in (1..pages) \X (1..page_size) :
                                   /\ place[2] <= Len(page(place[1]).events)
                                   /\ page(place[1]).events[place[2]].id = e.external_id}) = 1
               /\ page(pages + 1).events = <<>>
<1>1. ReadersInv' => A
  <2>. DEFINE Paged(filter, size) ==
                LET page(p) == EventPage(stored', filter, now', p, size, markets', latest')
                    pages   == page(1).total_pages
                IN  /\ \A e \in ApplyFilter(stored', filter, now') :
                         Cardinality({place \in (1..pages) \X (1..size) :
                                        /\ place[2] <= Len(page(place[1]).events)
                                        /\ page(place[1]).events[place[2]].id = e.external_id}) = 1
                    /\ page(pages + 1).events = <<>>
  <2>1. ASSUME ReadersInv', NEW filter, NEW size \in 1..2 PROVE Paged(filter, size)
    <3>1. EventTable(stored') /\ size \in Nat \ {0}
      BY <2>1, TablesTypedNext
    <3>. QED
      BY <3>1, EventsPaged
  <2>. HIDE DEF Paged
  <2>2. ASSUME ReadersInv'
        PROVE  \A started \in BOOLEAN, size \in 1..2 :
                 Paged([sport |-> None, include_started |-> started], size)
    BY <2>1, <2>2
  <2>. QED
    BY <2>2 DEF Paged
<1>. HIDE DEF A
<1>2. ReadersInv /\ [Next]_vars => [A]_vars
  BY <1>1, ReadersStep
<1>. QED
  BY <1>2, ReadersInvariance, PTL DEF Spec, PagesPartition, A

-----------------------------------------------------------------------------
\* Later tables have the earlier ones' markets, and a row for each book of theirs.
Grown(mkts, rows, mkts2, rows2) ==
    /\ BookTables(mkts2, rows) /\ BookTables(mkts2, rows2)
    /\ IsFiniteSet(mkts2) /\ mkts \subseteq mkts2
    /\ \A m, n \in mkts2 : m.id = n.id => m = n
    /\ \A r \in rows : \E s \in rows2 : SameBook(s, r)

\* A market, as the board shows it.
Shown(m, rows) == ToBoardMarket([market |-> m, quotes |-> QuotesOf(m, rows)])

\* A board of the markets M: finitely many, each with its quotes one by one.
ShowsMarkets(board, M, mkts, rows) ==
    /\ board = {Shown(m, rows) : m \in M}
    /\ IsFiniteSet(board)
    /\ \A m \in mkts :
         /\ Shown(m, rows).id = m.id
         /\ Len(Shown(m, rows).quotes) = Cardinality(QuotesOf(m, rows))
         /\ Len(Shown(m, rows).quotes) \in Nat
         /\ DOMAIN Shown(m, rows).quotes = 1..Len(Shown(m, rows).quotes)
         /\ \A q \in QuotesOf(m, rows) : \E i \in DOMAIN Shown(m, rows).quotes :
               Shown(m, rows).quotes[i] = q

\* The line board of an event is one of its markets.
LEMMA BoardShows ==
  ASSUME NEW mkts, NEW rows, BookTables(mkts, rows), IsFiniteSet(mkts), NEW event_id
  PROVE  ShowsMarkets({ToBoardMarket(m) : m \in ListMarketQuotes(event_id, mkts, rows)},
                      MarketsOf(event_id, mkts), mkts, rows)
<1>. DEFINE board == {ToBoardMarket(m) : m \in ListMarketQuotes(event_id, mkts, rows)}
            f == [m \in mkts |-> Shown(m, rows)]
<1>1. board = {Shown(m, rows) : m \in MarketsOf(event_id, mkts)}
  BY DEF ListMarketQuotes, Shown
<1>2. IsFiniteSet(board)
  <2>1. MarketsOf(event_id, mkts) \in SUBSET mkts
    BY DEF MarketsOf
  <2>2. board = {f[m] : m \in MarketsOf(event_id, mkts)}
    BY <1>1, <2>1
  <2>. HIDE DEF board, f
  <2>3. IsFiniteSet(MarketsOf(event_id, mkts))
    BY <2>1, FS_Subset
  <2>. QED
    BY <2>2, <2>3, ImageFinite
<1>3. ASSUME NEW m \in mkts
      PROVE  /\ Shown(m, rows).id = m.id
             /\ Len(Shown(m, rows).quotes) = Cardinality(QuotesOf(m, rows))
             /\ Len(Shown(m, rows).quotes) \in Nat
             /\ DOMAIN Shown(m, rows).quotes = 1..Len(Shown(m, rows).quotes)
             /\ \A q \in QuotesOf(m, rows) : \E i \in DOMAIN Shown(m, rows).quotes :
                   Shown(m, rows).quotes[i] = q
  <2>. DEFINE Q == QuotesOf(m, rows)
              ranked == RankQuotes(Q)
  <2>1. Shown(m, rows).id = m.id /\ Shown(m, rows).quotes = ranked
    BY DEF Shown, ToBoardMarket
  <2>2. PricedQuotes(Q) /\ IsFiniteSet(Q)
    BY MarketQuotesPriced DEF PricedQuotes
  <2>3. Sorts(ranked, Q, Ranking(Q)) /\ Cardinality(Q) \in Nat
    BY <2>2, RankingSorts, FS_CardinalityType
  <2>. HIDE DEF Q, ranked
  <2>4. /\ Len(ranked) = Cardinality(Q) /\ DOMAIN ranked = 1..Len(ranked)
        /\ \A q \in Q : \E i \in 1..Len(ranked) : ranked[i] = q
    BY <2>3 DEF Sorts
  <2>. QED
    BY <2>1, <2>3, <2>4 DEF Q
<1>. QED
  BY <1>1, <1>2, <1>3 DEF ShowsMarkets

\* Each book that quoted a market still does.
LEMMA BooksStay ==
  ASSUME NEW mkts, NEW rows, NEW mkts2, NEW rows2, Grown(mkts, rows, mkts2, rows2),
         NEW m \in mkts2
  PROVE  /\ \A q \in QuotesOf(m, rows) : \E p \in QuotesOf(m, rows2) :
               p.sportsbook = q.sportsbook
         /\ IsFiniteSet(QuotesOf(m, rows))
         /\ Cardinality(QuotesOf(m, rows)) <= Cardinality(QuotesOf(m, rows2))
<1>. DEFINE Q == QuotesOf(m, rows)
            P == QuotesOf(m, rows2)
            f == [q \in Q |-> CHOOSE p \in P : p.sportsbook = q.sportsbook]
<1>1. \A q \in Q : \E p \in P : p.sportsbook = q.sportsbook
  <2>. SUFFICES ASSUME NEW q \in Q PROVE \E p \in P : p.sportsbook = q.sportsbook
    OBVIOUS
  <2>1. PICK r \in rows : r.market_id = m.id /\ q = RowToQuote(m, r)
    BY DEF QuotesOf
  <2>2. PICK s \in rows2 : SameBook(s, r)
    BY DEF Grown
  <2>3. RowToQuote(m, s) \in P /\ RowToQuote(m, s).sportsbook = q.sportsbook
    BY <2>1, <2>2 DEF SameBook, QuotesOf, RowToQuote
  <2>. QED
    BY <2>3
<1>2. PricedQuotes(Q) /\ PricedQuotes(P)
  BY MarketQuotesPriced DEF Grown
<1>. HIDE DEF Q, P
<1>3. \A q \in Q : f[q] \in P /\ f[q].sportsbook = q.sportsbook
  BY <1>1
<1>4. f \in Injection(Q, P)
  <2>1. f \in [Q -> P]
    BY <1>3
  <2>. HIDE DEF f
  <2>2. \A q, r \in Q : f[q] = f[r] => q = r
    BY <1>2, <1>3 DEF PricedQuotes
  <2>. QED
    BY <2>1, <2>2 DEF Injection, IsInjective
<1>5. IsFiniteSet(Q) /\ Cardinality(Q) <= Cardinality(P)
  BY <1>2, <1>4, FS_Injection DEF PricedQuotes
<1>. QED
  BY <1>1, <1>5 DEF Q, P

\* The quotes of an event are finitely many, each of one market.
LEMMA EventQuotes ==
  ASSUME NEW mkts, NEW rows, NEW mkts2, NEW rows2, Grown(mkts, rows, mkts2, rows2),
         NEW event_id
  PROVE  LET all == ListLatestQuotes(event_id, mkts, rows) IN
           /\ IsFiniteSet(all)
           /\ \A q \in all : \E m \in MarketsOf(event_id, mkts2) :
                /\ q \in QuotesOf(m, rows) /\ m.id = MarketId(q)
<1>. DEFINE all == ListLatestQuotes(event_id, mkts, rows)
            M == MarketsOf(event_id, mkts)
            f == [m \in M |-> QuotesOf(m, rows)]
<1>1. M \in SUBSET mkts2 /\ M \in SUBSET MarketsOf(event_id, mkts2)
  BY DEF Grown, MarketsOf
<1>2. all = UNION {f[m] : m \in M}
  BY DEF ListLatestQuotes
<1>3. \A m \in M : f[m] = QuotesOf(m, rows) /\ IsFiniteSet(f[m])
  BY <1>1, BooksStay
<1>. HIDE DEF f, all
<1>4. IsFiniteSet({f[m] : m \in M})
  <2>1. IsFiniteSet(M)
    BY <1>1, FS_Subset DEF Grown
  <2>. HIDE DEF M
  <2>. QED
    BY <2>1, ImageFinite
<1>5. IsFiniteSet(all)
  <2>. DEFINE sets == {f[m] : m \in M}
  <2>1. \A T \in sets : IsFiniteSet(T)
    BY <1>3
  <2>2. all = UNION sets /\ IsFiniteSet(sets)
    BY <1>2, <1>4
  <2>. HIDE DEF sets
  <2>. QED
    BY <2>1, <2>2, FS_UNION
<1>6. ASSUME NEW q \in all
      PROVE  \E m \in MarketsOf(event_id, mkts2) : q \in QuotesOf(m, rows) /\ m.id = MarketId(q)
  <2>1. PICK m \in M : q \in QuotesOf(m, rows)
    BY <1>2, <1>3
  <2>2. m.id = MarketId(m)
    BY <1>1 DEF Grown, BookTables
  <2>3. MarketId(q) = MarketId(m)
    BY <2>1 DEF QuotesOf, RowToQuote, MarketId
  <2>. QED
    BY <1>1, <2>1, <2>2, <2>3
<1>. QED
  BY <1>5, <1>6 DEF all

\* No more quotes are counted than the board read later shows.
LEMMA QuotesShown ==
  ASSUME NEW mkts, NEW rows, NEW mkts2, NEW rows2, Grown(mkts, rows, mkts2, rows2),
         NEW event_id
  PROVE  LET board == {ToBoardMarket(m) : m \in ListMarketQuotes(event_id, mkts2, rows2)} IN
           Cardinality(ListLatestQuotes(event_id, mkts, rows)) <=
             MapThenSumSet(LAMBDA m : Len(m.quotes), board)
<1>. DEFINE board == {ToBoardMarket(m) : m \in ListMarketQuotes(event_id, mkts2, rows2)}
            all == ListLatestQuotes(event_id, mkts, rows)
            M == MarketsOf(event_id, mkts2)
            market(q) == CHOOSE m \in M : m.id = MarketId(q)
            g == [q \in all |-> Shown(market(q), rows2)]
<1>1. /\ IsFiniteSet(all)
      /\ \A q \in all : \E m \in M : q \in QuotesOf(m, rows) /\ m.id = MarketId(q)
  BY EventQuotes
<1>2. ShowsMarkets(board, M, mkts2, rows2)
  <2>1. BookTables(mkts2, rows2) /\ IsFiniteSet(mkts2)
    BY DEF Grown
  <2>. QED
    BY <2>1, BoardShows
<1>3. M \subseteq mkts2
  BY DEF MarketsOf
<1>. HIDE DEF board, all, M
<1>4. ASSUME NEW q \in all PROVE market(q) \in M /\ market(q).id = MarketId(q)
  BY <1>1
<1>. HIDE DEF market
<1>5. \A q \in all : g[q] \in board /\ g[q].id = MarketId(q)
  BY <1>2, <1>3, <1>4 DEF ShowsMarkets
<1>. HIDE DEF g
<1>6. ASSUME NEW b \in board
      PROVE  Len(b.quotes) \in Nat /\ Cardinality({q \in all : g[q] = b}) <= Len(b.quotes)
  <2>1. PICK m \in M : b = Shown(m, rows2)
    BY <1>2 DEF ShowsMarkets
  <2>2. ASSUME NEW q \in all, g[q] = b PROVE q \in QuotesOf(m, rows)
    <3>1. PICK n \in M : q \in QuotesOf(n, rows) /\ n.id = MarketId(q)
      BY <1>1
    <3>2. MarketId(q) = m.id
      BY <1>2, <1>3, <1>5, <2>1, <2>2 DEF ShowsMarkets
    <3>3. n = m
      BY <1>3, <3>1, <3>2 DEF Grown
    <3>. QED
      BY <3>1, <3>3
  <2>3. /\ IsFiniteSet(QuotesOf(m, rows))
        /\ Cardinality(QuotesOf(m, rows)) <= Cardinality(QuotesOf(m, rows2))
    BY <1>3, BooksStay
  <2>. DEFINE F == {q \in all : g[q] = b}
  <2>4. F \in SUBSET QuotesOf(m, rows)
    BY <2>2
  <2>. HIDE DEF F
  <2>5. /\ Cardinality(F) <= Cardinality(QuotesOf(m, rows)) /\ Cardinality(F) \in Nat
        /\ Cardinality(QuotesOf(m, rows)) \in Nat
    BY <2>3, <2>4, FS_Subset, FS_CardinalityType
  <2>6. Len(b.quotes) = Cardinality(QuotesOf(m, rows2)) /\ Len(b.quotes) \in Nat
    BY <1>2, <1>3, <2>1 DEF ShowsMarkets
  <2>. QED
    BY <2>3, <2>5, <2>6 DEF F
<1>7. Cardinality(all) <= MapThenSumSet(LAMBDA m : Len(m.quotes), board)
  BY <1>1, <1>2, <1>5, <1>6, QuotesSummed DEF ShowsMarkets
<1>. QED
  BY <1>7 DEF all, board

\* No more books are counted than it names.
LEMMA BooksShown ==
  ASSUME NEW mkts, NEW rows, NEW mkts2, NEW rows2, Grown(mkts, rows, mkts2, rows2),
         NEW event_id
  PROVE  LET board    == {ToBoardMarket(m) : m \in ListMarketQuotes(event_id, mkts2, rows2)}
             books(m) == {m.quotes[i].sportsbook : i \in DOMAIN m.quotes}
         IN  Cardinality({q.sportsbook : q \in ListLatestQuotes(event_id, mkts, rows)}) <=
               Cardinality(UNION {books(m) : m \in board})
<1>. DEFINE board == {ToBoardMarket(m) : m \in ListMarketQuotes(event_id, mkts2, rows2)}
            books(m) == {m.quotes[i].sportsbook : i \in DOMAIN m.quotes}
            all == ListLatestQuotes(event_id, mkts, rows)
            M == MarketsOf(event_id, mkts2)
            named == UNION {books(m) : m \in board}
            counted == {q.sportsbook : q \in all}
<1>1. \A q \in all : \E m \in M : q \in QuotesOf(m, rows)
  BY EventQuotes
<1>2. ShowsMarkets(board, M, mkts2, rows2)
  <2>1. BookTables(mkts2, rows2) /\ IsFiniteSet(mkts2)
    BY DEF Grown
  <2>. QED
    BY <2>1, BoardShows
<1>3. M \subseteq mkts2
  BY DEF MarketsOf
<1>. HIDE DEF board, all, M
<1>4. ASSUME NEW q \in all PROVE q.sportsbook \in named
  <2>1. PICK m \in M : q \in QuotesOf(m, rows)
    BY <1>1
  <2>2. PICK p \in QuotesOf(m, rows2) : p.sportsbook = q.sportsbook
    BY <1>3, <2>1, BooksStay
  <2>3. PICK i \in DOMAIN Shown(m, rows2).quotes : Shown(m, rows2).quotes[i] = p
    BY <1>2, <1>3 DEF ShowsMarkets
  <2>4. q.sportsbook \in books(Shown(m, rows2)) /\ Shown(m, rows2) \in board
    BY <1>2, <2>2, <2>3 DEF ShowsMarkets
  <2>. QED
    BY <2>4
<1>5. ASSUME NEW b \in board PROVE IsFiniteSet(books(b))
  <2>1. PICK D : D = DOMAIN b.quotes
    OBVIOUS
  <2>2. IsFiniteSet(D)
    BY <1>2, <1>3, <2>1, FS_Interval DEF ShowsMarkets
  <2>. DEFINE f == [i \in D |-> b.quotes[i].sportsbook]
  <2>3. books(b) = {f[i] : i \in D}
    BY <2>1
  <2>. HIDE DEF f, books
  <2>. QED
    BY <2>2, <2>3, ImageFinite
<1>6. IsFiniteSet(named)
  <2>. DEFINE f == [b \in board |-> books(b)]
              sets == {f[b] : b \in board}
  <2>1. named = UNION sets /\ \A T \in sets : IsFiniteSet(T)
    BY <1>5
  <2>. HIDE DEF f, named
  <2>2. IsFiniteSet(sets)
    BY <1>2, ImageFinite DEF ShowsMarkets
  <2>. HIDE DEF sets
  <2>. QED
    BY <2>1, <2>2, FS_UNION
<1>7. counted \in SUBSET named
  <2>. HIDE DEF named
  <2>. QED
    BY <1>4
<1>. HIDE DEF counted, named
<1>8. Cardinality(counted) <= Cardinality(named)
  BY <1>6, <1>7, FS_Subset
<1>. QED
  BY <1>8 DEF counted, named, all, board

\* No step takes a market or a book's row away.
LEMMA TablesGrow ==
  ASSUME ReadersInv, [Next]_vars
  PROVE  Grown(markets, latest, markets', latest')
<1>1. ReadersInv'
  BY ReadersStep
<1>2. /\ markets \subseteq markets' /\ history \subseteq history'
      /\ \/ latest' = latest
         \/ LatestIsNewestHistory /\ LatestIsNewestHistory'
  BY <1>1 DEF ReadersInv, IngestInv, Next, vars, tables, World, Click, Scan, Fetch, FetchFails,
    ReceiveScan, Receive, Begin, WriteEvent, Look, InsertMarket, Replace, Lose, Commit, AfterCommit,
    EvalBegin, Evaluate, Announce, Stamp, Abort, DeadlockVictim
<1>3. ASSUME NEW r \in latest PROVE \E s \in latest' : SameBook(s, r)
  BY <1>2 DEF LatestIsNewestHistory, SameBook
<1>4. BookTables(markets', latest')
  BY <1>1, TablesTypedNext DEF TypedTables
<1>5. TypedTables(markets, latest)
  BY TablesTyped DEF TablesReady
<1>6. BookTables(markets', latest)
  BY <1>4, <1>5 DEF BookTables, TypedTables
<1>. QED
  BY <1>1, <1>2, <1>3, <1>4, <1>6 DEF Grown, ReadersInv, TablesKeyed

\* A board whose header counts all the quotes, with the markets shown.
Counts(board, all, shown) ==
    /\ board.event.quotes.quote_count = Cardinality(all)
    /\ board.event.quotes.book_count = Cardinality({q.sportsbook : q \in all})
    /\ board.markets = shown

\* The header of a stored event's board counts its quotes and books.
LEMMA BoardHeader ==
  ASSUME NEW events, NEW e \in events, NEW mkts, NEW rows, NEW mkts2, NEW rows2
  PROVE  Counts(GetLineBoard(e.external_id, events, mkts, rows, mkts2, rows2),
                ListLatestQuotes(e.external_id, mkts, rows),
                {ToBoardMarket(m) : m \in ListMarketQuotes(e.external_id, mkts2, rows2)})
<1>. DEFINE id == e.external_id
            board == GetLineBoard(id, events, mkts, rows, mkts2, rows2)
            same == {f \in events : f.external_id = id}
            first == CHOOSE f \in same : TRUE
<1>1. e \in same
  OBVIOUS
<1>2. first \in same
  <2>. HIDE DEF same
  <2>. QED
    BY <1>1
<1>3. first.external_id = id
  <2>1. same \subseteq events /\ \A f \in same : f.external_id = id
    OBVIOUS
  <2>. HIDE DEF same, id, first
  <2>. QED
    BY <1>2, <2>1
<1>4. /\ board.event = GetEvent(id, events, mkts, rows)
      /\ board.markets = {ToBoardMarket(m) : m \in ListMarketQuotes(id, mkts2, rows2)}
  BY DEF GetLineBoard
<1>5. GetEvent(id, events, mkts, rows) = EventSummary(first, mkts, rows)
  BY <1>1 DEF GetEvent
<1>6. EventSummary(first, mkts, rows).quotes = Freshness(id, mkts, rows)
  <2>. HIDE DEF first, id
  <2>. QED
    BY <1>3 DEF EventSummary
<1>7. /\ Freshness(id, mkts, rows).quote_count = Cardinality(ListLatestQuotes(id, mkts, rows))
      /\ Freshness(id, mkts, rows).book_count =
            Cardinality({q.sportsbook : q \in ListLatestQuotes(id, mkts, rows)})
  BY DEF Freshness
<1>. HIDE DEF board, first
<1>. QED
  BY <1>4, <1>5, <1>6, <1>7 DEF Counts, board

\* The markets of a line board, read after its header, show all it counts.
THEOREM BoardGrows == Spec => BoardOnlyGrows
<1>. DEFINE A == latest' # latest => \A e \in stored :
         LET board  == GetLineBoard(e.external_id, stored, markets, latest, markets', latest')
             header == board.event.quotes
             books(m) == {m.quotes[i].sportsbook : i \in DOMAIN m.quotes}
         IN  /\ header.quote_count <=
                   MapThenSumSet(LAMBDA m : Len(m.quotes), board.markets)
             /\ header.book_count <=
                   Cardinality(UNION {books(m) : m \in board.markets})
<1>1. ReadersInv /\ [Next]_vars => A
  <2>. SUFFICES ASSUME ReadersInv, [Next]_vars, NEW e \in stored
                PROVE  LET board  == GetLineBoard(e.external_id, stored, markets, latest,
                                                  markets', latest')
                           header == board.event.quotes
                           books(m) == {m.quotes[i].sportsbook : i \in DOMAIN m.quotes}
                       IN  /\ header.quote_count <=
                                 MapThenSumSet(LAMBDA m : Len(m.quotes), board.markets)
                           /\ header.book_count <=
                                 Cardinality(UNION {books(m) : m \in board.markets})
    OBVIOUS
  <2>. DEFINE board == GetLineBoard(e.external_id, stored, markets, latest, markets', latest')
              all == ListLatestQuotes(e.external_id, markets, latest)
              later == {ToBoardMarket(m) : m \in ListMarketQuotes(e.external_id, markets', latest')}
              books(m) == {m.quotes[i].sportsbook : i \in DOMAIN m.quotes}
  <2>1. Grown(markets, latest, markets', latest')
    BY TablesGrow
  <2>2. Counts(board, all, later)
    BY BoardHeader
  <2>3. Cardinality(all) <= MapThenSumSet(LAMBDA m : Len(m.quotes), later)
    BY <2>1, QuotesShown
  <2>4. Cardinality({q.sportsbook : q \in all}) <= Cardinality(UNION {books(m) : m \in later})
    BY <2>1, BooksShown
  <2>. HIDE DEF board, all, later
  <2>5. /\ board.event.quotes.quote_count <=
              MapThenSumSet(LAMBDA m : Len(m.quotes), board.markets)
        /\ board.event.quotes.book_count <=
              Cardinality(UNION {books(m) : m \in board.markets})
    BY <2>2, <2>3, <2>4 DEF Counts
  <2>. QED
    BY <2>5 DEF board
<1>. HIDE DEF A
<1>2. ReadersInv /\ [Next]_vars => [A]_vars
  BY <1>1
<1>. QED
  BY <1>2, ReadersInvariance, PTL DEF Spec, BoardOnlyGrows, A
=============================================================================
