---------------------------- MODULE QuoteEngines ----------------------------
(***************************************************************************)
(* The deterministic engines, and the reads that feed them: from what      *)
(* upstream answers to quotes, from stored quotes to a ranking, a          *)
(* recommendation, an opportunity, a line board.                           *)
(*                                                                         *)
(*   backend/app/engines/, domain/models.py, domain/public_events.py,      *)
(*   infrastructure/persistence/quote_reads.py, market_identity.py         *)
(*                                                                         *)
(* A table is a set of rows.  Sportsbooks are numbered in the order of     *)
(* their names, 0 being the blank one; the blank selection is "".  A line  *)
(* is an integer in units of 0.00001, a moment an integer on one clock.    *)
(***************************************************************************)
EXTENDS Integers, TLC, WorkflowEvents

CONSTANT None     \* SQL's NULL, Python's None

\* sorted(S) for a strict total order of S, by the place of each element.
Sorted(S, Before(_, _)) ==
    [i \in 1..Cardinality(S) |->
        CHOOSE x \in S : Cardinality({y \in S : Before(y, x)}) = i - 1]

Ascending(places) == Sorted(places, <)

\* The elements of a sequence that a loop does not skip, in their order.
Kept(s, Test(_)) ==
    LET places == Ascending({i \in DOMAIN s : Test(s[i])})
    IN  [i \in DOMAIN places |-> s[places[i]]]

-----------------------------------------------------------------------------
\* Quotes from an answer: one outcome of a bookmaker's market each.
MARKET_TYPE_MAP == [h2h |-> "moneyline", spreads |-> "spread", totals |-> "total"]

MapEventToQuotes(event_id, outcomes) ==
    LET type(o) == MARKET_TYPE_MAP[o.market]
        kept == Kept(outcomes, LAMBDA o :
                  /\ o.market \in DOMAIN MARKET_TYPE_MAP
                  /\ o.price # None
                  /\ type(o) = "total" => o.name \in {"over", "under"})
    IN  [i \in DOMAIN kept |->
          [event_id    |-> event_id,
           sportsbook  |-> kept[i].bookmaker,
           market_type |-> type(kept[i]),
           selection   |-> kept[i].name,
           price       |-> kept[i].price,
           line        |-> IF type(kept[i]) = "moneyline" THEN None ELSE kept[i].point,
           quoted_at   |-> IF kept[i].last_update # None THEN kept[i].last_update
                           ELSE kept[i].bookmaker_last_update]]

Normal(event_id, q) ==
    /\ q.event_id = event_id
    /\ q.sportsbook # 0 /\ q.selection # ""
    /\ q.market_type = "moneyline" => q.line = None
    /\ q.market_type \in {"spread", "total"} => q.line # None
    /\ q.market_type = "total" => q.selection \in {"over", "under"}

NormalizeQuotes(event_id, quotes) ==
    Kept(quotes, LAMBDA q : Normal(event_id, q))

\* build_line_key: four decimals; what unique(event, type, selection, line_key)
\* identifies a market by.
LineKey(line) == IF line = None THEN None ELSE (line + 5) \div 10

MarketId(q) == <<q.event_id, q.market_type, q.selection, LineKey(q.line)>>

-----------------------------------------------------------------------------
\* Reads.  A row of `latest` names its market by id; the quote read back has
\* the line the market was created with.
RowToQuote(m, r) ==
    [event_id |-> m.event_id, sportsbook |-> r.sportsbook,
     market_type |-> m.market_type, selection |-> m.selection,
     price |-> r.price, line |-> m.line,
     quoted_at |-> r.quoted_at, ingested_at |-> r.ingested_at]

QuotesOf(m, latest) == {RowToQuote(m, r) : r \in {r \in latest : r.market_id = m.id}}

MarketsOf(event_id, markets) == {m \in markets : m.event_id = event_id}

ListLatestQuotes(event_id, markets, latest) ==
    UNION {QuotesOf(m, latest) : m \in MarketsOf(event_id, markets)}

-----------------------------------------------------------------------------
\* Ranking and matching.
IsPriceFillable(price, target_price) == price >= target_price

\* The sort key (-price, sportsbook).
Better(q, r) ==
    \/ q.price > r.price
    \/ q.price = r.price /\ q.sportsbook < r.sportsbook

RankQuotes(quotes) == Sorted(quotes, Better)

MatchQuotes(intent, quotes) ==
    {q \in quotes : /\ q.event_id = intent.event_id
                    /\ q.market_type = intent.market_type
                    /\ q.selection = intent.selection
                    /\ q.line = intent.line}

Fillable(intent, quotes) ==
    {q \in quotes : IsPriceFillable(q.price, intent.target_price)}

\* The first element in the order of the ranking; None of nothing.
Best(quotes) == IF quotes = {} THEN None ELSE RankQuotes(quotes)[1]

GenerateRecommendation(intent, matched) ==
    LET fillable == Fillable(intent, matched) IN
      [fillable            |-> fillable # {},
       best_quote          |-> IF fillable # {} THEN Best(fillable) ELSE Best(matched),
       ranked_quotes       |-> RankQuotes(matched),
       nearest_miss        |-> IF fillable # {} THEN None ELSE Best(matched \ fillable),
       matched_quote_count |-> Cardinality(matched)]

\* _quote_payload: what a row keeps of a quote.
QuotePayload(q) ==
    IF q = None THEN None
    ELSE [f \in DOMAIN q \ {"quoted_at", "ingested_at"} |-> q[f]]

CreateExecutionRecommendation(order_intent_id, recommendation) ==
    [order_intent_id     |-> order_intent_id,
     fillable            |-> recommendation.fillable,
     matched_quote_count |-> recommendation.matched_quote_count,
     best_quote          |-> QuotePayload(recommendation.best_quote),
     nearest_miss        |-> QuotePayload(recommendation.nearest_miss),
     ranked_quotes       |-> [i \in DOMAIN recommendation.ranked_quotes |->
                                QuotePayload(recommendation.ranked_quotes[i])]]

\* recommend: what its transaction reads and generates, and the rows it inserts
\* (the recommendation is named as its order intent is).
Recommend(order_intent_id, intent, markets, latest) ==
    LET quotes == ListLatestQuotes(intent.event_id, markets, latest)
        recommendation == GenerateRecommendation(intent, MatchQuotes(intent, quotes))
    IN  [returned                  |-> recommendation,
         order_intents             |-> {[id |-> order_intent_id] @@ intent},
         execution_recommendations |->
            {CreateExecutionRecommendation(order_intent_id, recommendation)},
         workflow_events           |->
            {OrderIntentSubmitted(order_intent_id, intent),
             ExecutionRecommendationGenerated(order_intent_id, order_intent_id,
                                              recommendation, None)}]

\* Mutant: the first fillable book, in the order of their names.
EvaluateWatchUnranked(watch, quotes, markets) ==
    LET fillable == Fillable(watch, MatchQuotes(watch, quotes))
        ids == {m.id : m \in MatchQuotes(watch, markets)}
        first == CHOOSE q \in fillable : \A r \in fillable : q.sportsbook <= r.sportsbook
    IN  IF fillable = {} \/ ids = {} THEN None
        ELSE [watch_intent_id |-> watch.id,
              market_id       |-> CHOOSE id \in ids : TRUE,
              best_sportsbook |-> first.sportsbook,
              best_price      |-> first.price,
              matching_quotes |-> RankQuotes(fillable),
              created_at      |-> None]

\* evaluate, for one active watch: its opportunity, or None.
EvaluateWatch(watch, quotes, markets) ==
    LET fillable == Fillable(watch, MatchQuotes(watch, quotes))
        ids == {m.id : m \in MatchQuotes(watch, markets)}
    IN  IF fillable = {} \/ ids = {} THEN None
        ELSE [watch_intent_id |-> watch.id,
              market_id       |-> CHOOSE id \in ids : TRUE,
              best_sportsbook |-> Best(fillable).sportsbook,
              best_price      |-> Best(fillable).price,
              matching_quotes |-> [i \in 1..Cardinality(fillable) |->
                                     [sportsbook |-> RankQuotes(fillable)[i].sportsbook,
                                      price      |-> RankQuotes(fillable)[i].price]],
              created_at      |-> None]

\* list_market_quotes: a market nobody quotes is there, without quotes.
ListMarketQuotes(event_id, markets, latest) ==
    {[market |-> m, quotes |-> QuotesOf(m, latest)] : m \in MarketsOf(event_id, markets)}

\* LineBoardMarket.from_ranked of one market's quotes.
ToBoardMarket(m) ==
    [id              |-> m.market.id,
     quotes          |-> RankQuotes(m.quotes),
     best_sportsbook |-> IF m.quotes = {} THEN None ELSE Best(m.quotes).sportsbook,
     best_price      |-> IF m.quotes = {} THEN None ELSE Best(m.quotes).price]

-----------------------------------------------------------------------------
\* Opportunities once identified: validity, and what consumers are told.

\* Mutant: a price that still stands never expires.
CheckValidityWhileUnchanged(created_at, latest_quote_time, ttl, now) ==
    IF created_at = None THEN "missing_timestamp"
    ELSE IF latest_quote_time = None THEN "quote_removed"
    ELSE IF latest_quote_time > created_at THEN "quote_superseded" ELSE "valid"

CheckValidity(created_at, latest_quote_time, ttl, now) ==
    IF created_at = None THEN "missing_timestamp"
    ELSE IF now - created_at > ttl THEN "expired"
    ELSE IF latest_quote_time = None THEN "quote_removed"
    ELSE IF latest_quote_time > created_at THEN "quote_superseded" ELSE "valid"

\* The row of the best book, from which get_latest_quote_times reads its time.
LatestRow(market_id, sportsbook, latest) ==
    {r \in latest : r.market_id = market_id /\ r.sportsbook = sportsbook}

LatestQuoteTime(opp, latest) ==
    LET rows == LatestRow(opp.market_id, opp.best_sportsbook, latest) IN
      IF rows = {} THEN None ELSE (CHOOSE r \in rows : TRUE).ingested_at

\* list_opportunities: each with the verdict on it.
ListOpportunities(opps, latest, ttl, now) ==
    {LET reason == CheckValidity(o.created_at, LatestQuoteTime(o, latest), ttl, now)
     IN  [opportunity |-> o, is_valid |-> reason = "valid", reason |-> reason] : o \in opps}

\* get_opportunity_event_context: the event's row, and the best book's own
\* line-movement time.  `stored` has at most one row of an event.
EventContext(opp, stored, latest) ==
    LET rows == {e \in stored : e.external_id = opp.market_id[1]}
        best == LatestRow(opp.market_id, opp.best_sportsbook, latest)
    IN  IF rows = {} THEN [sport |-> None, starts_at |-> None, best_quoted_at |-> None]
        ELSE [sport          |-> (CHOOSE e \in rows : TRUE).sport,
              starts_at      |-> (CHOOSE e \in rows : TRUE).starts_at,
              best_quoted_at |-> IF best = {} THEN None
                                 ELSE (CHOOSE r \in best : TRUE).quoted_at]

\* opportunity.identified.v1, built from the evaluated opportunity: created_at
\* is the database's and is not known to it.
OpportunityIdentified(opp, context, valid_for, now) ==
    LET created_at == IF opp.created_at = None THEN now ELSE opp.created_at IN
      [watch_intent_id |-> opp.watch_intent_id,
       sport           |-> context.sport,
       starts_at       |-> context.starts_at,
       best            |-> [sportsbook |-> opp.best_sportsbook, price |-> opp.best_price,
                            quoted_at  |-> context.best_quoted_at],
       matching        |-> opp.matching_quotes,
       expires_at      |-> created_at + valid_for]
=============================================================================
