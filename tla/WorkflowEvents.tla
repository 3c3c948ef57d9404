--------------------------- MODULE WorkflowEvents ---------------------------
(***************************************************************************)
(* The audit events of ingestion and of recommendations, and what a unit   *)
(* of work inserts of them.                                                *)
(*                                                                         *)
(*   backend/app/domain/events.py                                          *)
(*                                                                         *)
(* An event is named by what it is about and by the workflow that staged   *)
(* it; its own id and occurred_at are left out.                            *)
(***************************************************************************)
EXTENDS Naturals, Sequences, FiniteSets

\* A market as it was first seen, about to be quoted.
MarketSnapshotCreated(refresh_id, persisted) ==
    [event_type |-> "MarketSnapshotCreated", aggregate_id |-> persisted.market_id,
     workflow_id |-> refresh_id,
     payload |-> [f \in {"event_id", "market_type", "selection", "line"} |->
                    persisted.quote[f]]]

QuoteUpdated(refresh_id, persisted) ==
    [event_type |-> "QuoteUpdated", aggregate_id |-> persisted.market_id,
     workflow_id |-> refresh_id,
     payload |-> [f \in {"event_id", "market_type", "selection", "sportsbook", "price",
                         "line"} |-> persisted.quote[f]]]

QuotesRefreshed(refresh_id, event_id, persisted) ==
    [event_type |-> "QuotesRefreshed", aggregate_id |-> refresh_id,
     workflow_id |-> refresh_id,
     payload |-> [event_id |-> event_id,
                  ingested_quote_count |-> Len(persisted),
                  created_market_count |->
                    Cardinality({i \in DOMAIN persisted : persisted[i].market_created}),
                  updated_latest_count |-> Len(persisted),
                  appended_history_count |-> Len(persisted)]]

\* What refresh_quotes stages: for each quote in turn, and at the end.
RefreshEvents(refresh_id, event_id, persisted) ==
    {MarketSnapshotCreated(refresh_id, persisted[i]) :
        i \in {i \in DOMAIN persisted : persisted[i].market_created}}
    \cup {QuoteUpdated(refresh_id, persisted[i]) : i \in DOMAIN persisted}
    \cup {QuotesRefreshed(refresh_id, event_id, persisted)}

-----------------------------------------------------------------------------
OrderIntentSubmitted(order_intent_id, intent) ==
    [event_type |-> "OrderIntentSubmitted", aggregate_id |-> order_intent_id,
     workflow_id |-> order_intent_id,
     payload |-> [f \in {"event_id", "market_type", "selection", "target_price", "line"} |->
                    intent[f]]]

\* _quote_snapshot; absent is Python's None.
QuoteSnapshot(quote, absent) ==
    IF quote = absent THEN absent
    ELSE [f \in {"sportsbook", "selection", "price", "line"} |-> quote[f]]

ExecutionRecommendationGenerated(order_intent_id, recommendation_id, recommendation, absent) ==
    [event_type |-> "ExecutionRecommendationGenerated", aggregate_id |-> recommendation_id,
     workflow_id |-> order_intent_id,
     payload |-> [fillable |-> recommendation.fillable,
                  matched_quote_count |-> recommendation.matched_quote_count,
                  best_quote |-> QuoteSnapshot(recommendation.best_quote, absent),
                  nearest_miss |-> QuoteSnapshot(recommendation.nearest_miss, absent)]]
=============================================================================
