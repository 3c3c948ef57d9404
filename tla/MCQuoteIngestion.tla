--------------------------- MODULE MCQuoteIngestion ---------------------------
(* QuoteIngestion on small instances. *)
EXTENDS QuoteIngestion

Interchangeable == Permutations(Callers)

\* One outcome of a bookmaker's market, the books being 1 and 2.
Outcome(bookmaker, market, name, point, price, last_update) ==
    [bookmaker |-> bookmaker, bookmaker_last_update |-> None, market |-> market,
     name |-> name, point |-> point, price |-> price, last_update |-> last_update]

Over(bookmaker, price) == Outcome(bookmaker, "totals", "over", 550000, price, None)
Home(bookmaker, price) == Outcome(bookmaker, "h2h", "home", None, price, 0)

\* Two events; then one has been withdrawn, and of the other's quotes, a tie
\* before, the order is reversed and a market added.  An outcome without a price
\* and a market nobody asked for are not quotes.
TwoOffers ==
    [v \in 0..1 |->
       IF v = 0
       THEN <<[id |-> 1, starts_at |-> 9, outcomes |-> <<Over(1, 100), Over(2, 100)>>],
              [id |-> 2, starts_at |-> 1,
               outcomes |-> <<Home(1, 50), Outcome(1, "outrights", "home", None, 50, 0)>>]>>
       ELSE <<[id |-> 1, starts_at |-> 9,
               outcomes |-> <<Home(1, 50), Over(2, 105), Over(1, 90), Over(1, None)>>]>>]

OverMarket == <<1, "total", "over", 55000>>
HomeMarket == <<2, "moneyline", "home", None>>

First(id, line, sportsbook, price, quoted_at) ==
    [quote |-> [event_id |-> id[1], market_type |-> id[2], selection |-> id[3],
                sportsbook |-> sportsbook, price |-> price, line |-> line,
                quoted_at |-> quoted_at],
     market_id |-> id, market_created |-> TRUE]

OverWatch ==
    {[id |-> 1, event_id |-> 1, market_type |-> "total", selection |-> "over",
      line |-> 550000, target_price |-> 105]}

\* One more state a run may start in: that after one refresh of the sport,
\* which is not counted in the bound on calls.
Refreshed ==
    /\ now = 0 /\ offer = 0 /\ loads = 1 /\ fetches = 0
    /\ entries = [k \in Keys |-> IF k = Feed THEN [NoEntry EXCEPT !.generation = 1]
                                ELSE NoEntry]
    /\ NoCalls
    /\ newest = [k \in Keys |-> 0]
    /\ known = [e \in Events |-> IF e = 1 THEN 9 ELSE 1]
    /\ stored = {[external_id |-> e, sport |-> Sport, starts_at |-> known[e]] : e \in Events}
    /\ markets = {[id |-> OverMarket, event_id |-> 1, market_type |-> "total",
                   selection |-> "over", line |-> 550000],
                  [id |-> HomeMarket, event_id |-> 2, market_type |-> "moneyline",
                   selection |-> "home", line |-> None]}
    /\ latest = {[market_id |-> OverMarket, sportsbook |-> book, price |-> 100,
                  quoted_at |-> None, ingested_at |-> 0, version |-> 0, commit |-> 1,
                  place |-> book] : book \in 1..2}
                \cup {[market_id |-> HomeMarket, sportsbook |-> 1, price |-> 50,
                       quoted_at |-> 0, ingested_at |-> 0, version |-> 0, commit |-> 2,
                       place |-> 1]}
    /\ history = latest
    /\ audit = RefreshEvents(1, 1, <<First(OverMarket, 550000, 1, 100, None),
                                     [First(OverMarket, 550000, 2, 100, None)
                                        EXCEPT !.market_created = FALSE]>>)
               \cup RefreshEvents(2, 2, <<First(HomeMarket, None, 1, 50, 0)>>)
    /\ refreshed = 0
    /\ opps = {}
    /\ commits = 2
    /\ NoThreads

WarmOrCold == (Init \/ Refreshed) /\ [][Next]_vars
=============================================================================
