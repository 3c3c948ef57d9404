--------------------------- MODULE QuoteIngestion ---------------------------
(***************************************************************************)
(* Refreshes of one sport and of its events: a call of the provider cache, *)
(* then for every event of the payload a transaction that replaces its     *)
(* latest quotes, and an evaluation of its watches.                        *)
(*                                                                         *)
(*   backend/app/application/quote_ingestion_service.py                    *)
(*   backend/app/infrastructure/persistence/quote_ingestion_uow.py         *)
(*   backend/app/infrastructure/odds_api_provider.py                       *)
(*                                                                         *)
(* Callers are the threads of one process: they share its provider, whose  *)
(* cache is module ProviderCache.  Transactions are PostgreSQL's at READ   *)
(* COMMITTED: a SELECT, or the search of a DELETE, sees what is committed  *)
(* then; a row or a unique key another transaction has written makes the   *)
(* statement wait; what it finds changed then fails it.  What an           *)
(* evaluation does besides inserting opportunities is WatchLifecycle's.    *)
(***************************************************************************)
EXTENDS ProviderCache, EventReads

CONSTANTS
    Feed,         \* the cache key of the sport's feed; the others are events
    Sport,        \* the sport's name, once an event is stored with it
    Offers,       \* per version, the events upstream lists, in its order
    Watches,      \* active watches
    OpportunityTtl, \* OPPORTUNITY_TTL_MINUTES
    MaxFaults     \* bound on transactions lost to an error

Events == Keys \ {Feed}

\* What upstream answers: an outcome of a bookmaker's market, and an event.
Outcomes ==
    [bookmaker : Nat, bookmaker_last_update : Nat \cup {None}, market : STRING,
     name : STRING, point : Int \cup {None}, price : Int \cup {None},
     last_update : Nat \cup {None}]

ListedEvents == [id : Events, starts_at : Nat, outcomes : Seq(Outcomes)]

\* The events of an answer: the whole list, or one event, absent on a 404.
Listed(k, version) ==
    IF k = Feed THEN Offers[version]
    ELSE Kept(Offers[version], LAMBDA o : o.id = k)

\* The normalized quotes an answer of a version brings for an event.
Payload ==
    [version \in 0..MaxVersion |-> [e \in Events |->
        LET answer == Listed(e, version) IN
          IF answer = <<>> THEN <<>>
          ELSE NormalizeQuotes(e, MapEventToQuotes(e, Head(answer).outcomes))]]

\* The rows of the tables, but for those that refer to other tables.
EventRows ==
    [external_id : Events, sport : {None, Sport}, starts_at : Nat \cup {None}]

MarketTypes == {"moneyline", "spread", "total"}
MarketKeys  == Events \X MarketTypes \X STRING \X (Int \cup {None})

MarketRows ==
    [id : MarketKeys, event_id : Events, market_type : MarketTypes,
     selection : STRING \ {""}, line : Int \cup {None}]

Opportunities ==
    [watch_intent_id : {w.id : w \in Watches} \cup {None}, market_id : MarketKeys,
     best_sportsbook : Nat \ {0}, best_price : Int,
     matching_quotes : Seq([sportsbook : Nat \ {0}, price : Int]), created_at : {None}]

NormalQuotes(e) ==
    [event_id : {e}, sportsbook : Nat \ {0}, market_type : MarketTypes,
     selection : STRING \ {""}, price : Int, line : Int \cup {None},
     quoted_at : Nat \cup {None}]

ASSUME IngestionAssumption ==
    /\ Feed \in Keys
    /\ Events \subseteq Nat
    /\ Offers \in [0..MaxVersion -> Seq(ListedEvents)]
    /\ OpportunityTtl \in Nat /\ MaxFaults \in Nat
    /\ None \notin EventRows \cup Opportunities

VARIABLES
    known,        \* the provider's _event_cache: starts_at of events it has seen
    stored,       \* table events
    markets,      \* table markets
    latest,       \* table market_quotes_latest
    history,      \* table market_quotes_history
    audit,        \* workflow_events of ingestion
    refreshed,    \* sport_refreshes.last_refreshed_at
    opps,         \* table opportunities
    commits,      \* refresh transactions committed so far
    pc,           \* where each thread is, once it has a payload
    todo,         \* events of the payload still to ingest, the current first
    pos,          \* the quote it is at
    clock,        \* the moment it read for the current transaction
    row,          \* the events row it is to write, or None
    snap,         \* the commit whose latest row it set out to replace
    made,         \* markets it inserted and has not committed
    found,        \* opportunities its evaluation found and has not inserted
    since,        \* history: the last commit before its call; 0 if its answer
                  \* may be one that upstream gave before
    faults        \* transactions lost so far

tables == <<stored, markets, latest, history, audit, refreshed, opps, commits>>
thread == <<pc, todo, pos, clock, row, snap, made, found>>
vars   == <<cacheVars, known, tables, thread, since, faults>>

Writing == {"look", "insertMarket", "replace", "commit"}
Steps == {"idle", "begin", "updateEvent", "insertEvent", "stamp",
          "evalBegin", "evaluate", "announce"} \cup Writing

NoThreads ==
    /\ pc = [c \in Callers |-> "idle"]
    /\ todo = [c \in Callers |-> <<>>]
    /\ pos = [c \in Callers |-> 0]
    /\ clock = [c \in Callers |-> 0]
    /\ row = [c \in Callers |-> None]
    /\ snap = [c \in Callers |-> 0]
    /\ made = [c \in Callers |-> {}]
    /\ found = [c \in Callers |-> {}]
    /\ since = [c \in Callers |-> 0]
    /\ faults = 0

\* The process starts; its database is empty.
Init ==
    /\ CacheInit
    /\ known = [e \in Events |-> None]
    /\ stored = {} /\ markets = {} /\ latest = {} /\ history = {} /\ audit = {}
    /\ refreshed = None
    /\ opps = {}
    /\ commits = 0
    /\ NoThreads

-----------------------------------------------------------------------------
Goto(c, step) == pc' = [pc EXCEPT ![c] = step]

Ids(answer) == [i \in DOMAIN answer |-> answer[i].id]

\* _cache_event for each event of an answer.
Remember(answer) ==
    known' = [e \in Events |->
                IF \E i \in DOMAIN answer : answer[i].id = e
                THEN (CHOOSE o \in {answer[i] : i \in DOMAIN answer} : o.id = e).starts_at
                ELSE known[e]]

Event(c) == Head(todo[c])
OfSport(c) == call[c].key = Feed

Quotes(c) == Payload[got[c]][Event(c)]
Quote(c) == Quotes(c)[pos[c]]

StoredEvent(e) == {s \in stored : s.external_id = e}

\* What a transaction has written and not committed: its events row, and the
\* keys of the latest rows up to where it is.
HoldsEvent(c, e) == pc[c] \in Writing /\ row[c] # None /\ row[c].external_id = e

BookKey(q) == <<MarketId(q), q.sportsbook>>

WrittenKeys(c) ==
    IF pc[c] \in Writing THEN {BookKey(Quotes(c)[i]) : i \in 1..(pos[c] - 1)} ELSE {}

\* Of the history a row knows the version of the odds it comes from, the commit
\* it came with and its place there.
QuoteRows ==
    [market_id : {m.id : m \in markets}, sportsbook : Nat \ {0}, price : Int,
     quoted_at : Nat \cup {None}, ingested_at : 0..now,
     version : 0..offer, commit : 1..commits, place : Nat \ {0}]

TypeOK ==
    /\ CacheTypeOK
    /\ offer <= MaxVersion
    /\ known \in [Events -> Nat \cup {None}]
    /\ stored \subseteq EventRows
    /\ markets \subseteq MarketRows
    /\ \A m \in markets : m.id = MarketId(m) /\ StoredEvent(m.event_id) # {}
    /\ latest \cup history \subseteq QuoteRows
    /\ refreshed \in Nat \cup {None}
    /\ commits \in Nat
    /\ pc \in [Callers -> Steps]
    /\ todo \in [Callers -> Seq(Events)]
    /\ pos \in [Callers -> Nat]
    /\ clock \in [Callers -> 0..now]
    /\ row \in [Callers -> EventRows \cup {None}]
    /\ snap \in [Callers -> 0..commits]
    /\ made \in [Callers -> SUBSET MarketKeys]
    /\ found = [c \in Callers |-> IF pc[c] = "announce" THEN found[c] ELSE {}]
    /\ since \in [Callers -> 0..commits]
    /\ faults \in 0..MaxFaults

Others(c) == Callers \ {c}

\* The committed row of a book in a market, by the commit that wrote it.
CommitOf(q) ==
    LET rows == LatestRow(MarketId(q), q.sportsbook, latest) IN
      IF rows = {} THEN 0 ELSE (CHOOSE r \in rows : TRUE).commit

NewThread(c) ==
    /\ todo' = [todo EXCEPT ![c] = <<>>]
    /\ pos' = [pos EXCEPT ![c] = 0]
    /\ clock' = [clock EXCEPT ![c] = 0]
    /\ row' = [row EXCEPT ![c] = None]
    /\ snap' = [snap EXCEPT ![c] = 0]
    /\ made' = [made EXCEPT ![c] = {}]
    /\ found' = [found EXCEPT ![c] = {}]

\* The refresh is over, or has raised: nothing of it is left but what it
\* committed.
EndRefresh(c) ==
    /\ Done(c)
    /\ Goto(c, "idle")
    /\ NewThread(c)
    /\ since' = [since EXCEPT ![c] = 0]

\* refresh_sport goes on with the next event and finally stamps the sport.
NextEvent(c) ==
    IF OfSport(c) \/ Tail(todo[c]) # <<>>
    THEN /\ Goto(c, IF Tail(todo[c]) = <<>> THEN "stamp" ELSE "begin")
         /\ todo' = [todo EXCEPT ![c] = Tail(@)]
         /\ pos' = [pos EXCEPT ![c] = 0]
         /\ clock' = [clock EXCEPT ![c] = 0]
         /\ row' = [row EXCEPT ![c] = None]
         /\ snap' = [snap EXCEPT ![c] = 0]
         /\ made' = [made EXCEPT ![c] = {}]
         /\ found' = [found EXCEPT ![c] = {}]
         /\ UNCHANGED <<cacheVars, since>>
    ELSE EndRefresh(c)

-----------------------------------------------------------------------------
\* A deliberate refresh, live.  _resolve_sport_key refuses an event of which
\* neither the database nor the provider knows the sport.
Click(c, k) ==
    /\ k \in Events => known[k] # None \/ \E s \in StoredEvent(k) : s.sport # None
    /\ Arrive(c, k, TRUE)
    /\ since' = [since EXCEPT ![c] = IF Answered(k) = {} THEN commits ELSE 0]
    /\ UNCHANGED <<known, tables, thread, faults>>

\* list_events_for_sport: incidental, so an entry within the TTL will do.
Scan(c) ==
    /\ Arrive(c, Feed, FALSE)
    /\ UNCHANGED <<known, tables, thread, since, faults>>

ReceiveScan(c) ==
    /\ stage[c] = "served"
    /\ ~call[c].live
    /\ Remember(Offers[got[c]])
    /\ Done(c)
    /\ UNCHANGED <<tables, thread, since, faults>>

\* Upstream is out of reach, or refuses: the refresh has written nothing.
FetchFails(c) ==
    /\ Fail(c)
    /\ since' = [since EXCEPT ![c] = 0]
    /\ UNCHANGED <<known, tables, thread, faults>>

\* list_quotes or list_quotes_for_sport returns.  One event is ingested even
\* if upstream does not list it any more, without quotes.
Receive(c) ==
    /\ stage[c] = "served"
    /\ call[c].live
    /\ pc[c] = "idle"
    /\ LET k == call[c].key
           answer == Listed(k, got[c])
           events == IF k = Feed THEN Ids(answer) ELSE <<k>>
       IN  /\ Remember(answer)
           /\ todo' = [todo EXCEPT ![c] = events]
           /\ Goto(c, IF events = <<>> THEN "stamp" ELSE "begin")
    /\ UNCHANGED <<cacheVars, tables, pos, clock, row, snap, made, found, since, faults>>

\* Mutant: an event without metadata gets no row, whatever refers to it.
EventRowIfListed(c) ==
    IF OfSport(c)
    THEN [external_id |-> Event(c), sport |-> Sport, starts_at |-> known[Event(c)]]
    ELSE None

\* With the metadata refresh_sport passes on, from the provider's cache; the
\* refresh of one event has none.
EventRow(c) ==
    [external_id |-> Event(c),
     sport       |-> IF OfSport(c) THEN Sport ELSE None,
     starts_at   |-> IF OfSport(c) THEN known[Event(c)] ELSE None]

GotoQuotes(c) == Goto(c, IF Quotes(c) = <<>> THEN "commit" ELSE "look")

\* persist_quotes reads the clock, and _ensure_event whether the event is
\* there.  A row that is there is written only when there is metadata.
Begin(c) ==
    /\ pc[c] = "begin"
    /\ clock' = [clock EXCEPT ![c] = now]
    /\ pos' = [pos EXCEPT ![c] = 1]
    /\ LET e == Event(c)
           there == StoredEvent(e) # {}
       IN  /\ row' = [row EXCEPT ![c] = IF there /\ ~OfSport(c) THEN None ELSE EventRow(c)]
           /\ \/ ~there /\ Goto(c, "insertEvent")
              \/ there /\ OfSport(c) /\ Goto(c, "updateEvent")
              \/ there /\ ~OfSport(c) /\ GotoQuotes(c)
    /\ UNCHANGED <<cacheVars, known, tables, todo, snap, made, found, since, faults>>

\* UPDATE of the row just found, or INSERT; they wait for another writer.
WriteEvent(c) ==
    /\ \/ pc[c] = "updateEvent"
       \/ pc[c] = "insertEvent" /\ StoredEvent(Event(c)) = {}
    /\ \A d \in Others(c) : ~HoldsEvent(d, Event(c))
    /\ GotoQuotes(c)
    /\ UNCHANGED <<cacheVars, known, tables, todo, pos, clock, row, snap, made, found, since, faults>>

\* SELECT of the quote's market and, if there is one, the search of the
\* DELETE from the latest quotes.
Look(c) ==
    /\ pc[c] = "look"
    /\ IF MarketId(Quote(c)) \in made[c] \cup {m.id : m \in markets}
       THEN /\ Goto(c, "replace")
            /\ snap' = [snap EXCEPT ![c] = CommitOf(Quote(c))]
       ELSE /\ Goto(c, "insertMarket")
            /\ UNCHANGED snap
    /\ UNCHANGED <<cacheVars, known, tables, todo, pos, clock, row, made, found, since, faults>>

NextQuote(c) ==
    /\ pos' = [pos EXCEPT ![c] = @ + 1]
    /\ snap' = [snap EXCEPT ![c] = 0]
    /\ Goto(c, IF pos[c] = Len(Quotes(c)) THEN "commit" ELSE "look")

\* Mutant: a market inserted meanwhile is taken for one's own.
InsertMarketIfAbsent(c) ==
    /\ pc[c] = "insertMarket"
    /\ \A d \in Others(c) : MarketId(Quote(c)) \notin made[d]
    /\ made' = [made EXCEPT ![c] = @ \cup {MarketId(Quote(c))}]
    /\ NextQuote(c)
    /\ UNCHANGED <<cacheVars, known, tables, todo, clock, row, found, since, faults>>

\* INSERT of the market, with the first latest and history row of a book.
InsertMarket(c) ==
    /\ pc[c] = "insertMarket"
    /\ \A d \in Others(c) : MarketId(Quote(c)) \notin made[d]
    /\ MarketId(Quote(c)) \notin {m.id : m \in markets}
    /\ made' = [made EXCEPT ![c] = @ \cup {MarketId(Quote(c))}]
    /\ NextQuote(c)
    /\ UNCHANGED <<cacheVars, known, tables, todo, clock, row, found, since, faults>>

\* The DELETE goes through, and the INSERT finds its key free: the row looked
\* at is still the committed one, or it is the transaction's own.
Replace(c) ==
    /\ pc[c] = "replace"
    /\ LET key == BookKey(Quote(c)) IN
         \/ key \in WrittenKeys(c)
         \/ /\ \A d \in Others(c) : key \notin WrittenKeys(d)
            /\ CommitOf(Quote(c)) = snap[c]
    /\ NextQuote(c)
    /\ UNCHANGED <<cacheVars, known, tables, todo, clock, row, made, found, since, faults>>

\* Mutant: an event that fails is logged and the next one tried.
LoseGoesOn(c) ==
    /\ \/ /\ pc[c] = "insertEvent"
          /\ StoredEvent(Event(c)) # {}
       \/ /\ pc[c] = "insertMarket"
          /\ MarketId(Quote(c)) \in {m.id : m \in markets}
       \/ /\ pc[c] = "replace"
          /\ BookKey(Quote(c)) \notin WrittenKeys(c)
          /\ CommitOf(Quote(c)) # snap[c]
    /\ NextEvent(c)
    /\ UNCHANGED <<known, tables, faults>>

\* A statement fails on what another transaction has committed since: a row
\* with its unique key.  The exception ends the whole refresh.
Lose(c) ==
    /\ \/ /\ pc[c] = "insertEvent"
          /\ StoredEvent(Event(c)) # {}
       \/ /\ pc[c] = "insertMarket"
          /\ MarketId(Quote(c)) \in {m.id : m \in markets}
       \/ /\ pc[c] = "replace"
          /\ BookKey(Quote(c)) \notin WrittenKeys(c)
          /\ CommitOf(Quote(c)) # snap[c]
    /\ EndRefresh(c)
    /\ UNCHANGED <<known, tables, faults>>

\* The rows the transaction inserts.  As history, a row knows the version of
\* the odds it comes from, the commit it came with and its place there.
Rows(c) ==
    {[market_id   |-> MarketId(Quotes(c)[i]),
      sportsbook  |-> Quotes(c)[i].sportsbook,
      price       |-> Quotes(c)[i].price,
      quoted_at   |-> Quotes(c)[i].quoted_at,
      ingested_at |-> clock[c],
      version     |-> got[c],
      commit      |-> commits + 1,
      place       |-> i] : i \in DOMAIN Quotes(c)}

SameBook(r, s) == r.market_id = s.market_id /\ r.sportsbook = s.sportsbook

\* What persist_quotes returns: each quote with its market, and whether this
\* was the quote that created it.
PersistedQuotes(c) ==
    [i \in DOMAIN Quotes(c) |->
        [quote          |-> Quotes(c)[i],
         market_id      |-> MarketId(Quotes(c)[i]),
         market_created |-> /\ MarketId(Quotes(c)[i]) \in made[c]
                            /\ \A j \in 1..(i - 1) :
                                 MarketId(Quotes(c)[j]) # MarketId(Quotes(c)[i])]]

\* A market has the line of the quote that created it; of two quotes of a book
\* for it the last one stays.
NewMarkets(c) ==
    {[id |-> p.market_id, event_id |-> p.quote.event_id, market_type |-> p.quote.market_type,
      selection |-> p.quote.selection, line |-> p.quote.line] :
        p \in {PersistedQuotes(c)[i] : i \in {i \in DOMAIN Quotes(c) :
                                              PersistedQuotes(c)[i].market_created}}}

Replacing(c) ==
    {r \in Rows(c) : \A s \in Rows(c) : SameBook(r, s) => s.place <= r.place}

AfterCommit(c) ==
    /\ Goto(c, "evalBegin")
    /\ clock' = [clock EXCEPT ![c] = 0]
    /\ row' = [row EXCEPT ![c] = None]
    /\ made' = [made EXCEPT ![c] = {}]
    /\ commits' = commits + 1
    /\ stored' = IF row[c] = None THEN stored
                 ELSE (stored \ StoredEvent(Event(c))) \cup {row[c]}
    /\ markets' = markets \cup NewMarkets(c)
    /\ audit' = audit \cup RefreshEvents(commits + 1, Event(c), PersistedQuotes(c))
    /\ UNCHANGED <<cacheVars, known, refreshed, opps, todo, pos, snap, found, since, faults>>

\* Mutant: an unchanged price is no news for the history.
CommitOnlyMoves(c) ==
    /\ pc[c] = "commit"
    /\ latest' = {r \in latest : \A s \in Rows(c) : ~SameBook(r, s)} \cup Replacing(c)
    /\ history' = history \cup
          {r \in Rows(c) : \A s \in latest : SameBook(r, s) => s.price # r.price}
    /\ AfterCommit(c)

\* Mutant: books and markets the payload does not name are taken off the board.
CommitWithdraws(c) ==
    /\ pc[c] = "commit"
    /\ latest' = {r \in latest : r.market_id[1] # Event(c)} \cup Replacing(c)
    /\ history' = history \cup Rows(c)
    /\ AfterCommit(c)

\* Everything written becomes visible, with the staged events.
Commit(c) ==
    /\ pc[c] = "commit"
    /\ latest' = {r \in latest : \A s \in Rows(c) : ~SameBook(r, s)} \cup Replacing(c)
    /\ history' = history \cup Rows(c)
    /\ AfterCommit(c)

-----------------------------------------------------------------------------
\* evaluate_for_event in a transaction of its own: it begins, which is the
\* created_at of what it will insert, and skips a started event.
ActiveOn(e) ==
    {w \in Watches : w.event_id = e /\ \A o \in opps : o.watch_intent_id # w.id}

EvalBegin(c) ==
    /\ pc[c] = "evalBegin"
    /\ IF \/ \E s \in StoredEvent(Event(c)) : s.starts_at # None /\ s.starts_at <= now
          \/ ActiveOn(Event(c)) = {}
       THEN NextEvent(c)
       ELSE /\ Goto(c, "evaluate")
            /\ clock' = [clock EXCEPT ![c] = now]
            /\ UNCHANGED <<cacheVars, todo, pos, row, snap, made, found, since>>
    /\ UNCHANGED <<known, tables, faults>>

\* The quotes are read and the watches evaluated.
Evaluate(c) ==
    /\ pc[c] = "evaluate"
    /\ LET quotes == ListLatestQuotes(Event(c), markets, latest) IN
         found' = [found EXCEPT ![c] =
                     {EvaluateWatch(w, quotes, markets) : w \in ActiveOn(Event(c))} \ {None}]
    /\ Goto(c, "announce")
    /\ UNCHANGED <<cacheVars, known, tables, todo, pos, clock, row, snap, made, since, faults>>

\* create_opportunities and the public event of each that is inserted, with the
\* context as it is then, and the commit, in one step: none for a watch that
\* another evaluation has fired.
Announce(c) ==
    /\ pc[c] = "announce"
    /\ LET inserted == {o \in found[c] :
                          \A p \in opps : p.watch_intent_id # o.watch_intent_id}
       IN  opps' = opps \cup
             {[watch_intent_id |-> o.watch_intent_id, market_id |-> o.market_id,
               best_sportsbook |-> o.best_sportsbook, best_price |-> o.best_price,
               created_at      |-> clock[c],
               told            |-> OpportunityIdentified(o, EventContext(o, stored, latest),
                                                         OpportunityTtl, now)] : o \in inserted}
    /\ NextEvent(c)
    /\ UNCHANGED <<known, stored, markets, latest, history, audit, refreshed, commits, faults>>

\* record_sport_refreshed, upserted once every event is through.
Stamp(c) ==
    /\ pc[c] = "stamp"
    /\ refreshed' = now
    /\ EndRefresh(c)
    /\ UNCHANGED <<known, stored, markets, latest, history, audit, opps, commits, faults>>

\* An error in a transaction: of ingestion it ends the refresh, of evaluation
\* it is logged and the refresh goes on.
Abort(c) ==
    /\ faults < MaxFaults
    /\ faults' = faults + 1
    /\ \/ pc[c] \in {"begin", "updateEvent", "insertEvent", "stamp"} \cup Writing
          /\ EndRefresh(c)
       \/ pc[c] \in {"evalBegin", "evaluate", "announce"}
          /\ NextEvent(c)
    /\ UNCHANGED <<known, tables>>

\* What c's current statement may be waiting for.
WaitsFor(c, d) ==
    \/ pc[c] \in {"updateEvent", "insertEvent"} /\ HoldsEvent(d, Event(c))
    \/ pc[c] = "insertMarket" /\ MarketId(Quote(c)) \in made[d]
    \/ pc[c] = "replace" /\ BookKey(Quote(c)) \in WrittenKeys(d)

\* Payloads name their quotes in different orders: of two transactions that
\* wait for each other PostgreSQL aborts one.
DeadlockVictim(c) ==
    /\ \E d \in Others(c) : WaitsFor(c, d) /\ WaitsFor(d, c)
    /\ EndRefresh(c)
    /\ UNCHANGED <<known, tables, faults>>

\* The cache on behalf of a refresh; the bookmakers and the clock.
Fetch(c) == Fetching(c) /\ UNCHANGED <<known, tables, thread, since, faults>>
World == (Change \/ Tick) /\ UNCHANGED <<known, tables, thread, since, faults>>

Next ==
    \/ \E c \in Callers :
         \/ \E k \in Keys : Click(c, k)
         \/ Scan(c)
         \/ Fetch(c)
         \/ FetchFails(c)
         \/ ReceiveScan(c)
         \/ Receive(c)
         \/ Begin(c)
         \/ WriteEvent(c)
         \/ Look(c)
         \/ InsertMarket(c)
         \/ Replace(c)
         \/ Lose(c)
         \/ Commit(c)
         \/ EvalBegin(c)
         \/ Evaluate(c)
         \/ Announce(c)
         \/ Stamp(c)
         \/ Abort(c)
         \/ DeadlockVictim(c)
    \/ World

Spec == Init /\ [][Next]_vars

-----------------------------------------------------------------------------
\* The latest row of a book in a market is its newest history row, whichever
\* transactions raced for it; a book that ever quoted a market has one.
LatestIsNewestHistory ==
    /\ \A r \in latest :
         /\ r \in history
         /\ \A h \in history : SameBook(h, r) =>
              h.commit < r.commit \/ (h.commit = r.commit /\ h.place <= r.place)
    /\ \A h \in history : \E r \in latest : SameBook(r, h)

\* Each market has been announced once, by the refresh whose insert of it was
\* committed, however many refreshes found it missing.
OneSnapshotPerMarket ==
    \A m \in markets :
        Cardinality({a \in audit : a.event_type = "MarketSnapshotCreated" /\ a.aggregate_id = m.id}) = 1

\* A refresh that comes after another one's commit never puts an older price in
\* its place, though it may go through another cache key; unless it shared an
\* answer that upstream had given before.
LaterRefreshNotOlder ==
    [][\A c \in Callers : pc[c] = "commit" /\ pc'[c] = "evalBegin" =>
         \A r \in latest, s \in latest' \ latest :
            SameBook(r, s) /\ r.commit <= since[c] => r.version <= s.version]_vars

\* A sport is stamped as refreshed, which spares it the next automatic pull,
\* only when every quote of that pull has been committed.
StampMeansIngested ==
    [][\A c \in Callers : Stamp(c) =>
         \A i \in DOMAIN Offers[got[c]] :
           LET quotes == Payload[got[c]][Offers[got[c]][i].id] IN
             \A j \in DOMAIN quotes : \E h \in history :
                h.version = got[c] /\ BookKey(quotes[j]) = <<h.market_id, h.sportsbook>>]_vars

\* The header of a line board, read first, never counts more quotes or books
\* than the markets read after it show: no commit takes a row away.
BoardOnlyGrows ==
    [][latest' # latest => \A e \in stored :
         LET board  == GetLineBoard(e.external_id, stored, markets, latest, markets', latest')
             header == board.event.quotes
             books(m) == {m.quotes[i].sportsbook : i \in DOMAIN m.quotes}
         IN  /\ header.quote_count <=
                   MapThenSumSet(LAMBDA m : Len(m.quotes), board.markets)
             /\ header.book_count <=
                   Cardinality(UNION {books(m) : m \in board.markets})]_vars

\* Whatever the target, the board, a recommendation, the records kept of it and
\* a watch on a market name the same best book, and the watch fires when the
\* recommendation says that it can be filled: on the rows of each commit.
AgreedOn(m, target, mkts, rows) ==
    LET quotes == ListLatestQuotes(m.event_id, mkts, rows)
        intent == [event_id |-> m.event_id, market_type |-> m.market_type,
                   selection |-> m.selection, line |-> m.line, target_price |-> target]
        watch  == [id |-> None, event_id |-> m.event_id, market_type |-> m.market_type,
                   selection |-> m.selection, line |-> m.line, target_price |-> target]
        board  == ToBoardMarket([market |-> m, quotes |-> QuotesOf(m, rows)])
        advice == Recommend(None, intent, mkts, rows)
        fired  == EvaluateWatch(watch, quotes, mkts)
        records == advice.execution_recommendations \cup
                     {w.payload : w \in {w \in advice.workflow_events :
                                          w.event_type = "ExecutionRecommendationGenerated"}}
    IN  /\ \A kept \in records :
             kept.best_quote # None => kept.best_quote.sportsbook = board.best_sportsbook
        /\ advice.returned.fillable <=> fired # None
        /\ fired # None => /\ fired.best_sportsbook = board.best_sportsbook
                           /\ fired.best_price = board.best_price

BestBookAgreed ==
    [][latest' # latest => \A m \in markets', r \in latest' :
         r.market_id = m.id => \A target \in {r.price, r.price + 1} :
                                 AgreedOn(m, target, markets', latest')]_vars

\* What a consumer was told has expired the API calls valid no more: the two
\* start the same TTL at different moments.
ToldExpiredIsExpired ==
    \A o \in ListOpportunities(opps, latest, OpportunityTtl, now) :
        now > o.opportunity.told.expires_at => ~o.is_valid

\* The pages of a listing, as many as its page count says, show every event the
\* filter lets through once, in an order of their own when start times are equal
\* or unknown; the page after the last one is empty.
PagesPartition ==
    [][<<stored, now>>' # <<stored, now>> =>
         \A include_started \in BOOLEAN, page_size \in 1..2 :
           LET filter  == [sport |-> None, include_started |-> include_started]
               page(p) == EventPage(stored', filter, now', p, page_size, markets', latest')
               pages   == page(1).total_pages
           IN  /\ \A e \in ApplyFilter(stored', filter, now') :
                    Cardinality({place \in (1..pages) \X (1..page_size) :
                                   /\ place[2] <= Len(page(place[1]).events)
                                   /\ page(place[1]).events[place[2]].id = e.external_id}) = 1
               /\ page(pages + 1).events = <<>>]_vars
=============================================================================
