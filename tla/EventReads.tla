----------------------------- MODULE EventReads -----------------------------
(***************************************************************************)
(* Browsing: the event list, its pages, the freshness of an event's quotes *)
(* and the line board.                                                     *)
(*                                                                         *)
(*   backend/app/infrastructure/persistence/event_read_uow.py              *)
(*   backend/app/application/event_query_service.py                        *)
(*                                                                         *)
(* A request reads with several statements, each of which sees what is     *)
(* committed then.  External ids are numbered in their order.  League,     *)
(* status and participants are left out: they are columns shown or         *)
(* narrowed by like the sport.                                             *)
(***************************************************************************)
EXTENDS QuoteEngines, FiniteSetsExt

\* starts_at ascending, NULL last, then external_id.
Sooner(e, f) ==
    \/ e.starts_at # None /\ f.starts_at = None
    \/ e.starts_at # None /\ f.starts_at # None /\ e.starts_at < f.starts_at
    \/ e.starts_at = f.starts_at /\ e.external_id < f.external_id

SortedEvents(events) == Sorted(events, Sooner)

\* _apply_filter; a filter that is None does not narrow.
ApplyFilter(events, filter, now) ==
    {e \in events : /\ filter.sport \in {None, e.sport}
                    /\ filter.include_started \/ e.starts_at = None \/ e.starts_at > now}

\* _freshness_by_event: books are counted once however many rows they have,
\* and a book without a line-movement time is counted apart.
Freshness(event_id, markets, latest) ==
    LET quotes == ListLatestQuotes(event_id, markets, latest)
        timed  == {q \in quotes : q.quoted_at # None}
    IN  [quote_count      |-> Cardinality(quotes),
         book_count       |-> Cardinality({q.sportsbook : q \in quotes}),
         last_ingested_at |-> IF quotes = {} THEN None
                              ELSE Max({q.ingested_at : q \in quotes}),
         oldest_line_quoted_at |-> IF timed = {} THEN None
                                   ELSE Min({q.quoted_at : q \in timed}),
         books_with_unknown_line_age |->
            Cardinality({q.sportsbook : q \in quotes \ timed})]

\* An event's header, as the list and the board show it.
EventSummary(event, markets, latest) ==
    [id |-> event.external_id, sport |-> event.sport, starts_at |-> event.starts_at,
     quotes |-> Freshness(event.external_id, markets, latest)]

CountEvents(events, filter, now) == Cardinality(ApplyFilter(events, filter, now))

ListEvents(events, filter, now, limit, offset, markets, latest) ==
    LET rows == SortedEvents(ApplyFilter(events, filter, now))
        page == SubSeq(rows, offset + 1, Min({offset + limit, Len(rows)}))
    IN  [i \in DOMAIN page |-> EventSummary(page[i], markets, latest)]

TotalPages(total_events, page_size) ==
    IF page_size <= 0 THEN 0 ELSE (total_events + page_size - 1) \div page_size

\* Mutant: pages are counted from 0.
EventPageFromZero(events, filter, now, page, page_size, markets, latest) ==
    LET total_events == CountEvents(events, filter, now)
        offset       == page * page_size
    IN  [events      |-> IF offset < total_events
                         THEN ListEvents(events, filter, now, page_size, offset, markets, latest)
                         ELSE <<>>,
         total_pages |-> TotalPages(total_events, page_size)]

\* list_events of the service: a page past the end is empty.
EventPage(events, filter, now, page, page_size, markets, latest) ==
    LET total_events == CountEvents(events, filter, now)
        offset       == (page - 1) * page_size
    IN  [events      |-> IF offset < total_events
                         THEN ListEvents(events, filter, now, page_size, offset, markets, latest)
                         ELSE <<>>,
         total_pages |-> TotalPages(total_events, page_size)]

GetEvent(event_id, events, markets, latest) ==
    LET rows == {e \in events : e.external_id = event_id} IN
      IF rows = {} THEN None ELSE EventSummary(CHOOSE e \in rows : TRUE, markets, latest)

\* get_line_board: the event's header, then, with a statement of its own, its
\* markets, quoted or not; a second read may see more.
GetLineBoard(event_id, events, markets, latest, markets2, latest2) ==
    IF \A e \in events : e.external_id # event_id THEN None
    ELSE [event   |-> GetEvent(event_id, events, markets, latest),
          markets |-> {ToBoardMarket(m) : m \in ListMarketQuotes(event_id, markets2, latest2)}]
=============================================================================
