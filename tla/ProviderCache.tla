---------------------------- MODULE ProviderCache ----------------------------
(***************************************************************************)
(* The in-process cache every upstream call goes through: calls for one    *)
(* key take turns at its lock, and the first of them loads for the rest.   *)
(*                                                                         *)
(*   backend/app/infrastructure/caching/in_process_cache.py                *)
(*   backend/app/infrastructure/odds_api_provider.py, _fetch_cached        *)
(*                                                                         *)
(* A payload is the version of the odds upstream answered with.  Upstream  *)
(* answers while the request is under way (Upstream), before the answer is *)
(* received and stored (Store): odds that change in between are newer than *)
(* what the load brings.                                                   *)
(***************************************************************************)
EXTENDS Naturals

CONSTANTS
    Callers,      \* request threads and the Auto-Refresh worker of a process
    Keys,         \* cache keys: a sport's feed, one event of a sport
    NoCall,       \* what a caller outside of fetch is doing
    Ttl,          \* PROVIDER_CACHE_TTL_SECONDS, 0 to disable reuse
    MaxTime,      \* bound on the clock
    MaxVersion,   \* bound on changes upstream
    MaxFetches    \* bound on calls of fetch

ASSUME CacheAssumption ==
    Ttl \in Nat /\ MaxTime \in Nat /\ MaxVersion \in Nat /\ MaxFetches \in Nat

VARIABLES
    now,          \* the clock, never set back (time.monotonic)
    offer,        \* version of the odds upstream offers
    entries,      \* _entries; generation 0 stands for no entry
    loads,        \* _loads_completed
    fetches,      \* calls of fetch so far
    stage,        \* where each caller is in fetch
    call,         \* the call it makes and, as history, what was known then
    seen,         \* generation_on_arrival
    got,          \* version of the answer or of the response it holds
    newest        \* history: per key, the newest version handed to a caller

caches == <<entries, loads>>
locals == <<stage, call, seen, got>>
cacheVars == <<now, offer, caches, fetches, locals, newest>>

\* floor: what upstream offered when the call arrived or, if a load of its key
\* had been answered and not yet stored, that answer.  known: `newest` then.
Calls == [key : Keys, live : BOOLEAN, arrivedAt : Nat, floor : Nat, known : Nat]

ASSUME NoCallAssumption == NoCall \notin Calls

Entries == [generation : Nat, loadedAt : Nat, version : Nat]
Stages == {"idle", "arrived", "queued", "loading", "answered", "served"}

CacheTypeOK ==
    /\ now \in Nat
    /\ offer \in Nat
    /\ entries \in [Keys -> Entries]
    /\ loads \in Nat
    /\ fetches \in Nat
    /\ stage \in [Callers -> Stages]
    /\ call \in [Callers -> Calls \cup {NoCall}]
    /\ \A c \in Callers : stage[c] # "idle" => call[c] \in Calls
    /\ seen \in [Callers -> Nat]
    /\ got \in [Callers -> Nat]
    /\ newest \in [Keys -> Nat]

NoEntry == [generation |-> 0, loadedAt |-> 0, version |-> 0]

NoCalls ==
    /\ stage = [c \in Callers |-> "idle"]
    /\ call = [c \in Callers |-> NoCall]
    /\ seen = [c \in Callers |-> 0]
    /\ got = [c \in Callers |-> 0]

CacheInit ==
    /\ now = 0
    /\ offer = 0
    /\ entries = [k \in Keys |-> NoEntry]
    /\ loads = 0
    /\ fetches = 0
    /\ NoCalls
    /\ newest = [k \in Keys |-> 0]

\* The callers that hold the lock of k, and those upstream has answered.
Holders(k) == {c \in Callers : stage[c] \in {"loading", "answered"} /\ call[c].key = k}
Answered(k) == {c \in Holders(k) : stage[c] = "answered"}

Floor(k) ==
    IF Answered(k) = {} THEN offer ELSE got[CHOOSE c \in Answered(k) : TRUE]

WithinTtl(entry, time) ==
    /\ entry.generation > 0
    /\ Ttl > 0
    /\ time < entry.loadedAt + Ttl

\* The response c is handed, from the entry or from its own load.
Serve(c, version) ==
    /\ stage' = [stage EXCEPT ![c] = "served"]
    /\ got' = [got EXCEPT ![c] = version]
    /\ newest' = [newest EXCEPT ![call[c].key] = IF version > @ THEN version ELSE @]

-----------------------------------------------------------------------------
\* fetch is entered; it reads the clock first.
Arrive(c, k, live) ==
    /\ stage[c] = "idle"
    /\ fetches < MaxFetches
    /\ fetches' = fetches + 1
    /\ stage' = [stage EXCEPT ![c] = "arrived"]
    /\ call' = [call EXCEPT ![c] = [key |-> k, live |-> live, arrivedAt |-> now,
                                    floor |-> Floor(k), known |-> newest[k]]]
    /\ UNCHANGED <<now, offer, caches, seen, got, newest>>

\* The entry is read under the guard.  Incidental reuse ends here.
ReuseOnArrival(c) ==
    /\ stage[c] = "arrived"
    /\ LET entry == entries[call[c].key] IN
         /\ ~call[c].live
         /\ WithinTtl(entry, call[c].arrivedAt)
         /\ Serve(c, entry.version)
    /\ UNCHANGED <<now, offer, caches, fetches, call, seen>>

Queue(c) ==
    /\ stage[c] = "arrived"
    /\ LET entry == entries[call[c].key] IN
         /\ call[c].live \/ ~WithinTtl(entry, call[c].arrivedAt)
         /\ seen' = [seen EXCEPT ![c] = entry.generation]
    /\ stage' = [stage EXCEPT ![c] = "queued"]
    /\ UNCHANGED <<now, offer, caches, fetches, call, got, newest>>

\* Mutant: any entry will do for whoever had to wait.
AcceptableWhenAny(c) == entries[call[c].key].generation > 0

\* Mutant: a live caller takes what the TTL allows, as others do.
AcceptableByAge(c) == WithinTtl(entries[call[c].key], now)

\* _is_acceptable: for a live caller only an entry of a later load.
Acceptable(c) ==
    LET entry == entries[call[c].key] IN
      IF call[c].live THEN entry.generation > seen[c] ELSE WithinTtl(entry, now)

\* The key's lock is free: the entry stored meanwhile is taken, and the lock
\* left, or the lock is kept and the loader run.
ReuseQueued(c) ==
    /\ stage[c] = "queued"
    /\ Holders(call[c].key) = {}
    /\ Acceptable(c)
    /\ Serve(c, entries[call[c].key].version)
    /\ UNCHANGED <<now, offer, caches, fetches, call, seen>>

BeginLoad(c) ==
    /\ stage[c] = "queued"
    /\ Holders(call[c].key) = {}
    /\ ~Acceptable(c)
    /\ stage' = [stage EXCEPT ![c] = "loading"]
    /\ UNCHANGED <<now, offer, caches, fetches, call, seen, got, newest>>

\* Upstream reads its odds; the answer is under way.
Upstream(c) ==
    /\ stage[c] = "loading"
    /\ stage' = [stage EXCEPT ![c] = "answered"]
    /\ got' = [got EXCEPT ![c] = offer]
    /\ UNCHANGED <<now, offer, caches, fetches, call, seen, newest>>

\* Mutant: a live load goes around the cache.
StoreUnlessLive(c) ==
    /\ stage[c] = "answered"
    /\ loads' = loads + 1
    /\ entries' = IF call[c].live THEN entries
                  ELSE [entries EXCEPT ![call[c].key] =
                          [generation |-> loads + 1, loadedAt |-> now, version |-> got[c]]]
    /\ Serve(c, got[c])
    /\ UNCHANGED <<now, offer, fetches, call, seen>>

\* The answer is stored under the guard and the lock left.
Store(c) ==
    /\ stage[c] = "answered"
    /\ loads' = loads + 1
    /\ entries' = [entries EXCEPT ![call[c].key] =
                     [generation |-> loads + 1, loadedAt |-> now, version |-> got[c]]]
    /\ Serve(c, got[c])
    /\ UNCHANGED <<now, offer, fetches, call, seen>>

\* fetch returned or raised: nothing of the call is left with the caller.
Leave(c) ==
    /\ stage' = [stage EXCEPT ![c] = "idle"]
    /\ call' = [call EXCEPT ![c] = NoCall]
    /\ seen' = [seen EXCEPT ![c] = 0]
    /\ got' = [got EXCEPT ![c] = 0]

\* The loader raises before or after upstream answered: no entry, no lock.
Fail(c) ==
    /\ stage[c] \in {"loading", "answered"}
    /\ Leave(c)
    /\ UNCHANGED <<now, offer, caches, fetches, newest>>

\* The caller is done with the payload it was served.
Done(c) ==
    /\ stage[c] = "served"
    /\ Leave(c)
    /\ UNCHANGED <<now, offer, caches, fetches, newest>>

\* A step of fetch itself.
Fetching(c) ==
    \/ ReuseOnArrival(c)
    \/ Queue(c)
    \/ ReuseQueued(c)
    \/ BeginLoad(c)
    \/ Upstream(c)
    \/ Store(c)

Change ==
    /\ offer < MaxVersion
    /\ offer' = offer + 1
    /\ UNCHANGED <<now, caches, fetches, locals, newest>>

Tick ==
    /\ now < MaxTime
    /\ now' = now + 1
    /\ UNCHANGED <<offer, caches, fetches, locals, newest>>

CacheNext ==
    \/ \E c \in Callers :
         \/ \E k \in Keys, live \in BOOLEAN : Arrive(c, k, live)
         \/ Fetching(c)
         \/ Fail(c)
         \/ Done(c)
    \/ Change
    \/ Tick

CacheSpec == CacheInit /\ [][CacheNext]_cacheVars

-----------------------------------------------------------------------------
\* A deliberate refresh is never handed odds older than upstream offered when
\* it arrived, but for one case: a load that upstream had answered by then.
\* (ADR-0011 promises it without the exception.)
LiveIsCurrent ==
    \A c \in Callers :
        stage[c] = "served" /\ call[c].live => got[c] >= call[c].floor

\* No call is handed an older version than one that was already handed out for
\* its key when it arrived: responses never go back in time, whether they are
\* loaded, shared or reused.
NeverOlderThanServed ==
    \A c \in Callers : stage[c] = "served" => got[c] >= call[c].known
=============================================================================
