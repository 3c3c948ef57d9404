------------------------- MODULE ProviderCacheProofs -------------------------
(***************************************************************************)
(* What the provider cache promises, for any number of callers, keys and   *)
(* upstream changes, and any TTL.                                          *)
(*                                                                         *)
(* The argument: a key has one loader (OneLoader), so its entry is only    *)
(* ever replaced by what upstream answered later (EntriesGrow), and an     *)
(* answer under way covers everyone who is waiting behind the lock         *)
(* (AnswerCovers).  What a waiting live caller accepts was stored after it *)
(* arrived, hence was such an answer (QueuedCovered).                      *)
(***************************************************************************)
EXTENDS ProviderCache, TLAPS

Loading == {"loading", "answered"}

OneLoader ==
    \A c, d \in Callers :
        /\ stage[c] \in Loading /\ stage[d] \in Loading
        /\ call[c].key = call[d].key
        => c = d

FloorsOffered ==
    /\ \A c \in Callers : stage[c] # "idle" => call[c].floor <= offer
    /\ \A c \in Callers : stage[c] \in {"answered", "served"} => got[c] <= offer
    /\ \A k \in Keys : entries[k].version <= offer

\* An answer not yet stored is no older than the floor of anyone at its lock.
AnswerCovers ==
    \A c, d \in Callers :
        /\ stage[c] \in {"arrived", "queued", "answered"} /\ stage[d] = "answered"
        /\ call[c].key = call[d].key
        => got[d] >= call[c].floor

QueuedCovered ==
    \A c \in Callers :
        LET entry == entries[call[c].key] IN
          /\ stage[c] = "queued" /\ call[c].live
          /\ entry.generation > seen[c]
          => entry.version >= call[c].floor

EntriesGrow ==
    /\ \A k \in Keys : newest[k] <= entries[k].version
    /\ \A c \in Callers :
         stage[c] = "answered" => entries[call[c].key].version <= got[c]
    /\ \A c \in Callers :
         stage[c] # "idle" => call[c].known <= newest[call[c].key]

CacheInv ==
    /\ CacheTypeOK
    /\ OneLoader
    /\ FloorsOffered
    /\ AnswerCovers
    /\ QueuedCovered
    /\ EntriesGrow
    /\ LiveIsCurrent
    /\ NeverOlderThanServed

\* What a step of a caller that is in fetch may use of its call.
LEMMA CallKnown ==
  ASSUME CacheTypeOK, NEW c \in Callers, stage[c] # "idle"
  PROVE  /\ call[c] \in Calls
         /\ call[c].key \in Keys
         /\ call[c].live \in BOOLEAN
         /\ call[c].floor \in Nat /\ call[c].known \in Nat /\ call[c].arrivedAt \in Nat
         /\ entries[call[c].key] \in Entries
  BY DEF CacheTypeOK, Calls

\* The process starts in the invariant.
LEMMA InitInv == CacheInit => CacheInv
  BY NoCallAssumption DEF CacheInit, NoCalls, NoEntry, CacheInv, CacheTypeOK, Entries, Stages,
     OneLoader, Loading, FloorsOffered, AnswerCovers, QueuedCovered, EntriesGrow,
     LiveIsCurrent, NeverOlderThanServed

\* A call that arrives takes the answer under way, if any, as its floor.
LEMMA ArriveInv ==
  ASSUME CacheInv, NEW c \in Callers, NEW k \in Keys, NEW live \in BOOLEAN, Arrive(c, k, live)
  PROVE  CacheInv'
<1>. USE DEF CacheInv
<1>1. CacheTypeOK'
  BY CacheAssumption, CallKnown DEF CacheTypeOK, Calls, Entries, Stages,
     Arrive, caches, locals, Floor, Answered, Holders
<1>2. OneLoader'
  BY CallKnown DEF CacheTypeOK, OneLoader, Loading, Arrive, caches, locals
<1>3. FloorsOffered'
  BY CallKnown DEF CacheTypeOK, FloorsOffered, Entries, Arrive, caches,
     locals, Floor, Answered, Holders
<1>4. AnswerCovers'
  BY CallKnown DEF CacheTypeOK, AnswerCovers, OneLoader, Loading,
     FloorsOffered, Arrive, caches, locals, Floor, Answered, Holders
<1>5. QueuedCovered'
  BY CallKnown DEF CacheTypeOK, QueuedCovered, AnswerCovers, Arrive, caches,
     locals
<1>6. EntriesGrow'
  BY CallKnown DEF CacheTypeOK, EntriesGrow, OneLoader, Loading,
     FloorsOffered, Arrive, caches, locals
<1>7. LiveIsCurrent' /\ NeverOlderThanServed'
  BY CallKnown DEF CacheTypeOK, LiveIsCurrent, NeverOlderThanServed, Arrive,
     caches, locals
<1>. QED
  BY <1>1, <1>2, <1>3, <1>4, <1>5, <1>6, <1>7

\* Incidental reuse hands out the entry, which is the newest response.
LEMMA ReuseOnArrivalInv ==
  ASSUME CacheInv, NEW c \in Callers, ReuseOnArrival(c)
  PROVE  CacheInv'
<1>. USE DEF CacheInv
<1>1. CacheTypeOK'
  BY CacheAssumption, CallKnown DEF CacheTypeOK, Calls, Entries, Stages,
     ReuseOnArrival, caches, locals, Serve
<1>2. OneLoader'
  BY CallKnown DEF CacheTypeOK, OneLoader, Loading, ReuseOnArrival, caches,
     locals, Serve
<1>3. FloorsOffered'
  BY CallKnown DEF CacheTypeOK, FloorsOffered, Entries, ReuseOnArrival,
     caches, locals, Serve
<1>4. AnswerCovers'
  BY CallKnown DEF CacheTypeOK, AnswerCovers, OneLoader, Loading,
     FloorsOffered, ReuseOnArrival, caches, locals, Serve
<1>5. QueuedCovered'
  BY CallKnown DEF CacheTypeOK, QueuedCovered, AnswerCovers, ReuseOnArrival,
     caches, locals, Serve
<1>6. newest' = [newest EXCEPT ![call[c].key] = entries[call[c].key].version]
  <2>1. entries[call[c].key].version \in Nat /\ newest[call[c].key] \in Nat /\ stage[c] # "idle"
    BY CallKnown DEF CacheTypeOK, Entries, ReuseOnArrival
  <2>2. newest[call[c].key] <= entries[call[c].key].version
    BY <2>1, CallKnown DEF CacheTypeOK, EntriesGrow, Entries, ReuseOnArrival
  <2>3. newest' = [newest EXCEPT ![call[c].key] =
                    IF entries[call[c].key].version > newest[call[c].key] THEN entries[call[c].key].version
                    ELSE newest[call[c].key]]
    BY DEF ReuseOnArrival, Serve
  <2>4. (IF entries[call[c].key].version > newest[call[c].key] THEN entries[call[c].key].version
         ELSE newest[call[c].key]) = entries[call[c].key].version
    BY <2>1, <2>2
  <2>. QED
    BY <2>3, <2>4
<1>7. EntriesGrow'
  <2>1. \A k \in Keys : newest'[k] <= entries'[k].version
    BY <1>6, CallKnown DEF CacheTypeOK, EntriesGrow, Entries, ReuseOnArrival,
       caches, locals
  <2>2. \A d \in Callers : stage'[d] = "answered" =>
           entries'[call'[d].key].version <= got'[d]
    BY CallKnown DEF CacheTypeOK, EntriesGrow, OneLoader, Loading,
       ReuseOnArrival, caches, locals, Serve
  <2>3. \A k \in Keys : newest[k] <= newest'[k]
    BY <1>6, CallKnown DEF CacheTypeOK, EntriesGrow, Entries, ReuseOnArrival
  <2>4. \A d \in Callers : stage'[d] # "idle" => call'[d].known <= newest'[call'[d].key]
    BY <1>1, <2>3, CallKnown DEF CacheTypeOK, EntriesGrow, ReuseOnArrival,
       caches, locals, Serve
  <2>. QED
    BY <2>1, <2>2, <2>4 DEF EntriesGrow
<1>8. LiveIsCurrent' /\ NeverOlderThanServed'
  <2>1. got'[c] = entries[call[c].key].version /\ call' = call /\ stage[c] # "idle"
    BY DEF CacheTypeOK, ReuseOnArrival, Serve
  <2>2. call[c].known <= entries[call[c].key].version
    BY <2>1, CallKnown DEF CacheTypeOK, EntriesGrow, Entries, ReuseOnArrival
  <2>3. call[c].live => call[c].floor <= entries[call[c].key].version
    BY CallKnown DEF CacheTypeOK, QueuedCovered, AnswerCovers, ReuseOnArrival
  <2>. QED
    BY <2>1, <2>2, <2>3, CallKnown DEF CacheTypeOK, Entries, LiveIsCurrent,
       NeverOlderThanServed, ReuseOnArrival, Serve
<1>. QED
  BY <1>1, <1>2, <1>3, <1>4, <1>5, <1>7, <1>8

\* No entry is newer than the one a caller has just seen.
LEMMA QueueInv ==
  ASSUME CacheInv, NEW c \in Callers, Queue(c)
  PROVE  CacheInv'
<1>. USE DEF CacheInv
<1>1. CacheTypeOK'
  BY CacheAssumption, CallKnown DEF CacheTypeOK, Calls, Entries, Stages,
     Queue, caches, locals
<1>2. OneLoader'
  BY CallKnown DEF CacheTypeOK, OneLoader, Loading, Queue, caches, locals
<1>3. FloorsOffered'
  BY CallKnown DEF CacheTypeOK, FloorsOffered, Entries, Queue, caches,
     locals
<1>4. AnswerCovers'
  BY CallKnown DEF CacheTypeOK, AnswerCovers, OneLoader, Loading,
     FloorsOffered, Queue, caches, locals
<1>5. QueuedCovered'
  <2>1. stage[c] = "arrived" /\ seen'[c] = entries[call[c].key].generation
    BY DEF CacheTypeOK, Queue
  <2>2. ~(entries[call[c].key].generation > seen'[c])
    BY <2>1, CallKnown DEF CacheTypeOK, Entries
  <2>. QED
    BY <2>2 DEF CacheTypeOK, QueuedCovered, Queue, caches
<1>6. EntriesGrow'
  BY CallKnown DEF CacheTypeOK, EntriesGrow, OneLoader, Loading,
     FloorsOffered, Queue, caches, locals
<1>7. LiveIsCurrent' /\ NeverOlderThanServed'
  BY CallKnown DEF CacheTypeOK, LiveIsCurrent, NeverOlderThanServed, Queue,
     caches, locals
<1>. QED
  BY <1>1, <1>2, <1>3, <1>4, <1>5, <1>6, <1>7

\* A live caller accepts only what was stored while it waited.
LEMMA ReuseQueuedInv ==
  ASSUME CacheInv, NEW c \in Callers, ReuseQueued(c)
  PROVE  CacheInv'
<1>. USE DEF CacheInv
<1>1. CacheTypeOK'
  BY CacheAssumption, CallKnown DEF CacheTypeOK, Calls, Entries, Stages,
     ReuseQueued, caches, locals, Serve
<1>2. OneLoader'
  BY CallKnown DEF CacheTypeOK, OneLoader, Loading, ReuseQueued, caches,
     locals, Serve
<1>3. FloorsOffered'
  BY CallKnown DEF CacheTypeOK, FloorsOffered, Entries, ReuseQueued, caches,
     locals, Serve
<1>4. AnswerCovers'
  BY CallKnown DEF CacheTypeOK, AnswerCovers, OneLoader, Loading,
     FloorsOffered, ReuseQueued, caches, locals, Serve
<1>5. QueuedCovered'
  BY CallKnown DEF CacheTypeOK, QueuedCovered, AnswerCovers, ReuseQueued,
     caches, locals, Serve
<1>6. newest' = [newest EXCEPT ![call[c].key] = entries[call[c].key].version]
  <2>1. entries[call[c].key].version \in Nat /\ newest[call[c].key] \in Nat /\ stage[c] # "idle"
    BY CallKnown DEF CacheTypeOK, Entries, ReuseQueued
  <2>2. newest[call[c].key] <= entries[call[c].key].version
    BY <2>1, CallKnown DEF CacheTypeOK, EntriesGrow, Entries, ReuseQueued
  <2>3. newest' = [newest EXCEPT ![call[c].key] =
                    IF entries[call[c].key].version > newest[call[c].key] THEN entries[call[c].key].version
                    ELSE newest[call[c].key]]
    BY DEF ReuseQueued, Serve
  <2>4. (IF entries[call[c].key].version > newest[call[c].key] THEN entries[call[c].key].version
         ELSE newest[call[c].key]) = entries[call[c].key].version
    BY <2>1, <2>2
  <2>. QED
    BY <2>3, <2>4
<1>7. EntriesGrow'
  <2>1. \A k \in Keys : newest'[k] <= entries'[k].version
    BY <1>6, CallKnown DEF CacheTypeOK, EntriesGrow, Entries, ReuseQueued,
       caches, locals
  <2>2. \A d \in Callers : stage'[d] = "answered" =>
           entries'[call'[d].key].version <= got'[d]
    BY CallKnown DEF CacheTypeOK, EntriesGrow, OneLoader, Loading,
       ReuseQueued, caches, locals, Serve
  <2>3. \A k \in Keys : newest[k] <= newest'[k]
    BY <1>6, CallKnown DEF CacheTypeOK, EntriesGrow, Entries, ReuseQueued
  <2>4. \A d \in Callers : stage'[d] # "idle" => call'[d].known <= newest'[call'[d].key]
    BY <1>1, <2>3, CallKnown DEF CacheTypeOK, EntriesGrow, ReuseQueued,
       caches, locals, Serve
  <2>. QED
    BY <2>1, <2>2, <2>4 DEF EntriesGrow
<1>8. LiveIsCurrent' /\ NeverOlderThanServed'
  <2>1. got'[c] = entries[call[c].key].version /\ call' = call /\ stage[c] # "idle"
    BY DEF CacheTypeOK, ReuseQueued, Serve
  <2>2. call[c].known <= entries[call[c].key].version
    BY <2>1, CallKnown DEF CacheTypeOK, EntriesGrow, Entries, ReuseQueued
  <2>3. call[c].live => call[c].floor <= entries[call[c].key].version
    BY CallKnown DEF CacheTypeOK, QueuedCovered, AnswerCovers, ReuseQueued,
       Acceptable
  <2>. QED
    BY <2>1, <2>2, <2>3, CallKnown DEF CacheTypeOK, Entries, LiveIsCurrent,
       NeverOlderThanServed, ReuseQueued, Serve
<1>. QED
  BY <1>1, <1>2, <1>3, <1>4, <1>5, <1>7, <1>8

\* The lock was free.
LEMMA BeginLoadInv ==
  ASSUME CacheInv, NEW c \in Callers, BeginLoad(c)
  PROVE  CacheInv'
<1>. USE DEF CacheInv
<1>1. CacheTypeOK'
  BY CacheAssumption, CallKnown DEF CacheTypeOK, Calls, Entries, Stages,
     BeginLoad, Holders, caches, locals
<1>2. OneLoader'
  BY CallKnown DEF CacheTypeOK, OneLoader, Loading, BeginLoad, Holders,
     caches, locals
<1>3. FloorsOffered'
  BY CallKnown DEF CacheTypeOK, FloorsOffered, Entries, BeginLoad, Holders,
     caches, locals
<1>4. AnswerCovers'
  BY CallKnown DEF CacheTypeOK, AnswerCovers, OneLoader, Loading,
     FloorsOffered, BeginLoad, Holders, caches, locals
<1>5. QueuedCovered'
  BY CallKnown DEF CacheTypeOK, QueuedCovered, AnswerCovers, BeginLoad,
     Holders, caches, locals
<1>6. EntriesGrow'
  BY CallKnown DEF CacheTypeOK, EntriesGrow, OneLoader, Loading,
     FloorsOffered, BeginLoad, Holders, caches, locals
<1>7. LiveIsCurrent' /\ NeverOlderThanServed'
  BY CallKnown DEF CacheTypeOK, LiveIsCurrent, NeverOlderThanServed,
     BeginLoad, Holders, caches, locals
<1>. QED
  BY <1>1, <1>2, <1>3, <1>4, <1>5, <1>6, <1>7

\* Upstream answers with what it offers now.
LEMMA UpstreamInv ==
  ASSUME CacheInv, NEW c \in Callers, Upstream(c)
  PROVE  CacheInv'
<1>. USE DEF CacheInv
<1>1. CacheTypeOK'
  BY CacheAssumption, CallKnown DEF CacheTypeOK, Calls, Entries, Stages,
     Upstream, caches, locals
<1>2. OneLoader'
  BY CallKnown DEF CacheTypeOK, OneLoader, Loading, Upstream, caches, locals
<1>3. FloorsOffered'
  BY CallKnown DEF CacheTypeOK, FloorsOffered, Entries, Upstream, caches,
     locals
<1>4. AnswerCovers'
  BY CallKnown DEF CacheTypeOK, AnswerCovers, OneLoader, Loading,
     FloorsOffered, Upstream, caches, locals
<1>5. QueuedCovered'
  BY CallKnown DEF CacheTypeOK, QueuedCovered, AnswerCovers, Upstream,
     caches, locals
<1>6. EntriesGrow'
  BY CallKnown DEF CacheTypeOK, EntriesGrow, OneLoader, Loading,
     FloorsOffered, Upstream, caches, locals
<1>7. LiveIsCurrent' /\ NeverOlderThanServed'
  BY CallKnown DEF CacheTypeOK, LiveIsCurrent, NeverOlderThanServed,
     Upstream, caches, locals
<1>. QED
  BY <1>1, <1>2, <1>3, <1>4, <1>5, <1>6, <1>7

\* The entry that is stored covers its loader and everyone waiting.
LEMMA StoreInv ==
  ASSUME CacheInv, NEW c \in Callers, Store(c)
  PROVE  CacheInv'
<1>. USE DEF CacheInv
<1>1. CacheTypeOK'
  BY CacheAssumption, CallKnown DEF CacheTypeOK, Calls, Entries, Stages,
     Store, caches, locals, Serve
<1>2. OneLoader'
  BY CallKnown DEF CacheTypeOK, OneLoader, Loading, Store, caches, locals,
     Serve
<1>3. FloorsOffered'
  BY CallKnown DEF CacheTypeOK, FloorsOffered, Entries, Store, caches,
     locals, Serve
<1>4. AnswerCovers'
  BY CallKnown DEF CacheTypeOK, AnswerCovers, OneLoader, Loading,
     FloorsOffered, Store, caches, locals, Serve
<1>5. QueuedCovered'
  BY CallKnown DEF CacheTypeOK, QueuedCovered, AnswerCovers, Store, caches,
     locals, Serve
<1>6. newest' = [newest EXCEPT ![call[c].key] = got[c]]
  <2>1. got[c] \in Nat /\ newest[call[c].key] \in Nat /\ stage[c] # "idle"
    BY CallKnown DEF CacheTypeOK, Entries, Store
  <2>2. newest[call[c].key] <= got[c]
    BY <2>1, CallKnown DEF CacheTypeOK, EntriesGrow, Entries, Store
  <2>3. newest' = [newest EXCEPT ![call[c].key] =
                    IF got[c] > newest[call[c].key] THEN got[c]
                    ELSE newest[call[c].key]]
    BY DEF Store, Serve
  <2>4. (IF got[c] > newest[call[c].key] THEN got[c]
         ELSE newest[call[c].key]) = got[c]
    BY <2>1, <2>2
  <2>. QED
    BY <2>3, <2>4
<1>7. EntriesGrow'
  <2>1. \A k \in Keys : newest'[k] <= entries'[k].version
    BY <1>6, CallKnown DEF CacheTypeOK, EntriesGrow, Entries, Store, caches,
       locals
  <2>2. \A d \in Callers : stage'[d] = "answered" =>
           entries'[call'[d].key].version <= got'[d]
    BY CallKnown DEF CacheTypeOK, EntriesGrow, OneLoader, Loading, Store,
       caches, locals, Serve
  <2>3. \A k \in Keys : newest[k] <= newest'[k]
    BY <1>6, CallKnown DEF CacheTypeOK, EntriesGrow, Entries, Store
  <2>4. \A d \in Callers : stage'[d] # "idle" => call'[d].known <= newest'[call'[d].key]
    BY <1>1, <2>3, CallKnown DEF CacheTypeOK, EntriesGrow, Store, caches,
       locals, Serve
  <2>. QED
    BY <2>1, <2>2, <2>4 DEF EntriesGrow
<1>8. LiveIsCurrent' /\ NeverOlderThanServed'
  <2>1. got'[c] = got[c] /\ call' = call /\ stage[c] # "idle"
    BY DEF CacheTypeOK, Store, Serve
  <2>2. call[c].known <= got[c]
    BY <2>1, CallKnown DEF CacheTypeOK, EntriesGrow, Entries, Store
  <2>3. call[c].live => call[c].floor <= got[c]
    BY CallKnown DEF CacheTypeOK, QueuedCovered, AnswerCovers, Store
  <2>. QED
    BY <2>1, <2>2, <2>3, CallKnown DEF CacheTypeOK, Entries, LiveIsCurrent,
       NeverOlderThanServed, Store, Serve
<1>. QED
  BY <1>1, <1>2, <1>3, <1>4, <1>5, <1>7, <1>8

\* A loader that raised leaves the entry as it was.
LEMMA FailInv ==
  ASSUME CacheInv, NEW c \in Callers, Fail(c)
  PROVE  CacheInv'
<1>. USE DEF CacheInv
<1>1. CacheTypeOK'
  BY CacheAssumption, CallKnown DEF CacheTypeOK, Calls, Entries, Stages,
     Fail, Leave, caches, locals
<1>2. OneLoader'
  BY CallKnown DEF CacheTypeOK, OneLoader, Loading, Fail, Leave, caches,
     locals
<1>3. FloorsOffered'
  BY CallKnown DEF CacheTypeOK, FloorsOffered, Entries, Fail, Leave, caches,
     locals
<1>4. AnswerCovers'
  BY CallKnown DEF CacheTypeOK, AnswerCovers, OneLoader, Loading,
     FloorsOffered, Fail, Leave, caches, locals
<1>5. QueuedCovered'
  BY CallKnown DEF CacheTypeOK, QueuedCovered, AnswerCovers, Fail, Leave,
     caches, locals
<1>6. EntriesGrow'
  BY CallKnown DEF CacheTypeOK, EntriesGrow, OneLoader, Loading,
     FloorsOffered, Fail, Leave, caches, locals
<1>7. LiveIsCurrent' /\ NeverOlderThanServed'
  BY CallKnown DEF CacheTypeOK, LiveIsCurrent, NeverOlderThanServed, Fail,
     Leave, caches, locals
<1>. QED
  BY <1>1, <1>2, <1>3, <1>4, <1>5, <1>6, <1>7

\* A caller that is done holds nothing.
LEMMA DoneInv ==
  ASSUME CacheInv, NEW c \in Callers, Done(c)
  PROVE  CacheInv'
<1>. USE DEF CacheInv
<1>1. CacheTypeOK'
  BY CacheAssumption, CallKnown DEF CacheTypeOK, Calls, Entries, Stages,
     Done, Leave, caches, locals
<1>2. OneLoader'
  BY CallKnown DEF CacheTypeOK, OneLoader, Loading, Done, Leave, caches,
     locals
<1>3. FloorsOffered'
  BY CallKnown DEF CacheTypeOK, FloorsOffered, Entries, Done, Leave, caches,
     locals
<1>4. AnswerCovers'
  BY CallKnown DEF CacheTypeOK, AnswerCovers, OneLoader, Loading,
     FloorsOffered, Done, Leave, caches, locals
<1>5. QueuedCovered'
  BY CallKnown DEF CacheTypeOK, QueuedCovered, AnswerCovers, Done, Leave,
     caches, locals
<1>6. EntriesGrow'
  BY CallKnown DEF CacheTypeOK, EntriesGrow, OneLoader, Loading,
     FloorsOffered, Done, Leave, caches, locals
<1>7. LiveIsCurrent' /\ NeverOlderThanServed'
  BY CallKnown DEF CacheTypeOK, LiveIsCurrent, NeverOlderThanServed, Done,
     Leave, caches, locals
<1>. QED
  BY <1>1, <1>2, <1>3, <1>4, <1>5, <1>6, <1>7

\* Upstream only moves forward.
LEMMA ChangeInv ==
  ASSUME CacheInv, Change
  PROVE  CacheInv'
<1>. USE DEF CacheInv
<1>1. CacheTypeOK'
  BY CacheAssumption, CallKnown DEF CacheTypeOK, Calls, Entries, Stages,
     Change, caches, locals
<1>2. OneLoader'
  BY CallKnown DEF CacheTypeOK, OneLoader, Loading, Change, caches, locals
<1>3. FloorsOffered'
  BY CallKnown DEF CacheTypeOK, FloorsOffered, Entries, Change, caches,
     locals
<1>4. AnswerCovers'
  BY CallKnown DEF CacheTypeOK, AnswerCovers, OneLoader, Loading,
     FloorsOffered, Change, caches, locals
<1>5. QueuedCovered'
  BY CallKnown DEF CacheTypeOK, QueuedCovered, AnswerCovers, Change, caches,
     locals
<1>6. EntriesGrow'
  BY CallKnown DEF CacheTypeOK, EntriesGrow, OneLoader, Loading,
     FloorsOffered, Change, caches, locals
<1>7. LiveIsCurrent' /\ NeverOlderThanServed'
  BY CallKnown DEF CacheTypeOK, LiveIsCurrent, NeverOlderThanServed, Change,
     caches, locals
<1>. QED
  BY <1>1, <1>2, <1>3, <1>4, <1>5, <1>6, <1>7

\* Time alone changes no response.
LEMMA TickInv ==
  ASSUME CacheInv, Tick
  PROVE  CacheInv'
<1>. USE DEF CacheInv
<1>1. CacheTypeOK'
  BY CacheAssumption, CallKnown DEF CacheTypeOK, Calls, Entries, Stages,
     Tick, caches, locals
<1>2. OneLoader'
  BY CallKnown DEF CacheTypeOK, OneLoader, Loading, Tick, caches, locals
<1>3. FloorsOffered'
  BY CallKnown DEF CacheTypeOK, FloorsOffered, Entries, Tick, caches, locals
<1>4. AnswerCovers'
  BY CallKnown DEF CacheTypeOK, AnswerCovers, OneLoader, Loading,
     FloorsOffered, Tick, caches, locals
<1>5. QueuedCovered'
  BY CallKnown DEF CacheTypeOK, QueuedCovered, AnswerCovers, Tick, caches,
     locals
<1>6. EntriesGrow'
  BY CallKnown DEF CacheTypeOK, EntriesGrow, OneLoader, Loading,
     FloorsOffered, Tick, caches, locals
<1>7. LiveIsCurrent' /\ NeverOlderThanServed'
  BY CallKnown DEF CacheTypeOK, LiveIsCurrent, NeverOlderThanServed, Tick,
     caches, locals
<1>. QED
  BY <1>1, <1>2, <1>3, <1>4, <1>5, <1>6, <1>7

\* Steps of others leave the cache as it is.
LEMMA StutterInv ==
  ASSUME CacheInv, UNCHANGED cacheVars
  PROVE  CacheInv'
  BY DEF CacheInv, CacheTypeOK, OneLoader, FloorsOffered, AnswerCovers, QueuedCovered,
     EntriesGrow, LiveIsCurrent, NeverOlderThanServed, cacheVars, caches, locals

\* The invariant is inductive.
LEMMA StepInv == CacheInv /\ [CacheNext]_cacheVars => CacheInv'
<1>. SUFFICES ASSUME CacheInv, [CacheNext]_cacheVars PROVE CacheInv'
  OBVIOUS
<1>1. CASE \E c \in Callers, k \in Keys, live \in BOOLEAN : Arrive(c, k, live)
  BY <1>1, ArriveInv
<1>2. CASE \E c \in Callers : Fetching(c)
  BY <1>2, ReuseOnArrivalInv, QueueInv, ReuseQueuedInv, BeginLoadInv, UpstreamInv, StoreInv
     DEF Fetching
<1>3. CASE \E c \in Callers : Fail(c) \/ Done(c)
  BY <1>3, FailInv, DoneInv
<1>4. CASE Change \/ Tick
  BY <1>4, ChangeInv, TickInv
<1>5. CASE UNCHANGED cacheVars
  BY <1>5, StutterInv
<1>. QED
  BY <1>1, <1>2, <1>3, <1>4, <1>5 DEF CacheNext

\* The inductive invariant holds in every reachable state of the cache.
THEOREM CacheInvariance == CacheSpec => []CacheInv
<1>. QED
  BY InitInv, StepInv, PTL DEF CacheSpec

\* The cache and its callers keep their types.
THEOREM CacheTypeCorrect == CacheSpec => []CacheTypeOK
<1>1. CacheInv => CacheTypeOK
  BY DEF CacheInv
<1>. QED
  BY <1>1, CacheInvariance, PTL

\* A deliberate refresh gets nothing older than what upstream offered when it
\* arrived, or than the answer under way then, whoever loaded it.
THEOREM LiveCalls == CacheSpec => []LiveIsCurrent
<1>1. CacheInv => LiveIsCurrent
  BY DEF CacheInv
<1>. QED
  BY <1>1, CacheInvariance, PTL

\* Responses for a key never go back in time.
THEOREM ResponsesAge == CacheSpec => []NeverOlderThanServed
<1>1. CacheInv => NeverOlderThanServed
  BY DEF CacheInv
<1>. QED
  BY <1>1, CacheInvariance, PTL
=============================================================================
