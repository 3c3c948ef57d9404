-------------------------- MODULE AutoRefreshProofs --------------------------
(***************************************************************************)
(* The safety of AutoRefresh for any number of workers, requests and       *)
(* sports, any settings, plan and price, and any number of faults.         *)
(***************************************************************************)
EXTENDS AutoRefresh, TLAPS

-----------------------------------------------------------------------------
(* The inductive invariant.  A cycle is the one that holds the lock, so what
   it read of the automatic pulls stays true until it pulls itself; a recorder
   is the one that holds the quota lock, so the previous observation it read
   is the newest; and a refusal is either known to the recorded balance, still
   to be recorded by the worker it happened to, or lost in a fault. *)

\* A worker outside "idle" holds the cycle lock, and only it.
OneCycle == \A w \in Workers : pc[w] # "idle" <=> cycleLock = w

\* A process about to record holds the quota lock and has read the newest.
OneRecorder ==
    \A p \in Procs : pc[p] = "record" => quotaLock = p /\ pull[p].previous = latest

\* Where a process is in a pull says what it asks for.
PullsAsked ==
    /\ \A p \in Procs : pc[p] = "stamp" => pull[p].call = "sport"
    /\ \A w \in Workers : pull[w].call # "event"
    /\ \A p \in Procs : pc[p] \in {"persist", "stamp"} => pull[p].call # "balance"
    /\ \A w \in Workers : pc[w] = "balance" => pull[w].call = "balance"
    /\ \A p \in Procs : pc[p] \in {"lock", "record"} =>
         /\ pull[p].reading.ok => ~pull[p].reading.out
         /\ pull[p].call = "balance" => ~pull[p].reading.out

Deciding == {"quota", "balance", "next", "ask", "lock", "record", "persist", "stamp",
             "outcome", "write"}

Pulling == {"ask", "lock", "record", "persist", "stamp"}

\* A sport's stamp is no older than its last automatic pull's, unless a manual
\* pull has set it back; and no clock reading is ahead of the clock.
StampsOrdered ==
    /\ \A s \in Sports : s \notin setBack => automaticAt[s] <= refreshedAt[s]
    /\ \A s \in Sports : automaticAt[s] <= now

StampsRead == \A p \in Procs : pc[p] = "stamp" => pull[p].at <= now

\* What a cycle has still to pull was, when it started, an interval past its
\* last automatic pull, or set back since; the sport it is pulling is no longer
\* among it.
OldFor(w) ==
    /\ cycle[w].asOf <= now
    /\ pc[w] \in Deciding => \A s \in cycle[w].due :
         \/ automaticAt[s] = None \/ s \in setBack
         \/ automaticAt[s] + cycle[w].interval <= cycle[w].asOf
    /\ pc[w] \in Pulling /\ pull[w].call = "sport" => pull[w].sport \notin cycle[w].due

DueIsOld == StampsOrdered /\ StampsRead /\ \A w \in Workers : OldFor(w)

\* A refused worker that has not recorded it yet.
Refusal(w) == pc[w] \in {"lock", "record"} /\ pull[w].reading.out

\* A worker whose cycle has credits, as far as it knows.
Confident(w) ==
    \/ pc[w] \in {"next", "persist", "stamp"}
    \/ pc[w] \in {"ask", "lock", "record"} /\ pull[w].call = "sport" /\ ~Refusal(w)
    \/ pc[w] \in {"outcome", "write"} /\ ~cycle[w].out

RefusalsKnown ==
    /\ RefusedOnce
    /\ \A w \in Workers : Confident(w) => refusals <= faults
    /\ ~IsPaused(latest) /\ (\A w \in Workers : ~Refusal(w)) => refusals <= faults

IInv == TypeOK /\ OneCycle /\ OneRecorder /\ PullsAsked /\ DueIsOld /\ RefusalsKnown

-----------------------------------------------------------------------------
(* Types *)

\* What a process starts from is well typed.
LEMMA LocalTypes ==
  /\ Unobserved \in Observations /\ NoSettings \in Settings
  /\ NoCycle \in Cycles /\ NoPull \in Pulls
<1>1. Unobserved \in Observations
  BY DEF Unobserved, Observations, None
<1>2. NoSettings \in Settings
  BY IntervalsAssumption, FloorsAssumption
  DEF NoSettings, Settings, IntervalsAssumption, FloorsAssumption
<1>3. NoCycle \in Cycles
  BY <1>2, IntervalsAssumption, BoundsAssumption
  DEF NoCycle, Cycles, IntervalsAssumption, BoundsAssumption
<1>4. NoPull \in Pulls
  BY <1>1, FloorsAssumption, SportsAssumption, BoundsAssumption
  DEF NoPull, Pulls, Readings, None, FloorsAssumption, SportsAssumption,
      BoundsAssumption
<1>. QED
  BY <1>1, <1>2, <1>3, <1>4

\* What was observed is an observation, whatever was reported before it.
LEMMA ObserveType ==
  ASSUME NEW r \in Readings, NEW previous \in Observations
  PROVE  Observe(r, previous) \in Observations
<1> DEFINE cost == IF r.out THEN 0 ELSE r.cost
           left == IF r.remaining # None THEN r.remaining
                   ELSE IF previous.remaining = None THEN None
                   ELSE Larger(previous.remaining - cost, 0)
           used == IF r.remaining # None THEN r.used
                   ELSE IF previous.used = None THEN None
                   ELSE previous.used + cost
<1>1. /\ r.remaining \in Nat \cup {None} /\ r.used \in Nat \cup {None}
      /\ r.cost \in Nat /\ r.out \in BOOLEAN /\ r.at \in Nat
      /\ previous.remaining \in Nat \cup {None} /\ previous.used \in Nat \cup {None}
  BY DEF Readings, Observations
<1>2. cost \in Nat
  BY <1>1
<1>3. left \in Nat \cup {None} /\ used \in Nat \cup {None}
  <2> HIDE DEF cost
  <2>. QED
    BY <1>1, <1>2 DEF Larger, None
<1>4. Observe(r, previous) = [remaining |-> IF r.out THEN 0 ELSE left, used |-> used,
                              out |-> r.out, at |-> r.at]
  BY DEF Observe
<1> HIDE DEF left, used
<1>. QED
  BY <1>1, <1>3, <1>4 DEF Observations

\* The balance and what has been used of the plan.
LEMMA BalanceTypes ==
  ASSUME NEW x \in 0..Plan
  PROVE  x \in Nat /\ Plan - x \in Nat
  BY CreditsAssumption DEF CreditsAssumption

\* A call costs a natural number of credits.
LEMMA PriceType ==
  ASSUME NEW p \in Procs
  PROVE  Price(p) \in Nat
  BY CreditsAssumption DEF CreditsAssumption, Price

\* The balance after a charge the provider agreed to.
LEMMA ChargeType ==
  ASSUME TypeOK, NEW p \in Procs
  PROVE  (IF Refused(p) THEN credits ELSE credits - Price(p)) \in 0..Plan
<1>1. Price(p) \in Nat /\ credits \in 0..Plan /\ Plan \in Nat
  BY PriceType, CreditsAssumption DEF CreditsAssumption, TypeOK
<1>. QED
  BY <1>1 DEF Refused

\* A reading taken off an answer is well typed.
LEMMA ReadQuotaType ==
  ASSUME TypeOK, NEW p \in Procs, NEW out \in BOOLEAN, NEW ok \in BOOLEAN,
         NEW headers \in BOOLEAN, credits' \in 0..Plan, ReadQuota(p, out, ok, headers)
  PROVE  pull' \in [Procs -> Pulls]
<1> DEFINE r == [remaining |-> IF headers THEN credits' ELSE None,
                 used |-> IF headers THEN Plan - credits' ELSE None,
                 cost |-> Price(p), out |-> out, ok |-> ok, at |-> now]
<1>1. /\ credits' \in Nat /\ Plan - credits' \in Nat
      /\ Price(p) \in Nat /\ now \in Nat
  BY BalanceTypes, PriceType, BoundsAssumption DEF BoundsAssumption, TypeOK
<1>2. r \in Readings
  BY <1>1 DEF Readings
<1>3. pull' = [pull EXCEPT ![p].reading = r]
  BY DEF ReadQuota
<1>4. [pull[p] EXCEPT !.reading = r] \in Pulls
  <2> HIDE DEF r
  <2>. QED
    BY <1>2 DEF TypeOK, Pulls
<1>. QED
  BY <1>3, <1>4 DEF TypeOK

\* So are the locals of a pull that has ended,
LEMMA EndedType ==
  ASSUME TypeOK, NEW p \in Procs, Ended(p)
  PROVE  /\ pc' \in [Procs -> Pcs] /\ pull' \in [Procs -> Pulls]
         /\ cycle' \in [Workers -> Cycles]
<1>1. pc' \in [Procs -> Pcs]
  BY DEF TypeOK, Ended, Pcs
<1>2. pull' \in [Procs -> Pulls]
  BY LocalTypes DEF TypeOK, Ended
<1>3. pull[p].reading.out \in BOOLEAN
  BY DEF TypeOK, Pulls, Readings
<1>4. ASSUME NEW w \in Workers PROVE [cycle[w] EXCEPT !.out = pull[p].reading.out] \in Cycles
  BY <1>3 DEF TypeOK, Cycles
<1>. QED
  BY <1>1, <1>2, <1>4 DEF Ended, TypeOK

\* and those of one whose recording is over.
LEMMA AfterRecordingType ==
  ASSUME TypeOK, NEW p \in Procs, AfterRecording(p)
  PROVE  /\ pc' \in [Procs -> Pcs] /\ pull' \in [Procs -> Pulls]
         /\ cycle' \in [Workers -> Cycles]
<1>1. CASE Ended(p)
  BY <1>1, EndedType
<1>2. CASE ~Ended(p)
  <2>1. pc' \in [Procs -> Pcs] /\ cycle' \in [Workers -> Cycles]
    BY <1>2 DEF AfterRecording, TypeOK, Pcs
  <2>2. pull' = [pull EXCEPT ![p].previous = Unobserved, ![p].floor = None]
    BY <1>2 DEF AfterRecording
  <2>3. [pull[p] EXCEPT !.previous = Unobserved, !.floor = None] \in Pulls
    BY LocalTypes, FloorsAssumption DEF FloorsAssumption, TypeOK, Pulls
  <2>4. pull' = [pull EXCEPT ![p] = [pull[p] EXCEPT !.previous = Unobserved, !.floor = None]]
    BY <2>2
  <2>. QED
    BY <2>1, <2>3, <2>4 DEF TypeOK
<1>. QED
  BY <1>1, <1>2

\* Every step preserves the types.
LEMMA TypeStep ==
  ASSUME TypeOK, [Next]_vars
  PROVE  TypeOK'
<1>1. ASSUME NEW w \in Workers, Poll(w) PROVE TypeOK'
  <2>1. pc' \in [Procs -> Pcs]
    BY <1>1 DEF TypeOK, Poll, Goto, Pcs, Procs
  <2>2. cycle' \in [Workers -> Cycles]
    BY <1>1, LocalTypes DEF TypeOK, Poll, Cycles
  <2>. QED
    BY <1>1, <2>1, <2>2
    DEF TypeOK, Poll, quota, bounds, history, world, Goto, Fault, Pcs
<1>2. ASSUME NEW w \in Workers, ReadSettings(w) PROVE TypeOK'
  <2>1. pc' \in [Procs -> Pcs]
    BY <1>2 DEF TypeOK, ReadSettings, Goto, Pcs, Procs
  <2>2. cycle' \in [Workers -> Cycles]
    BY <1>2, LocalTypes DEF TypeOK, ReadSettings, Cycles, Settings
  <2>. QED
    BY <1>2, <2>1, <2>2
    DEF TypeOK, ReadSettings, quota, bounds, history, world, Goto, Fault, Pcs
<1>3. ASSUME NEW w \in Workers, ReadWatched(w) PROVE TypeOK'
  <2>1. pc' \in [Procs -> Pcs]
    BY <1>3 DEF TypeOK, ReadWatched, Goto, Pcs, Procs
  <2>2. cycle' \in [Workers -> Cycles]
    BY <1>3, LocalTypes DEF TypeOK, ReadWatched, Cycles
  <2>. QED
    BY <1>3, <2>1, <2>2
    DEF TypeOK, ReadWatched, quota, bounds, history, world, Goto, Fault, Pcs
<1>4. ASSUME NEW w \in Workers, ReadTimes(w) PROVE TypeOK'
  <2>1. pc' \in [Procs -> Pcs]
    BY <1>4 DEF TypeOK, ReadTimes, Goto, Pcs, Procs
  <2>2. PICK found : found \subseteq cycle[w].due /\ cycle' = [cycle EXCEPT ![w].due = found]
    BY <1>4 DEF ReadTimes, DueSports
  <2>3. cycle' \in [Workers -> Cycles]
    BY <2>2 DEF TypeOK, Cycles
  <2>. QED
    BY <1>4, <2>1, <2>2, <2>3
    DEF TypeOK, ReadTimes, quota, bounds, history, world, Goto, Fault, Pcs
<1>5. ASSUME NEW w \in Workers, CheckPause(w) PROVE TypeOK'
  <2>1. pc' \in [Procs -> Pcs]
    BY <1>5 DEF TypeOK, CheckPause, Goto, Pcs, Procs
  <2>2. pull' \in [Procs -> Pulls]
    BY <1>5 DEF TypeOK, CheckPause, Pulls, Procs
  <2>. QED
    BY <1>5, <2>1, <2>2
    DEF TypeOK, CheckPause, quota, bounds, history, world, Goto, Fault, Pcs
<1>6. ASSUME NEW w \in Workers, ConfirmBalance(w) PROVE TypeOK'
  <2>1. pc' \in [Procs -> Pcs]
    BY <1>6 DEF TypeOK, ConfirmBalance, Goto, Pcs, Procs
  <2>. QED
    BY <1>6, <2>1
    DEF TypeOK, ConfirmBalance, quota, bounds, history, world, Goto, Fault, Pcs
<1>7. ASSUME NEW w \in Workers, NextSport(w) PROVE TypeOK'
  <2>1. pc' \in [Procs -> Pcs]
    BY <1>7 DEF TypeOK, NextSport, Goto, Pcs, Procs
  <2>2. PICK s \in cycle[w].due :
            /\ pull' = [pull EXCEPT ![w] = [NoPull EXCEPT !.sport = s]]
            /\ cycle' = [cycle EXCEPT ![w].due = @ \ {s}]
    BY <1>7 DEF NextSport
  <2>3. cycle[w] \in Cycles /\ s \in Sports
    BY <2>2 DEF TypeOK, Cycles
  <2>4. [NoPull EXCEPT !.sport = s] \in Pulls /\ [cycle[w] EXCEPT !.due = @ \ {s}] \in Cycles
    BY <2>3, LocalTypes DEF Pulls, Cycles
  <2>5. pull' \in [Procs -> Pulls] /\ cycle' \in [Workers -> Cycles]
    BY <2>2, <2>4 DEF TypeOK, Procs
  <2>. QED
    BY <1>7, <2>1, <2>2, <2>3, <2>4, <2>5
    DEF TypeOK, NextSport, quota, bounds, history, world, Goto, Fault, Pcs
<1>8. ASSUME NEW w \in Workers, NoMoreSports(w) PROVE TypeOK'
  <2>1. pc' \in [Procs -> Pcs]
    BY <1>8 DEF TypeOK, NoMoreSports, Goto, Pcs, Procs
  <2>. QED
    BY <1>8, <2>1
    DEF TypeOK, NoMoreSports, quota, bounds, history, world, Goto, Fault, Pcs
<1>9. ASSUME NEW w \in Workers, ReadOutcomeRow(w) PROVE TypeOK'
  <2>1. pc' \in [Procs -> Pcs]
    BY <1>9 DEF TypeOK, ReadOutcomeRow, Goto, Pcs, Procs
  <2>2. cycle' \in [Workers -> Cycles]
    BY <1>9, LocalTypes DEF TypeOK, ReadOutcomeRow, Cycles
  <2>. QED
    BY <1>9, <2>1, <2>2
    DEF TypeOK, ReadOutcomeRow, quota, bounds, history, world, Goto, Fault, Pcs
<1>10. ASSUME NEW w \in Workers, WriteOutcome(w) PROVE TypeOK'
  <2>1. pc' \in [Procs -> Pcs]
    BY <1>10 DEF TypeOK, WriteOutcome, Goto, Pcs, Procs
  <2>2. cycle' \in [Workers -> Cycles]
    BY <1>10, LocalTypes DEF TypeOK, WriteOutcome, Cycles
  <2>3. settings' \in Settings
    BY <1>10 DEF TypeOK, WriteOutcome, Cycles
  <2>. QED
    BY <1>10, <2>1, <2>2, <2>3
    DEF TypeOK, WriteOutcome, quota, bounds, history, world, Goto, Fault, Pcs
<1>11. ASSUME NEW w \in Workers, Release(w) PROVE TypeOK'
  <2>1. pc' \in [Procs -> Pcs]
    BY <1>11 DEF TypeOK, Release, Goto, Pcs, Procs
  <2>2. cycle' \in [Workers -> Cycles] /\ pull' \in [Procs -> Pulls]
    BY <1>11, LocalTypes DEF TypeOK, Release, Procs
  <2>. QED
    BY <1>11, <2>1, <2>2
    DEF TypeOK, Release, quota, bounds, history, world, Goto, Fault, Pcs
<1>12. ASSUME NEW w \in Workers, CycleFails(w) PROVE TypeOK'
  <2>1. pc' \in [Procs -> Pcs]
    BY <1>12 DEF TypeOK, CycleFails, Goto, Pcs, Procs
  <2>2. faults' \in 0..MaxFaults
    BY <1>12, BoundsAssumption DEF BoundsAssumption, TypeOK, CycleFails, Fault
  <2>. QED
    BY <1>12, <2>1, <2>2
    DEF TypeOK, CycleFails, quota, bounds, history, world, Goto, Fault, Pcs
<1>13. ASSUME NEW p \in Procs, Answer(p, TRUE) PROVE TypeOK'
  <2>1. pc' \in [Procs -> Pcs]
    BY <1>13 DEF TypeOK, Answer, Goto, Pcs, Procs
  <2>2. credits' \in 0..Plan
    BY <1>13, ChargeType DEF Answer
  <2>3. Refused(p) \in BOOLEAN /\ (~Refused(p)) \in BOOLEAN
    BY DEF Refused
  <2>4. ReadQuota(p, Refused(p), ~Refused(p), TRUE)
    BY <1>13 DEF Answer
  <2>5. pull' \in [Procs -> Pulls]
    BY <2>2, <2>3, <2>4, ReadQuotaType
  <2>6. faults' \in 0..MaxFaults
    BY <1>13, BoundsAssumption DEF BoundsAssumption, TypeOK, Answer, Fault
  <2>7. refusals' \in Nat
    BY <1>13 DEF TypeOK, Answer
  <2>. QED
    BY <1>13, <2>1, <2>2, <2>3, <2>4, <2>5, <2>6, <2>7
    DEF TypeOK, Answer, quota, bounds, history, world, Goto, Fault, Pcs
<1>14. ASSUME NEW p \in Procs, LockQuota(p) PROVE TypeOK'
  <2>1. pc' \in [Procs -> Pcs]
    BY <1>14 DEF TypeOK, LockQuota, Goto, Pcs, Procs
  <2>2. [pull[p] EXCEPT !.previous = latest, !.floor = settings.floor] \in Pulls
    BY DEF TypeOK, Pulls, Settings
  <2>3. pull' = [pull EXCEPT ![p] = [pull[p] EXCEPT !.previous = latest, !.floor = settings.floor]]
    BY <1>14 DEF LockQuota
  <2>4. pull' \in [Procs -> Pulls]
    BY <2>2, <2>3 DEF TypeOK
  <2>. QED
    BY <1>14, <2>1, <2>2, <2>3, <2>4
    DEF TypeOK, LockQuota, quota, bounds, history, world, Goto, Fault, Pcs
<1>15. ASSUME NEW p \in Procs, Record(p) PROVE TypeOK'
  <2>1. pc' \in [Procs -> Pcs] /\ cycle' \in [Workers -> Cycles]
         /\ pull' \in [Procs -> Pulls]
    BY <1>15, AfterRecordingType DEF Record
  <2>2. Observe(pull[p].reading, pull[p].previous) \in Observations
    BY ObserveType DEF TypeOK, Pulls
  <2>3. latest' \in Observations /\ warnings' \in Nat /\ refusals' \in Nat
    BY <1>15, <2>2 DEF Record, TypeOK
  <2>. QED
    BY <1>15, <2>1, <2>2, <2>3
    DEF TypeOK, Record, quota, bounds, history, world, Goto, Fault, Pcs
<1>16. ASSUME NEW p \in Procs, PersistSport(p) PROVE TypeOK'
  <2>1. pc' \in [Procs -> Pcs]
    BY <1>16 DEF TypeOK, PersistSport, Goto, Pcs, Procs
  <2>2. [pull[p] EXCEPT !.at = now] \in Pulls
    BY DEF TypeOK, Pulls
  <2>3. pull' \in [Procs -> Pulls]
    BY <1>16, <2>2 DEF TypeOK, PersistSport
  <2>. QED
    BY <1>16, <2>1, <2>3
    DEF TypeOK, PersistSport, quota, bounds, history, world, Goto, Fault, Pcs
<1>17. ASSUME NEW p \in Procs, PersistEvent(p) PROVE TypeOK'
  <2>1. pc' \in [Procs -> Pcs] /\ cycle' \in [Workers -> Cycles]
         /\ pull' \in [Procs -> Pulls]
    BY <1>17, EndedType DEF PersistEvent
  <2>. QED
    BY <1>17, <2>1
    DEF TypeOK, PersistEvent, quota, bounds, history, world, Goto, Fault, Pcs
<1>18. ASSUME NEW p \in Procs, Stamp(p) PROVE TypeOK'
  <2>1. pc' \in [Procs -> Pcs] /\ cycle' \in [Workers -> Cycles]
         /\ pull' \in [Procs -> Pulls]
    BY <1>18, EndedType DEF Stamp
  <2>2. pull[p].at \in 0..MaxTime /\ pull[p].sport \in Sports
    BY DEF TypeOK, Pulls
  <2>3. /\ refreshedAt' \in [Sports -> 0..MaxTime \cup {None}]
        /\ automaticAt' \in [Sports -> 0..MaxTime \cup {None}]
        /\ setBack' \subseteq Sports
    BY <1>18, <2>2 DEF Stamp, TypeOK
  <2>. QED
    BY <1>18, <2>1, <2>2, <2>3
    DEF TypeOK, Stamp, quota, bounds, history, world, Goto, Fault, Pcs
<1>19. ASSUME NEW p \in Procs, Answer(p, FALSE) PROVE TypeOK'
  <2>1. pc' \in [Procs -> Pcs]
    BY <1>19 DEF TypeOK, Answer, Goto, Pcs, Procs
  <2>2. credits' \in 0..Plan
    BY <1>19, ChargeType DEF Answer
  <2>3. Refused(p) \in BOOLEAN /\ (~Refused(p)) \in BOOLEAN
    BY DEF Refused
  <2>4. ReadQuota(p, Refused(p), ~Refused(p), FALSE)
    BY <1>19 DEF Answer
  <2>5. pull' \in [Procs -> Pulls]
    BY <2>2, <2>3, <2>4, ReadQuotaType
  <2>6. faults' \in 0..MaxFaults
    BY <1>19, BoundsAssumption DEF BoundsAssumption, TypeOK, Answer, Fault
  <2>7. refusals' \in Nat
    BY <1>19 DEF TypeOK, Answer
  <2>. QED
    BY <1>19, <2>1, <2>2, <2>3, <2>4, <2>5, <2>6, <2>7
    DEF TypeOK, Answer, quota, bounds, history, world, Goto, Fault, Pcs
<1>20. ASSUME NEW p \in Procs, AnswerWithError(p) PROVE TypeOK'
  <2>1. pc' \in [Procs -> Pcs]
    BY <1>20 DEF TypeOK, AnswerWithError, Goto, Pcs, Procs
  <2>2. credits' \in 0..Plan
    BY <1>20 DEF AnswerWithError, TypeOK
  <2>3. PICK headers \in BOOLEAN : ReadQuota(p, FALSE, FALSE, headers)
    BY <1>20 DEF AnswerWithError
  <2>4. pull' \in [Procs -> Pulls]
    BY <2>2, <2>3, ReadQuotaType
  <2>5. faults' \in 0..MaxFaults
    BY <1>20, BoundsAssumption DEF BoundsAssumption, TypeOK, AnswerWithError, Fault
  <2>. QED
    BY <1>20, <2>1, <2>2, <2>3, <2>4, <2>5
    DEF TypeOK, AnswerWithError, quota, bounds, history, world, Goto, Fault, Pcs
<1>21. ASSUME NEW p \in Procs, NoAnswer(p) PROVE TypeOK'
  <2>1. pc' \in [Procs -> Pcs] /\ cycle' \in [Workers -> Cycles]
         /\ pull' \in [Procs -> Pulls]
    BY <1>21, EndedType DEF NoAnswer
  <2>2. credits' \in 0..Plan
    BY <1>21, ChargeType DEF NoAnswer, TypeOK
  <2>3. faults' \in 0..MaxFaults
    BY <1>21, BoundsAssumption DEF BoundsAssumption, TypeOK, NoAnswer, Fault
  <2>. QED
    BY <1>21, <2>1, <2>2, <2>3
    DEF TypeOK, NoAnswer, quota, bounds, history, world, Goto, Fault, Pcs
<1>22. ASSUME NEW p \in Procs, RecordFails(p) PROVE TypeOK'
  <2>1. pc' \in [Procs -> Pcs] /\ cycle' \in [Workers -> Cycles]
         /\ pull' \in [Procs -> Pulls]
    BY <1>22, AfterRecordingType DEF RecordFails
  <2>2. faults' \in 0..MaxFaults
    BY <1>22, BoundsAssumption DEF BoundsAssumption, TypeOK, RecordFails, Fault
  <2>. QED
    BY <1>22, <2>1, <2>2
    DEF TypeOK, RecordFails, quota, bounds, history, world, Goto, Fault, Pcs
<1>23. ASSUME NEW p \in Procs, PullFails(p) PROVE TypeOK'
  <2>1. pc' \in [Procs -> Pcs] /\ cycle' \in [Workers -> Cycles]
         /\ pull' \in [Procs -> Pulls]
    BY <1>23, EndedType DEF PullFails
  <2>2. faults' \in 0..MaxFaults
    BY <1>23, BoundsAssumption DEF BoundsAssumption, TypeOK, PullFails, Fault
  <2>. QED
    BY <1>23, <2>1, <2>2
    DEF TypeOK, PullFails, quota, bounds, history, world, Goto, Fault, Pcs
<1>24. ASSUME NEW p \in Procs, Crash(p) PROVE TypeOK'
  <2>1. pc' \in [Procs -> Pcs]
    BY <1>24 DEF TypeOK, Crash, Goto, Pcs, Procs
  <2>2. cycle' \in [Workers -> Cycles] /\ pull' \in [Procs -> Pulls]
    BY <1>24, LocalTypes DEF TypeOK, Crash
  <2>3. faults' \in 0..MaxFaults
    BY <1>24, BoundsAssumption DEF BoundsAssumption, TypeOK, Crash, Fault
  <2>4. cycleLock' \in Workers \cup {Free} /\ quotaLock' \in Procs \cup {Free}
    BY <1>24 DEF TypeOK, Crash
  <2>. QED
    BY <1>24, <2>1, <2>2, <2>3, <2>4
    DEF TypeOK, Crash, quota, bounds, history, world, Goto, Fault, Pcs
<1>25. ASSUME NEW c \in Callers, NEW s \in Sports, NEW kind \in {"sport", "event"},
            Manual(c, s, kind) PROVE TypeOK'
  <2>1. pc' \in [Procs -> Pcs]
    BY <1>25 DEF TypeOK, Manual, Goto, Pcs, Procs
  <2>2. [NoPull EXCEPT !.call = kind, !.sport = s] \in Pulls
    BY LocalTypes DEF Pulls
  <2>3. pull' \in [Procs -> Pulls]
    BY <1>25, <2>2 DEF TypeOK, Manual, Procs
  <2>4. manual' \in 0..MaxManual
    BY <1>25, BoundsAssumption DEF BoundsAssumption, TypeOK, Manual
  <2>. QED
    BY <1>25, <2>1, <2>2, <2>3, <2>4
    DEF TypeOK, Manual, quota, bounds, history, world, Goto, Fault, Pcs
<1>26. ASSUME NEW new \in Settings, SaveSettings(new) PROVE TypeOK'
  <2>1. puts' \in 0..MaxPuts
    BY <1>26, BoundsAssumption DEF BoundsAssumption, TypeOK, SaveSettings
  <2>. QED
    BY <1>26, <2>1
    DEF TypeOK, SaveSettings, quota, bounds, history, world, Goto, Fault, Pcs
<1>27. ASSUME NEW s \in Sports, ChangeWatches(s) PROVE TypeOK'
  BY <1>27 DEF TypeOK, ChangeWatches, quota, bounds, history
<1>28. MonthlyReset => TypeOK'
  BY CreditsAssumption DEF CreditsAssumption, TypeOK, MonthlyReset, quota, bounds, history
<1>29. Tick => TypeOK'
  BY BoundsAssumption DEF BoundsAssumption, TypeOK, Tick, quota, bounds, history
<1>30. UNCHANGED vars => TypeOK'
  BY DEF vars, TypeOK, quota, bounds, history, world
<1>. QED
  BY <1>1, <1>2, <1>3, <1>4, <1>5, <1>6, <1>7, <1>8, <1>9, <1>10,
     <1>11, <1>12, <1>13, <1>14, <1>15, <1>16, <1>17, <1>18, <1>19, <1>20,
     <1>21, <1>22, <1>23, <1>24, <1>25, <1>26, <1>27, <1>28, <1>29, <1>30
     DEF Next, CycleStep, PullStep, Failure


-----------------------------------------------------------------------------
(* How a pull ends *)

\* What the end of a pull leaves: the others alone, and the cycle's account of it.
LEMMA EndedFacts ==
  ASSUME TypeOK, NEW p \in Procs, Ended(p)
  PROVE  /\ \A q \in Procs : q # p => pc'[q] = pc[q] /\ pull'[q] = pull[q]
         /\ \A w \in Workers : w # p => cycle'[w] = cycle[w]
         /\ \A w \in Workers : /\ cycle'[w].due = cycle[w].due
                               /\ cycle'[w].asOf = cycle[w].asOf
                               /\ cycle'[w].interval = cycle[w].interval
         /\ p \in Workers => /\ pc'[p] \in {"done", "outcome"}
                             /\ cycle'[p].out = pull[p].reading.out
         /\ p \in Callers => pc'[p] = "idle"
         /\ pull'[p] = NoPull
<1>1. p \in Workers => p \notin Callers
  BY ProcsAssumption DEF ProcsAssumption
<1>2. cycle \in [Workers -> Cycles] /\ pc \in [Procs -> Pcs] /\ pull \in [Procs -> Pulls]
  BY DEF TypeOK
<1>3. ASSUME NEW w \in Workers
      PROVE  /\ w # p => cycle'[w] = cycle[w]
             /\ w = p => cycle'[w] = [cycle[w] EXCEPT !.out = pull[p].reading.out]
  BY DEF Ended
<1>4. ASSUME NEW w \in Workers
      PROVE  LET c == [cycle[w] EXCEPT !.out = pull[p].reading.out]
             IN  /\ c.due = cycle[w].due /\ c.asOf = cycle[w].asOf
                 /\ c.interval = cycle[w].interval /\ c.out = pull[p].reading.out
  BY <1>2 DEF Cycles
<1>5. ASSUME NEW q \in Procs, q # p PROVE pc'[q] = pc[q] /\ pull'[q] = pull[q]
  BY <1>2, <1>5 DEF Ended
<1>6. p \in Workers => pc'[p] \in {"done", "outcome"}
  BY <1>1, <1>2 DEF Ended
<1>7. (p \in Callers => pc'[p] = "idle") /\ pull'[p] = NoPull
  BY <1>2 DEF Ended
<1>. QED
  BY <1>3, <1>4, <1>5, <1>6, <1>7

\* What a recording leaves: the pull goes on, or ends as above.
LEMMA AfterRecordingFacts ==
  ASSUME TypeOK, NEW p \in Procs, AfterRecording(p)
  PROVE  /\ \A q \in Procs : q # p => pc'[q] = pc[q] /\ pull'[q] = pull[q]
         /\ \A w \in Workers : w # p => cycle'[w] = cycle[w]
         /\ \A w \in Workers : /\ cycle'[w].due = cycle[w].due
                               /\ cycle'[w].asOf = cycle[w].asOf
                               /\ cycle'[w].interval = cycle[w].interval
         /\ ~pull[p].reading.ok =>
              /\ p \in Workers => /\ pc'[p] \in {"done", "outcome"}
                                  /\ cycle'[p].out = pull[p].reading.out
              /\ p \in Callers => pc'[p] = "idle"
              /\ pull'[p] = NoPull
         /\ pull[p].reading.ok =>
              /\ pc'[p] = IF pull[p].call = "balance" THEN "balance" ELSE "persist"
              /\ pull'[p].call = pull[p].call /\ pull'[p].sport = pull[p].sport
              /\ pull'[p].reading = pull[p].reading /\ UNCHANGED cycle
<1>1. CASE ~pull[p].reading.ok
  <2>1. Ended(p)
    BY <1>1 DEF AfterRecording
  <2>. QED
    BY <1>1, <2>1, EndedFacts
<1>2. CASE pull[p].reading.ok
  <2>1. /\ pc' = [pc EXCEPT ![p] = IF pull[p].call = "balance" THEN "balance" ELSE "persist"]
        /\ pull' = [pull EXCEPT ![p].previous = Unobserved, ![p].floor = None]
        /\ UNCHANGED cycle
    BY <1>2 DEF AfterRecording
  <2>2. pull \in [Procs -> Pulls] /\ pc \in [Procs -> Pcs]
    BY DEF TypeOK
  <2>3. pull' = [pull EXCEPT ![p] = [pull[p] EXCEPT !.previous = Unobserved, !.floor = None]]
    BY <2>1
  <2>4. LET n == [pull[p] EXCEPT !.previous = Unobserved, !.floor = None]
        IN  /\ n.call = pull[p].call /\ n.sport = pull[p].sport
            /\ n.reading = pull[p].reading
    BY <2>2 DEF Pulls
  <2>. QED
    BY <1>2, <2>1, <2>2, <2>3, <2>4
<1>. QED
  BY <1>1, <1>2

-----------------------------------------------------------------------------
(* One cycle at a time, and one recorder *)

\* Every step preserves OneCycle.
LEMMA OneCycleStep ==
  ASSUME TypeOK, OneCycle, [Next]_vars
  PROVE  OneCycle'
<1>1. ASSUME NEW w \in Workers, Poll(w) PROVE OneCycle'
  BY <1>1, ProcsAssumption DEF Poll, TypeOK, OneCycle, Goto, Procs, ProcsAssumption
<1>2. ASSUME NEW w \in Workers, ReadSettings(w) PROVE OneCycle'
  BY <1>2, ProcsAssumption
  DEF ReadSettings, TypeOK, OneCycle, Goto, Procs, ProcsAssumption
<1>3. ASSUME NEW w \in Workers, ReadWatched(w) PROVE OneCycle'
  BY <1>3, ProcsAssumption
  DEF ReadWatched, TypeOK, OneCycle, Goto, Procs, ProcsAssumption
<1>4. ASSUME NEW w \in Workers, ReadTimes(w) PROVE OneCycle'
  BY <1>4, ProcsAssumption
  DEF ReadTimes, TypeOK, OneCycle, Goto, Procs, ProcsAssumption
<1>5. ASSUME NEW w \in Workers, CheckPause(w) PROVE OneCycle'
  BY <1>5, ProcsAssumption
  DEF CheckPause, TypeOK, OneCycle, Goto, Procs, ProcsAssumption
<1>6. ASSUME NEW w \in Workers, ConfirmBalance(w) PROVE OneCycle'
  BY <1>6, ProcsAssumption
  DEF ConfirmBalance, TypeOK, OneCycle, Goto, Procs, ProcsAssumption
<1>7. ASSUME NEW w \in Workers, NextSport(w) PROVE OneCycle'
  BY <1>7, ProcsAssumption
  DEF NextSport, TypeOK, OneCycle, Goto, Procs, ProcsAssumption
<1>8. ASSUME NEW w \in Workers, NoMoreSports(w) PROVE OneCycle'
  BY <1>8, ProcsAssumption
  DEF NoMoreSports, TypeOK, OneCycle, Goto, Procs, ProcsAssumption
<1>9. ASSUME NEW w \in Workers, ReadOutcomeRow(w) PROVE OneCycle'
  BY <1>9, ProcsAssumption
  DEF ReadOutcomeRow, TypeOK, OneCycle, Goto, Procs, ProcsAssumption
<1>10. ASSUME NEW w \in Workers, WriteOutcome(w) PROVE OneCycle'
  BY <1>10, ProcsAssumption
  DEF WriteOutcome, TypeOK, OneCycle, Goto, Procs, ProcsAssumption
<1>11. ASSUME NEW w \in Workers, Release(w) PROVE OneCycle'
  BY <1>11, ProcsAssumption
  DEF Release, TypeOK, OneCycle, Goto, Procs, ProcsAssumption
<1>12. ASSUME NEW w \in Workers, CycleFails(w) PROVE OneCycle'
  BY <1>12, ProcsAssumption
  DEF CycleFails, TypeOK, OneCycle, Goto, Procs, ProcsAssumption
<1>13. ASSUME NEW p \in Procs, Answer(p, TRUE) PROVE OneCycle'
  BY <1>13, ProcsAssumption
  DEF Answer, TypeOK, OneCycle, Goto, Procs, ProcsAssumption
<1>14. ASSUME NEW p \in Procs, LockQuota(p) PROVE OneCycle'
  BY <1>14, ProcsAssumption
  DEF LockQuota, TypeOK, OneCycle, Goto, Procs, ProcsAssumption
<1>15. ASSUME NEW p \in Procs, Record(p) PROVE OneCycle'
  BY <1>15, AfterRecordingFacts, ProcsAssumption
  DEF Record, TypeOK, OneCycle, Goto, Procs, ProcsAssumption
<1>16. ASSUME NEW p \in Procs, PersistSport(p) PROVE OneCycle'
  BY <1>16, ProcsAssumption
  DEF PersistSport, TypeOK, OneCycle, Goto, Procs, ProcsAssumption
<1>17. ASSUME NEW p \in Procs, PersistEvent(p) PROVE OneCycle'
  BY <1>17, EndedFacts, ProcsAssumption
  DEF PersistEvent, TypeOK, OneCycle, Goto, Procs, ProcsAssumption
<1>18. ASSUME NEW p \in Procs, Stamp(p) PROVE OneCycle'
  BY <1>18, EndedFacts, ProcsAssumption
  DEF Stamp, TypeOK, OneCycle, Goto, Procs, ProcsAssumption
<1>19. ASSUME NEW p \in Procs, Answer(p, FALSE) PROVE OneCycle'
  BY <1>19, ProcsAssumption
  DEF Answer, TypeOK, OneCycle, Goto, Procs, ProcsAssumption
<1>20. ASSUME NEW p \in Procs, AnswerWithError(p) PROVE OneCycle'
  BY <1>20, ProcsAssumption
  DEF AnswerWithError, TypeOK, OneCycle, Goto, Procs, ProcsAssumption
<1>21. ASSUME NEW p \in Procs, NoAnswer(p) PROVE OneCycle'
  BY <1>21, EndedFacts, ProcsAssumption
  DEF NoAnswer, TypeOK, OneCycle, Goto, Procs, ProcsAssumption
<1>22. ASSUME NEW p \in Procs, RecordFails(p) PROVE OneCycle'
  BY <1>22, AfterRecordingFacts, ProcsAssumption
  DEF RecordFails, TypeOK, OneCycle, Goto, Procs, ProcsAssumption
<1>23. ASSUME NEW p \in Procs, PullFails(p) PROVE OneCycle'
  BY <1>23, EndedFacts, ProcsAssumption
  DEF PullFails, TypeOK, OneCycle, Goto, Procs, ProcsAssumption
<1>24. ASSUME NEW p \in Procs, Crash(p) PROVE OneCycle'
  BY <1>24, ProcsAssumption
  DEF Crash, TypeOK, OneCycle, Goto, Procs, ProcsAssumption
<1>25. ASSUME NEW c \in Callers, NEW s \in Sports, NEW kind \in {"sport", "event"},
            Manual(c, s, kind) PROVE OneCycle'
  BY <1>25, ProcsAssumption
  DEF Manual, TypeOK, OneCycle, Goto, Procs, ProcsAssumption
<1>26. ASSUME NEW new \in Settings, SaveSettings(new) PROVE OneCycle'
  BY <1>26, ProcsAssumption
  DEF SaveSettings, TypeOK, OneCycle, Goto, Procs, ProcsAssumption
<1>27. ASSUME NEW s \in Sports, ChangeWatches(s) PROVE OneCycle'
  BY <1>27, ProcsAssumption
  DEF ChangeWatches, TypeOK, OneCycle, Goto, Procs, ProcsAssumption
<1>28. MonthlyReset => OneCycle'
  BY ProcsAssumption
  DEF MonthlyReset, TypeOK, OneCycle, Goto, Procs, ProcsAssumption
<1>29. Tick => OneCycle'
  BY ProcsAssumption DEF Tick, TypeOK, OneCycle, Goto, Procs, ProcsAssumption
<1>30. UNCHANGED vars => OneCycle'
  BY ProcsAssumption DEF vars, TypeOK, OneCycle, Goto, Procs, ProcsAssumption
<1>. QED
  BY <1>1, <1>2, <1>3, <1>4, <1>5, <1>6, <1>7, <1>8, <1>9, <1>10,
     <1>11, <1>12, <1>13, <1>14, <1>15, <1>16, <1>17, <1>18, <1>19, <1>20,
     <1>21, <1>22, <1>23, <1>24, <1>25, <1>26, <1>27, <1>28, <1>29, <1>30
     DEF Next, CycleStep, PullStep, Failure


\* Every step preserves OneRecorder.
LEMMA OneRecorderStep ==
  ASSUME TypeOK, OneRecorder, [Next]_vars
  PROVE  OneRecorder'
<1>1. ASSUME NEW w \in Workers, Poll(w) PROVE OneRecorder'
  BY <1>1, ProcsAssumption
  DEF Poll, TypeOK, OneRecorder, Goto, Procs, ProcsAssumption, quota
<1>2. ASSUME NEW w \in Workers, ReadSettings(w) PROVE OneRecorder'
  BY <1>2, ProcsAssumption
  DEF ReadSettings, TypeOK, OneRecorder, Goto, Procs, ProcsAssumption, quota
<1>3. ASSUME NEW w \in Workers, ReadWatched(w) PROVE OneRecorder'
  BY <1>3, ProcsAssumption
  DEF ReadWatched, TypeOK, OneRecorder, Goto, Procs, ProcsAssumption, quota
<1>4. ASSUME NEW w \in Workers, ReadTimes(w) PROVE OneRecorder'
  BY <1>4, ProcsAssumption
  DEF ReadTimes, TypeOK, OneRecorder, Goto, Procs, ProcsAssumption, quota
<1>5. ASSUME NEW w \in Workers, CheckPause(w) PROVE OneRecorder'
  BY <1>5, ProcsAssumption
  DEF CheckPause, TypeOK, OneRecorder, Goto, Procs, ProcsAssumption, quota
<1>6. ASSUME NEW w \in Workers, ConfirmBalance(w) PROVE OneRecorder'
  BY <1>6, ProcsAssumption
  DEF ConfirmBalance, TypeOK, OneRecorder, Goto, Procs, ProcsAssumption, quota
<1>7. ASSUME NEW w \in Workers, NextSport(w) PROVE OneRecorder'
  BY <1>7, ProcsAssumption
  DEF NextSport, TypeOK, OneRecorder, Goto, Procs, ProcsAssumption, quota
<1>8. ASSUME NEW w \in Workers, NoMoreSports(w) PROVE OneRecorder'
  BY <1>8, ProcsAssumption
  DEF NoMoreSports, TypeOK, OneRecorder, Goto, Procs, ProcsAssumption, quota
<1>9. ASSUME NEW w \in Workers, ReadOutcomeRow(w) PROVE OneRecorder'
  BY <1>9, ProcsAssumption
  DEF ReadOutcomeRow, TypeOK, OneRecorder, Goto, Procs, ProcsAssumption, quota
<1>10. ASSUME NEW w \in Workers, WriteOutcome(w) PROVE OneRecorder'
  BY <1>10, ProcsAssumption
  DEF WriteOutcome, TypeOK, OneRecorder, Goto, Procs, ProcsAssumption, quota
<1>11. ASSUME NEW w \in Workers, Release(w) PROVE OneRecorder'
  BY <1>11, ProcsAssumption
  DEF Release, TypeOK, OneRecorder, Goto, Procs, ProcsAssumption, quota
<1>12. ASSUME NEW w \in Workers, CycleFails(w) PROVE OneRecorder'
  BY <1>12, ProcsAssumption
  DEF CycleFails, TypeOK, OneRecorder, Goto, Procs, ProcsAssumption, quota
<1>13. ASSUME NEW p \in Procs, Answer(p, TRUE) PROVE OneRecorder'
  BY <1>13, ProcsAssumption
  DEF Answer, ReadQuota, TypeOK, OneRecorder, Goto, Procs, ProcsAssumption, quota
<1>14. ASSUME NEW p \in Procs, LockQuota(p) PROVE OneRecorder'
  BY <1>14, ProcsAssumption
  DEF LockQuota, TypeOK, OneRecorder, Goto, Procs, ProcsAssumption, quota
<1>15. ASSUME NEW p \in Procs, Record(p) PROVE OneRecorder'
  BY <1>15, AfterRecordingFacts, ProcsAssumption
  DEF Record, TypeOK, OneRecorder, Goto, Procs, ProcsAssumption, quota
<1>16. ASSUME NEW p \in Procs, PersistSport(p) PROVE OneRecorder'
  BY <1>16, ProcsAssumption
  DEF PersistSport, TypeOK, OneRecorder, Goto, Procs, ProcsAssumption, quota
<1>17. ASSUME NEW p \in Procs, PersistEvent(p) PROVE OneRecorder'
  BY <1>17, EndedFacts, ProcsAssumption
  DEF PersistEvent, TypeOK, OneRecorder, Goto, Procs, ProcsAssumption, quota
<1>18. ASSUME NEW p \in Procs, Stamp(p) PROVE OneRecorder'
  BY <1>18, EndedFacts, ProcsAssumption
  DEF Stamp, TypeOK, OneRecorder, Goto, Procs, ProcsAssumption, quota
<1>19. ASSUME NEW p \in Procs, Answer(p, FALSE) PROVE OneRecorder'
  BY <1>19, ProcsAssumption
  DEF Answer, ReadQuota, TypeOK, OneRecorder, Goto, Procs, ProcsAssumption, quota
<1>20. ASSUME NEW p \in Procs, AnswerWithError(p) PROVE OneRecorder'
  BY <1>20, ProcsAssumption
  DEF AnswerWithError, ReadQuota, TypeOK, OneRecorder, Goto, Procs,
      ProcsAssumption, quota
<1>21. ASSUME NEW p \in Procs, NoAnswer(p) PROVE OneRecorder'
  BY <1>21, EndedFacts, ProcsAssumption
  DEF NoAnswer, TypeOK, OneRecorder, Goto, Procs, ProcsAssumption, quota
<1>22. ASSUME NEW p \in Procs, RecordFails(p) PROVE OneRecorder'
  BY <1>22, AfterRecordingFacts, ProcsAssumption
  DEF RecordFails, TypeOK, OneRecorder, Goto, Procs, ProcsAssumption, quota
<1>23. ASSUME NEW p \in Procs, PullFails(p) PROVE OneRecorder'
  BY <1>23, EndedFacts, ProcsAssumption
  DEF PullFails, TypeOK, OneRecorder, Goto, Procs, ProcsAssumption, quota
<1>24. ASSUME NEW p \in Procs, Crash(p) PROVE OneRecorder'
  BY <1>24, ProcsAssumption
  DEF Crash, TypeOK, OneRecorder, Goto, Procs, ProcsAssumption, quota
<1>25. ASSUME NEW c \in Callers, NEW s \in Sports, NEW kind \in {"sport", "event"},
            Manual(c, s, kind) PROVE OneRecorder'
  BY <1>25, ProcsAssumption
  DEF Manual, TypeOK, OneRecorder, Goto, Procs, ProcsAssumption, quota
<1>26. ASSUME NEW new \in Settings, SaveSettings(new) PROVE OneRecorder'
  BY <1>26, ProcsAssumption
  DEF SaveSettings, TypeOK, OneRecorder, Goto, Procs, ProcsAssumption, quota
<1>27. ASSUME NEW s \in Sports, ChangeWatches(s) PROVE OneRecorder'
  BY <1>27, ProcsAssumption
  DEF ChangeWatches, TypeOK, OneRecorder, Goto, Procs, ProcsAssumption, quota
<1>28. MonthlyReset => OneRecorder'
  BY ProcsAssumption
  DEF MonthlyReset, TypeOK, OneRecorder, Goto, Procs, ProcsAssumption, quota
<1>29. Tick => OneRecorder'
  BY ProcsAssumption
  DEF Tick, TypeOK, OneRecorder, Goto, Procs, ProcsAssumption, quota
<1>30. UNCHANGED vars => OneRecorder'
  BY ProcsAssumption
  DEF vars, TypeOK, OneRecorder, Goto, Procs, ProcsAssumption, quota
<1>. QED
  BY <1>1, <1>2, <1>3, <1>4, <1>5, <1>6, <1>7, <1>8, <1>9, <1>10,
     <1>11, <1>12, <1>13, <1>14, <1>15, <1>16, <1>17, <1>18, <1>19, <1>20,
     <1>21, <1>22, <1>23, <1>24, <1>25, <1>26, <1>27, <1>28, <1>29, <1>30
     DEF Next, CycleStep, PullStep, Failure


\* PullsAsked, for one process.
Asked(q) ==
  /\ pc[q] = "stamp" => pull[q].call = "sport"
  /\ q \in Workers => pull[q].call # "event"
  /\ pc[q] \in {"persist", "stamp"} => pull[q].call # "balance"
  /\ pc[q] = "balance" /\ q \in Workers => pull[q].call = "balance"
  /\ pc[q] \in {"lock", "record"} =>
       /\ pull[q].reading.ok => ~pull[q].reading.out
       /\ pull[q].call = "balance" => ~pull[q].reading.out

\* PullsAsked, process by process.
LEMMA PullsAskedOne == PullsAsked => \A q \in Procs : Asked(q)
  BY DEF PullsAsked, Asked, Procs

\* A step that leaves the others alone, and ends the pull of p.
LEMMA EndedAsked ==
  ASSUME TypeOK, PullsAsked, NEW p \in Procs, Ended(p)
  PROVE  PullsAsked'
<1>1. ASSUME NEW q \in Procs PROVE Asked(q)'
  <2>1. CASE q # p
    BY <2>1, PullsAskedOne, EndedFacts DEF Asked
  <2>2. CASE q = p
    <3>1. pc'[p] \in {"idle", "done", "outcome"} /\ pull'[p] = NoPull
      BY EndedFacts DEF Procs
    <3>2. NoPull.call = "sport"
      BY DEF NoPull
    <3>. QED
      BY <2>2, <3>1, <3>2 DEF Asked
  <2>. QED
    BY <2>1, <2>2
<1>. QED
  BY <1>1 DEF PullsAsked, Asked, Procs

\* A recording goes on with what was asked, or ends the pull.
LEMMA RecordedAsked ==
  ASSUME TypeOK, PullsAsked, NEW p \in Procs, AfterRecording(p), pc[p] \in {"lock", "record"}
  PROVE  PullsAsked'
<1>1. CASE ~pull[p].reading.ok
  BY <1>1, EndedAsked DEF AfterRecording
<1>2. CASE pull[p].reading.ok
  <2>1. ASSUME NEW q \in Procs PROVE Asked(q)'
    <3>1. CASE q # p
      BY <3>1, PullsAskedOne, AfterRecordingFacts DEF Asked
    <3>2. CASE q = p
      BY <1>2, <3>2, PullsAskedOne, AfterRecordingFacts DEF Asked
    <3>. QED
      BY <3>1, <3>2
  <2>. QED
    BY <2>1 DEF PullsAsked, Asked, Procs
<1>. QED
  BY <1>1, <1>2

\* An answer is read as what it was asked for.
LEMMA AnsweredAsked ==
  ASSUME TypeOK, PullsAsked, NEW p \in Procs, NEW out \in BOOLEAN, NEW ok \in BOOLEAN,
         NEW headers \in BOOLEAN, ReadQuota(p, out, ok, headers), Goto(p, "ask", "lock"),
         ok => ~out, pull[p].call = "balance" => ~out
  PROVE  PullsAsked'
<1>1. /\ pull \in [Procs -> Pulls] /\ pc \in [Procs -> Pcs]
      /\ pull[p] \in Pulls
  BY DEF TypeOK
<1>2. /\ pull'[p].call = pull[p].call
      /\ pull'[p].reading.ok = ok /\ pull'[p].reading.out = out
  BY <1>1 DEF ReadQuota, Pulls
<1>3. \A q \in Procs : q # p => pull'[q] = pull[q] /\ pc'[q] = pc[q]
  BY <1>1 DEF ReadQuota, Goto
<1>4. pc'[p] = "lock"
  BY <1>1 DEF Goto
<1>5. ASSUME NEW q \in Procs PROVE Asked(q)'
  <2>1. CASE q # p
    BY <2>1, <1>3, PullsAskedOne DEF Asked
  <2>2. CASE q = p
    BY <2>2, <1>2, <1>4, PullsAskedOne DEF Asked
  <2>. QED
    BY <2>1, <2>2
<1>. QED
  BY <1>5 DEF PullsAsked, Asked, Procs


\* A balance check costs nothing and is never refused.
LEMMA RefusedFacts ==
  ASSUME TypeOK, NEW p \in Procs
  PROVE  /\ Refused(p) \in BOOLEAN /\ (~Refused(p)) \in BOOLEAN
         /\ pull[p].call = "balance" => ~Refused(p)
  BY BoundsAssumption, CreditsAssumption DEF Refused, Price, TypeOK, CreditsAssumption


\* Every step preserves PullsAsked.
LEMMA PullsAskedStep ==
  ASSUME TypeOK, PullsAsked, [Next]_vars
  PROVE  PullsAsked'
<1>1. ASSUME NEW w \in Workers, Poll(w) PROVE PullsAsked'
  BY <1>1, ProcsAssumption
  DEF Poll, TypeOK, PullsAsked, Goto, Procs, ProcsAssumption, NoPull
<1>2. ASSUME NEW w \in Workers, ReadSettings(w) PROVE PullsAsked'
  BY <1>2, ProcsAssumption
  DEF ReadSettings, TypeOK, PullsAsked, Goto, Procs, ProcsAssumption, NoPull
<1>3. ASSUME NEW w \in Workers, ReadWatched(w) PROVE PullsAsked'
  BY <1>3, ProcsAssumption
  DEF ReadWatched, TypeOK, PullsAsked, Goto, Procs, ProcsAssumption, NoPull
<1>4. ASSUME NEW w \in Workers, ReadTimes(w) PROVE PullsAsked'
  BY <1>4, ProcsAssumption
  DEF ReadTimes, TypeOK, PullsAsked, Goto, Procs, ProcsAssumption, NoPull
<1>5. ASSUME NEW w \in Workers, CheckPause(w) PROVE PullsAsked'
  BY <1>5, ProcsAssumption
  DEF CheckPause, TypeOK, PullsAsked, Goto, Procs, ProcsAssumption, NoPull
<1>6. ASSUME NEW w \in Workers, ConfirmBalance(w) PROVE PullsAsked'
  BY <1>6, ProcsAssumption
  DEF ConfirmBalance, TypeOK, PullsAsked, Goto, Procs, ProcsAssumption, NoPull
<1>7. ASSUME NEW w \in Workers, NextSport(w) PROVE PullsAsked'
  BY <1>7, ProcsAssumption
  DEF NextSport, TypeOK, PullsAsked, Goto, Procs, ProcsAssumption, NoPull
<1>8. ASSUME NEW w \in Workers, NoMoreSports(w) PROVE PullsAsked'
  BY <1>8, ProcsAssumption
  DEF NoMoreSports, TypeOK, PullsAsked, Goto, Procs, ProcsAssumption, NoPull
<1>9. ASSUME NEW w \in Workers, ReadOutcomeRow(w) PROVE PullsAsked'
  BY <1>9, ProcsAssumption
  DEF ReadOutcomeRow, TypeOK, PullsAsked, Goto, Procs, ProcsAssumption, NoPull
<1>10. ASSUME NEW w \in Workers, WriteOutcome(w) PROVE PullsAsked'
  BY <1>10, ProcsAssumption
  DEF WriteOutcome, TypeOK, PullsAsked, Goto, Procs, ProcsAssumption, NoPull
<1>11. ASSUME NEW w \in Workers, Release(w) PROVE PullsAsked'
  BY <1>11, ProcsAssumption
  DEF Release, TypeOK, PullsAsked, Goto, Procs, ProcsAssumption, NoPull
<1>12. ASSUME NEW w \in Workers, CycleFails(w) PROVE PullsAsked'
  BY <1>12, ProcsAssumption
  DEF CycleFails, TypeOK, PullsAsked, Goto, Procs, ProcsAssumption, NoPull
<1>13. ASSUME NEW p \in Procs, Answer(p, TRUE) PROVE PullsAsked'
  BY <1>13, RefusedFacts, AnsweredAsked DEF Answer
<1>14. ASSUME NEW p \in Procs, LockQuota(p) PROVE PullsAsked'
  BY <1>14, ProcsAssumption
  DEF LockQuota, TypeOK, PullsAsked, Goto, Procs, ProcsAssumption, NoPull
<1>15. ASSUME NEW p \in Procs, Record(p) PROVE PullsAsked'
  BY <1>15, RecordedAsked DEF Record
<1>16. ASSUME NEW p \in Procs, PersistSport(p) PROVE PullsAsked'
  BY <1>16, ProcsAssumption
  DEF PersistSport, TypeOK, PullsAsked, Goto, Procs, ProcsAssumption, NoPull
<1>17. ASSUME NEW p \in Procs, PersistEvent(p) PROVE PullsAsked'
  BY <1>17, EndedAsked DEF PersistEvent
<1>18. ASSUME NEW p \in Procs, Stamp(p) PROVE PullsAsked'
  BY <1>18, EndedAsked DEF Stamp
<1>19. ASSUME NEW p \in Procs, Answer(p, FALSE) PROVE PullsAsked'
  BY <1>19, RefusedFacts, AnsweredAsked DEF Answer
<1>20. ASSUME NEW p \in Procs, AnswerWithError(p) PROVE PullsAsked'
  <2>1. PICK headers \in BOOLEAN : ReadQuota(p, FALSE, FALSE, headers)
    BY <1>20 DEF AnswerWithError
  <2>. QED
    BY <1>20, <2>1, AnsweredAsked DEF AnswerWithError
<1>21. ASSUME NEW p \in Procs, NoAnswer(p) PROVE PullsAsked'
  BY <1>21, EndedAsked DEF NoAnswer
<1>22. ASSUME NEW p \in Procs, RecordFails(p) PROVE PullsAsked'
  BY <1>22, RecordedAsked DEF RecordFails
<1>23. ASSUME NEW p \in Procs, PullFails(p) PROVE PullsAsked'
  BY <1>23, EndedAsked DEF PullFails
<1>24. ASSUME NEW p \in Procs, Crash(p) PROVE PullsAsked'
  BY <1>24, ProcsAssumption
  DEF Crash, TypeOK, PullsAsked, Goto, Procs, ProcsAssumption, NoPull
<1>25. ASSUME NEW c \in Callers, NEW s \in Sports, NEW kind \in {"sport", "event"},
            Manual(c, s, kind) PROVE PullsAsked'
  BY <1>25, ProcsAssumption
  DEF Manual, TypeOK, PullsAsked, Goto, Procs, ProcsAssumption, NoPull
<1>26. ASSUME NEW new \in Settings, SaveSettings(new) PROVE PullsAsked'
  BY <1>26, ProcsAssumption
  DEF SaveSettings, TypeOK, PullsAsked, Goto, Procs, ProcsAssumption, NoPull
<1>27. ASSUME NEW s \in Sports, ChangeWatches(s) PROVE PullsAsked'
  BY <1>27, ProcsAssumption
  DEF ChangeWatches, TypeOK, PullsAsked, Goto, Procs, ProcsAssumption, NoPull
<1>28. MonthlyReset => PullsAsked'
  BY ProcsAssumption
  DEF MonthlyReset, TypeOK, PullsAsked, Goto, Procs, ProcsAssumption, NoPull
<1>29. Tick => PullsAsked'
  BY ProcsAssumption
  DEF Tick, TypeOK, PullsAsked, Goto, Procs, ProcsAssumption, NoPull
<1>30. UNCHANGED vars => PullsAsked'
  BY ProcsAssumption
  DEF vars, TypeOK, PullsAsked, Goto, Procs, ProcsAssumption, NoPull
<1>. QED
  BY <1>1, <1>2, <1>3, <1>4, <1>5, <1>6, <1>7, <1>8, <1>9, <1>10,
     <1>11, <1>12, <1>13, <1>14, <1>15, <1>16, <1>17, <1>18, <1>19, <1>20,
     <1>21, <1>22, <1>23, <1>24, <1>25, <1>26, <1>27, <1>28, <1>29, <1>30
     DEF Next, CycleStep, PullStep, Failure


-----------------------------------------------------------------------------
(* Spacing *)

\* A worker that goes on with what its cycle had.
LEMMA OldKept ==
  ASSUME NEW v \in Workers, OldFor(v), now' = now, automaticAt' = automaticAt,
         setBack \subseteq setBack',
         cycle'[v].due \subseteq cycle[v].due, cycle'[v].asOf = cycle[v].asOf,
         cycle'[v].interval = cycle[v].interval,
         pc'[v] \in Deciding => pc[v] \in Deciding,
         pc'[v] \in Pulling /\ pull'[v].call = "sport" =>
           pc[v] \in Pulling /\ pull[v].call = "sport" /\ pull'[v].sport = pull[v].sport
  PROVE  OldFor(v)'
  BY DEF OldFor

\* Nothing changed for a worker that did not take the step.
LEMMA OldFramed ==
  ASSUME NEW v \in Workers, OldFor(v), now' = now, automaticAt' = automaticAt,
         setBack \subseteq setBack',
         cycle'[v] = cycle[v], pc'[v] = pc[v], pull'[v] = pull[v]
  PROVE  OldFor(v)'
  BY DEF OldFor


\* Every step preserves the order of the stamps.
LEMMA StampsOrderedStep ==
  ASSUME TypeOK, StampsOrdered, StampsRead, [Next]_vars
  PROVE  StampsOrdered'
<1>1. ASSUME NEW w \in Workers, Poll(w) PROVE StampsOrdered'
  BY <1>1, BoundsAssumption
  DEF Poll, TypeOK, StampsOrdered, BoundsAssumption, history, world, None
<1>2. ASSUME NEW w \in Workers, ReadSettings(w) PROVE StampsOrdered'
  BY <1>2, BoundsAssumption
  DEF ReadSettings, TypeOK, StampsOrdered, BoundsAssumption, history, world, None
<1>3. ASSUME NEW w \in Workers, ReadWatched(w) PROVE StampsOrdered'
  BY <1>3, BoundsAssumption
  DEF ReadWatched, TypeOK, StampsOrdered, BoundsAssumption, history, world, None
<1>4. ASSUME NEW w \in Workers, ReadTimes(w) PROVE StampsOrdered'
  BY <1>4, BoundsAssumption
  DEF ReadTimes, TypeOK, StampsOrdered, BoundsAssumption, history, world, None
<1>5. ASSUME NEW w \in Workers, CheckPause(w) PROVE StampsOrdered'
  BY <1>5, BoundsAssumption
  DEF CheckPause, TypeOK, StampsOrdered, BoundsAssumption, history, world, None
<1>6. ASSUME NEW w \in Workers, ConfirmBalance(w) PROVE StampsOrdered'
  BY <1>6, BoundsAssumption
  DEF ConfirmBalance, TypeOK, StampsOrdered, BoundsAssumption, history, world, None
<1>7. ASSUME NEW w \in Workers, NextSport(w) PROVE StampsOrdered'
  BY <1>7, BoundsAssumption
  DEF NextSport, TypeOK, StampsOrdered, BoundsAssumption, history, world, None
<1>8. ASSUME NEW w \in Workers, NoMoreSports(w) PROVE StampsOrdered'
  BY <1>8, BoundsAssumption
  DEF NoMoreSports, TypeOK, StampsOrdered, BoundsAssumption, history, world, None
<1>9. ASSUME NEW w \in Workers, ReadOutcomeRow(w) PROVE StampsOrdered'
  BY <1>9, BoundsAssumption
  DEF ReadOutcomeRow, TypeOK, StampsOrdered, BoundsAssumption, history, world, None
<1>10. ASSUME NEW w \in Workers, WriteOutcome(w) PROVE StampsOrdered'
  BY <1>10, BoundsAssumption
  DEF WriteOutcome, TypeOK, StampsOrdered, BoundsAssumption, history, world, None
<1>11. ASSUME NEW w \in Workers, Release(w) PROVE StampsOrdered'
  BY <1>11, BoundsAssumption
  DEF Release, TypeOK, StampsOrdered, BoundsAssumption, history, world, None
<1>12. ASSUME NEW w \in Workers, CycleFails(w) PROVE StampsOrdered'
  BY <1>12, BoundsAssumption
  DEF CycleFails, TypeOK, StampsOrdered, BoundsAssumption, history, world, None
<1>13. ASSUME NEW p \in Procs, Answer(p, TRUE) PROVE StampsOrdered'
  BY <1>13, BoundsAssumption
  DEF Answer, TypeOK, StampsOrdered, BoundsAssumption, history, world, None
<1>14. ASSUME NEW p \in Procs, LockQuota(p) PROVE StampsOrdered'
  BY <1>14, BoundsAssumption
  DEF LockQuota, TypeOK, StampsOrdered, BoundsAssumption, history, world, None
<1>15. ASSUME NEW p \in Procs, Record(p) PROVE StampsOrdered'
  BY <1>15, BoundsAssumption
  DEF Record, TypeOK, StampsOrdered, BoundsAssumption, history, world, None
<1>16. ASSUME NEW p \in Procs, PersistSport(p) PROVE StampsOrdered'
  BY <1>16, BoundsAssumption
  DEF PersistSport, TypeOK, StampsOrdered, BoundsAssumption, history, world, None
<1>17. ASSUME NEW p \in Procs, PersistEvent(p) PROVE StampsOrdered'
  BY <1>17, BoundsAssumption
  DEF PersistEvent, TypeOK, StampsOrdered, BoundsAssumption, history, world, None
<1>18. ASSUME NEW p \in Procs, Stamp(p) PROVE StampsOrdered'
  <2> DEFINE at == pull[p].at
             sport == pull[p].sport
  <2>1. at \in 0..MaxTime /\ sport \in Sports /\ at <= now /\ now' = now
    BY <1>18 DEF Stamp, StampsRead, TypeOK, Pulls, world
  <2>2. at \in Nat /\ now \in Nat
    BY <2>1, BoundsAssumption DEF BoundsAssumption, TypeOK
  <2>3. /\ refreshedAt' = [refreshedAt EXCEPT ![sport] = at]
        /\ p \in Workers => /\ automaticAt' = [automaticAt EXCEPT ![sport] = at]
                            /\ setBack' = setBack \ {sport}
        /\ p \notin Workers =>
             /\ automaticAt' = automaticAt
             /\ setBack' = IF at < automaticAt[sport] THEN setBack \cup {sport} ELSE setBack
    BY <1>18 DEF Stamp
  <2>4. /\ refreshedAt \in [Sports -> 0..MaxTime \cup {None}]
        /\ automaticAt \in [Sports -> 0..MaxTime \cup {None}]
    BY DEF TypeOK
  <2> HIDE DEF at, sport
  <2>5. ASSUME NEW s \in Sports
        PROVE  automaticAt'[s] <= now' /\ (s \notin setBack' => automaticAt'[s] <= refreshedAt'[s])
    <3>1. /\ automaticAt[s] \in Nat \cup {None} /\ automaticAt[s] <= now
          /\ s \notin setBack => automaticAt[s] <= refreshedAt[s]
      BY <2>4, BoundsAssumption DEF BoundsAssumption, StampsOrdered
    <3>2. CASE p \in Workers
      BY <2>1, <2>2, <2>3, <2>4, <3>1, <3>2 DEF None
    <3>3. CASE p \notin Workers
      BY <2>1, <2>2, <2>3, <2>4, <3>1, <3>3 DEF None
    <3>. QED
      BY <3>2, <3>3
  <2>. QED
    BY <2>5 DEF StampsOrdered
<1>19. ASSUME NEW p \in Procs, Answer(p, FALSE) PROVE StampsOrdered'
  BY <1>19, BoundsAssumption
  DEF Answer, TypeOK, StampsOrdered, BoundsAssumption, history, world, None
<1>20. ASSUME NEW p \in Procs, AnswerWithError(p) PROVE StampsOrdered'
  BY <1>20, BoundsAssumption
  DEF AnswerWithError, TypeOK, StampsOrdered, BoundsAssumption, history, world, None
<1>21. ASSUME NEW p \in Procs, NoAnswer(p) PROVE StampsOrdered'
  BY <1>21, BoundsAssumption
  DEF NoAnswer, TypeOK, StampsOrdered, BoundsAssumption, history, world, None
<1>22. ASSUME NEW p \in Procs, RecordFails(p) PROVE StampsOrdered'
  BY <1>22, BoundsAssumption
  DEF RecordFails, TypeOK, StampsOrdered, BoundsAssumption, history, world, None
<1>23. ASSUME NEW p \in Procs, PullFails(p) PROVE StampsOrdered'
  BY <1>23, BoundsAssumption
  DEF PullFails, TypeOK, StampsOrdered, BoundsAssumption, history, world, None
<1>24. ASSUME NEW p \in Procs, Crash(p) PROVE StampsOrdered'
  BY <1>24, BoundsAssumption
  DEF Crash, TypeOK, StampsOrdered, BoundsAssumption, history, world, None
<1>25. ASSUME NEW c \in Callers, NEW s \in Sports, NEW kind \in {"sport", "event"},
            Manual(c, s, kind) PROVE StampsOrdered'
  BY <1>25, BoundsAssumption
  DEF Manual, TypeOK, StampsOrdered, BoundsAssumption, history, world, None
<1>26. ASSUME NEW new \in Settings, SaveSettings(new) PROVE StampsOrdered'
  BY <1>26, BoundsAssumption
  DEF SaveSettings, TypeOK, StampsOrdered, BoundsAssumption, history, world, None
<1>27. ASSUME NEW s \in Sports, ChangeWatches(s) PROVE StampsOrdered'
  BY <1>27, BoundsAssumption
  DEF ChangeWatches, TypeOK, StampsOrdered, BoundsAssumption, history, world, None
<1>28. MonthlyReset => StampsOrdered'
  BY BoundsAssumption
  DEF MonthlyReset, TypeOK, StampsOrdered, BoundsAssumption, history, world, None
<1>29. Tick => StampsOrdered'
  BY BoundsAssumption
  DEF Tick, TypeOK, StampsOrdered, BoundsAssumption, history, world, None
<1>30. UNCHANGED vars => StampsOrdered'
  BY BoundsAssumption
  DEF vars, TypeOK, StampsOrdered, BoundsAssumption, history, world, None
<1>. QED
  BY <1>1, <1>2, <1>3, <1>4, <1>5, <1>6, <1>7, <1>8, <1>9, <1>10,
     <1>11, <1>12, <1>13, <1>14, <1>15, <1>16, <1>17, <1>18, <1>19, <1>20,
     <1>21, <1>22, <1>23, <1>24, <1>25, <1>26, <1>27, <1>28, <1>29, <1>30
     DEF Next, CycleStep, PullStep, Failure


\* Every step preserves what a cycle knows of its due sports.
LEMMA OldForStep ==
  ASSUME TypeOK, OneCycle, PullsAsked, StampsOrdered, NEW v \in Workers, OldFor(v), [Next]_vars
  PROVE  OldFor(v)'
<1>1. ASSUME NEW w \in Workers, Poll(w) PROVE OldFor(v)'
  <2>1. CASE v # w
    BY <1>1, <2>1, OldFramed DEF Poll, Goto, TypeOK, Procs, history, world
  <2>2. CASE v = w
    <3>1. cycle'[w].asOf = now /\ pc'[w] = "settings"
      BY <1>1 DEF Poll, Goto, TypeOK, Cycles, Procs
    <3>. QED
      BY <1>1, <2>2, <3>1, BoundsAssumption
      DEF BoundsAssumption, Poll, OldFor, Deciding, Pulling, TypeOK, world
  <2>. QED
    BY <2>1, <2>2
<1>2. ASSUME NEW w \in Workers, ReadSettings(w) PROVE OldFor(v)'
  <2>1. CASE v # w
    BY <1>2, <2>1, OldFramed DEF ReadSettings, Goto, TypeOK, Procs, history, world
  <2>2. CASE v = w
    <3>1. cycle'[w].asOf = cycle[w].asOf /\ pc'[w] \in {"watched", "times", "done"}
      BY <1>2 DEF ReadSettings, Goto, TypeOK, Cycles, Procs
    <3>. QED
      BY <1>2, <2>2, <3>1 DEF ReadSettings, OldFor, Deciding, Pulling, world
  <2>. QED
    BY <2>1, <2>2
<1>3. ASSUME NEW w \in Workers, ReadWatched(w) PROVE OldFor(v)'
  <2>1. CASE v # w
    BY <1>3, <2>1, OldFramed DEF ReadWatched, Goto, TypeOK, Procs, history, world
  <2>2. CASE v = w
    <3>1. cycle'[w].asOf = cycle[w].asOf /\ pc'[w] \in {"watched", "times", "done"}
      BY <1>3 DEF ReadWatched, Goto, TypeOK, Cycles, Procs
    <3>. QED
      BY <1>3, <2>2, <3>1 DEF ReadWatched, OldFor, Deciding, Pulling, world
  <2>. QED
    BY <2>1, <2>2
<1>4. ASSUME NEW w \in Workers, ReadTimes(w) PROVE OldFor(v)'
  <2>1. CASE v # w
    BY <1>4, <2>1, OldFramed DEF ReadTimes, Goto, TypeOK, Procs, history, world
  <2>2. CASE v = w
    <3>1. /\ cycle'[w].asOf = cycle[w].asOf /\ cycle'[w].interval = cycle[w].interval
          /\ cycle'[w].due = DueSports(cycle[w].due, cycle[w].interval, cycle[w].asOf)
          /\ pc'[w] \in {"quota", "done"}
      BY <1>4 DEF ReadTimes, Goto, TypeOK, Cycles, Procs
    <3>2. /\ cycle[w].interval \in Nat /\ cycle[w].asOf \in Nat /\ cycle[w].due \subseteq Sports
          /\ now \in Nat
      <4>1. cycle[w] \in Cycles /\ now \in 0..MaxTime
        BY DEF TypeOK
      <4>2. /\ cycle[w].interval \in Intervals /\ cycle[w].asOf \in 0..MaxTime
            /\ cycle[w].due \subseteq Sports
        BY <4>1 DEF Cycles
      <4>3. MaxTime \in Nat /\ Intervals \subseteq Nat
        BY BoundsAssumption, IntervalsAssumption DEF BoundsAssumption, IntervalsAssumption
      <4>4. cycle[w].interval \in Nat
        BY <4>2, <4>3, Zenon
      <4>5. cycle[w].asOf \in Nat /\ now \in Nat
        BY <4>1, <4>2, <4>3
      <4>. QED
        BY <4>2, <4>4, <4>5
    <3>3. ASSUME NEW s \in cycle'[w].due
          PROVE  \/ automaticAt[s] = None \/ s \in setBack
                 \/ automaticAt[s] + cycle[w].interval <= cycle[w].asOf
      <4>1. refreshedAt[s] = None \/ refreshedAt[s] + cycle[w].interval <= cycle[w].asOf
        BY <3>1, <3>3 DEF DueSports
      <4>2. /\ automaticAt[s] \in Nat \cup {None} /\ refreshedAt[s] \in Nat \cup {None}
            /\ s \notin setBack => automaticAt[s] <= refreshedAt[s]
        BY <3>1, <3>2, <3>3, BoundsAssumption
        DEF BoundsAssumption, DueSports, TypeOK, StampsOrdered
      <4>. QED
        BY <3>2, <4>1, <4>2 DEF None
    <3>. QED
      BY <1>4, <2>2, <3>1, <3>3 DEF ReadTimes, OldFor, Pulling, history, world
  <2>. QED
    BY <2>1, <2>2
<1>5. ASSUME NEW w \in Workers, CheckPause(w) PROVE OldFor(v)'
  <2>1. CASE v # w
    BY <1>5, <2>1, OldFramed DEF CheckPause, Goto, TypeOK, Procs, history, world
  <2>2. CASE v = w
    BY <1>5, <2>2, OldKept
    DEF CheckPause, Goto, TypeOK, Procs, history, world, Deciding, Pulling, Cycles, Pulls
  <2>. QED
    BY <2>1, <2>2
<1>6. ASSUME NEW w \in Workers, ConfirmBalance(w) PROVE OldFor(v)'
  <2>1. CASE v # w
    BY <1>6, <2>1, OldFramed DEF ConfirmBalance, Goto, TypeOK, Procs, history, world
  <2>2. CASE v = w
    BY <1>6, <2>2, OldKept
    DEF ConfirmBalance, Goto, TypeOK, Procs, history, world, Deciding, Pulling
  <2>. QED
    BY <2>1, <2>2
<1>7. ASSUME NEW w \in Workers, NextSport(w) PROVE OldFor(v)'
  <2>1. CASE v # w
    BY <1>7, <2>1, OldFramed DEF NextSport, Goto, TypeOK, Procs, history, world
  <2>2. CASE v = w
    <3>1. PICK s \in cycle[w].due :
             /\ pull' = [pull EXCEPT ![w] = [NoPull EXCEPT !.sport = s]]
             /\ cycle' = [cycle EXCEPT ![w].due = @ \ {s}]
      BY <1>7 DEF NextSport
    <3>2. /\ cycle'[w].asOf = cycle[w].asOf /\ cycle'[w].interval = cycle[w].interval
          /\ cycle'[w].due = cycle[w].due \ {s} /\ pull'[w].sport = s
      BY <3>1 DEF TypeOK, Cycles, NoPull, Procs
    <3>. QED
      BY <1>7, <2>2, <3>2 DEF NextSport, Goto, OldFor, Deciding, history, world
  <2>. QED
    BY <2>1, <2>2
<1>8. ASSUME NEW w \in Workers, NoMoreSports(w) PROVE OldFor(v)'
  <2>1. CASE v # w
    BY <1>8, <2>1, OldFramed DEF NoMoreSports, Goto, TypeOK, Procs, history, world
  <2>2. CASE v = w
    BY <1>8, <2>2, OldKept
    DEF NoMoreSports, Goto, TypeOK, Procs, history, world, Deciding, Pulling
  <2>. QED
    BY <2>1, <2>2
<1>9. ASSUME NEW w \in Workers, ReadOutcomeRow(w) PROVE OldFor(v)'
  <2>1. CASE v # w
    BY <1>9, <2>1, OldFramed DEF ReadOutcomeRow, Goto, TypeOK, Procs, history, world
  <2>2. CASE v = w
    BY <1>9, <2>2, OldKept
    DEF ReadOutcomeRow, Goto, TypeOK, Procs, history, world, Deciding, Pulling, Cycles, Pulls
  <2>. QED
    BY <2>1, <2>2
<1>10. ASSUME NEW w \in Workers, WriteOutcome(w) PROVE OldFor(v)'
  <2>1. CASE v # w
    BY <1>10, <2>1, OldFramed DEF WriteOutcome, Goto, TypeOK, Procs, history, world
  <2>2. CASE v = w
    BY <1>10, <2>2, OldKept
    DEF WriteOutcome, Goto, TypeOK, Procs, history, world, Deciding, Pulling, Cycles, Pulls
  <2>. QED
    BY <2>1, <2>2
<1>11. ASSUME NEW w \in Workers, Release(w) PROVE OldFor(v)'
  <2>1. CASE v # w
    BY <1>11, <2>1, OldFramed DEF Release, Goto, TypeOK, Procs, history, world
  <2>2. CASE v = w
    <3>1. cycle'[w].asOf = 0 /\ pc'[w] = "idle"
      BY <1>11 DEF Release, Goto, TypeOK, Procs, NoCycle
    <3>. QED
      BY <1>11, <2>2, <3>1, BoundsAssumption
      DEF BoundsAssumption, Release, OldFor, Deciding, Pulling, TypeOK, world
  <2>. QED
    BY <2>1, <2>2
<1>12. ASSUME NEW w \in Workers, CycleFails(w) PROVE OldFor(v)'
  <2>1. CASE v # w
    BY <1>12, <2>1, OldFramed DEF CycleFails, Goto, TypeOK, Procs, history, world
  <2>2. CASE v = w
    BY <1>12, <2>2, OldKept
    DEF CycleFails, Goto, TypeOK, Procs, history, world, Deciding, Pulling
  <2>. QED
    BY <2>1, <2>2
<1>13. ASSUME NEW p \in Procs, Answer(p, TRUE) PROVE OldFor(v)'
  <2>1. CASE v # p
    BY <1>13, <2>1, OldFramed DEF Answer, Goto, TypeOK, Procs, history, world, ReadQuota
  <2>2. CASE v = p
    BY <1>13, <2>2, OldKept
    DEF Answer, Goto, TypeOK, Procs, history, world, Deciding, Pulling, Pulls, ReadQuota
  <2>. QED
    BY <2>1, <2>2
<1>14. ASSUME NEW p \in Procs, LockQuota(p) PROVE OldFor(v)'
  <2>1. CASE v # p
    BY <1>14, <2>1, OldFramed DEF LockQuota, Goto, TypeOK, Procs, history, world
  <2>2. CASE v = p
    BY <1>14, <2>2, OldKept
    DEF LockQuota, Goto, TypeOK, Procs, history, world, Deciding, Pulling, Pulls
  <2>. QED
    BY <2>1, <2>2
<1>15. ASSUME NEW p \in Procs, Record(p) PROVE OldFor(v)'
  <2>1. CASE v # p
    BY <1>15, <2>1, AfterRecordingFacts, OldFramed DEF Record, Procs, history, world
  <2>2. CASE v = p
    BY <1>15, <2>2, AfterRecordingFacts, OldKept
    DEF Record, Procs, Deciding, Pulling, history, world
  <2>. QED
    BY <2>1, <2>2
<1>16. ASSUME NEW p \in Procs, PersistSport(p) PROVE OldFor(v)'
  <2>1. CASE v # p
    BY <1>16, <2>1, OldFramed DEF PersistSport, Goto, TypeOK, Procs, history, world
  <2>2. CASE v = p
    BY <1>16, <2>2, OldKept
    DEF PersistSport, Goto, TypeOK, Procs, history, world, Deciding, Pulling, Pulls
  <2>. QED
    BY <2>1, <2>2
<1>17. ASSUME NEW p \in Procs, PersistEvent(p) PROVE OldFor(v)'
  <2>1. CASE v # p
    BY <1>17, <2>1, EndedFacts, OldFramed DEF PersistEvent, Procs, history, world
  <2>2. CASE v = p
    BY <1>17, <2>2, EndedFacts, OldKept
    DEF PersistEvent, Procs, Deciding, Pulling, history, world
  <2>. QED
    BY <2>1, <2>2
<1>18. ASSUME NEW p \in Procs, Stamp(p) PROVE OldFor(v)'
  <2>1. CASE p \notin Workers
    BY <1>18, <2>1, EndedFacts, OldFramed DEF Stamp, Procs, history, world
  <2>2. CASE p \in Workers /\ v # p
    <3>1. pc'[v] = "idle" /\ cycle'[v] = cycle[v] /\ now' = now
      BY <1>18, <2>2, EndedFacts DEF Stamp, OneCycle, Procs, world
    <3>. QED
      BY <3>1 DEF OldFor, Deciding, Pulling
  <2>3. CASE p \in Workers /\ v = p
    <3>1. /\ pc'[v] \in {"done", "outcome"} /\ cycle'[v].due = cycle[v].due
          /\ cycle'[v].asOf = cycle[v].asOf /\ cycle'[v].interval = cycle[v].interval
      BY <1>18, <2>3, EndedFacts DEF Stamp
    <3>2. pull[v].sport \notin cycle[v].due
      BY <1>18, <2>3 DEF Stamp, OldFor, Pulling, PullsAsked
    <3>3. \A s \in cycle[v].due : /\ automaticAt'[s] = automaticAt[s]
                                  /\ s \in setBack => s \in setBack'
      BY <1>18, <2>3, <3>2 DEF Stamp, TypeOK, Cycles
    <3>. QED
      BY <1>18, <2>3, <3>1, <3>3 DEF Stamp, OldFor, Deciding, Pulling, world
  <2>. QED
    BY <2>1, <2>2, <2>3
<1>19. ASSUME NEW p \in Procs, Answer(p, FALSE) PROVE OldFor(v)'
  <2>1. CASE v # p
    BY <1>19, <2>1, OldFramed DEF Answer, Goto, TypeOK, Procs, history, world, ReadQuota
  <2>2. CASE v = p
    BY <1>19, <2>2, OldKept
    DEF Answer, Goto, TypeOK, Procs, history, world, Deciding, Pulling, Pulls, ReadQuota
  <2>. QED
    BY <2>1, <2>2
<1>20. ASSUME NEW p \in Procs, AnswerWithError(p) PROVE OldFor(v)'
  <2>1. CASE v # p
    BY <1>20, <2>1, OldFramed
    DEF AnswerWithError, Goto, TypeOK, Procs, history, world, ReadQuota
  <2>2. CASE v = p
    BY <1>20, <2>2, OldKept
    DEF AnswerWithError, Goto, TypeOK, Procs, history, world, Deciding, Pulling, Pulls, ReadQuota
  <2>. QED
    BY <2>1, <2>2
<1>21. ASSUME NEW p \in Procs, NoAnswer(p) PROVE OldFor(v)'
  <2>1. CASE v # p
    BY <1>21, <2>1, EndedFacts, OldFramed DEF NoAnswer, Procs, history, world
  <2>2. CASE v = p
    BY <1>21, <2>2, EndedFacts, OldKept
    DEF NoAnswer, Procs, Deciding, Pulling, history, world
  <2>. QED
    BY <2>1, <2>2
<1>22. ASSUME NEW p \in Procs, RecordFails(p) PROVE OldFor(v)'
  <2>1. CASE v # p
    BY <1>22, <2>1, AfterRecordingFacts, OldFramed DEF RecordFails, Procs, history, world
  <2>2. CASE v = p
    BY <1>22, <2>2, AfterRecordingFacts, OldKept
    DEF RecordFails, Procs, Deciding, Pulling, history, world
  <2>. QED
    BY <2>1, <2>2
<1>23. ASSUME NEW p \in Procs, PullFails(p) PROVE OldFor(v)'
  <2>1. CASE v # p
    BY <1>23, <2>1, EndedFacts, OldFramed DEF PullFails, Procs, history, world
  <2>2. CASE v = p
    BY <1>23, <2>2, EndedFacts, OldKept
    DEF PullFails, Procs, Deciding, Pulling, history, world
  <2>. QED
    BY <2>1, <2>2
<1>24. ASSUME NEW p \in Procs, Crash(p) PROVE OldFor(v)'
  <2>1. CASE v # p
    BY <1>24, <2>1, OldFramed DEF Crash, TypeOK, Procs, history, world
  <2>2. CASE v = p
    <3>1. cycle'[v].asOf = 0 /\ pc'[v] = "idle"
      BY <1>24, <2>2 DEF Crash, TypeOK, Procs, NoCycle
    <3>. QED
      BY <1>24, <3>1, BoundsAssumption
      DEF BoundsAssumption, Crash, OldFor, Deciding, Pulling, TypeOK, world
  <2>. QED
    BY <2>1, <2>2
<1>25. ASSUME NEW c \in Callers, NEW s \in Sports, NEW kind \in {"sport", "event"},
            Manual(c, s, kind) PROVE OldFor(v)'
  <2>1. v # c
    BY ProcsAssumption DEF ProcsAssumption
  <2>. QED
    BY <1>25, <2>1, OldFramed DEF Manual, Goto, TypeOK, Procs, history, world
<1>26. ASSUME NEW new \in Settings, SaveSettings(new) PROVE OldFor(v)'
  BY <1>26, OldFramed DEF SaveSettings, history, world
<1>27. ASSUME NEW s \in Sports, ChangeWatches(s) PROVE OldFor(v)'
  BY <1>27, OldFramed DEF ChangeWatches, history, world
<1>28. MonthlyReset => OldFor(v)'
  BY OldFramed DEF MonthlyReset, history
<1>29. Tick => OldFor(v)'
  BY BoundsAssumption DEF BoundsAssumption, Tick, TypeOK, Cycles, OldFor, history
<1>30. UNCHANGED vars => OldFor(v)'
  BY OldFramed DEF vars, history, world
<1>. QED
  BY <1>1, <1>2, <1>3, <1>4, <1>5, <1>6, <1>7, <1>8, <1>9, <1>10,
     <1>11, <1>12, <1>13, <1>14, <1>15, <1>16, <1>17, <1>18, <1>19, <1>20,
     <1>21, <1>22, <1>23, <1>24, <1>25, <1>26, <1>27, <1>28, <1>29, <1>30
     DEF Next, CycleStep, PullStep, Failure



\* Every step preserves that a stamp's clock has been read.
LEMMA StampsReadStep ==
  ASSUME TypeOK, StampsRead, [Next]_vars
  PROVE  StampsRead'
<1>1. ASSUME NEW w \in Workers, Poll(w) PROVE StampsRead'
  BY <1>1 DEF Poll, TypeOK, StampsRead, Goto, Procs, world
<1>2. ASSUME NEW w \in Workers, ReadSettings(w) PROVE StampsRead'
  BY <1>2 DEF ReadSettings, TypeOK, StampsRead, Goto, Procs, world
<1>3. ASSUME NEW w \in Workers, ReadWatched(w) PROVE StampsRead'
  BY <1>3 DEF ReadWatched, TypeOK, StampsRead, Goto, Procs, world
<1>4. ASSUME NEW w \in Workers, ReadTimes(w) PROVE StampsRead'
  BY <1>4 DEF ReadTimes, TypeOK, StampsRead, Goto, Procs, world
<1>5. ASSUME NEW w \in Workers, CheckPause(w) PROVE StampsRead'
  BY <1>5 DEF CheckPause, TypeOK, StampsRead, Goto, Procs, world, Cycles, Pulls
<1>6. ASSUME NEW w \in Workers, ConfirmBalance(w) PROVE StampsRead'
  BY <1>6 DEF ConfirmBalance, TypeOK, StampsRead, Goto, Procs, world
<1>7. ASSUME NEW w \in Workers, NextSport(w) PROVE StampsRead'
  BY <1>7 DEF NextSport, TypeOK, StampsRead, Goto, Procs, world, NoPull
<1>8. ASSUME NEW w \in Workers, NoMoreSports(w) PROVE StampsRead'
  BY <1>8 DEF NoMoreSports, TypeOK, StampsRead, Goto, Procs, world
<1>9. ASSUME NEW w \in Workers, ReadOutcomeRow(w) PROVE StampsRead'
  BY <1>9 DEF ReadOutcomeRow, TypeOK, StampsRead, Goto, Procs, world
<1>10. ASSUME NEW w \in Workers, WriteOutcome(w) PROVE StampsRead'
  BY <1>10 DEF WriteOutcome, TypeOK, StampsRead, Goto, Procs, world
<1>11. ASSUME NEW w \in Workers, Release(w) PROVE StampsRead'
  BY <1>11 DEF Release, TypeOK, StampsRead, Goto, Procs, world
<1>12. ASSUME NEW w \in Workers, CycleFails(w) PROVE StampsRead'
  BY <1>12 DEF CycleFails, TypeOK, StampsRead, Goto, Procs, world
<1>13. ASSUME NEW p \in Procs, Answer(p, TRUE) PROVE StampsRead'
  BY <1>13 DEF Answer, ReadQuota, TypeOK, StampsRead, Goto, Procs, world
<1>14. ASSUME NEW p \in Procs, LockQuota(p) PROVE StampsRead'
  BY <1>14 DEF LockQuota, TypeOK, StampsRead, Goto, Procs, world
<1>15. ASSUME NEW p \in Procs, Record(p) PROVE StampsRead'
  BY <1>15, AfterRecordingFacts DEF Record, TypeOK, StampsRead, Procs, world
<1>16. ASSUME NEW p \in Procs, PersistSport(p) PROVE StampsRead'
  BY <1>16, BoundsAssumption DEF BoundsAssumption, PersistSport, Pulls, TypeOK, StampsRead, Goto, Procs, world
<1>17. ASSUME NEW p \in Procs, PersistEvent(p) PROVE StampsRead'
  BY <1>17, EndedFacts DEF PersistEvent, TypeOK, StampsRead, Procs, world
<1>18. ASSUME NEW p \in Procs, Stamp(p) PROVE StampsRead'
  BY <1>18, EndedFacts DEF Stamp, TypeOK, StampsRead, Procs, world
<1>19. ASSUME NEW p \in Procs, Answer(p, FALSE) PROVE StampsRead'
  BY <1>19 DEF Answer, ReadQuota, TypeOK, StampsRead, Goto, Procs, world
<1>20. ASSUME NEW p \in Procs, AnswerWithError(p) PROVE StampsRead'
  BY <1>20 DEF AnswerWithError, ReadQuota, TypeOK, StampsRead, Goto, Procs, world
<1>21. ASSUME NEW p \in Procs, NoAnswer(p) PROVE StampsRead'
  BY <1>21, EndedFacts DEF NoAnswer, TypeOK, StampsRead, Procs, world
<1>22. ASSUME NEW p \in Procs, RecordFails(p) PROVE StampsRead'
  BY <1>22, AfterRecordingFacts DEF RecordFails, TypeOK, StampsRead, Procs, world
<1>23. ASSUME NEW p \in Procs, PullFails(p) PROVE StampsRead'
  BY <1>23, EndedFacts DEF PullFails, TypeOK, StampsRead, Procs, world
<1>24. ASSUME NEW p \in Procs, Crash(p) PROVE StampsRead'
  BY <1>24 DEF Crash, TypeOK, StampsRead, Goto, Procs, world
<1>25. ASSUME NEW c \in Callers, NEW s \in Sports, NEW kind \in {"sport", "event"},
            Manual(c, s, kind) PROVE StampsRead'
  BY <1>25 DEF Manual, TypeOK, StampsRead, Goto, Procs, world
<1>26. ASSUME NEW new \in Settings, SaveSettings(new) PROVE StampsRead'
  BY <1>26 DEF SaveSettings, StampsRead, world
<1>27. ASSUME NEW s \in Sports, ChangeWatches(s) PROVE StampsRead'
  BY <1>27 DEF ChangeWatches, StampsRead
<1>28. MonthlyReset => StampsRead'
  BY DEF MonthlyReset, StampsRead
<1>29. Tick => StampsRead'
  BY BoundsAssumption DEF BoundsAssumption, Tick, TypeOK, Pulls, StampsRead
<1>30. UNCHANGED vars => StampsRead'
  BY DEF vars, StampsRead, world
<1>. QED
  BY <1>1, <1>2, <1>3, <1>4, <1>5, <1>6, <1>7, <1>8, <1>9, <1>10,
     <1>11, <1>12, <1>13, <1>14, <1>15, <1>16, <1>17, <1>18, <1>19, <1>20,
     <1>21, <1>22, <1>23, <1>24, <1>25, <1>26, <1>27, <1>28, <1>29, <1>30
     DEF Next, CycleStep, PullStep, Failure

\* The parts of DueIsOld are preserved.
LEMMA DueIsOldStep ==
  ASSUME TypeOK, OneCycle, PullsAsked, DueIsOld, [Next]_vars
  PROVE  DueIsOld'
<1>1. StampsOrdered'
  BY StampsOrderedStep DEF DueIsOld
<1>2. StampsRead'
  BY StampsReadStep DEF DueIsOld
<1>3. ASSUME NEW w \in Workers PROVE OldFor(w)'
  BY OldForStep DEF DueIsOld
<1>. QED
  BY <1>1, <1>2, <1>3 DEF DueIsOld

-----------------------------------------------------------------------------
(* Refusals *)

\* A worker pulls sports and asks for balances, never for events.
LEMMA WorkerAsks ==
  ASSUME TypeOK, PullsAsked, NEW w \in Workers
  PROVE  pull[w].call = "sport" \/ pull[w].call = "balance"
<1>1. pull[w] \in Pulls /\ pull[w].call # "event"
  BY DEF TypeOK, Procs, PullsAsked
<1>. QED
  BY <1>1 DEF Pulls

\* No recording, and no news to a worker that lacks credits.
LEMMA RefusalsFramed ==
  ASSUME TypeOK, RefusalsKnown, refusals' = refusals, faults' = faults, latest' = latest,
         \A w \in Workers : /\ Confident(w)' => Confident(w)
                            /\ Refusal(w) => Refusal(w)'
  PROVE  RefusalsKnown'
  BY DEF RefusalsKnown, RefusedOnce, IsPaused

\* A fault pays for the refusal it may lose.
LEMMA FaultCounted ==
  ASSUME TypeOK, RefusalsKnown, refusals' = refusals, Fault
  PROVE  RefusalsKnown'
<1>1. refusals \in Nat /\ faults \in Nat
  BY BoundsAssumption DEF BoundsAssumption, TypeOK
<1>2. refusals' <= faults'
  BY <1>1 DEF Fault, RefusalsKnown, RefusedOnce
<1>. QED
  BY <1>1, <1>2 DEF Fault, RefusalsKnown, RefusedOnce

\* The worker that goes on because the recorded balance shows credits.
LEMMA ConfidenceGained ==
  ASSUME TypeOK, OneCycle, RefusalsKnown, NEW w \in Workers, pc[w] \in {"quota", "balance"},
         ~IsPaused(latest), refusals' = refusals, faults' = faults
  PROVE  RefusalsKnown'
<1>1. \A v \in Workers : ~Refusal(v)
  BY DEF OneCycle, Refusal
<1>2. refusals <= faults
  BY <1>1 DEF RefusalsKnown
<1>3. refusals \in Nat /\ faults \in Nat
  BY BoundsAssumption DEF BoundsAssumption, TypeOK
<1>. QED
  BY <1>2, <1>3 DEF RefusalsKnown, RefusedOnce

\* A recording: it shows credits, or the refusal of its own pull.
LEMMA RecordedRefusals ==
  ASSUME TypeOK, OneCycle, PullsAsked, RefusalsKnown, NEW p \in Procs, Record(p)
  PROVE  RefusalsKnown'
<1>1. refusals \in Nat /\ faults \in Nat /\ faults' = faults
  BY BoundsAssumption DEF BoundsAssumption, TypeOK, Record, bounds
<1>2. CASE ~IsPaused(latest')
  BY <1>1, <1>2 DEF Record, RefusalsKnown, RefusedOnce
<1>3. CASE IsPaused(latest')
  <2>1. refusals' = refusals
    BY <1>3 DEF Record
  <2>2. ASSUME NEW w \in Workers PROVE Confident(w)' => Confident(w)
    <3>1. CASE w # p
      BY <3>1, AfterRecordingFacts DEF Record, Confident, Refusal, Procs
    <3>2. CASE w = p /\ pull[p].reading.ok
      <4>1. pc'[p] = IF pull[p].call = "balance" THEN "balance" ELSE "persist"
        BY <3>2, AfterRecordingFacts DEF Record
      <4>2. pc[p] = "record" /\ ~pull[p].reading.out
        BY <3>2, PullsAskedOne DEF Record, Asked
      <4>. QED
        BY <3>2, <4>1, <4>2, WorkerAsks DEF Confident, Refusal
    <3>3. CASE w = p /\ ~pull[p].reading.ok
      <4>1. pc'[p] \in {"done", "outcome"} /\ cycle'[p].out = pull[p].reading.out
        BY <3>3, AfterRecordingFacts DEF Record
      <4>2. CASE pull[p].call = "sport"
        BY <3>3, <4>1, <4>2 DEF Record, Confident, Refusal
      <4>3. CASE pull[p].call # "sport"
        <5>1. pull[p].call = "balance"
          BY <3>3, <4>3, WorkerAsks
        <5>2. pc'[p] = "done"
          BY <3>3, <5>1, ProcsAssumption
          DEF ProcsAssumption, Record, AfterRecording, Ended, TypeOK
        <5>. QED
          BY <3>3, <5>2 DEF Confident
      <4>. QED
        BY <4>2, <4>3
    <3>. QED
      BY <3>1, <3>2, <3>3
  <2>. QED
    BY <1>1, <1>3, <2>1, <2>2 DEF RefusalsKnown, RefusedOnce, IsPaused
<1>. QED
  BY <1>2, <1>3

\* An answer with the credit headers: only a confident worker is refused.
LEMMA AnsweredRefusals ==
  ASSUME TypeOK, OneCycle, PullsAsked, RefusalsKnown, NEW p \in Procs, Answer(p, TRUE)
  PROVE  RefusalsKnown'
<1>1. refusals \in Nat /\ faults \in Nat /\ faults' = faults /\ latest' = latest
  BY BoundsAssumption DEF BoundsAssumption, TypeOK, Answer, quota
<1>2. /\ \A q \in Procs : q # p => pull'[q] = pull[q] /\ pc'[q] = pc[q]
      /\ pc[p] = "ask" /\ pc'[p] = "lock" /\ cycle' = cycle
  BY DEF Answer, ReadQuota, Goto, TypeOK
<1>3. pull'[p].call = pull[p].call /\ pull'[p].reading.out = Refused(p)
  <2>1. pull[p] \in Pulls
    BY DEF TypeOK
  <2>. QED
    BY <2>1 DEF Answer, ReadQuota, TypeOK, Pulls
<1>4. CASE p \in Workers /\ Refused(p)
  <2>1. Confident(p)
    BY <1>2, <1>4, RefusedFacts, WorkerAsks DEF Confident, Refusal
  <2>2. ASSUME NEW w \in Workers, w # p PROVE pc'[w] = "idle"
    BY <1>2, <1>4, <2>2 DEF OneCycle, Procs
  <2>3. Refusal(p)'
    BY <1>2, <1>3, <1>4 DEF Refusal
  <2>4. \A w \in Workers : ~Confident(w)'
    BY <1>2, <2>2, <2>3 DEF Confident
  <2>5. refusals <= faults /\ refusals' = refusals + 1
    BY <1>4, <2>1 DEF RefusalsKnown, Answer
  <2>. QED
    BY <1>1, <1>4, <2>3, <2>4, <2>5 DEF RefusalsKnown, RefusedOnce
<1>5. CASE ~(p \in Workers /\ Refused(p))
  <2>1. refusals' = refusals
    BY <1>5 DEF Answer
  <2>2. ASSUME NEW w \in Workers
        PROVE  (Confident(w)' => Confident(w)) /\ (Refusal(w) => Refusal(w)')
    <3>1. CASE w # p
      BY <1>2, <3>1 DEF Confident, Refusal, Procs
    <3>2. CASE w = p
      BY <1>2, <1>3, <3>2 DEF Confident, Refusal
    <3>. QED
      BY <3>1, <3>2
  <2>. QED
    BY <1>1, <2>1, <2>2, RefusalsFramed
<1>. QED
  BY <1>4, <1>5

\* An answer without the headers is a fault, and pays for a refusal.
LEMMA LostHeadersRefusals ==
  ASSUME TypeOK, PullsAsked, RefusalsKnown, NEW p \in Procs, Answer(p, FALSE)
  PROVE  RefusalsKnown'
<1>1. refusals \in Nat /\ faults \in Nat
  BY BoundsAssumption DEF BoundsAssumption, TypeOK
<1>2. Fault
  BY DEF Answer
<1>3. CASE ~(p \in Workers /\ Refused(p))
  BY <1>2, <1>3, FaultCounted DEF Answer
<1>4. CASE p \in Workers /\ Refused(p)
  <2>1. pc[p] = "ask"
    BY DEF Answer, Goto
  <2>2. Confident(p)
    BY <1>4, <2>1, RefusedFacts, WorkerAsks DEF Confident, Refusal
  <2>3. refusals <= faults /\ refusals' = refusals + 1
    BY <1>4, <2>2 DEF RefusalsKnown, Answer
  <2>. QED
    BY <1>1, <1>2, <2>3 DEF Fault, RefusalsKnown, RefusedOnce
<1>. QED
  BY <1>3, <1>4


\* Every step preserves RefusalsKnown.
LEMMA RefusalsKnownStep ==
  ASSUME TypeOK, OneCycle, PullsAsked, RefusalsKnown, [Next]_vars
  PROVE  RefusalsKnown'
<1>1. ASSUME NEW w \in Workers, Poll(w) PROVE RefusalsKnown'
  <2>1. ASSUME NEW v \in Workers
        PROVE  (Confident(v)' => Confident(v)) /\ (Refusal(v) => Refusal(v)')
    BY <1>1 DEF Poll, Confident, Refusal, Goto, TypeOK, Procs
  <2>. QED
    BY <1>1, <2>1, RefusalsFramed DEF Poll, quota, bounds, history
<1>2. ASSUME NEW w \in Workers, ReadSettings(w) PROVE RefusalsKnown'
  <2>1. ASSUME NEW v \in Workers
        PROVE  (Confident(v)' => Confident(v)) /\ (Refusal(v) => Refusal(v)')
    BY <1>2 DEF ReadSettings, Confident, Refusal, Goto, TypeOK, Procs
  <2>. QED
    BY <1>2, <2>1, RefusalsFramed DEF ReadSettings, quota, bounds, history
<1>3. ASSUME NEW w \in Workers, ReadWatched(w) PROVE RefusalsKnown'
  <2>1. ASSUME NEW v \in Workers
        PROVE  (Confident(v)' => Confident(v)) /\ (Refusal(v) => Refusal(v)')
    BY <1>3 DEF ReadWatched, Confident, Refusal, Goto, TypeOK, Procs
  <2>. QED
    BY <1>3, <2>1, RefusalsFramed DEF ReadWatched, quota, bounds, history
<1>4. ASSUME NEW w \in Workers, ReadTimes(w) PROVE RefusalsKnown'
  <2>1. ASSUME NEW v \in Workers
        PROVE  (Confident(v)' => Confident(v)) /\ (Refusal(v) => Refusal(v)')
    BY <1>4 DEF ReadTimes, Confident, Refusal, Goto, TypeOK, Procs
  <2>. QED
    BY <1>4, <2>1, RefusalsFramed DEF ReadTimes, quota, bounds, history
<1>5. ASSUME NEW w \in Workers, CheckPause(w) PROVE RefusalsKnown'
  <2>1. CASE IsPaused(latest)
    <3>1. ASSUME NEW v \in Workers
          PROVE  (Confident(v)' => Confident(v)) /\ (Refusal(v) => Refusal(v)')
      BY <1>5, <2>1 DEF CheckPause, Confident, Refusal, Goto, TypeOK, Procs, Pulls
    <3>. QED
      BY <1>5, <3>1, RefusalsFramed DEF CheckPause, quota, bounds, history
  <2>2. CASE ~IsPaused(latest)
    BY <1>5, <2>2, ConfidenceGained DEF CheckPause, Goto, bounds, history
  <2>. QED
    BY <2>1, <2>2
<1>6. ASSUME NEW w \in Workers, ConfirmBalance(w) PROVE RefusalsKnown'
  <2>1. CASE IsPaused(latest)
    <3>1. ASSUME NEW v \in Workers
          PROVE  (Confident(v)' => Confident(v)) /\ (Refusal(v) => Refusal(v)')
      BY <1>6, <2>1 DEF ConfirmBalance, Confident, Refusal, Goto, TypeOK, Procs
    <3>. QED
      BY <1>6, <3>1, RefusalsFramed DEF ConfirmBalance, quota, bounds, history
  <2>2. CASE ~IsPaused(latest)
    BY <1>6, <2>2, ConfidenceGained DEF ConfirmBalance, Goto, bounds, history
  <2>. QED
    BY <2>1, <2>2
<1>7. ASSUME NEW w \in Workers, NextSport(w) PROVE RefusalsKnown'
  <2>1. ASSUME NEW v \in Workers
        PROVE  (Confident(v)' => Confident(v)) /\ (Refusal(v) => Refusal(v)')
    BY <1>7 DEF NextSport, Confident, Refusal, Goto, TypeOK, Procs
  <2>. QED
    BY <1>7, <2>1, RefusalsFramed DEF NextSport, quota, bounds, history
<1>8. ASSUME NEW w \in Workers, NoMoreSports(w) PROVE RefusalsKnown'
  <2>1. ASSUME NEW v \in Workers
        PROVE  (Confident(v)' => Confident(v)) /\ (Refusal(v) => Refusal(v)')
    BY <1>8 DEF NoMoreSports, Confident, Refusal, Goto, TypeOK, Procs
  <2>. QED
    BY <1>8, <2>1, RefusalsFramed DEF NoMoreSports, quota, bounds, history
<1>9. ASSUME NEW w \in Workers, ReadOutcomeRow(w) PROVE RefusalsKnown'
  <2>1. ASSUME NEW v \in Workers
        PROVE  (Confident(v)' => Confident(v)) /\ (Refusal(v) => Refusal(v)')
    BY <1>9 DEF ReadOutcomeRow, Confident, Refusal, Goto, TypeOK, Procs, Cycles
  <2>. QED
    BY <1>9, <2>1, RefusalsFramed DEF ReadOutcomeRow, quota, bounds, history
<1>10. ASSUME NEW w \in Workers, WriteOutcome(w) PROVE RefusalsKnown'
  <2>1. ASSUME NEW v \in Workers
        PROVE  (Confident(v)' => Confident(v)) /\ (Refusal(v) => Refusal(v)')
    BY <1>10 DEF WriteOutcome, Confident, Refusal, Goto, TypeOK, Procs, Cycles
  <2>. QED
    BY <1>10, <2>1, RefusalsFramed DEF WriteOutcome, quota, bounds, history
<1>11. ASSUME NEW w \in Workers, Release(w) PROVE RefusalsKnown'
  <2>1. ASSUME NEW v \in Workers
        PROVE  (Confident(v)' => Confident(v)) /\ (Refusal(v) => Refusal(v)')
    BY <1>11 DEF Release, Confident, Refusal, Goto, TypeOK, Procs
  <2>. QED
    BY <1>11, <2>1, RefusalsFramed DEF Release, quota, bounds, history
<1>12. ASSUME NEW w \in Workers, CycleFails(w) PROVE RefusalsKnown'
  BY <1>12, FaultCounted DEF CycleFails, history
<1>13. ASSUME NEW p \in Procs, Answer(p, TRUE) PROVE RefusalsKnown'
  BY <1>13, AnsweredRefusals
<1>14. ASSUME NEW p \in Procs, LockQuota(p) PROVE RefusalsKnown'
  <2>1. ASSUME NEW v \in Workers
        PROVE  (Confident(v)' => Confident(v)) /\ (Refusal(v) => Refusal(v)')
    BY <1>14 DEF LockQuota, Confident, Refusal, Goto, TypeOK, Procs, Pulls
  <2>. QED
    BY <1>14, <2>1, RefusalsFramed DEF LockQuota, quota, bounds, history
<1>15. ASSUME NEW p \in Procs, Record(p) PROVE RefusalsKnown'
  BY <1>15, RecordedRefusals
<1>16. ASSUME NEW p \in Procs, PersistSport(p) PROVE RefusalsKnown'
  <2>1. ASSUME NEW v \in Workers
        PROVE  (Confident(v)' => Confident(v)) /\ (Refusal(v) => Refusal(v)')
    BY <1>16 DEF PersistSport, Confident, Refusal, Goto, TypeOK, Procs
  <2>. QED
    BY <1>16, <2>1, RefusalsFramed DEF PersistSport, quota, bounds, history
<1>17. ASSUME NEW p \in Procs, PersistEvent(p) PROVE RefusalsKnown'
  <2>1. ASSUME NEW v \in Workers
        PROVE  (Confident(v)' => Confident(v)) /\ (Refusal(v) => Refusal(v)')
    BY <1>17, EndedFacts DEF PersistEvent, Confident, Refusal, Goto, TypeOK, Procs
  <2>. QED
    BY <1>17, <2>1, RefusalsFramed DEF PersistEvent, quota, bounds, history
<1>18. ASSUME NEW p \in Procs, Stamp(p) PROVE RefusalsKnown'
  <2>1. ASSUME NEW v \in Workers
        PROVE  (Confident(v)' => Confident(v)) /\ (Refusal(v) => Refusal(v)')
    BY <1>18, EndedFacts DEF Stamp, Confident, Refusal, Goto, TypeOK, Procs
  <2>. QED
    BY <1>18, <2>1, RefusalsFramed DEF Stamp, quota, bounds, history
<1>19. ASSUME NEW p \in Procs, Answer(p, FALSE) PROVE RefusalsKnown'
  BY <1>19, LostHeadersRefusals
<1>20. ASSUME NEW p \in Procs, AnswerWithError(p) PROVE RefusalsKnown'
  BY <1>20, FaultCounted DEF AnswerWithError, history
<1>21. ASSUME NEW p \in Procs, NoAnswer(p) PROVE RefusalsKnown'
  BY <1>21, FaultCounted DEF NoAnswer, history
<1>22. ASSUME NEW p \in Procs, RecordFails(p) PROVE RefusalsKnown'
  BY <1>22, FaultCounted DEF RecordFails, history
<1>23. ASSUME NEW p \in Procs, PullFails(p) PROVE RefusalsKnown'
  BY <1>23, FaultCounted DEF PullFails, history
<1>24. ASSUME NEW p \in Procs, Crash(p) PROVE RefusalsKnown'
  BY <1>24, FaultCounted DEF Crash, history
<1>25. ASSUME NEW c \in Callers, NEW s \in Sports, NEW kind \in {"sport", "event"},
            Manual(c, s, kind) PROVE RefusalsKnown'
  <2>1. ASSUME NEW v \in Workers
        PROVE  (Confident(v)' => Confident(v)) /\ (Refusal(v) => Refusal(v)')
    BY <1>25, ProcsAssumption
    DEF Manual, Confident, Refusal, Goto, TypeOK, Procs, ProcsAssumption
  <2>. QED
    BY <1>25, <2>1, RefusalsFramed DEF Manual, quota, bounds, history
<1>26. ASSUME NEW new \in Settings, SaveSettings(new) PROVE RefusalsKnown'
  <2>1. ASSUME NEW v \in Workers
        PROVE  (Confident(v)' => Confident(v)) /\ (Refusal(v) => Refusal(v)')
    BY <1>26 DEF SaveSettings, Confident, Refusal, Goto, TypeOK, Procs
  <2>. QED
    BY <1>26, <2>1, RefusalsFramed DEF SaveSettings, quota, bounds, history
<1>27. ASSUME NEW s \in Sports, ChangeWatches(s) PROVE RefusalsKnown'
  <2>1. ASSUME NEW v \in Workers
        PROVE  (Confident(v)' => Confident(v)) /\ (Refusal(v) => Refusal(v)')
    BY <1>27 DEF ChangeWatches, Confident, Refusal, Goto, TypeOK, Procs
  <2>. QED
    BY <1>27, <2>1, RefusalsFramed DEF ChangeWatches, quota, bounds, history
<1>28. MonthlyReset => RefusalsKnown'
  BY RefusalsFramed DEF MonthlyReset, Confident, Refusal, quota, bounds, history
<1>29. Tick => RefusalsKnown'
  BY RefusalsFramed DEF Tick, Confident, Refusal, quota, bounds, history
<1>30. UNCHANGED vars => RefusalsKnown'
  BY RefusalsFramed DEF vars, Confident, Refusal, quota, bounds, history
<1>. QED
  BY <1>1, <1>2, <1>3, <1>4, <1>5, <1>6, <1>7, <1>8, <1>9, <1>10,
     <1>11, <1>12, <1>13, <1>14, <1>15, <1>16, <1>17, <1>18, <1>19, <1>20,
     <1>21, <1>22, <1>23, <1>24, <1>25, <1>26, <1>27, <1>28, <1>29, <1>30
     DEF Next, CycleStep, PullStep, Failure


-----------------------------------------------------------------------------
(* The theorems *)

\* The initial states satisfy the inductive invariant.
LEMMA InitIInv == Init => IInv
<1> SUFFICES ASSUME Init PROVE IInv
  OBVIOUS
<1>1. TypeOK
  BY LocalTypes, BoundsAssumption DEF BoundsAssumption, Init, TypeOK, Pcs
<1>2. OneCycle
  BY ProcsAssumption DEF ProcsAssumption, Init, OneCycle, Procs
<1>3. OneRecorder
  BY DEF Init, OneRecorder
<1>4. PullsAsked
  BY DEF Init, PullsAsked, NoPull, Procs
<1>5. DueIsOld
  BY DEF Init, DueIsOld, StampsOrdered, StampsRead, OldFor, Deciding, Pulling, NoCycle, Procs, None
<1>6. RefusalsKnown
  <2>1. \A w \in Workers : ~Confident(w)
    BY DEF Init, Confident, Procs
  <2>. QED
    BY <2>1 DEF Init, RefusalsKnown, RefusedOnce
<1>. QED
  BY <1>1, <1>2, <1>3, <1>4, <1>5, <1>6 DEF IInv

\* The inductive invariant holds of every behaviour.
THEOREM Invariance == Spec => []IInv
<1>1. IInv /\ [Next]_vars => IInv'
  <2> SUFFICES ASSUME IInv, [Next]_vars PROVE IInv'
    OBVIOUS
  <2>1. TypeOK' /\ OneCycle' /\ OneRecorder' /\ PullsAsked'
    BY TypeStep, OneCycleStep, OneRecorderStep, PullsAskedStep DEF IInv
  <2>2. DueIsOld' /\ RefusalsKnown'
    BY DueIsOldStep, RefusalsKnownStep DEF IInv
  <2>. QED
    BY <2>1, <2>2 DEF IInv
<1>. QED
  BY InitIInv, <1>1, PTL DEF Spec

\* Every variable keeps its type (the recorded balance is never negative).
THEOREM TypeCorrect == Spec => []TypeOK
<1>1. IInv => TypeOK
  BY DEF IInv
<1>. QED
  BY <1>1, Invariance, PTL

\* Out of credits, Auto-Refresh is refused once, and once more for each fault
\* (auto_refresh_service.py:106-108).
THEOREM RefusedAtMostOnce == Spec => []RefusedOnce
<1>1. IInv => RefusedOnce
  BY DEF IInv, RefusalsKnown
<1>. QED
  BY <1>1, Invariance, PTL

\* Automatic pulls of a sport are an interval apart, however many workers poll
\* (auto_refresh_uow.py:165), except where a manual pull has set the sport's
\* stamp back (quote_ingestion_service.py:233).
THEOREM Spacing == Spec => AutomaticPullsSpaced
<1>1. ASSUME IInv, NEW w \in Workers, NextSport(w)
      PROVE  LET s == pull'[w].sport
             IN  \/ automaticAt[s] = None \/ s \in setBack
                 \/ automaticAt[s] + cycle[w].interval <= now
  <2>1. PICK s \in cycle[w].due : pull' = [pull EXCEPT ![w] = [NoPull EXCEPT !.sport = s]]
    BY <1>1 DEF NextSport
  <2>2. pull'[w].sport = s
    BY <1>1, <2>1 DEF IInv, TypeOK, Procs, NoPull
  <2>3. /\ \/ automaticAt[s] = None \/ s \in setBack
           \/ automaticAt[s] + cycle[w].interval <= cycle[w].asOf
        /\ cycle[w].asOf <= now
    BY <1>1, <2>1 DEF IInv, DueIsOld, OldFor, NextSport, Goto, Deciding
  <2>4. cycle[w] \in Cycles /\ now \in 0..MaxTime
    BY <1>1 DEF IInv, TypeOK
  <2>5. s \in Sports /\ cycle[w].asOf \in 0..MaxTime /\ cycle[w].interval \in Intervals
    BY <2>1, <2>4 DEF Cycles
  <2>6. MaxTime \in Nat /\ Intervals \subseteq Nat
    BY BoundsAssumption, IntervalsAssumption DEF BoundsAssumption, IntervalsAssumption
  <2>7. automaticAt[s] \in 0..MaxTime \cup {None}
    BY <1>1, <2>5 DEF IInv, TypeOK
  <2>8. cycle[w].interval \in Nat
    BY <2>5, <2>6, Zenon
  <2>9. cycle[w].asOf \in Nat /\ now \in Nat /\ automaticAt[s] \in Nat \cup {None}
    BY <2>4, <2>5, <2>6, <2>7
  <2>10. \/ automaticAt[s] = None \/ s \in setBack
         \/ automaticAt[s] + cycle[w].interval <= now
    BY <2>3, <2>8, <2>9 DEF None
  <2>. QED
    BY <2>2, <2>10
<1>2. IInv => \A w \in Workers : NextSport(w) =>
                LET s == pull'[w].sport
                IN  \/ automaticAt[s] = None \/ s \in setBack
                    \/ automaticAt[s] + cycle[w].interval <= now
  BY <1>1
<1>. QED
  BY <1>2, Invariance, PTL DEF AutomaticPullsSpaced

\* Each recorded crossing of the floor, and nothing else, writes one warning
\* (quota_service.py:12-13).
THEOREM Warnings == Spec => WarnedOnCrossing
<1>1. ASSUME IInv, NEW p \in Procs, Record(p)
      PROVE  warnings' = warnings +
               (IF ShouldWarn(latest, latest', Floor(pull[p].floor, latest')) THEN 1 ELSE 0)
  <2>1. pull[p].previous = latest
    BY <1>1 DEF IInv, OneRecorder, Record
  <2>2. warnings \in Nat
    BY <1>1 DEF IInv, TypeOK
  <2>3. warnings' = IF ShouldWarn(latest, latest', Floor(pull[p].floor, latest'))
                    THEN warnings + 1 ELSE warnings
    BY <1>1, <2>1 DEF Record
  <2>. QED
    BY <2>2, <2>3
<1>2. IInv => [LET crossed(p) == ShouldWarn(latest, latest', Floor(pull[p].floor, latest'))
               IN  \A p \in Procs : Record(p) =>
                     warnings' = warnings + (IF crossed(p) THEN 1 ELSE 0)]_vars
  BY <1>1
<1>. QED
  BY <1>2, Invariance, PTL DEF WarnedOnCrossing
=============================================================================
