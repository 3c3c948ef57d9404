----------------------------- MODULE AutoRefresh -----------------------------
(* Auto-Refresh and the credits it spends: the workers' cycle, the operator's  *)
(* switch, the manual pulls of the API, the upstream provider's balance and    *)
(* the observations recorded of it.                                            *)
(*                                                                             *)
(* A worker polls; the one that gets the cycle lock reads the settings, the    *)
(* watched sports and the time each was last pulled, asks whether credits are  *)
(* left, and pulls the sports that are due. Every upstream answer is recorded  *)
(* under the quota lock, which is where the quota warning is written. The      *)
(* database statements of a step are one action unless another process can     *)
(* come between them; a transaction that only writes one row is one action.    *)
EXTENDS Integers

CONSTANTS
  Workers,      \* processes running auto_refresh_worker
  Callers,      \* API requests for a refresh (coalesced ones count as one)
  Sports,
  Intervals,    \* the intervals an operator may choose, in ticks
  DefaultInterval,
  Floors,       \* the floors an operator may choose; None derives one
  Plan,         \* credits of a month
  Cost,         \* credits of a paid call: markets x regions
  FloorPercent, \* DEFAULT_FLOOR_PERCENT
  MaxTime,      \* bound on the clock
  MaxPuts,      \* bound on the operator's PUTs
  MaxManual,    \* bound on the manual pulls
  MaxFaults     \* bound on failures and crashes

None == -1      \* SQL's NULL and a header that is missing; amounts are naturals
Free == "free"
Procs == Workers \cup Callers

ASSUME ProcsAssumption == Workers \cap Callers = {} /\ Free \notin Procs
ASSUME SportsAssumption == Sports # {}
ASSUME IntervalsAssumption ==
  Intervals \subseteq Nat \ {0} /\ DefaultInterval \in Intervals
ASSUME FloorsAssumption == Floors \subseteq Nat \cup {None} /\ None \in Floors
ASSUME CreditsAssumption ==
  Plan \in Nat /\ Cost \in Nat \ {0} /\ FloorPercent \in 0..100
ASSUME BoundsAssumption ==
  MaxTime \in Nat /\ MaxPuts \in Nat /\ MaxManual \in Nat /\ MaxFaults \in Nat

VARIABLES
  now,          \* the clock
  settings,     \* the auto_refresh_settings row: enabled, interval, floor
  asked,        \* history: what the operator last PUT
  watched,      \* the sports with a watch the evaluator will act on
  refreshedAt,  \* sport_refreshes: when each sport was last pulled
  credits,      \* external: the balance the provider keeps
  latest,       \* the newest quota observation
  warnings,     \* the quota warnings in the public-events outbox
  cycleLock,    \* holder of the advisory lock of a cycle
  quotaLock,    \* holder of the advisory lock of the recorders
  pc,
  cycle,        \* a worker's locals: Cycles
  pull,         \* the locals of a pull: Pulls
  puts, manual, faults,
  refusals,     \* history: automatic pulls refused since credits were last seen
  automaticAt,  \* history: the clock each sport's last automatic pull stamped
  setBack       \* history: sports whose automatic stamp a manual pull set back since

quota   == <<latest, warnings, quotaLock>>
bounds  == <<puts, manual, faults>>
history == <<asked, refusals, automaticAt, setBack>>
world   == <<now, watched, credits>>
vars == <<settings, refreshedAt, cycleLock, pc, cycle, pull, quota, bounds,
          history, world>>

Pcs == {"idle", "settings", "watched", "times", "quota", "balance", "next", "ask",
        "lock", "record", "persist", "stamp", "outcome", "write", "done"}
Settings == [enabled: BOOLEAN, interval: Intervals, floor: Floors]
Observations == [remaining: Nat \cup {None}, used: Nat \cup {None},
                 out: BOOLEAN, at: Nat \cup {None}]
\* What the provider's answer said of the credits.
Readings == [remaining: Nat \cup {None}, used: Nat \cup {None}, cost: Nat,
             out: BOOLEAN, ok: BOOLEAN, at: Nat]

\* asOf: when the cycle started; interval: the one it read; due: the sports it has
\* still to pull; out: its last pull was refused; carried: what record_outcome read.
Cycles == [asOf: 0..MaxTime, interval: Intervals, due: SUBSET Sports, out: BOOLEAN,
           carried: Settings]

\* call: what the provider is asked for; previous, floor: read under the quota lock;
\* at: the clock the stamp will carry.
Pulls == [call: {"sport", "event", "balance"}, sport: Sports, reading: Readings,
          previous: Observations, floor: Floors, at: 0..MaxTime]

\* No row in quota_observations yet.
Unobserved == [remaining |-> None, used |-> None, out |-> FALSE, at |-> None]

\* The locals of a process that is not in a cycle, or not in a pull.
NoSettings == [enabled |-> FALSE, interval |-> DefaultInterval, floor |-> None]
NoCycle == [asOf |-> 0, interval |-> DefaultInterval, due |-> {}, out |-> FALSE,
            carried |-> NoSettings]
NoPull == [call |-> "sport", sport |-> CHOOSE s \in Sports : TRUE,
           reading |-> [remaining |-> None, used |-> None, cost |-> 0,
                        out |-> FALSE, ok |-> FALSE, at |-> 0],
           previous |-> Unobserved, floor |-> None, at |-> 0]

TypeOK ==
  /\ now \in 0..MaxTime /\ credits \in 0..Plan
  /\ settings \in Settings /\ asked \in Settings
  /\ watched \subseteq Sports
  /\ refreshedAt \in [Sports -> 0..MaxTime \cup {None}]
  /\ latest \in Observations /\ warnings \in Nat
  /\ cycleLock \in Workers \cup {Free} /\ quotaLock \in Procs \cup {Free}
  /\ pc \in [Procs -> Pcs]
  /\ cycle \in [Workers -> Cycles] /\ pull \in [Procs -> Pulls]
  /\ puts \in 0..MaxPuts /\ manual \in 0..MaxManual /\ faults \in 0..MaxFaults
  /\ refusals \in Nat /\ automaticAt \in [Sports -> 0..MaxTime \cup {None}]
  /\ setBack \subseteq Sports

-----------------------------------------------------------------------------
(* The engines: which sports are due, and what an answer says of the balance.  *)

\* Mutant: a pull exactly one interval old is not old enough.
DueLater(candidates, every, time) ==
  {s \in candidates : refreshedAt[s] = None \/ refreshedAt[s] + every < time}

\* AutoRefreshCadenceEngine.due_sports
DueSports(candidates, every, time) ==
  {s \in candidates : refreshedAt[s] = None \/ refreshedAt[s] + every <= time}

Larger(a, b) == IF a >= b THEN a ELSE b

\* Mutant: without headers the cost is taken off the credits used.
ObserveUsedDown(r, previous) ==
  [remaining |-> IF r.out THEN 0 ELSE r.remaining,
   used |-> IF r.remaining # None THEN r.used ELSE previous.used - r.cost,
   out |-> r.out, at |-> r.at]

\* QuotaEngine.observe: the headers, or the previous observation less the cost.
Observe(r, previous) ==
  LET cost == IF r.out THEN 0 ELSE r.cost
      left == IF r.remaining # None THEN r.remaining
              ELSE IF previous.remaining = None THEN None
              ELSE Larger(previous.remaining - cost, 0)
      used == IF r.remaining # None THEN r.used
              ELSE IF previous.used = None THEN None
              ELSE previous.used + cost
  IN  [remaining |-> IF r.out THEN 0 ELSE left, used |-> used,
       out |-> r.out, at |-> r.at]

\* QuotaEngine.floor: the operator's, or a share of the plan once it is known.
Floor(configured, o) ==
  IF configured # None THEN configured
  ELSE IF o.remaining = None \/ o.used = None THEN None
  ELSE ((o.remaining + o.used) * FloorPercent) \div 100

\* QuotaEngine.should_warn: a crossing, or the first known balance if it is low.
ShouldWarn(previous, current, floor) ==
  /\ floor # None /\ current.remaining # None
  /\ current.remaining < floor
  /\ previous.remaining = None \/ previous.remaining >= floor

\* QuotaEngine.is_paused
IsPaused(o) == o.out \/ o.remaining = 0

-----------------------------------------------------------------------------
Init ==
  /\ now = 0 /\ credits \in 0..Plan /\ watched = {}
  /\ settings = NoSettings /\ asked = NoSettings
  /\ refreshedAt = [s \in Sports |-> None]
  /\ latest = Unobserved /\ warnings = 0
  /\ cycleLock = Free /\ quotaLock = Free
  /\ pc = [p \in Procs |-> "idle"]
  /\ cycle = [w \in Workers |-> NoCycle]
  /\ pull = [p \in Procs |-> NoPull]
  /\ puts = 0 /\ manual = 0 /\ faults = 0
  /\ refusals = 0 /\ automaticAt = [s \in Sports |-> None] /\ setBack = {}

-----------------------------------------------------------------------------
(* The worker's cycle: AutoRefreshService.run_cycle.                           *)

Goto(p, at, to) == pc[p] = at /\ pc' = [pc EXCEPT ![p] = to]

\* Mutant: what pg_try_advisory_lock answered is ignored.
PollAnyway(w) ==
  /\ cycleLock' = w
  /\ Goto(w, "idle", "settings")
  /\ cycle' = [cycle EXCEPT ![w].asOf = now]
  /\ UNCHANGED <<settings, refreshedAt, pull, quota, bounds, history, world>>

\* A poll that finds the lock held changes nothing, and is not a step.
Poll(w) ==
  /\ cycleLock = Free /\ cycleLock' = w
  /\ Goto(w, "idle", "settings")
  /\ cycle' = [cycle EXCEPT ![w].asOf = now]
  /\ UNCHANGED <<settings, refreshedAt, pull, quota, bounds, history, world>>

ReadSettings(w) ==
  /\ Goto(w, "settings", IF settings.enabled THEN "watched" ELSE "done")
  /\ cycle' = [cycle EXCEPT ![w].interval = settings.interval]
  /\ UNCHANGED <<settings, refreshedAt, cycleLock, pull, quota, bounds, history, world>>

\* list_watched_event_sports, matched with the catalog by _sport_keys_for.
ReadWatched(w) ==
  /\ Goto(w, "watched", "times")
  /\ cycle' = [cycle EXCEPT ![w].due = watched]
  /\ UNCHANGED <<settings, refreshedAt, cycleLock, pull, quota, bounds, history, world>>

\* get_sport_refresh_times and due_sports; nothing due, nothing asked.
ReadTimes(w) ==
  LET found == DueSports(cycle[w].due, cycle[w].interval, cycle[w].asOf)
  IN  /\ Goto(w, "times", IF found = {} THEN "done" ELSE "quota")
      /\ cycle' = [cycle EXCEPT ![w].due = found]
      /\ UNCHANGED <<settings, refreshedAt, cycleLock, pull, quota, bounds, history,
                     world>>

\* Mutant: the pause is reported but does not end the cycle.
CheckPauseGoesOn(w) ==
  /\ Goto(w, "quota", "next")
  /\ pull' = [pull EXCEPT ![w].call = "balance"]
  /\ UNCHANGED <<settings, refreshedAt, cycleLock, cycle, quota, bounds, history, world>>

\* Mutant: a paused worker never asks for the balance.
CheckPauseWaits(w) ==
  /\ Goto(w, "quota", IF IsPaused(latest) THEN "done" ELSE "next")
  /\ pull' = [pull EXCEPT ![w].call = "balance"]
  /\ UNCHANGED <<settings, refreshedAt, cycleLock, cycle, quota, bounds, history, world>>

\* _paused: out of credits, the balance is asked for once per interval.
CheckPause(w) ==
  LET recent == latest.at + cycle[w].interval > cycle[w].asOf
  IN  /\ Goto(w, "quota", IF ~IsPaused(latest) THEN "next"
                          ELSE IF recent THEN "done" ELSE "ask")
      /\ pull' = [pull EXCEPT ![w].call = "balance"]
      /\ UNCHANGED <<settings, refreshedAt, cycleLock, cycle, quota, bounds, history,
                     world>>

\* _paused after the balance check: the recorded balance decides.
ConfirmBalance(w) ==
  /\ Goto(w, "balance", IF IsPaused(latest) THEN "done" ELSE "next")
  /\ UNCHANGED <<settings, refreshedAt, cycleLock, cycle, pull, quota, bounds, history,
                 world>>

\* The loop over the due sports; their order (by name) is left open.
NextSport(w) ==
  \E s \in cycle[w].due :
    /\ Goto(w, "next", "ask")
    /\ pull' = [pull EXCEPT ![w] = [NoPull EXCEPT !.sport = s]]
    /\ cycle' = [cycle EXCEPT ![w].due = @ \ {s}]
    /\ UNCHANGED <<settings, refreshedAt, cycleLock, quota, bounds, history, world>>

NoMoreSports(w) ==
  /\ cycle[w].due = {} /\ Goto(w, "next", "done")
  /\ UNCHANGED <<settings, refreshedAt, cycleLock, cycle, pull, quota, bounds, history,
                 world>>

\* record_outcome reads the settings ...
ReadOutcomeRow(w) ==
  /\ Goto(w, "outcome", "write")
  /\ cycle' = [cycle EXCEPT ![w].carried = settings]
  /\ UNCHANGED <<settings, refreshedAt, cycleLock, pull, quota, bounds, history, world>>

\* Mutant: a refused pull does not end the loop over the due sports.
WriteOutcomeGoesOn(w) ==
  /\ Goto(w, "write", "next")
  /\ settings' = cycle[w].carried
  /\ cycle' = [cycle EXCEPT ![w].carried = NoSettings]
  /\ UNCHANGED <<refreshedAt, cycleLock, pull, quota, bounds, history, world>>

\* ... and upserts them with the outcome. Out of credits ends the loop.
WriteOutcome(w) ==
  /\ Goto(w, "write", IF cycle[w].out THEN "done" ELSE "next")
  /\ settings' = cycle[w].carried
  /\ cycle' = [cycle EXCEPT ![w].carried = NoSettings]
  /\ UNCHANGED <<refreshedAt, cycleLock, pull, quota, bounds, history, world>>

\* PostgresAdvisoryCycleLock.hold's finally.
Release(w) ==
  /\ Goto(w, "done", "idle")
  /\ cycleLock' = Free
  /\ cycle' = [cycle EXCEPT ![w] = NoCycle] /\ pull' = [pull EXCEPT ![w] = NoPull]
  /\ UNCHANGED <<settings, refreshedAt, quota, bounds, history, world>>

-----------------------------------------------------------------------------
(* A pull: TheOddsApiProvider and QuoteIngestionService.refresh_sport.         *)

\* POST /ingestion/...: a sport-wide pull or one event's.
Manual(c, s, kind) ==
  /\ manual < MaxManual /\ manual' = manual + 1
  /\ Goto(c, "idle", "ask")
  /\ pull' = [pull EXCEPT ![c] = [NoPull EXCEPT !.call = kind, !.sport = s]]
  /\ UNCHANGED <<settings, refreshedAt, cycleLock, cycle, quota, puts, faults, history,
                 world>>

Fault == faults < MaxFaults /\ faults' = faults + 1

Price(p) == IF pull[p].call = "balance" THEN 0 ELSE Cost
Refused(p) == Price(p) > credits

\* What _read_quota makes of an answer, with the credit headers or without.
ReadQuota(p, out, ok, headers) ==
  pull' = [pull EXCEPT ![p].reading =
    [remaining |-> IF headers THEN credits' ELSE None,
     used |-> IF headers THEN Plan - credits' ELSE None,
     cost |-> Price(p), out |-> out, ok |-> ok, at |-> now]]

\* The provider serves the call and charges it, or refuses it for lack of credits.
Answer(p, headers) ==
  /\ IF headers THEN UNCHANGED faults ELSE Fault
  /\ Goto(p, "ask", "lock")
  /\ credits' = IF Refused(p) THEN credits ELSE credits - Price(p)
  /\ ReadQuota(p, Refused(p), ~Refused(p), headers)
  /\ refusals' = IF p \in Workers /\ Refused(p) THEN refusals + 1 ELSE refusals
  /\ UNCHANGED <<settings, refreshedAt, cycleLock, cycle, quota, puts, manual, asked,
                 automaticAt, setBack, now, watched>>

\* An error of the provider: nothing is charged, though without the credit headers
\* the call counts locally.
AnswerWithError(p) ==
  /\ Fault /\ Goto(p, "ask", "lock")
  /\ UNCHANGED credits
  /\ \E headers \in BOOLEAN : ReadQuota(p, FALSE, FALSE, headers)
  /\ UNCHANGED <<settings, refreshedAt, cycleLock, cycle, quota, puts, manual, history,
                 now, watched>>

\* A pull returned or raised: a request ends, a failed balance check leaves the
\* cycle paused, a sport's pull has an outcome.
Ended(p) ==
  /\ pc' = [pc EXCEPT ![p] = IF p \in Callers THEN "idle"
                             ELSE IF pull[p].call = "balance" THEN "done" ELSE "outcome"]
  /\ pull' = [pull EXCEPT ![p] = NoPull]
  /\ cycle' = [w \in Workers |-> IF w = p THEN [cycle[w] EXCEPT !.out = pull[p].reading.out]
                                  ELSE cycle[w]]

\* No answer at all (a timeout): no reading, and the call may have been charged.
NoAnswer(p) ==
  /\ Fault /\ pc[p] = "ask" /\ Ended(p)
  /\ credits' \in {credits, IF Refused(p) THEN credits ELSE credits - Price(p)}
  /\ UNCHANGED <<settings, refreshedAt, cycleLock, quota, puts, manual, history, now,
                 watched>>

\* After the recording, _raise_for_status decides.
AfterRecording(p) ==
  \/ ~pull[p].reading.ok /\ Ended(p)
  \/ /\ pull[p].reading.ok
     /\ pc' = [pc EXCEPT ![p] = IF pull[p].call = "balance" THEN "balance" ELSE "persist"]
     /\ pull' = [pull EXCEPT ![p].previous = Unobserved, ![p].floor = None]
     /\ UNCHANGED cycle

\* Mutant: recorders do not wait for one another.
LockQuotaAtOnce(p) ==
  /\ quotaLock' = p
  /\ Goto(p, "lock", "record")
  /\ pull' = [pull EXCEPT ![p].previous = latest, ![p].floor = settings.floor]
  /\ UNCHANGED <<settings, refreshedAt, cycleLock, cycle, latest, warnings, bounds,
                 history, world>>

\* QuotaService.record: the lock, then the newest observation and the floor.
LockQuota(p) ==
  /\ quotaLock = Free /\ quotaLock' = p
  /\ Goto(p, "lock", "record")
  /\ pull' = [pull EXCEPT ![p].previous = latest, ![p].floor = settings.floor]
  /\ UNCHANGED <<settings, refreshedAt, cycleLock, cycle, latest, warnings, bounds,
                 history, world>>

\* The observation and the warning it may be, in one commit.
Record(p) ==
  LET seen == Observe(pull[p].reading, pull[p].previous)
      warns == ShouldWarn(pull[p].previous, seen, Floor(pull[p].floor, seen))
  IN  /\ pc[p] = "record" /\ AfterRecording(p)
      /\ latest' = seen
      /\ warnings' = IF warns THEN warnings + 1 ELSE warnings
      /\ quotaLock' = Free
      /\ refusals' = IF IsPaused(seen) THEN refusals ELSE 0
      /\ UNCHANGED <<settings, refreshedAt, cycleLock, bounds, asked, automaticAt, setBack,
                     world>>

\* _record_quota swallows what goes wrong; the refresh goes on.
RecordFails(p) ==
  /\ Fault /\ pc[p] \in {"lock", "record"} /\ AfterRecording(p)
  /\ quotaLock' = IF quotaLock = p THEN Free ELSE quotaLock
  /\ UNCHANGED <<settings, refreshedAt, cycleLock, latest, warnings, puts, manual,
                 history, world>>

\* The quotes of a sport's events; then the clock is read for the stamp.
PersistSport(p) ==
  /\ pull[p].call = "sport" /\ Goto(p, "persist", "stamp")
  /\ pull' = [pull EXCEPT ![p].at = now]
  /\ UNCHANGED <<settings, refreshedAt, cycleLock, cycle, quota, bounds, history, world>>

\* An event's pull ends with its quotes: it covers one event, and stamps nothing.
PersistEvent(p) ==
  /\ pull[p].call = "event" /\ pc[p] = "persist" /\ Ended(p)
  /\ UNCHANGED <<settings, refreshedAt, cycleLock, quota, bounds, history, world>>

\* record_sport_refreshed overwrites the stamp with the clock read before it, were
\* the row's a later one: another pull may have stamped the sport in between.
Stamp(p) ==
  LET s == pull[p].sport
      at == pull[p].at
      automatic == p \in Workers
  IN  /\ pc[p] = "stamp" /\ Ended(p)
      /\ refreshedAt' = [refreshedAt EXCEPT ![s] = at]
      /\ automaticAt' = IF automatic THEN [automaticAt EXCEPT ![s] = at] ELSE automaticAt
      /\ setBack' = IF automatic THEN setBack \ {s}
                    ELSE IF at < automaticAt[s] THEN setBack \cup {s} ELSE setBack
      /\ UNCHANGED <<settings, cycleLock, quota, bounds, asked, refusals, world>>

\* A statement of the pull raises: refresh_sport fails and stamps nothing.
PullFails(p) ==
  /\ Fault /\ pc[p] \in {"persist", "stamp"} /\ Ended(p)
  /\ UNCHANGED <<settings, refreshedAt, cycleLock, quota, puts, manual, history, world>>

-----------------------------------------------------------------------------
(* The operator, failures and the world around.                                *)

\* PUT /auto-refresh
SaveSettings(new) ==
  /\ puts < MaxPuts /\ puts' = puts + 1
  /\ settings' = new /\ asked' = new
  /\ UNCHANGED <<refreshedAt, cycleLock, pc, cycle, pull, quota, manual, faults,
                 refusals, automaticAt, setBack, world>>

\* A statement of the cycle itself raises: the worker's loop goes on.
CycleFails(w) ==
  /\ Fault
  /\ pc[w] \in {"settings", "watched", "times", "quota", "balance", "outcome", "write"}
  /\ pc' = [pc EXCEPT ![w] = "done"]
  /\ UNCHANGED <<settings, refreshedAt, cycleLock, cycle, pull, quota, puts, manual,
                 history, world>>

\* A process dies: its connections close, and with them go its locks.
Crash(p) ==
  /\ Fault /\ pc[p] # "idle"
  /\ pc' = [pc EXCEPT ![p] = "idle"]
  /\ cycleLock' = IF cycleLock = p THEN Free ELSE cycleLock
  /\ quotaLock' = IF quotaLock = p THEN Free ELSE quotaLock
  /\ cycle' = [w \in Workers |-> IF w = p THEN NoCycle ELSE cycle[w]]
  /\ pull' = [pull EXCEPT ![p] = NoPull]
  /\ UNCHANGED <<settings, refreshedAt, latest, warnings, puts, manual, history, world>>

\* Watches come, fire, lapse and start; WatchLifecycle has the detail.
ChangeWatches(s) ==
  /\ watched' = IF s \in watched THEN watched \ {s} ELSE watched \cup {s}
  /\ UNCHANGED <<settings, refreshedAt, cycleLock, pc, cycle, pull, quota, bounds,
                 history, now, credits>>

\* External: the provider's month begins.
MonthlyReset ==
  /\ credits < Plan /\ credits' = Plan
  /\ UNCHANGED <<settings, refreshedAt, cycleLock, pc, cycle, pull, quota, bounds,
                 history, now, watched>>

Tick ==
  /\ now < MaxTime /\ now' = now + 1
  /\ UNCHANGED <<settings, refreshedAt, cycleLock, pc, cycle, pull, quota, bounds,
                 history, credits, watched>>

-----------------------------------------------------------------------------
CycleStep(w) ==
  \/ ReadSettings(w) \/ ReadWatched(w) \/ ReadTimes(w) \/ CheckPause(w)
  \/ ConfirmBalance(w) \/ NextSport(w) \/ NoMoreSports(w)
  \/ ReadOutcomeRow(w) \/ WriteOutcome(w) \/ Release(w)

PullStep(p) ==
  \/ Answer(p, TRUE) \/ LockQuota(p) \/ Record(p)
  \/ PersistSport(p) \/ PersistEvent(p) \/ Stamp(p)

Failure(p) ==
  \/ Answer(p, FALSE) \/ AnswerWithError(p) \/ NoAnswer(p) \/ RecordFails(p)
  \/ PullFails(p) \/ Crash(p)

Next ==
  \/ \E w \in Workers : Poll(w) \/ CycleStep(w) \/ CycleFails(w)
  \/ \E p \in Procs : PullStep(p) \/ Failure(p)
  \/ \E c \in Callers, s \in Sports, kind \in {"sport", "event"} : Manual(c, s, kind)
  \/ \E new \in Settings : SaveSettings(new)
  \/ \E s \in Sports : ChangeWatches(s)
  \/ MonthlyReset \/ Tick

Spec == Init /\ [][Next]_vars

\* The workers poll for ever, a cycle and a pull go on (every wait for the
\* provider or the database ends), and time passes. Nothing is asked of the
\* operator, of the watches, of the provider's month or of the failures.
Fairness ==
  /\ WF_vars(\E w \in Workers : Poll(w))
  /\ \A w \in Workers : WF_vars(CycleStep(w))
  /\ \A p \in Procs : WF_vars(PullStep(p))
  /\ WF_vars(Tick)

FairSpec == Spec /\ Fairness

-----------------------------------------------------------------------------
(* An automatic pull of a sport starts no sooner than one interval after the   *)
(* clock the last automatic pull of it stamped, however many workers poll or   *)
(* crash (auto_refresh_cadence_engine.py:8, the lock of                        *)
(* auto_refresh_uow.py:165). A manual pull that stamps in the meantime does    *)
(* not bring it forward, unless it read its clock before the automatic one     *)
(* and wrote after it: record_sport_refreshed then sets the stamp back         *)
(* (quote_ingestion_service.py:233), and nothing is promised of that sport     *)
(* until its next automatic pull.                                              *)
AutomaticPullsSpaced ==
  [][\A w \in Workers : NextSport(w) =>
       LET s == pull'[w].sport
       IN  \/ automaticAt[s] = None \/ s \in setBack
           \/ automaticAt[s] + cycle[w].interval <= now]_vars

(* Recorders run at once, but each recorded fall of the balance below the      *)
(* floor writes one warning and nothing else does (quota_service.py:12-13).    *)
WarnedOnCrossing ==
  [][LET crossed(p) ==
           ShouldWarn(latest, latest', Floor(pull[p].floor, latest'))
     IN  \A p \in Procs : Record(p) =>
           warnings' = warnings + (IF crossed(p) THEN 1 ELSE 0)]_vars

(* Out of credits, Auto-Refresh waits for an observation that shows credits:   *)
(* between two such observations it is refused once, and once more for every   *)
(* failure that lost a recording (auto_refresh_service.py:106-108, :111-128).  *)
RefusedOnce == refusals <= 1 + faults

(* While the switch is on, a watched sport that is due is pulled, whatever     *)
(* failed before, unless credits ran out, the switch was turned off or its     *)
(* watches ended.                                                              *)
DueNow(s) ==
  /\ s \in watched
  /\ refreshedAt[s] = None \/ refreshedAt[s] + settings.interval <= now

WatchedIsRefreshed ==
  \A s \in Sports : settings.enabled /\ DueNow(s) ~>
    ~settings.enabled \/ ~DueNow(s) \/ IsPaused(latest)

(* A pause ends by itself once credits are back, in an interval at most, if    *)
(* there is still something to pull.                                           *)
PauseEnds ==
  \A s \in Sports :
    settings.enabled /\ DueNow(s) /\ IsPaused(latest) /\ credits >= Cost ~>
      \/ ~settings.enabled \/ ~DueNow(s) \/ ~IsPaused(latest) \/ credits < Cost
      \/ latest.at + settings.interval > MaxTime

(* auto_refresh_uow.py:92-93: "recording an outcome must never flip the        *)
(* operator's switch".                                                         *)
SwitchAsLastSet == settings.enabled = asked.enabled
=============================================================================
