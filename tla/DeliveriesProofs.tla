-------------------------- MODULE DeliveriesProofs --------------------------
(***************************************************************************)
(* The safety of Deliveries for any number of events, destinations and     *)
(* workers, any lease, backoff and batch size, and any clock bound.        *)
(***************************************************************************)
EXTENDS Deliveries, TLAPS

-----------------------------------------------------------------------------
(* The inductive invariant.  Why one request at a time: a worker's claim is
   either the delivery's latest, and then the row is locked for as long as the
   worker's lease, or it has been taken over, and then that lease is over. *)

\* Open fan-outs lock written, undispatched events, each one its own; a row
\* exists only when its event is dispatched, and is claimed only if it exists.
FanOutsApart ==
    /\ \A v, w \in Workers, e \in Events :
         e \in fanning[v] /\ e \in fanning[w] => v = w
    /\ \A w \in Workers : \A e \in fanning[w] : expiry[e] > 0 /\ e \notin dispatched
    /\ \A w \in Workers : fanned[w] \subseteq fanning[w]
    /\ \A w \in Workers : pc[w] # "expand" => fanning[w] = {}
    /\ \A w \in Workers : \A r \in newRows[w] : r[1] \in fanning[w]
    /\ \A e \in dispatched : expiry[e] > 0
    /\ \A r \in Rows : r[1] \notin dispatched => status[r] = "none"
    /\ \A r \in Rows : status[r] = "none" => attempts[r] = 0

\* Tokens are fresh, and a worker's lease covers its latest claims.
ClaimsLeased ==
    /\ \A w \in Workers, r \in Rows : token[w][r] <= attempts[r]
    /\ \A v, w \in Workers, r \in Rows :
         token[v][r] > 0 /\ token[v][r] = token[w][r] => v = w
    /\ \A w \in Workers, r \in Rows : token[w][r] > 0 => lease[w] > 0
    /\ \A w \in Workers, r \in Rows :
         token[w][r] > 0 /\ token[w][r] = attempts[r] /\ status[r] = "pending" =>
             lockedUntil[r] = lease[w]
    /\ \A w \in Workers, r \in Rows :
         token[w][r] > 0 /\ token[w][r] < attempts[r] => lease[w] < now
    /\ \A w \in Workers, r \in Rows :
         token[w][r] > 0 /\ status[r] = "delivered" => token[w][r] < attempts[r]

\* A worker sends or records a delivery it holds, and sends only under its
\* lease; an outcome `delivered` is the push service's.
WorkHeld ==
    \A w \in Workers :
        /\ pc[w] \in {"send", "record"} =>
             current[w] \in Rows /\ token[w][current[w]] > 0
        /\ pc[w] = "send" => now <= lease[w]
        /\ pc[w] = "record" => outcome[w] # "none"
        /\ pc[w] = "record" /\ outcome[w] = "delivered" => current[w] \in accepted

\* What is owed and has no row yet is still deliverable, and an open fan-out
\* that has expanded its event has not missed it.
OwedKept ==
    /\ \A r \in owed : r \in Addressed /\ expiry[r[1]] > 0
    /\ \A r \in owed : status[r] = "none" => r[2] \in active
    /\ \A w \in Workers, r \in owed :
         r[1] \in fanned[w] => r \in newRows[w]

IInv ==
    /\ TypeOK
    /\ FanOutsApart
    /\ ClaimsLeased
    /\ WorkHeld
    /\ OwedKept
    /\ DeliveredWasAccepted
    /\ OwedHaveRows

-----------------------------------------------------------------------------
\* Whatever destinations there are, the notifier starts in the invariant.
LEMMA InitIInv ==
  ASSUME NEW registered \in SUBSET Dests, InitWith(registered)
  PROVE  IInv
<1> USE DEF InitWith, NoClaims
<1>1. TypeOK
  <2>1. now \in 0..MaxTime /\ faults \in 0..MaxFaults
    BY BoundsAssumption DEF BoundsAssumption
  <2>2. token \in [Workers -> [Rows -> Nat]]
    OBVIOUS
  <2>. QED
    BY <2>1, <2>2 DEF TypeOK, Stages, Outcomes, Final
<1>2. FanOutsApart /\ ClaimsLeased /\ WorkHeld /\ OwedKept
  BY DEF FanOutsApart, ClaimsLeased, WorkHeld, OwedKept
<1>3. DeliveredWasAccepted /\ OwedHaveRows
  BY DEF DeliveredWasAccepted, OwedHaveRows
<1>. QED
  BY <1>1, <1>2, <1>3 DEF IInv

\* A step that leaves the outbox, the destinations, the fan-outs and the status
\* of every delivery alone disturbs nothing that fan-out relies on.
LEMMA FanOutUndisturbed ==
  ASSUME IInv,
         UNCHANGED <<outboxv, active, status, attempts, fanv, owed>>,
         \A w \in Workers : fanning[w] # {} => pc'[w] = "expand"
  PROVE  FanOutsApart' /\ OwedKept' /\ OwedHaveRows'
<1> USE DEF IInv, outboxv, fanv
<1>1. FanOutsApart'
  BY DEF FanOutsApart
<1>2. OwedKept'
  BY DEF OwedKept
<1>3. OwedHaveRows'
  BY DEF OwedHaveRows
<1>. QED
  BY <1>1, <1>2, <1>3

LEMMA WriteEventIInv ==
  ASSUME IInv, NEW e \in Events, WriteEvent(e)
  PROVE  IInv'
<1> USE DEF IInv, WriteEvent, outboxv, rows, fanv, workv, history
<1>0. now \in Nat /\ MaxAge[e] \in Nat /\ MaxAge[e] > 0
  <2>1. now \in Nat
    BY BoundsAssumption DEF BoundsAssumption, TypeOK
  <2>2. MaxAge[e] \in Nat \ {0}
    BY EventsAssumption DEF EventsAssumption
  <2>. QED
    BY <2>1, <2>2
<1>1. TypeOK'
  <2>1. now + MaxAge[e] \in Nat
    BY <1>0
  <2>. QED
    BY <2>1 DEF TypeOK, Addressed
<1>2. FanOutsApart'
  BY DEF FanOutsApart, TypeOK
<1>3. ClaimsLeased'
  BY DEF ClaimsLeased, TypeOK
<1>4. WorkHeld'
  BY DEF WorkHeld, TypeOK
<1>5. OwedKept'
  <2>1. now + MaxAge[e] \in Nat /\ now + MaxAge[e] > 0
    BY <1>0
  <2>2. \A v \in Workers : e \notin fanned[v]
    BY DEF FanOutsApart
  <2>3. \A r \in Rows : r[1] \in Events
    BY DEF Rows
  <2>4. Addressed \subseteq Rows
    BY DEF Addressed
  <2>. QED
    BY <2>1, <2>2, <2>3, <2>4 DEF OwedKept, TypeOK
<1>6. DeliveredWasAccepted'
  BY DEF DeliveredWasAccepted, TypeOK
<1>7. OwedHaveRows'
  BY DEF OwedHaveRows, FanOutsApart, TypeOK
<1>. QED
  BY <1>1, <1>2, <1>3, <1>4, <1>5, <1>6, <1>7

LEMMA ResubscribeIInv ==
  ASSUME IInv, NEW t \in Dests, Resubscribe(t)
  PROVE  IInv'
<1> USE DEF IInv, Resubscribe, outboxv, rows, fanv, workv, history
<1>1. TypeOK'
  BY DEF TypeOK, Stages, Outcomes, Final
<1>2. FanOutsApart'
  BY DEF FanOutsApart, TypeOK
<1>3. ClaimsLeased'
  BY DEF ClaimsLeased, TypeOK
<1>4. WorkHeld'
  BY DEF WorkHeld, TypeOK
<1>5. OwedKept'
  BY DEF OwedKept, TypeOK, FanOutsApart
<1>6. DeliveredWasAccepted'
  BY DEF DeliveredWasAccepted, TypeOK
<1>7. OwedHaveRows'
  BY DEF OwedHaveRows, TypeOK
<1>. QED
  BY <1>1, <1>2, <1>3, <1>4, <1>5, <1>6, <1>7

LEMMA WakeIInv ==
  ASSUME IInv, NEW w \in Workers, Wake(w)
  PROVE  IInv'
<1> USE DEF IInv, Wake, Goto, outboxv, rows, fanv, workv, history
<1>1. TypeOK'
  BY DEF TypeOK, Stages, Outcomes, Final
<1>2. FanOutsApart' /\ OwedKept' /\ OwedHaveRows'
  BY FanOutUndisturbed DEF FanOutsApart, TypeOK
<1>3. ClaimsLeased'
  BY DEF ClaimsLeased, TypeOK
<1>4. WorkHeld'
  BY DEF WorkHeld, TypeOK
<1>5. DeliveredWasAccepted'
  BY DEF DeliveredWasAccepted, TypeOK
<1>. QED
  BY <1>1, <1>2, <1>3, <1>4, <1>5

LEMMA FanOutSelectIInv ==
  ASSUME IInv, NEW w \in Workers, FanOutSelect(w)
  PROVE  IInv'
<1> USE DEF IInv, FanOutSelect, Goto, outboxv, rows, fanv, workv, history
<1>1. TypeOK'
  BY DEF TypeOK, Stages, Undispatched
<1>2. FanOutsApart'
  <2>1. PICK E \in SUBSET Undispatched : fanning' = [fanning EXCEPT ![w] = E]
    OBVIOUS
  <2>2. fanned[w] = {} /\ newRows[w] = {}
    BY DEF FanOutsApart
  <2>. QED
    BY <2>1, <2>2 DEF FanOutsApart, TypeOK, Undispatched
<1>3. ClaimsLeased'
  BY DEF ClaimsLeased, TypeOK
<1>4. WorkHeld'
  BY DEF WorkHeld, TypeOK
<1>5. OwedKept'
  BY DEF OwedKept, TypeOK, FanOutsApart
<1>6. DeliveredWasAccepted'
  BY DEF DeliveredWasAccepted, TypeOK
<1>7. OwedHaveRows'
  BY DEF OwedHaveRows, TypeOK
<1>. QED
  BY <1>1, <1>2, <1>3, <1>4, <1>5, <1>6, <1>7

LEMMA FanOutExpandIInv ==
  ASSUME IInv, NEW w \in Workers, NEW e \in Events, FanOutExpand(w, e)
  PROVE  IInv'
<1> USE DEF IInv, FanOutExpand, outboxv, rows, fanv, workv, history
<1>1. TypeOK'
  BY DEF TypeOK, Addressed
<1>2. FanOutsApart'
  BY DEF FanOutsApart, TypeOK
<1>3. ClaimsLeased'
  BY DEF ClaimsLeased, TypeOK
<1>4. WorkHeld'
  BY DEF WorkHeld, TypeOK
<1>5. OwedKept'
  BY DEF OwedKept, TypeOK, FanOutsApart
<1>6. DeliveredWasAccepted'
  BY DEF DeliveredWasAccepted, TypeOK
<1>7. OwedHaveRows'
  BY DEF OwedHaveRows, TypeOK
<1>. QED
  BY <1>1, <1>2, <1>3, <1>4, <1>5, <1>6, <1>7

LEMMA FanOutCommitIInv ==
  ASSUME IInv, NEW w \in Workers, FanOutCommit(w)
  PROVE  IInv'
<1> USE DEF IInv, FanOutCommit, Goto, outboxv, rows, fanv, workv, history
<1>1. TypeOK'
  BY DEF TypeOK, Stages, Outcomes, Final
<1>2. FanOutsApart'
  BY DEF FanOutsApart, TypeOK
<1>3. ClaimsLeased'
  <2>1. \A r \in Rows : r \in newRows[w] => r[1] \notin dispatched
    BY DEF FanOutsApart, TypeOK
  <2>2. \A r \in Rows : r \in newRows[w] => attempts[r] = 0
    BY <2>1 DEF FanOutsApart, TypeOK
  <2>3. \A v \in Workers, r \in Rows : r \in newRows[w] => token[v][r] = 0
    BY <2>2 DEF ClaimsLeased, TypeOK
  <2>4. \A r \in Rows : status'[r] = IF r \in newRows[w] THEN "pending" ELSE status[r]
    OBVIOUS
  <2>. QED
    BY <2>3, <2>4 DEF ClaimsLeased, TypeOK
<1>4. WorkHeld'
  BY DEF WorkHeld, TypeOK
<1>5. OwedKept'
  BY DEF OwedKept, TypeOK, FanOutsApart
<1>6. DeliveredWasAccepted'
  BY DEF DeliveredWasAccepted, TypeOK
<1>7. OwedHaveRows'
  BY DEF OwedHaveRows, OwedKept, FanOutsApart, TypeOK
<1>. QED
  BY <1>1, <1>2, <1>3, <1>4, <1>5, <1>6, <1>7

LEMMA ClaimDueIInv ==
  ASSUME IInv, NEW w \in Workers, ClaimDue(w)
  PROVE  IInv'
<1> USE DEF IInv, ClaimDue, Goto, outboxv, rows, fanv, workv, history
<1>1. TypeOK'
  <2>1. now + Lease \in Nat
    BY TimingAssumption DEF TimingAssumption, TypeOK
  <2>. QED
    BY <2>1 DEF TypeOK, Stages
<1>2. FanOutsApart'
  BY DEF FanOutsApart, TypeOK, Due
<1>3. ClaimsLeased'
  <2>1. now \in Nat /\ now + Lease \in Nat /\ now + Lease > 0
    BY TimingAssumption, BoundsAssumption
    DEF TimingAssumption, BoundsAssumption, TypeOK
  <2>2. PICK C \in SUBSET Due :
          /\ lockedUntil' = [r \in Rows |-> IF r \in C THEN now + Lease ELSE lockedUntil[r]]
          /\ attempts' = [r \in Rows |-> IF r \in C THEN attempts[r] + 1 ELSE attempts[r]]
          /\ token' = [token EXCEPT ![w] =
                         [r \in Rows |-> IF r \in C THEN attempts[r] + 1 ELSE 0]]
    OBVIOUS
  <2>3. \A r \in Rows : r \in C =>
          /\ status[r] = "pending"
          /\ lockedUntil[r] = 0 \/ lockedUntil[r] < now
    BY DEF Due
  <2>4. \A r \in Rows : /\ token'[w][r] = IF r \in C THEN attempts[r] + 1 ELSE 0
                        /\ \A v \in Workers : v # w => token'[v][r] = token[v][r]
                        /\ attempts'[r] = IF r \in C THEN attempts[r] + 1 ELSE attempts[r]
                        /\ lockedUntil'[r] = IF r \in C THEN now + Lease ELSE lockedUntil[r]
    BY <2>2 DEF TypeOK
  <2>5. /\ lease'[w] = now + Lease
        /\ \A v \in Workers : v # w => lease'[v] = lease[v]
    BY DEF TypeOK
  <2>6. \A v \in Workers, r \in Rows :
          /\ token[v][r] \in Nat /\ attempts[r] \in Nat
          /\ lease[v] \in Nat /\ lockedUntil[r] \in Nat
    BY DEF TypeOK
  \* A claim taken over is past its lease.
  <2>7. \A v \in Workers, r \in Rows :
          r \in C /\ token[v][r] > 0 => lease[v] < now
    <3> SUFFICES ASSUME NEW v \in Workers, NEW r \in Rows, r \in C, token[v][r] > 0
                 PROVE  lease[v] < now
      OBVIOUS
    <3>1. token[v][r] <= attempts[r] /\ lease[v] > 0
      BY DEF ClaimsLeased
    <3>2. CASE token[v][r] < attempts[r]
      BY <3>2 DEF ClaimsLeased
    <3>3. CASE token[v][r] = attempts[r]
      <4>1. lockedUntil[r] = lease[v]
        BY <2>3, <3>3 DEF ClaimsLeased
      <4>. QED
        BY <2>3, <3>1, <4>1
    <3>. QED
      BY <2>6, <3>1, <3>2, <3>3
  <2>8. \A v \in Workers, r \in Rows : token'[v][r] <= attempts'[r]
    BY <2>4, <2>6 DEF ClaimsLeased
  <2>9. \A u, v \in Workers, r \in Rows :
          token'[u][r] > 0 /\ token'[u][r] = token'[v][r] => u = v
    BY <2>4, <2>6 DEF ClaimsLeased
  <2>10. \A v \in Workers, r \in Rows : token'[v][r] > 0 => lease'[v] > 0
    BY <2>1, <2>4, <2>5, <2>6 DEF ClaimsLeased
  <2>11. \A v \in Workers, r \in Rows :
           token'[v][r] > 0 /\ token'[v][r] = attempts'[r] /\ status[r] = "pending" =>
               lockedUntil'[r] = lease'[v]
    BY <2>4, <2>5, <2>6 DEF ClaimsLeased
  <2>12. \A v \in Workers, r \in Rows :
           token'[v][r] > 0 /\ token'[v][r] < attempts'[r] => lease'[v] < now
    BY <2>4, <2>5, <2>7, <2>6 DEF ClaimsLeased
  <2>13. \A v \in Workers, r \in Rows :
           token'[v][r] > 0 /\ status[r] = "delivered" => token'[v][r] < attempts'[r]
    BY <2>3, <2>4, <2>6 DEF ClaimsLeased
  <2>. QED
    BY <2>8, <2>9, <2>10, <2>11, <2>12, <2>13 DEF ClaimsLeased
<1>4. WorkHeld'
  BY DEF WorkHeld, TypeOK
<1>5. OwedKept'
  BY DEF OwedKept, TypeOK, FanOutsApart
<1>6. DeliveredWasAccepted'
  BY DEF DeliveredWasAccepted, TypeOK
<1>7. OwedHaveRows'
  BY DEF OwedHaveRows, TypeOK
<1>. QED
  BY <1>1, <1>2, <1>3, <1>4, <1>5, <1>6, <1>7

LEMMA BatchDoneIInv ==
  ASSUME IInv, NEW w \in Workers, BatchDone(w)
  PROVE  IInv'
<1> USE DEF IInv, BatchDone, Goto, NoClaims, outboxv, rows, fanv, workv, history
<1>1. TypeOK'
  BY DEF TypeOK, Stages, Outcomes, Final
<1>2. FanOutsApart' /\ OwedKept' /\ OwedHaveRows'
  BY FanOutUndisturbed DEF FanOutsApart, TypeOK
<1>3. ClaimsLeased'
  BY DEF ClaimsLeased, TypeOK
<1>4. WorkHeld'
  BY DEF WorkHeld, TypeOK
<1>5. DeliveredWasAccepted'
  BY DEF DeliveredWasAccepted, TypeOK
<1>. QED
  BY <1>1, <1>2, <1>3, <1>4, <1>5

LEMMA FoundExpiredIInv ==
  ASSUME IInv, NEW w \in Workers, NEW r \in Rows, FoundExpired(w, r)
  PROVE  IInv'
<1> USE DEF IInv, FoundExpired, Holds, Decide, Goto, outboxv, rows, fanv, workv, history
<1>1. TypeOK'
  BY DEF TypeOK, Stages, Outcomes, Final
<1>2. FanOutsApart' /\ OwedKept' /\ OwedHaveRows'
  BY FanOutUndisturbed DEF FanOutsApart, TypeOK
<1>3. ClaimsLeased'
  BY DEF ClaimsLeased, TypeOK
<1>4. WorkHeld'
  BY DEF WorkHeld, TypeOK
<1>5. DeliveredWasAccepted'
  BY DEF DeliveredWasAccepted, TypeOK
<1>. QED
  BY <1>1, <1>2, <1>3, <1>4, <1>5

LEMMA UnsendableIInv ==
  ASSUME IInv, NEW w \in Workers, NEW r \in Rows, Unsendable(w, r)
  PROVE  IInv'
<1> USE DEF IInv, Unsendable, Holds, Decide, Goto, outboxv, rows, fanv, workv, history
<1>1. TypeOK'
  BY DEF TypeOK, Stages, Outcomes, Final
<1>2. FanOutsApart' /\ OwedKept' /\ OwedHaveRows'
  BY FanOutUndisturbed DEF FanOutsApart, TypeOK
<1>3. ClaimsLeased'
  BY DEF ClaimsLeased, TypeOK
<1>4. WorkHeld'
  BY DEF WorkHeld, TypeOK
<1>5. DeliveredWasAccepted'
  BY DEF DeliveredWasAccepted, TypeOK
<1>. QED
  BY <1>1, <1>2, <1>3, <1>4, <1>5

LEMMA SendStartIInv ==
  ASSUME IInv, NEW w \in Workers, NEW r \in Rows, SendStart(w, r)
  PROVE  IInv'
<1> USE DEF IInv, SendStart, Holds, Goto, outboxv, rows, fanv, workv, history
<1>1. TypeOK'
  BY DEF TypeOK, Stages, Outcomes, Final
<1>2. FanOutsApart' /\ OwedKept' /\ OwedHaveRows'
  BY FanOutUndisturbed DEF FanOutsApart, TypeOK
<1>3. ClaimsLeased'
  BY DEF ClaimsLeased, TypeOK
<1>4. WorkHeld'
  BY DEF WorkHeld, TypeOK
<1>5. DeliveredWasAccepted'
  BY DEF DeliveredWasAccepted, TypeOK
<1>. QED
  BY <1>1, <1>2, <1>3, <1>4, <1>5

LEMMA SendTooLateIInv ==
  ASSUME IInv, NEW w \in Workers, NEW r \in Rows, SendTooLate(w, r)
  PROVE  IInv'
<1> USE DEF IInv, SendTooLate, Holds, Drop, Goto, outboxv, rows, fanv, workv, history
<1>1. TypeOK'
  BY DEF TypeOK, Stages, Outcomes, Final
<1>2. FanOutsApart' /\ OwedKept' /\ OwedHaveRows'
  BY FanOutUndisturbed DEF FanOutsApart, TypeOK
<1>3. ClaimsLeased'
  BY DEF ClaimsLeased, TypeOK
<1>4. WorkHeld'
  BY DEF WorkHeld, TypeOK
<1>5. DeliveredWasAccepted'
  BY DEF DeliveredWasAccepted, TypeOK
<1>. QED
  BY <1>1, <1>2, <1>3, <1>4, <1>5

LEMMA AnsweredIInv ==
  ASSUME IInv, NEW w \in Workers, NEW o \in Outcomes, Answered(w, o)
  PROVE  IInv'
<1> USE DEF IInv, Answered, Decide, Goto, outboxv, rows, fanv, workv, history
<1>1. TypeOK'
  BY DEF TypeOK, Stages, Outcomes, Final, WorkHeld
<1>2. FanOutsApart' /\ OwedKept' /\ OwedHaveRows'
  BY FanOutUndisturbed DEF FanOutsApart, TypeOK
<1>3. ClaimsLeased'
  BY DEF ClaimsLeased, TypeOK
<1>4. WorkHeld'
  BY DEF WorkHeld, TypeOK
<1>5. DeliveredWasAccepted'
  BY DEF DeliveredWasAccepted, TypeOK
<1>. QED
  BY <1>1, <1>2, <1>3, <1>4, <1>5

LEMMA AnswerLostIInv ==
  ASSUME IInv, NEW w \in Workers, AnswerLost(w)
  PROVE  IInv'
<1> USE DEF IInv, AnswerLost, Decide, Goto, outboxv, rows, fanv, workv, history
<1>1. TypeOK'
  BY DEF TypeOK, Stages, Outcomes, Final, WorkHeld
<1>2. FanOutsApart' /\ OwedKept' /\ OwedHaveRows'
  BY FanOutUndisturbed DEF FanOutsApart, TypeOK
<1>3. ClaimsLeased'
  BY DEF ClaimsLeased, TypeOK
<1>4. WorkHeld'
  BY DEF WorkHeld, TypeOK
<1>5. DeliveredWasAccepted'
  BY DEF DeliveredWasAccepted, TypeOK
<1>. QED
  BY <1>1, <1>2, <1>3, <1>4, <1>5

LEMMA DeadlineEndsSendIInv ==
  ASSUME IInv, NEW w \in Workers, DeadlineEndsSend(w)
  PROVE  IInv'
<1> USE DEF IInv, DeadlineEndsSend, Drop, Goto, outboxv, rows, fanv, workv, history
<1>1. TypeOK'
  BY DEF TypeOK, Stages, Outcomes, Final, WorkHeld
<1>2. FanOutsApart' /\ OwedKept' /\ OwedHaveRows'
  BY FanOutUndisturbed DEF FanOutsApart, TypeOK
<1>3. ClaimsLeased'
  BY DEF ClaimsLeased, TypeOK
<1>4. WorkHeld'
  BY DEF WorkHeld, TypeOK
<1>5. DeliveredWasAccepted'
  BY DEF DeliveredWasAccepted, TypeOK
<1>. QED
  BY <1>1, <1>2, <1>3, <1>4, <1>5

LEMMA RecordIInv ==
  ASSUME IInv, NEW w \in Workers, Record(w)
  PROVE  IInv'
<1> USE DEF IInv, Record, Fenced, Drop, Goto, outboxv, rows, fanv, workv, history
<1> DEFINE r == current[w]
<1> DEFINE settled == IF outcome[w] = "gone"
                        THEN {s \in Rows : s[2] = r[2] /\ status[s] = "pending"}
                        ELSE {r}
<1>a. /\ r \in Rows /\ token[w][r] > 0 /\ token[w][r] = attempts[r]
      /\ status[r] = "pending" /\ outcome[w] \in Final
  BY DEF WorkHeld
<1>b. settled \subseteq Rows /\ r \in settled
  BY <1>a
<1>c. \A s \in Rows : s \in settled => status[s] = "pending"
  BY <1>a
<1>d. /\ status' = [s \in Rows |-> IF s \in settled THEN outcome[w] ELSE status[s]]
      /\ lockedUntil' = [s \in Rows |-> IF s \in settled THEN 0 ELSE lockedUntil[s]]
      /\ token' = [token EXCEPT ![w][r] = 0]
  OBVIOUS
<1>e. \A s \in Rows : /\ status'[s] = "none" <=> status[s] = "none"
                      /\ status'[s] = "pending" => status[s] = "pending" /\ s \notin settled
                      /\ s \notin settled => lockedUntil'[s] = lockedUntil[s]
                      /\ s \in settled => status'[s] = outcome[w]
                      /\ s \notin settled => status'[s] = status[s]
  BY <1>a, <1>c, <1>d DEF Final
<1>f. \A v \in Workers, s \in Rows :
        token'[v][s] = IF v = w /\ s = r THEN 0 ELSE token[v][s]
  BY <1>a, <1>d DEF TypeOK
<1> HIDE DEF r, settled
<1>1. TypeOK'
  <2>1. status' \in [Rows -> Final \cup {"none", "pending"}]
    BY <1>a, <1>d DEF TypeOK
  <2>2. lockedUntil' \in [Rows -> Nat]
    BY <1>d DEF TypeOK
  <2>3. token' \in [Workers -> [Rows -> Nat]]
    <3>1. token \in [Workers -> [Rows -> Nat]] /\ token[w] \in [Rows -> Nat]
      BY DEF TypeOK
    <3>2. [token[w] EXCEPT ![r] = 0] \in [Rows -> Nat]
      BY <3>1
    <3>3. token' = [token EXCEPT ![w] = [token[w] EXCEPT ![r] = 0]]
      BY <1>d, <3>1
    <3>. QED
      BY <3>1, <3>2, <3>3
  <2>4. active' \subseteq Dests /\ owed' \subseteq Rows
    BY DEF TypeOK
  <2>. QED
    BY <2>1, <2>2, <2>3, <2>4 DEF TypeOK, Stages, Outcomes
<1>2. FanOutsApart'
  <2>1. \A s \in Rows : s[1] \notin dispatched => status'[s] = "none"
    BY <1>e DEF FanOutsApart
  <2>2. \A s \in Rows : status'[s] = "none" => attempts[s] = 0
    BY <1>e DEF FanOutsApart
  <2>3. \A v \in Workers : pc'[v] # "expand" => fanning[v] = {}
    BY DEF FanOutsApart, TypeOK
  <2>. QED
    BY <2>1, <2>2, <2>3 DEF FanOutsApart
<1>3. ClaimsLeased'
  <2>1. \A v \in Workers, s \in Rows : token[v][s] \in Nat /\ attempts[s] \in Nat
    BY DEF TypeOK
  <2>2. \A v \in Workers, s \in Rows :
          token'[v][s] > 0 => token'[v][s] = token[v][s] /\ ~(v = w /\ s = r)
    BY <1>f
  <2>3. \A v \in Workers, s \in Rows : token'[v][s] <= attempts[s]
    BY <1>f, <2>1 DEF ClaimsLeased
  <2>4. \A u, v \in Workers, s \in Rows :
          token'[u][s] > 0 /\ token'[u][s] = token'[v][s] => u = v
    BY <2>2 DEF ClaimsLeased
  <2>5. \A v \in Workers, s \in Rows : token'[v][s] > 0 => lease[v] > 0
    BY <2>2 DEF ClaimsLeased
  <2>6. \A v \in Workers, s \in Rows :
          token'[v][s] > 0 /\ token'[v][s] = attempts[s] /\ status'[s] = "pending" =>
              lockedUntil'[s] = lease[v]
    BY <1>e, <2>2 DEF ClaimsLeased
  <2>7. \A v \in Workers, s \in Rows :
          token'[v][s] > 0 /\ token'[v][s] < attempts[s] => lease[v] < now
    BY <2>2 DEF ClaimsLeased
  <2>8. \A v \in Workers, s \in Rows :
          token'[v][s] > 0 /\ status'[s] = "delivered" => token'[v][s] < attempts[s]
    <3> SUFFICES ASSUME NEW v \in Workers, NEW s \in Rows,
                        token'[v][s] > 0, status'[s] = "delivered"
                 PROVE  token'[v][s] < attempts[s]
      OBVIOUS
    <3>1. CASE s \notin settled
      BY <3>1, <1>e, <2>2 DEF ClaimsLeased
    \* The delivery just recorded: its latest claim was w's, and is given up.
    <3>2. CASE s \in settled
      <4>1. s = r
        BY <3>2, <1>e DEF settled
      <4>2. v # w /\ token'[v][s] = token[v][s]
        BY <4>1, <2>2
      <4>3. token[v][s] # attempts[s]
        BY <4>1, <4>2, <1>a DEF ClaimsLeased
      <4>. QED
        BY <4>2, <4>3, <2>1 DEF ClaimsLeased
    <3>. QED
      BY <3>1, <3>2
  <2>. QED
    BY <2>3, <2>4, <2>5, <2>6, <2>7, <2>8 DEF ClaimsLeased
<1>4. WorkHeld'
  BY <1>f DEF WorkHeld, TypeOK, Final
<1>5. OwedKept'
  <2>1. owed' \subseteq owed
    OBVIOUS
  <2>2. \A s \in owed : s \in Rows /\ s \in Addressed /\ expiry[s[1]] > 0
    BY DEF OwedKept, TypeOK
  <2>3. \A s \in owed' : status'[s] = "none" => s[2] \in active'
    <3> SUFFICES ASSUME NEW s \in owed', status'[s] = "none" PROVE s[2] \in active'
      OBVIOUS
    <3>1. s \in Rows /\ status[s] = "none" /\ s[2] \in active
      BY <1>e, <2>1, <2>2 DEF OwedKept
    <3>. QED
      BY <3>1 DEF r
  <2>. QED
    BY <2>1, <2>2, <2>3 DEF OwedKept
<1>6. DeliveredWasAccepted'
  <2>1. outcome[w] = "delivered" => r \in accepted
    BY DEF WorkHeld, r
  <2>2. \A s \in settled : outcome[w] = "delivered" => s = r
    BY DEF settled
  <2>. QED
    BY <1>e, <2>1, <2>2 DEF DeliveredWasAccepted
<1>7. OwedHaveRows'
  <2>1. owed' \subseteq owed /\ owed \subseteq Rows
    BY DEF TypeOK
  <2>. QED
    BY <1>e, <2>1 DEF OwedHaveRows
<1>. QED
  BY <1>1, <1>2, <1>3, <1>4, <1>5, <1>6, <1>7

LEMMA RecordStaleIInv ==
  ASSUME IInv, NEW w \in Workers, RecordStale(w)
  PROVE  IInv'
<1> USE DEF IInv, RecordStale, Drop, Goto, outboxv, rows, fanv, workv, history
<1>1. TypeOK'
  BY DEF TypeOK, Stages, Outcomes, Final
<1>2. FanOutsApart' /\ OwedKept' /\ OwedHaveRows'
  BY FanOutUndisturbed DEF FanOutsApart, TypeOK
<1>3. ClaimsLeased'
  BY DEF ClaimsLeased, TypeOK
<1>4. WorkHeld'
  BY DEF WorkHeld, TypeOK
<1>5. DeliveredWasAccepted'
  BY DEF DeliveredWasAccepted, TypeOK
<1>. QED
  BY <1>1, <1>2, <1>3, <1>4, <1>5

LEMMA RetryIInv ==
  ASSUME IInv, NEW w \in Workers, NEW delay \in Delays, Retry(w, delay)
  PROVE  IInv'
<1> USE DEF IInv, Retry, Fenced, Drop, Goto, outboxv, rows, fanv, workv, history
<1>1. TypeOK'
  <2>1. current[w] \in Rows /\ now + delay \in Nat
    BY TimingAssumption DEF TimingAssumption, TypeOK, WorkHeld
  <2>. QED
    BY <2>1 DEF TypeOK, Stages, Outcomes, Final
<1>2. FanOutsApart' /\ OwedKept' /\ OwedHaveRows'
  BY FanOutUndisturbed DEF FanOutsApart, TypeOK
<1>3. ClaimsLeased'
  BY DEF ClaimsLeased, TypeOK
<1>4. WorkHeld'
  BY DEF WorkHeld, TypeOK
<1>5. DeliveredWasAccepted'
  BY DEF DeliveredWasAccepted, TypeOK
<1>. QED
  BY <1>1, <1>2, <1>3, <1>4, <1>5

LEMMA GiveUpIInv ==
  ASSUME IInv, NEW w \in Workers, NEW delay \in Delays, GiveUp(w, delay)
  PROVE  IInv'
<1> USE DEF IInv, GiveUp, Decide, Goto, outboxv, rows, fanv, workv, history
<1>1. TypeOK'
  BY DEF TypeOK, Stages, Outcomes, Final
<1>2. FanOutsApart' /\ OwedKept' /\ OwedHaveRows'
  BY FanOutUndisturbed DEF FanOutsApart, TypeOK
<1>3. ClaimsLeased'
  BY DEF ClaimsLeased, TypeOK
<1>4. WorkHeld'
  BY DEF WorkHeld, TypeOK
<1>5. DeliveredWasAccepted'
  BY DEF DeliveredWasAccepted, TypeOK
<1>. QED
  BY <1>1, <1>2, <1>3, <1>4, <1>5

LEMMA RecordFailsIInv ==
  ASSUME IInv, NEW w \in Workers, RecordFails(w)
  PROVE  IInv'
<1> USE DEF IInv, RecordFails, Drop, Goto, outboxv, rows, fanv, workv, history
<1>1. TypeOK'
  BY BoundsAssumption DEF BoundsAssumption, TypeOK, Stages, Outcomes, Final, WorkHeld
<1>2. FanOutsApart' /\ OwedKept' /\ OwedHaveRows'
  BY FanOutUndisturbed DEF FanOutsApart, TypeOK
<1>3. ClaimsLeased'
  BY DEF ClaimsLeased, TypeOK
<1>4. WorkHeld'
  BY DEF WorkHeld, TypeOK
<1>5. DeliveredWasAccepted'
  BY DEF DeliveredWasAccepted, TypeOK
<1>. QED
  BY <1>1, <1>2, <1>3, <1>4, <1>5

LEMMA CrashIInv ==
  ASSUME IInv, NEW w \in Workers, Crash(w)
  PROVE  IInv'
<1> USE DEF IInv, Crash, Goto, NoClaims, outboxv, rows, fanv, workv, history
<1>1. TypeOK'
  <2>1. accepted' \subseteq Rows
    BY DEF TypeOK, WorkHeld
  <2>2. faults' \in 0..MaxFaults
    BY BoundsAssumption DEF BoundsAssumption, TypeOK
  <2>3. token' \in [Workers -> [Rows -> Nat]]
    BY DEF TypeOK
  <2>. QED
    BY <2>1, <2>2, <2>3 DEF TypeOK, Stages, Outcomes, Final
<1>2. FanOutsApart'
  BY DEF FanOutsApart, TypeOK
<1>3. ClaimsLeased'
  BY DEF ClaimsLeased, TypeOK
<1>4. WorkHeld'
  BY DEF WorkHeld, TypeOK
<1>5. OwedKept'
  BY DEF OwedKept, TypeOK, FanOutsApart
<1>6. DeliveredWasAccepted'
  BY DEF DeliveredWasAccepted, TypeOK
<1>7. OwedHaveRows'
  BY DEF OwedHaveRows, TypeOK
<1>. QED
  BY <1>1, <1>2, <1>3, <1>4, <1>5, <1>6, <1>7

LEMMA TickIInv ==
  ASSUME IInv, Tick
  PROVE  IInv'
<1> USE DEF IInv, Tick, outboxv, rows, fanv, workv, history
<1>1. TypeOK'
  BY BoundsAssumption DEF BoundsAssumption, TypeOK, Stages, Outcomes, Final, WorkHeld
<1>2. FanOutsApart' /\ OwedKept' /\ OwedHaveRows'
  BY FanOutUndisturbed DEF FanOutsApart, TypeOK
<1>3. ClaimsLeased'
  BY DEF ClaimsLeased, TypeOK
<1>4. WorkHeld'
  BY DEF WorkHeld, TypeOK
<1>5. DeliveredWasAccepted'
  BY DEF DeliveredWasAccepted, TypeOK
<1>. QED
  BY <1>1, <1>2, <1>3, <1>4, <1>5

LEMMA StutterIInv ==
  ASSUME IInv, UNCHANGED vars
  PROVE  IInv'
<1> USE DEF IInv, vars, outboxv, rows, fanv, workv, history
<1>1. TypeOK'
  BY DEF TypeOK, Stages, Outcomes, Final
<1>2. FanOutsApart' /\ OwedKept' /\ OwedHaveRows'
  BY FanOutUndisturbed DEF FanOutsApart, TypeOK
<1>3. ClaimsLeased'
  BY DEF ClaimsLeased, TypeOK
<1>4. WorkHeld'
  BY DEF WorkHeld, TypeOK
<1>5. DeliveredWasAccepted'
  BY DEF DeliveredWasAccepted, TypeOK
<1>. QED
  BY <1>1, <1>2, <1>3, <1>4, <1>5

LEMMA NextIInv ==
  ASSUME IInv, [Next]_vars
  PROVE  IInv'
<1>1. ASSUME NEW e \in Events, WriteEvent(e) PROVE IInv'
  BY <1>1, WriteEventIInv
<1>2. ASSUME NEW t \in Dests, Resubscribe(t) PROVE IInv'
  BY <1>2, ResubscribeIInv
<1>3. ASSUME NEW w \in Workers, Step(w) PROVE IInv'
  <2>1. CASE Wake(w)
    BY <2>1, WakeIInv
  <2>2. CASE FanOutSelect(w)
    BY <2>2, FanOutSelectIInv
  <2>3. ASSUME NEW e \in Events, FanOutExpand(w, e) PROVE IInv'
    BY <2>3, FanOutExpandIInv
  <2>4. CASE FanOutCommit(w)
    BY <2>4, FanOutCommitIInv
  <2>5. CASE ClaimDue(w)
    BY <2>5, ClaimDueIInv
  <2>6. CASE BatchDone(w)
    BY <2>6, BatchDoneIInv
  <2>7. ASSUME NEW r \in Rows,
               \/ FoundExpired(w, r) \/ Unsendable(w, r)
               \/ SendStart(w, r) \/ SendTooLate(w, r)
        PROVE  IInv'
    BY <2>7, FoundExpiredIInv, UnsendableIInv, SendStartIInv, SendTooLateIInv
  <2>8. ASSUME NEW o \in Outcomes, Answered(w, o) PROVE IInv'
    BY <2>8, AnsweredIInv
  <2>9. CASE AnswerLost(w)
    BY <2>9, AnswerLostIInv
  <2>10. CASE DeadlineEndsSend(w)
    BY <2>10, DeadlineEndsSendIInv
  <2>11. CASE Record(w)
    BY <2>11, RecordIInv
  <2>12. CASE RecordStale(w)
    BY <2>12, RecordStaleIInv
  <2>13. ASSUME NEW delay \in Delays, Retry(w, delay) \/ GiveUp(w, delay) PROVE IInv'
    BY <2>13, RetryIInv, GiveUpIInv
  <2>. QED
    BY <1>3, <2>1, <2>2, <2>3, <2>4, <2>5, <2>6, <2>7, <2>8, <2>9, <2>10, <2>11,
       <2>12, <2>13 DEF Step
<1>4. ASSUME NEW w \in Workers, RecordFails(w) \/ Crash(w) PROVE IInv'
  BY <1>4, RecordFailsIInv, CrashIInv
<1>5. CASE Tick
  BY <1>5, TickIInv
<1>6. CASE UNCHANGED vars
  BY <1>6, StutterIInv
<1>. QED
  BY <1>1, <1>2, <1>3, <1>4, <1>5, <1>6 DEF Next

\* The inductive invariant holds in every reachable state.
THEOREM Invariance == Spec => []IInv
<1>1. Init => IInv
  BY InitIInv DEF Init
<1>. QED
  BY <1>1, NextIInv, PTL DEF Spec

-----------------------------------------------------------------------------
\* The notifier's tables and workers stay within their types: what Record and
\* Retry write is always a delivery status, for whatever a worker holds.
THEOREM TypeCorrect == Spec => []TypeOK
<1>1. IInv => TypeOK
  BY DEF IInv
<1>. QED
  BY <1>1, Invariance, PTL

\* Both would hold the delivery's latest claim.
LEMMA OneSender ==
  ASSUME IInv
  PROVE  NoConcurrentSend
<1> SUFFICES ASSUME NEW v \in Workers, NEW w \in Workers,
                    pc[v] = "send", pc[w] = "send", current[v] = current[w]
             PROVE  v = w
  BY DEF NoConcurrentSend
<1> DEFINE r == current[w]
<1>1. r \in Rows /\ token[v][r] > 0 /\ token[w][r] > 0
  BY DEF IInv, WorkHeld
<1>2. now <= lease[v] /\ now <= lease[w]
  BY DEF IInv, WorkHeld
<1>3. now \in Nat /\ lease[v] \in Nat /\ lease[w] \in Nat
  BY BoundsAssumption DEF BoundsAssumption, IInv, TypeOK
<1>4. token[v][r] \in Nat /\ token[w][r] \in Nat /\ attempts[r] \in Nat
  BY <1>1 DEF IInv, TypeOK
<1>5. token[v][r] = attempts[r] /\ token[w][r] = attempts[r]
  BY <1>1, <1>2, <1>3, <1>4 DEF IInv, ClaimsLeased
<1>. QED
  BY <1>1, <1>5 DEF IInv, ClaimsLeased

\* At most one push request per delivery runs at any time, with any number of
\* notifiers, crashes and expired leases: ClaimDue's strict comparison with
\* locked_until and the request's deadline at LockedUntil together.
THEOREM OneSenderAtATime == Spec => []NoConcurrentSend
<1>1. IInv => NoConcurrentSend
  BY OneSender
<1>. QED
  BY <1>1, Invariance, PTL

\* A delivery is recorded as delivered only when the push service took it.
THEOREM DeliveredOnlyIfAccepted == Spec => []DeliveredWasAccepted
<1>1. IInv => DeliveredWasAccepted
  BY DEF IInv
<1>. QED
  BY <1>1, Invariance, PTL

\* Fan-out loses no delivery: when it has committed an event's dispatched_at,
\* the rows of every destination the event is owed to are there.
THEOREM FanOutIsComplete == Spec => []OwedHaveRows
<1>1. IInv => OwedHaveRows
  BY DEF IInv
<1>. QED
  BY <1>1, Invariance, PTL

\* Record's and Retry's fence keeps a settled delivery as it is.
THEOREM FinalOutcomes == Spec => FinalIsFinal
<1>1. ASSUME IInv, [Next]_vars, NEW r \in Rows, status[r] \in Final
      PROVE  status'[r] = status[r]
  <2> USE DEF Final
  <2>1. status[r] # "pending" /\ status[r] # "none"
    BY <1>1
  <2>2. ASSUME NEW w \in Workers, FanOutCommit(w) PROVE status'[r] = status[r]
    BY <1>1, <2>1, <2>2 DEF FanOutCommit, IInv, FanOutsApart, TypeOK
  <2>3. ASSUME NEW w \in Workers, Record(w) PROVE status'[r] = status[r]
    BY <1>1, <2>1, <2>3 DEF Record, Fenced
  <2>4. CASE UNCHANGED status
    BY <2>4
  <2>. QED
    BY <1>1, <2>2, <2>3, <2>4
    DEF Next, Step, vars, rows, WriteEvent, Resubscribe, Wake, FanOutSelect,
        FanOutExpand, ClaimDue, BatchDone, FoundExpired, Unsendable, SendStart,
        SendTooLate, Answered, AnswerLost, DeadlineEndsSend, RecordStale, Retry,
        GiveUp, RecordFails, Crash, Tick
<1>2. IInv /\ [Next]_vars => [\A r \in Rows : status[r] \in Final =>
                                status'[r] = status[r]]_vars
  BY <1>1
<1>. QED
  BY <1>2, Invariance, PTL DEF Spec, FinalIsFinal

\* What is recorded as delivered is not sent again: a claim still held for it
\* was taken over, so its lease is over and the send does not start.
THEOREM DeliveredOnce == Spec => NoResendAfterDelivered
<1>1. ASSUME IInv, [Next]_vars, NEW w \in Workers, pc'[w] = "send", pc[w] # "send"
      PROVE  status[current'[w]] # "delivered"
  <2>1. PICK r \in Rows : SendStart(w, r)
    BY <1>1
    DEF Next, Step, vars, rows, WriteEvent, Resubscribe, Wake, FanOutSelect,
        FanOutExpand, FanOutCommit, ClaimDue, BatchDone, FoundExpired, Unsendable,
        SendStart, SendTooLate, Answered, AnswerLost, DeadlineEndsSend, Record,
        RecordStale, Retry, GiveUp, RecordFails, Crash, Tick, Drop, Decide, Goto,
        IInv, TypeOK
  <2>2. current'[w] = r /\ token[w][r] > 0 /\ now < lease[w]
    BY <1>1, <2>1 DEF SendStart, Holds, IInv, TypeOK
  <2>3. ~(lease[w] < now)
    BY <1>1, <2>2, BoundsAssumption DEF BoundsAssumption, IInv, TypeOK
  <2>. QED
    BY <1>1, <2>2, <2>3 DEF IInv, ClaimsLeased
<1>2. IInv /\ [Next]_vars =>
        [\A w \in Workers : pc'[w] = "send" /\ pc[w] # "send" =>
            status[current'[w]] # "delivered"]_vars
  BY <1>1
<1>. QED
  BY <1>2, Invariance, PTL DEF Spec, NoResendAfterDelivered
=============================================================================
