----------------------------- MODULE OutboxProofs -----------------------------
(***************************************************************************)
(* Theorems about Outbox for every set of workers and events, every number *)
(* of attempts, batch size and fault bound.                                *)
(***************************************************************************)
EXTENDS Outbox, FiniteSetTheorems, TLAPS

\* What a poll read is claimable: a snapshot waiting for an attempt has one left.
BatchInv ==
  \A w \in Workers : \A s \in batch[w] :
    /\ s.status \in {"PENDING", "PROCESSING", "FAILED"}
    /\ s.status # "PROCESSING" => s.attempts < MaxAttempts
    /\ status[s.id] # "absent"

\* A worker past its claim works on a recorded row, only well-formed rows are
\* scheduled, and an unrecorded row has not been claimed.
WorkInv ==
  /\ \A w \in Workers :
       /\ pc[w] \in {"dispatch", "complete", "failed", "writeFailure", "announce"}
            => current[w] \in Events /\ status[current[w]] # "absent"
  /\ \A w \in Workers : \A e \in scheduled[w] :
       e \notin Malformed /\ status[e] # "absent"
  /\ \A e \in Events : status[e] = "absent" => attempts[e] = 0

TypeInv == TypeOK /\ BatchInv /\ WorkInv

LEMMA InitType == Init => TypeInv
BY EventsAssumption, BoundsAssumption
   DEF Init, TypeInv, TypeOK, BatchInv, WorkInv, Statuses, Ages, Pcs, FaultKinds

\* Every step keeps the types, the claimable snapshots and the recorded rows.
LEMMA NextType == TypeInv /\ [Next]_vars => TypeInv'
<1> SUFFICES ASSUME TypeInv, [Next]_vars PROVE TypeInv'
  OBVIOUS
<1> USE EventsAssumption, BoundsAssumption, MalformedAssumption
    DEF TypeInv, TypeOK, BatchInv, WorkInv, Statuses, Ages, Pcs,
        row, worker, effect, budget
<1>1. ASSUME NEW e \in Events, Enqueue(e) PROVE TypeInv'
  BY <1>1 DEF Enqueue, Snapshot
<1>2. ASSUME NEW e \in Events, Replay(e) PROVE TypeInv'
  BY <1>2 DEF Replay, Snapshot
<1>3. ASSUME NEW e \in Events, Age(e) PROVE TypeInv'
  BY <1>3 DEF Age
<1>4. ASSUME NEW w \in Workers, StartDrain(w) PROVE TypeInv'
  BY <1>4 DEF StartDrain
<1>5. ASSUME NEW w \in Workers, ReadBatch(w) PROVE TypeInv'
  BY <1>5 DEF ReadBatch, Snapshot, IsOldest, Eligible, RetryDue, StaleClaim
<1>6. ASSUME NEW w \in Workers, ProcessNext(w) PROVE TypeInv'
  <2> PICK s \in batch[w] : Claim(w, s) \/ Abandon(w, s) \/ LoseRace(w, s)
    BY <1>6 DEF ProcessNext
  <2>1. CASE Claim(w, s)
    BY <2>1 DEF Claim, IsNext, ClaimMatches, IsExhausted, Drop, Snapshot
  <2>2. CASE Abandon(w, s)
    BY <2>2 DEF Abandon, IsNext, ClaimMatches, IsExhausted, Drop, Snapshot
  <2>3. CASE LoseRace(w, s)
    BY <2>3 DEF LoseRace, Drop
  <2> QED BY <2>1, <2>2, <2>3
<1>7. ASSUME NEW w \in Workers, Dispatch(w) PROVE TypeInv'
  <2>1. TypeOK'
    BY <1>7 DEF Dispatch
  <2>2. BatchInv'
    BY <1>7 DEF Dispatch, Snapshot
  <2>3. WorkInv'
    <3>1. current[w] \in Events /\ status[current[w]] # "absent"
      BY <1>7 DEF Dispatch
    <3>2. CASE current[w] \in Malformed
      BY <1>7, <3>1, <3>2 DEF Dispatch
    <3>3. CASE current[w] \notin Malformed
      <4>1. pc' = [pc EXCEPT ![w] = "complete"]
        BY <1>7, <3>3 DEF Dispatch
      <4>2. scheduled' = [scheduled EXCEPT ![w] = @ \union {current[w]}]
        BY <1>7, <3>3 DEF Dispatch
      <4>3. ASSUME NEW v \in Workers, NEW e \in scheduled'[v]
            PROVE  e \notin Malformed /\ status[e] # "absent"
        BY <3>1, <3>3, <4>2, <4>3
      <4> QED BY <1>7, <3>1, <4>1, <4>3 DEF Dispatch
    <3> QED BY <3>2, <3>3
  <2> QED BY <2>1, <2>2, <2>3
<1>8. ASSUME NEW w \in Workers, Complete(w) PROVE TypeInv'
  BY <1>8 DEF Complete, Advance, Snapshot
<1>9. ASSUME NEW w \in Workers, ReadFailure(w) PROVE TypeInv'
  BY <1>9 DEF ReadFailure
<1>10. ASSUME NEW w \in Workers, WriteFailure(w) PROVE TypeInv'
  <2>1. TypeOK'
    BY <1>10 DEF WriteFailure, Advance
  <2>2. BatchInv'
    BY <1>10 DEF WriteFailure, Snapshot
  <2>3. WorkInv'
    <3>1. CASE willRetry[w]
      BY <1>10, <3>1 DEF WriteFailure, Advance
    <3>2. CASE ~willRetry[w]
      BY <1>10, <3>2 DEF WriteFailure
    <3> QED BY <3>1, <3>2
  <2> QED BY <2>1, <2>2, <2>3
<1>11. ASSUME NEW w \in Workers, Announce(w) PROVE TypeInv'
  BY <1>11 DEF Announce, Advance
<1>12. ASSUME NEW w \in Workers, EndBatch(w) PROVE TypeInv'
  BY <1>12 DEF EndBatch
<1>13. ASSUME NEW w \in Workers, Crash(w) PROVE TypeInv'
  <2>1. faults' \in [FaultKinds -> Nat]
    BY <1>13 DEF Crash, Fault, FaultKinds
  <2> QED BY <2>1, <1>13 DEF Crash, LeaveDrain, Fault
<1>14. ASSUME NEW w \in Workers, AbortDrain(w) PROVE TypeInv'
  <2>1. faults' \in [FaultKinds -> Nat]
    BY <1>14 DEF AbortDrain, Fault, FaultKinds
  <2> QED BY <2>1, <1>14 DEF AbortDrain, LeaveDrain, Fault
<1>15. ASSUME NEW w \in Workers, CompleteFails(w) PROVE TypeInv'
  <2>1. faults' \in [FaultKinds -> Nat]
    BY <1>15 DEF CompleteFails, Fault, FaultKinds
  <2> QED BY <2>1, <1>15 DEF CompleteFails, Fault
<1>16. ASSUME NEW w \in Workers, NoticeFails(w) PROVE TypeInv'
  <2>1. faults' \in [FaultKinds -> Nat]
    BY <1>16 DEF NoticeFails, Fault, FaultKinds
  <2> QED BY <2>1, <1>16 DEF NoticeFails, Advance, Fault
<1>17. ASSUME NEW w \in Workers, NEW e \in Events, ListenerFails(w, e) PROVE TypeInv'
  <2>1. faults' \in [FaultKinds -> Nat]
    BY <1>17 DEF ListenerFails, Fault, FaultKinds
  <2> QED BY <2>1, <1>17 DEF ListenerFails, Fault
<1>18. ASSUME NEW w \in Workers, NEW e \in Events, RunListener(w, e) PROVE TypeInv'
  BY <1>18 DEF RunListener, PostJournal, Refs
<1>19. ASSUME NEW e \in Events, OutliveClaim(e) PROVE TypeInv'
  <2>1. faults' \in [FaultKinds -> Nat]
    BY <1>19 DEF OutliveClaim, Fault, FaultKinds
  <2> QED BY <2>1, <1>19 DEF OutliveClaim, Fault
<1>20. CASE UNCHANGED vars
  BY <1>20 DEF vars
<1> QED
  BY <1>1, <1>2, <1>3, <1>4, <1>5, <1>6, <1>7, <1>8, <1>9, <1>10, <1>11, <1>12,
     <1>13, <1>14, <1>15, <1>16, <1>17, <1>18, <1>19, <1>20
     DEF Next, Step, Faulty

\* The types hold always: in particular no row is claimed more than
\* MaxAttempts times between two replays, however many workers poll.
THEOREM TypeCorrect == Spec => []TypeOK
<1>1. Init => TypeInv
  BY InitType
<1>2. TypeInv /\ [Next]_vars => TypeInv'
  BY NextType
<1>3. TypeInv => TypeOK
  BY DEF TypeInv
<1> QED BY <1>1, <1>2, <1>3, PTL DEF Spec

-------------------------------------------------------------------------------
(* Claims, as long as no worker outlives one.                              *)

\* A held row is PROCESSING under a claim that is not stale, held by nobody
\* else; what a batch remembers as stale still is; a retry that was decided
\* still has an attempt left.
ClaimInv ==
  /\ \A w \in Workers, e \in Events : Holds(w, e) =>
       /\ status[e] = "PROCESSING"
       /\ claimAge[e] \in {"fresh", "backedOff"}
       /\ \A v \in Workers : Holds(v, e) => v = w
  /\ \A w \in Workers : \A e \in olderClaim[w] : claimAge[e] = "stale"
  /\ \A w \in Workers : pc[w] = "writeFailure" /\ willRetry[w] =>
       attempts[current[w]] < MaxAttempts
  /\ \A e \in Events : status[e] = "PENDING" => attempts[e] < MaxAttempts

LEMMA InitClaim == Init => ClaimInv
BY BoundsAssumption DEF Init, ClaimInv, Holds

\* A row that any claim or abandonment matches is held by nobody.
LEMMA ClaimableIsFree ==
  ASSUME TypeInv, ClaimInv, NEW w \in Workers, NEW s \in batch[w],
         ClaimMatches(w, s), NEW v \in Workers
  PROVE  ~Holds(v, s.id)
<1>1. s.id \in Events /\ s.status \in {"PENDING", "PROCESSING", "FAILED"}
  BY DEF TypeInv, TypeOK, BatchInv, Snapshot
<1> QED BY <1>1 DEF ClaimInv, ClaimMatches, TypeInv, TypeOK

\* The catch block decides on a retry only if an attempt is left, and only for
\* its own row.
LEMMA RetryDecision ==
  ASSUME NEW w \in Workers, ReadFailure(w), willRetry'[w], willRetry \in [Workers -> BOOLEAN]
  PROVE  attempts[current[w]] < MaxAttempts
BY DEF ReadFailure

LEMMA OtherDecisions ==
  ASSUME NEW w \in Workers, ReadFailure(w), NEW v \in Workers, v # w,
         willRetry \in [Workers -> BOOLEAN]
  PROVE  willRetry'[v] <=> willRetry[v]
BY DEF ReadFailure

\* Faults are counted and never forgotten.
LEMMA TimelyBefore == ASSUME TypeInv, [Next]_vars, Timely' PROVE Timely
<1> USE DEF Timely, TypeInv, TypeOK, FaultKinds
<1>1. ASSUME NEW k \in FaultKinds, Fault(k) PROVE Timely
  BY <1>1 DEF Fault
<1>2. (\A k \in FaultKinds : ~Fault(k)) => UNCHANGED faults
  BY DEF Next, Step, Faulty, ProcessNext, Enqueue, Replay, Age, OutliveClaim, StartDrain,
         ReadBatch, Claim, Abandon, LoseRace, Dispatch, Complete, ReadFailure,
         WriteFailure, Announce, EndBatch, RunListener, Crash, AbortDrain,
         CompleteFails, NoticeFails, ListenerFails, vars, budget
<1> QED BY <1>1, <1>2

\* Every step keeps the claims apart, unless a worker outlives its claim by it.
LEMMA NextClaim ==
  ASSUME Timely', TypeInv, ClaimInv, [Next]_vars
  PROVE  ClaimInv'
<1> USE EventsAssumption, BoundsAssumption
    DEF TypeInv, TypeOK, WorkInv, Pcs, ClaimInv, Holds,
        row, worker, effect, budget
<1>1. ASSUME NEW e \in Events, Enqueue(e) PROVE ClaimInv'
  BY <1>1 DEF Enqueue
<1>2. ASSUME NEW e \in Events, Replay(e) PROVE ClaimInv'
  BY <1>2 DEF Replay
<1>3. ASSUME NEW e \in Events, Age(e) PROVE ClaimInv'
  BY <1>3 DEF Age
<1>4. ASSUME NEW w \in Workers, StartDrain(w) PROVE ClaimInv'
  BY <1>4 DEF StartDrain
<1>5. ASSUME NEW w \in Workers, ReadBatch(w) PROVE ClaimInv'
  BY <1>5 DEF ReadBatch
<1>6. ASSUME NEW w \in Workers, ProcessNext(w) PROVE ClaimInv'
  <2> PICK s \in batch[w] : Claim(w, s) \/ Abandon(w, s) \/ LoseRace(w, s)
    BY <1>6 DEF ProcessNext
  <2> s.id \in Events /\ s.attempts \in Nat
    BY DEF Snapshot
  <2>1. CASE Claim(w, s)
    <3>1. \A v \in Workers : ~Holds(v, s.id)
      BY <2>1, ClaimableIsFree DEF Claim
    <3> QED BY <2>1, <3>1 DEF Claim, IsNext
  <2>2. CASE Abandon(w, s)
    <3>1. \A v \in Workers : ~Holds(v, s.id)
      BY <2>2, ClaimableIsFree DEF Abandon
    <3> QED BY <2>2, <3>1 DEF Abandon, IsNext
  <2>3. CASE LoseRace(w, s)
    BY <2>3 DEF LoseRace
  <2> QED BY <2>1, <2>2, <2>3
<1>7. ASSUME NEW w \in Workers, Dispatch(w) PROVE ClaimInv'
  BY <1>7 DEF Dispatch
<1>8. ASSUME NEW w \in Workers, Complete(w) PROVE ClaimInv'
  BY <1>8 DEF Complete, Advance
<1>9. ASSUME NEW w \in Workers, ReadFailure(w) PROVE ClaimInv'
  <2>1. /\ pc[w] = "failed" /\ pc' = [pc EXCEPT ![w] = "writeFailure"]
        /\ UNCHANGED <<status, attempts, claimAge, olderClaim, current>>
    BY <1>9 DEF ReadFailure
  <2>2. \A v \in Workers, e \in Events : Holds(v, e)' <=> Holds(v, e)
    BY <2>1
  <2>3. ASSUME NEW v \in Workers, pc'[v] = "writeFailure", willRetry'[v]
        PROVE  attempts[current[v]] < MaxAttempts
    <3>1. CASE v = w
      BY <1>9, <2>3, <3>1, RetryDecision
    <3>2. CASE v # w
      <4>1. willRetry[v] /\ pc[v] = "writeFailure"
        BY <1>9, <2>1, <2>3, <3>2, OtherDecisions
      <4> QED BY <4>1
    <3> QED BY <3>1, <3>2
  <2> QED BY <2>1, <2>2, <2>3
<1>10. ASSUME NEW w \in Workers, WriteFailure(w) PROVE ClaimInv'
  <2> DEFINE e == current[w]
  <2> e \in Events /\ Holds(w, e)
    BY <1>10 DEF WriteFailure
  <2>1. CASE willRetry[w]
    <3>1. /\ status' = [status EXCEPT ![e] = "PENDING"]
          /\ pc' = [pc EXCEPT ![w] = "loop"]
          /\ current' = [current EXCEPT ![w] = NoEvent]
          /\ willRetry' = [willRetry EXCEPT ![w] = FALSE]
          /\ UNCHANGED <<attempts, claimAge, olderClaim>>
      BY <1>10, <2>1 DEF WriteFailure, Advance
    <3>2. attempts[e] < MaxAttempts
      BY <1>10, <2>1 DEF WriteFailure
    <3>3. \A v \in Workers : v # w => ~Holds(v, e)
      OBVIOUS
    <3> QED BY <3>1, <3>2, <3>3
  <2>2. CASE ~willRetry[w]
    BY <1>10, <2>2 DEF WriteFailure, Advance
  <2> QED BY <2>1, <2>2
<1>11. ASSUME NEW w \in Workers, Announce(w) PROVE ClaimInv'
  BY <1>11 DEF Announce, Advance
<1>12. ASSUME NEW w \in Workers, EndBatch(w) PROVE ClaimInv'
  BY <1>12 DEF EndBatch
<1>13. ASSUME NEW w \in Workers, Crash(w) PROVE ClaimInv'
  BY <1>13 DEF Crash, LeaveDrain
<1>14. ASSUME NEW w \in Workers, AbortDrain(w) PROVE ClaimInv'
  BY <1>14 DEF AbortDrain, LeaveDrain
<1>15. ASSUME NEW w \in Workers, CompleteFails(w) PROVE ClaimInv'
  BY <1>15 DEF CompleteFails
<1>16. ASSUME NEW w \in Workers, NoticeFails(w) PROVE ClaimInv'
  BY <1>16 DEF NoticeFails, Advance
<1>17. ASSUME NEW w \in Workers, NEW e \in Events, ListenerFails(w, e) PROVE ClaimInv'
  BY <1>17 DEF ListenerFails
<1>18. ASSUME NEW w \in Workers, NEW e \in Events, RunListener(w, e) PROVE ClaimInv'
  BY <1>18 DEF RunListener
<1>19. ASSUME NEW e \in Events, OutliveClaim(e) PROVE ClaimInv'
  BY <1>19 DEF OutliveClaim, Fault, Timely, FaultKinds
<1>20. CASE UNCHANGED vars
  BY <1>20 DEF vars
<1> QED
  BY <1>1, <1>2, <1>3, <1>4, <1>5, <1>6, <1>7, <1>8, <1>9, <1>10, <1>11, <1>12,
     <1>13, <1>14, <1>15, <1>16, <1>17, <1>18, <1>19, <1>20
     DEF Next, Step, Faulty

\* The inductive invariant of the claims, for every number of processes.
LEMMA ClaimsKept == Spec => [](TypeInv /\ (Timely => ClaimInv))
<1>1. Init => TypeInv /\ (Timely => ClaimInv)
  BY InitType, InitClaim
<1>2. TypeInv /\ (Timely => ClaimInv) /\ [Next]_vars
        => TypeInv' /\ (Timely => ClaimInv)'
  BY NextType, NextClaim, TimelyBefore
<1> QED BY <1>1, <1>2, PTL DEF Spec

\* Competing pollers are safe: two processes never work on one row under live
\* claims, and the row stays PROCESSING until its holder finishes.
THEOREM SoleHolderHolds == Spec => []SoleHolder
<1>1. TypeInv /\ (Timely => ClaimInv) => SoleHolder
  BY DEF ClaimInv, SoleHolder
<1> QED BY <1>1, ClaimsKept, PTL

\* While no worker outlives its claim, no row waits for an attempt it does not have.
THEOREM NoStrandedRowHolds == Spec => []NoStrandedRow
<1>1. TypeInv /\ (Timely => ClaimInv) => NoStrandedRow
  BY DEF ClaimInv, NoStrandedRow
<1> QED BY <1>1, ClaimsKept, PTL

\* The only steps that change a row's status.
LEMMA StatusStep ==
  ASSUME [Next]_vars
  PROVE  \/ UNCHANGED status
         \/ \E e \in Events : Enqueue(e) \/ Replay(e)
         \/ \E w \in Workers : \E s \in batch[w] : Claim(w, s) \/ Abandon(w, s)
         \/ \E w \in Workers : Complete(w) \/ WriteFailure(w)
BY DEF Next, Step, Faulty, ProcessNext, Age, StartDrain, ReadBatch, LoseRace, Dispatch,
       ReadFailure, Announce, EndBatch, RunListener, Crash, AbortDrain, CompleteFails,
       NoticeFails, ListenerFails, OutliveClaim, vars, row

\* While no worker outlives its claim, a COMPLETED row is never claimed, failed or replayed.
THEOREM CompletedIsFinalHolds == Spec => CompletedIsFinal
<1>1. TypeInv /\ (Timely => ClaimInv) /\ [Next]_vars =>
        (Timely => \A e \in Events : status[e] = "COMPLETED" => status'[e] = "COMPLETED")
  <2> SUFFICES ASSUME TypeInv, ClaimInv, [Next]_vars,
                      NEW e \in Events, status[e] = "COMPLETED"
               PROVE  status'[e] = "COMPLETED"
    OBVIOUS
  <2> USE DEF TypeInv, TypeOK
  <2>1. ASSUME NEW f \in Events, Enqueue(f) \/ Replay(f)
        PROVE  status'[e] = "COMPLETED"
    BY <2>1 DEF Enqueue, Replay
  <2>2. ASSUME NEW w \in Workers, NEW s \in batch[w], Claim(w, s) \/ Abandon(w, s)
        PROVE  status'[e] = "COMPLETED"
    <3>1. s.id # e /\ s.id \in Events
      BY <2>2 DEF Claim, Abandon, ClaimMatches, BatchInv, Snapshot
    <3> QED BY <2>2, <3>1 DEF Claim, Abandon
  <2>3. ASSUME NEW w \in Workers, Complete(w) PROVE status'[e] = "COMPLETED"
    BY <2>3 DEF Complete
  <2>4. ASSUME NEW w \in Workers, WriteFailure(w) PROVE status'[e] = "COMPLETED"
    <3>1. current[w] # e
      BY <2>4 DEF WriteFailure, ClaimInv, Holds
    <3> QED BY <2>4, <3>1 DEF WriteFailure
  <2> QED BY <2>1, <2>2, <2>3, <2>4, StatusStep
<1> QED BY <1>1, ClaimsKept, PTL DEF CompletedIsFinal, Spec

-------------------------------------------------------------------------------
(* Permanent failures reach the administrators.                            *)

\* What may silence a failure.
Silences == faults["crash"] + faults["notice"]

ReportInv == IsFiniteSet(Unheard) /\ Cardinality(Unheard) <= Silences

LEMMA SilencesGrow ==
  ASSUME TypeInv, [Next]_vars
  PROVE  /\ Silences \in Nat /\ Silences' \in Nat /\ Silences' >= Silences
         /\ \A w \in Workers : Crash(w) \/ NoticeFails(w) => Silences' = Silences + 1
<1> USE DEF TypeInv, TypeOK, FaultKinds
<1>1. faults["crash"] \in Nat /\ faults["notice"] \in Nat
  OBVIOUS
<1>2. ASSUME NEW k \in FaultKinds, Fault(k)
      PROVE  /\ k = "crash" => faults'["crash"] = faults["crash"] + 1
             /\ k # "crash" => faults'["crash"] = faults["crash"]
             /\ k = "notice" => faults'["notice"] = faults["notice"] + 1
             /\ k # "notice" => faults'["notice"] = faults["notice"]
  BY <1>2 DEF Fault
<1>3. (\A k \in FaultKinds : ~Fault(k)) => UNCHANGED faults
  BY DEF Next, Step, Faulty, ProcessNext, Enqueue, Replay, Age, OutliveClaim, StartDrain,
         ReadBatch, Claim, Abandon, LoseRace, Dispatch, Complete, ReadFailure,
         WriteFailure, Announce, EndBatch, RunListener, Crash, AbortDrain,
         CompleteFails, NoticeFails, ListenerFails, vars, budget
<1>4. ASSUME NEW w \in Workers, Crash(w) \/ NoticeFails(w) PROVE Silences' = Silences + 1
  <2>1. CASE Fault("crash")
    BY <1>1, <1>2, <2>1 DEF Silences
  <2>2. CASE Fault("notice")
    BY <1>1, <1>2, <2>2 DEF Silences
  <2> QED BY <1>4, <2>1, <2>2 DEF Crash, NoticeFails
<1>5. Silences \in Nat /\ Silences' \in Nat /\ Silences' >= Silences
  <2>1. CASE \A k \in FaultKinds : ~Fault(k)
    BY <1>1, <1>3, <2>1 DEF Silences
  <2>2. ASSUME NEW k \in FaultKinds, Fault(k)
        PROVE  Silences \in Nat /\ Silences' \in Nat /\ Silences' >= Silences
    BY <1>1, <1>2, <2>2 DEF Silences
  <2> QED BY <2>1, <2>2
<1> QED BY <1>4, <1>5

\* A step forgets a report only if it makes the row wait again or loses a worker.
LEMMA ReportStays ==
  ASSUME TypeInv, [Next]_vars, NEW e \in Events, Reported(e), ~Replay(e),
         \A w \in Workers : ~Crash(w) /\ ~NoticeFails(w)
  PROVE  Reported(e)'
<1> USE DEF TypeInv, TypeOK, Reported
<1>1. ASSUME NEW f \in Events, Replay(f) PROVE Reported(e)'
  BY <1>1 DEF Replay
<1>2. CASE \A f \in Events : ~Replay(f)
  <2>1. announced \subseteq announced'
    BY <1>2 DEF Next, Step, Faulty, ProcessNext, Enqueue, Age, OutliveClaim, StartDrain,
           ReadBatch, Claim, Abandon, LoseRace, Dispatch, Complete, ReadFailure,
           WriteFailure, Announce, EndBatch, RunListener, AbortDrain,
           CompleteFails, ListenerFails, vars, effect
  <2> SUFFICES ASSUME NEW w \in Workers, pc[w] = "announce", current[w] = e PROVE Reported(e)'
    BY <2>1
  <2>2. ASSUME NEW v \in Workers, Announce(v) PROVE Reported(e)'
    BY <2>2 DEF Announce, Advance
  <2>3. CASE \A v \in Workers : ~Announce(v)
    <3>1. ASSUME NEW v \in Workers, Step(v) \/ Faulty(v)
          PROVE  pc'[w] = pc[w] /\ current'[w] = current[w]
      <4>1. CASE \E f \in Events : ListenerFails(v, f)
        BY <4>1 DEF ListenerFails, worker
      <4>2. CASE ~ \E f \in Events : ListenerFails(v, f)
        <5>1. v # w
          BY <2>3, <3>1, <4>2
             DEF Step, Faulty, ProcessNext, StartDrain, ReadBatch, IsNext, Claim, Abandon,
                 LoseRace, Dispatch, Complete, ReadFailure, WriteFailure, EndBatch,
                 AbortDrain, CompleteFails
        <5> QED BY <2>3, <3>1, <4>2, <5>1
               DEF Step, Faulty, ProcessNext, StartDrain, ReadBatch, Claim, Abandon,
                   LoseRace, Dispatch, Complete, ReadFailure, WriteFailure, EndBatch,
                   AbortDrain, CompleteFails, Advance, LeaveDrain
      <4> QED BY <4>1, <4>2
    <3>2. ASSUME \A v \in Workers : ~Step(v) /\ ~Faulty(v) PROVE UNCHANGED <<pc, current>>
      BY <1>2, <3>2 DEF Next, Enqueue, Age, OutliveClaim, RunListener, vars, worker
    <3> QED BY <3>1, <3>2
  <2> QED BY <2>2, <2>3
<1> QED BY <1>1, <1>2

\* A step that loses no worker and no notice leaves no failure unheard.
LEMMA HeardStays ==
  ASSUME TypeInv, [Next]_vars, \A w \in Workers : ~Crash(w) /\ ~NoticeFails(w)
  PROVE  Unheard' \subseteq Unheard
<1> SUFFICES ASSUME NEW e \in Events, status'[e] = "FAILED", ~Reported(e)'
             PROVE  status[e] = "FAILED" /\ ~Reported(e)
  BY DEF Unheard
<1> USE DEF TypeInv, TypeOK
<1>1. CASE status[e] = "FAILED"
  <2>1. ~Replay(e)
    BY DEF Replay
  <2> QED BY <1>1, <2>1, ReportStays
<1>2. CASE status[e] # "FAILED"
  <2>1. ~ \E f \in Events : Enqueue(f) \/ Replay(f)
    BY <1>2 DEF Enqueue, Replay
  <2>2. ASSUME NEW w \in Workers, NEW s \in batch[w], Claim(w, s) \/ Abandon(w, s)
        PROVE  FALSE
    BY <1>2, <2>2 DEF Claim, Abandon, Snapshot, Reported
  <2>3. ASSUME NEW w \in Workers, Complete(w) \/ WriteFailure(w) PROVE FALSE
    BY <1>2, <2>3 DEF Complete, WriteFailure, Reported
  <2> QED BY <1>2, <2>1, <2>2, <2>3, StatusStep
<1> QED BY <1>1, <1>2

\* A worker that dies, or fails to announce, silences the one failure it was at.
LEMMA OneSilenced ==
  ASSUME TypeInv, NEW w \in Workers, Crash(w) \/ NoticeFails(w)
  PROVE  Unheard' \subseteq Unheard \union {current[w]}
<1>1. /\ status' = status /\ announced' = announced
      /\ \A v \in Workers : v # w => pc'[v] = pc[v] /\ current'[v] = current[v]
  BY DEF Crash, NoticeFails, LeaveDrain, Advance, row, effect, TypeInv, TypeOK
<1> QED BY <1>1 DEF Unheard, Reported

LEMMA NextReport == ASSUME TypeInv, ReportInv, [Next]_vars PROVE ReportInv'
<1>1. Silences \in Nat /\ Silences' \in Nat /\ Silences' >= Silences
  BY SilencesGrow
<1>2. IsFiniteSet(Unheard) /\ Cardinality(Unheard) \in Nat /\ Cardinality(Unheard) <= Silences
  BY FS_CardinalityType DEF ReportInv
<1>3. CASE \A w \in Workers : ~Crash(w) /\ ~NoticeFails(w)
  <2>1. IsFiniteSet(Unheard') /\ Cardinality(Unheard') <= Cardinality(Unheard)
    BY <1>2, <1>3, HeardStays, FS_Subset
  <2>2. Cardinality(Unheard') \in Nat
    BY <2>1, FS_CardinalityType
  <2> QED BY <1>1, <1>2, <2>1, <2>2 DEF ReportInv
<1>4. ASSUME NEW w \in Workers, Crash(w) \/ NoticeFails(w) PROVE ReportInv'
  <2> DEFINE more == Unheard \union {current[w]}
  <2>1. Unheard' \subseteq more /\ Silences' = Silences + 1
    BY <1>4, OneSilenced, SilencesGrow
  <2>2. IsFiniteSet(more) /\ Cardinality(more) <= Cardinality(Unheard) + 1
    <3>1. IsFiniteSet(more)
      BY <1>2, FS_AddElement
    <3>2. Cardinality(more) = Cardinality(Unheard) \/ Cardinality(more) = Cardinality(Unheard) + 1
      BY <1>2, FS_AddElement
    <3> QED BY <1>2, <3>1, <3>2
  <2> HIDE DEF more
  <2>3. IsFiniteSet(Unheard') /\ Cardinality(Unheard') <= Cardinality(more)
    BY <2>1, <2>2, FS_Subset
  <2>4. Cardinality(Unheard') \in Nat /\ Cardinality(more) \in Nat
    BY <2>2, <2>3, FS_CardinalityType
  <2> QED BY <1>1, <1>2, <2>1, <2>2, <2>3, <2>4 DEF ReportInv
<1> QED BY <1>3, <1>4

\* There are never more failures nobody heard of than processes that died and
\* notices that failed, however many workers, rows and replays there are.
THEOREM FailureAnnouncedHolds == Spec => []FailureAnnounced
<1>1. Init => TypeInv /\ ReportInv
  <2> SUFFICES ASSUME Init PROVE ReportInv
    BY InitType
  <2>1. Unheard = {}
    BY DEF Init, Unheard
  <2>2. Silences = 0
    BY DEF Init, Silences, FaultKinds
  <2> QED BY <2>1, <2>2, FS_EmptySet DEF ReportInv
<1>2. TypeInv /\ ReportInv /\ [Next]_vars => TypeInv' /\ ReportInv'
  BY NextType, NextReport
<1>3. TypeInv /\ ReportInv => FailureAnnounced
  BY DEF ReportInv, Silences, FailureAnnounced
<1> QED BY <1>1, <1>2, <1>3, PTL DEF Spec

-------------------------------------------------------------------------------
(* The ledger: the outbox keeps the promise of PostingPromise.             *)

Owed == {Ref[e] : e \in {f \in Events \ Malformed : status[f] # "absent"}}

\* One entry at most per reference, and only for what is owed.
LedgerInv == \A r \in Refs : ledger[r] <= 1 /\ (ledger[r] > 0 => r \in Owed)

LEMMA RecordedStays ==
  ASSUME TypeInv, [Next]_vars, NEW e \in Events, status[e] # "absent"
  PROVE  status'[e] # "absent"
<1> USE DEF TypeInv, TypeOK, Statuses
<1>1. ASSUME NEW f \in Events, Enqueue(f) \/ Replay(f)
      PROVE  status'[e] # "absent"
  BY <1>1 DEF Enqueue, Replay
<1>2. ASSUME NEW w \in Workers, NEW s \in batch[w], Claim(w, s) \/ Abandon(w, s)
      PROVE  status'[e] # "absent"
  BY <1>2 DEF Claim, Abandon, Snapshot
<1>3. ASSUME NEW w \in Workers, Complete(w) \/ WriteFailure(w)
      PROVE  status'[e] # "absent"
  BY <1>3 DEF Complete, WriteFailure
<1> QED BY <1>1, <1>2, <1>3, StatusStep

\* Only a running listener touches the ledger, and it posts what is owed once.
LEMMA LedgerStep ==
  ASSUME TypeInv, [Next]_vars
  PROVE  \/ UNCHANGED ledger
         \/ \E r \in Owed : ledger[r] = 0 /\ ledger' = [ledger EXCEPT ![r] = 1]
                            /\ UNCHANGED status
<1>1. ASSUME NEW w \in Workers, NEW e \in Events, RunListener(w, e)
      PROVE  \/ UNCHANGED ledger
             \/ \E r \in Owed : ledger[r] = 0 /\ ledger' = [ledger EXCEPT ![r] = 1]
                                /\ UNCHANGED status
  <2>1. Ref[e] \in Owed /\ Ref[e] \in Refs
    BY <1>1 DEF RunListener, TypeInv, WorkInv, Owed, Refs
  <2>2. CASE ledger[Ref[e]] = 0
    BY <1>1, <2>1, <2>2 DEF RunListener, PostJournal, row, TypeInv, TypeOK
  <2>3. CASE ledger[Ref[e]] # 0
    BY <1>1, <2>1, <2>3 DEF RunListener, PostJournal, TypeInv, TypeOK
  <2> QED BY <2>2, <2>3
<1>2. (\A w \in Workers, e \in Events : ~RunListener(w, e)) => UNCHANGED ledger
  BY DEF Next, Step, Faulty, ProcessNext, Enqueue, Replay, Age, StartDrain, ReadBatch,
         Claim, Abandon, LoseRace, Dispatch, Complete, ReadFailure, WriteFailure,
         Announce, EndBatch, Crash, AbortDrain, CompleteFails, NoticeFails,
         ListenerFails, OutliveClaim, vars, effect
<1> QED BY <1>1, <1>2

LEMMA OwedStays == ASSUME TypeInv, [Next]_vars PROVE Owed \subseteq Owed'
BY RecordedStays, MalformedAssumption DEF Owed

LEMMA LedgerKept == Spec => [](TypeInv /\ LedgerInv)
<1>1. Init => TypeInv /\ LedgerInv
  BY InitType DEF Init, LedgerInv
<1>2. TypeInv /\ LedgerInv /\ [Next]_vars => TypeInv' /\ LedgerInv'
  <2> SUFFICES ASSUME TypeInv, LedgerInv, [Next]_vars PROVE LedgerInv'
    BY NextType
  <2>1. Owed \subseteq Refs
    BY DEF Owed, Refs
  <2>2. CASE UNCHANGED ledger
    BY <2>2, OwedStays DEF LedgerInv, Refs
  <2>3. CASE \E r \in Owed : ledger[r] = 0 /\ ledger' = [ledger EXCEPT ![r] = 1]
                             /\ UNCHANGED status
    BY <2>1, <2>3, OwedStays DEF LedgerInv, Refs, TypeInv, TypeOK
  <2> QED BY <2>2, <2>3, LedgerStep
<1> QED BY <1>1, <1>2, PTL DEF Spec

\* A step makes at most the reference of the row it records owed.
LEMMA OwedStep ==
  ASSUME TypeInv, [Next]_vars
  PROVE  \/ UNCHANGED Owed
         \/ \E r \in Refs : Owed' = Owed \union {r} /\ UNCHANGED ledger
<1>1. ASSUME NEW e \in Events, Enqueue(e)
      PROVE  \/ UNCHANGED Owed
             \/ \E r \in Refs : Owed' = Owed \union {r} /\ UNCHANGED ledger
  <2>1. status' = [status EXCEPT ![e] = "PENDING"] /\ UNCHANGED ledger
    BY <1>1 DEF Enqueue, effect
  <2>2. \A f \in Events : status'[f] # "absent" <=> f = e \/ status[f] # "absent"
    BY <2>1 DEF TypeInv, TypeOK
  <2>3. CASE e \in Malformed
    BY <2>2, <2>3, MalformedAssumption DEF Owed
  <2>4. CASE e \notin Malformed
    <3>1. Owed' = Owed \union {Ref[e]}
      BY <2>2, <2>4, MalformedAssumption DEF Owed
    <3> QED BY <2>1, <3>1 DEF Refs
  <2> QED BY <2>3, <2>4
<1>2. CASE \A e \in Events : ~Enqueue(e)
  <2>1. \A e \in Events : status[e] = "absent" => status'[e] = "absent"
    <3> SUFFICES ASSUME NEW e \in Events, status[e] = "absent"
                 PROVE  status'[e] = "absent"
      OBVIOUS
    <3> USE DEF TypeInv, TypeOK
    <3>1. ASSUME NEW f \in Events, Replay(f) PROVE status'[e] = "absent"
      BY <3>1 DEF Replay
    <3>2. ASSUME NEW w \in Workers, NEW s \in batch[w], Claim(w, s) \/ Abandon(w, s)
          PROVE  status'[e] = "absent"
      BY <3>2 DEF Claim, Abandon, ClaimMatches, BatchInv, Snapshot
    <3>3. ASSUME NEW w \in Workers, Complete(w) \/ WriteFailure(w)
          PROVE  status'[e] = "absent"
      BY <3>3 DEF Complete, WriteFailure, WorkInv
    <3> QED BY <1>2, <3>1, <3>2, <3>3, StatusStep
  <2>2. \A e \in Events : status'[e] # "absent" <=> status[e] # "absent"
    BY <2>1, RecordedStays
  <2> QED BY <2>2, MalformedAssumption DEF Owed
<1> QED BY <1>1, <1>2

\* The outbox, with any number of competing, crashing, slow or stale workers,
\* implements the safety part of the posting promise.
THEOREM OutboxKeepsPromise == Spec => KeepsPromiseSafely
<1>1. Init => Promise!Init
  BY DEF Init, Promise!Init
<1>2. TypeInv /\ [Next]_vars => [Promise!Next]_(Promise!vars)
  <2> SUFFICES ASSUME TypeInv, [Next]_vars PROVE [Promise!Next]_(Promise!vars)
    OBVIOUS
  <2>1. CASE UNCHANGED <<Owed, ledger>>
    BY <2>1 DEF Owed, Promise!vars
  <2>2. ASSUME NEW r \in Refs, Owed' = Owed \union {r}, UNCHANGED ledger
        PROVE  Promise!Next
    BY <2>2 DEF Owed, Promise!Next, Promise!Commit
  <2>3. ASSUME NEW r \in Owed, ledger[r] = 0, ledger' = [ledger EXCEPT ![r] = 1],
               UNCHANGED Owed
        PROVE  Promise!Next
    <3>1. r \in Refs
      BY DEF Owed, Refs
    <3> QED BY <2>3, <3>1 DEF Owed, Promise!Next, Promise!Post
  <2>4. UNCHANGED status => UNCHANGED Owed
    BY DEF Owed
  <2> QED BY <2>1, <2>2, <2>3, <2>4, LedgerStep, OwedStep
<1> QED BY <1>1, <1>2, LedgerKept, PTL DEF Spec, KeepsPromiseSafely, Promise!Safety

===============================================================================
