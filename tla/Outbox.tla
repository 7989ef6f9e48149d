-------------------------------- MODULE Outbox --------------------------------
(***************************************************************************)
(* The transactional outbox: rows of the OutboxEvent table, the API        *)
(* processes that drain it (OutboxProcessor.handleCron), the in-process    *)
(* event emitter that runs the listeners, the journal that dedupes on its  *)
(* unique reference, and the administrator who replays failed rows.        *)
(*                                                                         *)
(* Every database statement is one atomic step and everything between two  *)
(* awaits of processBatch belongs to the step before it.  Time is the class*)
(* of a row's claimedAt: fresh, past its retry backoff, past the staleness *)
(* threshold; the longest backoff of a retryable attempt (240s) is shorter *)
(* than the threshold (300s), so the classes are passed in that order.     *)
(***************************************************************************)
EXTENDS Naturals, FiniteSets

CONSTANTS
  Workers,             \* API processes, each with its own cron and emitter
  Events,              \* outbox row ids, in createdAt order
  Malformed,           \* rows whose payload fails validation at dispatch
  Ref,                 \* the journal reference each event is posted under
  MaxAttempts,         \* MAX_OUTBOX_ATTEMPTS
  BatchSize,           \* OUTBOX_BATCH_SIZE
  MaxDrainIterations,  \* MAX_DRAIN_ITERATIONS
  MaxFaults,           \* bound on the faults of each kind
  MaxReplays,          \* bound on administrator replays
  NoEvent              \* no row at hand

\* slow: a live worker holds a claim past STALE_PROCESSING_MS.
FaultKinds == {"crash", "database", "listener", "notice", "slow"}

ASSUME EventsAssumption == Events \subseteq Nat /\ NoEvent \notin Events
ASSUME MalformedAssumption == Malformed \subseteq Events
ASSUME RefAssumption == DOMAIN Ref = Events
ASSUME BoundsAssumption == /\ MaxAttempts \in Nat \ {0}
                           /\ BatchSize \in Nat \ {0}
                           /\ MaxDrainIterations \in Nat \ {0}
                           /\ MaxReplays \in Nat
                           /\ MaxFaults \in [FaultKinds -> Nat]

Refs == {Ref[e] : e \in Events}

VARIABLES
  status,     \* row status, or "absent" before its business transaction commits
  attempts,   \* claims of the row since it was recorded or replayed
  claimAge,   \* how long ago claimedAt was, or "unclaimed" when it is null
  pc,         \* where each worker is in handleCron / processBatch
  batch,      \* the rows of its findMany it has not reached, as it read them
  olderClaim, \* rows whose claimedAt is still before its batch's staleBefore
  current,    \* the row it claimed or abandoned last, until it is done with it
  iteration,  \* its drain-loop counter
  wasFull,    \* its batch was full and all PENDING: the loop goes on
  willRetry,  \* what its catch block computed from the attempts it re-read
  scheduled,  \* listeners emitted and not yet run, in the memory of each process
  ledger,     \* number of journal entries under each reference
  announced,  \* rows whose failure reached the administrators
  faults,     \* faults so far, by kind
  replays     \* replays so far

row    == <<status, attempts, claimAge>>
worker == <<pc, batch, olderClaim, current, iteration, wasFull, willRetry>>
effect == <<scheduled, ledger, announced>>
budget == <<faults, replays>>
vars   == <<row, worker, effect, budget>>

Statuses == {"absent", "PENDING", "PROCESSING", "COMPLETED", "FAILED"}
Ages     == {"unclaimed", "fresh", "backedOff", "stale"}
Pcs      == {"idle", "read", "loop", "dispatch", "complete",
             "failed", "writeFailure", "announce"}
Snapshot == [id : Events, status : Statuses, attempts : Nat]

Init ==
  /\ status     = [e \in Events |-> "absent"]
  /\ attempts   = [e \in Events |-> 0]
  /\ claimAge   = [e \in Events |-> "unclaimed"]
  /\ pc         = [w \in Workers |-> "idle"]
  /\ batch      = [w \in Workers |-> {}]
  /\ olderClaim = [w \in Workers |-> {}]
  /\ current    = [w \in Workers |-> NoEvent]
  /\ iteration  = [w \in Workers |-> 0]
  /\ wasFull    = [w \in Workers |-> FALSE]
  /\ willRetry  = [w \in Workers |-> FALSE]
  /\ scheduled  = [w \in Workers |-> {}]
  /\ ledger     = [r \in Refs |-> 0]
  /\ announced  = {}
  /\ faults     = [k \in FaultKinds |-> 0]
  /\ replays    = 0

-------------------------------------------------------------------------------
(* The business transaction and the rows a poll may pick up.               *)

\* A business transaction commits together with its row (OutboxService.enqueue).
Enqueue(e) ==
  /\ status[e] = "absent"
  /\ status' = [status EXCEPT ![e] = "PENDING"]
  /\ UNCHANGED <<attempts, claimAge, worker, effect, budget>>

\* Mutant: the last retry is never due.
RetryDueShort(e) ==
  /\ attempts[e] \in 1 .. MaxAttempts - 2
  /\ status[e] \in {"PENDING", "FAILED"}
  /\ claimAge[e] \in {"backedOff", "stale"}

\* retryEligibilityBranches: attempts 1 .. MAX-1, once the backoff has passed.
RetryDue(e) ==
  /\ attempts[e] \in 1 .. MaxAttempts - 1
  /\ \/ status[e] \in {"PENDING", "FAILED"} /\ claimAge[e] \in {"backedOff", "stale"}
     \/ status[e] = "FAILED" /\ claimAge[e] = "unclaimed"

StaleClaim(e) == status[e] = "PROCESSING" /\ claimAge[e] = "stale"

Eligible == {e \in Events : \/ status[e] = "PENDING" /\ attempts[e] = 0
                            \/ RetryDue(e)
                            \/ StaleClaim(e)}

\* The oldest BatchSize of a set of rows: orderBy createdAt, take.
IsOldest(B, S) ==
  /\ B \subseteq S
  /\ \A e \in B : \A f \in S \ B : e < f
  /\ Cardinality(B) = IF Cardinality(S) < BatchSize THEN Cardinality(S) ELSE BatchSize

-------------------------------------------------------------------------------
(* One drain: handleCron and processBatch.                                 *)

\* The cron fires; isDraining lets it in only when the previous drain is over.
StartDrain(w) ==
  /\ pc[w] = "idle"
  /\ pc' = [pc EXCEPT ![w] = "read"]
  /\ iteration' = [iteration EXCEPT ![w] = 0]
  /\ UNCHANGED <<row, batch, olderClaim, current, wasFull, willRetry, effect, budget>>

ReadBatch(w) ==
  /\ pc[w] = "read"
  /\ \E B \in SUBSET Eligible :
       /\ IsOldest(B, Eligible)
       /\ batch' = [batch EXCEPT ![w] =
            {[id |-> e, status |-> status[e], attempts |-> attempts[e]] : e \in B}]
       /\ wasFull' = [wasFull EXCEPT ![w] =
            Cardinality(B) = BatchSize /\ \A e \in B : status[e] = "PENDING"]
  /\ olderClaim' = [olderClaim EXCEPT ![w] = {e \in Events : claimAge[e] = "stale"}]
  /\ pc' = [pc EXCEPT ![w] = "loop"]
  /\ UNCHANGED <<row, current, iteration, willRetry, effect, budget>>

\* The row the for loop looks at: the oldest left in the batch.
IsNext(w, s) == /\ pc[w] = "loop"
                /\ s \in batch[w]
                /\ \A t \in batch[w] : s.id <= t.id

\* Mutant: a claim guarded by the row id alone.
ClaimMatchesId(w, s) == s.status = "PROCESSING" => s.id \in olderClaim[w]

\* where: { id, status, attempts, [claimedAt < staleBefore] } of the snapshot.
ClaimMatches(w, s) ==
  /\ status[s.id] = s.status
  /\ attempts[s.id] = s.attempts
  /\ s.status = "PROCESSING" => s.id \in olderClaim[w]

\* Mutant: one attempt too many before giving up.
IsExhaustedLate(s) == s.status = "PROCESSING" /\ s.attempts > MaxAttempts

IsExhausted(s) == s.status = "PROCESSING" /\ s.attempts >= MaxAttempts

Drop(w, s) == batch' = [batch EXCEPT ![w] = @ \ {s}]

\* updateMany counts one row: the claim is this worker's.
Claim(w, s) ==
  /\ IsNext(w, s)
  /\ ~IsExhausted(s)
  /\ ClaimMatches(w, s)
  /\ status' = [status EXCEPT ![s.id] = "PROCESSING"]
  /\ attempts' = [attempts EXCEPT ![s.id] = @ + 1]
  /\ claimAge' = [claimAge EXCEPT ![s.id] = "fresh"]
  /\ olderClaim' = [v \in Workers |-> olderClaim[v] \ {s.id}]
  /\ Drop(w, s)
  /\ current' = [current EXCEPT ![w] = s.id]
  /\ pc' = [pc EXCEPT ![w] = "dispatch"]
  /\ UNCHANGED <<iteration, wasFull, willRetry, effect, budget>>

\* abandonStaleClaim: the last attempt died with its worker.
Abandon(w, s) ==
  /\ IsNext(w, s)
  /\ IsExhausted(s)
  /\ ClaimMatches(w, s)
  /\ status' = [status EXCEPT ![s.id] = "FAILED"]
  /\ Drop(w, s)
  /\ current' = [current EXCEPT ![w] = s.id]
  /\ pc' = [pc EXCEPT ![w] = "announce"]
  /\ UNCHANGED <<attempts, claimAge, olderClaim, iteration, wasFull, willRetry,
                 effect, budget>>

\* updateMany counts no row: somebody else moved it since the read.
LoseRace(w, s) ==
  /\ IsNext(w, s)
  /\ ~ClaimMatches(w, s)
  /\ Drop(w, s)
  /\ UNCHANGED <<row, pc, olderClaim, current, iteration, wasFull, willRetry,
                 effect, budget>>

\* Mutant: the payload is not validated.
DispatchUnvalidated(w) ==
  /\ pc[w] = "dispatch"
  /\ pc' = [pc EXCEPT ![w] = "complete"]
  /\ scheduled' = [scheduled EXCEPT ![w] = @ \union {current[w]}]
  /\ UNCHANGED <<row, batch, olderClaim, current, iteration, wasFull, willRetry,
                 ledger, announced, budget>>

\* Mutant: no listener is registered for the event.
DispatchUnheard(w) ==
  /\ pc[w] = "dispatch"
  /\ pc' = [pc EXCEPT ![w] = "complete"]
  /\ UNCHANGED <<row, batch, olderClaim, current, iteration, wasFull, willRetry,
                 effect, budget>>

\* dispatchOutboxEvent: validation throws, or the listeners are handed to the
\* emitter, which does not wait for them.
Dispatch(w) ==
  /\ pc[w] = "dispatch"
  /\ IF current[w] \in Malformed
       THEN /\ pc' = [pc EXCEPT ![w] = "failed"]
            /\ UNCHANGED scheduled
       ELSE /\ pc' = [pc EXCEPT ![w] = "complete"]
            /\ scheduled' = [scheduled EXCEPT ![w] = @ \union {current[w]}]
  /\ UNCHANGED <<row, batch, olderClaim, current, iteration, wasFull, willRetry,
                 ledger, announced, budget>>

\* The worker is done with its row and goes on with the for loop.
Advance(w) == /\ pc' = [pc EXCEPT ![w] = "loop"]
              /\ current' = [current EXCEPT ![w] = NoEvent]

\* update where: { id } only: whatever happened to the row meanwhile.
Complete(w) ==
  /\ pc[w] = "complete"
  /\ status' = [status EXCEPT ![current[w]] = "COMPLETED"]
  /\ Advance(w)
  /\ UNCHANGED <<attempts, claimAge, batch, olderClaim, iteration, wasFull,
                 willRetry, effect, budget>>

\* Mutant: off by one in willRetry.
ReadFailureLate(w) ==
  /\ pc[w] = "failed"
  /\ willRetry' = [willRetry EXCEPT ![w] = attempts[current[w]] <= MaxAttempts]
  /\ pc' = [pc EXCEPT ![w] = "writeFailure"]
  /\ UNCHANGED <<row, batch, olderClaim, current, iteration, wasFull, effect, budget>>

\* catch: findUnique, and willRetry from the attempts it finds.
ReadFailure(w) ==
  /\ pc[w] = "failed"
  /\ willRetry' = [willRetry EXCEPT ![w] = attempts[current[w]] < MaxAttempts]
  /\ pc' = [pc EXCEPT ![w] = "writeFailure"]
  /\ UNCHANGED <<row, batch, olderClaim, current, iteration, wasFull, effect, budget>>

\* Mutant: a permanent failure is not announced.
WriteFailureSilently(w) ==
  /\ pc[w] = "writeFailure"
  /\ status' = [status EXCEPT ![current[w]] =
                  IF willRetry[w] THEN "PENDING" ELSE "FAILED"]
  /\ Advance(w)
  /\ willRetry' = [willRetry EXCEPT ![w] = FALSE]
  /\ UNCHANGED <<attempts, claimAge, batch, olderClaim, iteration, wasFull,
                 effect, budget>>

\* catch: the second, again unguarded, update.
WriteFailure(w) ==
  /\ pc[w] = "writeFailure"
  /\ status' = [status EXCEPT ![current[w]] =
                  IF willRetry[w] THEN "PENDING" ELSE "FAILED"]
  /\ IF willRetry[w] THEN Advance(w)
     ELSE pc' = [pc EXCEPT ![w] = "announce"] /\ UNCHANGED current
  /\ willRetry' = [willRetry EXCEPT ![w] = FALSE]
  /\ UNCHANGED <<attempts, claimAge, batch, olderClaim, iteration, wasFull,
                 effect, budget>>

\* announcePermanentFailure: every SUPER_ADMIN is notified.
Announce(w) ==
  /\ pc[w] = "announce"
  /\ announced' = announced \union {current[w]}
  /\ Advance(w)
  /\ UNCHANGED <<row, batch, olderClaim, iteration, wasFull, willRetry,
                 scheduled, ledger, budget>>

\* processBatch returns: read again after a full all-PENDING batch, up to
\* MaxDrainIterations times, or leave the drain.
EndBatch(w) ==
  /\ pc[w] = "loop"
  /\ batch[w] = {}
  /\ IF wasFull[w] /\ iteration[w] + 1 < MaxDrainIterations
       THEN /\ pc' = [pc EXCEPT ![w] = "read"]
            /\ iteration' = [iteration EXCEPT ![w] = @ + 1]
       ELSE /\ pc' = [pc EXCEPT ![w] = "idle"]
            /\ iteration' = [iteration EXCEPT ![w] = 0]
  /\ wasFull' = [wasFull EXCEPT ![w] = FALSE]
  /\ olderClaim' = [olderClaim EXCEPT ![w] = {}]
  /\ UNCHANGED <<row, batch, current, willRetry, effect, budget>>

-------------------------------------------------------------------------------
(* The emitter, the administrator, time and faults.                        *)

\* createJournalEntry: the unique reference turns a second create into a read.
PostJournal(r) == ledger' = [ledger EXCEPT ![r] = IF @ = 0 THEN 1 ELSE @]

RunListener(w, e) ==
  /\ e \in scheduled[w]
  /\ scheduled' = [scheduled EXCEPT ![w] = @ \ {e}]
  /\ PostJournal(Ref[e])
  /\ UNCHANGED <<row, worker, announced, budget>>

Fault(k) == /\ faults[k] < MaxFaults[k]
            /\ faults' = [faults EXCEPT ![k] = @ + 1]
            /\ UNCHANGED replays

\* A listener throws: the emitter's wrapper logs the error and drops it.
ListenerFails(w, e) ==
  /\ e \in scheduled[w]
  /\ Fault("listener")
  /\ scheduled' = [scheduled EXCEPT ![w] = @ \ {e}]
  /\ UNCHANGED <<row, worker, ledger, announced>>

\* OutboxService.replayFailed.
Replay(e) ==
  /\ status[e] = "FAILED"
  /\ replays < MaxReplays
  /\ replays' = replays + 1
  /\ status' = [status EXCEPT ![e] = "PENDING"]
  /\ attempts' = [attempts EXCEPT ![e] = 0]
  /\ claimAge' = [claimAge EXCEPT ![e] = "unclaimed"]
  /\ olderClaim' = [v \in Workers |-> olderClaim[v] \ {e}]
  /\ announced' = announced \ {e}
  /\ UNCHANGED <<pc, batch, current, iteration, wasFull, willRetry, scheduled,
                 ledger, faults>>

\* The worker is between its claim of e and its last update of e.
Holds(w, e) == /\ current[w] = e
               /\ pc[w] \in {"dispatch", "complete", "failed", "writeFailure"}

\* Time passes for a claim.
Age(e) ==
  /\ \/ /\ claimAge[e] = "fresh"
        /\ claimAge' = [claimAge EXCEPT ![e] = "backedOff"]
     \/ /\ claimAge[e] = "backedOff"
        /\ \A w \in Workers : ~Holds(w, e)
        /\ claimAge' = [claimAge EXCEPT ![e] = "stale"]
  /\ UNCHANGED <<status, attempts, worker, effect, budget>>

\* The claim goes stale while a live worker is still at it.
OutliveClaim(e) ==
  /\ claimAge[e] = "backedOff"
  /\ \E w \in Workers : Holds(w, e)
  /\ Fault("slow")
  /\ claimAge' = [claimAge EXCEPT ![e] = "stale"]
  /\ UNCHANGED <<status, attempts, worker, effect>>

\* The drain is over, however it ended: the worker keeps nothing of it.
LeaveDrain(w) ==
  /\ pc' = [pc EXCEPT ![w] = "idle"]
  /\ batch' = [batch EXCEPT ![w] = {}]
  /\ olderClaim' = [olderClaim EXCEPT ![w] = {}]
  /\ current' = [current EXCEPT ![w] = NoEvent]
  /\ iteration' = [iteration EXCEPT ![w] = 0]
  /\ wasFull' = [wasFull EXCEPT ![w] = FALSE]
  /\ willRetry' = [willRetry EXCEPT ![w] = FALSE]

\* The process dies and comes back: scheduled listeners die with it.
Crash(w) ==
  /\ Fault("crash")
  /\ LeaveDrain(w)
  /\ scheduled' = [scheduled EXCEPT ![w] = {}]
  /\ UNCHANGED <<row, ledger, announced>>

\* A statement outside the inner try throws: handleCron's finally ends the drain.
AbortDrain(w) ==
  /\ pc[w] \in {"read", "loop", "failed", "writeFailure"}
  /\ Fault("database")
  /\ LeaveDrain(w)
  /\ UNCHANGED <<row, effect>>

\* The COMPLETED update throws: the catch block treats it as a failed dispatch.
CompleteFails(w) ==
  /\ pc[w] = "complete"
  /\ Fault("database")
  /\ pc' = [pc EXCEPT ![w] = "failed"]
  /\ UNCHANGED <<row, batch, olderClaim, current, iteration, wasFull, willRetry, effect>>

\* Announcing throws: the error is swallowed and the notice is lost.
NoticeFails(w) ==
  /\ pc[w] = "announce"
  /\ Fault("notice")
  /\ Advance(w)
  /\ UNCHANGED <<row, batch, olderClaim, iteration, wasFull, willRetry, effect>>

-------------------------------------------------------------------------------

ProcessNext(w) == \E s \in batch[w] : Claim(w, s) \/ Abandon(w, s) \/ LoseRace(w, s)

Step(w) == \/ StartDrain(w)
           \/ ReadBatch(w)
           \/ ProcessNext(w)
           \/ Dispatch(w)
           \/ Complete(w)
           \/ ReadFailure(w)
           \/ WriteFailure(w)
           \/ Announce(w)
           \/ EndBatch(w)

Faulty(w) == \/ Crash(w)
             \/ AbortDrain(w)
             \/ CompleteFails(w)
             \/ NoticeFails(w)
             \/ \E e \in Events : ListenerFails(w, e)

Next == \/ \E e \in Events : Enqueue(e) \/ Replay(e) \/ Age(e) \/ OutliveClaim(e)
        \/ \E w \in Workers : Step(w) \/ Faulty(w)
        \/ \E w \in Workers, e \in Events : RunListener(w, e)

Spec == Init /\ [][Next]_vars

\* The cron fires every second in every process, awaited statements return,
\* setImmediate callbacks run and claims age; nothing obliges a fault, a
\* business transaction or a replay.
Fairness == /\ \A w \in Workers : WF_vars(Step(w))
            /\ \A w \in Workers : \A e \in Events : WF_vars(RunListener(w, e))
            /\ \A e \in Events : WF_vars(Age(e))

FairSpec == Spec /\ Fairness

-------------------------------------------------------------------------------
(* Properties.                                                             *)

\* Every variable keeps its type; a row is never claimed more than MaxAttempts
\* times between two replays.
TypeOK ==
  /\ status \in [Events -> Statuses]
  /\ attempts \in [Events -> 0 .. MaxAttempts]
  /\ claimAge \in [Events -> Ages]
  /\ pc \in [Workers -> Pcs]
  /\ batch \in [Workers -> SUBSET Snapshot]
  /\ olderClaim \in [Workers -> SUBSET Events]
  /\ current \in [Workers -> Events \union {NoEvent}]
  /\ iteration \in [Workers -> 0 .. MaxDrainIterations - 1]
  /\ wasFull \in [Workers -> BOOLEAN]
  /\ willRetry \in [Workers -> BOOLEAN]
  /\ scheduled \in [Workers -> SUBSET Events]
  /\ ledger \in [Refs -> Nat]
  /\ announced \in SUBSET Events
  /\ faults \in [FaultKinds -> Nat]
  /\ replays \in Nat

\* No worker has outlived its claim.
Timely == faults["slow"] = 0

\* While no worker outlives its claim, at most one worker is between the claim
\* and the last update of a row, and the row still carries that claim.
SoleHolder ==
  Timely => \A e \in Events, w \in Workers : Holds(w, e) =>
              /\ status[e] = "PROCESSING"
              /\ \A v \in Workers : Holds(v, e) => v = w

\* A row that waits for another attempt has one left, so some poll will pick it
\* up: it is never in a state that neither the poll nor GET /outbox/failed shows,
\* as long as no worker outlives its claim.
NoStrandedRow ==
  Timely => \A e \in Events : status[e] = "PENDING" => attempts[e] < MaxAttempts

\* The administrators have heard that the row failed for good, or a worker is at it.
Reported(e) == e \in announced \/ \E w \in Workers : pc[w] = "announce" /\ current[w] = e

Unheard == {e \in Events : status[e] = "FAILED" /\ ~Reported(e)}

\* FAILED is written first and announced afterwards (announcePermanentFailure), so a
\* process that dies in between, or a notice that fails, leaves a failure nobody heard
\* of: one each, and nothing else leaves any, neither lost races, replays, aborted
\* drains nor workers that outlive their claim.
FailureAnnounced == Cardinality(Unheard) <= faults["crash"] + faults["notice"]

\* A COMPLETED event has its journal entry, or its listener is still to run:
\* docs/architecture.md says side effects "cannot desync from committed state".
NothingLost ==
  \A e \in Events : status[e] = "COMPLETED" =>
    ledger[Ref[e]] > 0 \/ \E w \in Workers : e \in scheduled[w]

\* Once COMPLETED, a row is never delivered again, unless a worker outlives its claim.
CompletedIsFinal ==
  [][Timely => \A e \in Events : status[e] = "COMPLETED" => status'[e] = "COMPLETED"]_vars

\* Every recorded row ends up COMPLETED, or FAILED for an administrator to see.
RowsSettle ==
  \A e \in Events : status[e] \in {"PENDING", "PROCESSING"}
                      ~> status[e] \in {"COMPLETED", "FAILED"}

\* The promise of the outbox and the ledger, seen through the journal.
Promise == INSTANCE PostingPromise
             WITH owed <- {Ref[e] : e \in {f \in Events \ Malformed : status[f] # "absent"}},
                  posted <- ledger

\* The outbox never posts what is not owed and never posts twice.
KeepsPromiseSafely == Promise!Safety

\* Without crashes and listener errors every owed reference is posted.
KeepsPromise == Promise!Spec
===============================================================================
