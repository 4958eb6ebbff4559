--------------------------- MODULE EventPipeline ---------------------------
(***************************************************************************)
(* The durable event pipeline: business transactions append outbox events  *)
(* (lib/outbox.ts), the outbox publisher turns each into one delivery per  *)
(* subscription (worker/outboxPublisher.ts), and the event bus hands the   *)
(* deliveries to their handlers (lib/automation/domainEventBus.ts).  Both  *)
(* stages claim rows with a 60 second lease, count the attempt when they   *)
(* claim, and hold back an event while an earlier one of its aggregate is  *)
(* unsettled.  One subscription is modelled; subscriptions share nothing   *)
(* but the outbox.                                                         *)
(*                                                                         *)
(* A worker's lease owner is a random id per batch; a worker only writes   *)
(* rows of its current batch, so its name stands for that id.              *)
(***************************************************************************)
EXTENDS Naturals, FiniteSets

CONSTANTS
  Events,           \* event numbers, in the order (created_at, id)
  Aggregate,        \* the aggregate an event belongs to
  Workers,          \* worker processes, or overlapping HTTP ticks
  Nobody,           \* a null lease owner, and no delivery in hand
  MaxRetries,       \* outboxPublisher's MAX_ATTEMPTS
  MaxAttempts,      \* EventSubscription.maxAttempts
  RecoverEachCycle, \* TRUE: the HTTP tick; FALSE: the long-running worker
  PublishCovers,    \* a publishing batch ends before its leases do
  LeaseCovers,      \* a delivery batch ends before its leases do
  MaxFaults         \* bound on crashes and database errors

ASSUME PipelineAssumption ==
  /\ Events \subseteq Nat
  /\ Nobody \notin Workers \cup Events
  /\ MaxRetries \in Nat \ {0}
  /\ MaxAttempts \in Nat \ {0}
  /\ RecoverEachCycle \in BOOLEAN
  /\ PublishCovers \in BOOLEAN
  /\ LeaseCovers \in BOOLEAN
  /\ MaxFaults \in Nat

VARIABLES
  event,     \* OutboxEvent.status, "ABSENT" before its transaction commits
  retries,   \* OutboxEvent.retryCount
  eOwner,    \* OutboxEvent.leaseOwner
  eLease,    \* OutboxEvent.leaseExpiresAt: null, in the future, or past
  eDue,      \* OutboxEvent.nextAttemptAt <= now
  delivery,  \* EventDelivery.status, "ABSENT" before it is created
  attempts,  \* EventDelivery.attempts
  dOwner,    \* EventDelivery.leaseOwner
  dLease,    \* EventDelivery.leaseExpiresAt
  dDue,      \* EventDelivery.nextAttemptAt <= now
  pc,        \* where a worker is in its cycle
  batch,     \* the rows a worker has claimed and not yet worked through
  cur,       \* the event a worker is publishing, or whose handler it is running
  handled,   \* how often the handler completed for an event (observed)
  late,      \* the events handled after a later one of theirs (observed)
  revived,   \* the events published after they were given up (observed)
  faults     \* crashes and errors so far

outbox == <<event, retries, eOwner, eLease, eDue>>
deliveries == <<delivery, attempts, dOwner, dLease, dDue>>
memory == <<pc, batch, cur>>
observed == <<handled, late, revived>>
vars == <<outbox, deliveries, memory, observed, faults>>

EventStatuses == {"ABSENT", "PENDING", "PROCESSING", "FAILED", "PUBLISHED", "DEAD"}
DeliveryStatuses == {"ABSENT", "PENDING", "PROCESSING", "RETRY", "DELIVERED", "DEAD"}
Leases == {"none", "live", "expired"}

\* Handler completions are counted up to one more than the properties need.
HandledCap == MaxFaults + 2

TypeOK ==
  /\ event \in [Events -> EventStatuses]
  /\ retries \in [Events -> 0..MaxRetries]
  /\ eOwner \in [Events -> Workers \cup {Nobody}]
  /\ eLease \in [Events -> Leases]
  /\ eDue \in [Events -> BOOLEAN]
  /\ delivery \in [Events -> DeliveryStatuses]
  /\ attempts \in [Events -> 0..MaxAttempts]
  /\ dOwner \in [Events -> Workers \cup {Nobody}]
  /\ dLease \in [Events -> Leases]
  /\ dDue \in [Events -> BOOLEAN]
  /\ pc \in [Workers -> {"down", "idle", "claim", "publish", "write",
                         "dispatch", "deliver", "handle", "ack"}]
  /\ batch \in [Workers -> SUBSET Events]
  /\ cur \in [Workers -> Events \cup {Nobody}]
  /\ handled \in [Events -> 0..HandledCap]
  /\ late \subseteq Events
  /\ revived \subseteq Events
  /\ faults \in 0..MaxFaults

Init ==
  /\ event = [e \in Events |-> "ABSENT"]
  /\ retries = [e \in Events |-> 0]
  /\ eOwner = [e \in Events |-> Nobody]
  /\ eLease = [e \in Events |-> "none"]
  /\ eDue = [e \in Events |-> TRUE]
  /\ delivery = [e \in Events |-> "ABSENT"]
  /\ attempts = [e \in Events |-> 0]
  /\ dOwner = [e \in Events |-> Nobody]
  /\ dLease = [e \in Events |-> "none"]
  /\ dDue = [e \in Events |-> TRUE]
  /\ pc = [w \in Workers |-> "down"]
  /\ batch = [w \in Workers |-> {}]
  /\ cur = [w \in Workers |-> Nobody]
  /\ handled = [e \in Events |-> 0]
  /\ late = {}
  /\ revived = {}
  /\ faults = 0

\* f precedes e in e's aggregate.
Precedes(f, e) == f < e /\ Aggregate[f] = Aggregate[e]
-----------------------------------------------------------------------------
(* Starting up and recovering expired claims.                              *)

\* recordOutboxEvent commits with the business change.  The changes of one
\* aggregate lock its row, so its events commit in creation order.
Commit(e) ==
  /\ event[e] = "ABSENT"
  /\ \A f \in Events : Precedes(f, e) => event[f] # "ABSENT"
  /\ event' = [event EXCEPT ![e] = "PENDING"]
  /\ UNCHANGED <<retries, eOwner, eLease, eDue, deliveries, memory, observed, faults>>

\* A claim whose lease has run out.
ExpiredEvent(e) == event[e] = "PROCESSING" /\ eLease[e] = "expired"
ExpiredDelivery(e) == delivery[e] = "PROCESSING" /\ dLease[e] = "expired"

\* Mutant: recovers a claim for another attempt even if it was the last one.
RecoveredLate(out, n, max) == out

\* Mutant: writes the outbox's word for a failed attempt to either table.
RecoveredAsFailed(out, n, max) == IF n >= max THEN "DEAD" ELSE "FAILED"

\* What becomes of a row whose claim failed: queued again, or given up.
Recovered(out, n, max) == IF n >= max THEN "DEAD" ELSE out

\* recoverExpiredOutboxClaims and recoverExpiredDeliveries, one transaction
\* each on tables of their own.
RecoverExpired ==
  /\ event' = [e \in Events |-> IF ExpiredEvent(e)
                 THEN Recovered("FAILED", retries[e], MaxRetries) ELSE event[e]]
  /\ eOwner' = [e \in Events |-> IF ExpiredEvent(e) THEN Nobody ELSE eOwner[e]]
  /\ eLease' = [e \in Events |-> IF ExpiredEvent(e) THEN "none" ELSE eLease[e]]
  /\ eDue' = [e \in Events |-> eDue[e] \/ ExpiredEvent(e)]
  /\ delivery' = [e \in Events |-> IF ExpiredDelivery(e)
                    THEN Recovered("RETRY", attempts[e], MaxAttempts)
                    ELSE delivery[e]]
  /\ dOwner' = [e \in Events |-> IF ExpiredDelivery(e) THEN Nobody ELSE dOwner[e]]
  /\ dLease' = [e \in Events |-> IF ExpiredDelivery(e) THEN "none" ELSE dLease[e]]
  /\ dDue' = [e \in Events |-> dDue[e] \/ ExpiredDelivery(e)]
  /\ UNCHANGED <<retries, attempts>>

\* The worker's initialisation, before its first tick.
Boot(w) ==
  /\ pc[w] = "down"
  /\ RecoverExpired
  /\ pc' = [pc EXCEPT ![w] = "idle"]
  /\ UNCHANGED <<batch, cur, observed, faults>>

\* A tick: the HTTP one recovers expired claims before the batches.
StartCycle(w) ==
  /\ pc[w] = "idle"
  /\ IF RecoverEachCycle THEN RecoverExpired ELSE UNCHANGED <<outbox, deliveries>>
  /\ pc' = [pc EXCEPT ![w] = "claim"]
  /\ UNCHANGED <<batch, cur, observed, faults>>
-----------------------------------------------------------------------------
(* publishOutboxBatch.                                                     *)

\* Mutant: an event does not wait for the earlier ones of its aggregate.
FirstInLineDropped(e) == TRUE

\* NOT EXISTS an earlier event of the aggregate that is neither published
\* nor given up.
FirstInLine(e) ==
  \A f \in Events :
    Precedes(f, e) /\ event[f] # "ABSENT" => event[f] \in {"PUBLISHED", "DEAD"}

EventCandidates ==
  {e \in Events : /\ event[e] \in {"PENDING", "FAILED"}
                  /\ retries[e] < MaxRetries
                  /\ eDue[e]
                  /\ FirstInLine(e)}

ClaimEvents(w) ==
  /\ pc[w] = "claim"
  /\ LET S == EventCandidates
     IN /\ event' = [e \in Events |-> IF e \in S THEN "PROCESSING" ELSE event[e]]
        /\ retries' = [e \in Events |-> IF e \in S THEN retries[e] + 1 ELSE retries[e]]
        /\ eOwner' = [e \in Events |-> IF e \in S THEN w ELSE eOwner[e]]
        /\ eLease' = [e \in Events |-> IF e \in S THEN "live" ELSE eLease[e]]
        /\ batch' = [batch EXCEPT ![w] = S]
        /\ pc' = [pc EXCEPT ![w] = IF S = {} THEN "dispatch" ELSE "publish"]
  /\ UNCHANGED <<eDue, deliveries, cur, observed, faults>>

\* The event is dealt with; the rest of the worker's publishing batch follows.
PublishNext(w, e) ==
  /\ batch' = [batch EXCEPT ![w] = @ \ {e}]
  /\ cur' = [cur EXCEPT ![w] = Nobody]
  /\ pc' = [pc EXCEPT ![w] = IF batch[w] \subseteq {e} THEN "dispatch" ELSE "publish"]

\* WHERE leaseOwner = owner AND status = PROCESSING, in the SELECT that the
\* publishing transaction begins with, and in the catch block's update.
OwnsEvent(w, e) == event[e] = "PROCESSING" /\ eOwner[e] = w

\* The SELECT takes no lock.  If the claim was lost it throws, and the catch
\* block's update, with the same guard, changes nothing.
ReadEvent(w) ==
  /\ pc[w] = "publish"
  /\ \E e \in batch[w] :
       IF OwnsEvent(w, e)
       THEN /\ cur' = [cur EXCEPT ![w] = e]
            /\ batch' = [batch EXCEPT ![w] = @ \ {e}]
            /\ pc' = [pc EXCEPT ![w] = "write"]
       ELSE PublishNext(w, e)
  /\ UNCHANGED <<outbox, deliveries, observed, faults>>

\* Mutant: marks the event published and creates its delivery afterwards.
PublishNotAtomic(w) ==
  /\ pc[w] = "write"
  /\ event' = [event EXCEPT ![cur[w]] = "PUBLISHED"]
  /\ eOwner' = [eOwner EXCEPT ![cur[w]] = Nobody]
  /\ eLease' = [eLease EXCEPT ![cur[w]] = "none"]
  /\ PublishNext(w, cur[w])
  /\ UNCHANGED <<retries, eDue, deliveries, observed, faults>>

\* The rest of the transaction, which becomes visible as a whole: the delivery
\* is upserted, and the event updated by its id alone, whatever has become of
\* the claim since the SELECT.
Publish(w) ==
  /\ pc[w] = "write"
  /\ LET e == cur[w]
     IN /\ event' = [event EXCEPT ![e] = "PUBLISHED"]
        /\ eOwner' = [eOwner EXCEPT ![e] = Nobody]
        /\ eLease' = [eLease EXCEPT ![e] = "none"]
        /\ delivery' = [delivery EXCEPT ![e] = IF @ = "ABSENT" THEN "PENDING" ELSE @]
        /\ revived' = IF event[e] = "DEAD" THEN revived \cup {e} ELSE revived
        /\ PublishNext(w, e)
  /\ UNCHANGED <<retries, eDue, attempts, dOwner, dLease, dDue, handled, late, faults>>

\* The transaction fails at any point, and the catch block queues the event
\* again or gives it up, if the worker still owns it.
PublishError(w) ==
  /\ faults < MaxFaults
  /\ faults' = faults + 1
  /\ \E e \in Events :
       /\ \/ pc[w] = "publish" /\ e \in batch[w]
          \/ pc[w] = "write" /\ e = cur[w]
       /\ PublishNext(w, e)
       /\ IF OwnsEvent(w, e)
          THEN /\ event' = [event EXCEPT ![e] =
                              Recovered("FAILED", retries[e], MaxRetries)]
               /\ eOwner' = [eOwner EXCEPT ![e] = Nobody]
               /\ eLease' = [eLease EXCEPT ![e] = "none"]
               /\ eDue' = [eDue EXCEPT ![e] = FALSE]
          ELSE UNCHANGED <<event, eOwner, eLease, eDue>>
  /\ UNCHANGED <<retries, deliveries, observed>>
-----------------------------------------------------------------------------
(* dispatchDeliveryBatch.                                                  *)

\* Mutant: a delivery does not wait for the earlier ones.
NextInLineDropped(e) == TRUE

\* NOT EXISTS an earlier delivery of the subscription and aggregate that is
\* neither delivered nor dead.
NextInLine(e) ==
  \A f \in Events :
    Precedes(f, e) /\ delivery[f] # "ABSENT" => delivery[f] \in {"DELIVERED", "DEAD"}

DeliveryCandidates ==
  {e \in Events : /\ delivery[e] \in {"PENDING", "RETRY"}
                  /\ attempts[e] < MaxAttempts
                  /\ dDue[e]
                  /\ NextInLine(e)}

ClaimDeliveries(w) ==
  /\ pc[w] = "dispatch"
  /\ LET S == DeliveryCandidates
     IN /\ delivery' = [e \in Events |-> IF e \in S THEN "PROCESSING" ELSE delivery[e]]
        /\ attempts' = [e \in Events |-> IF e \in S THEN attempts[e] + 1 ELSE attempts[e]]
        /\ dOwner' = [e \in Events |-> IF e \in S THEN w ELSE dOwner[e]]
        /\ dLease' = [e \in Events |-> IF e \in S THEN "live" ELSE dLease[e]]
        /\ batch' = [batch EXCEPT ![w] = S]
        /\ pc' = [pc EXCEPT ![w] = IF S = {} THEN "idle" ELSE "deliver"]
  /\ UNCHANGED <<outbox, dDue, cur, observed, faults>>

\* delivery.leaseOwner = owner, re-read just before the handler is called.
StillMine(w, e) == dOwner[e] = w

\* Take the next claimed delivery, or skip one that was lost meanwhile.
Take(w) ==
  /\ pc[w] = "deliver"
  /\ \E e \in batch[w] :
       LET left == batch[w] \ {e}
       IN /\ batch' = [batch EXCEPT ![w] = left]
          /\ IF StillMine(w, e)
             THEN /\ cur' = [cur EXCEPT ![w] = e]
                  /\ pc' = [pc EXCEPT ![w] = "handle"]
             ELSE /\ pc' = [pc EXCEPT ![w] = IF left = {} THEN "idle" ELSE "deliver"]
                  /\ UNCHANGED cur
  /\ UNCHANGED <<outbox, deliveries, observed, faults>>

\* The handler ran to its end.
Handle(w) ==
  /\ pc[w] = "handle"
  /\ LET e == cur[w]
     IN /\ handled' = [handled EXCEPT ![e] = IF @ < HandledCap THEN @ + 1 ELSE @]
        /\ late' = IF \E f \in Events : Precedes(e, f) /\ handled[f] > 0
                    THEN late \cup {e} ELSE late
  /\ pc' = [pc EXCEPT ![w] = "ack"]
  /\ UNCHANGED <<outbox, deliveries, batch, cur, revived, faults>>

\* WHERE leaseOwner = owner AND status = PROCESSING.
OwnsDelivery(w, e) == delivery[e] = "PROCESSING" /\ dOwner[e] = w

DeliverNext(w) ==
  /\ cur' = [cur EXCEPT ![w] = Nobody]
  /\ pc' = [pc EXCEPT ![w] = IF batch[w] = {} THEN "idle" ELSE "deliver"]
  /\ UNCHANGED batch

\* The guarded write that ends an attempt.
Finish(w, e, to, reached) ==
  IF OwnsDelivery(w, e)
  THEN /\ delivery' = [delivery EXCEPT ![e] = to]
       /\ dOwner' = [dOwner EXCEPT ![e] = Nobody]
       /\ dLease' = [dLease EXCEPT ![e] = "none"]
       /\ dDue' = [dDue EXCEPT ![e] = reached]
  ELSE UNCHANGED <<delivery, dOwner, dLease, dDue>>

Acknowledge(w) ==
  /\ pc[w] = "ack"
  /\ Finish(w, cur[w], "DELIVERED", dDue[cur[w]])
  /\ DeliverNext(w)
  /\ UNCHANGED <<outbox, attempts, observed, faults>>

\* The handler throws, or the acknowledging write does after the handler
\* completed: the catch block queues the delivery again or gives it up.
HandlerFails(w) ==
  /\ pc[w] \in {"handle", "ack"}
  /\ \/ pc[w] = "handle" /\ UNCHANGED faults
     \/ pc[w] = "ack" /\ faults < MaxFaults /\ faults' = faults + 1
  /\ Finish(w, cur[w], Recovered("RETRY", attempts[cur[w]], MaxAttempts), FALSE)
  /\ DeliverNext(w)
  /\ UNCHANGED <<outbox, attempts, observed>>
-----------------------------------------------------------------------------
(* Failures and time.                                                      *)

\* A database error outside a try block or inside a catch block ends the
\* batch, and the process goes on; a crash ends the process.
Abandon(w) ==
  /\ pc[w] \notin {"down", "idle"}
  /\ faults < MaxFaults
  /\ faults' = faults + 1
  /\ \E to \in {"down", "idle"} : pc' = [pc EXCEPT ![w] = to]
  /\ batch' = [batch EXCEPT ![w] = {}]
  /\ cur' = [cur EXCEPT ![w] = Nobody]
  /\ UNCHANGED <<outbox, deliveries, observed>>

\* Worker w is about to publish e, or publishing it.
Publishing(w, e) == pc[w] \in {"publish", "write"} /\ (e \in batch[w] \/ cur[w] = e)

\* What LEASE_MS would have to be long enough for.
EventOverdue(e) == PublishCovers => \A w \in Workers : ~Publishing(w, e)

EventLeaseExpires(e) ==
  /\ event[e] = "PROCESSING" /\ eLease[e] = "live"
  /\ EventOverdue(e)
  /\ eLease' = [eLease EXCEPT ![e] = "expired"]
  /\ UNCHANGED <<event, retries, eOwner, eDue, deliveries, memory, observed, faults>>

\* Worker w answers for the delivery of e.
Dispatching(w, e) ==
  \/ pc[w] = "deliver" /\ e \in batch[w]
  \/ pc[w] \in {"deliver", "handle", "ack"} /\ (e \in batch[w] \/ cur[w] = e)

\* Mutant: a handler may outlive its lease whatever is assumed of it.
DeliveryOverdueAlways(e) == TRUE

\* What LEASE_MS is long enough for.
DeliveryOverdue(e) == LeaseCovers => \A w \in Workers : ~Dispatching(w, e)

DeliveryLeaseExpires(e) ==
  /\ delivery[e] = "PROCESSING" /\ dLease[e] = "live"
  /\ DeliveryOverdue(e)
  /\ dLease' = [dLease EXCEPT ![e] = "expired"]
  /\ UNCHANGED <<outbox, delivery, attempts, dOwner, dDue, memory, observed, faults>>

\* A backoff (nextAttemptAt) has passed.
EventBecomesDue(e) ==
  /\ ~eDue[e]
  /\ eDue' = [eDue EXCEPT ![e] = TRUE]
  /\ UNCHANGED <<event, retries, eOwner, eLease, deliveries, memory, observed, faults>>

DeliveryBecomesDue(e) ==
  /\ ~dDue[e]
  /\ dDue' = [dDue EXCEPT ![e] = TRUE]
  /\ UNCHANGED <<outbox, delivery, attempts, dOwner, dLease, memory, observed, faults>>

WorkerStep(w) ==
  \/ Boot(w) \/ StartCycle(w)
  \/ ClaimEvents(w) \/ ReadEvent(w) \/ Publish(w)
  \/ ClaimDeliveries(w) \/ Take(w) \/ Handle(w) \/ Acknowledge(w)

Next ==
  \/ \E w \in Workers : \/ WorkerStep(w) \/ PublishError(w)
                        \/ HandlerFails(w) \/ Abandon(w)
  \/ \E e \in Events : \/ Commit(e)
                       \/ EventLeaseExpires(e) \/ EventBecomesDue(e)
                       \/ DeliveryLeaseExpires(e) \/ DeliveryBecomesDue(e)

Spec == Init /\ [][Next]_vars

\* The worker's timer polls and awaits every step, and time passes.
Fairness ==
  /\ \A w \in Workers : WF_vars(WorkerStep(w))
  /\ \A e \in Events : /\ WF_vars(EventLeaseExpires(e))
                       /\ WF_vars(DeliveryLeaseExpires(e))
                       /\ WF_vars(EventBecomesDue(e))
                       /\ WF_vars(DeliveryBecomesDue(e))

FairSpec == Spec /\ Fairness
-----------------------------------------------------------------------------
(* Properties.                                                             *)

EventSettled(e) == event[e] \in {"PUBLISHED", "DEAD"}
Dropped(e) == event[e] = "DEAD" \/ delivery[e] = "DEAD"
Settled(e) == Dropped(e) \/ delivery[e] = "DELIVERED"

\* Both stages claim in order: an event is not worked on before every earlier
\* one of its aggregate is published or dead, nor delivered before those are
\* delivered or dead, but for one that was dead and has been published since
\* by a worker that had begun to when it lost it.
ClaimedInOrder ==
  \A f, e \in Events : Precedes(f, e) =>
    /\ event[e] \notin {"ABSENT", "PENDING"} => EventSettled(f)
    /\ delivery[e] \in {"PROCESSING", "RETRY", "DELIVERED"} => Settled(f) \/ f \in revived

\* "DEAD after 10 attempts": a queued row has attempts left, so no claim query
\* excludes it for ever, and a row is given up only when it has none.
GivenUpOnlyAtLimit ==
  \A e \in Events :
    /\ event[e] \in {"ABSENT", "PENDING", "FAILED"} => retries[e] < MaxRetries
    /\ event[e] = "DEAD" => retries[e] = MaxRetries
    /\ delivery[e] \in {"ABSENT", "PENDING", "RETRY"} => attempts[e] < MaxAttempts
    /\ delivery[e] = "DEAD" => attempts[e] = MaxAttempts

\* An event is published exactly when its delivery exists, and an acknowledged
\* delivery was handled.
NothingLost ==
  \A e \in Events : /\ event[e] = "PUBLISHED" <=> delivery[e] # "ABSENT"
                    /\ delivery[e] = "DELIVERED" => handled[e] > 0

\* While delivery batches end before their leases, the handlers of one
\* aggregate's events complete in the order of the events, retries included:
\* what comes late was given up and published all the same.
EffectsInOrder == late \subseteq revived

\* While batches end before their leases, a handler completes a second time
\* only after a crash or an error.
RepeatedOnlyAfterFault == \A e \in Events : handled[e] <= 1 + faults

\* The pipeline delivers each event, or gives it up, in aggregate order; one
\* that was given up unpublished may turn up late.
Phase(e) ==
  CASE delivery[e] = "DEAD" -> "dropped"
    [] delivery[e] = "DELIVERED" -> "delivered"
    [] event[e] = "DEAD" -> "withheld"
    [] event[e] = "ABSENT" -> "absent"
    [] event[e] = "PUBLISHED" /\ delivery[e] \notin {"DEAD", "DELIVERED"} ->
         IF e \in revived THEN "late" ELSE "published"
    [] OTHER -> "queued"

Promise == INSTANCE OrderedDelivery WITH phase <- [e \in Events |-> Phase(e)]

DeliversInOrder == Promise!Spec

\* "The worker's outbox publisher and dispatch retry loops will drain the
\* backlog on their own": every committed event is delivered or given up.
BacklogDrains == \A e \in Events : event[e] # "ABSENT" ~> Settled(e)
=============================================================================
