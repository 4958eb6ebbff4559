------------------------ MODULE EventPipelineProofs ------------------------
(***************************************************************************)
(* For any number of events, aggregates, workers, retries and faults, with *)
(* or without leases that outlast their batches: the pipeline claims in    *)
(* order, gives up only at the attempt limit, and implements               *)
(* OrderedDelivery.                                                        *)
(*                                                                         *)
(* What a step does to one event and its delivery is captured once, by     *)
(* EventMove and DeliveryMove (lemma StepMoves); everything else follows   *)
(* from these moves.                                                       *)
(***************************************************************************)
EXTENDS EventPipeline, FiniteSetTheorems, TLAPS

\* The conjuncts the ordering argument adds: events of an aggregate commit in
\* order, and deliveries exist exactly for published events.
CommittedInOrder ==
  \A f, e \in Events : Precedes(f, e) /\ event[e] # "ABSENT" => event[f] # "ABSENT"

Linked == \A e \in Events : event[e] = "PUBLISHED" <=> delivery[e] # "ABSENT"

\* A worker that publishes or handles has an event in hand, and one that it may
\* publish was claimed at some time, whoever has it now.
InHand ==
  \A w \in Workers :
    /\ pc[w] \in {"write", "handle", "ack"} => cur[w] \in Events
    /\ pc[w] = "write" => event[cur[w]] \notin {"ABSENT", "PENDING"}

\* A revival is a publication, and publications are final.
RevivedIsOut == \A e \in revived : event[e] = "PUBLISHED"

PipeInv ==
  /\ TypeOK
  /\ CommittedInOrder
  /\ Linked
  /\ InHand
  /\ RevivedIsOut
  /\ ClaimedInOrder
  /\ GivenUpOnlyAtLimit

LEMMA PipeInit == Init => PipeInv
<1> SUFFICES ASSUME Init PROVE PipeInv
  OBVIOUS
<1>1. TypeOK
  <2>1. /\ 0 \in 0..MaxRetries /\ 0 \in 0..MaxAttempts
        /\ 0 \in 0..HandledCap /\ 0 \in 0..MaxFaults
    BY PipelineAssumption DEF HandledCap
  <2> QED BY <2>1 DEF Init, TypeOK, EventStatuses, DeliveryStatuses, Leases
<1>2. /\ CommittedInOrder /\ Linked /\ InHand /\ RevivedIsOut
      /\ ClaimedInOrder /\ GivenUpOnlyAtLimit
  BY PipelineAssumption
     DEF Init, CommittedInOrder, Linked, InHand, RevivedIsOut, ClaimedInOrder, GivenUpOnlyAtLimit
<1> QED BY <1>1, <1>2 DEF PipeInv
-----------------------------------------------------------------------------
(* Type correctness.                                                       *)

Steps == {"down", "idle", "claim", "publish", "write", "dispatch", "deliver", "handle", "ack"}

\* A step that writes one table, or none, and the worker's memory.
LEMMA TypeFrame ==
  ASSUME TypeOK, UNCHANGED outbox, UNCHANGED observed,
         delivery' \in [Events -> DeliveryStatuses],
         UNCHANGED attempts,
         dOwner' \in [Events -> Workers \cup {Nobody}],
         dLease' \in [Events -> Leases],
         dDue' \in [Events -> BOOLEAN],
         pc' \in [Workers -> Steps],
         batch' \in [Workers -> SUBSET Events],
         cur' \in [Workers -> Events \cup {Nobody}],
         faults' \in 0..MaxFaults
  PROVE  TypeOK'
BY DEF TypeOK, Steps, outbox, observed

\* Unchanged deliveries stay well typed.
LEMMA DeliveriesFrame ==
  ASSUME TypeOK, UNCHANGED deliveries
  PROVE  /\ delivery' \in [Events -> DeliveryStatuses]
         /\ UNCHANGED attempts
         /\ dOwner' \in [Events -> Workers \cup {Nobody}]
         /\ dLease' \in [Events -> Leases]
         /\ dDue' \in [Events -> BOOLEAN]
BY DEF TypeOK, deliveries

\* What the recovery writes is a status of its table.
LEMMA RecoverType ==
  ASSUME TypeOK, RecoverExpired
  PROVE  /\ event' \in [Events -> EventStatuses]
         /\ eOwner' \in [Events -> Workers \cup {Nobody}]
         /\ eLease' \in [Events -> Leases]
         /\ eDue' \in [Events -> BOOLEAN]
         /\ delivery' \in [Events -> DeliveryStatuses]
         /\ dOwner' \in [Events -> Workers \cup {Nobody}]
         /\ dLease' \in [Events -> Leases]
         /\ dDue' \in [Events -> BOOLEAN]
         /\ UNCHANGED <<retries, attempts>>
<1> USE DEF TypeOK, RecoverExpired
<1>1. /\ event' \in [Events -> EventStatuses]
      /\ delivery' \in [Events -> DeliveryStatuses]
  BY DEF Recovered, EventStatuses, DeliveryStatuses
<1>2. /\ eOwner' \in [Events -> Workers \cup {Nobody}]
      /\ eLease' \in [Events -> Leases]
      /\ dOwner' \in [Events -> Workers \cup {Nobody}]
      /\ dLease' \in [Events -> Leases]
  BY DEF Leases
<1>3. eDue' \in [Events -> BOOLEAN] /\ dDue' \in [Events -> BOOLEAN]
  OBVIOUS
<1> QED BY <1>1, <1>2, <1>3

LEMMA CycleType ==
  ASSUME TypeOK, NEW w \in Workers, Boot(w) \/ StartCycle(w)
  PROVE  TypeOK'
<1>1. /\ UNCHANGED <<batch, cur, observed, faults>>
      /\ pc' \in [Workers -> Steps]
  BY DEF Boot, StartCycle, TypeOK, Steps
<1>2. CASE RecoverExpired
  BY <1>1, <1>2, RecoverType DEF TypeOK, observed, Steps
<1>3. CASE UNCHANGED <<outbox, deliveries>>
  BY <1>1, <1>3 DEF TypeOK, observed, outbox, deliveries, Steps
<1> QED BY <1>2, <1>3 DEF Boot, StartCycle

LEMMA ClaimEventsType ==
  ASSUME TypeOK, NEW w \in Workers, ClaimEvents(w)
  PROVE  TypeOK'
<1> USE DEF TypeOK, ClaimEvents, Steps
<1>1. retries' \in [Events -> 0..MaxRetries]
  BY PipelineAssumption DEF EventCandidates
<1>2. /\ event' \in [Events -> EventStatuses]
      /\ eOwner' \in [Events -> Workers \cup {Nobody}]
      /\ eLease' \in [Events -> Leases]
  BY DEF EventStatuses, Leases
<1>3. /\ batch' \in [Workers -> SUBSET Events]
      /\ pc' \in [Workers -> Steps]
  BY DEF EventCandidates
<1> QED BY <1>1, <1>2, <1>3 DEF deliveries, observed

LEMMA ClaimDeliveriesType ==
  ASSUME TypeOK, NEW w \in Workers, ClaimDeliveries(w)
  PROVE  TypeOK'
<1> USE DEF TypeOK, ClaimDeliveries, Steps
<1>1. attempts' \in [Events -> 0..MaxAttempts]
  BY PipelineAssumption DEF DeliveryCandidates
<1>2. /\ delivery' \in [Events -> DeliveryStatuses]
      /\ dOwner' \in [Events -> Workers \cup {Nobody}]
      /\ dLease' \in [Events -> Leases]
  BY DEF DeliveryStatuses, Leases
<1>3. /\ batch' \in [Workers -> SUBSET Events]
      /\ pc' \in [Workers -> Steps]
  BY DEF DeliveryCandidates
<1> QED BY <1>1, <1>2, <1>3 DEF outbox, observed

LEMMA PublishType ==
  ASSUME TypeOK, InHand, NEW w \in Workers, ReadEvent(w) \/ Publish(w) \/ PublishError(w)
  PROVE  TypeOK'
<1> USE DEF TypeOK, Steps
<1>1. ASSUME NEW e \in Events, PublishNext(w, e)
      PROVE  /\ batch' \in [Workers -> SUBSET Events]
             /\ cur' \in [Workers -> Events \cup {Nobody}]
             /\ pc' \in [Workers -> Steps]
  BY <1>1 DEF PublishNext
<1>2. CASE ReadEvent(w)
  <2>1. PICK e \in batch[w] :
          \/ PublishNext(w, e)
          \/ /\ cur' = [cur EXCEPT ![w] = e]
             /\ batch' = [batch EXCEPT ![w] = @ \ {e}]
             /\ pc' = [pc EXCEPT ![w] = "write"]
    BY <1>2 DEF ReadEvent
  <2>2. e \in Events
    BY <2>1
  <2>3. /\ batch' \in [Workers -> SUBSET Events]
        /\ cur' \in [Workers -> Events \cup {Nobody}]
        /\ pc' \in [Workers -> Steps]
    BY <2>1, <2>2, <1>1
  <2>4. UNCHANGED <<outbox, deliveries, observed, faults>>
    BY <1>2 DEF ReadEvent
  <2> QED BY <2>3, <2>4 DEF outbox, deliveries, observed
<1>3. CASE Publish(w)
  <2> DEFINE e == cur[w]
  <2>1. e \in Events /\ PublishNext(w, e)
    BY <1>3 DEF Publish, InHand
  <2>2. /\ event' = [event EXCEPT ![e] = "PUBLISHED"]
        /\ eOwner' = [eOwner EXCEPT ![e] = Nobody]
        /\ eLease' = [eLease EXCEPT ![e] = "none"]
        /\ delivery' = [delivery EXCEPT ![e] = IF @ = "ABSENT" THEN "PENDING" ELSE @]
        /\ revived' \in {revived, revived \cup {e}}
    BY <1>3 DEF Publish
  <2>3. /\ event' \in [Events -> EventStatuses]
        /\ eOwner' \in [Events -> Workers \cup {Nobody}]
        /\ eLease' \in [Events -> Leases]
        /\ delivery' \in [Events -> DeliveryStatuses]
        /\ revived' \subseteq Events
    BY <2>1, <2>2 DEF EventStatuses, DeliveryStatuses, Leases
  <2>4. UNCHANGED <<retries, eDue, attempts, dOwner, dLease, dDue, handled, late, faults>>
    BY <1>3 DEF Publish
  <2> QED BY <2>1, <2>3, <2>4, <1>1
<1>4. CASE PublishError(w)
  <2>1. PICK e \in Events :
          /\ PublishNext(w, e)
          /\ IF OwnsEvent(w, e)
             THEN /\ event' = [event EXCEPT ![e] =
                                 Recovered("FAILED", retries[e], MaxRetries)]
                  /\ eOwner' = [eOwner EXCEPT ![e] = Nobody]
                  /\ eLease' = [eLease EXCEPT ![e] = "none"]
                  /\ eDue' = [eDue EXCEPT ![e] = FALSE]
             ELSE UNCHANGED <<event, eOwner, eLease, eDue>>
    BY <1>4 DEF PublishError
  <2>2. /\ UNCHANGED <<retries, deliveries, observed>>
        /\ faults' \in 0..MaxFaults
    BY <1>4, PipelineAssumption DEF PublishError
  <2>3. Recovered("FAILED", retries[e], MaxRetries) \in EventStatuses
    BY DEF Recovered, EventStatuses
  <2>4. PICK s \in EventStatuses :
          \/ /\ event' = [event EXCEPT ![e] = s]
             /\ eOwner' = [eOwner EXCEPT ![e] = Nobody]
             /\ eLease' = [eLease EXCEPT ![e] = "none"]
             /\ eDue' = [eDue EXCEPT ![e] = FALSE]
          \/ UNCHANGED <<event, eOwner, eLease, eDue>>
    BY <2>1, <2>3
  <2>5. event' \in [Events -> EventStatuses]
    BY <2>4
  <2>6. eOwner' \in [Events -> Workers \cup {Nobody}]
    BY <2>4
  <2>7. eLease' \in [Events -> Leases]
    BY <2>4 DEF Leases
  <2>8. eDue' \in [Events -> BOOLEAN]
    BY <2>4
  <2> QED BY <2>1, <2>2, <2>5, <2>6, <2>7, <2>8, <1>1 DEF observed, deliveries
<1> QED BY <1>2, <1>3, <1>4

LEMMA DeliverType ==
  ASSUME TypeOK, InHand, NEW w \in Workers,
         Take(w) \/ Handle(w) \/ Acknowledge(w) \/ HandlerFails(w)
  PROVE  TypeOK'
<1>1. CASE Take(w)
  <2>1. PICK e \in batch[w] :
          /\ batch' = [batch EXCEPT ![w] = batch[w] \ {e}]
          /\ \/ /\ cur' = [cur EXCEPT ![w] = e]
                /\ pc' = [pc EXCEPT ![w] = "handle"]
             \/ /\ \E to \in {"idle", "deliver"} : pc' = [pc EXCEPT ![w] = to]
                /\ UNCHANGED cur
    BY <1>1 DEF Take, TypeOK
  <2>2. UNCHANGED <<outbox, deliveries, observed, faults>>
    BY <1>1 DEF Take
  <2>3. /\ batch' \in [Workers -> SUBSET Events]
        /\ cur' \in [Workers -> Events \cup {Nobody}]
        /\ pc' \in [Workers -> Steps]
    BY <2>1 DEF Steps, TypeOK
  <2>4. faults' \in 0..MaxFaults
    BY <2>2 DEF TypeOK
  <2> QED BY <2>2, <2>3, <2>4, TypeFrame, DeliveriesFrame
<1>2. CASE Handle(w)
  <2>1. handled' \in [Events -> 0..HandledCap]
    <3>1. HandledCap \in Nat /\ handled \in [Events -> 0..HandledCap]
      BY PipelineAssumption DEF HandledCap, TypeOK
    <3>2. handled' = [handled EXCEPT ![cur[w]] =
                        IF @ < HandledCap THEN @ + 1 ELSE @]
      BY <1>2 DEF Handle
    <3>3. CASE cur[w] \in Events
      <4>1. handled[cur[w]] \in 0..HandledCap
        BY <3>1, <3>3
      <4> QED BY <3>1, <3>2, <3>3, <4>1
    <3>4. CASE cur[w] \notin Events
      BY <3>1, <3>2, <3>4
    <3> QED BY <3>3, <3>4
  <2>2. late' \subseteq Events /\ UNCHANGED revived
    BY <1>2 DEF Handle, InHand, TypeOK
  <2>3. pc' \in [Workers -> Steps]
    BY <1>2 DEF Handle, TypeOK, Steps
  <2>4. UNCHANGED <<outbox, deliveries, batch, cur, revived, faults>>
    BY <1>2 DEF Handle
  <2> QED BY <2>1, <2>2, <2>3, <2>4 DEF outbox, deliveries, TypeOK, Steps
<1>3. ASSUME NEW to \in {"DELIVERED", "RETRY", "DEAD"}, NEW b \in BOOLEAN,
             Finish(w, cur[w], to, b), DeliverNext(w),
             UNCHANGED <<outbox, attempts, observed>>, faults' \in 0..MaxFaults
      PROVE  TypeOK'
  <2>1. /\ delivery' \in [Events -> DeliveryStatuses]
        /\ dOwner' \in [Events -> Workers \cup {Nobody}]
        /\ dLease' \in [Events -> Leases]
        /\ dDue' \in [Events -> BOOLEAN]
    BY <1>3 DEF Finish, DeliveryStatuses, Leases, TypeOK
  <2>2. /\ batch' \in [Workers -> SUBSET Events]
        /\ cur' \in [Workers -> Events \cup {Nobody}]
        /\ pc' \in [Workers -> Steps]
    BY <1>3 DEF Steps, DeliverNext, TypeOK
  <2>3. UNCHANGED <<outbox, attempts, observed>> /\ faults' \in 0..MaxFaults
    BY <1>3
  <2> QED BY <2>1, <2>2, <2>3, TypeFrame DEF outbox, observed
<1>4. CASE Acknowledge(w)
  <2>1. CASE cur[w] \in Events
    BY <1>3, <1>4, <2>1 DEF Acknowledge, TypeOK
  <2>2. CASE cur[w] \notin Events
    BY <1>4, <2>2 DEF Acknowledge, Finish, DeliverNext, DeliveryStatuses,
       Leases, outbox, observed, TypeOK
  <2> QED BY <2>1, <2>2
<1>5. CASE HandlerFails(w)
  <2>1. faults' \in 0..MaxFaults
    BY <1>5, PipelineAssumption DEF HandlerFails, TypeOK
  <2>2. Recovered("RETRY", attempts[cur[w]], MaxAttempts)
          \in {"DELIVERED", "RETRY", "DEAD"}
    BY DEF Recovered
  <2> QED BY <1>3, <1>5, <2>1, <2>2 DEF HandlerFails
<1> QED BY <1>1, <1>2, <1>4, <1>5

LEMMA OtherType ==
  ASSUME TypeOK,
         \/ \E w \in Workers : Abandon(w)
         \/ \E e \in Events : \/ Commit(e) \/ EventLeaseExpires(e) \/ EventBecomesDue(e)
                              \/ DeliveryLeaseExpires(e) \/ DeliveryBecomesDue(e)
  PROVE  TypeOK'
<1>1. ASSUME NEW w \in Workers, Abandon(w) PROVE TypeOK'
  <2>1. /\ faults' \in 0..MaxFaults
        /\ pc' \in [Workers -> Steps]
    BY <1>1, PipelineAssumption DEF Abandon, Steps, TypeOK
  <2>2. /\ batch' \in [Workers -> SUBSET Events]
        /\ cur' \in [Workers -> Events \cup {Nobody}]
    BY <1>1 DEF Abandon, TypeOK
  <2>3. UNCHANGED <<outbox, deliveries, observed>>
    BY <1>1 DEF Abandon
  <2> QED BY <2>1, <2>2, <2>3, TypeFrame, DeliveriesFrame
<1>2. ASSUME NEW e \in Events, Commit(e) PROVE TypeOK'
  BY <1>2 DEF Commit, EventStatuses, TypeOK, deliveries, memory, observed
<1>3. ASSUME NEW e \in Events, EventLeaseExpires(e) \/ EventBecomesDue(e) PROVE TypeOK'
  BY <1>3 DEF EventLeaseExpires, EventBecomesDue, Leases, TypeOK, deliveries,
     memory, observed
<1>4. ASSUME NEW e \in Events, DeliveryLeaseExpires(e) \/ DeliveryBecomesDue(e)
      PROVE  TypeOK'
  BY <1>4 DEF DeliveryLeaseExpires, DeliveryBecomesDue, Leases, TypeOK, outbox,
     memory, observed
<1> QED BY <1>1, <1>2, <1>3, <1>4

LEMMA TypeNext == TypeOK /\ InHand /\ [Next]_vars => TypeOK'
<1> SUFFICES ASSUME TypeOK, InHand, [Next]_vars PROVE TypeOK'
  OBVIOUS
<1>1. CASE UNCHANGED vars
  BY <1>1 DEF vars, outbox, deliveries, memory, observed, TypeOK
<1>2. CASE Next
  BY <1>2, CycleType, ClaimEventsType, ClaimDeliveriesType, PublishType,
     DeliverType, OtherType DEF Next, WorkerStep
<1> QED BY <1>1, <1>2
-----------------------------------------------------------------------------
(* The moves of an event and its delivery in one step.                     *)

\* The claims and the end of one; the last is a publication whatever has
\* become of the claim.
EventMove(e) ==
  \/ UNCHANGED <<event[e], retries[e]>>
  \/ /\ event[e] = "ABSENT" /\ event'[e] = "PENDING" /\ UNCHANGED retries[e]
     /\ \A f \in Events : Precedes(f, e) => event[f] # "ABSENT"
     /\ retries[e] < MaxRetries
  \/ /\ event[e] \in {"PENDING", "FAILED"} /\ event'[e] = "PROCESSING"
     /\ retries[e] < MaxRetries /\ retries'[e] = retries[e] + 1
     /\ FirstInLine(e)
  \/ /\ event[e] = "PROCESSING" /\ UNCHANGED retries[e]
     /\ event'[e] = Recovered("FAILED", retries[e], MaxRetries)
  \/ /\ event[e] \notin {"ABSENT", "PENDING"} /\ UNCHANGED retries[e]
     /\ event'[e] = "PUBLISHED"

DeliveryMove(e) ==
  \/ UNCHANGED <<delivery[e], attempts[e]>>
  \/ /\ delivery[e] = "ABSENT" /\ delivery'[e] = "PENDING" /\ UNCHANGED attempts[e]
     /\ event'[e] = "PUBLISHED"
  \/ /\ delivery[e] \in {"PENDING", "RETRY"} /\ delivery'[e] = "PROCESSING"
     /\ attempts[e] < MaxAttempts /\ attempts'[e] = attempts[e] + 1
     /\ NextInLine(e)
  \/ /\ delivery[e] = "PROCESSING" /\ UNCHANGED attempts[e]
     /\ delivery'[e] \in {"DELIVERED", Recovered("RETRY", attempts[e], MaxAttempts)}

\* A delivery is created by the step that publishes its event.
Together(e) ==
  event[e] # "PUBLISHED" /\ event'[e] = "PUBLISHED" => delivery'[e] # "ABSENT"

\* The step that publishes an event that was given up is remembered.
Remembered(e) ==
  e \in revived' <=> e \in revived \/ (event[e] = "DEAD" /\ event'[e] = "PUBLISHED")

Move(e) == EventMove(e) /\ DeliveryMove(e) /\ Together(e) /\ Remembered(e)

Moves == \A e \in Events : Move(e)

\* Steps that only move rows through the recovery, or that move none.
LEMMA StillMoves ==
  UNCHANGED <<event, retries, delivery, attempts, revived>> => Moves
BY DEF Moves, Move, EventMove, DeliveryMove, Together, Remembered

LEMMA RecoverMoves ==
  ASSUME TypeOK, RecoverExpired, UNCHANGED revived
  PROVE  Moves
<1> SUFFICES ASSUME NEW e \in Events PROVE Move(e)
  BY DEF Moves
<1>1. EventMove(e)
  BY DEF RecoverExpired, ExpiredEvent, EventMove
<1>2. DeliveryMove(e)
  BY DEF RecoverExpired, ExpiredDelivery, DeliveryMove
<1>3. Together(e) /\ Remembered(e)
  BY DEF RecoverExpired, ExpiredEvent, Recovered, Together, Remembered
<1> QED BY <1>1, <1>2, <1>3 DEF Move

LEMMA ClaimMoves ==
  ASSUME TypeOK, NEW w \in Workers, ClaimEvents(w) \/ ClaimDeliveries(w)
  PROVE  Moves
<1> SUFFICES ASSUME NEW e \in Events PROVE Move(e)
  BY DEF Moves
<1> USE DEF Move, Remembered, observed
<1>1. CASE ClaimEvents(w)
  BY <1>1 DEF ClaimEvents, EventCandidates, EventMove, DeliveryMove, Together,
     TypeOK, deliveries
<1>2. CASE ClaimDeliveries(w)
  BY <1>2 DEF ClaimDeliveries, DeliveryCandidates, EventMove, DeliveryMove,
     Together, TypeOK, outbox
<1> QED BY <1>1, <1>2

LEMMA PublishMoves ==
  ASSUME TypeOK, Linked, InHand, NEW w \in Workers, Publish(w) \/ PublishError(w)
  PROVE  Moves
<1>1. CASE Publish(w)
  <2>p. PICK p \in Events : p = cur[w]
    BY <1>1 DEF Publish, InHand
  <2>1. event[p] \notin {"ABSENT", "PENDING"} /\ UNCHANGED <<retries, attempts>>
    BY <1>1, <2>p DEF Publish, InHand
  <2>2. /\ event'[p] = "PUBLISHED"
        /\ delivery'[p] = IF delivery[p] = "ABSENT" THEN "PENDING" ELSE delivery[p]
        /\ \A e \in Events \ {p} : event'[e] = event[e] /\ delivery'[e] = delivery[e]
        /\ revived' = IF event[p] = "DEAD" THEN revived \cup {p} ELSE revived
    BY <1>1, <2>p DEF Publish, TypeOK
  <2>3. Move(p)
    <3>1. EventMove(p) /\ Remembered(p)
      BY <2>1, <2>2 DEF EventMove, Remembered
    <3>2. DeliveryMove(p) /\ Together(p)
      BY <2>1, <2>2 DEF DeliveryMove, Together
    <3> QED BY <3>1, <3>2 DEF Move
  <2>4. \A e \in Events \ {p} : Move(e)
    BY <2>1, <2>2 DEF Move, EventMove, DeliveryMove, Together, Remembered
  <2> QED BY <2>3, <2>4 DEF Moves
<1>2. CASE PublishError(w)
  <2>1. PICK p \in Events :
          IF OwnsEvent(w, p)
          THEN event' = [event EXCEPT ![p] =
                           Recovered("FAILED", retries[p], MaxRetries)]
          ELSE UNCHANGED event
    BY <1>2 DEF PublishError
  <2>2. UNCHANGED <<retries, attempts, delivery, revived>>
    BY <1>2 DEF PublishError, TypeOK, deliveries, observed
  <2>3. CASE ~OwnsEvent(w, p)
    BY <2>1, <2>2, <2>3, StillMoves
  <2>4. CASE OwnsEvent(w, p)
    <3>1. /\ event[p] = "PROCESSING"
          /\ event'[p] = Recovered("FAILED", retries[p], MaxRetries)
          /\ event'[p] # "PUBLISHED"
          /\ \A e \in Events \ {p} : event'[e] = event[e]
      BY <2>1, <2>4 DEF TypeOK, OwnsEvent, Recovered
    <3> QED BY <2>2, <3>1 DEF Moves, Move, EventMove, DeliveryMove, Together, Remembered
  <2> QED BY <2>3, <2>4
<1> QED BY <1>1, <1>2

LEMMA FinishMoves ==
  ASSUME TypeOK, NEW w \in Workers, Acknowledge(w) \/ HandlerFails(w)
  PROVE  Moves
<1> DEFINE p == cur[w]
<1>1. UNCHANGED <<event, retries, attempts, revived>>
  BY DEF Acknowledge, HandlerFails, outbox, observed
<1>2. PICK to, b : /\ Finish(w, p, to, b)
                   /\ to \in {"DELIVERED", Recovered("RETRY", attempts[p], MaxAttempts)}
  BY DEF Acknowledge, HandlerFails
<1>3. CASE ~OwnsDelivery(w, p)
  BY <1>1, <1>2, <1>3, StillMoves DEF Finish
<1>4. CASE OwnsDelivery(w, p)
  <2>1. delivery[p] = "PROCESSING" /\ delivery' = [delivery EXCEPT ![p] = to]
    BY <1>2, <1>4 DEF Finish, OwnsDelivery
  <2>2. \A e \in Events : IF e = p THEN delivery'[e] = to ELSE delivery'[e] = delivery[e]
    BY <2>1 DEF TypeOK
  <2> QED BY <1>1, <1>2, <2>1, <2>2 DEF Moves, Move, EventMove, DeliveryMove, Together, Remembered
<1> QED BY <1>3, <1>4

LEMMA CommitMoves ==
  ASSUME TypeOK, GivenUpOnlyAtLimit, NEW c \in Events, Commit(c)
  PROVE  Moves
<1>1. UNCHANGED <<retries, delivery, attempts, revived>>
  BY DEF Commit, deliveries, observed
<1>2. /\ event[c] = "ABSENT" /\ event'[c] = "PENDING"
      /\ \A f \in Events : Precedes(f, c) => event[f] # "ABSENT"
      /\ \A e \in Events \ {c} : event'[e] = event[e]
      /\ retries[c] < MaxRetries
  BY DEF Commit, TypeOK, GivenUpOnlyAtLimit
<1> QED BY <1>1, <1>2 DEF Moves, Move, EventMove, DeliveryMove, Together, Remembered

LEMMA StepMoves ==
  ASSUME PipeInv, [Next]_vars
  PROVE  Moves
<1> USE DEF PipeInv
<1>1. CASE UNCHANGED vars
  BY <1>1, StillMoves DEF vars, outbox, deliveries, observed
<1>2. ASSUME NEW w \in Workers, WorkerStep(w) \/ PublishError(w) \/ HandlerFails(w)
                                \/ Abandon(w)
      PROVE  Moves
  <2>1. CASE Boot(w) \/ StartCycle(w)
    BY <2>1, RecoverMoves, StillMoves DEF Boot, StartCycle, outbox, deliveries, observed
  <2>2. CASE ClaimEvents(w) \/ ClaimDeliveries(w)
    BY <2>2, ClaimMoves
  <2>3. CASE Publish(w) \/ PublishError(w)
    BY <2>3, PublishMoves
  <2>4. CASE Acknowledge(w) \/ HandlerFails(w)
    BY <2>4, FinishMoves
  <2>5. CASE ReadEvent(w) \/ Take(w) \/ Handle(w) \/ Abandon(w)
    BY <2>5, StillMoves DEF ReadEvent, Take, Handle, Abandon, outbox, deliveries, observed
  <2> QED BY <1>2, <2>1, <2>2, <2>3, <2>4, <2>5 DEF WorkerStep
<1>3. ASSUME NEW e \in Events, \/ Commit(e)
                                \/ EventLeaseExpires(e) \/ EventBecomesDue(e)
                                \/ DeliveryLeaseExpires(e) \/ DeliveryBecomesDue(e)
      PROVE  Moves
  <2>1. CASE Commit(e)
    BY <2>1, CommitMoves
  <2>2. CASE ~Commit(e)
    BY <1>3, <2>2, StillMoves DEF EventLeaseExpires, EventBecomesDue,
       DeliveryLeaseExpires, DeliveryBecomesDue, outbox, deliveries, observed
  <2> QED BY <2>1, <2>2
<1> QED BY <1>1, <1>2, <1>3 DEF Next
-----------------------------------------------------------------------------
(* The invariant, from the moves alone.                                    *)

\* What is settled stays settled, unless it is revived.
LEMMA SettledStays ==
  ASSUME TypeOK, Moves, NEW e \in Events
  PROVE  /\ EventSettled(e) => EventSettled(e)'
         /\ Settled(e) \/ e \in revived => Settled(e)' \/ e \in revived'
BY DEF Moves, Move, EventMove, DeliveryMove, Remembered, EventSettled, Settled, Dropped

\* What a worker has in hand to publish stays claimed or what became of that.
LEMMA InHandNext ==
  ASSUME TypeOK, InHand, Moves, [Next]_vars
  PROVE  InHand'
<1>1. \A e \in Events : event[e] \notin {"ABSENT", "PENDING"}
                          => event'[e] \notin {"ABSENT", "PENDING"}
  BY DEF Moves, Move, EventMove, Recovered
<1>2. SUFFICES ASSUME NEW v \in Workers
               PROVE  \/ pc'[v] \notin {"write", "handle", "ack"}
                      \/ pc'[v] = "ack" /\ pc[v] = "handle" /\ cur'[v] = cur[v]
                      \/ pc'[v] = pc[v] /\ cur'[v] = cur[v]
                      \/ /\ cur'[v] \in Events
                         /\ pc'[v] = "write" => event[cur'[v]] \notin {"ABSENT", "PENDING"}
  BY <1>1 DEF InHand
<1>3. ASSUME NEW w \in Workers, WorkerStep(w) \/ PublishError(w) \/ HandlerFails(w) \/ Abandon(w),
             v # w
      PROVE  pc'[v] = pc[v] /\ cur'[v] = cur[v]
  BY <1>3 DEF WorkerStep, Boot, StartCycle, ClaimEvents, ReadEvent, Publish, PublishError,
     PublishNext, ClaimDeliveries, Take, Handle, Acknowledge, HandlerFails, DeliverNext, Abandon,
     TypeOK
<1>4. CASE ReadEvent(v)
  <2>1. PICK e \in batch[v] :
          \/ PublishNext(v, e)
          \/ /\ OwnsEvent(v, e)
             /\ cur' = [cur EXCEPT ![v] = e]
             /\ pc' = [pc EXCEPT ![v] = "write"]
    BY <1>4 DEF ReadEvent
  <2>2. e \in Events
    BY <2>1 DEF TypeOK
  <2> QED BY <2>1, <2>2 DEF PublishNext, OwnsEvent, TypeOK
<1>5. CASE Take(v)
  <2>1. PICK e \in batch[v] :
          \/ cur' = [cur EXCEPT ![v] = e] /\ pc' = [pc EXCEPT ![v] = "handle"]
          \/ \E to \in {"idle", "deliver"} : pc' = [pc EXCEPT ![v] = to]
    BY <1>5 DEF Take, TypeOK
  <2>2. e \in Events
    BY <2>1 DEF TypeOK
  <2> QED BY <2>1, <2>2 DEF TypeOK
<1>6. CASE Handle(v)
  BY <1>6 DEF Handle, TypeOK
<1>7. CASE \/ Boot(v) \/ StartCycle(v) \/ ClaimEvents(v) \/ Publish(v) \/ ClaimDeliveries(v)
           \/ Acknowledge(v) \/ PublishError(v) \/ HandlerFails(v) \/ Abandon(v)
  <2>1. CASE Publish(v)
    BY <2>1 DEF Publish, PublishNext, TypeOK
  <2>2. CASE PublishError(v)
    BY <2>2 DEF PublishError, PublishNext, TypeOK
  <2>3. CASE Acknowledge(v) \/ HandlerFails(v)
    BY <2>3 DEF Acknowledge, HandlerFails, DeliverNext, TypeOK
  <2>4. CASE Boot(v) \/ StartCycle(v) \/ ClaimEvents(v) \/ ClaimDeliveries(v) \/ Abandon(v)
    BY <2>4 DEF Boot, StartCycle, ClaimEvents, ClaimDeliveries, Abandon, TypeOK
  <2> QED BY <1>7, <2>1, <2>2, <2>3, <2>4
<1>8. ASSUME NEW e \in Events,
             \/ Commit(e) \/ EventLeaseExpires(e) \/ EventBecomesDue(e)
             \/ DeliveryLeaseExpires(e) \/ DeliveryBecomesDue(e)
      PROVE  UNCHANGED memory
  BY <1>8 DEF Commit, EventLeaseExpires, EventBecomesDue, DeliveryLeaseExpires, DeliveryBecomesDue
<1> QED BY <1>3, <1>4, <1>5, <1>6, <1>7, <1>8 DEF Next, WorkerStep, vars, memory

\* An event first in line follows only settled events; so does a delivery.
LEMMA LineIsSettled ==
  ASSUME PipeInv, NEW f \in Events, NEW e \in Events, Precedes(f, e)
  PROVE  /\ event[e] # "ABSENT" /\ FirstInLine(e) => EventSettled(f)
         /\ delivery[e] # "ABSENT" /\ NextInLine(e) => Settled(f)
<1> USE DEF PipeInv
<1>1. event[e] # "ABSENT" /\ FirstInLine(e) => EventSettled(f)
  BY DEF CommittedInOrder, FirstInLine, EventSettled
<1>2. ASSUME delivery[e] # "ABSENT", NextInLine(e) PROVE Settled(f)
  <2>1. event[e] = "PUBLISHED"
    BY <1>2 DEF Linked
  <2>2. EventSettled(f)
    BY <2>1 DEF ClaimedInOrder
  <2> QED BY <1>2, <2>2 DEF NextInLine, Linked, EventSettled, Settled, Dropped
<1> QED BY <1>1, <1>2

LEMMA PipeNext == PipeInv /\ [Next]_vars => PipeInv'
<1> SUFFICES ASSUME PipeInv, [Next]_vars PROVE PipeInv'
  OBVIOUS
<1>1. TypeOK /\ TypeOK' /\ Moves
  BY TypeNext, StepMoves DEF PipeInv
<1>2. CommittedInOrder'
  BY <1>1 DEF PipeInv, CommittedInOrder, Precedes, Moves, Move, EventMove, Recovered
<1>3. Linked' /\ InHand' /\ RevivedIsOut'
  <2>1. Linked'
    BY <1>1 DEF PipeInv, Linked, Moves, Move, EventMove, DeliveryMove, Together, Recovered
  <2>2. InHand'
    BY <1>1, InHandNext DEF PipeInv
  <2>3. RevivedIsOut'
    BY <1>1 DEF PipeInv, TypeOK, RevivedIsOut, Moves, Move, EventMove, Remembered
  <2> QED BY <2>1, <2>2, <2>3
<1>4. ClaimedInOrder'
  <2> SUFFICES ASSUME NEW f \in Events, NEW e \in Events, Precedes(f, e)
               PROVE  /\ event'[e] \notin {"ABSENT", "PENDING"}
                           => EventSettled(f)'
                      /\ delivery'[e] \in {"PROCESSING", "RETRY", "DELIVERED"}
                           => Settled(f)' \/ f \in revived'
    BY DEF ClaimedInOrder, Precedes
  <2>1. event'[e] \notin {"ABSENT", "PENDING"} => EventSettled(f)
    BY <1>1, LineIsSettled DEF Moves, Move, EventMove, Recovered, PipeInv, ClaimedInOrder
  <2>2. delivery'[e] \in {"PROCESSING", "RETRY", "DELIVERED"} => Settled(f) \/ f \in revived
    BY <1>1, LineIsSettled DEF Moves, Move, DeliveryMove, Recovered, PipeInv, ClaimedInOrder
  <2> QED BY <1>1, <2>1, <2>2, SettledStays
<1>5. GivenUpOnlyAtLimit'
  <2> SUFFICES ASSUME NEW e \in Events
               PROVE /\ event'[e] \in {"ABSENT", "PENDING", "FAILED"} => retries'[e] < MaxRetries
                     /\ event'[e] = "DEAD" => retries'[e] = MaxRetries
                     /\ delivery'[e] \in {"ABSENT", "PENDING", "RETRY"} => attempts'[e] < MaxAttempts
                     /\ delivery'[e] = "DEAD" => attempts'[e] = MaxAttempts
    BY DEF GivenUpOnlyAtLimit
  <2>1. EventMove(e) /\ DeliveryMove(e)
    BY <1>1 DEF Moves, Move
  <2>2. /\ retries[e] \in 0..MaxRetries /\ attempts[e] \in 0..MaxAttempts
        /\ MaxRetries \in Nat /\ MaxAttempts \in Nat
    BY <1>1, PipelineAssumption DEF TypeOK
  <2>3. /\ event'[e] \in {"ABSENT", "PENDING", "FAILED"} => retries'[e] < MaxRetries
        /\ event'[e] = "DEAD" => retries'[e] = MaxRetries
    BY <2>1, <2>2 DEF EventMove, Recovered, PipeInv, GivenUpOnlyAtLimit
  <2>4. /\ delivery'[e] \in {"ABSENT", "PENDING", "RETRY"} => attempts'[e] < MaxAttempts
        /\ delivery'[e] = "DEAD" => attempts'[e] = MaxAttempts
    BY <2>1, <2>2 DEF DeliveryMove, Recovered, PipeInv, GivenUpOnlyAtLimit
  <2> QED BY <2>3, <2>4
<1> QED BY <1>1, <1>2, <1>3, <1>4, <1>5 DEF PipeInv

LEMMA PipeInvariant == Spec => []PipeInv
BY PipeInit, PipeNext, PTL DEF Spec
-----------------------------------------------------------------------------
(* The theorems.                                                           *)

\* Whatever is lost or late, both stages claim the events of an aggregate in
\* order, but for what was revived, and a row is given up exactly when its
\* attempts are used up.
THEOREM PipelineSafety == Spec => [](TypeOK /\ ClaimedInOrder /\ GivenUpOnlyAtLimit)
<1>1. PipeInv => TypeOK /\ ClaimedInOrder /\ GivenUpOnlyAtLimit
  BY DEF PipeInv
<1> QED BY <1>1, PipeInvariant, PTL

LEMMA PromiseInit == Init => Promise!Init
BY DEF Init, Promise!Init, Phase

\* A settled event is one the abstract pipeline has finished with.
LEMMA PhaseOf ==
  ASSUME PipeInv, NEW e \in Events
  PROVE  /\ Settled(e) \/ e \in revived <=> Phase(e) \in Promise!Over
         /\ EventSettled(e) <=> Phase(e) \in Promise!Passed
         /\ event[e] = "ABSENT" => Phase(e) = "absent"
         /\ event[e] \in {"PENDING", "PROCESSING", "FAILED"} => Phase(e) = "queued"
         /\ event[e] = "DEAD" => Phase(e) = "withheld"
         /\ delivery[e] \in {"PENDING", "PROCESSING", "RETRY"}
              => Phase(e) = IF e \in revived THEN "late" ELSE "published"
         /\ delivery[e] = "DELIVERED" => Phase(e) = "delivered"
         /\ delivery[e] = "DEAD" => Phase(e) = "dropped"
<1> USE DEF PipeInv, TypeOK, Linked, RevivedIsOut, EventStatuses, DeliveryStatuses
<1>1. CASE delivery[e] = "ABSENT"
  BY <1>1 DEF Settled, EventSettled, Dropped, Phase, Promise!Over, Promise!Passed
<1>2. CASE delivery[e] \in {"PENDING", "PROCESSING", "RETRY"}
  BY <1>2 DEF Settled, EventSettled, Dropped, Phase, Promise!Over, Promise!Passed
<1>3. CASE delivery[e] \in {"DELIVERED", "DEAD"}
  BY <1>3 DEF Settled, EventSettled, Dropped, Phase, Promise!Over, Promise!Passed
<1> QED BY <1>1, <1>2, <1>3

\* So the steps of each stage are behind what the promise wants them behind.
LEMMA PhaseAfter ==
  ASSUME PipeInv, NEW e \in Events
  PROVE  /\ event[e] \notin {"ABSENT", "PENDING"} => Promise!After(e, Promise!Passed)
         /\ delivery[e] \in {"PROCESSING", "RETRY", "DELIVERED"} => Promise!After(e, Promise!Over)
<1>1. \A f \in Events : Promise!Precedes(f, e) => Precedes(f, e)
  BY DEF Promise!Precedes, Precedes
<1> QED BY <1>1, PhaseOf DEF PipeInv, ClaimedInOrder, Promise!After

LEMMA PromiseStep ==
  ASSUME PipeInv, PipeInv', Moves
  PROVE  Promise!Next
<1> DEFINE phase == [e \in Events |-> Phase(e)]
<1>1. phase' \in [Events -> Promise!Phases]
  BY DEF Phase, Promise!Phases
<1>2. ASSUME NEW e \in Events
      PROVE  phase'[e] = phase[e] \/ Promise!May(e, phase'[e])
  <2>1. /\ EventMove(e) /\ DeliveryMove(e) /\ Remembered(e)
        /\ event[e] = "PUBLISHED" <=> delivery[e] # "ABSENT"
        /\ event'[e] = "PUBLISHED" <=> delivery'[e] # "ABSENT"
        /\ e \in revived => event[e] = "PUBLISHED"
        /\ event[e] \in EventStatuses
    BY DEF Moves, Move, PipeInv, TypeOK, Linked, RevivedIsOut
  <2>2. CASE event'[e] = event[e] /\ delivery'[e] = delivery[e]
    BY <2>1, <2>2 DEF Phase, Remembered
  <2>3. CASE event[e] = "ABSENT" /\ event'[e] = "PENDING"
    <3>1. Phase(e) = "absent"
      BY <2>3, PhaseOf
    <3>2. Phase(e)' = "queued"
      BY <2>1, <2>3 DEF Phase
    <3> QED BY <3>1, <3>2 DEF Promise!May
  <2>4. CASE event[e] \in {"PENDING", "FAILED"} /\ event'[e] = "PROCESSING"
    BY <2>1, <2>4 DEF Phase
  <2>5. CASE event[e] \in {"PROCESSING", "FAILED"} /\ event'[e] \in {"FAILED", "DEAD", "PUBLISHED"}
    <3>1. Phase(e) = "queued" /\ Phase(e)' \in {"queued", "published", "withheld"}
      BY <2>1, <2>5 DEF DeliveryMove, Remembered, Phase
    <3> QED BY <2>5, <3>1, PhaseAfter DEF Promise!May
  <2>6. CASE event[e] = "DEAD" /\ event'[e] = "PUBLISHED"
    <3>1. Phase(e) = "withheld"
      BY <2>6, PhaseOf
    <3>2. Phase(e)' = "late"
      BY <2>1, <2>6 DEF DeliveryMove, Remembered, Phase
    <3> QED BY <3>1, <3>2 DEF Promise!May
  <2>7. CASE event'[e] = event[e] /\ delivery'[e] # delivery[e]
    <3>1. /\ Phase(e) \in {"published", "late"}
          /\ Phase(e)' \in {Phase(e), "delivered", "dropped"}
          /\ Phase(e)' # Phase(e) => delivery[e] = "PROCESSING"
      BY <2>1, <2>7 DEF DeliveryMove, Remembered, Recovered, Phase
    <3> QED BY <3>1, PhaseAfter DEF Promise!May
  <2> QED BY <2>1, <2>2, <2>3, <2>4, <2>5, <2>6, <2>7 DEF EventMove, Recovered, EventStatuses
<1> QED BY <1>1, <1>2 DEF Promise!Next

\* The pipeline implements its promise, publications by workers that have lost
\* their claim included: every event is published and then delivered, or given
\* up, each stage in the order of the event's aggregate, but for the late ones.
THEOREM PipelineRefinesPromise == Spec => DeliversInOrder
<1>1. Init => Promise!Init
  BY PromiseInit
<1>2. PipeInv /\ PipeInv' /\ [Next]_vars => Promise!Next
  BY StepMoves, PromiseStep
<1> QED BY <1>1, <1>2, PipeInvariant, PTL DEF Spec, DeliversInOrder, Promise!Spec

Guarantee == INSTANCE OrderedDeliveryProofs WITH phase <- [e \in Events |-> Phase(e)]

\* What every ordered delivery has, the pipeline has: no subscriber is told of
\* an event before all that precede it in its aggregate are over, or were given
\* up and may turn up late; and nothing that was published or delivered is
\* taken back, by no recovery, late worker or crash.
THEOREM SubscribersSeeOrder == Spec => []Guarantee!InOrder /\ Guarantee!NeverTakenBack
<1>1. DeliversInOrder => Guarantee!Spec
  BY DEF DeliversInOrder, Promise!Spec, Guarantee!Spec, Promise!Init, Guarantee!Init,
     Promise!Next, Guarantee!Next, Promise!May, Guarantee!May, Promise!After, Guarantee!After,
     Promise!Precedes, Guarantee!Precedes, Promise!Phases, Guarantee!Phases,
     Promise!Passed, Guarantee!Passed, Promise!Over, Guarantee!Over
<1> QED BY <1>1, PipelineRefinesPromise, Guarantee!PromisedOrder, Guarantee!PromisedFinality, PTL

\* A row is given up exactly when its attempts are used up, in either stage.
THEOREM GivenUpAtLimit == Spec => []GivenUpOnlyAtLimit
BY PipelineSafety, PTL

\* Every variable keeps its type.
THEOREM PipelineTyped == Spec => []TypeOK
BY PipelineSafety, PTL
-----------------------------------------------------------------------------
(* Nothing is acknowledged that was not handled.                           *)

\* A delivery is acknowledged by a worker whose handler completed.
HandledFirst ==
  /\ \A w \in Workers : pc[w] = "handle" => cur[w] \in Events
  /\ \A w \in Workers : pc[w] = "ack" => cur[w] \in Events /\ handled[cur[w]] > 0
  /\ \A e \in Events : delivery[e] = "DELIVERED" => handled[e] > 0

LEMMA HandledInit == Init => HandledFirst
BY DEF Init, HandledFirst

\* A step after which no worker is nearer to an acknowledgement.
LEMMA HandledFrame ==
  ASSUME HandledFirst, handled' = handled,
         \A w \in Workers : pc'[w] \in {"handle", "ack"} => pc'[w] = pc[w] /\ cur'[w] = cur[w],
         \A e \in Events : delivery'[e] = "DELIVERED" => delivery[e] = "DELIVERED"
  PROVE  HandledFirst'
BY DEF HandledFirst

LEMMA HandledTake ==
  ASSUME TypeOK, HandledFirst, NEW w \in Workers, Take(w)
  PROVE  HandledFirst'
<1>1. PICK e \in batch[w] :
        \/ /\ cur' = [cur EXCEPT ![w] = e] /\ pc' = [pc EXCEPT ![w] = "handle"]
        \/ /\ UNCHANGED cur /\ pc'[w] \in {"idle", "deliver"}
           /\ \A v \in Workers : v # w => pc'[v] = pc[v]
  BY DEF Take, TypeOK
<1>2. e \in Events /\ UNCHANGED <<handled, delivery>>
  BY DEF TypeOK, Take, deliveries, observed
<1> QED BY <1>1, <1>2 DEF HandledFirst, TypeOK

LEMMA HandledHandle ==
  ASSUME TypeOK, HandledFirst, NEW w \in Workers, Handle(w)
  PROVE  HandledFirst'
<1> DEFINE c == cur[w]
<1>1. /\ c \in Events /\ UNCHANGED <<cur, delivery>>
      /\ pc' = [pc EXCEPT ![w] = "ack"]
      /\ handled' = [handled EXCEPT ![c] = IF @ < HandledCap THEN @ + 1 ELSE @]
  BY DEF Handle, HandledFirst, deliveries
<1>2. \A e \in Events : handled[e] \in Nat /\ HandledCap \in Nat /\ HandledCap > 0
  BY PipelineAssumption DEF TypeOK, HandledCap
<1>3. handled'[c] > 0 /\ \A e \in Events : handled[e] > 0 => handled'[e] > 0
  BY <1>1, <1>2 DEF TypeOK
<1> QED BY <1>1, <1>3 DEF HandledFirst, TypeOK

LEMMA HandledFinish ==
  ASSUME TypeOK, HandledFirst, NEW w \in Workers, Acknowledge(w) \/ HandlerFails(w)
  PROVE  HandledFirst'
<1>1. /\ handled' = handled
      /\ pc[w] \in {"handle", "ack"} /\ pc'[w] \in {"idle", "deliver"}
      /\ \A v \in Workers : v # w => pc'[v] = pc[v] /\ cur'[v] = cur[v]
  BY DEF Acknowledge, HandlerFails, DeliverNext, observed, TypeOK
<1>2. CASE Acknowledge(w)
  <2>1. cur[w] \in Events /\ handled[cur[w]] > 0
    BY <1>2 DEF Acknowledge, HandledFirst
  <2>2. \A e \in Events : e # cur[w] => delivery'[e] = delivery[e]
    BY <1>2 DEF Acknowledge, Finish, TypeOK
  <2> QED BY <1>1, <2>1, <2>2 DEF HandledFirst
<1>3. CASE HandlerFails(w)
  <2>1. \A e \in Events : delivery'[e] = "DELIVERED" => delivery[e] = "DELIVERED"
    BY <1>3 DEF HandlerFails, Finish, Recovered, TypeOK
  <2> QED BY <1>1, <2>1, HandledFrame
<1> QED BY <1>2, <1>3

LEMMA HandledOther ==
  ASSUME TypeOK, HandledFirst, NEW w \in Workers,
         \/ Boot(w) \/ StartCycle(w) \/ ClaimEvents(w) \/ ReadEvent(w) \/ Publish(w)
         \/ ClaimDeliveries(w) \/ PublishError(w) \/ Abandon(w)
  PROVE  HandledFirst'
<1>1. handled' = handled
  BY DEF Boot, StartCycle, ClaimEvents, ReadEvent, Publish, ClaimDeliveries, PublishError,
     Abandon, observed
<1>2. \A v \in Workers : pc'[v] \in {"handle", "ack"} => pc'[v] = pc[v] /\ cur'[v] = cur[v]
  BY DEF Boot, StartCycle, ClaimEvents, ReadEvent, Publish, ClaimDeliveries, PublishError,
     PublishNext, Abandon, TypeOK
<1>3. \A e \in Events : delivery'[e] = "DELIVERED" => delivery[e] = "DELIVERED"
  <2>1. CASE Boot(w) \/ StartCycle(w)
    BY <2>1 DEF Boot, StartCycle, RecoverExpired, Recovered, deliveries
  <2>2. CASE Publish(w)
    BY <2>2 DEF Publish, TypeOK
  <2>3. CASE ReadEvent(w) \/ PublishError(w) \/ ClaimEvents(w) \/ ClaimDeliveries(w) \/ Abandon(w)
    BY <2>3 DEF ReadEvent, PublishError, ClaimEvents, ClaimDeliveries, Abandon, deliveries
  <2> QED BY <2>1, <2>2, <2>3
<1> QED BY <1>1, <1>2, <1>3, HandledFrame

LEMMA HandledNext == TypeOK /\ HandledFirst /\ [Next]_vars => HandledFirst'
<1> SUFFICES ASSUME TypeOK, HandledFirst, [Next]_vars PROVE HandledFirst'
  OBVIOUS
<1>1. ASSUME NEW w \in Workers,
             WorkerStep(w) \/ PublishError(w) \/ HandlerFails(w) \/ Abandon(w)
      PROVE  HandledFirst'
  BY <1>1, HandledTake, HandledHandle, HandledFinish, HandledOther DEF WorkerStep
<1>2. ASSUME NEW e \in Events,
             \/ Commit(e) \/ EventLeaseExpires(e) \/ EventBecomesDue(e)
             \/ DeliveryLeaseExpires(e) \/ DeliveryBecomesDue(e)
      PROVE  HandledFirst'
  BY <1>2, HandledFrame DEF Commit, EventLeaseExpires, EventBecomesDue,
     DeliveryLeaseExpires, DeliveryBecomesDue, deliveries, memory, observed
<1>3. CASE UNCHANGED vars
  BY <1>3, HandledFrame DEF vars, deliveries, memory, observed
<1> QED BY <1>1, <1>2, <1>3 DEF Next

\* A published event has its delivery and nothing else does, and what is
\* delivered was handled.
THEOREM NothingIsLost == Spec => []NothingLost
<1>1. Init => PipeInv /\ HandledFirst
  BY PipeInit, HandledInit
<1>2. PipeInv /\ HandledFirst /\ [Next]_vars => (PipeInv /\ HandledFirst)'
  BY PipeNext, HandledNext DEF PipeInv
<1>3. PipeInv /\ HandledFirst => NothingLost
  BY DEF PipeInv, Linked, HandledFirst, NothingLost
<1> QED BY <1>1, <1>2, <1>3, PTL DEF Spec

-----------------------------------------------------------------------------
(* The order of the effects.                                               *)

\* What has become of a delivery that was claimed once.
Claimed == {"PROCESSING", "RETRY", "DELIVERED", "DEAD"}

\* A worker has an event in hand exactly while it publishes one, or runs or
\* acknowledges a handler, and takes it out of its batch for that.
HandsOK(w) ==
  /\ pc[w] \notin {"write", "handle", "ack"} => cur[w] = Nobody
  /\ pc[w] \in {"write", "handle", "ack"} => cur[w] \in Events \ batch[w]

\* Only a delivery that was claimed is handled, and it was claimed behind
\* settled ones only, which can be revived; this holds of workers that lost
\* their lease too.
Begun ==
  /\ \A w \in Workers, e \in Events : Dispatching(w, e) => delivery[e] \in Claimed
  /\ \A e \in Events : handled[e] > 0 => delivery[e] \in Claimed
  /\ \A f, e \in Events : Precedes(f, e) /\ delivery[e] \in Claimed => Settled(f) \/ f \in revived

BegunInv ==
  /\ PipeInv
  /\ \A w \in Workers : HandsOK(w)
  /\ Begun

LEMMA ClaimedStays ==
  ASSUME Moves, NEW e \in Events, delivery[e] \in Claimed
  PROVE  delivery'[e] \in Claimed
BY DEF Moves, Move, DeliveryMove, Recovered, Claimed

\* Worker w has just claimed the delivery of e.
Grabbed(w, e) ==
  /\ delivery[e] \in {"PENDING", "RETRY"}
  /\ delivery'[e] = "PROCESSING" /\ dOwner'[e] = w /\ dLease'[e] = "live"

\* The handler of e completed, and w is about to acknowledge it.
Answering(w, e) == pc[w] = "ack" /\ cur[w] = e

\* A worker comes to answer for a delivery only by claiming it, and comes back
\* to its handler only so.
HandsMove(w) ==
  /\ HandsOK(w)'
  /\ \A e \in Events : Dispatching(w, e)' => Dispatching(w, e) \/ Grabbed(w, e)
  /\ \A e \in Events : Answering(w, e) /\ Dispatching(w, e)' => Answering(w, e)'

LEMMA SameHands ==
  ASSUME NEW w \in Workers, HandsOK(w), UNCHANGED <<pc[w], batch[w], cur[w]>>
  PROVE  HandsMove(w)
BY DEF HandsMove, HandsOK, Dispatching, Answering

\* A worker with nothing to dispatch.
LEMMA FreeHands ==
  ASSUME NEW w \in Workers, HandsOK(w),
         pc'[w] \notin {"write", "deliver", "handle", "ack"},
         \/ pc[w] \notin {"write", "handle", "ack"} /\ UNCHANGED cur[w]
         \/ cur'[w] = Nobody
  PROVE  HandsMove(w)
BY DEF HandsMove, HandsOK, Dispatching, Answering

LEMMA WorkerHands ==
  ASSUME TypeOK, NEW w \in Workers, \A v \in Workers : HandsOK(v),
         WorkerStep(w) \/ PublishError(w) \/ HandlerFails(w) \/ Abandon(w),
         NEW v \in Workers
  PROVE  HandsMove(v)
<1>1. v # w => UNCHANGED <<pc[v], batch[v], cur[v]>>
  BY DEF WorkerStep, Boot, StartCycle, ClaimEvents, ReadEvent, Publish, PublishError, PublishNext,
     ClaimDeliveries, Take, Handle, Acknowledge, HandlerFails, DeliverNext, Abandon, TypeOK
<1>2. CASE v # w
  BY <1>1, <1>2, SameHands
<1>3. CASE v = w
  <2>1. CASE Boot(w) \/ StartCycle(w) \/ ClaimEvents(w) \/ Publish(w) \/ PublishError(w) \/ Abandon(w)
    <3>1. /\ pc'[w] \notin {"write", "deliver", "handle", "ack"}
          /\ \/ pc[w] \notin {"write", "handle", "ack"} /\ UNCHANGED cur[w]
             \/ cur'[w] = Nobody
      BY <2>1 DEF Boot, StartCycle, ClaimEvents, Publish, PublishError, PublishNext, Abandon, TypeOK
    <3> QED BY <1>3, <3>1, FreeHands
  <2>2. CASE ClaimDeliveries(w)
    <3>1. pc[w] = "dispatch" /\ cur[w] = Nobody /\ UNCHANGED cur
      BY <2>2 DEF ClaimDeliveries, HandsOK
    <3>2. /\ pc'[w] \in {"idle", "deliver"} /\ batch'[w] = DeliveryCandidates
          /\ \A e \in DeliveryCandidates : Grabbed(w, e)
      BY <2>2 DEF ClaimDeliveries, DeliveryCandidates, Grabbed, TypeOK
    <3>3. \A e \in Events : cur'[w] # e
      BY <3>1, PipelineAssumption
    <3> QED BY <1>3, <3>1, <3>2, <3>3 DEF HandsMove, HandsOK, Dispatching, Answering
  <2>3. CASE Take(w)
    <3>1. PICK e \in batch[w] :
            /\ batch' = [batch EXCEPT ![w] = batch[w] \ {e}]
            /\ \/ /\ cur' = [cur EXCEPT ![w] = e]
                  /\ pc' = [pc EXCEPT ![w] = "handle"]
               \/ /\ \E to \in {"idle", "deliver"} : pc' = [pc EXCEPT ![w] = to]
                  /\ UNCHANGED cur
      BY <2>3 DEF Take, TypeOK
    <3>2. e \in Events /\ pc[w] = "deliver" /\ cur[w] = Nobody
      BY <2>3 DEF Take, TypeOK, HandsOK
    <3>3. /\ batch'[w] = batch[w] \ {e}
          /\ \/ cur'[w] = e /\ pc'[w] = "handle"
             \/ cur'[w] = Nobody /\ pc'[w] \in {"idle", "deliver"}
      BY <3>1, <3>2 DEF TypeOK
    <3> QED BY <1>3, <3>2, <3>3 DEF HandsMove, HandsOK, Dispatching, Answering
  <2>4. CASE Handle(w)
    BY <1>3, <2>4 DEF Handle, TypeOK, HandsMove, HandsOK, Dispatching, Answering
  <2>5. CASE Acknowledge(w) \/ HandlerFails(w)
    <3>1. /\ pc[w] \in {"handle", "ack"} /\ pc'[w] \in {"idle", "deliver"}
          /\ cur'[w] = Nobody /\ batch'[w] = batch[w]
      BY <2>5 DEF Acknowledge, HandlerFails, DeliverNext, TypeOK
    <3> QED BY <1>3, <3>1, PipelineAssumption DEF HandsMove, HandsOK, Dispatching, Answering
  <2>6. CASE ReadEvent(w)
    <3>1. PICK e \in batch[w] :
            \/ PublishNext(w, e)
            \/ /\ cur' = [cur EXCEPT ![w] = e]
               /\ batch' = [batch EXCEPT ![w] = @ \ {e}]
               /\ pc' = [pc EXCEPT ![w] = "write"]
      BY <2>6 DEF ReadEvent
    <3>2. e \in Events /\ pc[w] = "publish"
      BY <2>6 DEF ReadEvent, TypeOK
    <3>3. \/ pc'[w] \in {"dispatch", "publish"} /\ cur'[w] = Nobody
          \/ pc'[w] = "write" /\ cur'[w] = e /\ batch'[w] = batch[w] \ {e}
      BY <3>1 DEF PublishNext, TypeOK
    <3> QED BY <1>3, <3>2, <3>3 DEF HandsMove, HandsOK, Dispatching, Answering
  <2> QED BY <2>1, <2>2, <2>3, <2>4, <2>5, <2>6 DEF WorkerStep
<1> QED BY <1>2, <1>3

LEMMA HandsNext ==
  ASSUME TypeOK, \A v \in Workers : HandsOK(v), [Next]_vars, NEW v \in Workers
  PROVE  HandsMove(v)
<1>1. ASSUME NEW w \in Workers, WorkerStep(w) \/ PublishError(w) \/ HandlerFails(w) \/ Abandon(w)
      PROVE  HandsMove(v)
  BY <1>1, WorkerHands
<1>2. ASSUME NEW e \in Events,
             \/ Commit(e) \/ EventLeaseExpires(e) \/ EventBecomesDue(e)
             \/ DeliveryLeaseExpires(e) \/ DeliveryBecomesDue(e)
      PROVE  HandsMove(v)
  BY <1>2, SameHands DEF Commit, EventLeaseExpires, EventBecomesDue, DeliveryLeaseExpires,
     DeliveryBecomesDue, memory
<1>3. CASE UNCHANGED vars
  BY <1>3, SameHands DEF vars, memory
<1> QED BY <1>1, <1>2, <1>3 DEF Next

\* What is handled in a step is in the hands of a worker.
LEMMA HandledStep ==
  ASSUME TypeOK, [Next]_vars
  PROVE  \/ UNCHANGED <<handled, late>>
         \/ \E w \in Workers : Handle(w)
BY DEF Next, WorkerStep, Boot, StartCycle, ClaimEvents, ReadEvent, Publish, PublishError, ClaimDeliveries,
   Take, Acknowledge, HandlerFails, Abandon, Commit, EventLeaseExpires, EventBecomesDue,
   DeliveryLeaseExpires, DeliveryBecomesDue, vars, observed

LEMMA BegunInit == Init => BegunInv
<1> SUFFICES ASSUME Init PROVE BegunInv
  OBVIOUS
<1>1. \A w \in Workers : HandsOK(w)
  BY DEF Init, HandsOK
<1>2. Begun
  BY DEF Init, Begun, Dispatching, Claimed
<1> QED BY <1>1, <1>2, PipeInit DEF BegunInv

LEMMA BegunNext == BegunInv /\ [Next]_vars => BegunInv'
<1> SUFFICES ASSUME BegunInv, [Next]_vars PROVE BegunInv'
  OBVIOUS
<1>1. TypeOK /\ PipeInv /\ PipeInv' /\ Moves
  BY PipeNext, StepMoves DEF BegunInv, PipeInv
<1>2. \A w \in Workers : HandsMove(w)
  BY <1>1, HandsNext DEF BegunInv
<1>3. ASSUME NEW w \in Workers, NEW e \in Events, Dispatching(w, e)'
      PROVE  delivery'[e] \in Claimed
  BY <1>1, <1>2, <1>3, ClaimedStays DEF HandsMove, Grabbed, Claimed, BegunInv, Begun
<1>4. ASSUME NEW e \in Events, handled'[e] > 0
      PROVE  delivery'[e] \in Claimed
  <2>1. CASE handled[e] > 0
    BY <1>1, <2>1, ClaimedStays DEF BegunInv, Begun
  <2>2. CASE ~(handled[e] > 0)
    <3>1. PICK w \in Workers : Handle(w)
      BY <1>1, <1>4, <2>2, HandledStep
    <3>2. pc[w] = "handle" /\ cur[w] = e
      BY <1>1, <1>4, <2>2, <3>1 DEF Handle, TypeOK
    <3>3. delivery[e] \in Claimed
      BY <3>2 DEF Dispatching, BegunInv, Begun
    <3> QED BY <1>1, <3>3, ClaimedStays
  <2> QED BY <2>1, <2>2
<1>5. ASSUME NEW f \in Events, NEW e \in Events, Precedes(f, e), delivery'[e] \in Claimed
      PROVE  Settled(f)' \/ f \in revived'
  <2>1. delivery[e] \in Claimed \/ (delivery[e] = "PENDING" /\ NextInLine(e))
    BY <1>1, <1>5 DEF Moves, Move, DeliveryMove, Claimed
  <2>2. Settled(f) \/ f \in revived
    BY <1>1, <1>5, <2>1, LineIsSettled DEF BegunInv, Begun
  <2> QED BY <1>1, <2>2, SettledStays
<1>6. Begun'
  BY <1>3, <1>4, <1>5 DEF Begun, Precedes
<1> QED BY <1>1, <1>2, <1>6 DEF BegunInv, HandsMove

\* While a worker owns the delivery it handles, nothing later was handled,
\* unless the event was revived.
LEMMA HolderInOrder ==
  ASSUME BegunInv, NEW w \in Workers, Handle(w), OwnsDelivery(w, cur[w])
  PROVE  late' \subseteq late \cup revived
<1> DEFINE e == cur[w]
<1>1. e \in Events /\ delivery[e] = "PROCESSING"
  BY DEF Handle, BegunInv, HandsOK, OwnsDelivery
<1>2. ~Settled(e)
  BY <1>1 DEF BegunInv, PipeInv, Linked, Settled, Dropped
<1>3. e \in revived \/ \A f \in Events : Precedes(e, f) => ~(handled[f] > 0)
  BY <1>1, <1>2 DEF BegunInv, Begun
<1>4. late' = IF \E f \in Events : Precedes(e, f) /\ handled[f] > 0 THEN late \cup {e} ELSE late
  BY DEF Handle
<1> QED BY <1>3, <1>4

\* A worker that still holds its delivery completes a handler out of order
\* only for an event that was given up, and published all the same.
HoldersActInOrder ==
  [][\A w \in Workers : Handle(w) /\ OwnsDelivery(w, cur[w]) => late' \subseteq late \cup revived]_vars

\* Whatever leases run out: an effect out of order is always one of a worker
\* that lost its delivery while its handler ran, or of an event that a worker
\* published after losing it to a recovery that gave it up.
THEOREM HoldersKeepTheOrder == Spec => HoldersActInOrder
<1>1. BegunInv /\ [Next]_vars
        => [\A w \in Workers : Handle(w) /\ OwnsDelivery(w, cur[w])
                                 => late' \subseteq late \cup revived]_vars
  BY HolderInOrder
<1> QED BY <1>1, BegunInit, BegunNext, PTL DEF Spec, HoldersActInOrder
-----------------------------------------------------------------------------
(* While batches end before their leases.                                  *)

\* What a worker dispatches is its own, under a lease that has not run out.
Covered ==
  \A w \in Workers, e \in Events : Dispatching(w, e) =>
    delivery[e] = "PROCESSING" /\ dOwner[e] = w /\ dLease[e] = "live"

LEMMA CoveredInit == Init => Covered
BY DEF Init, Covered, Dispatching

\* What happens to a delivery that is leased and dispatched: it stays as it
\* is, or its worker ends the attempt and has it in its hands no more.
LEMMA LeasedStep ==
  ASSUME LeaseCovers, BegunInv, Covered, [Next]_vars,
         NEW w \in Workers, NEW e \in Events, Dispatching(w, e)
  PROVE  \/ UNCHANGED <<delivery[e], dOwner[e], dLease[e]>>
         \/ ~Dispatching(w, e)'
<1>1. TypeOK /\ delivery[e] = "PROCESSING" /\ dOwner[e] = w /\ dLease[e] = "live"
  BY DEF BegunInv, PipeInv, Covered
<1>2. ASSUME NEW v \in Workers, Acknowledge(v) \/ HandlerFails(v),
             ~UNCHANGED <<delivery[e], dOwner[e], dLease[e]>>
      PROVE  ~Dispatching(w, e)'
  <2>1. pc[v] \in {"handle", "ack"} /\ cur[v] = e
    BY <1>1, <1>2 DEF Acknowledge, HandlerFails, Finish, TypeOK
  <2>2. v = w
    BY <1>1, <2>1 DEF Dispatching, Covered
  <2>3. cur'[w] = Nobody /\ batch'[w] = batch[w] /\ e \notin batch[w]
    BY <1>1, <1>2, <2>1, <2>2 DEF Acknowledge, HandlerFails, DeliverNext, BegunInv, HandsOK,
       TypeOK
  <2> QED BY <2>3, PipelineAssumption DEF Dispatching
<1>3. ASSUME NEW v \in Workers,
             \/ Boot(v) \/ StartCycle(v) \/ ClaimEvents(v) \/ ReadEvent(v) \/ Publish(v)
             \/ PublishError(v) \/ ClaimDeliveries(v) \/ Take(v) \/ Handle(v) \/ Abandon(v)
      PROVE  UNCHANGED <<delivery[e], dOwner[e], dLease[e]>>
  <2>1. CASE Boot(v) \/ StartCycle(v)
    BY <1>1, <2>1 DEF Boot, StartCycle, RecoverExpired, ExpiredDelivery, deliveries
  <2>2. CASE ClaimDeliveries(v)
    BY <1>1, <2>2 DEF ClaimDeliveries, DeliveryCandidates
  <2>3. CASE Publish(v)
    BY <1>1, <2>3 DEF Publish, TypeOK
  <2>4. CASE \/ ClaimEvents(v) \/ ReadEvent(v) \/ PublishError(v)
             \/ Take(v) \/ Handle(v) \/ Abandon(v)
    BY <2>4 DEF ClaimEvents, ReadEvent, PublishError, Take, Handle, Abandon, deliveries
  <2> QED BY <1>3, <2>1, <2>2, <2>3, <2>4
<1>4. ASSUME NEW f \in Events,
             \/ Commit(f) \/ EventLeaseExpires(f) \/ EventBecomesDue(f) \/ DeliveryBecomesDue(f)
      PROVE  UNCHANGED <<delivery[e], dOwner[e], dLease[e]>>
  BY <1>4 DEF Commit, EventLeaseExpires, EventBecomesDue, DeliveryBecomesDue, deliveries
<1>5. ASSUME NEW f \in Events, DeliveryLeaseExpires(f)
      PROVE  UNCHANGED <<delivery[e], dOwner[e], dLease[e]>>
  <2>1. f # e
    BY <1>5 DEF DeliveryLeaseExpires, DeliveryOverdue
  <2> QED BY <1>1, <1>5, <2>1 DEF DeliveryLeaseExpires, TypeOK
<1>6. CASE UNCHANGED vars
  BY <1>6 DEF vars, deliveries
<1> QED BY <1>2, <1>3, <1>4, <1>5, <1>6 DEF Next, WorkerStep

LEMMA CoveredNext ==
  ASSUME LeaseCovers, BegunInv, Covered, [Next]_vars
  PROVE  Covered'
<1> SUFFICES ASSUME NEW w \in Workers, NEW e \in Events, Dispatching(w, e)'
             PROVE  delivery'[e] = "PROCESSING" /\ dOwner'[e] = w /\ dLease'[e] = "live"
  BY DEF Covered
<1>1. Dispatching(w, e) \/ Grabbed(w, e)
  BY HandsNext DEF HandsMove, BegunInv, PipeInv
<1>2. CASE Dispatching(w, e)
  BY <1>2, LeasedStep DEF Covered
<1> QED BY <1>1, <1>2 DEF Grabbed

\* The invariant of the runs whose batches end in time.
CoveredInv == BegunInv /\ Covered /\ EffectsInOrder

\* While delivery batches end before their leases, the handlers of one
\* aggregate's events complete in the order of the events, however often they
\* are retried, except for those that were revived.
THEOREM EffectsKeepTheOrder ==
  ASSUME LeaseCovers
  PROVE  Spec => []EffectsInOrder
<1>1. Init => CoveredInv
  BY BegunInit, CoveredInit DEF CoveredInv, EffectsInOrder, Init
<1>2. CoveredInv /\ [Next]_vars => CoveredInv'
  <2> SUFFICES ASSUME CoveredInv, [Next]_vars PROVE CoveredInv'
    OBVIOUS
  <2>1. BegunInv' /\ Covered'
    BY BegunNext, CoveredNext DEF CoveredInv
  <2>2. late' \subseteq late \cup revived
    <3>1. ASSUME NEW w \in Workers, Handle(w) PROVE OwnsDelivery(w, cur[w])
      BY <3>1 DEF CoveredInv, Covered, BegunInv, HandsOK, Handle, Dispatching, OwnsDelivery
    <3> QED BY <3>1, HandledStep, HolderInOrder DEF CoveredInv, BegunInv, PipeInv
  <2>3. revived \subseteq revived'
    <3>1. Moves /\ revived \subseteq Events
      BY StepMoves DEF CoveredInv, BegunInv, PipeInv, TypeOK
    <3> QED BY <3>1 DEF Moves, Move, Remembered
  <2> QED BY <2>1, <2>2, <2>3 DEF CoveredInv, EffectsInOrder
<1> QED BY <1>1, <1>2, PTL DEF Spec, CoveredInv
-----------------------------------------------------------------------------
(* While publishing batches end before their leases.                       *)

\* What a worker publishes is its own, under a lease that has not run out.
Held ==
  \A w \in Workers, e \in Events : Publishing(w, e) =>
    event[e] = "PROCESSING" /\ eOwner[e] = w /\ eLease[e] = "live"

\* A worker comes to publish an event only by claiming it.
LEMMA PublisherMove ==
  ASSUME BegunInv, NEW w \in Workers,
         WorkerStep(w) \/ PublishError(w) \/ HandlerFails(w) \/ Abandon(w),
         NEW v \in Workers, NEW e \in Events, Publishing(v, e)'
  PROVE  \/ Publishing(v, e)
         \/ event'[e] = "PROCESSING" /\ eOwner'[e] = v /\ eLease'[e] = "live"
<1> USE DEF BegunInv, PipeInv
<1>1. CASE v # w
  <2>1. UNCHANGED <<pc[v], batch[v], cur[v]>>
    BY <1>1 DEF WorkerStep, Boot, StartCycle, ClaimEvents, ReadEvent, Publish, PublishError,
       PublishNext, ClaimDeliveries, Take, Handle, Acknowledge, HandlerFails, DeliverNext, Abandon,
       TypeOK
  <2> QED BY <2>1 DEF Publishing
<1>2. CASE v = w
  <2>1. CASE ClaimEvents(w)
    BY <1>2, <2>1, PipelineAssumption DEF ClaimEvents, Publishing, HandsOK, TypeOK
  <2>2. CASE ReadEvent(w)
    <3>1. PICK r \in batch[w] :
            \/ PublishNext(w, r)
            \/ /\ cur' = [cur EXCEPT ![w] = r]
               /\ pc' = [pc EXCEPT ![w] = "write"]
      BY <2>2 DEF ReadEvent
    <3> QED BY <1>2, <2>2, <3>1, PipelineAssumption DEF ReadEvent, PublishNext, Publishing, TypeOK
  <2>3. CASE Publish(w)
    BY <1>2, <2>3, PipelineAssumption DEF Publish, PublishNext, Publishing, TypeOK
  <2>4. CASE PublishError(w)
    BY <1>2, <2>4, PipelineAssumption DEF PublishError, PublishNext, Publishing, TypeOK
  <2>5. CASE \/ Boot(w) \/ StartCycle(w) \/ ClaimDeliveries(w) \/ Take(w) \/ Handle(w)
             \/ Acknowledge(w) \/ HandlerFails(w) \/ Abandon(w)
    BY <1>2, <2>5 DEF Boot, StartCycle, ClaimDeliveries, Take, Handle, Acknowledge, HandlerFails,
       DeliverNext, Abandon, Publishing, TypeOK
  <2> QED BY <2>1, <2>2, <2>3, <2>4, <2>5 DEF WorkerStep
<1> QED BY <1>1, <1>2

\* The row of an event that is being published is its publisher's to write.
LEMMA HeldRow ==
  ASSUME PublishCovers, BegunInv, Held, NEW w \in Workers,
         WorkerStep(w) \/ PublishError(w) \/ HandlerFails(w) \/ Abandon(w),
         NEW v \in Workers, NEW e \in Events, Publishing(v, e), Publishing(v, e)'
  PROVE  UNCHANGED <<event[e], eOwner[e], eLease[e]>>
<1> USE DEF BegunInv, PipeInv
<1>1. event[e] = "PROCESSING" /\ eOwner[e] = v /\ eLease[e] = "live"
  BY DEF Held
<1>2. CASE Boot(w) \/ StartCycle(w)
  BY <1>1, <1>2 DEF Boot, StartCycle, RecoverExpired, ExpiredEvent, outbox
<1>3. CASE ClaimEvents(w)
  BY <1>1, <1>3 DEF ClaimEvents, EventCandidates
<1>4. CASE Publish(w)
  <2>1. cur[w] # e
    <3>1. ASSUME cur[w] = e PROVE FALSE
      <4>1. v = w
        BY <1>1, <1>4, <3>1 DEF Publish, Publishing, Held
      <4> QED BY <1>4, <3>1, <4>1, PipelineAssumption DEF Publish, PublishNext, Publishing, HandsOK, TypeOK
    <3> QED BY <3>1
  <2> QED BY <1>4, <2>1 DEF Publish, TypeOK
<1>5. CASE PublishError(w)
  <2>1. PICK f \in Events :
          /\ \/ pc[w] = "publish" /\ f \in batch[w]
             \/ pc[w] = "write" /\ f = cur[w]
          /\ PublishNext(w, f)
          /\ \/ UNCHANGED <<event, eOwner, eLease>>
             \/ /\ \E to \in EventStatuses : event' = [event EXCEPT ![f] = to]
                /\ eOwner' = [eOwner EXCEPT ![f] = Nobody]
                /\ eLease' = [eLease EXCEPT ![f] = "none"]
    BY <1>5 DEF PublishError, Recovered, EventStatuses
  <2>2. f # e
    <3>1. ASSUME f = e PROVE FALSE
      <4>1. v = w
        BY <1>1, <2>1, <3>1 DEF Publishing, Held
      <4> QED BY <2>1, <3>1, <4>1, PipelineAssumption
              DEF PublishNext, Publishing, HandsOK, TypeOK
    <3> QED BY <3>1
  <2> QED BY <2>1, <2>2 DEF TypeOK
<1>6. CASE \/ ReadEvent(w) \/ ClaimDeliveries(w) \/ Take(w) \/ Handle(w) \/ Acknowledge(w)
           \/ HandlerFails(w) \/ Abandon(w)
  BY <1>6 DEF ReadEvent, ClaimDeliveries, Take, Handle, Acknowledge, HandlerFails, Abandon, outbox
<1> QED BY <1>2, <1>3, <1>4, <1>5, <1>6 DEF WorkerStep

LEMMA HeldNext ==
  ASSUME PublishCovers, BegunInv, Held, [Next]_vars
  PROVE  Held'
<1> SUFFICES ASSUME NEW v \in Workers, NEW e \in Events, Publishing(v, e)'
             PROVE  event'[e] = "PROCESSING" /\ eOwner'[e] = v /\ eLease'[e] = "live"
  BY DEF Held
<1>1. ASSUME NEW w \in Workers, WorkerStep(w) \/ PublishError(w) \/ HandlerFails(w) \/ Abandon(w)
      PROVE  event'[e] = "PROCESSING" /\ eOwner'[e] = v /\ eLease'[e] = "live"
  <2>1. CASE Publishing(v, e)
    BY <1>1, <2>1, HeldRow DEF Held
  <2>2. CASE ~Publishing(v, e)
    BY <1>1, <2>2, PublisherMove
  <2> QED BY <2>1, <2>2
<1>2. ASSUME UNCHANGED memory
      PROVE  Publishing(v, e)
  BY <1>2 DEF memory, Publishing
<1>3. ASSUME NEW f \in Events,
             \/ Commit(f) \/ EventLeaseExpires(f) \/ EventBecomesDue(f)
             \/ DeliveryLeaseExpires(f) \/ DeliveryBecomesDue(f)
      PROVE  event'[e] = "PROCESSING" /\ eOwner'[e] = v /\ eLease'[e] = "live"
  <2>1. UNCHANGED memory
    BY <1>3 DEF Commit, EventLeaseExpires, EventBecomesDue, DeliveryLeaseExpires, DeliveryBecomesDue
  <2>2. Publishing(v, e) /\ event[e] = "PROCESSING" /\ eOwner[e] = v /\ eLease[e] = "live"
    BY <1>2, <2>1 DEF Held
  <2>3. CASE EventLeaseExpires(f)
    BY <2>2, <2>3 DEF EventLeaseExpires, EventOverdue, BegunInv, PipeInv, TypeOK
  <2>4. CASE ~EventLeaseExpires(f)
    BY <1>3, <2>2, <2>4 DEF Commit, EventBecomesDue, DeliveryLeaseExpires, DeliveryBecomesDue,
       outbox, BegunInv, PipeInv, TypeOK
  <2> QED BY <2>3, <2>4
<1>4. CASE UNCHANGED vars
  BY <1>2, <1>4 DEF vars, memory, outbox, Held
<1> QED BY <1>1, <1>3, <1>4 DEF Next

\* While publishing batches end before their leases, no event that was given
\* up is published.
THEOREM NothingIsRevived ==
  ASSUME PublishCovers
  PROVE  Spec => [](revived = {})
<1> DEFINE Inv == BegunInv /\ Held /\ revived = {}
<1>1. Init => Inv
  BY BegunInit DEF Init, Held, Publishing
<1>2. Inv /\ [Next]_vars => Inv'
  <2> SUFFICES ASSUME Inv, [Next]_vars PROVE Inv'
    OBVIOUS
  <2>1. BegunInv' /\ Held'
    BY BegunNext, HeldNext
  <2>2. ASSUME NEW w \in Workers, Publish(w)
        PROVE  UNCHANGED revived
    <3>1. event[cur[w]] = "PROCESSING"
      BY <2>2 DEF Publish, Held, Publishing, BegunInv, HandsOK
    <3> QED BY <2>2, <3>1 DEF Publish
  <2>3. UNCHANGED revived
    BY <2>2 DEF Next, WorkerStep, Boot, StartCycle, ClaimEvents, ReadEvent, PublishError,
       ClaimDeliveries, Take, Handle, Acknowledge, HandlerFails, Abandon, Commit, EventLeaseExpires,
       EventBecomesDue, DeliveryLeaseExpires, DeliveryBecomesDue, vars, observed
  <2> QED BY <2>1, <2>3
<1> QED BY <1>1, <1>2, PTL DEF Spec

\* "Strict per-aggregate ordering" takes both: while the batches of either
\* stage end before their leases, no handler of an event completes after one of
\* a later event of its aggregate.
THEOREM OrderIsStrict ==
  ASSUME PublishCovers, LeaseCovers
  PROVE  Spec => [](late = {})
<1>1. EffectsInOrder /\ revived = {} => late = {}
  BY DEF EffectsInOrder
<1> QED BY <1>1, NothingIsRevived, EffectsKeepTheOrder, PTL
-----------------------------------------------------------------------------
(* How often a handler completes.                                          *)

\* A handler of e completed, and its acknowledgement is written or under way.
Answered(e) == delivery[e] = "DELIVERED" \/ \E w \in Workers : Answering(w, e)

\* Every completion but that one was undone by a fault.
Counted ==
  \A e \in Events : /\ Answered(e) => handled[e] <= 1 + faults
                    /\ ~Answered(e) => handled[e] <= faults

LEMMA CountedInit == Init => Counted
BY DEF Init, Counted

\* The counters have numbers.
LEMMA CounterTypes ==
  ASSUME TypeOK
  PROVE  faults \in Nat /\ HandledCap \in Nat /\ \A e \in Events : handled[e] \in Nat
BY PipelineAssumption DEF TypeOK, HandledCap

\* An answer is taken back only by a fault.
LEMMA AnswerStays ==
  ASSUME LeaseCovers, BegunInv, Covered, [Next]_vars, NEW e \in Events, Answered(e)
  PROVE  \/ faults' = faults /\ Answered(e)'
         \/ faults' = faults + 1
<1>1. TypeOK /\ Moves
  BY StepMoves DEF BegunInv, PipeInv
<1>2. faults' = faults \/ faults' = faults + 1
  BY DEF Next, WorkerStep, Boot, StartCycle, ClaimEvents, ReadEvent, Publish, PublishError,
     ClaimDeliveries, Take, Handle, Acknowledge, HandlerFails, Abandon, Commit, EventLeaseExpires,
     EventBecomesDue, DeliveryLeaseExpires, DeliveryBecomesDue, vars
<1>3. CASE delivery[e] = "DELIVERED"
  BY <1>1, <1>2, <1>3 DEF Moves, Move, DeliveryMove, Answered, Answering
<1>4. ASSUME NEW w \in Workers, pc[w] = "ack", cur[w] = e, faults' = faults
      PROVE  Answered(e)'
  <2>1. \/ UNCHANGED <<pc[w], cur[w]>>
        \/ Acknowledge(w)
    <3>1. faults \in Nat
      BY <1>1, CounterTypes
    <3>2. ASSUME NEW v \in Workers, PublishError(v) \/ HandlerFails(v) \/ Abandon(v)
          PROVE  UNCHANGED <<pc[w], cur[w]>>
      <4>1. HandlerFails(v) /\ pc[v] = "handle"
        <5>1. PublishError(v) \/ Abandon(v) => faults' = faults + 1
          BY DEF PublishError, Abandon
        <5>2. HandlerFails(v) => pc[v] = "handle" \/ faults' = faults + 1
          BY DEF HandlerFails
        <5>3. faults' # faults + 1
          BY <1>4, <3>1
        <5> QED BY <3>2, <5>1, <5>2, <5>3
      <4>2. v # w
        BY <1>4, <4>1
      <4> QED BY <1>1, <4>1, <4>2 DEF HandlerFails, DeliverNext, TypeOK
    <3>3. ASSUME NEW v \in Workers, WorkerStep(v)
          PROVE  UNCHANGED <<pc[w], cur[w]>> \/ Acknowledge(w)
      <4>1. CASE v = w
        BY <1>4, <3>3, <4>1 DEF WorkerStep, Boot, StartCycle, ClaimEvents, ReadEvent, Publish, ClaimDeliveries,
           Take, Handle
      <4>2. CASE v # w
        BY <1>1, <3>3, <4>2 DEF WorkerStep, Boot, StartCycle, ClaimEvents, ReadEvent, Publish, PublishNext,
           ClaimDeliveries, Take, Handle, Acknowledge, DeliverNext, TypeOK
      <4> QED BY <4>1, <4>2
    <3>4. ASSUME NEW f \in Events,
                 \/ Commit(f) \/ EventLeaseExpires(f) \/ EventBecomesDue(f)
                 \/ DeliveryLeaseExpires(f) \/ DeliveryBecomesDue(f)
          PROVE  UNCHANGED <<pc[w], cur[w]>>
      BY <3>4 DEF Commit, EventLeaseExpires, EventBecomesDue, DeliveryLeaseExpires,
         DeliveryBecomesDue, memory
    <3> QED BY <3>2, <3>3, <3>4 DEF Next, vars, memory
  <2>2. CASE Acknowledge(w)
    <3>1. OwnsDelivery(w, e)
      BY <1>4 DEF Covered, Dispatching, OwnsDelivery
    <3> QED BY <1>1, <1>4, <2>2, <3>1 DEF Acknowledge, Finish, Answered, Answering, TypeOK
  <2> QED BY <1>4, <2>1, <2>2 DEF Answered, Answering
<1> QED BY <1>2, <1>3, <1>4 DEF Answered, Answering

LEMMA CountedNext ==
  ASSUME LeaseCovers, BegunInv, Covered, Counted, [Next]_vars
  PROVE  Counted'
<1>1. TypeOK /\ TypeOK'
  BY TypeNext DEF BegunInv, PipeInv
<1>2. /\ faults \in Nat /\ faults' \in Nat /\ faults <= faults'
      /\ \A e \in Events : handled[e] \in Nat /\ handled'[e] \in Nat
  <2>1. faults' = faults \/ faults' = faults + 1
    BY DEF Next, WorkerStep, Boot, StartCycle, ClaimEvents, ReadEvent, Publish, PublishError,
       ClaimDeliveries, Take, Handle, Acknowledge, HandlerFails, Abandon, Commit,
       EventLeaseExpires, EventBecomesDue, DeliveryLeaseExpires, DeliveryBecomesDue, vars
  <2>2. faults' \in Nat /\ \A e \in Events : handled'[e] \in Nat
    BY <1>1, PipelineAssumption DEF TypeOK, HandledCap
  <2> QED BY <1>1, <2>1, <2>2, CounterTypes
<1> SUFFICES ASSUME NEW e \in Events
             PROVE  /\ Answered(e)' => handled'[e] <= 1 + faults'
                    /\ ~Answered(e)' => handled'[e] <= faults'
  BY DEF Counted
<1>3. CASE handled'[e] = handled[e]
  <2>1. CASE Answered(e)
    BY <1>2, <1>3, <2>1, AnswerStays DEF Counted
  <2>2. CASE ~Answered(e)
    BY <1>2, <1>3, <2>2 DEF Counted
  <2> QED BY <2>1, <2>2
<1>4. CASE handled'[e] # handled[e]
  <2>1. PICK w \in Workers : Handle(w)
    BY <1>1, <1>4, HandledStep
  <2>2. /\ pc[w] = "handle" /\ cur[w] = e /\ handled'[e] = handled[e] + 1
        /\ pc'[w] = "ack" /\ cur'[w] = e
    BY <1>1, <1>4, <2>1 DEF Handle, TypeOK
  <2>3. delivery[e] = "PROCESSING" /\ dOwner[e] = w
    BY <2>2 DEF Covered, Dispatching
  <2>4. ~Answered(e)
    BY <2>2, <2>3 DEF Answered, Answering, Covered, Dispatching
  <2>5. Answered(e)'
    BY <2>2 DEF Answered, Answering
  <2> QED BY <1>2, <2>2, <2>4, <2>5 DEF Counted
<1> QED BY <1>3, <1>4

\* While batches end before their leases, a handler completes once more than
\* there were crashes and errors at most.
THEOREM RepeatedByFaultsOnly ==
  ASSUME LeaseCovers
  PROVE  Spec => []RepeatedOnlyAfterFault
<1> DEFINE CountedInv == BegunInv /\ Covered /\ Counted
<1>1. Init => CountedInv
  BY BegunInit, CoveredInit, CountedInit
<1>2. CountedInv /\ [Next]_vars => CountedInv'
  BY BegunNext, CoveredNext, CountedNext
<1>3. CountedInv => RepeatedOnlyAfterFault
  <2> SUFFICES ASSUME CountedInv, NEW e \in Events PROVE handled[e] <= 1 + faults
    BY DEF RepeatedOnlyAfterFault
  <2>1. faults \in Nat /\ handled[e] \in Nat
    BY CounterTypes DEF BegunInv, PipeInv
  <2> QED BY <2>1 DEF Counted
<1> QED BY <1>1, <1>2, <1>3, PTL DEF Spec
-----------------------------------------------------------------------------
(* Completions and claims, whatever leases run out.                        *)

\* The workers that may still complete a handler of e under a claim they made.
Pending(e) == {w \in Workers : Dispatching(w, e) /\ ~Answering(w, e)}

\* Every claim of a delivery is good for one completion.
ClaimsCounted ==
  \A e \in Events : /\ IsFiniteSet(Pending(e))
                    /\ handled[e] + Cardinality(Pending(e)) <= attempts[e]

LEMMA ClaimsInit == Init => ClaimsCounted
<1> SUFFICES ASSUME Init, NEW e \in Events
             PROVE  IsFiniteSet(Pending(e)) /\ handled[e] + Cardinality(Pending(e)) <= attempts[e]
  BY DEF ClaimsCounted
<1>1. Pending(e) = {}
  BY DEF Init, Pending, Dispatching
<1>2. IsFiniteSet({}) /\ Cardinality({}) = 0
  BY FS_EmptySet
<1>3. handled[e] = 0 /\ attempts[e] = 0
  BY DEF Init
<1> QED BY <1>1, <1>2, <1>3

\* A worker joins the pending ones of e by claiming it.
LEMMA PendingGrows ==
  ASSUME BegunInv, [Next]_vars, NEW e \in Events, NEW w \in Workers,
         w \in Pending(e)', w \notin Pending(e)
  PROVE  Grabbed(w, e)
<1>1. HandsMove(w)
  BY HandsNext DEF BegunInv, PipeInv
<1>2. Dispatching(w, e)' /\ ~Answering(w, e)'
  BY DEF Pending
<1> QED BY <1>1, <1>2 DEF HandsMove, Pending

\* One worker claims e at a time, which counts the attempt and handles nothing.
LEMMA GrabCounts ==
  ASSUME BegunInv, [Next]_vars, NEW e \in Events, NEW w \in Workers, Grabbed(w, e)
  PROVE  /\ attempts'[e] = attempts[e] + 1
         /\ handled' = handled
         /\ \A v \in Workers : Grabbed(v, e) => v = w
<1>1. TypeOK /\ Moves
  BY StepMoves DEF BegunInv, PipeInv
<1>2. attempts'[e] = attempts[e] + 1
  BY <1>1 DEF Moves, Move, DeliveryMove, Grabbed
<1>3. handled' = handled
  <2>1. ASSUME NEW v \in Workers, Handle(v) PROVE FALSE
    BY <2>1 DEF Handle, deliveries, Grabbed
  <2> QED BY <1>1, <2>1, HandledStep
<1> QED BY <1>2, <1>3 DEF Grabbed

\* A completion uses up the worker's claim.
LEMMA HandleUses ==
  ASSUME BegunInv, [Next]_vars, NEW e \in Events, handled'[e] # handled[e]
  PROVE  \E w \in Workers : /\ w \in Pending(e) /\ w \notin Pending(e)'
                            /\ handled'[e] = handled[e] + 1
<1>1. TypeOK
  BY DEF BegunInv, PipeInv
<1>2. PICK w \in Workers : Handle(w)
  BY <1>1, HandledStep
<1>3. /\ pc[w] = "handle" /\ cur[w] = e /\ handled'[e] = handled[e] + 1
      /\ pc'[w] = "ack" /\ cur'[w] = e
  BY <1>1, <1>2 DEF Handle, TypeOK
<1> QED BY <1>3 DEF Pending, Dispatching, Answering

LEMMA ClaimsNext ==
  ASSUME BegunInv, ClaimsCounted, [Next]_vars
  PROVE  ClaimsCounted'
<1> SUFFICES ASSUME NEW e \in Events
             PROVE  /\ IsFiniteSet(Pending(e)')
                    /\ handled'[e] + Cardinality(Pending(e)') <= attempts'[e]
  BY DEF ClaimsCounted
<1> DEFINE P == Pending(e)
           Q == Pending(e)'
<1>1. /\ IsFiniteSet(P) /\ Cardinality(P) \in Nat
      /\ handled[e] + Cardinality(P) <= attempts[e]
  BY FS_CardinalityType DEF ClaimsCounted
<1>2. TypeOK /\ TypeOK' /\ Moves
  BY TypeNext, StepMoves DEF BegunInv, PipeInv
<1>3. /\ handled[e] \in Nat /\ handled'[e] \in Nat
      /\ attempts[e] \in Nat /\ attempts'[e] \in Nat
  BY <1>2, PipelineAssumption DEF TypeOK, HandledCap
<1>4. attempts[e] <= attempts'[e]
  BY <1>2, <1>3 DEF Moves, Move, DeliveryMove
<1>5. Q \subseteq Workers
  BY DEF Pending
<1>6. CASE \E w \in Workers : w \in Q /\ w \notin P
  <2>1. PICK w \in Workers : w \in Q /\ w \notin P
    BY <1>6
  <2>2. Grabbed(w, e)
    BY <2>1, PendingGrows
  <2>3. /\ attempts'[e] = attempts[e] + 1 /\ handled' = handled
        /\ \A v \in Workers : Grabbed(v, e) => v = w
    BY <2>2, GrabCounts
  <2>4. Q \subseteq P \cup {w}
    BY <1>5, <2>3, PendingGrows
  <2>5. IsFiniteSet(P \cup {w}) /\ Cardinality(P \cup {w}) = Cardinality(P) + 1
    BY <1>1, <2>1, FS_AddElement
  <2>6. /\ IsFiniteSet(Q) /\ Cardinality(Q) \in Nat
        /\ Cardinality(Q) <= Cardinality(P) + 1
    BY <2>4, <2>5, FS_Subset, FS_CardinalityType
  <2> QED BY <1>1, <1>3, <2>3, <2>6
<1>7. CASE handled'[e] # handled[e] /\ Q \subseteq P
  <2>1. PICK w \in Workers : w \in P /\ w \notin Q /\ handled'[e] = handled[e] + 1
    BY <1>7, HandleUses
  <2>2. IsFiniteSet(P \ {w}) /\ Cardinality(P \ {w}) = Cardinality(P) - 1
    BY <1>1, <2>1, FS_RemoveElement
  <2>3. Q \subseteq P \ {w}
    BY <1>7, <2>1
  <2>4. /\ IsFiniteSet(Q) /\ Cardinality(Q) \in Nat
        /\ Cardinality(Q) <= Cardinality(P) - 1
    BY <2>2, <2>3, FS_Subset, FS_CardinalityType
  <2> QED BY <1>1, <1>3, <1>4, <2>1, <2>4
<1>8. CASE handled'[e] = handled[e] /\ Q \subseteq P
  <2>1. /\ IsFiniteSet(Q) /\ Cardinality(Q) \in Nat
        /\ Cardinality(Q) <= Cardinality(P)
    BY <1>1, <1>8, FS_Subset, FS_CardinalityType
  <2> QED BY <1>1, <1>3, <1>4, <1>8, <2>1
<1> QED BY <1>5, <1>6, <1>7, <1>8

\* A handler completes for an event at most as often as it was claimed, and
\* claims are limited.
CompletionsAreClaimed ==
  \A e \in Events : handled[e] <= attempts[e] /\ attempts[e] <= MaxAttempts

\* However many leases run out under slow handlers, a handler completes at most
\* maxAttempts times for an event: no claim is good for two completions.
THEOREM CompletionsAreLimited == Spec => []CompletionsAreClaimed
<1> DEFINE Inv == BegunInv /\ ClaimsCounted
<1>1. Init => Inv
  BY BegunInit, ClaimsInit
<1>2. Inv /\ [Next]_vars => Inv'
  BY BegunNext, ClaimsNext
<1>3. Inv => CompletionsAreClaimed
  <2> SUFFICES ASSUME Inv, NEW e \in Events
               PROVE  handled[e] <= attempts[e] /\ attempts[e] <= MaxAttempts
    BY DEF CompletionsAreClaimed
  <2>1. Cardinality(Pending(e)) \in Nat /\ handled[e] + Cardinality(Pending(e)) <= attempts[e]
    BY FS_CardinalityType DEF ClaimsCounted
  <2>2. handled[e] \in Nat /\ attempts[e] \in 0..MaxAttempts /\ MaxAttempts \in Nat
    BY PipelineAssumption DEF BegunInv, PipeInv, TypeOK, HandledCap
  <2> QED BY <2>1, <2>2
<1> QED BY <1>1, <1>2, <1>3, PTL DEF Spec
-----------------------------------------------------------------------------
(* Nothing is stuck.                                                       *)

\* A row has an owner and a lease exactly while it is claimed.
RowLeased(e) ==
  /\ event[e] = "PROCESSING" <=> eLease[e] # "none"
  /\ event[e] = "PROCESSING" <=> eOwner[e] # Nobody
  /\ delivery[e] = "PROCESSING" <=> dLease[e] # "none"
  /\ delivery[e] = "PROCESSING" <=> dOwner[e] # Nobody

Leased == \A e \in Events : RowLeased(e)

LEMMA LeasedInit == Init => Leased
BY DEF Init, Leased, RowLeased

LEMMA LeasedFrame ==
  ASSUME NEW e \in Events, RowLeased(e),
         UNCHANGED <<event[e], eOwner[e], eLease[e], delivery[e], dOwner[e], dLease[e]>>
  PROVE  RowLeased(e)'
BY DEF RowLeased

LEMMA WorkerLeases ==
  ASSUME TypeOK, Leased, NEW w \in Workers,
         WorkerStep(w) \/ PublishError(w) \/ HandlerFails(w) \/ Abandon(w),
         NEW e \in Events
  PROVE  RowLeased(e)'
<1>1. RowLeased(e) /\ w # Nobody
  BY PipelineAssumption DEF Leased
<1>2. CASE Boot(w) \/ StartCycle(w)
  <2>1. CASE RecoverExpired
    BY <1>1, <2>1 DEF RecoverExpired, ExpiredEvent, ExpiredDelivery, Recovered, RowLeased
  <2>2. CASE UNCHANGED <<outbox, deliveries>>
    BY <1>1, <2>2, LeasedFrame DEF outbox, deliveries
  <2> QED BY <1>2, <2>1, <2>2 DEF Boot, StartCycle
<1>3. CASE ClaimEvents(w)
  BY <1>1, <1>3 DEF ClaimEvents, RowLeased, deliveries
<1>4. CASE ClaimDeliveries(w)
  BY <1>1, <1>4 DEF ClaimDeliveries, RowLeased, outbox
<1>5. CASE Publish(w)
  BY <1>1, <1>5, PipelineAssumption DEF Publish, RowLeased, TypeOK
<1>6. CASE PublishError(w)
  BY <1>1, <1>6 DEF PublishError, OwnsEvent, Recovered, RowLeased, TypeOK, deliveries
<1>7. CASE Acknowledge(w) \/ HandlerFails(w)
  BY <1>1, <1>7 DEF Acknowledge, HandlerFails, Finish, OwnsDelivery, Recovered, RowLeased, TypeOK,
     outbox
<1>8. CASE ReadEvent(w) \/ Take(w) \/ Handle(w) \/ Abandon(w)
  BY <1>1, <1>8, LeasedFrame DEF ReadEvent, Take, Handle, Abandon, outbox, deliveries
<1> QED BY <1>2, <1>3, <1>4, <1>5, <1>6, <1>7, <1>8 DEF WorkerStep

LEMMA LeasedNext ==
  ASSUME TypeOK, Leased, [Next]_vars
  PROVE  Leased'
<1> SUFFICES ASSUME NEW e \in Events PROVE RowLeased(e)'
  BY DEF Leased
<1>1. RowLeased(e)
  BY DEF Leased
<1>2. ASSUME NEW w \in Workers, WorkerStep(w) \/ PublishError(w) \/ HandlerFails(w) \/ Abandon(w)
      PROVE  RowLeased(e)'
  BY <1>2, WorkerLeases
<1>3. ASSUME NEW f \in Events, Commit(f) \/ EventBecomesDue(f) \/ DeliveryBecomesDue(f)
      PROVE  RowLeased(e)'
  BY <1>1, <1>3 DEF Commit, EventBecomesDue, DeliveryBecomesDue, RowLeased, TypeOK, deliveries,
     outbox
<1>4. ASSUME NEW f \in Events, EventLeaseExpires(f) \/ DeliveryLeaseExpires(f)
      PROVE  RowLeased(e)'
  BY <1>1, <1>4 DEF EventLeaseExpires, DeliveryLeaseExpires, RowLeased, TypeOK, deliveries, outbox
<1>5. CASE UNCHANGED vars
  BY <1>1, <1>5, LeasedFrame DEF vars, outbox, deliveries
<1> QED BY <1>2, <1>3, <1>4, <1>5 DEF Next

\* The first unsettled event of an aggregate is always one that some query
\* selects, now, or when its backoff or its lease has run out.
HeadCanMove ==
  \A e \in Events :
    /\ event[e] # "ABSENT" /\ ~Settled(e)
    /\ \A f \in Events : Precedes(f, e) => Settled(f)
    => \/ event[e] \in {"PENDING", "FAILED"} /\ retries[e] < MaxRetries /\ FirstInLine(e)
       \/ event[e] = "PROCESSING" /\ eLease[e] # "none"
       \/ delivery[e] \in {"PENDING", "RETRY"} /\ attempts[e] < MaxAttempts /\ NextInLine(e)
       \/ delivery[e] = "PROCESSING" /\ dLease[e] # "none"

\* No crash, error or late worker leaves the head of an aggregate's line where
\* no claim and no recovery finds it; what BacklogDrains needs besides is that
\* claims and recoveries go on being made.
THEOREM HeadIsNeverStuck == Spec => []HeadCanMove
<1>1. Init => PipeInv /\ Leased
  BY PipeInit, LeasedInit
<1>2. PipeInv /\ Leased /\ [Next]_vars => (PipeInv /\ Leased)'
  BY PipeNext, LeasedNext DEF PipeInv
<1>3. PipeInv /\ Leased => HeadCanMove
  <2> SUFFICES ASSUME PipeInv, Leased, NEW e \in Events, event[e] # "ABSENT", ~Settled(e),
                      \A f \in Events : Precedes(f, e) => Settled(f)
               PROVE
                 \/ event[e] \in {"PENDING", "FAILED"} /\ retries[e] < MaxRetries /\ FirstInLine(e)
                 \/ event[e] = "PROCESSING" /\ eLease[e] # "none"
                 \/ delivery[e] \in {"PENDING", "RETRY"} /\ attempts[e] < MaxAttempts /\ NextInLine(e)
                 \/ delivery[e] = "PROCESSING" /\ dLease[e] # "none"
    BY DEF HeadCanMove
  <2>1. ASSUME NEW f \in Events, Precedes(f, e)
        PROVE  /\ event[f] \in {"PUBLISHED", "DEAD"}
               /\ delivery[f] # "ABSENT" => delivery[f] \in {"DELIVERED", "DEAD"}
    BY <2>1 DEF PipeInv, Linked, Settled, Dropped
  <2>2. FirstInLine(e) /\ NextInLine(e)
    BY <2>1 DEF FirstInLine, NextInLine
  <2>3. RowLeased(e) /\ event[e] \in EventStatuses /\ delivery[e] \in DeliveryStatuses
    BY DEF Leased, PipeInv, TypeOK
  <2> QED BY <2>2, <2>3 DEF PipeInv, Linked, GivenUpOnlyAtLimit, Settled, Dropped, RowLeased,
             EventStatuses, DeliveryStatuses
<1> QED BY <1>1, <1>2, <1>3, PTL DEF Spec
-----------------------------------------------------------------------------
(* Claims that a worker has left.                                          *)

\* A claim whose owner does not work on it any more, having died, or lost its
\* batch to an error, and which nobody is about to publish.
DesertedEvent(e) ==
  /\ event[e] = "PROCESSING"
  /\ \A w \in Workers : /\ eOwner[e] = w => ~(pc[w] \in {"publish", "write"} /\ e \in batch[w])
                        /\ ~(pc[w] = "write" /\ cur[w] = e)

DesertedDelivery(e) ==
  /\ delivery[e] = "PROCESSING"
  /\ \A w \in Workers : dOwner[e] = w => ~Dispatching(w, e)

\* The row of e's event, and who is publishing it, stay.
LEMMA EventLeft ==
  ASSUME NEW e \in Events, DesertedEvent(e),
         event'[e] = event[e], eOwner'[e] = eOwner[e],
         \A w \in Workers : /\ eOwner[e] = w /\ pc'[w] \in {"publish", "write"} /\ e \in batch'[w]
                                 => pc[w] \in {"publish", "write"} /\ e \in batch[w]
                            /\ pc'[w] = "write" /\ cur'[w] = e => pc[w] = "write" /\ cur[w] = e
  PROVE  DesertedEvent(e)'
BY DEF DesertedEvent

\* An outbox claim is left alone by everyone but its owner, and by its owner
\* once it has left the batch.
LEMMA EventStaysDeserted ==
  ASSUME BegunInv, ~RecoverEachCycle, [Next]_vars, \A w \in Workers : ~Boot(w),
         NEW e \in Events, DesertedEvent(e)
  PROVE  DesertedEvent(e)'
<1> USE DEF BegunInv, PipeInv
<1>1. ASSUME NEW w \in Workers, PublishError(w)
      PROVE  DesertedEvent(e)'
  <2>1. PICK f \in Events :
          /\ \/ pc[w] = "publish" /\ f \in batch[w]
             \/ pc[w] = "write" /\ f = cur[w]
          /\ PublishNext(w, f)
          /\ IF OwnsEvent(w, f)
             THEN /\ \E to \in EventStatuses : event' = [event EXCEPT ![f] = to]
                  /\ eOwner' = [eOwner EXCEPT ![f] = Nobody]
             ELSE UNCHANGED <<event, eOwner>>
    BY <1>1 DEF PublishError, Recovered, EventStatuses
  <2>2. ~(OwnsEvent(w, f) /\ f = e)
    BY <2>1 DEF OwnsEvent, DesertedEvent
  <2>3. event'[e] = event[e] /\ eOwner'[e] = eOwner[e]
    BY <2>1, <2>2 DEF TypeOK
  <2>4. \A v \in Workers : /\ eOwner[e] = v /\ pc'[v] \in {"publish", "write"} /\ e \in batch'[v]
                                => pc[v] \in {"publish", "write"} /\ e \in batch[v]
                           /\ pc'[v] = "write" /\ cur'[v] = e => pc[v] = "write" /\ cur[v] = e
    BY <2>1 DEF PublishNext, DesertedEvent, TypeOK
  <2> QED BY <2>3, <2>4, EventLeft
<1>2. ASSUME NEW w \in Workers, Publish(w)
      PROVE  DesertedEvent(e)'
  <2>1. cur[w] \in Events /\ cur[w] # e /\ pc[w] = "write"
    BY <1>2 DEF Publish, InHand, DesertedEvent
  <2>2. event'[e] = event[e] /\ eOwner'[e] = eOwner[e]
    BY <1>2, <2>1 DEF Publish, TypeOK
  <2>3. \A v \in Workers : /\ eOwner[e] = v /\ pc'[v] \in {"publish", "write"} /\ e \in batch'[v]
                                => pc[v] \in {"publish", "write"} /\ e \in batch[v]
                           /\ pc'[v] = "write" /\ cur'[v] = e => pc[v] = "write" /\ cur[v] = e
    BY <1>2, <2>1 DEF Publish, PublishNext, TypeOK
  <2> QED BY <2>2, <2>3, EventLeft
<1>3. ASSUME NEW w \in Workers, ReadEvent(w)
      PROVE  DesertedEvent(e)'
  <2>1. PICK f \in batch[w] :
          \/ PublishNext(w, f)
          \/ /\ OwnsEvent(w, f)
             /\ cur' = [cur EXCEPT ![w] = f]
             /\ batch' = [batch EXCEPT ![w] = @ \ {f}]
             /\ pc' = [pc EXCEPT ![w] = "write"]
    BY <1>3 DEF ReadEvent
  <2>2. pc[w] = "publish" /\ UNCHANGED <<event, eOwner>>
    BY <1>3 DEF ReadEvent, outbox
  <2>3. \A v \in Workers : /\ eOwner[e] = v /\ pc'[v] \in {"publish", "write"} /\ e \in batch'[v]
                                => pc[v] \in {"publish", "write"} /\ e \in batch[v]
                           /\ pc'[v] = "write" /\ cur'[v] = e => pc[v] = "write" /\ cur[v] = e
    <3>1. CASE PublishNext(w, f)
      BY <2>2, <3>1 DEF PublishNext, TypeOK
    <3>2. CASE ~PublishNext(w, f)
      <4>1. f # e
        BY <2>1, <2>2, <3>2 DEF OwnsEvent, DesertedEvent
      <4> QED BY <2>1, <2>2, <3>2, <4>1 DEF TypeOK
    <3> QED BY <3>1, <3>2
  <2> QED BY <2>2, <2>3, EventLeft
<1>4. ASSUME NEW w \in Workers, ClaimEvents(w)
      PROVE  DesertedEvent(e)'
  <2>1. e \notin EventCandidates
    BY DEF EventCandidates, DesertedEvent
  <2>2. event'[e] = event[e] /\ eOwner'[e] = eOwner[e]
    BY <1>4, <2>1 DEF ClaimEvents
  <2>3. \A v \in Workers : /\ pc'[v] \in {"publish", "write"} /\ e \in batch'[v]
                                => pc[v] \in {"publish", "write"} /\ e \in batch[v]
                           /\ pc'[v] = "write" /\ cur'[v] = e => pc[v] = "write" /\ cur[v] = e
    BY <1>4, <2>1 DEF ClaimEvents, TypeOK
  <2> QED BY <2>2, <2>3, EventLeft
<1>5. ASSUME NEW w \in Workers,
             \/ StartCycle(w) \/ ClaimDeliveries(w) \/ Take(w) \/ Handle(w)
             \/ Acknowledge(w) \/ HandlerFails(w) \/ Abandon(w)
      PROVE  DesertedEvent(e)'
  <2>1. UNCHANGED <<event, eOwner>>
    BY <1>5 DEF StartCycle, ClaimDeliveries, Take, Handle, Acknowledge, HandlerFails, Abandon, outbox
  <2>2. \A v \in Workers :
          /\ pc'[v] \in {"publish", "write"} => pc[v] = pc'[v] /\ batch'[v] = batch[v]
          /\ pc'[v] = "write" => pc[v] = "write" /\ cur'[v] = cur[v]
    BY <1>5 DEF StartCycle, ClaimDeliveries, Take, Handle, Acknowledge, HandlerFails, DeliverNext,
       Abandon, TypeOK
  <2> QED BY <2>1, <2>2, EventLeft
<1>6. ASSUME NEW f \in Events,
             \/ Commit(f) \/ EventLeaseExpires(f) \/ EventBecomesDue(f)
             \/ DeliveryLeaseExpires(f) \/ DeliveryBecomesDue(f)
      PROVE  DesertedEvent(e)'
  <2>1. event'[e] = event[e] /\ eOwner' = eOwner
    BY <1>6 DEF Commit, EventLeaseExpires, EventBecomesDue, DeliveryLeaseExpires,
       DeliveryBecomesDue, outbox, DesertedEvent, TypeOK
  <2>2. UNCHANGED memory
    BY <1>6 DEF Commit, EventLeaseExpires, EventBecomesDue, DeliveryLeaseExpires, DeliveryBecomesDue
  <2> QED BY <2>1, <2>2, EventLeft DEF memory
<1>7. CASE UNCHANGED vars
  BY <1>7, EventLeft DEF vars, outbox, memory
<1> QED BY <1>1, <1>2, <1>3, <1>4, <1>5, <1>6, <1>7 DEF Next, WorkerStep

\* A delivery's claim is left alone likewise.
LEMMA DeliveryStaysDeserted ==
  ASSUME BegunInv, ~RecoverEachCycle, [Next]_vars, \A w \in Workers : ~Boot(w),
         NEW e \in Events, DesertedDelivery(e)
  PROVE  DesertedDelivery(e)'
<1> USE DEF BegunInv, PipeInv
<1>1. \A w \in Workers : HandsMove(w)
  BY HandsNext
<1>2. SUFFICES delivery'[e] = "PROCESSING" /\ dOwner'[e] = dOwner[e]
  BY <1>1 DEF HandsMove, Grabbed, DesertedDelivery
<1>3. ASSUME NEW w \in Workers, Acknowledge(w) \/ HandlerFails(w)
      PROVE  delivery'[e] = "PROCESSING" /\ dOwner'[e] = dOwner[e]
  <2>1. PICK to \in DeliveryStatuses, reached \in BOOLEAN : Finish(w, cur[w], to, reached)
    <3>1. cur[w] \in Events /\ dDue[cur[w]] \in BOOLEAN
      BY <1>3 DEF Acknowledge, HandlerFails, HandsOK, TypeOK
    <3> QED BY <1>3, <3>1 DEF Acknowledge, HandlerFails, Recovered, DeliveryStatuses
  <2>2. ~(OwnsDelivery(w, cur[w]) /\ cur[w] = e)
    BY <1>3 DEF Acknowledge, HandlerFails, OwnsDelivery, DesertedDelivery, Dispatching
  <2> QED BY <2>1, <2>2 DEF Finish, DesertedDelivery, TypeOK
<1>4. ASSUME NEW w \in Workers, Publish(w)
      PROVE  delivery'[e] = "PROCESSING" /\ dOwner'[e] = dOwner[e]
  BY <1>4 DEF Publish, DesertedDelivery, TypeOK
<1>5. ASSUME NEW w \in Workers, ClaimDeliveries(w)
      PROVE  delivery'[e] = "PROCESSING" /\ dOwner'[e] = dOwner[e]
  BY <1>5 DEF ClaimDeliveries, DeliveryCandidates, DesertedDelivery
<1>6. ASSUME NEW w \in Workers,
             \/ StartCycle(w) \/ ClaimEvents(w) \/ ReadEvent(w) \/ PublishError(w) \/ Take(w)
             \/ Handle(w) \/ Abandon(w)
      PROVE  delivery'[e] = "PROCESSING" /\ dOwner'[e] = dOwner[e]
  BY <1>6 DEF StartCycle, ClaimEvents, ReadEvent, PublishError, Take, Handle, Abandon, deliveries,
     DesertedDelivery
<1>7. ASSUME NEW f \in Events,
             \/ Commit(f) \/ EventLeaseExpires(f) \/ EventBecomesDue(f)
             \/ DeliveryLeaseExpires(f) \/ DeliveryBecomesDue(f)
      PROVE  delivery'[e] = "PROCESSING" /\ dOwner'[e] = dOwner[e]
  BY <1>7 DEF Commit, EventLeaseExpires, EventBecomesDue, DeliveryLeaseExpires,
     DeliveryBecomesDue, deliveries, DesertedDelivery
<1>8. CASE UNCHANGED vars
  BY <1>8 DEF vars, deliveries, DesertedDelivery
<1> QED BY <1>3, <1>4, <1>5, <1>6, <1>7, <1>8 DEF Next, WorkerStep

\* In the long-running worker nothing but the start of a process gives back a
\* claim that its owner has left: no other worker's cycle does, nor the passing
\* of its lease.  By ClaimedInOrder no later event of the aggregate is delivered
\* meanwhile, so a worker that goes on running after an error, or a crash of one
\* of several, holds the aggregate's events back until some process starts.
THEOREM DesertedAwaitABoot ==
  ASSUME ~RecoverEachCycle
  PROVE  Spec => [][\/ \E w \in Workers : Boot(w)
                    \/ \A e \in Events : /\ DesertedEvent(e) => DesertedEvent(e)'
                                         /\ DesertedDelivery(e) => DesertedDelivery(e)']_vars
<1>1. BegunInv /\ [Next]_vars =>
        [\/ \E w \in Workers : Boot(w)
         \/ \A e \in Events : /\ DesertedEvent(e) => DesertedEvent(e)'
                              /\ DesertedDelivery(e) => DesertedDelivery(e)']_vars
  BY EventStaysDeserted, DeliveryStaysDeserted DEF BegunInv, PipeInv
<1>2. Init => BegunInv
  BY BegunInit
<1>3. BegunInv /\ [Next]_vars => BegunInv'
  BY BegunNext
<1> QED BY <1>1, <1>2, <1>3, PTL DEF Spec
=============================================================================
