--------------------------- MODULE MessageDispatch ---------------------------
(***************************************************************************)
(* The queue of outbound messages (lib/messaging/messagingPlatform.ts).    *)
(* enqueueMessage stores a message with a dispatch; workers claim due      *)
(* dispatches under a 60 second lease shared by their batch, send one      *)
(* after another through a provider that knows no idempotency key, and     *)
(* record the answer by the dispatch's id alone; carriers report the       *)
(* outcome by webhook; the owner may retry what has failed.                *)
(*                                                                         *)
(* Every send is preceded by a row for its attempt, whose number is one    *)
(* more than the attempts answered so far and is unique for the dispatch.  *)
(* Nothing else keeps a worker whose lease has run out from sending: no    *)
(* write names the lease's owner, so the owner is not modelled, and no     *)
(* assumption is made on how fast workers are.                             *)
(***************************************************************************)
EXTENDS Naturals, FiniteSets

CONSTANTS
  Dispatches,  \* MessageDispatch rows, each with its message
  Workers,     \* worker processes, or overlapping HTTP ticks
  NoDispatch,  \* no send in hand
  MaxAttempts, \* MessageDispatch.maxAttempts
  BatchLimit,  \* the LIMIT of the claim
  MaxRetries,  \* bound on retries by the owner
  MaxFaults    \* bound on crashes, database errors and lost answers

ASSUME DispatchAssumption ==
  /\ NoDispatch \notin Dispatches
  /\ MaxAttempts \in Nat \ {0}
  /\ BatchLimit \in Nat \ {0}
  /\ MaxRetries \in Nat
  /\ MaxFaults \in Nat

VARIABLES
  status,   \* MessageDispatch.status, "ABSENT" before it is enqueued
  attempts, \* MessageDispatch.attempts: the attempts that were answered
  lease,    \* MessageDispatch.leaseExpiresAt: null, in the future, or past
  due,      \* MessageDispatch.nextAttemptAt <= now
  known,    \* MessageDispatch.providerMessageId is set
  rows,     \* the numbers of its MessageDispatchAttempt rows
  message,  \* Message.status
  verdict,  \* what the carrier reports of the message whose id is stored
  pc,       \* where a worker is in its cycle
  batch,    \* the dispatches a worker has claimed and not yet begun
  seen,     \* the attempts of a dispatch as a worker has claimed it
  cur,      \* the dispatch a worker is sending
  answer,   \* what the provider has answered it
  sent,     \* how often the provider has accepted a message (observed)
  lost,     \* how many of these acceptances were never recorded (observed)
  retries,  \* retries by the owner so far
  faults    \* crashes, errors and lost answers so far

queue == <<status, attempts, lease, due, known, rows>>
outcome == <<message, verdict>>
memory == <<pc, batch, seen, cur, answer>>
observed == <<sent, lost>>
vars == <<queue, outcome, memory, observed, retries, faults>>

Statuses == {"ABSENT", "PENDING", "PROCESSING", "RETRY",
             "ACCEPTED", "DELIVERED", "FAILED", "DEAD"}
Queued == {"PENDING", "RETRY", "PROCESSING"}
Settled == {"ACCEPTED", "DELIVERED", "FAILED", "DEAD"}

TypeOK ==
  /\ status \in [Dispatches -> Statuses]
  /\ attempts \in [Dispatches -> 0..MaxAttempts]
  /\ lease \in [Dispatches -> {"none", "live", "expired"}]
  /\ due \in [Dispatches -> BOOLEAN]
  /\ known \in [Dispatches -> BOOLEAN]
  /\ rows \in [Dispatches -> SUBSET (1..MaxAttempts)]
  /\ message \in [Dispatches -> {"none", "draft", "sent", "failed"}]
  /\ verdict \in [Dispatches -> {"none", "DELIVERED", "FAILED"}]
  /\ pc \in [Workers -> {"idle", "claim", "begin", "send", "record"}]
  /\ batch \in [Workers -> SUBSET Dispatches]
  /\ seen \in [Workers -> [Dispatches -> 0..MaxAttempts]]
  /\ cur \in [Workers -> Dispatches \cup {NoDispatch}]
  /\ answer \in [Workers -> {"none", "accepted", "transient", "permanent"}]
  /\ sent \in [Dispatches -> 0..MaxAttempts]
  /\ lost \in [Dispatches -> 0..MaxAttempts]
  /\ retries \in 0..MaxRetries
  /\ faults \in 0..MaxFaults

Init ==
  /\ status = [d \in Dispatches |-> "ABSENT"]
  /\ attempts = [d \in Dispatches |-> 0]
  /\ lease = [d \in Dispatches |-> "none"]
  /\ due = [d \in Dispatches |-> FALSE]
  /\ known = [d \in Dispatches |-> FALSE]
  /\ rows = [d \in Dispatches |-> {}]
  /\ message = [d \in Dispatches |-> "none"]
  /\ verdict = [d \in Dispatches |-> "none"]
  /\ pc = [w \in Workers |-> "idle"]
  /\ batch = [w \in Workers |-> {}]
  /\ seen = [w \in Workers |-> [d \in Dispatches |-> 0]]
  /\ cur = [w \in Workers |-> NoDispatch]
  /\ answer = [w \in Workers |-> "none"]
  /\ sent = [d \in Dispatches |-> 0]
  /\ lost = [d \in Dispatches |-> 0]
  /\ retries = 0
  /\ faults = 0
-----------------------------------------------------------------------------
(* Enqueueing, and the owner's retry.                                      *)

\* The entitlement, the budget, suppressions and consent allow the message,
\* and its idempotency key is new; it may be scheduled for later.
Enqueue(d) ==
  /\ status[d] = "ABSENT"
  /\ status' = [status EXCEPT ![d] = "PENDING"]
  /\ message' = [message EXCEPT ![d] = "draft"]
  /\ \E now \in BOOLEAN : due' = [due EXCEPT ![d] = now]
  /\ UNCHANGED <<attempts, lease, known, rows, verdict, memory, observed, retries, faults>>

\* What retryDispatch sets attempts to.
AttemptsOnRetry(d) == 0

\* The owner queues a failed dispatch again; its attempt rows stay.
RetryDispatch(d) ==
  /\ status[d] \in {"DEAD", "FAILED"}
  /\ retries < MaxRetries
  /\ retries' = retries + 1
  /\ status' = [status EXCEPT ![d] = "RETRY"]
  /\ attempts' = [attempts EXCEPT ![d] = AttemptsOnRetry(d)]
  /\ due' = [due EXCEPT ![d] = TRUE]
  /\ UNCHANGED <<lease, known, rows, outcome, memory, observed, faults>>
-----------------------------------------------------------------------------
(* A worker's cycle: recovery, then one batch.                             *)

\* A claim whose lease has run out.
Stuck(d) == status[d] = "PROCESSING" /\ lease[d] = "expired"

\* recoverStuckMessageDispatches, before every batch.  The message of a
\* dispatch that is given up here is left as it is.
Recover(w) ==
  /\ pc[w] = "idle"
  /\ pc' = [pc EXCEPT ![w] = "claim"]
  /\ status' = [d \in Dispatches |->
       IF ~Stuck(d) THEN status[d]
       ELSE IF attempts[d] >= MaxAttempts THEN "DEAD" ELSE "RETRY"]
  /\ lease' = [d \in Dispatches |-> IF Stuck(d) THEN "none" ELSE lease[d]]
  /\ due' = [d \in Dispatches |-> due[d] \/ (Stuck(d) /\ attempts[d] < MaxAttempts)]
  /\ UNCHANGED <<attempts, known, rows, outcome, batch, seen, cur, answer,
                 observed, retries, faults>>

\* Mutant: a dispatch is picked up once.
CandidatesNew ==
  {d \in Dispatches : status[d] = "PENDING" /\ due[d] /\ lease[d] # "live"}

\* WHERE status IN (PENDING, RETRY) AND next_attempt_at <= now AND the lease
\* is null or past.
Candidates ==
  {d \in Dispatches : status[d] \in {"PENDING", "RETRY"} /\ due[d] /\ lease[d] # "live"}

\* FOR UPDATE SKIP LOCKED LIMIT: a batch as large as the limit allows.
Claim(w) ==
  /\ pc[w] = "claim"
  /\ \E S \in SUBSET Candidates :
       /\ Cardinality(S) <= BatchLimit
       /\ S # Candidates => Cardinality(S) = BatchLimit
       /\ status' = [d \in Dispatches |-> IF d \in S THEN "PROCESSING" ELSE status[d]]
       /\ lease' = [d \in Dispatches |-> IF d \in S THEN "live" ELSE lease[d]]
       /\ batch' = [batch EXCEPT ![w] = S]
       /\ seen' = [seen EXCEPT ![w] =
                     [d \in Dispatches |-> IF d \in S THEN attempts[d] ELSE 0]]
       /\ pc' = [pc EXCEPT ![w] = IF S = {} THEN "idle" ELSE "begin"]
  /\ UNCHANGED <<attempts, due, known, rows, outcome, cur, answer, observed, retries, faults>>

\* The number of the attempt a worker is about to make, or is making.
Number(w, d) == seen[w][d] + 1

\* The batch ends before its time: its other dispatches keep their leases.
Drop(w) ==
  /\ pc' = [pc EXCEPT ![w] = "idle"]
  /\ batch' = [batch EXCEPT ![w] = {}]
  /\ seen' = [seen EXCEPT ![w] = [d \in Dispatches |-> 0]]
  /\ cur' = [cur EXCEPT ![w] = NoDispatch]
  /\ answer' = [answer EXCEPT ![w] = "none"]

\* Mutant: the attempt's row is created or overwritten.
NumberUnchecked(w, d) == TRUE

\* @@unique([dispatchId, attempt]).
NumberFree(w, d) == Number(w, d) \notin rows[d]

\* messageDispatchAttempt.create, outside the try: if the number is taken, the
\* error ends the batch.
Begin(w) ==
  /\ pc[w] = "begin"
  /\ \E d \in batch[w] :
       IF NumberFree(w, d)
       THEN /\ rows' = [rows EXCEPT ![d] = @ \cup {Number(w, d)}]
            /\ batch' = [batch EXCEPT ![w] = @ \ {d}]
            /\ cur' = [cur EXCEPT ![w] = d]
            /\ pc' = [pc EXCEPT ![w] = "send"]
            /\ UNCHANGED <<seen, answer>>
       ELSE Drop(w) /\ UNCHANGED rows
  /\ UNCHANGED <<status, attempts, lease, due, known, outcome, observed, retries, faults>>

\* The provider accepts the message.
Accepts(d) == sent' = [sent EXCEPT ![d] = @ + 1]

\* An acceptance of which nothing will be recorded.
Loses(d) == lost' = [lost EXCEPT ![d] = @ + 1]

\* The provider's answer.  A refusal, an error and the kill switch for all
\* messages are alike but for being permanent or not; an answer that is lost
\* after the message was accepted counts as a transient error.
Send(w) ==
  /\ pc[w] = "send"
  /\ \/ /\ answer' = [answer EXCEPT ![w] = "accepted"]
        /\ Accepts(cur[w])
        /\ UNCHANGED <<lost, faults>>
     \/ /\ \E e \in {"transient", "permanent"} : answer' = [answer EXCEPT ![w] = e]
        /\ UNCHANGED <<observed, faults>>
     \/ /\ faults < MaxFaults
        /\ faults' = faults + 1
        /\ answer' = [answer EXCEPT ![w] = "transient"]
        /\ Accepts(cur[w])
        /\ Loses(cur[w])
  /\ pc' = [pc EXCEPT ![w] = "record"]
  /\ UNCHANGED <<queue, outcome, batch, seen, cur, retries>>

\* On to the rest of the batch.
NextInBatch(w) ==
  /\ pc' = [pc EXCEPT ![w] = IF batch[w] = {} THEN "idle" ELSE "begin"]
  /\ cur' = [cur EXCEPT ![w] = NoDispatch]
  /\ answer' = [answer EXCEPT ![w] = "none"]
  /\ seen' = [seen EXCEPT ![w][cur[w]] = 0]
  /\ UNCHANGED batch

\* The transaction that records an acceptance.
RecordAccepted(w) ==
  /\ pc[w] = "record" /\ answer[w] = "accepted"
  /\ LET d == cur[w]
     IN /\ status' = [status EXCEPT ![d] = "ACCEPTED"]
        /\ attempts' = [attempts EXCEPT ![d] = @ + 1]
        /\ lease' = [lease EXCEPT ![d] = "none"]
        /\ known' = [known EXCEPT ![d] = TRUE]
        /\ message' = [message EXCEPT ![d] = "sent"]
        /\ verdict' = [verdict EXCEPT ![d] = "none"]
  /\ NextInBatch(w)
  /\ UNCHANGED <<due, rows, observed, retries, faults>>

\* Mutant: an attempt that has failed is not counted.
AttemptUncounted(w) == seen[w][cur[w]]

\* What a failure sets attempts to.
AttemptsOnFailure(w) == Number(w, cur[w])

\* Mutant: the last attempt is queued once more.
GivesUpLate(w) == answer[w] = "permanent" \/ Number(w, cur[w]) > MaxAttempts

\* The provider will not take it, or this was the last attempt.
GivesUp(w) == answer[w] = "permanent" \/ Number(w, cur[w]) >= MaxAttempts

\* The catch block: the answer was not an acceptance, or the transaction that
\* was to record one has failed.
RecordFailure(w) ==
  /\ pc[w] = "record"
  /\ LET d == cur[w]
     IN /\ IF answer[w] = "accepted"
           THEN faults < MaxFaults /\ faults' = faults + 1 /\ Loses(d)
           ELSE UNCHANGED <<faults, lost>>
        /\ status' = [status EXCEPT ![d] = IF GivesUp(w) THEN "DEAD" ELSE "RETRY"]
        /\ attempts' = [attempts EXCEPT ![d] = AttemptsOnFailure(w)]
        /\ lease' = [lease EXCEPT ![d] = "none"]
        /\ due' = [due EXCEPT ![d] = FALSE]
        /\ message' = [message EXCEPT ![d] = IF GivesUp(w) THEN "failed" ELSE @]
  /\ NextInBatch(w)
  /\ UNCHANGED <<known, rows, verdict, sent, retries>>

\* The process dies, or a statement outside the try or inside the catch fails.
\* A message being sent may have been accepted.
Abandon(w) ==
  /\ pc[w] # "idle"
  /\ faults < MaxFaults
  /\ faults' = faults + 1
  /\ \/ pc[w] = "send" /\ Accepts(cur[w]) /\ Loses(cur[w])
     \/ pc[w] = "record" /\ answer[w] = "accepted" /\ Loses(cur[w]) /\ UNCHANGED sent
     \/ answer[w] # "accepted" /\ UNCHANGED observed
  /\ Drop(w)
  /\ UNCHANGED <<queue, outcome, retries>>
-----------------------------------------------------------------------------
(* Carriers and time.                                                      *)

\* recordDeliveryReceipt: the dispatch is found by the id that is stored, so a
\* receipt that comes before it is stored changes nothing.  A carrier reports
\* one outcome, any number of times; READ counts as DELIVERED.
Receipt(d) ==
  /\ known[d]
  /\ \E v \in {"DELIVERED", "FAILED"} :
       /\ verdict[d] \in {"none", v}
       /\ verdict' = [verdict EXCEPT ![d] = v]
       /\ status' = [status EXCEPT ![d] = v]
       /\ message' = [message EXCEPT ![d] = IF v = "FAILED" THEN "failed" ELSE @]
  /\ UNCHANGED <<attempts, lease, due, known, rows, memory, observed, retries, faults>>

LeaseExpires(d) ==
  /\ lease[d] = "live"
  /\ lease' = [lease EXCEPT ![d] = "expired"]
  /\ UNCHANGED <<status, attempts, due, known, rows, outcome, memory, observed, retries, faults>>

\* The scheduled time, or the end of the backoff, has come.
BecomesDue(d) ==
  /\ status[d] \in Queued /\ ~due[d]
  /\ due' = [due EXCEPT ![d] = TRUE]
  /\ UNCHANGED <<status, attempts, lease, known, rows, outcome, memory, observed, retries, faults>>

WorkerStep(w) ==
  \/ Recover(w) \/ Claim(w) \/ Begin(w) \/ Send(w)
  \/ RecordAccepted(w) \/ RecordFailure(w)

Next ==
  \/ \E w \in Workers : WorkerStep(w) \/ Abandon(w)
  \/ \E d \in Dispatches : \/ Enqueue(d) \/ RetryDispatch(d)
                           \/ Receipt(d) \/ LeaseExpires(d) \/ BecomesDue(d)

Spec == Init /\ [][Next]_vars

\* The worker's timer polls and awaits every step, and time passes.
Fairness ==
  /\ \A w \in Workers : WF_vars(WorkerStep(w))
  /\ \A d \in Dispatches : WF_vars(LeaseExpires(d)) /\ WF_vars(BecomesDue(d))

FairSpec == Spec /\ Fairness
-----------------------------------------------------------------------------
(* Properties.                                                             *)

\* A worker has begun an attempt to send d and not recorded its end.
InFlight(w, d) == cur[w] = d

\* The number of the next attempt is taken and nobody is making it.
Stranded(d) ==
  /\ status[d] \in Queued
  /\ attempts[d] + 1 \in rows[d]
  /\ \A w \in Workers : ~InFlight(w, d)

\* A customer gets a message twice only if an acceptance was lost, and never
\* more often than maxAttempts, although workers may be slower than their
\* leases, write without looking at the lease, and the owner may retry: the
\* attempt's number is what keeps a second worker out.
DuplicateOnlyAfterLoss ==
  \A d \in Dispatches : sent[d] <= 1 + lost[d] /\ sent[d] <= MaxAttempts

\* The status of a message agrees with its dispatch, whichever worker wrote
\* last: "sent" while it is accepted or delivered, "failed" once it is given up.
MessageAgrees ==
  \A d \in Dispatches :
    /\ message[d] = "sent" <=> status[d] \in {"ACCEPTED", "DELIVERED"}
    /\ status[d] \in {"DEAD", "FAILED"} => message[d] = "failed"

\* A queued dispatch has attempts left, so that the recovery's "over-attempt
\* rows go DEAD", which would leave the message a draft, never applies.
QueuedHasAttempts ==
  \A d \in Dispatches : status[d] \in Queued => attempts[d] < MaxAttempts

\* The number of a queued dispatch's next attempt is taken by nobody only after
\* a crash or error, or after the owner's retry.
StrandedHasCause ==
  \A d \in Dispatches : Stranded(d) => faults > 0 \/ retries > 0

\* What the owner and the customer see of a message.
FateOf(d) ==
  CASE status[d] = "ABSENT" -> "absent"
    [] status[d] \in Queued -> "waiting"
    [] status[d] = "ACCEPTED" -> "sent"
    [] status[d] = "DELIVERED" -> "delivered"
    [] OTHER -> "failed"

Fate == INSTANCE MessageFate
        WITH Messages <- Dispatches, fate <- [d \in Dispatches |-> FateOf(d)], copies <- sent

\* The queue implements the life of a message that MessageFate describes: it is
\* sent only while it waits, and not again unless the copy before was lost; no
\* late worker, recovery, repeated webhook or retry sends or moves a settled
\* one, but for the owner's retry of one that has failed.
KeepsFate == Fate!Spec

\* Every message is accepted or given up, unless a dispatch is stranded, which
\* ends every batch that it is part of.
SettlesUnlessStranded ==
  \A d \in Dispatches :
    status[d] \in Queued ~> \/ status[d] \in Settled
                            \/ \E e \in Dispatches : Stranded(e)

\* "Reclaim message dispatches stranded in PROCESSING by a worker that crashed
\* mid-send [...]: over-attempt rows go DEAD, the rest go back to RETRY for
\* immediate re-pickup" (messagingPlatform.ts): every message settles.
EveryMessageSettles ==
  \A d \in Dispatches : status[d] \in Queued ~> status[d] \in Settled
=============================================================================
