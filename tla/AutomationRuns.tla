--------------------------- MODULE AutomationRuns ---------------------------
(***************************************************************************)
(* The automation run engine (src/lib/automation/executor.ts): a table of  *)
(* runs that is itself the durable queue, polled by any number of worker   *)
(* processes.  One poll cycle recovers the runs whose lease has expired,   *)
(* takes a snapshot of the due runs, claims them one at a time, and then   *)
(* executes the claimed batch sequentially.  Every write is one            *)
(* conditional UPDATE guarded by the run's status; nothing names the       *)
(* worker that holds a run.                                                *)
(*                                                                         *)
(* Time is abstract: a claim's lease is "live" until it is "expired", and  *)
(* a run's scheduledFor is either reached (due) or not.                    *)
(***************************************************************************)
EXTENDS Naturals, FiniteSets

CONSTANTS
  Runs,          \* the (rule, event) pairs, one per dedupe key
  Workers,       \* the worker processes and HTTP ticks that may overlap
  NoRun,         \* a worker's current run when it has none
  MaxAttempts,   \* MAX_SEND_ATTEMPTS
  BatchLimit,    \* processDueAutomationRuns' limit
  LeaseCovers,   \* what LEASE_DURATION_SECONDS outlasts, see LeasePaces
  MaxFaults      \* bound on crashes, database errors and lost answers

\* "batch": a worker's whole claimed batch ends before any of its leases does.
\* "single": one execution does, a run waiting behind others may not.
\* "nothing": a worker may always be slower than its lease.
LeasePaces == {"batch", "single", "nothing"}

ASSUME RunsAssumption ==
  /\ NoRun \notin Runs
  /\ MaxAttempts \in Nat \ {0}
  /\ BatchLimit \in Nat \ {0}
  /\ LeaseCovers \in LeasePaces
  /\ MaxFaults \in Nat

VARIABLES
  status,     \* AutomationRun.status, "ABSENT" before the run is created
  attempts,   \* AutomationRun.attemptCount
  lease,      \* AutomationRun.leaseExpiresAt: null, in the future, or past
  due,        \* AutomationRun.scheduledFor <= now
  message,    \* the Message row with this automationRunId, and its status
  blocked,    \* some re-validated condition of this run does not hold
  active,     \* Business.platformStatus = ACTIVE
  comms,      \* the communications_enabled kill switch
  pc,         \* where a worker is in its cycle
  todo,       \* the snapshot's runs a worker has not yet tried to claim
  batch,      \* the runs a worker has claimed and not yet executed
  seen,       \* attemptCount of a run in a worker's snapshot
  cur,        \* the run a worker is executing
  outcome,    \* the provider's answer a worker is about to record
  texts,      \* messages the carrier received for a run (provider's side)
  gaps,       \* accepted messages of a run that left no committed record
  faults      \* crashes, errors and lost answers so far

rows == <<status, attempts, lease, due, message>>
world == <<blocked, active, comms>>
memory == <<pc, todo, batch, seen, cur, outcome>>
observed == <<texts, gaps, faults>>
vars == <<rows, world, memory, observed>>

Statuses == {"ABSENT", "PENDING", "RUNNING", "COMPLETED", "FAILED", "CANCELLED"}
Terminal == {"COMPLETED", "FAILED", "CANCELLED"}
Results == {"accepted", "transient", "permanent"}
\* "failed": given up; "undelivered": accepted, and reported so by a receipt.
Messages == {"none", "sent", "failed", "undelivered"}

\* Texts are counted up to one more than the properties need.
CountCap == MaxAttempts + MaxFaults + 2
UpTo(n) == IF n < CountCap THEN n ELSE CountCap

TypeOK ==
  /\ status \in [Runs -> Statuses]
  /\ attempts \in [Runs -> 0..MaxAttempts]
  /\ lease \in [Runs -> {"none", "live", "expired"}]
  /\ due \in [Runs -> BOOLEAN]
  /\ message \in [Runs -> Messages]
  /\ blocked \in [Runs -> BOOLEAN]
  /\ active \in BOOLEAN
  /\ comms \in BOOLEAN
  /\ pc \in [Workers -> {"idle", "scan", "claim", "execute", "send", "record"}]
  /\ todo \in [Workers -> SUBSET Runs]
  /\ batch \in [Workers -> SUBSET Runs]
  /\ seen \in [Workers -> [Runs -> 0..MaxAttempts]]
  /\ cur \in [Workers -> Runs \cup {NoRun}]
  /\ outcome \in [Workers -> Results \cup {"none"}]
  /\ texts \in [Runs -> Nat]
  /\ gaps \in [Runs -> Nat]
  /\ faults \in 0..MaxFaults

Init ==
  /\ status = [r \in Runs |-> "ABSENT"]
  /\ attempts = [r \in Runs |-> 0]
  /\ lease = [r \in Runs |-> "none"]
  /\ due = [r \in Runs |-> FALSE]
  /\ message = [r \in Runs |-> "none"]
  /\ blocked = [r \in Runs |-> FALSE]
  /\ active = TRUE
  /\ comms = TRUE
  /\ pc = [w \in Workers |-> "idle"]
  /\ todo = [w \in Workers |-> {}]
  /\ batch = [w \in Workers |-> {}]
  /\ seen = [w \in Workers |-> [r \in Runs |-> 0]]
  /\ cur = [w \in Workers |-> NoRun]
  /\ outcome = [w \in Workers |-> "none"]
  /\ texts = [r \in Runs |-> 0]
  /\ gaps = [r \in Runs |-> 0]
  /\ faults = 0

\* Worker w answers for r: it claimed r and has not finished with it.
Holds(w, r) == r \in batch[w] \/ cur[w] = r
-----------------------------------------------------------------------------
(* Scheduling, and the API's one transition.                               *)

\* createAutomationRun from createLead (scheduledFor after the rule's delay)
\* or from a lifecycle sweep (scheduledFor now); the unique dedupe key turns
\* every repetition into a no-op.
Schedule(r) ==
  /\ status[r] = "ABSENT"
  /\ active /\ ~blocked[r]
  /\ status' = [status EXCEPT ![r] = "PENDING"]
  /\ \E reached \in BOOLEAN : due' = [due EXCEPT ![r] = reached]
  /\ UNCHANGED <<attempts, lease, message, world, memory, observed>>

\* cancelAutomationRun: transitionRun allows CANCELLED only from PENDING.
CancelByOwner(r) ==
  /\ status[r] = "PENDING"
  /\ status' = [status EXCEPT ![r] = "CANCELLED"]
  /\ UNCHANGED <<attempts, lease, due, message, world, memory, observed>>
-----------------------------------------------------------------------------
(* One poll cycle of a worker.                                             *)

\* Mutant: recovers a run because it is RUNNING, not because it is stale.
StaleUnchecked(r) == status[r] = "RUNNING"

\* What recoverStaleAutomationRuns selects and re-checks in its UPDATE.
Stale(r) == status[r] = "RUNNING" /\ lease[r] = "expired"

\* recoverStaleAutomationRuns.  The runs are independent rows, so their
\* conditional updates are taken as one step.
Recover(w) ==
  /\ pc[w] = "idle"
  /\ status' = [r \in Runs |-> IF Stale(r) THEN "PENDING" ELSE status[r]]
  /\ lease' = [r \in Runs |-> IF Stale(r) THEN "none" ELSE lease[r]]
  /\ pc' = [pc EXCEPT ![w] = "scan"]
  /\ UNCHANGED <<attempts, due, message, world, todo, batch, seen, cur,
                 outcome, observed>>

Candidates ==
  IF active THEN {r \in Runs : status[r] = "PENDING" /\ due[r]} ELSE {}

\* claimDueAutomationRuns' findMany: attemptCount is remembered from here.
Scan(w) ==
  /\ pc[w] = "scan"
  /\ \E S \in SUBSET Candidates :
       /\ \/ S = Candidates
          \/ Cardinality(S) = BatchLimit
       /\ Cardinality(S) <= BatchLimit
       /\ todo' = [todo EXCEPT ![w] = S]
       /\ seen' = [seen EXCEPT ![w] =
                     [r \in Runs |-> IF r \in S THEN attempts[r] ELSE 0]]
       /\ pc' = [pc EXCEPT ![w] = IF S = {} THEN "idle" ELSE "claim"]
  /\ UNCHANGED <<rows, world, batch, cur, outcome, observed>>

\* Mutant: a claim that does not re-assert PENDING.
ClaimGuardDropped(r) == TRUE

ClaimGuard(r) == status[r] = "PENDING"

\* claimDueAutomationRuns' updateMany for one snapshot entry.
Claim(w) ==
  /\ pc[w] = "claim"
  /\ \E r \in todo[w] :
       LET won == ClaimGuard(r)
           left == todo[w] \ {r}
           kept == IF won THEN batch[w] \cup {r} ELSE batch[w]
       IN /\ status' = IF won THEN [status EXCEPT ![r] = "RUNNING"] ELSE status
          /\ lease' = IF won THEN [lease EXCEPT ![r] = "live"] ELSE lease
          /\ todo' = [todo EXCEPT ![w] = left]
          /\ batch' = [batch EXCEPT ![w] = kept]
          /\ pc' = [pc EXCEPT ![w] = IF left # {} THEN "claim"
                                     ELSE IF kept # {} THEN "execute"
                                     ELSE "idle"]
  /\ UNCHANGED <<attempts, due, message, world, seen, cur, outcome, observed>>
-----------------------------------------------------------------------------
(* executeAutomationRun.                                                   *)

\* The WHERE status = RUNNING of every write of the executor.
StillRunning(r) == status[r] = "RUNNING"

\* A conditional write that ends the execution of r; it also drops the lease.
Settle(r, to) ==
  /\ status' = IF StillRunning(r) THEN [status EXCEPT ![r] = to] ELSE status
  /\ lease' = IF StillRunning(r) THEN [lease EXCEPT ![r] = "none"] ELSE lease

\* The worker is done with its run and takes the next of its batch, if any.
MoveOn(w, r, left) ==
  /\ batch' = [batch EXCEPT ![w] = left]
  /\ pc' = [pc EXCEPT ![w] = IF left = {} THEN "idle" ELSE "execute"]
  /\ cur' = [cur EXCEPT ![w] = NoRun]
  /\ outcome' = [outcome EXCEPT ![w] = "none"]
  /\ seen' = [seen EXCEPT ![w][r] = 0]
  /\ UNCHANGED todo

\* The lookup of a Message row with this automationRunId.
Recorded(r) == message[r] # "none"

\* The re-validation: an earlier outcome is reconciled, a condition that no
\* longer holds cancels the run, otherwise the provider is called next.
Begin(w) ==
  /\ pc[w] = "execute"
  /\ \E r \in batch[w] :
       LET left == batch[w] \ {r}
       IN \/ /\ Recorded(r)
             /\ Settle(r, IF message[r] = "sent" THEN "COMPLETED" ELSE "FAILED")
             /\ MoveOn(w, r, left)
          \/ /\ ~Recorded(r)
             /\ blocked[r] \/ ~active
             /\ Settle(r, "CANCELLED")
             /\ MoveOn(w, r, left)
          \/ /\ ~Recorded(r)
             /\ ~blocked[r] /\ active
             /\ batch' = [batch EXCEPT ![w] = left]
             /\ cur' = [cur EXCEPT ![w] = r]
             /\ pc' = [pc EXCEPT ![w] = "send"]
             /\ UNCHANGED <<status, lease, todo, seen, outcome>>
  /\ UNCHANGED <<attempts, due, message, world, observed>>

\* sendOutboundMessage.  The kill switch answers "transient" without calling
\* the provider; a lost answer is a transient error after the carrier took it.
Send(w) ==
  /\ pc[w] = "send"
  /\ pc' = [pc EXCEPT ![w] = "record"]
  /\ LET r == cur[w]
         Answer(a) == outcome' = [outcome EXCEPT ![w] = a]
         Texted == texts' = [texts EXCEPT ![r] = UpTo(@ + 1)]
     IN /\ \/ /\ comms /\ Texted /\ Answer("accepted")
              /\ UNCHANGED <<gaps, faults>>
           \/ /\ comms /\ Texted /\ Answer("transient")
              /\ faults < MaxFaults
              /\ faults' = faults + 1
              /\ gaps' = [gaps EXCEPT ![r] = @ + 1]
           \/ /\ Answer("transient")
              /\ UNCHANGED <<texts, gaps, faults>>
           \/ /\ comms /\ Answer("permanent")
              /\ UNCHANGED <<texts, gaps, faults>>
  /\ UNCHANGED <<rows, world, todo, batch, seen, cur>>

NextAttempt(w, r) == seen[w][r] + 1

\* Mutant: gives up one attempt too late.
GivesUpLate(w, r) ==
  outcome[w] = "permanent" \/ NextAttempt(w, r) > MaxAttempts

GivesUp(w, r) ==
  outcome[w] = "permanent" \/ NextAttempt(w, r) >= MaxAttempts

\* Mutant: the message and the status are not written in one transaction.
RecordNotAtomic(r, msg, to) ==
  /\ Settle(r, to)
  /\ \/ message[r] = "none" /\ message' = [message EXCEPT ![r] = msg]
     \/ UNCHANGED message

\* The transaction that creates the Message; its unique automationRunId makes
\* a second one fail, and the catch block then marks the run FAILED.
RecordOutcome(r, msg, to) ==
  IF message[r] = "none"
  THEN /\ message' = [message EXCEPT ![r] = msg]
       /\ Settle(r, to)
  ELSE /\ Settle(r, "FAILED")
       /\ UNCHANGED message

\* Recording the provider's answer: sent, given up, or queued again with
\* backoff.  attemptCount is computed from the snapshot, not from the row.
Record(w) ==
  /\ pc[w] = "record"
  /\ LET r == cur[w]
         next == NextAttempt(w, r)
     IN /\ \/ /\ outcome[w] = "accepted"
              /\ RecordOutcome(r, "sent", "COMPLETED")
              /\ UNCHANGED <<attempts, due>>
           \/ /\ outcome[w] # "accepted"
              /\ GivesUp(w, r)
              /\ RecordOutcome(r, "failed", "FAILED")
              /\ attempts' = IF StillRunning(r) /\ ~Recorded(r)
                             THEN [attempts EXCEPT ![r] = next] ELSE attempts
              /\ UNCHANGED due
           \/ /\ outcome[w] # "accepted"
              /\ ~GivesUp(w, r)
              /\ Settle(r, "PENDING")
              /\ attempts' = IF StillRunning(r)
                             THEN [attempts EXCEPT ![r] = next] ELSE attempts
              /\ due' = IF StillRunning(r)
                        THEN [due EXCEPT ![r] = FALSE] ELSE due
              /\ UNCHANGED message
        /\ MoveOn(w, r, batch[w])
  /\ UNCHANGED <<world, observed>>
-----------------------------------------------------------------------------
(* Failures.                                                               *)

\* Accepted by the provider, and the answer is about to be forgotten.
Unrecorded(w) == pc[w] = "record" /\ outcome[w] = "accepted"

\* An unexpected error inside executeAutomationRun: nothing of it commits, and
\* the catch block's own write may fail as well.
ExecutionError(w) ==
  /\ faults < MaxFaults
  /\ faults' = faults + 1
  /\ \E r \in Runs :
       /\ \/ /\ pc[w] = "execute" /\ r \in batch[w]
             /\ MoveOn(w, r, batch[w] \ {r})
          \/ /\ pc[w] = "record" /\ r = cur[w]
             /\ MoveOn(w, r, batch[w])
       /\ Settle(r, "FAILED") \/ UNCHANGED <<status, lease>>
       /\ gaps' = IF Unrecorded(w) THEN [gaps EXCEPT ![r] = @ + 1] ELSE gaps
  /\ UNCHANGED <<attempts, due, message, world, texts>>

\* The process dies (or its tick is aborted): only its memory is lost.  During
\* the provider call the carrier may or may not have received the message.
Crash(w) ==
  /\ pc[w] # "idle"
  /\ faults < MaxFaults
  /\ faults' = faults + 1
  /\ pc' = [pc EXCEPT ![w] = "idle"]
  /\ todo' = [todo EXCEPT ![w] = {}]
  /\ batch' = [batch EXCEPT ![w] = {}]
  /\ seen' = [seen EXCEPT ![w] = [r \in Runs |-> 0]]
  /\ cur' = [cur EXCEPT ![w] = NoRun]
  /\ outcome' = [outcome EXCEPT ![w] = "none"]
  /\ \/ /\ gaps' = IF Unrecorded(w)
                   THEN [gaps EXCEPT ![cur[w]] = @ + 1] ELSE gaps
        /\ UNCHANGED texts
     \/ /\ pc[w] = "send" /\ comms
        /\ texts' = [texts EXCEPT ![cur[w]] = UpTo(@ + 1)]
        /\ gaps' = [gaps EXCEPT ![cur[w]] = @ + 1]
  /\ UNCHANGED <<rows, world>>

\* Mutant: the lease is shorter than an execution.
LeaseTooShort(r) == TRUE

\* What LEASE_DURATION_SECONDS is long enough for.
Overdue(r) ==
  /\ LeaseCovers = "batch" => \A w \in Workers : ~Holds(w, r)
  /\ LeaseCovers = "single" => \A w \in Workers : cur[w] # r

LeaseExpires(r) ==
  /\ status[r] = "RUNNING" /\ lease[r] = "live"
  /\ Overdue(r)
  /\ lease' = [lease EXCEPT ![r] = "expired"]
  /\ UNCHANGED <<status, attempts, due, message, world, memory, observed>>

BecomesDue(r) ==
  /\ status[r] = "PENDING" /\ ~due[r]
  /\ due' = [due EXCEPT ![r] = TRUE]
  /\ UNCHANGED <<status, attempts, lease, message, world, memory, observed>>
-----------------------------------------------------------------------------
(* The world the executor re-reads.                                        *)

\* The rule is disabled, the lead actioned, the customer opted out, the plan
\* or the messaging budget used up, or the opposite.
ConditionChanges(r) ==
  /\ blocked' = [blocked EXCEPT ![r] = ~@]
  /\ UNCHANGED <<rows, active, comms, memory, observed>>

BusinessSuspendedOrRestored ==
  /\ active' = ~active
  /\ UNCHANGED <<rows, blocked, comms, memory, observed>>

KillSwitchFlipped ==
  /\ comms' = ~comms
  /\ UNCHANGED <<rows, blocked, active, memory, observed>>

\* Delivery receipts overwrite the status of an accepted message, in whatever
\* order they arrive; a message given up on has no provider id to match.
Receipt(r) ==
  /\ message[r] \in {"sent", "undelivered"}
  /\ message' = [message EXCEPT ![r] = IF @ = "sent" THEN "undelivered" ELSE "sent"]
  /\ UNCHANGED <<status, attempts, lease, due, world, memory, observed>>

WorkerStep(w) ==
  Recover(w) \/ Scan(w) \/ Claim(w) \/ Begin(w) \/ Send(w) \/ Record(w)

Next ==
  \/ \E w \in Workers : WorkerStep(w) \/ ExecutionError(w) \/ Crash(w)
  \/ \E r \in Runs : \/ Schedule(r) \/ CancelByOwner(r) \/ LeaseExpires(r)
                     \/ BecomesDue(r) \/ ConditionChanges(r) \/ Receipt(r)
  \/ BusinessSuspendedOrRestored
  \/ KillSwitchFlipped

Spec == Init /\ [][Next]_vars

\* Each worker's timer keeps polling and awaits every step; time passes.
Fairness ==
  /\ \A w \in Workers : WF_vars(WorkerStep(w))
  /\ \A r \in Runs : WF_vars(LeaseExpires(r)) /\ WF_vars(BecomesDue(r))

FairSpec == Spec /\ Fairness
-----------------------------------------------------------------------------
(* Properties.                                                             *)

\* A run that is RUNNING always carries a lease, and no other run does: none
\* can be stranded where recoverStaleAutomationRuns would not find it, and
\* none is recovered that is not being executed.
RunningHasLease == \A r \in Runs : status[r] = "RUNNING" <=> lease[r] # "none"

\* A run never leaves COMPLETED, FAILED or CANCELLED, whichever worker, retry,
\* recovery or error is late.
TerminalIsFinal ==
  [][\A r \in Runs : status[r] \in Terminal => status'[r] = status[r]]_vars

\* A run is COMPLETED only on a durable record of its message.
CompletedIsRecorded ==
  \A r \in Runs : status[r] = "COMPLETED" => message[r] # "none"

\* While leases outlast batches, a run is held by one worker at a time, the
\* run is RUNNING and its lease has not expired.
HeldUnderLease ==
  \A w \in Workers, r \in Runs :
    Holds(w, r) => status[r] = "RUNNING" /\ lease[r] = "live"

ExclusiveHolder ==
  \A v, w \in Workers, r \in Runs : Holds(v, r) /\ Holds(w, r) => v = w

\* Both: nobody else holds, recovers or claims what a worker answers for.
HeldExclusively == HeldUnderLease /\ ExclusiveHolder

\* While leases outlast batches, a run's status and its message tell the same
\* story: a recorded outcome is final, a failed run was not sent, and a
\* cancelled run has no message at all.
StatusMatchesMessage ==
  \A r \in Runs :
    /\ message[r] # "none" => status[r] \in {"COMPLETED", "FAILED"}
    /\ status[r] = "FAILED" => message[r] \in {"none", "failed"}

\* Both: whatever has been decided of a run is on record, and in agreement.
OutcomeIsRecorded == CompletedIsRecorded /\ StatusMatchesMessage

\* The send-duplication note of executeAutomationRun: a customer is texted
\* more than once for a run only if an accepted message was never recorded
\* (crash, failed commit or lost answer between acceptance and commit).
DuplicateOnlyInGap == \A r \in Runs : texts[r] <= 1 + gaps[r]

\* What has become of a run's text.
FateOf(r) ==
  CASE status[r] = "ABSENT" -> "absent"
    [] status[r] \in {"PENDING", "RUNNING"} -> "waiting"
    [] status[r] = "COMPLETED" -> "sent"
    [] OTHER -> "failed"

Fate == INSTANCE MessageFate
        WITH Messages <- Runs, fate <- [r \in Runs |-> FateOf(r)],
             copies <- texts, lost <- gaps

\* While leases outlast batches, the engine implements the life of a text that
\* MessageFate describes: no cancelled, failed or completed run texts anybody,
\* a run is texted again only after a lost acceptance, and it is completed
\* only on an acceptance that was not lost.
KeepsFate == Fate!Spec

\* An unfinished run can still be attempted: attemptCount reaches the limit
\* only together with a terminal status, so no run waits with none left.
UnfinishedHasAttempts ==
  \A r \in Runs : status[r] \notin Terminal => attempts[r] < MaxAttempts

\* With workers that keep polling and a business that stays active, every
\* scheduled run reaches an outcome.
EveryRunSettles ==
  (<>[]active) => \A r \in Runs : status[r] = "PENDING" ~> status[r] \in Terminal
=============================================================================
