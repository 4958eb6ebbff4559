-------------------------- MODULE WorkflowRuntime --------------------------
(***************************************************************************)
(* The workflow runtime (lib/automation/workflowRuntime.ts, polled by      *)
(* worker/workflowWorker.ts): executions of a published workflow walk an   *)
(* acyclic graph of branches, delays and actions.  A worker claims due     *)
(* executions with a 60 second lease, records its progress node by node,   *)
(* and guards every write with its lease, while the owner of the business  *)
(* pauses, resumes, cancels and retries executions                         *)
(* (modules/automation/workflow.service.ts, controlExecution).             *)
(*                                                                         *)
(* Every database statement is a step.  A worker's lease owner is a random *)
(* id per batch; a worker only writes rows of its current batch, so its    *)
(* name stands for that id.  A lease may run out at any point, however     *)
(* often it is renewed: nothing here relies on a worker being fast.        *)
(***************************************************************************)
EXTENDS Naturals, FiniteSets

CONSTANTS
  Execs,        \* executions, one per idempotency key
  Workers,      \* worker processes, or overlapping HTTP ticks
  Nobody,       \* a null lease owner, and no execution in hand
  Nodes,        \* the nodes of the published version, numbered along its edges
  Kind,         \* what a node does
  Follows,      \* the possible successors of a node; 0 is the end
  MaxAttempts,  \* MAX_ATTEMPTS
  MaxRetries,   \* settings.maxRetries, at most MAX_ATTEMPTS
  MaxControls,  \* bound on the owner's interventions
  MaxFlips,     \* bound on changes of the kill switches
  MaxFaults     \* bound on crashes and database errors

Kinds == {"branch", "delay", "action", "pause", "complete"}
Ends == Nodes \cup {0}

ASSUME RuntimeAssumption ==
  /\ Nobody \notin Workers \cup Execs
  /\ Nodes \subseteq Nat \ {0}
  /\ 1 \in Nodes
  /\ Kind \in [Nodes -> Kinds]
  /\ Follows \in [Nodes -> SUBSET Ends]
  /\ \A n \in Nodes : \A m \in Follows[n] : m = 0 \/ m > n
  /\ MaxAttempts \in Nat \ {0}
  /\ MaxRetries \in 0..MaxAttempts
  /\ MaxControls \in Nat
  /\ MaxFlips \in Nat
  /\ MaxFaults \in Nat

VARIABLES
  status,    \* WorkflowExecution.status, "ABSENT" before it is started
  at,        \* WorkflowExecution.currentNodeId, 0 when null
  retries,   \* WorkflowExecution.retryCount
  owner,     \* WorkflowExecution.leaseOwner
  lease,     \* WorkflowExecution.leaseExpiresAt: null, in the future, or past
  closed,    \* WorkflowExecution.completedAt is set
  due,       \* WorkflowExecution.nextAttemptAt <= now
  late,      \* WorkflowExecution.timeoutAt <= now
  attempt,   \* WorkflowActionAttempt.status, "NONE" before it is created
  pc,        \* where a worker is in its cycle
  batch,     \* the executions a worker has claimed and not yet looked at
  cur,       \* the execution a worker is walking
  node,      \* the node a worker has reached, 0 at the end
  seen,      \* the kill switches as a worker has read them
  switches,  \* the kill switches
  performed, \* the action of a node has been performed (observed)
  controls,  \* interventions so far
  flips,     \* changes of the switches so far
  faults     \* crashes and errors so far

execution == <<status, at, retries, owner, lease, closed, due, late>>
memory == <<pc, batch, cur, node, seen>>
bounds == <<controls, flips, faults>>
vars == <<execution, attempt, memory, switches, performed, bounds>>

Statuses == {"ABSENT", "PENDING", "RUNNING", "PAUSED", "COMPLETED", "FAILED", "CANCELLED"}
Attempts == {"NONE", "PENDING", "PROCESSING", "SUCCEEDED", "FAILED"}
Switches == {"on", "automation_off", "provider_off"}

TypeOK ==
  /\ status \in [Execs -> Statuses]
  /\ at \in [Execs -> Ends]
  /\ retries \in [Execs -> 0..MaxAttempts]
  /\ owner \in [Execs -> Workers \cup {Nobody}]
  /\ lease \in [Execs -> {"none", "live", "expired"}]
  /\ closed \in [Execs -> BOOLEAN]
  /\ due \in [Execs -> BOOLEAN]
  /\ late \in [Execs -> BOOLEAN]
  /\ attempt \in [Execs -> [Nodes -> Attempts]]
  /\ pc \in [Workers -> {"idle", "claim", "next", "switches", "hold", "begin", "loop",
                         "node", "own", "mark", "act", "acted", "progress", "pause", "failed"}]
  /\ batch \in [Workers -> SUBSET Execs]
  /\ cur \in [Workers -> Execs \cup {Nobody}]
  /\ node \in [Workers -> Ends]
  /\ seen \in [Workers -> Switches]
  /\ switches \in Switches
  /\ performed \in [Execs -> [Nodes -> BOOLEAN]]
  /\ controls \in 0..MaxControls
  /\ flips \in 0..MaxFlips
  /\ faults \in 0..MaxFaults

Init ==
  /\ status = [x \in Execs |-> "ABSENT"]
  /\ at = [x \in Execs |-> 1]
  /\ retries = [x \in Execs |-> 0]
  /\ owner = [x \in Execs |-> Nobody]
  /\ lease = [x \in Execs |-> "none"]
  /\ closed = [x \in Execs |-> FALSE]
  /\ due = [x \in Execs |-> TRUE]
  /\ late = [x \in Execs |-> FALSE]
  /\ attempt = [x \in Execs |-> [n \in Nodes |-> "NONE"]]
  /\ pc = [w \in Workers |-> "idle"]
  /\ batch = [w \in Workers |-> {}]
  /\ cur = [w \in Workers |-> Nobody]
  /\ node = [w \in Workers |-> 0]
  /\ seen = [w \in Workers |-> "on"]
  /\ switches = "on"
  /\ performed = [x \in Execs |-> [n \in Nodes |-> FALSE]]
  /\ controls = 0
  /\ flips = 0
  /\ faults = 0
-----------------------------------------------------------------------------
(* Starting, recovering and claiming.                                      *)

\* startWorkflowExecution creates the row; a redelivered trigger finds it.
Start(x) ==
  /\ status[x] = "ABSENT"
  /\ status' = [status EXCEPT ![x] = "PENDING"]
  /\ UNCHANGED <<at, retries, owner, lease, closed, due, late, attempt, memory,
                 switches, performed, bounds>>

\* Mutant: the last recovery is counted one late.
LastRecoveryLate(x) == retries[x] >= MaxAttempts

\* No attempt is left after this one.
LastRecovery(x) == retries[x] >= MaxAttempts - 1

\* A running execution whose lease has run out.
Abandoned(x) == status[x] = "RUNNING" /\ lease[x] = "expired"

\* A worker's cycle starts by failing abandoned executions, for good if no
\* attempt is left.
Recover(w) ==
  /\ pc[w] = "idle"
  /\ status' = [x \in Execs |-> IF Abandoned(x) THEN "FAILED" ELSE status[x]]
  /\ retries' = [x \in Execs |-> IF Abandoned(x) THEN retries[x] + 1 ELSE retries[x]]
  /\ closed' = [x \in Execs |-> closed[x] \/ (Abandoned(x) /\ LastRecovery(x))]
  /\ due' = [x \in Execs |-> due[x] \/ (Abandoned(x) /\ ~LastRecovery(x))]
  /\ owner' = [x \in Execs |-> IF Abandoned(x) THEN Nobody ELSE owner[x]]
  /\ lease' = [x \in Execs |-> IF Abandoned(x) THEN "none" ELSE lease[x]]
  /\ pc' = [pc EXCEPT ![w] = "claim"]
  /\ UNCHANGED <<at, late, attempt, batch, cur, node, seen, switches, performed, bounds>>

\* Mutant: every queued execution is claimed, the finally failed ones too.
ClaimableForever(x) ==
  /\ status[x] \in {"PENDING", "FAILED"}
  /\ due[x]
  /\ lease[x] # "live"

\* What the claim selects.
Claimable(x) ==
  /\ status[x] \in {"PENDING", "FAILED"}
  /\ ~closed[x]
  /\ retries[x] < MaxAttempts
  /\ due[x]
  /\ lease[x] # "live"

\* The batch is larger than Execs: a worker claims all it finds.
Claim(w) ==
  /\ pc[w] = "claim"
  /\ LET claimed == {x \in Execs : Claimable(x)}
     IN /\ status' = [x \in Execs |-> IF x \in claimed THEN "RUNNING" ELSE status[x]]
        /\ owner' = [x \in Execs |-> IF x \in claimed THEN w ELSE owner[x]]
        /\ lease' = [x \in Execs |-> IF x \in claimed THEN "live" ELSE lease[x]]
        /\ batch' = [batch EXCEPT ![w] = claimed]
  /\ pc' = [pc EXCEPT ![w] = "next"]
  /\ UNCHANGED <<at, retries, closed, due, late, attempt, cur, node, seen,
                 switches, performed, bounds>>
-----------------------------------------------------------------------------
(* What a worker does to its execution.                                    *)

\* Mutant: the worker writes by the execution's id alone.
HoldsUnchecked(w, x) == TRUE

\* WHERE leaseOwner = owner AND status = RUNNING.
Holds(w, x) == owner[x] = w /\ status[x] = "RUNNING"

\* The worker keeps its lease and goes on at a step.
Goto(w, step) == pc' = [pc EXCEPT ![w] = step] /\ UNCHANGED <<batch, cur, node, seen>>

\* The worker turns to the next execution of its batch.
Leave(w) ==
  /\ pc' = [pc EXCEPT ![w] = "next"]
  /\ cur' = [cur EXCEPT ![w] = Nobody]
  /\ UNCHANGED <<batch, node, seen>>

\* x leaves the hands of its worker in a new status.
Release(x, to) ==
  /\ status' = [status EXCEPT ![x] = to]
  /\ owner' = [owner EXCEPT ![x] = Nobody]
  /\ lease' = [lease EXCEPT ![x] = "none"]

\* The next execution of the batch, if the worker still holds it.
Load(w) ==
  /\ pc[w] = "next"
  /\ \E x \in batch[w] :
       /\ batch' = [batch EXCEPT ![w] = @ \ {x}]
       /\ IF Holds(w, x)
          THEN /\ cur' = [cur EXCEPT ![w] = x]
               /\ node' = [node EXCEPT ![w] = at[x]]
               /\ pc' = [pc EXCEPT ![w] = "switches"]
          ELSE UNCHANGED <<cur, node, pc>>
  /\ UNCHANGED <<execution, attempt, seen, switches, performed, bounds>>

EndBatch(w) ==
  /\ pc[w] = "next"
  /\ batch[w] = {}
  /\ pc' = [pc EXCEPT ![w] = "idle"]
  /\ UNCHANGED <<execution, attempt, batch, cur, node, seen, switches, performed, bounds>>

\* getAutomationFoundationStatus.
ReadSwitches(w) ==
  /\ pc[w] = "switches"
  /\ seen' = [seen EXCEPT ![w] = switches]
  /\ pc' = [pc EXCEPT ![w] = IF switches = "automation_off" THEN "hold" ELSE "begin"]
  /\ UNCHANGED <<execution, attempt, batch, cur, node, switches, performed, bounds>>

\* Automation is off: the execution is put back by its id alone.
Hold(w) ==
  /\ pc[w] = "hold"
  /\ Release(cur[w], "PENDING")
  /\ due' = [due EXCEPT ![cur[w]] = FALSE]
  /\ Leave(w)
  /\ UNCHANGED <<at, retries, closed, late, attempt, switches, performed, bounds>>

\* The execution's deadline is checked before the walk and before each node.
PastDeadline(w) == late[cur[w]] /\ (pc[w] = "begin" \/ node[w] # 0)

\* finish: a worker that still owns the execution fails it for good.
TimeOut(w) ==
  /\ pc[w] \in {"begin", "loop"}
  /\ PastDeadline(w)
  /\ IF owner[cur[w]] = w
     THEN Release(cur[w], "FAILED") /\ closed' = [closed EXCEPT ![cur[w]] = TRUE]
     ELSE UNCHANGED <<status, owner, lease, closed>>
  /\ Leave(w)
  /\ UNCHANGED <<at, retries, due, late, attempt, switches, performed, bounds>>

\* The heartbeat renews the lease and records the node.
Enter(w) ==
  /\ pc[w] \in {"begin", "loop"}
  /\ ~PastDeadline(w)
  /\ node[w] # 0
  /\ IF Holds(w, cur[w])
     THEN /\ at' = [at EXCEPT ![cur[w]] = node[w]]
          /\ lease' = [lease EXCEPT ![cur[w]] = "live"]
          /\ Goto(w, "node")
     ELSE UNCHANGED <<at, lease>> /\ Leave(w)
  /\ UNCHANGED <<status, retries, owner, closed, due, late, attempt, switches,
                 performed, bounds>>

\* The walk has reached an end.
Complete(w) ==
  /\ pc[w] \in {"begin", "loop"}
  /\ ~PastDeadline(w)
  /\ node[w] = 0
  /\ IF Holds(w, cur[w])
     THEN /\ Release(cur[w], "COMPLETED")
          /\ closed' = [closed EXCEPT ![cur[w]] = TRUE]
          /\ at' = [at EXCEPT ![cur[w]] = 0]
     ELSE UNCHANGED <<status, owner, lease, closed, at>>
  /\ Leave(w)
  /\ UNCHANGED <<retries, due, late, attempt, switches, performed, bounds>>

\* A condition picks a successor from the business's data.
Branch(w) ==
  /\ pc[w] = "node"
  /\ Kind[node[w]] = "branch"
  /\ \E n \in Follows[node[w]] : node' = [node EXCEPT ![w] = n]
  /\ pc' = [pc EXCEPT ![w] = "loop"]
  /\ UNCHANGED <<execution, attempt, batch, cur, seen, switches, performed, bounds>>

\* A delay puts the execution back until later, at the node that follows.
Delay(w) ==
  /\ pc[w] = "node"
  /\ Kind[node[w]] = "delay"
  /\ IF Holds(w, cur[w])
     THEN /\ Release(cur[w], "PENDING")
          /\ \E n \in Follows[node[w]] : at' = [at EXCEPT ![cur[w]] = n]
          /\ due' = [due EXCEPT ![cur[w]] = FALSE]
     ELSE UNCHANGED <<status, owner, lease, at, due>>
  /\ Leave(w)
  /\ UNCHANGED <<retries, closed, late, attempt, switches, performed, bounds>>

\* The provider of the action was off when the switches were read.
Blocked(w) == Kind[node[w]] = "action" /\ seen[w] = "provider_off"

Postpone(w) ==
  /\ pc[w] = "node"
  /\ Blocked(w)
  /\ IF Holds(w, cur[w])
     THEN Release(cur[w], "PENDING") /\ due' = [due EXCEPT ![cur[w]] = FALSE]
     ELSE UNCHANGED <<status, owner, lease, due>>
  /\ Leave(w)
  /\ UNCHANGED <<at, retries, closed, late, attempt, switches, performed, bounds>>
-----------------------------------------------------------------------------
(* executeActionExactlyOnce.                                               *)

\* Mutant: an action that was begun is taken for done.
DoneWhenBegun(x, n) == attempt[x][n] \in {"PROCESSING", "SUCCEEDED"}

\* The attempt's output is stored.
Done(x, n) == attempt[x][n] = "SUCCEEDED"

\* The attempt is found or created; if it succeeded before, its result is
\* used again.
FindAttempt(w) ==
  /\ pc[w] = "node"
  /\ Kind[node[w]] \in {"action", "pause", "complete"}
  /\ ~Blocked(w)
  /\ attempt' = [attempt EXCEPT ![cur[w]][node[w]] = IF @ = "NONE" THEN "PENDING" ELSE @]
  /\ Goto(w, IF Done(cur[w], node[w]) THEN "progress" ELSE "own")
  /\ UNCHANGED <<execution, switches, performed, bounds>>

\* The worker looks once more whether it holds the execution ...
CheckLease(w) ==
  /\ pc[w] = "own"
  /\ Goto(w, IF Holds(w, cur[w]) THEN "mark" ELSE "failed")
  /\ UNCHANGED <<execution, attempt, switches, performed, bounds>>

\* ... and marks the attempt by its id.
Mark(w) ==
  /\ pc[w] = "mark"
  /\ attempt' = [attempt EXCEPT ![cur[w]][node[w]] = "PROCESSING"]
  /\ Goto(w, "act")
  /\ UNCHANGED <<execution, switches, performed, bounds>>

\* The action takes effect.
Act(w) ==
  /\ pc[w] = "act"
  /\ performed' = [performed EXCEPT ![cur[w]][node[w]] = TRUE]
  /\ Goto(w, "acted")
  /\ UNCHANGED <<execution, attempt, switches, bounds>>

Succeed(w) ==
  /\ pc[w] = "acted"
  /\ attempt' = [attempt EXCEPT ![cur[w]][node[w]] = "SUCCEEDED"]
  /\ Goto(w, "progress")
  /\ UNCHANGED <<execution, switches, performed, bounds>>

\* The action throws, before or after it took effect: an error of its own, a
\* lost lease or a deadline noticed by a timer, or a failed write.
ActionFails(w) ==
  /\ pc[w] \in {"act", "acted"}
  /\ attempt' = [attempt EXCEPT ![cur[w]][node[w]] = IF @ = "PROCESSING" THEN "FAILED" ELSE @]
  /\ Goto(w, "failed")
  /\ UNCHANGED <<execution, switches, performed, bounds>>

\* The node that follows is recorded; then the result's directive counts.
Progress(w) ==
  /\ pc[w] = "progress"
  /\ LET x == cur[w]
         kind == Kind[node[w]]
     IN IF Holds(w, x)
        THEN \E n \in Follows[node[w]] :
               /\ at' = [at EXCEPT ![x] = n]
               /\ lease' = [lease EXCEPT ![x] = "live"]
               /\ node' = [node EXCEPT ![w] = IF kind = "complete" THEN 0 ELSE n]
               /\ pc' = [pc EXCEPT ![w] = IF kind = "pause" THEN "pause" ELSE "loop"]
               /\ UNCHANGED <<batch, cur, seen>>
        ELSE UNCHANGED <<at, lease>> /\ Leave(w)
  /\ UNCHANGED <<status, retries, owner, closed, due, late, attempt, switches,
                 performed, bounds>>

\* The PAUSE directive.
PauseHere(w) ==
  /\ pc[w] = "pause"
  /\ IF Holds(w, cur[w]) THEN Release(cur[w], "PAUSED")
                         ELSE UNCHANGED <<status, owner, lease>>
  /\ Leave(w)
  /\ UNCHANGED <<at, retries, closed, due, late, attempt, switches, performed, bounds>>

\* The last retry of the workflow's own limit.
LastRetry(x) == retries[x] + 1 >= MaxRetries

\* The catch block: the execution is retried later, or failed for good.  Its
\* retry count was read under the lease, which the write checks.
RecordFailure(w) ==
  /\ pc[w] = "failed"
  /\ LET x == cur[w]
     IN IF Holds(w, x)
        THEN /\ Release(x, "FAILED")
             /\ retries' = [retries EXCEPT ![x] = @ + 1]
             /\ due' = [due EXCEPT ![x] = FALSE]
             /\ \E permanent \in BOOLEAN :
                  closed' = [closed EXCEPT ![x] = @ \/ permanent \/ LastRetry(x)]
        ELSE UNCHANGED <<status, owner, lease, retries, due, closed>>
  /\ Leave(w)
  /\ UNCHANGED <<at, late, attempt, switches, performed, bounds>>
-----------------------------------------------------------------------------
(* The owner of the business, faults and time.                             *)

\* A control of a status in from; the lease, if any, is cleared.
Control(x, from, to) ==
  /\ controls < MaxControls
  /\ status[x] \in from
  /\ Release(x, to)
  /\ controls' = controls + 1
  /\ UNCHANGED <<at, late, attempt, memory, switches, performed, flips, faults>>

Pause(x) ==
  /\ Control(x, {"PENDING", "RUNNING", "FAILED"}, "PAUSED")
  /\ UNCHANGED <<retries, closed, due>>

\* By its owner, or by the RESUME_WORKFLOW action of another execution.
Resume(x) ==
  /\ Control(x, {"PAUSED"}, "PENDING")
  /\ due' = [due EXCEPT ![x] = TRUE]
  /\ UNCHANGED <<retries, closed>>

Cancel(x) ==
  /\ Control(x, {"PENDING", "RUNNING", "PAUSED", "FAILED"}, "CANCELLED")
  /\ closed' = [closed EXCEPT ![x] = TRUE]
  /\ UNCHANGED <<retries, due>>

\* By its owner or by an administrator of the platform.
Retry(x) ==
  /\ Control(x, {"FAILED", "CANCELLED"}, "PENDING")
  /\ retries' = [retries EXCEPT ![x] = 0]
  /\ due' = [due EXCEPT ![x] = TRUE]
  /\ closed' = [closed EXCEPT ![x] = FALSE]

\* An error inside the try block.
Throw(w) ==
  /\ pc[w] \in {"begin", "loop", "node", "own", "mark", "progress", "pause"}
  /\ faults < MaxFaults
  /\ faults' = faults + 1
  /\ Goto(w, "failed")
  /\ UNCHANGED <<execution, attempt, switches, performed, controls, flips>>

\* A crash, or an error outside the try block, ends the whole batch.
Abandon(w) ==
  /\ pc[w] # "idle"
  /\ faults < MaxFaults
  /\ faults' = faults + 1
  /\ pc' = [pc EXCEPT ![w] = "idle"]
  /\ batch' = [batch EXCEPT ![w] = {}]
  /\ cur' = [cur EXCEPT ![w] = Nobody]
  /\ UNCHANGED <<execution, attempt, node, seen, switches, performed, controls, flips>>

LeaseExpires(x) ==
  /\ lease[x] = "live"
  /\ lease' = [lease EXCEPT ![x] = "expired"]
  /\ UNCHANGED <<status, at, retries, owner, closed, due, late, attempt, memory,
                 switches, performed, bounds>>

BecomesDue(x) ==
  /\ ~due[x]
  /\ due' = [due EXCEPT ![x] = TRUE]
  /\ UNCHANGED <<status, at, retries, owner, lease, closed, late, attempt, memory,
                 switches, performed, bounds>>

DeadlinePasses(x) ==
  /\ status[x] # "ABSENT"
  /\ ~late[x]
  /\ late' = [late EXCEPT ![x] = TRUE]
  /\ UNCHANGED <<status, at, retries, owner, lease, closed, due, attempt, memory,
                 switches, performed, bounds>>

Flip ==
  /\ flips < MaxFlips
  /\ flips' = flips + 1
  /\ switches' \in Switches \ {switches}
  /\ UNCHANGED <<execution, attempt, memory, performed, controls, faults>>

WorkerStep(w) ==
  \/ Recover(w) \/ Claim(w) \/ Load(w) \/ EndBatch(w) \/ ReadSwitches(w) \/ Hold(w)
  \/ TimeOut(w) \/ Enter(w) \/ Complete(w) \/ Branch(w) \/ Delay(w) \/ Postpone(w)
  \/ FindAttempt(w) \/ CheckLease(w) \/ Mark(w) \/ Act(w) \/ Succeed(w)
  \/ ActionFails(w) \/ Progress(w) \/ PauseHere(w) \/ RecordFailure(w)

Next ==
  \/ \E w \in Workers : WorkerStep(w) \/ Throw(w) \/ Abandon(w)
  \/ \E x \in Execs : \/ Start(x) \/ Pause(x) \/ Resume(x) \/ Cancel(x) \/ Retry(x)
                      \/ LeaseExpires(x) \/ BecomesDue(x) \/ DeadlinePasses(x)
  \/ Flip

Spec == Init /\ [][Next]_vars

\* The worker polls and awaits each step; actions honour their abort signal;
\* time passes.
Fairness ==
  /\ \A w \in Workers : WF_vars(WorkerStep(w))
  /\ \A x \in Execs : WF_vars(LeaseExpires(x)) /\ WF_vars(BecomesDue(x))

FairSpec == Spec /\ Fairness
-----------------------------------------------------------------------------
(* Properties.                                                             *)

\* An execution in the hands of nobody, which no worker has to move.
Resting(x) == status[x] \in {"PAUSED", "COMPLETED", "CANCELLED"} \/ closed[x]

\* Workers leave a paused, completed, cancelled or finally failed execution
\* alone: it changes only when the owner resumes, cancels or retries it, and
\* a completed one never.
OwnerDecides ==
  [][\A x \in Execs : Resting(x) /\ status'[x] # status[x]
       => status[x] # "COMPLETED" /\ controls' = controls + 1]_vars

\* Recorded progress never moves back along the graph, whatever slow worker,
\* retry or recovery writes it.
ProgressIsMonotone ==
  [][\A x \in Execs : at'[x] # at[x] => at[x] # 0 /\ (at'[x] = 0 \/ at'[x] > at[x])]_vars

\* What node n must have done before the node after it is reached.
Passed(x, n) == Kind[n] \in {"action", "pause", "complete"} => performed[x][n]

\* A set of nodes that holds the first one and whatever follows a passed one.
Closure(x, S) ==
  1 \in S /\ \A n \in S : Passed(x, n) => Follows[n] \ {0} \subseteq S

\* The nodes reached over nodes whose actions have all been performed: those
\* in every such set.
Walked(x) == {m \in Nodes : \A S \in SUBSET Nodes : Closure(x, S) => m \in S}

\* An end is reached behind a passed node.
Ended(x) ==
  \E m \in Walked(x) : Passed(x, m) /\ (0 \in Follows[m] \/ Kind[m] = "complete")

\* An action is performed only after every action on some way to it, and an
\* execution is completed only after every action on some way to an end: no
\* crash, retry or second worker makes the walk skip one.
NothingSkipped ==
  \A x \in Execs :
    /\ \A m \in Nodes : performed[x][m] => m \in Walked(x)
    /\ status[x] = "COMPLETED" => Ended(x)

\* An execution that waits to be run again can be claimed again: it has
\* attempts left, and nobody's name is on it.
NotStranded ==
  \A x \in Execs : status[x] \in {"PENDING", "FAILED"} /\ ~closed[x]
                     => retries[x] < MaxAttempts /\ lease[x] = "none"

\* Once the kill switches stay on, every execution comes to rest, whatever
\* crashes, slow workers and failing actions it meets.
EveryExecutionEnds ==
  (<>[](switches = "on")) => \A x \in Execs : status[x] # "ABSENT" ~> Resting(x)
=============================================================================
