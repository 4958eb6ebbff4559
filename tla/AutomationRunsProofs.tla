------------------------ MODULE AutomationRunsProofs ------------------------
(***************************************************************************)
(* Theorems about the automation run engine, for every number of runs,     *)
(* workers, attempts and faults.                                           *)
(***************************************************************************)
EXTENDS AutomationRuns, TLAPS

\* A snapshot only ever holds attempt counts of PENDING runs.
SeenBelowLimit == \A w \in Workers, r \in Runs : seen[w][r] < MaxAttempts

\* A worker inside executeAutomationRun has a run.
ExecutorHasRun ==
  \A w \in Workers : pc[w] \in {"send", "record"} => cur[w] \in Runs

\* What every step preserves, whatever the pace of the workers.
RunInv ==
  /\ TypeOK
  /\ RunningHasLease
  /\ CompletedIsRecorded
  /\ UnfinishedHasAttempts
  /\ SeenBelowLimit
  /\ ExecutorHasRun

USE DEF Statuses, Terminal, Results

-----------------------------------------------------------------------------
(* The initial state, and one lemma per group of actions.                  *)

LEMMA RunInit == Init => RunInv
BY RunsAssumption DEF Init, RunInv, TypeOK, Messages, RunningHasLease,
   CompletedIsRecorded, UnfinishedHasAttempts, SeenBelowLimit, ExecutorHasRun

LEMMA ScheduleStep ==
  ASSUME RunInv, NEW r \in Runs, Schedule(r) \/ CancelByOwner(r)
  PROVE  RunInv'
<1> USE DEF RunInv, TypeOK, rows, world, memory, observed
<1>1. CASE Schedule(r)
  <2>1. TypeOK'
    BY <1>1 DEF Schedule
  <2>2. QED
    BY <1>1, <2>1 DEF Schedule, RunningHasLease, CompletedIsRecorded,
       UnfinishedHasAttempts, SeenBelowLimit, ExecutorHasRun
<1>2. CASE CancelByOwner(r)
  <2>1. TypeOK'
    BY <1>2 DEF CancelByOwner
  <2>2. QED
    BY <1>2, <2>1 DEF CancelByOwner, RunningHasLease, CompletedIsRecorded,
       UnfinishedHasAttempts, SeenBelowLimit, ExecutorHasRun
<1> QED BY <1>1, <1>2

LEMMA RecoverStep ==
  ASSUME RunInv, NEW w \in Workers, Recover(w)
  PROVE  RunInv'
<1>1. TypeOK'
  BY RunsAssumption DEF RunInv, TypeOK, Recover, Stale,
     rows, world, memory, observed
<1>2. RunningHasLease' /\ CompletedIsRecorded'
  BY DEF RunInv, TypeOK, RunningHasLease, CompletedIsRecorded, Recover, Stale,
     rows, world, memory, observed
<1>3. UnfinishedHasAttempts'
  BY RunsAssumption DEF RunInv, TypeOK, UnfinishedHasAttempts,
     SeenBelowLimit, Recover, Stale,
     rows, world, memory, observed
<1>4. SeenBelowLimit' /\ ExecutorHasRun'
  BY RunsAssumption DEF RunInv, TypeOK, UnfinishedHasAttempts,
     SeenBelowLimit, ExecutorHasRun, Recover, Stale,
     rows, world, memory, observed
<1> QED BY <1>1, <1>2, <1>3, <1>4 DEF RunInv

LEMMA ScanStep ==
  ASSUME RunInv, NEW w \in Workers, Scan(w)
  PROVE  RunInv'
<1> USE DEF RunInv, TypeOK, rows, world, observed
<1>1. PICK S \in SUBSET Candidates :
        /\ todo' = [todo EXCEPT ![w] = S]
        /\ seen' = [seen EXCEPT ![w] =
                      [r \in Runs |-> IF r \in S THEN attempts[r] ELSE 0]]
        /\ pc' = [pc EXCEPT ![w] = IF S = {} THEN "idle" ELSE "claim"]
  BY DEF Scan
<1>2. S \subseteq Runs /\ \A r \in S : status[r] = "PENDING"
  BY DEF Candidates
<1>3. \A r \in Runs : (IF r \in S THEN attempts[r] ELSE 0) \in 0..MaxAttempts
  BY RunsAssumption
<1>4. \A r \in Runs : (IF r \in S THEN attempts[r] ELSE 0) < MaxAttempts
  <2>1. 0 < MaxAttempts
    BY RunsAssumption
  <2>2. \A r \in S : attempts[r] < MaxAttempts
    <3> HIDE DEF TypeOK
    <3> QED BY <1>2 DEF UnfinishedHasAttempts
  <2> HIDE DEF TypeOK
  <2> QED BY <2>1, <2>2
<1>5. TypeOK'
  BY <1>1, <1>2, <1>3 DEF Scan
<1>6. SeenBelowLimit'
  BY <1>1, <1>4 DEF SeenBelowLimit
<1>7. ExecutorHasRun'
  BY <1>1 DEF Scan, ExecutorHasRun
<1> QED
  BY <1>5, <1>6, <1>7 DEF Scan, RunningHasLease, CompletedIsRecorded,
     UnfinishedHasAttempts

LEMMA ClaimStep ==
  ASSUME RunInv, NEW w \in Workers, Claim(w)
  PROVE  RunInv'
<1>1. TypeOK'
  BY RunsAssumption DEF RunInv, TypeOK, Claim, ClaimGuard,
     rows, world, memory, observed
<1>2. RunningHasLease' /\ CompletedIsRecorded'
  BY DEF RunInv, TypeOK, RunningHasLease, CompletedIsRecorded, Claim, ClaimGuard,
     rows, world, memory, observed
<1>3. UnfinishedHasAttempts'
  BY RunsAssumption DEF RunInv, TypeOK, UnfinishedHasAttempts,
     SeenBelowLimit, Claim, ClaimGuard,
     rows, world, memory, observed
<1>4. SeenBelowLimit' /\ ExecutorHasRun'
  BY RunsAssumption DEF RunInv, TypeOK, UnfinishedHasAttempts,
     SeenBelowLimit, ExecutorHasRun, Claim, ClaimGuard,
     rows, world, memory, observed
<1> QED BY <1>1, <1>2, <1>3, <1>4 DEF RunInv

\* Settling a run keeps statuses, leases and attempt counts in step.
LEMMA SettleFacts ==
  ASSUME TypeOK, RunningHasLease, CompletedIsRecorded, UnfinishedHasAttempts,
         NEW r \in Runs, NEW to \in Statuses \ {"ABSENT", "RUNNING"},
         Settle(r, to)
  PROVE  /\ status' \in [Runs -> Statuses]
         /\ lease' \in [Runs -> {"none", "live", "expired"}]
         /\ RunningHasLease'
         /\ \A q \in Runs \ {r} : status'[q] = status[q]
         /\ status'[r] \in {status[r], to}
         /\ status[r] \in Terminal => status'[r] = status[r]
         /\ status'[r] \notin Terminal => status[r] \notin Terminal
BY DEF TypeOK, RunningHasLease, Settle, StillRunning

\* Finishing with a run leaves a worker's memory well formed.
LEMMA MoveOnFacts ==
  ASSUME TypeOK, SeenBelowLimit, ExecutorHasRun, NEW w \in Workers,
         NEW r \in Runs, NEW left \in SUBSET Runs, MoveOn(w, r, left)
  PROVE  /\ pc' \in [Workers ->
              {"idle", "scan", "claim", "execute", "send", "record"}]
         /\ todo' \in [Workers -> SUBSET Runs]
         /\ batch' \in [Workers -> SUBSET Runs]
         /\ seen' \in [Workers -> [Runs -> 0..MaxAttempts]]
         /\ cur' \in [Workers -> Runs \cup {NoRun}]
         /\ outcome' \in [Workers -> Results \cup {"none"}]
         /\ SeenBelowLimit'
         /\ ExecutorHasRun'
<1> USE DEF TypeOK, MoveOn
<1>1. seen' \in [Workers -> [Runs -> 0..MaxAttempts]]
  BY RunsAssumption
<1>2. SeenBelowLimit'
  BY RunsAssumption DEF SeenBelowLimit
<1>3. ExecutorHasRun'
  BY DEF ExecutorHasRun
<1> QED BY <1>1, <1>2, <1>3

LEMMA BeginStep ==
  ASSUME RunInv, NEW w \in Workers, Begin(w)
  PROVE  RunInv'
<1> USE DEF RunInv
<1>1. PICK r \in batch[w] :
        \/ /\ Recorded(r)
           /\ Settle(r, IF message[r] = "sent" THEN "COMPLETED" ELSE "FAILED")
           /\ MoveOn(w, r, batch[w] \ {r})
        \/ /\ ~Recorded(r)
           /\ Settle(r, "CANCELLED")
           /\ MoveOn(w, r, batch[w] \ {r})
        \/ /\ batch' = [batch EXCEPT ![w] = batch[w] \ {r}]
           /\ cur' = [cur EXCEPT ![w] = r]
           /\ pc' = [pc EXCEPT ![w] = "send"]
           /\ UNCHANGED <<status, lease, todo, seen, outcome>>
  BY DEF Begin
<1>2. r \in Runs /\ batch[w] \ {r} \in SUBSET Runs
  BY DEF TypeOK
<1>3. UNCHANGED <<attempts, due, message, world, observed>>
  BY DEF Begin
<1>4. CASE /\ Recorded(r)
           /\ Settle(r, IF message[r] = "sent" THEN "COMPLETED" ELSE "FAILED")
           /\ MoveOn(w, r, batch[w] \ {r})
  <2> DEFINE to == IF message[r] = "sent" THEN "COMPLETED" ELSE "FAILED"
  <2>1. to \in Statuses \ {"ABSENT", "RUNNING"}
    OBVIOUS
  <2>2. /\ status' \in [Runs -> Statuses]
        /\ lease' \in [Runs -> {"none", "live", "expired"}]
        /\ RunningHasLease'
        /\ \A q \in Runs \ {r} : status'[q] = status[q]
        /\ status'[r] \in {status[r], to}
        /\ status'[r] \notin Terminal => status[r] \notin Terminal
    BY <1>2, <1>4, <2>1, SettleFacts
  <2>3. TypeOK' /\ SeenBelowLimit' /\ ExecutorHasRun'
    BY <1>2, <1>3, <1>4, <2>2, MoveOnFacts DEF TypeOK, world, observed
  <2>4. CompletedIsRecorded' /\ UnfinishedHasAttempts'
    BY <1>2, <1>3, <1>4, <2>2
    DEF CompletedIsRecorded, UnfinishedHasAttempts, Recorded
  <2> QED BY <2>2, <2>3, <2>4
<1>5. CASE /\ Settle(r, "CANCELLED")
           /\ MoveOn(w, r, batch[w] \ {r})
  <2>1. /\ status' \in [Runs -> Statuses]
        /\ lease' \in [Runs -> {"none", "live", "expired"}]
        /\ RunningHasLease'
        /\ \A q \in Runs \ {r} : status'[q] = status[q]
        /\ status'[r] \in {status[r], "CANCELLED"}
        /\ status'[r] \notin Terminal => status[r] \notin Terminal
    BY <1>2, <1>5, SettleFacts
  <2>2. TypeOK' /\ SeenBelowLimit' /\ ExecutorHasRun'
    BY <1>2, <1>3, <1>5, <2>1, MoveOnFacts DEF TypeOK, world, observed
  <2>3. CompletedIsRecorded' /\ UnfinishedHasAttempts'
    BY <1>2, <1>3, <2>1 DEF CompletedIsRecorded, UnfinishedHasAttempts
  <2> QED BY <2>1, <2>2, <2>3
<1>6. CASE /\ batch' = [batch EXCEPT ![w] = batch[w] \ {r}]
           /\ cur' = [cur EXCEPT ![w] = r]
           /\ pc' = [pc EXCEPT ![w] = "send"]
           /\ UNCHANGED <<status, lease, todo, seen, outcome>>
  <2>1. TypeOK'
    BY <1>2, <1>3, <1>6 DEF TypeOK, world, observed
  <2>2. ExecutorHasRun'
    BY <1>2, <1>6 DEF TypeOK, ExecutorHasRun
  <2> QED
    BY <1>3, <1>6, <2>1, <2>2 DEF RunningHasLease, CompletedIsRecorded,
       UnfinishedHasAttempts, SeenBelowLimit
<1> QED BY <1>1, <1>4, <1>5, <1>6

LEMMA SendStep ==
  ASSUME RunInv, NEW w \in Workers, Send(w)
  PROVE  RunInv'
<1> USE DEF RunInv
<1>1. cur[w] \in Runs
  BY DEF Send, ExecutorHasRun
<1>2. CountCap \in Nat /\ MaxFaults \in Nat
  BY RunsAssumption DEF CountCap
<1>3. UpTo(texts[cur[w]] + 1) \in Nat
  BY <1>1, <1>2 DEF UpTo, TypeOK
<1>4. texts' \in [Runs -> Nat] /\ gaps' \in [Runs -> Nat]
  <2>1. /\ \/ texts' = texts
           \/ texts' = [texts EXCEPT ![cur[w]] = UpTo(@ + 1)]
        /\ \/ gaps' = gaps
           \/ gaps' = [gaps EXCEPT ![cur[w]] = @ + 1]
    BY DEF Send
  <2>2. texts \in [Runs -> Nat] /\ gaps \in [Runs -> Nat]
    BY DEF TypeOK
  <2>3. texts' \in [Runs -> Nat]
    <3> HIDE DEF RunInv
    <3> QED BY <1>1, <1>3, <2>1, <2>2
  <2>4. gaps' \in [Runs -> Nat]
    <3> HIDE DEF RunInv
    <3> QED BY <1>1, <2>1, <2>2
  <2> QED BY <2>3, <2>4
<1>5. faults' \in 0..MaxFaults
  BY <1>2 DEF Send, TypeOK
<1>6. outcome' \in [Workers -> Results \cup {"none"}]
  BY DEF Send, TypeOK
<1>7. TypeOK'
  BY <1>4, <1>5, <1>6 DEF Send, TypeOK, rows, world
<1> QED
  BY <1>1, <1>7 DEF Send, TypeOK, rows, RunningHasLease, CompletedIsRecorded,
     UnfinishedHasAttempts, SeenBelowLimit, ExecutorHasRun

\* Creating the message, or losing against an earlier one.
LEMMA RecordFacts ==
  ASSUME TypeOK, RunningHasLease, CompletedIsRecorded, UnfinishedHasAttempts,
         NEW r \in Runs, NEW msg \in {"sent", "failed"},
         NEW to \in {"COMPLETED", "FAILED"}, RecordOutcome(r, msg, to)
  PROVE  /\ status' \in [Runs -> Statuses]
         /\ lease' \in [Runs -> {"none", "live", "expired"}]
         /\ message' \in [Runs -> Messages]
         /\ RunningHasLease'
         /\ CompletedIsRecorded'
         /\ \A q \in Runs \ {r} : status'[q] = status[q]
         /\ StillRunning(r) => status'[r] \in Terminal
         /\ status'[r] \notin Terminal => status[r] \notin Terminal
         /\ \A q \in Runs : status[q] \in Terminal => status'[q] = status[q]
<1>1. \E t \in {to, "FAILED"} : Settle(r, t)
  BY DEF RecordOutcome
<1>2. PICK t \in {to, "FAILED"} : Settle(r, t)
  BY <1>1
<1>3. /\ status' \in [Runs -> Statuses]
      /\ lease' \in [Runs -> {"none", "live", "expired"}]
      /\ RunningHasLease'
      /\ \A q \in Runs \ {r} : status'[q] = status[q]
      /\ status'[r] \in {status[r], t}
      /\ status[r] \in Terminal => status'[r] = status[r]
      /\ status'[r] \notin Terminal => status[r] \notin Terminal
  BY <1>2, SettleFacts
<1>4. /\ message' \in [Runs -> Messages]
      /\ message'[r] # "none"
      /\ \A q \in Runs \ {r} : message'[q] = message[q]
  <2>1. message \in [Runs -> Messages] /\ msg \in Messages /\ msg # "none"
    BY DEF TypeOK, Messages
  <2>2. \/ message[r] = "none" /\ message' = [message EXCEPT ![r] = msg]
        \/ message[r] # "none" /\ message' = message
    BY DEF RecordOutcome
  <2> QED BY <2>1, <2>2
<1>5. StillRunning(r) => status'[r] \in Terminal
  BY <1>2 DEF Settle, StillRunning, TypeOK
<1>6. CompletedIsRecorded'
  BY <1>3, <1>4 DEF CompletedIsRecorded
<1> QED BY <1>3, <1>4, <1>5, <1>6

LEMMA RecordStep ==
  ASSUME RunInv, NEW w \in Workers, Record(w)
  PROVE  RunInv'
<1> USE DEF RunInv
<1> DEFINE r == cur[w]
           next == NextAttempt(w, r)
<1>1. r \in Runs
  BY DEF Record, ExecutorHasRun
<1>2. batch[w] \in SUBSET Runs /\ MoveOn(w, r, batch[w])
  BY DEF Record, TypeOK
<1>3. UNCHANGED <<world, observed>>
  BY DEF Record
<1>4. next \in 1..MaxAttempts
  BY <1>1, RunsAssumption DEF NextAttempt, TypeOK, SeenBelowLimit
<1>6. /\ pc' \in [Workers ->
           {"idle", "scan", "claim", "execute", "send", "record"}]
      /\ todo' \in [Workers -> SUBSET Runs]
      /\ batch' \in [Workers -> SUBSET Runs]
      /\ seen' \in [Workers -> [Runs -> 0..MaxAttempts]]
      /\ cur' \in [Workers -> Runs \cup {NoRun}]
      /\ outcome' \in [Workers -> Results \cup {"none"}]
      /\ SeenBelowLimit'
      /\ ExecutorHasRun'
  BY <1>1, <1>2, MoveOnFacts
<1>7. CASE /\ outcome[w] = "accepted"
           /\ RecordOutcome(r, "sent", "COMPLETED")
           /\ UNCHANGED <<attempts, due>>
  <2>1. /\ status' \in [Runs -> Statuses]
        /\ lease' \in [Runs -> {"none", "live", "expired"}]
        /\ message' \in [Runs -> Messages]
        /\ RunningHasLease'
        /\ CompletedIsRecorded'
        /\ \A q \in Runs \ {r} : status'[q] = status[q]
        /\ status'[r] \notin Terminal => status[r] \notin Terminal
    BY <1>1, <1>7, RecordFacts
  <2>2. TypeOK'
    BY <1>3, <1>6, <1>7, <2>1 DEF TypeOK, world, observed
  <2>3. UnfinishedHasAttempts'
    BY <1>7, <2>1 DEF UnfinishedHasAttempts
  <2> QED BY <1>6, <2>1, <2>2, <2>3
<1>8. CASE /\ GivesUp(w, r)
           /\ RecordOutcome(r, "failed", "FAILED")
           /\ attempts' = IF StillRunning(r) /\ ~Recorded(r)
                          THEN [attempts EXCEPT ![r] = next] ELSE attempts
           /\ UNCHANGED due
  <2>1. /\ status' \in [Runs -> Statuses]
        /\ lease' \in [Runs -> {"none", "live", "expired"}]
        /\ message' \in [Runs -> Messages]
        /\ RunningHasLease'
        /\ CompletedIsRecorded'
        /\ \A q \in Runs \ {r} : status'[q] = status[q]
        /\ StillRunning(r) => status'[r] \in Terminal
        /\ status'[r] \notin Terminal => status[r] \notin Terminal
    BY <1>1, <1>8, RecordFacts
  <2>2. attempts' \in [Runs -> 0..MaxAttempts]
    BY <1>1, <1>4, <1>8 DEF TypeOK
  <2>4. TypeOK'
    BY <1>3, <1>6, <1>8, <2>1, <2>2 DEF TypeOK, world, observed
  <2>5. UnfinishedHasAttempts'
    BY <1>1, <1>8, <2>1 DEF UnfinishedHasAttempts, TypeOK
  <2> QED BY <1>6, <2>1, <2>4, <2>5
<1>9. CASE /\ outcome[w] # "accepted"
           /\ ~GivesUp(w, r)
           /\ Settle(r, "PENDING")
           /\ attempts' = IF StillRunning(r)
                          THEN [attempts EXCEPT ![r] = next] ELSE attempts
           /\ due' = IF StillRunning(r)
                     THEN [due EXCEPT ![r] = FALSE] ELSE due
           /\ UNCHANGED message
  <2>1. /\ status' \in [Runs -> Statuses]
        /\ lease' \in [Runs -> {"none", "live", "expired"}]
        /\ RunningHasLease'
        /\ \A q \in Runs \ {r} : status'[q] = status[q]
        /\ status'[r] \in {status[r], "PENDING"}
        /\ status[r] \in Terminal => status'[r] = status[r]
    BY <1>1, <1>9, SettleFacts
  <2>2. next < MaxAttempts
    BY <1>4, <1>9, RunsAssumption DEF GivesUp
  <2>3. attempts' \in [Runs -> 0..MaxAttempts] /\ due' \in [Runs -> BOOLEAN]
    BY <1>1, <1>4, <1>9 DEF TypeOK
  <2>5. TypeOK'
    BY <1>3, <1>6, <1>9, <2>1, <2>3 DEF TypeOK, world, observed
  <2>6. CompletedIsRecorded'
    BY <1>1, <1>9, <2>1 DEF CompletedIsRecorded
  <2>7. UnfinishedHasAttempts'
    BY <1>1, <1>9, <2>1, <2>2 DEF UnfinishedHasAttempts, TypeOK
  <2> QED BY <1>6, <2>1, <2>5, <2>6, <2>7
<1> QED BY <1>7, <1>8, <1>9 DEF Record

LEMMA ErrorStep ==
  ASSUME RunInv, NEW w \in Workers, ExecutionError(w)
  PROVE  RunInv'
<1> USE DEF RunInv
<1>1. PICK r \in Runs :
        /\ \/ MoveOn(w, r, batch[w] \ {r})
           \/ MoveOn(w, r, batch[w])
        /\ Settle(r, "FAILED") \/ UNCHANGED <<status, lease>>
        /\ gaps' = IF Unrecorded(w) THEN [gaps EXCEPT ![r] = @ + 1] ELSE gaps
  BY DEF ExecutionError
<1>2. UNCHANGED <<attempts, due, message, world, texts>>
  BY DEF ExecutionError
<1>3. batch[w] \in SUBSET Runs /\ batch[w] \ {r} \in SUBSET Runs
  BY DEF TypeOK
<1>4. /\ pc' \in [Workers ->
           {"idle", "scan", "claim", "execute", "send", "record"}]
      /\ todo' \in [Workers -> SUBSET Runs]
      /\ batch' \in [Workers -> SUBSET Runs]
      /\ seen' \in [Workers -> [Runs -> 0..MaxAttempts]]
      /\ cur' \in [Workers -> Runs \cup {NoRun}]
      /\ outcome' \in [Workers -> Results \cup {"none"}]
      /\ SeenBelowLimit'
      /\ ExecutorHasRun'
  BY <1>1, <1>3, MoveOnFacts
<1>5. /\ status' \in [Runs -> Statuses]
      /\ lease' \in [Runs -> {"none", "live", "expired"}]
      /\ RunningHasLease'
      /\ \A q \in Runs \ {r} : status'[q] = status[q]
      /\ status'[r] \in {status[r], "FAILED"}
  <2>1. CASE Settle(r, "FAILED")
    BY <2>1, SettleFacts
  <2>2. CASE UNCHANGED <<status, lease>>
    BY <2>2 DEF TypeOK, RunningHasLease
  <2> QED BY <1>1, <2>1, <2>2
<1>6. gaps' \in [Runs -> Nat]
  BY <1>1 DEF TypeOK
<1>7. faults' \in 0..MaxFaults
  BY RunsAssumption DEF ExecutionError, TypeOK
<1>8. TypeOK'
  BY <1>2, <1>4, <1>5, <1>6, <1>7 DEF TypeOK, world
<1>9. CompletedIsRecorded' /\ UnfinishedHasAttempts'
  BY <1>2, <1>5 DEF CompletedIsRecorded, UnfinishedHasAttempts
<1> QED BY <1>4, <1>5, <1>8, <1>9

LEMMA CrashStep ==
  ASSUME RunInv, NEW w \in Workers, Crash(w)
  PROVE  RunInv'
<1>1. TypeOK'
  <2>1. /\ UNCHANGED <<rows, world>>
        /\ pc' = [pc EXCEPT ![w] = "idle"]
        /\ todo' = [todo EXCEPT ![w] = {}]
        /\ batch' = [batch EXCEPT ![w] = {}]
        /\ seen' = [seen EXCEPT ![w] = [r \in Runs |-> 0]]
        /\ cur' = [cur EXCEPT ![w] = NoRun]
        /\ outcome' = [outcome EXCEPT ![w] = "none"]
        /\ faults' \in 0..MaxFaults
    BY RunsAssumption DEF RunInv, TypeOK, Crash
  <2>2. /\ texts' = texts \/ texts' = [texts EXCEPT ![cur[w]] = UpTo(@ + 1)]
        /\ gaps' = gaps \/ gaps' = [gaps EXCEPT ![cur[w]] = @ + 1]
    BY DEF Crash
  <2>3. \A n \in Nat : UpTo(n + 1) \in Nat
    BY RunsAssumption DEF UpTo, CountCap
  <2>4. texts' \in [Runs -> Nat] /\ gaps' \in [Runs -> Nat]
    <3>1. texts \in [Runs -> Nat] /\ gaps \in [Runs -> Nat]
      BY DEF RunInv, TypeOK
    <3>2. texts' \in [Runs -> Nat]
      <4>1. CASE texts' = texts
        BY <3>1, <4>1
      <4>2. CASE texts' = [texts EXCEPT ![cur[w]] = UpTo(@ + 1)]
        <5>1. CASE cur[w] \in Runs
          <6>1. UpTo(texts[cur[w]] + 1) \in Nat
            BY <2>3, <3>1, <5>1
          <6> QED BY <3>1, <4>2, <5>1, <6>1
        <5>2. CASE cur[w] \notin Runs
          BY <3>1, <4>2, <5>2
        <5> QED BY <5>1, <5>2
      <4> QED BY <2>2, <4>1, <4>2
    <3>3. gaps' \in [Runs -> Nat]
      BY <2>2, <3>1
    <3> QED BY <3>2, <3>3
  <2> QED
    BY <2>1, <2>4, RunsAssumption DEF RunInv, TypeOK, rows, world
<1>2. RunningHasLease' /\ CompletedIsRecorded'
  BY DEF RunInv, TypeOK, RunningHasLease, CompletedIsRecorded, Crash, Unrecorded, UpTo, CountCap,
     rows, world, memory, observed
<1>3. UnfinishedHasAttempts'
  BY RunsAssumption DEF RunInv, TypeOK, UnfinishedHasAttempts,
     SeenBelowLimit, Crash, Unrecorded, UpTo, CountCap,
     rows, world, memory, observed
<1>4. SeenBelowLimit' /\ ExecutorHasRun'
  BY RunsAssumption DEF RunInv, TypeOK, UnfinishedHasAttempts,
     SeenBelowLimit, ExecutorHasRun, Crash, Unrecorded, UpTo, CountCap,
     rows, world, memory, observed
<1> QED BY <1>1, <1>2, <1>3, <1>4 DEF RunInv

LEMMA TimeStep ==
  ASSUME RunInv, NEW r \in Runs, LeaseExpires(r) \/ BecomesDue(r)
  PROVE  RunInv'
<1>1. TypeOK'
  BY RunsAssumption DEF RunInv, TypeOK, LeaseExpires, BecomesDue,
     rows, world, memory, observed
<1>2. RunningHasLease' /\ CompletedIsRecorded'
  BY DEF RunInv, TypeOK, RunningHasLease, CompletedIsRecorded, LeaseExpires, BecomesDue,
     rows, world, memory, observed
<1>3. UnfinishedHasAttempts'
  BY RunsAssumption DEF RunInv, TypeOK, UnfinishedHasAttempts,
     SeenBelowLimit, LeaseExpires, BecomesDue,
     rows, world, memory, observed
<1>4. SeenBelowLimit' /\ ExecutorHasRun'
  BY RunsAssumption DEF RunInv, TypeOK, UnfinishedHasAttempts,
     SeenBelowLimit, ExecutorHasRun, LeaseExpires, BecomesDue,
     rows, world, memory, observed
<1> QED BY <1>1, <1>2, <1>3, <1>4 DEF RunInv

LEMMA WorldStep ==
  ASSUME RunInv,
         \/ \E r \in Runs : ConditionChanges(r) \/ Receipt(r)
         \/ BusinessSuspendedOrRestored
         \/ KillSwitchFlipped
  PROVE  RunInv'
<1>1. TypeOK'
  <2> USE DEF RunInv, TypeOK, rows, world, memory, observed
  <2>1. ASSUME NEW r \in Runs, ConditionChanges(r) PROVE TypeOK'
    BY <2>1 DEF ConditionChanges
  <2>2. ASSUME NEW r \in Runs, Receipt(r) PROVE TypeOK'
    BY <2>2 DEF Receipt, Messages
  <2>3. CASE BusinessSuspendedOrRestored
    BY <2>3 DEF BusinessSuspendedOrRestored
  <2>4. CASE KillSwitchFlipped
    BY <2>4 DEF KillSwitchFlipped
  <2> QED BY <2>1, <2>2, <2>3, <2>4
<1>2. /\ UNCHANGED <<status, attempts, lease, memory>>
      /\ \A r \in Runs : message[r] # "none" => message'[r] # "none"
  BY DEF RunInv, TypeOK, Messages, ConditionChanges, Receipt,
     BusinessSuspendedOrRestored, KillSwitchFlipped, rows
<1> QED
  BY <1>1, <1>2 DEF RunInv, RunningHasLease, CompletedIsRecorded,
     UnfinishedHasAttempts, SeenBelowLimit, ExecutorHasRun, memory

LEMMA RunNext == RunInv /\ [Next]_vars => RunInv'
<1> SUFFICES ASSUME RunInv, [Next]_vars PROVE RunInv'
  OBVIOUS
<1>1. CASE UNCHANGED vars
  BY <1>1 DEF vars, rows, world, memory, observed, RunInv, TypeOK,
     RunningHasLease, CompletedIsRecorded, UnfinishedHasAttempts,
     SeenBelowLimit, ExecutorHasRun
<1>2. ASSUME NEW w \in Workers, WorkerStep(w)
      PROVE  RunInv'
  BY <1>2, RecoverStep, ScanStep, ClaimStep, BeginStep, SendStep, RecordStep
  DEF WorkerStep
<1>3. ASSUME NEW w \in Workers, ExecutionError(w) \/ Crash(w)
      PROVE  RunInv'
  BY <1>3, ErrorStep, CrashStep
<1>4. ASSUME NEW r \in Runs, \/ Schedule(r) \/ CancelByOwner(r)
                             \/ LeaseExpires(r) \/ BecomesDue(r)
      PROVE  RunInv'
  BY <1>4, ScheduleStep, TimeStep
<1> QED BY <1>1, <1>2, <1>3, <1>4, WorldStep DEF Next

\* The types, and that no RUNNING run can be stranded without a lease, no run
\* is completed without a record and no unfinished run is out of attempts.
THEOREM RunSafety ==
  Spec => [](/\ TypeOK
             /\ RunningHasLease
             /\ CompletedIsRecorded
             /\ UnfinishedHasAttempts)
<1>1. RunInv => /\ TypeOK /\ RunningHasLease
                /\ CompletedIsRecorded /\ UnfinishedHasAttempts
  BY DEF RunInv
<1> QED BY <1>1, RunInit, RunNext, PTL DEF Spec
-----------------------------------------------------------------------------
(* Terminal statuses.                                                      *)

LEMMA SettleKeepsTerminal ==
  ASSUME TypeOK, NEW r \in Runs, NEW to, Settle(r, to)
  PROVE  \A q \in Runs : status[q] \in Terminal => status'[q] = status[q]
BY DEF TypeOK, Settle, StillRunning

LEMMA TerminalNext ==
  RunInv /\ [Next]_vars =>
    \A q \in Runs : status[q] \in Terminal => status'[q] = status[q]
<1> SUFFICES ASSUME RunInv, [Next]_vars, NEW q \in Runs, status[q] \in Terminal
             PROVE  status'[q] = status[q]
  OBVIOUS
<1>t. TypeOK
  BY DEF RunInv
<1>1. CASE UNCHANGED status
  BY <1>1
<1>2. ASSUME NEW r \in Runs, NEW to, Settle(r, to)
      PROVE  status'[q] = status[q]
  BY <1>2, <1>t, SettleKeepsTerminal
<1>3. ASSUME NEW w \in Workers, WorkerStep(w) \/ ExecutionError(w) \/ Crash(w)
      PROVE  status'[q] = status[q]
  <2>1. CASE Recover(w)
    BY <2>1 DEF Recover, Stale
  <2>2. CASE Scan(w) \/ Send(w) \/ Crash(w)
    BY <2>2 DEF Scan, Send, Crash, rows
  <2>3. CASE Claim(w)
    BY <2>3, <1>t DEF Claim, ClaimGuard, TypeOK
  <2>4. CASE Begin(w)
    <3>1. batch[w] \subseteq Runs
      BY <1>t DEF TypeOK
    <3>2. UNCHANGED status \/ \E r \in Runs, to \in Statuses : Settle(r, to)
      BY <2>4, <3>1 DEF Begin
    <3> QED BY <3>2, <1>1, <1>2
  <2>5. CASE Record(w)
    <3>1. cur[w] \in Runs
      BY <2>5 DEF Record, RunInv, ExecutorHasRun
    <3>2. \/ RecordOutcome(cur[w], "sent", "COMPLETED")
          \/ RecordOutcome(cur[w], "failed", "FAILED")
          \/ Settle(cur[w], "PENDING")
      BY <2>5 DEF Record
    <3>3. \/ Settle(cur[w], "COMPLETED") \/ Settle(cur[w], "FAILED")
          \/ Settle(cur[w], "PENDING")
      BY <3>2 DEF RecordOutcome
    <3> QED BY <3>1, <3>3, <1>2
  <2>6. CASE ExecutionError(w)
    <3>1. UNCHANGED status \/ \E r \in Runs : Settle(r, "FAILED")
      BY <2>6 DEF ExecutionError
    <3> QED BY <3>1, <1>1, <1>2
  <2> QED BY <1>3, <2>1, <2>2, <2>3, <2>4, <2>5, <2>6 DEF WorkerStep
<1>4. ASSUME NEW r \in Runs, \/ Schedule(r) \/ CancelByOwner(r)
                             \/ LeaseExpires(r) \/ BecomesDue(r)
                             \/ ConditionChanges(r) \/ Receipt(r)
      PROVE  status'[q] = status[q]
  BY <1>4, <1>t DEF Schedule, CancelByOwner, LeaseExpires, BecomesDue,
     ConditionChanges, Receipt, rows, TypeOK
<1>5. CASE UNCHANGED vars \/ BusinessSuspendedOrRestored \/ KillSwitchFlipped
  BY <1>5 DEF vars, rows, BusinessSuspendedOrRestored, KillSwitchFlipped
<1> QED BY <1>3, <1>4, <1>5 DEF Next

\* Whatever worker, retry, recovery or error is late, a finished run stays as
\* it finished.
THEOREM TerminalStatusIsFinal == Spec => TerminalIsFinal
<1>1. RunInv /\ [Next]_vars =>
        [\A r \in Runs : status[r] \in Terminal => status'[r] = status[r]]_vars
  BY TerminalNext
<1> QED BY <1>1, RunInit, RunNext, PTL DEF Spec, TerminalIsFinal
-----------------------------------------------------------------------------
(* Exclusive execution, when a lease outlasts a claimed batch.             *)

\* A worker executes one run at a time, taken out of its batch.
OneAtATime ==
  \A w \in Workers :
    cur[w] \in Runs => pc[w] \in {"send", "record"} /\ cur[w] \notin batch[w]

\* A recorded outcome is final, and a failed run was not sent.
HoldInv ==
  /\ HeldUnderLease
  /\ ExclusiveHolder
  /\ OneAtATime
  /\ StatusMatchesMessage

LEMMA HoldInit == Init => HoldInv
BY RunsAssumption DEF Init, HoldInv, HeldUnderLease, ExclusiveHolder,
   OneAtATime, StatusMatchesMessage, Holds

\* A step that keeps every holder's run RUNNING under a live lease, and gives
\* no worker a run that was held by another one, preserves exclusiveness.
LEMMA HoldersShrink ==
  ASSUME HoldInv,
         \A w \in Workers, r \in Runs :
           Holds(w, r)' =>
             /\ Holds(w, r)
             /\ status'[r] = "RUNNING" /\ lease'[r] = "live"
  PROVE  HeldUnderLease' /\ ExclusiveHolder'
<1>1. HeldUnderLease'
  BY DEF HoldInv, HeldUnderLease
<1>2. ExclusiveHolder'
  BY DEF HoldInv, ExclusiveHolder
<1> QED BY <1>1, <1>2

LEMMA HoldClaim ==
  ASSUME RunInv, HoldInv, NEW w \in Workers, Claim(w)
  PROVE  HoldInv'
<1> USE DEF HoldInv
<1>t. TypeOK
  BY DEF RunInv
<1>1. PICK r \in todo[w] :
        /\ \/ /\ status[r] = "PENDING"
              /\ status' = [status EXCEPT ![r] = "RUNNING"]
              /\ lease' = [lease EXCEPT ![r] = "live"]
              /\ batch' = [batch EXCEPT ![w] = batch[w] \cup {r}]
           \/ /\ UNCHANGED <<status, lease>>
              /\ batch' = [batch EXCEPT ![w] = batch[w]]
        /\ pc' = [pc EXCEPT ![w] =
                    IF todo[w] \ {r} # {} THEN "claim"
                    ELSE IF batch'[w] # {} THEN "execute" ELSE "idle"]
  BY <1>t DEF Claim, ClaimGuard, TypeOK
<1>2. r \in Runs /\ UNCHANGED <<cur, message>> /\ pc[w] = "claim"
  BY <1>t DEF Claim, TypeOK
<1>3. cur[w] \notin Runs
  BY <1>2 DEF OneAtATime
<1>4. OneAtATime'
  BY <1>1, <1>2, <1>3, <1>t DEF OneAtATime, TypeOK
<1>5. CASE /\ status[r] = "PENDING"
           /\ status' = [status EXCEPT ![r] = "RUNNING"]
           /\ lease' = [lease EXCEPT ![r] = "live"]
           /\ batch' = [batch EXCEPT ![w] = batch[w] \cup {r}]
  <2>1. \A v \in Workers : ~Holds(v, r)
    BY <1>2, <1>5 DEF HeldUnderLease
  <2>2. \A v \in Workers, q \in Runs :
          Holds(v, q)' => Holds(v, q) \/ (v = w /\ q = r)
    BY <1>2, <1>5, <1>t DEF Holds, TypeOK
  <2>3. status'[r] = "RUNNING" /\ lease'[r] = "live"
    BY <1>2, <1>5, <1>t DEF TypeOK
  <2>4. \A q \in Runs \ {r} : status'[q] = status[q] /\ lease'[q] = lease[q]
    BY <1>2, <1>5, <1>t DEF TypeOK
  <2>5. HeldUnderLease'
    BY <2>1, <2>2, <2>3, <2>4 DEF HeldUnderLease
  <2>6. ExclusiveHolder'
    BY <2>1, <2>2 DEF ExclusiveHolder
  <2>7. StatusMatchesMessage'
    BY <1>2, <1>5, <2>3, <2>4 DEF StatusMatchesMessage
  <2> QED BY <1>4, <2>5, <2>6, <2>7
<1>6. CASE /\ UNCHANGED <<status, lease>>
           /\ batch' = [batch EXCEPT ![w] = batch[w]]
  <2>1. UNCHANGED batch
    BY <1>6, <1>t DEF TypeOK
  <2> QED
    BY <1>2, <1>4, <1>6, <2>1 DEF HeldUnderLease, ExclusiveHolder, Holds,
       StatusMatchesMessage
<1> QED BY <1>1, <1>5, <1>6

\* Finishing with run r: settled or forgotten, w no longer holds it.
LEMMA HoldFinish ==
  ASSUME RunInv, HoldInv, NEW w \in Workers, NEW r \in Runs, Holds(w, r),
         NEW left \in SUBSET batch[w], r \notin left,
         cur[w] \in Runs => cur[w] = r,
         MoveOn(w, r, left),
         \A q \in Runs \ {r} : status'[q] = status[q] /\ lease'[q] = lease[q]
  PROVE  HeldUnderLease' /\ ExclusiveHolder' /\ OneAtATime'
<1> USE DEF HoldInv
<1>t. TypeOK
  BY DEF RunInv
<1>1. \A v \in Workers, q \in Runs : Holds(v, q)' => Holds(v, q) /\ q # r
  <2>1. SUFFICES ASSUME NEW v \in Workers, NEW q \in Runs, Holds(v, q)'
                 PROVE  Holds(v, q) /\ q # r
    OBVIOUS
  <2>2. CASE v = w
    BY <1>t, <2>1, <2>2, RunsAssumption DEF MoveOn, Holds, TypeOK
  <2>3. CASE v # w
    <3>1. Holds(v, q)
      BY <1>t, <2>1, <2>3 DEF MoveOn, Holds, TypeOK
    <3>2. ~Holds(v, r)
      BY <2>3 DEF ExclusiveHolder
    <3> QED BY <3>1, <3>2
  <2> QED BY <2>2, <2>3
<1>2. HeldUnderLease' /\ ExclusiveHolder'
  <2>1. \A v \in Workers, q \in Runs :
          Holds(v, q)' => /\ Holds(v, q)
                          /\ status'[q] = "RUNNING" /\ lease'[q] = "live"
    BY <1>1 DEF HeldUnderLease
  <2> QED BY <2>1, HoldersShrink
<1>3. OneAtATime'
  BY <1>t, RunsAssumption DEF MoveOn, OneAtATime, TypeOK
<1> QED BY <1>2, <1>3

\* A held run is RUNNING and has no recorded outcome.
LEMMA HeldIsOpen ==
  ASSUME HoldInv, NEW w \in Workers, NEW r \in Runs, Holds(w, r)
  PROVE  status[r] = "RUNNING" /\ lease[r] = "live" /\ message[r] = "none"
BY DEF HoldInv, HeldUnderLease, StatusMatchesMessage

LEMMA HoldBegin ==
  ASSUME RunInv, HoldInv, NEW w \in Workers, Begin(w)
  PROVE  HoldInv'
<1> USE DEF HoldInv
<1>t. TypeOK
  BY DEF RunInv
<1>1. PICK r \in batch[w] :
        \/ Recorded(r)
        \/ /\ Settle(r, "CANCELLED")
           /\ MoveOn(w, r, batch[w] \ {r})
        \/ /\ batch' = [batch EXCEPT ![w] = batch[w] \ {r}]
           /\ cur' = [cur EXCEPT ![w] = r]
           /\ pc' = [pc EXCEPT ![w] = "send"]
           /\ UNCHANGED <<status, lease>>
  BY DEF Begin
<1>2. r \in Runs /\ Holds(w, r) /\ UNCHANGED message /\ pc[w] = "execute"
  BY <1>t DEF Holds, Begin, TypeOK
<1>3. cur[w] \notin Runs
  BY <1>2 DEF OneAtATime
<1>4. ~Recorded(r) /\ status[r] = "RUNNING"
  BY <1>2, HeldIsOpen DEF Recorded
<1>5. CASE Settle(r, "CANCELLED") /\ MoveOn(w, r, batch[w] \ {r})
  <2>1. /\ status'[r] = "CANCELLED"
        /\ \A q \in Runs \ {r} : status'[q] = status[q] /\ lease'[q] = lease[q]
    BY <1>2, <1>4, <1>5, <1>t DEF Settle, StillRunning, TypeOK
  <2>2. HeldUnderLease' /\ ExclusiveHolder' /\ OneAtATime'
    BY <1>2, <1>3, <1>5, <2>1, HoldFinish
  <2>3. StatusMatchesMessage'
    BY <1>2, <1>4, <2>1 DEF StatusMatchesMessage, Recorded
  <2> QED BY <2>2, <2>3
<1>6. CASE /\ batch' = [batch EXCEPT ![w] = batch[w] \ {r}]
           /\ cur' = [cur EXCEPT ![w] = r]
           /\ pc' = [pc EXCEPT ![w] = "send"]
           /\ UNCHANGED <<status, lease>>
  <2>1. \A v \in Workers, q \in Runs : Holds(v, q)' => Holds(v, q)
    BY <1>2, <1>6, <1>t DEF Holds, TypeOK
  <2>2. HeldUnderLease' /\ ExclusiveHolder'
    BY <1>6, <2>1 DEF HeldUnderLease, ExclusiveHolder
  <2>3. OneAtATime'
    BY <1>2, <1>6, <1>t DEF OneAtATime, TypeOK
  <2>4. StatusMatchesMessage'
    BY <1>2, <1>6 DEF StatusMatchesMessage
  <2> QED BY <2>2, <2>3, <2>4
<1> QED BY <1>1, <1>4, <1>5, <1>6

LEMMA HoldRecord ==
  ASSUME RunInv, HoldInv, NEW w \in Workers, Record(w)
  PROVE  HoldInv'
<1> USE DEF HoldInv
<1> DEFINE r == cur[w]
<1>t. TypeOK
  BY DEF RunInv
<1>1. r \in Runs /\ MoveOn(w, r, batch[w])
  BY DEF Record, RunInv, ExecutorHasRun
<1>2. Holds(w, r) /\ r \notin batch[w]
  BY <1>1 DEF Holds, OneAtATime
<1>3. status[r] = "RUNNING" /\ message[r] = "none"
  BY <1>1, <1>2, HeldIsOpen
<1>4. \/ RecordOutcome(r, "sent", "COMPLETED")
      \/ RecordOutcome(r, "failed", "FAILED")
      \/ Settle(r, "PENDING") /\ UNCHANGED message
  BY DEF Record
<1>5. /\ \A q \in Runs \ {r} : /\ status'[q] = status[q]
                               /\ lease'[q] = lease[q]
                               /\ message'[q] = message[q]
      /\ \/ status'[r] = "COMPLETED" /\ message'[r] = "sent"
         \/ status'[r] = "FAILED" /\ message'[r] = "failed"
         \/ status'[r] = "PENDING" /\ message'[r] = "none"
  BY <1>1, <1>3, <1>4, <1>t DEF RecordOutcome, Settle, StillRunning, TypeOK
<1>6. HeldUnderLease' /\ ExclusiveHolder' /\ OneAtATime'
  BY <1>1, <1>2, <1>5, HoldFinish
<1>7. StatusMatchesMessage'
  BY <1>5 DEF StatusMatchesMessage
<1> QED BY <1>6, <1>7

LEMMA HoldError ==
  ASSUME RunInv, HoldInv, NEW w \in Workers, ExecutionError(w)
  PROVE  HoldInv'
<1> USE DEF HoldInv
<1>t. TypeOK
  BY DEF RunInv
<1>1. PICK r \in Runs :
        /\ \/ /\ pc[w] = "execute" /\ r \in batch[w]
              /\ MoveOn(w, r, batch[w] \ {r})
           \/ /\ pc[w] = "record" /\ r = cur[w]
              /\ MoveOn(w, r, batch[w])
        /\ Settle(r, "FAILED") \/ UNCHANGED <<status, lease>>
  BY DEF ExecutionError
<1>2. Holds(w, r) /\ UNCHANGED message
  BY <1>1 DEF Holds, ExecutionError
<1>3. status[r] = "RUNNING" /\ message[r] = "none"
  BY <1>2, HeldIsOpen
<1>4. /\ \A q \in Runs \ {r} : status'[q] = status[q] /\ lease'[q] = lease[q]
      /\ status'[r] \in {"RUNNING", "FAILED"}
  BY <1>1, <1>3, <1>t DEF Settle, StillRunning, TypeOK
<1>5. HeldUnderLease' /\ ExclusiveHolder' /\ OneAtATime'
  <2>1. CASE pc[w] = "execute" /\ r \in batch[w] /\ MoveOn(w, r, batch[w] \ {r})
    <3>1. cur[w] \notin Runs
      BY <2>1 DEF OneAtATime
    <3> QED BY <1>2, <1>4, <2>1, <3>1, HoldFinish
  <2>2. CASE r = cur[w] /\ MoveOn(w, r, batch[w])
    <3>1. r \notin batch[w]
      BY <2>2 DEF OneAtATime
    <3> QED BY <1>2, <1>4, <2>2, <3>1, HoldFinish
  <2> QED BY <1>1, <2>1, <2>2
<1>6. StatusMatchesMessage'
  BY <1>2, <1>3, <1>4 DEF StatusMatchesMessage
<1> QED BY <1>5, <1>6

\* Steps that leave every worker's hold and every held row alone.
LEMMA HoldOther ==
  ASSUME RunInv, HoldInv, LeaseCovers = "batch",
         \/ \E w \in Workers : Recover(w) \/ Scan(w) \/ Send(w) \/ Crash(w)
         \/ \E r \in Runs : \/ Schedule(r) \/ CancelByOwner(r)
                            \/ LeaseExpires(r) \/ BecomesDue(r)
                            \/ ConditionChanges(r) \/ Receipt(r)
         \/ BusinessSuspendedOrRestored
         \/ KillSwitchFlipped
  PROVE  HoldInv'
<1> USE DEF HoldInv
<1>t. TypeOK
  BY DEF RunInv
<1>0. \A v \in Workers, q \in Runs :
        Holds(v, q) => status[q] = "RUNNING" /\ lease[q] = "live"
  BY DEF HeldUnderLease
<1>1. ASSUME NEW w \in Workers, Recover(w) PROVE HoldInv'
  <2>1. UNCHANGED <<batch, cur, message>>
    BY <1>1 DEF Recover
  <2>2. \A q \in Runs : \/ status'[q] = status[q] /\ lease'[q] = lease[q]
                        \/ lease[q] = "expired" /\ status[q] = "RUNNING"
                           /\ status'[q] = "PENDING"
    BY <1>1 DEF Recover, Stale
  <2>3. HeldUnderLease' /\ ExclusiveHolder'
    <3>1. \A v \in Workers, q \in Runs :
            Holds(v, q)' => /\ Holds(v, q)
                            /\ status'[q] = "RUNNING" /\ lease'[q] = "live"
      BY <1>0, <2>1, <2>2 DEF Holds
    <3> QED BY <3>1, HoldersShrink
  <2>4. OneAtATime'
    BY <1>1, <2>1, <1>t DEF OneAtATime, Recover, TypeOK
  <2>5. StatusMatchesMessage'
    BY <2>1, <2>2 DEF StatusMatchesMessage
  <2> QED BY <2>3, <2>4, <2>5
<1>2. ASSUME NEW w \in Workers, Scan(w) PROVE HoldInv'
  <2>1. UNCHANGED <<batch, cur, message, status, lease>>
    BY <1>2 DEF Scan, rows
  <2>2. OneAtATime'
    BY <1>2, <2>1, <1>t DEF OneAtATime, Scan, TypeOK
  <2> QED BY <2>1, <2>2 DEF HeldUnderLease, ExclusiveHolder, Holds,
             StatusMatchesMessage
<1>3. ASSUME NEW w \in Workers, Send(w) PROVE HoldInv'
  <2>1. UNCHANGED <<batch, cur, message, status, lease>>
    BY <1>3 DEF Send, rows
  <2>2. OneAtATime'
    BY <1>3, <2>1, <1>t DEF OneAtATime, Send, TypeOK
  <2> QED BY <2>1, <2>2 DEF HeldUnderLease, ExclusiveHolder, Holds,
             StatusMatchesMessage
<1>4. ASSUME NEW w \in Workers, Crash(w) PROVE HoldInv'
  <2>1. UNCHANGED <<message, status, lease>>
    BY <1>4 DEF Crash, rows
  <2>2. /\ batch' = [batch EXCEPT ![w] = {}]
        /\ cur' = [cur EXCEPT ![w] = NoRun]
        /\ pc' = [pc EXCEPT ![w] = "idle"]
    BY <1>4 DEF Crash
  <2>3. \A v \in Workers, q \in Runs : Holds(v, q)' => Holds(v, q)
    BY <2>2, <1>t, RunsAssumption DEF Holds, TypeOK
  <2>4. OneAtATime'
    BY <2>2, <1>t, RunsAssumption DEF OneAtATime, TypeOK
  <2> QED BY <2>1, <2>3, <2>4 DEF HeldUnderLease, ExclusiveHolder,
             StatusMatchesMessage
<1>5. ASSUME NEW r \in Runs, Schedule(r) \/ CancelByOwner(r) PROVE HoldInv'
  <2>1. UNCHANGED <<batch, cur, pc, message, lease>>
    BY <1>5 DEF Schedule, CancelByOwner, memory
  <2>2. /\ status[r] \in {"ABSENT", "PENDING"}
        /\ status'[r] \in {"PENDING", "CANCELLED"}
        /\ \A q \in Runs \ {r} : status'[q] = status[q]
    BY <1>5, <1>t DEF Schedule, CancelByOwner, TypeOK
  <2> QED BY <1>0, <2>1, <2>2 DEF HeldUnderLease, ExclusiveHolder, Holds,
             OneAtATime, StatusMatchesMessage
<1>6. ASSUME NEW r \in Runs, LeaseExpires(r) PROVE HoldInv'
  <2>1. UNCHANGED <<batch, cur, pc, message, status>>
    BY <1>6 DEF LeaseExpires, memory
  <2>2. \A w \in Workers : ~Holds(w, r)
    BY <1>6 DEF LeaseExpires, Overdue
  <2>3. \A q \in Runs \ {r} : lease'[q] = lease[q]
    BY <1>6, <1>t DEF LeaseExpires, TypeOK
  <2> QED BY <2>1, <2>2, <2>3 DEF HeldUnderLease, ExclusiveHolder, Holds,
             OneAtATime, StatusMatchesMessage
<1>7. ASSUME NEW r \in Runs, Receipt(r) PROVE HoldInv'
  <2>1. UNCHANGED <<batch, cur, pc, lease, status>>
    BY <1>7 DEF Receipt, memory
  <2>2. /\ message[r] \in {"sent", "undelivered"}
        /\ message'[r] \in {"sent", "undelivered"}
        /\ \A q \in Runs \ {r} : message'[q] = message[q]
    BY <1>7, <1>t DEF Receipt, TypeOK, Messages
  <2> QED BY <2>1, <2>2 DEF HeldUnderLease, ExclusiveHolder, Holds,
             OneAtATime, StatusMatchesMessage
<1>8. CASE \/ \E r \in Runs : BecomesDue(r) \/ ConditionChanges(r)
           \/ BusinessSuspendedOrRestored \/ KillSwitchFlipped
  <2>1. UNCHANGED <<batch, cur, pc, lease, status, message>>
    BY <1>8 DEF BecomesDue, ConditionChanges, BusinessSuspendedOrRestored,
       KillSwitchFlipped, memory, rows
  <2> QED BY <2>1 DEF HeldUnderLease, ExclusiveHolder, Holds, OneAtATime,
             StatusMatchesMessage
<1> QED BY <1>1, <1>2, <1>3, <1>4, <1>5, <1>6, <1>7, <1>8

LEMMA HoldNext ==
  LeaseCovers = "batch" /\ RunInv /\ HoldInv /\ [Next]_vars => HoldInv'
<1> SUFFICES ASSUME LeaseCovers = "batch", RunInv, HoldInv, [Next]_vars
             PROVE  HoldInv'
  OBVIOUS
<1>1. CASE UNCHANGED vars
  BY <1>1 DEF vars, rows, memory, HoldInv, HeldUnderLease, ExclusiveHolder,
     Holds, OneAtATime, StatusMatchesMessage
<1>2. ASSUME NEW w \in Workers, WorkerStep(w) \/ ExecutionError(w) \/ Crash(w)
      PROVE  HoldInv'
  BY <1>2, HoldClaim, HoldBegin, HoldRecord, HoldError, HoldOther
  DEF WorkerStep
<1>3. CASE \/ \E r \in Runs : \/ Schedule(r) \/ CancelByOwner(r)
                              \/ LeaseExpires(r) \/ BecomesDue(r)
                              \/ ConditionChanges(r) \/ Receipt(r)
           \/ BusinessSuspendedOrRestored \/ KillSwitchFlipped
  BY <1>3, HoldOther
<1> QED BY <1>1, <1>2, <1>3 DEF Next

\* When leases outlast claimed batches, one worker at a time executes a run,
\* under a live lease, and the run's status agrees with its message.
THEOREM ExclusiveExecution ==
  ASSUME LeaseCovers = "batch"
  PROVE  Spec => [](HeldExclusively /\ StatusMatchesMessage)
<1>1. Init => RunInv /\ HoldInv
  BY RunInit, HoldInit
<1>2. RunInv /\ HoldInv /\ [Next]_vars => (RunInv /\ HoldInv)'
  BY RunNext, HoldNext
<1>3. RunInv /\ HoldInv => HeldExclusively /\ StatusMatchesMessage
  BY DEF HoldInv, HeldExclusively
<1> QED BY <1>1, <1>2, <1>3, PTL DEF Spec
-----------------------------------------------------------------------------
(* Duplicates.                                                             *)

\* The carrier's acceptance of r's message is on record, or about to be.
Accepted(r) ==
  \/ message[r] \in {"sent", "undelivered"}
  \/ \E w \in Workers : cur[w] = r /\ Unrecorded(w)

\* The texts of a run are those that fell into a gap, and one more if it is on
\* record or about to be; each gap is the work of a fault.
GapInv ==
  \A r \in Runs : /\ texts[r] = IF Accepted(r) THEN gaps[r] + 1 ELSE gaps[r]
                  /\ gaps[r] <= faults

LEMMA GapInit == Init => GapInv
BY RunsAssumption DEF Init, GapInv, Accepted, Unrecorded

\* What a worker executes is not on record, and in nobody else's hands.
LEMMA ExecutedFacts ==
  ASSUME RunInv, HoldInv, NEW w \in Workers, pc[w] \in {"send", "record"}
  PROVE  /\ cur[w] \in Runs /\ texts[cur[w]] \in Nat /\ gaps[cur[w]] \in Nat
         /\ message[cur[w]] = "none"
         /\ \A v \in Workers : cur[v] = cur[w] => v = w
         /\ Accepted(cur[w]) <=> Unrecorded(w)
<1>1. cur[w] \in Runs
  BY DEF RunInv, ExecutorHasRun
<1>2. texts[cur[w]] \in Nat /\ gaps[cur[w]] \in Nat /\ status[cur[w]] = "RUNNING"
  BY <1>1 DEF RunInv, TypeOK, HoldInv, HeldUnderLease, Holds
<1>3. message[cur[w]] = "none"
  BY <1>1, <1>2 DEF HoldInv, StatusMatchesMessage
<1>4. \A v \in Workers : cur[v] = cur[w] => v = w
  BY <1>1 DEF HoldInv, ExclusiveHolder, Holds
<1> QED BY <1>1, <1>2, <1>3, <1>4 DEF Accepted

\* A step that texts nobody, forgets nothing and records nothing.
LEMMA GapFrame ==
  ASSUME RunInv, GapInv, UNCHANGED <<texts, gaps>>, faults' >= faults, faults' \in Nat,
         \A r \in Runs : Accepted(r)' <=> Accepted(r)
  PROVE  GapInv'
BY DEF GapInv, RunInv, TypeOK

\* The count of texts has room for another one.
LEMMA GapRoom ==
  ASSUME RunInv, GapInv, NEW r \in Runs, ~Accepted(r)
  PROVE  UpTo(texts[r] + 1) = texts[r] + 1
<1>1. texts[r] = gaps[r] /\ gaps[r] <= faults
  BY DEF GapInv
<1>2. texts[r] \in Nat /\ gaps[r] \in Nat /\ faults \in 0..MaxFaults
  BY DEF RunInv, TypeOK
<1>3. texts[r] + 1 < CountCap
  BY <1>1, <1>2, RunsAssumption DEF CountCap
<1> QED BY <1>3 DEF UpTo

LEMMA GapSend ==
  ASSUME RunInv, HoldInv, GapInv, NEW w \in Workers, Send(w)
  PROVE  GapInv'
<1> DEFINE c == cur[w]
<1>1. /\ pc[w] = "send" /\ pc' = [pc EXCEPT ![w] = "record"]
      /\ UNCHANGED <<message, cur>>
  BY DEF Send, rows
<1>2. /\ c \in Runs /\ texts[c] \in Nat /\ gaps[c] \in Nat
      /\ \A v \in Workers : cur[v] = c => v = w
      /\ ~Accepted(c) /\ message[c] = "none"
  BY <1>1, ExecutedFacts DEF Unrecorded
<1>3. texts[c] = gaps[c] /\ gaps[c] <= faults /\ UpTo(texts[c] + 1) = texts[c] + 1
  BY <1>2, GapRoom DEF GapInv
<1>4. \A v \in Workers : v # w => (Unrecorded(v)' <=> Unrecorded(v))
  BY <1>1 DEF Send, Unrecorded, RunInv, TypeOK
<1>5. \A r \in Runs : r # c => (Accepted(r)' <=> Accepted(r))
  BY <1>1, <1>4 DEF Accepted
<1>6. \A r \in Runs : r = c => (Accepted(r)' <=> outcome'[w] = "accepted")
  BY <1>1, <1>2 DEF Accepted, Unrecorded, RunInv, TypeOK
<1>7. /\ texts'[c] = IF outcome'[w] = "accepted" THEN gaps'[c] + 1 ELSE gaps'[c]
      /\ gaps'[c] <= faults' /\ faults' >= faults
      /\ \A r \in Runs : r # c => texts'[r] = texts[r] /\ gaps'[r] = gaps[r]
  <2> USE <1>2, <1>3 DEF RunInv, TypeOK
  <2>1. CASE texts' = [texts EXCEPT ![c] = UpTo(@ + 1)] /\ UNCHANGED <<gaps, faults>>
             /\ outcome' = [outcome EXCEPT ![w] = "accepted"]
    BY <2>1
  <2>2. CASE texts' = [texts EXCEPT ![c] = UpTo(@ + 1)] /\ faults' = faults + 1
             /\ gaps' = [gaps EXCEPT ![c] = @ + 1]
             /\ outcome' = [outcome EXCEPT ![w] = "transient"]
    BY <2>2, RunsAssumption
  <2>3. CASE UNCHANGED <<texts, gaps, faults>>
             /\ \E a \in {"transient", "permanent"} : outcome' = [outcome EXCEPT ![w] = a]
    BY <2>3
  <2> QED BY <2>1, <2>2, <2>3 DEF Send
<1>8. faults \in Nat /\ faults' \in Nat /\ gaps \in [Runs -> Nat]
  BY RunsAssumption, RunNext DEF RunInv, TypeOK, Next, WorkerStep
<1>9. ASSUME NEW r \in Runs
      PROVE  /\ texts'[r] = IF Accepted(r)' THEN gaps'[r] + 1 ELSE gaps'[r]
             /\ gaps'[r] <= faults'
  <2>1. CASE r = c
    BY <1>6, <1>7, <2>1
  <2>2. CASE r # c
    BY <1>5, <1>7, <1>8, <2>2 DEF GapInv
  <2> QED BY <2>1, <2>2
<1> QED BY <1>9 DEF GapInv

\* The end of an execution, which takes the run out of the worker's hands.
LEMMA GapEnds ==
  ASSUME RunInv, HoldInv, GapInv, NEW w \in Workers, pc[w] \in {"send", "record"},
         cur' = [cur EXCEPT ![w] = NoRun], faults' >= faults, faults' \in Nat,
         \A v \in Workers : v # w => pc'[v] = pc[v] /\ outcome'[v] = outcome[v],
         \A r \in Runs : r # cur[w] =>
           message'[r] = message[r] /\ texts'[r] = texts[r] /\ gaps'[r] = gaps[r],
         message'[cur[w]] # "undelivered",
         texts'[cur[w]] = IF message'[cur[w]] = "sent" THEN gaps'[cur[w]] + 1 ELSE gaps'[cur[w]],
         gaps'[cur[w]] <= faults'
  PROVE  GapInv'
<1> SUFFICES ASSUME NEW r \in Runs
             PROVE  /\ texts'[r] = IF Accepted(r)' THEN gaps'[r] + 1 ELSE gaps'[r]
                    /\ gaps'[r] <= faults'
  BY DEF GapInv
<1>1. /\ \A v \in Workers : cur[v] = cur[w] => v = w
      /\ cur[w] \in Runs /\ cur[w] # NoRun
  BY ExecutedFacts, RunsAssumption
<1>2. CASE r = cur[w]
  <2>1. \A v \in Workers : cur'[v] # r
    BY <1>1, <1>2 DEF RunInv, TypeOK
  <2>2. Accepted(r)' <=> message'[r] = "sent"
    BY <1>2, <2>1 DEF Accepted
  <2> QED BY <1>2, <2>2
<1>3. CASE r # cur[w]
  <2>1. Accepted(r)' <=> Accepted(r)
    BY <1>3, RunsAssumption DEF Accepted, Unrecorded, RunInv, TypeOK
  <2>2. gaps[r] \in Nat /\ faults \in Nat
    BY RunsAssumption DEF RunInv, TypeOK
  <2> QED BY <1>3, <2>1, <2>2 DEF GapInv
<1> QED BY <1>2, <1>3

LEMMA GapRecord ==
  ASSUME RunInv, HoldInv, GapInv, NEW w \in Workers, Record(w)
  PROVE  GapInv'
<1> DEFINE c == cur[w]
<1>1. /\ pc[w] = "record" /\ MoveOn(w, c, batch[w])
      /\ UNCHANGED <<texts, gaps, faults>>
  BY DEF Record, observed
<1>2. /\ c \in Runs /\ message[c] = "none" /\ gaps[c] <= faults
      /\ texts[c] = IF outcome[w] = "accepted" THEN gaps[c] + 1 ELSE gaps[c]
      /\ faults \in Nat
  BY <1>1, ExecutedFacts, RunsAssumption DEF GapInv, Unrecorded, RunInv, TypeOK
<1>3. /\ \A r \in Runs : r # c => message'[r] = message[r]
      /\ IF outcome[w] = "accepted" THEN message'[c] = "sent"
                                    ELSE message'[c] \in {"none", "failed"}
  BY <1>2 DEF Record, RecordOutcome, RunInv, TypeOK
<1>4. /\ cur' = [cur EXCEPT ![w] = NoRun]
      /\ \A v \in Workers : v # w => pc'[v] = pc[v] /\ outcome'[v] = outcome[v]
  BY <1>1 DEF MoveOn, RunInv, TypeOK
<1>5. /\ texts'[c] = IF message'[c] = "sent" THEN gaps'[c] + 1 ELSE gaps'[c]
      /\ message'[c] # "undelivered" /\ gaps'[c] <= faults'
      /\ faults' >= faults /\ faults' \in Nat
  BY <1>1, <1>2, <1>3
<1>6. pc[w] \in {"send", "record"}
  BY <1>1
<1>7. \A r \in Runs : r # c => texts'[r] = texts[r] /\ gaps'[r] = gaps[r]
  BY <1>1
<1> QED BY <1>3, <1>4, <1>5, <1>6, <1>7, GapEnds

\* A crash or error while r is executed: whatever was accepted is a gap.
LEMMA GapFault ==
  ASSUME RunInv, HoldInv, GapInv, NEW w \in Workers, ExecutionError(w) \/ Crash(w)
  PROVE  GapInv'
<1> DEFINE c == cur[w]
<1>0. /\ faults' = faults + 1 /\ faults \in Nat /\ faults' \in Nat /\ faults' >= faults
  BY RunsAssumption DEF ExecutionError, Crash, RunInv, TypeOK
<1>1. CASE pc[w] \in {"send", "record"}
  <2>1. /\ c \in Runs /\ texts[c] \in Nat /\ gaps[c] \in Nat /\ message[c] = "none"
        /\ texts[c] = IF Unrecorded(w) THEN gaps[c] + 1 ELSE gaps[c]
        /\ gaps[c] <= faults
        /\ texts \in [Runs -> Nat] /\ gaps \in [Runs -> Nat]
    BY <1>1, ExecutedFacts DEF GapInv, RunInv, TypeOK
  <2>2. /\ cur' = [cur EXCEPT ![w] = NoRun]
        /\ \A v \in Workers : v # w => pc'[v] = pc[v] /\ outcome'[v] = outcome[v]
        /\ UNCHANGED message
    BY <1>1 DEF ExecutionError, Crash, MoveOn, rows, RunInv, TypeOK
  <2>3. CASE /\ UNCHANGED texts
             /\ gaps' = IF Unrecorded(w) THEN [gaps EXCEPT ![c] = @ + 1] ELSE gaps
    <3>1. texts'[c] = gaps'[c] /\ gaps'[c] <= faults'
          /\ \A r \in Runs : r # c => texts'[r] = texts[r] /\ gaps'[r] = gaps[r]
      BY <1>0, <2>1, <2>3
    <3> QED BY <1>0, <1>1, <2>1, <2>2, <3>1, GapEnds
  <2>4. CASE /\ pc[w] = "send"
             /\ texts' = [texts EXCEPT ![c] = UpTo(@ + 1)]
             /\ gaps' = [gaps EXCEPT ![c] = @ + 1]
    <3>1. texts[c] = gaps[c] /\ UpTo(texts[c] + 1) = texts[c] + 1
      BY <1>1, <2>1, <2>4, ExecutedFacts, GapRoom DEF Unrecorded
    <3>2. texts'[c] = gaps'[c] /\ gaps'[c] <= faults'
          /\ \A r \in Runs : r # c => texts'[r] = texts[r] /\ gaps'[r] = gaps[r]
      BY <1>0, <2>1, <2>4, <3>1
    <3> QED BY <1>0, <1>1, <2>1, <2>2, <3>2, GapEnds
  <2>5. ExecutionError(w) => UNCHANGED texts
        /\ gaps' = IF Unrecorded(w) THEN [gaps EXCEPT ![c] = @ + 1] ELSE gaps
    BY <1>1 DEF ExecutionError
  <2> QED BY <2>3, <2>4, <2>5 DEF Crash
<1>2. CASE pc[w] \notin {"send", "record"}
  <2>1. UNCHANGED <<texts, gaps, message>>
    BY <1>2 DEF ExecutionError, Crash, Unrecorded, rows
  <2>2. c \notin Runs
    BY <1>2 DEF HoldInv, OneAtATime
  <2>3. /\ cur' = [cur EXCEPT ![w] = NoRun]
        /\ \A v \in Workers : v # w => pc'[v] = pc[v] /\ outcome'[v] = outcome[v]
    BY <1>2 DEF ExecutionError, Crash, MoveOn, RunInv, TypeOK
  <2>4. /\ \A r \in Runs : cur[w] # r /\ cur'[w] # r
        /\ \A v \in Workers : v # w => cur'[v] = cur[v]
    BY <2>2, <2>3, RunsAssumption DEF RunInv, TypeOK
  <2>5. \A v \in Workers : v # w => (Unrecorded(v)' <=> Unrecorded(v))
    BY <2>3 DEF Unrecorded
  <2>6. \A r \in Runs : Accepted(r)' <=> Accepted(r)
    BY <2>1, <2>4, <2>5 DEF Accepted
  <2> QED BY <1>0, <2>1, <2>6, GapFrame
<1> QED BY <1>1, <1>2

LEMMA GapOther ==
  ASSUME RunInv, HoldInv, GapInv,
         \/ \E w \in Workers : Recover(w) \/ Scan(w) \/ Claim(w) \/ Begin(w)
         \/ \E r \in Runs : \/ Schedule(r) \/ CancelByOwner(r) \/ LeaseExpires(r)
                            \/ BecomesDue(r) \/ ConditionChanges(r) \/ Receipt(r)
         \/ BusinessSuspendedOrRestored
         \/ KillSwitchFlipped
  PROVE  GapInv'
<1>0. faults \in Nat
  BY RunsAssumption DEF RunInv, TypeOK
<1>1. ASSUME NEW w \in Workers, Recover(w) \/ Scan(w) \/ Claim(w) \/ Begin(w)
      PROVE  GapInv'
  <2>1. UNCHANGED <<texts, gaps, faults, message>> /\ pc[w] \notin {"send", "record"}
    BY <1>1 DEF Recover, Scan, Claim, Begin, observed, rows
  <2>2. /\ \A v \in Workers : v # w => /\ pc'[v] = pc[v] /\ outcome'[v] = outcome[v]
                                       /\ cur'[v] = cur[v]
        /\ pc'[w] # "record"
    BY <1>1 DEF Recover, Scan, Claim, Begin, MoveOn, RunInv, TypeOK
  <2>3. ~Unrecorded(w) /\ ~Unrecorded(w)'
    BY <2>1, <2>2 DEF Unrecorded
  <2>4. \A r \in Runs : Accepted(r)' <=> Accepted(r)
    BY <2>1, <2>2, <2>3 DEF Accepted, Unrecorded
  <2> QED BY <1>0, <2>1, <2>4, GapFrame
<1>2. ASSUME NEW r \in Runs, Receipt(r) PROVE GapInv'
  <2>1. UNCHANGED <<texts, gaps, faults, cur, pc, outcome>>
    BY <1>2 DEF Receipt, memory, observed
  <2>2. \A q \in Runs : message[q] \in {"sent", "undelivered"}
                          <=> message'[q] \in {"sent", "undelivered"}
    BY <1>2 DEF Receipt, RunInv, TypeOK
  <2>3. \A q \in Runs : Accepted(q)' <=> Accepted(q)
    BY <2>1, <2>2 DEF Accepted, Unrecorded
  <2> QED BY <1>0, <2>1, <2>3, GapFrame
<1>3. CASE \/ \E r \in Runs : \/ Schedule(r) \/ CancelByOwner(r) \/ LeaseExpires(r)
                              \/ BecomesDue(r) \/ ConditionChanges(r)
           \/ BusinessSuspendedOrRestored
           \/ KillSwitchFlipped
  <2>1. UNCHANGED <<texts, gaps, faults, cur, pc, outcome, message>>
    BY <1>3 DEF Schedule, CancelByOwner, LeaseExpires, BecomesDue, ConditionChanges,
       BusinessSuspendedOrRestored, KillSwitchFlipped, rows, memory, observed
  <2>2. \A q \in Runs : Accepted(q)' <=> Accepted(q)
    BY <2>1 DEF Accepted, Unrecorded
  <2> QED BY <1>0, <2>1, <2>2, GapFrame
<1> QED BY <1>1, <1>2, <1>3

LEMMA GapNext ==
  RunInv /\ HoldInv /\ GapInv /\ [Next]_vars => GapInv'
<1> SUFFICES ASSUME RunInv, HoldInv, GapInv, [Next]_vars
             PROVE  GapInv'
  OBVIOUS
<1>1. CASE UNCHANGED vars
  BY <1>1 DEF vars, rows, memory, observed, GapInv, Accepted, Unrecorded
<1>2. ASSUME NEW w \in Workers, WorkerStep(w) \/ ExecutionError(w) \/ Crash(w)
      PROVE  GapInv'
  BY <1>2, GapSend, GapRecord, GapFault, GapOther DEF WorkerStep
<1>3. CASE \/ \E r \in Runs : \/ Schedule(r) \/ CancelByOwner(r)
                              \/ LeaseExpires(r) \/ BecomesDue(r)
                              \/ ConditionChanges(r) \/ Receipt(r)
           \/ BusinessSuspendedOrRestored \/ KillSwitchFlipped
  BY <1>3, GapOther
<1> QED BY <1>1, <1>2, <1>3 DEF Next

\* When leases outlast claimed batches, a customer is texted twice only if an
\* acceptance was lost between the carrier and the commit.
THEOREM DuplicatesFallInGaps ==
  ASSUME LeaseCovers = "batch"
  PROVE  Spec => []DuplicateOnlyInGap
<1>1. Init => RunInv /\ HoldInv /\ GapInv
  BY RunInit, HoldInit, GapInit
<1>2. RunInv /\ HoldInv /\ GapInv /\ [Next]_vars => (RunInv /\ HoldInv /\ GapInv)'
  BY RunNext, HoldNext, GapNext
<1>3. RunInv /\ GapInv => DuplicateOnlyInGap
  <2> SUFFICES ASSUME RunInv, GapInv, NEW r \in Runs PROVE texts[r] <= 1 + gaps[r]
    BY DEF DuplicateOnlyInGap
  <2>1. texts[r] <= gaps[r] + 1 /\ gaps[r] \in Nat
    BY DEF GapInv, RunInv, TypeOK
  <2> QED BY <2>1
<1> QED BY <1>1, <1>2, <1>3, PTL DEF Spec

\* A held run is RUNNING under a live lease while leases outlast batches.
THEOREM HeldRunsAreLeased ==
  ASSUME LeaseCovers = "batch"
  PROVE  Spec => []HeldUnderLease
<1>1. HeldExclusively => HeldUnderLease
  BY DEF HeldExclusively
<1> QED BY <1>1, ExclusiveExecution, PTL

\* While they do, every decision is on record and the record agrees with it.
THEOREM OutcomesAreRecorded ==
  ASSUME LeaseCovers = "batch"
  PROVE  Spec => []OutcomeIsRecorded
<1>1. CompletedIsRecorded /\ StatusMatchesMessage => OutcomeIsRecorded
  BY DEF OutcomeIsRecorded
<1> QED BY <1>1, RunSafety, ExclusiveExecution, PTL

\* Every variable keeps its type.
THEOREM RunsTyped == Spec => []TypeOK
BY RunSafety, PTL
-----------------------------------------------------------------------------
(* The engine implements MessageFate, when a lease outlasts a batch.       *)

\* The fates that MessageFate is given.
fates == [r \in Runs |-> FateOf(r)]

LEMMA FateInit == Init => Fate!Init
<1> SUFFICES ASSUME Init PROVE Fate!Init
  OBVIOUS
<1>1. \A r \in Runs : status[r] = "ABSENT"
  BY DEF Init
<1>2. \A r \in Runs : FateOf(r) = "absent"
  BY <1>1 DEF FateOf
<1> QED BY <1>2 DEF Init, Fate!Init

\* Runs whose statuses say the same have the same fate.
LEMMA FatesStay ==
  ASSUME \A r \in Runs : FateOf(r)' = FateOf(r), UNCHANGED <<texts, gaps>>
  PROVE  UNCHANGED Fate!vars
<1>1. fates' = fates
  BY DEF fates
<1> QED BY <1>1 DEF fates, Fate!vars

\* One run comes to another status.
LEMMA FateMoves ==
  ASSUME RunInv, NEW r \in Runs, NEW to \in Statuses, status' = [status EXCEPT ![r] = to]
  PROVE  fates' = [fates EXCEPT ![r] =
           CASE to = "ABSENT" -> "absent"
             [] to \in {"PENDING", "RUNNING"} -> "waiting"
             [] to = "COMPLETED" -> "sent"
             [] OTHER -> "failed"]
<1>1. status \in [Runs -> Statuses] /\ status'[r] = to
  BY DEF RunInv, TypeOK
<1>2. \A q \in Runs : q # r => FateOf(q)' = FateOf(q)
  BY <1>1 DEF FateOf
<1> QED BY <1>1, <1>2 DEF fates, FateOf

\* A run that a worker answers for waits, and its end is written.
LEMMA HeldFate ==
  ASSUME RunInv, HoldInv, NEW w \in Workers, NEW r \in Runs, Holds(w, r)
  PROVE  /\ status[r] = "RUNNING" /\ message[r] = "none" /\ fates[r] = "waiting"
         /\ \A to \in Statuses : Settle(r, to) => status' = [status EXCEPT ![r] = to]
<1>1. status[r] = "RUNNING" /\ message[r] = "none"
  BY HeldIsOpen
<1> QED BY <1>1 DEF fates, FateOf, Settle, StillRunning

\* What a worker inside executeAutomationRun has in hand.
LEMMA ExecutedFate ==
  ASSUME RunInv, HoldInv, GapInv, NEW w \in Workers, pc[w] \in {"send", "record"}
  PROVE  /\ cur[w] \in Runs /\ Holds(w, cur[w])
         /\ texts \in [Runs -> Nat] /\ gaps \in [Runs -> Nat]
         /\ Fate!Held(cur[w]) <=> Unrecorded(w)
         /\ ~Unrecorded(w) => UpTo(texts[cur[w]] + 1) = texts[cur[w]] + 1
<1>1. /\ cur[w] \in Runs /\ texts[cur[w]] \in Nat /\ gaps[cur[w]] \in Nat
      /\ Accepted(cur[w]) <=> Unrecorded(w)
  BY ExecutedFacts
<1>2. Fate!Held(cur[w]) <=> Unrecorded(w)
  BY <1>1 DEF GapInv, Fate!Held
<1> QED BY <1>1, <1>2, GapRoom DEF Holds, RunInv, TypeOK

\* A run that waits is given up, cancelled, completed or queued again.
LEMMA EndStep ==
  ASSUME RunInv, NEW r \in Runs, fates[r] = "waiting", UNCHANGED <<texts, gaps>>,
         NEW to \in {"PENDING", "COMPLETED", "FAILED", "CANCELLED"},
         status' = [status EXCEPT ![r] = to],
         to = "COMPLETED" => Fate!Held(r)
  PROVE  UNCHANGED Fate!vars \/ Fate!Moves(r)
<1>1. fates' = [fates EXCEPT ![r] = IF to = "PENDING" THEN "waiting"
                                    ELSE IF to = "COMPLETED" THEN "sent" ELSE "failed"]
  BY FateMoves
<1>2. CASE to = "PENDING"
  <2>1. fates' = fates
    BY <1>1, <1>2 DEF fates
  <2> QED BY <2>1 DEF fates, Fate!vars
<1>3. CASE to # "PENDING"
  BY <1>1, <1>3 DEF fates, Fate!Moves, Fate!Becomes
<1> QED BY <1>2, <1>3

\* A text goes out; its answer arrives, or is lost.
LEMMA TextStep ==
  ASSUME RunInv, HoldInv, GapInv, NEW w \in Workers, pc[w] = "send",
         texts' = [texts EXCEPT ![cur[w]] = UpTo(@ + 1)],
         UNCHANGED gaps \/ gaps' = [gaps EXCEPT ![cur[w]] = @ + 1],
         UNCHANGED status
  PROVE  Fate!Transmit(cur[w])
<1>1. /\ cur[w] \in Runs /\ Holds(w, cur[w]) /\ ~Fate!Held(cur[w])
      /\ texts \in [Runs -> Nat] /\ gaps \in [Runs -> Nat]
      /\ UpTo(texts[cur[w]] + 1) = texts[cur[w]] + 1
  BY ExecutedFate DEF Unrecorded
<1>2. fates' = fates /\ fates[cur[w]] = "waiting"
  BY <1>1, HeldFate DEF fates, FateOf
<1>3. texts' = [texts EXCEPT ![cur[w]] = @ + 1]
  BY <1>1
<1>4. \E missed \in {0, 1} : gaps' = [gaps EXCEPT ![cur[w]] = @ + missed]
  <2>1. CASE UNCHANGED gaps
    <3>1. gaps' = [gaps EXCEPT ![cur[w]] = @ + 0]
      BY <1>1, <2>1
    <3> QED BY <3>1
  <2>2. CASE gaps' = [gaps EXCEPT ![cur[w]] = @ + 1]
    BY <2>2
  <2> QED BY <2>1, <2>2
<1> QED BY <1>1, <1>2, <1>3, <1>4 DEF fates, Fate!Transmit

\* An acceptance is forgotten, and its run left alone or given up.
LEMMA ForgetStep ==
  ASSUME RunInv, HoldInv, GapInv, NEW w \in Workers, Unrecorded(w),
         gaps' = [gaps EXCEPT ![cur[w]] = @ + 1], UNCHANGED texts,
         UNCHANGED status \/ status' = [status EXCEPT ![cur[w]] = "FAILED"]
  PROVE  Fate!Forget(cur[w])
<1>1. /\ cur[w] \in Runs /\ Holds(w, cur[w]) /\ Fate!Held(cur[w])
  BY ExecutedFate DEF Unrecorded
<1>2. fates[cur[w]] = "waiting"
  BY <1>1, HeldFate
<1>3. \E to \in {"waiting", "failed"} : fates' = [fates EXCEPT ![cur[w]] = to]
  <2>1. CASE UNCHANGED status
    <3>1. fates' = fates
      BY <2>1 DEF fates, FateOf
    <3>2. fates' = [fates EXCEPT ![cur[w]] = "waiting"]
      BY <1>2, <3>1 DEF fates
    <3> QED BY <3>2
  <2>2. CASE status' = [status EXCEPT ![cur[w]] = "FAILED"]
    BY <1>1, <2>2, FateMoves
  <2> QED BY <2>1, <2>2
<1> QED BY <1>1, <1>2, <1>3 DEF fates, Fate!Forget

\* A worker's steps in executeAutomationRun.
LEMMA ExecutorFate ==
  ASSUME RunInv, HoldInv, GapInv, NEW w \in Workers,
         Begin(w) \/ Send(w) \/ Record(w) \/ ExecutionError(w) \/ Crash(w)
  PROVE  \/ UNCHANGED Fate!vars
         \/ \E r \in Runs : Fate!Moves(r) \/ Fate!Transmit(r) \/ Fate!Forget(r)
<1>1. CASE Begin(w)
  <2>1. PICK r \in batch[w] :
          \/ Recorded(r)
          \/ Settle(r, "CANCELLED")
          \/ UNCHANGED status
    BY <1>1 DEF Begin
  <2>2. r \in Runs /\ Holds(w, r) /\ UNCHANGED <<texts, gaps>>
    BY <1>1 DEF Begin, Holds, observed, RunInv, TypeOK
  <2>3. /\ message[r] = "none" /\ fates[r] = "waiting"
        /\ Settle(r, "CANCELLED") => status' = [status EXCEPT ![r] = "CANCELLED"]
    BY <2>2, HeldFate
  <2>4. CASE Settle(r, "CANCELLED")
    BY <2>2, <2>3, <2>4, EndStep
  <2>5. CASE UNCHANGED status
    BY <2>2, <2>5, FatesStay DEF FateOf
  <2> QED BY <2>1, <2>3, <2>4, <2>5 DEF Recorded
<1>2. CASE Send(w)
  <2>1. pc[w] = "send" /\ UNCHANGED status
    BY <1>2 DEF Send, rows
  <2>2. CASE UNCHANGED <<texts, gaps>>
    BY <2>1, <2>2, FatesStay DEF FateOf
  <2>3. CASE /\ texts' = [texts EXCEPT ![cur[w]] = UpTo(@ + 1)]
             /\ UNCHANGED gaps \/ gaps' = [gaps EXCEPT ![cur[w]] = @ + 1]
    BY <2>1, <2>3, TextStep, ExecutedFate
  <2> QED BY <1>2, <2>2, <2>3 DEF Send
<1>3. CASE Record(w)
  <2> DEFINE r == cur[w]
  <2>1. pc[w] = "record" /\ UNCHANGED <<texts, gaps>>
    BY <1>3 DEF Record, observed
  <2>2. /\ r \in Runs /\ Holds(w, r)
        /\ Fate!Held(r) <=> outcome[w] = "accepted"
    BY <2>1, ExecutedFate DEF Unrecorded
  <2>3. /\ message[r] = "none" /\ fates[r] = "waiting"
        /\ \A to \in Statuses : Settle(r, to) => status' = [status EXCEPT ![r] = to]
    BY <2>2, HeldFate
  <2>4. \/ outcome[w] = "accepted" /\ Settle(r, "COMPLETED")
        \/ Settle(r, "FAILED")
        \/ Settle(r, "PENDING")
    BY <1>3, <2>3 DEF Record, RecordOutcome
  <2>5. PICK to \in {"PENDING", "COMPLETED", "FAILED", "CANCELLED"} :
          /\ status' = [status EXCEPT ![r] = to]
          /\ to = "COMPLETED" => outcome[w] = "accepted"
    BY <2>3, <2>4
  <2>6. UNCHANGED Fate!vars \/ Fate!Moves(r)
    BY <2>1, <2>2, <2>3, <2>5, EndStep
  <2> QED BY <2>2, <2>6
<1>4. CASE ExecutionError(w)
  <2>1. PICK r \in Runs :
          /\ \/ pc[w] = "execute" /\ r \in batch[w]
             \/ pc[w] = "record" /\ r = cur[w]
          /\ Settle(r, "FAILED") \/ UNCHANGED <<status, lease>>
          /\ gaps' = IF Unrecorded(w) THEN [gaps EXCEPT ![r] = @ + 1] ELSE gaps
    BY <1>4 DEF ExecutionError
  <2>2. /\ Holds(w, r) /\ UNCHANGED texts
    BY <1>4, <2>1 DEF ExecutionError, Holds
  <2>3. /\ fates[r] = "waiting"
        /\ UNCHANGED status \/ status' = [status EXCEPT ![r] = "FAILED"]
    BY <2>1, <2>2, HeldFate
  <2>4. CASE Unrecorded(w)
    <3>1. r = cur[w]
      BY <2>1, <2>4 DEF Unrecorded
    <3> QED BY <2>1, <2>2, <2>3, <2>4, <3>1, ForgetStep
  <2>5. CASE ~Unrecorded(w) /\ UNCHANGED status
    BY <2>1, <2>2, <2>5, FatesStay DEF FateOf
  <2>6. CASE ~Unrecorded(w) /\ status' = [status EXCEPT ![r] = "FAILED"]
    BY <2>1, <2>2, <2>3, <2>6, EndStep
  <2> QED BY <2>3, <2>4, <2>5, <2>6
<1>5. CASE Crash(w)
  <2>1. UNCHANGED status
    BY <1>5 DEF Crash, rows
  <2>2. CASE Unrecorded(w) /\ UNCHANGED texts /\ gaps' = [gaps EXCEPT ![cur[w]] = @ + 1]
    BY <2>1, <2>2, ForgetStep, ExecutedFate DEF Unrecorded
  <2>3. CASE UNCHANGED <<texts, gaps>>
    BY <2>1, <2>3, FatesStay DEF FateOf
  <2>4. CASE /\ pc[w] = "send"
             /\ texts' = [texts EXCEPT ![cur[w]] = UpTo(@ + 1)]
             /\ gaps' = [gaps EXCEPT ![cur[w]] = @ + 1]
    BY <2>1, <2>4, TextStep, ExecutedFate
  <2> QED BY <1>5, <2>2, <2>3, <2>4 DEF Crash
<1> QED BY <1>1, <1>2, <1>3, <1>4, <1>5

\* The other steps: the queue's, the owner's, the clock's and the world's.
LEMMA OutsideFate ==
  ASSUME RunInv,
         \/ \E w \in Workers : Recover(w) \/ Scan(w) \/ Claim(w)
         \/ \E r \in Runs : \/ Schedule(r) \/ CancelByOwner(r) \/ LeaseExpires(r)
                            \/ BecomesDue(r) \/ ConditionChanges(r) \/ Receipt(r)
         \/ BusinessSuspendedOrRestored
         \/ KillSwitchFlipped
  PROVE  UNCHANGED Fate!vars \/ \E r \in Runs : Fate!Moves(r)
<1>1. CASE \E w \in Workers : Recover(w) \/ Scan(w) \/ Claim(w)
  <2>1. \A r \in Runs :
          \/ status'[r] = status[r]
          \/ status[r] \in {"PENDING", "RUNNING"} /\ status'[r] \in {"PENDING", "RUNNING"}
    BY <1>1 DEF Recover, Stale, Scan, Claim, ClaimGuard, rows, RunInv, TypeOK
  <2>2. UNCHANGED <<texts, gaps>>
    BY <1>1 DEF Recover, Scan, Claim, observed
  <2> QED BY <2>1, <2>2, FatesStay DEF FateOf
<1>2. ASSUME NEW r \in Runs, Schedule(r) PROVE Fate!Moves(r)
  <2>1. fates' = [fates EXCEPT ![r] = "waiting"]
    BY <1>2, FateMoves DEF Schedule
  <2>2. fates[r] = "absent" /\ UNCHANGED <<texts, gaps>>
    BY <1>2 DEF Schedule, fates, FateOf, observed
  <2> QED BY <2>1, <2>2 DEF fates, Fate!Moves, Fate!Becomes
<1>3. ASSUME NEW r \in Runs, CancelByOwner(r) PROVE UNCHANGED Fate!vars \/ Fate!Moves(r)
  <2>1. fates[r] = "waiting" /\ UNCHANGED <<texts, gaps>>
    BY <1>3 DEF CancelByOwner, fates, FateOf, observed
  <2> QED BY <1>3, <2>1, EndStep DEF CancelByOwner
<1>4. CASE \/ \E r \in Runs : \/ LeaseExpires(r) \/ BecomesDue(r)
                              \/ ConditionChanges(r) \/ Receipt(r)
           \/ BusinessSuspendedOrRestored
           \/ KillSwitchFlipped
  <2>1. UNCHANGED <<status, texts, gaps>>
    BY <1>4 DEF LeaseExpires, BecomesDue, ConditionChanges, Receipt,
       BusinessSuspendedOrRestored, KillSwitchFlipped, rows, observed
  <2> QED BY <2>1, FatesStay DEF FateOf
<1> QED BY <1>1, <1>2, <1>3, <1>4

\* While leases outlast batches, crashes, lost answers, suspensions, kill
\* switches and overlapping workers leave of a run what MessageFate allows: a
\* text for each gap and at most one more, and none once the run is settled.
THEOREM RunsKeepFate ==
  ASSUME LeaseCovers = "batch"
  PROVE  Spec => KeepsFate
<1>1. Init => RunInv /\ HoldInv /\ GapInv
  BY RunInit, HoldInit, GapInit
<1>2. RunInv /\ HoldInv /\ GapInv /\ [Next]_vars => (RunInv /\ HoldInv /\ GapInv)'
  BY RunNext, HoldNext, GapNext
<1>3. RunInv /\ HoldInv /\ GapInv /\ [Next]_vars => [Fate!Next]_(Fate!vars)
  <2> SUFFICES ASSUME RunInv, HoldInv, GapInv, [Next]_vars
               PROVE  Fate!Next \/ UNCHANGED Fate!vars
    OBVIOUS
  <2>1. CASE UNCHANGED vars
    BY <2>1, FatesStay DEF vars, rows, observed, FateOf
  <2>2. ASSUME NEW w \in Workers, WorkerStep(w) \/ ExecutionError(w) \/ Crash(w)
        PROVE  Fate!Next \/ UNCHANGED Fate!vars
    BY <2>2, ExecutorFate, OutsideFate DEF WorkerStep, Fate!Next
  <2>3. CASE \/ \E r \in Runs : \/ Schedule(r) \/ CancelByOwner(r) \/ LeaseExpires(r)
                                \/ BecomesDue(r) \/ ConditionChanges(r) \/ Receipt(r)
             \/ BusinessSuspendedOrRestored
             \/ KillSwitchFlipped
    BY <2>3, OutsideFate DEF Fate!Next
  <2> QED BY <2>1, <2>2, <2>3 DEF Next
<1> QED BY <1>1, <1>2, <1>3, FateInit, PTL DEF Spec, KeepsFate, Fate!Spec
=============================================================================
