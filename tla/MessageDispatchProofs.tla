------------------------ MODULE MessageDispatchProofs ------------------------
(***************************************************************************)
(* Proofs about MessageDispatch, for any number of dispatches, workers,    *)
(* attempts, retries and faults, and workers of any pace.                  *)
(*                                                                         *)
(* No write of a worker looks at the lease.  What keeps workers apart is   *)
(* the number of an attempt: the rows of a dispatch are 1..n for some n    *)
(* (top), and whoever is sending it has made row n and read attempts n-1.  *)
(* The invariant says so of senders (Sending), of claimed dispatches       *)
(* (Waiting) and of the table (Table), and counts acceptances (Counted).   *)
(***************************************************************************)
EXTENDS MessageDispatch, TLAPS

\* The greatest number of an attempt row.
TopOf(S) == CHOOSE k \in 0..MaxAttempts : S = 1..k

top == [d \in Dispatches |-> TopOf(rows[d])]

\* A dispatch that is being sent, or may be.
Open(d) == status[d] \in {"PROCESSING", "RETRY"} /\ ~known[d]

\* The attempt rows are numbered without gaps.
Numbered == \A d \in Dispatches : top[d] \in 0..MaxAttempts /\ rows[d] = 1..top[d]

\* A worker is sending exactly while it has a dispatch in hand, and has an
\* answer only to what it has sent.
InHand ==
  \A w \in Workers :
    /\ pc[w] \in {"send", "record"} <=> cur[w] # NoDispatch
    /\ answer[w] # "none" => pc[w] = "record"

\* Who is sending a dispatch has made its newest row, and is alone.
Sending ==
  \A w \in Workers, d \in Dispatches : cur[w] = d =>
    /\ top[d] = attempts[d] + 1
    /\ seen[w][d] = attempts[d]
    /\ Open(d)
    /\ \A u \in Workers : cur[u] = d => u = w

\* A dispatch that waits in a batch is still to be sent, or its number is taken.
Waiting ==
  \A w \in Workers : \A d \in batch[w] :
    seen[w][d] < top[d] \/ (seen[w][d] = attempts[d] /\ top[d] = attempts[d] /\ Open(d))

\* A dispatch's row agrees with the rows of its attempts.
Table ==
  \A d \in Dispatches :
    /\ attempts[d] <= top[d]
    /\ status[d] = "ABSENT" => top[d] = 0
    /\ status[d] \in Settled \/ known[d] => top[d] > 0
    /\ known[d] => status[d] \in Settled \ {"DEAD"} \/ (status[d] \in Queued /\ attempts[d] = 0)

\* What carriers report is reported of an id that is stored.
Reported ==
  \A d \in Dispatches :
    /\ known[d] /\ status[d] \notin {"ACCEPTED", "DELIVERED"} => verdict[d] = "FAILED"
    /\ status[d] = "DELIVERED" => verdict[d] = "DELIVERED"

\* The provider holds an acceptance that is on record, or about to be.
Held(d) == known[d] \/ \E w \in Workers : cur[w] = d /\ answer[w] = "accepted"

\* Every acceptance but one is lost, and each had a row of its own.
Counted ==
  \A d \in Dispatches :
    /\ sent[d] \in Nat /\ lost[d] \in Nat
    /\ sent[d] = IF Held(d) THEN lost[d] + 1 ELSE lost[d]
    /\ sent[d] <= top[d]
    /\ \A w \in Workers : cur[w] = d /\ pc[w] = "send" => sent[d] < top[d]

\* The variables that Counted does not bound have their types.
Types ==
  /\ status \in [Dispatches -> Statuses]
  /\ attempts \in [Dispatches -> 0..MaxAttempts]
  /\ lease \in [Dispatches -> {"none", "live", "expired"}]
  /\ due \in [Dispatches -> BOOLEAN]
  /\ known \in [Dispatches -> BOOLEAN]
  /\ rows \in [Dispatches -> SUBSET (1..MaxAttempts)]
  /\ message \in [Dispatches -> {"none", "draft", "sent", "failed"}]
  /\ verdict \in [Dispatches -> {"none", "DELIVERED", "FAILED"}]
  /\ pc \in [Workers -> {"idle", "claim", "begin", "send", "record"}]
  /\ batch \in [Workers -> SUBSET Dispatches]
  /\ seen \in [Workers -> [Dispatches -> 0..MaxAttempts]]
  /\ cur \in [Workers -> Dispatches \cup {NoDispatch}]
  /\ answer \in [Workers -> {"none", "accepted", "transient", "permanent"}]
  /\ sent \in [Dispatches -> Nat]
  /\ lost \in [Dispatches -> Nat]
  /\ retries \in 0..MaxRetries
  /\ faults \in 0..MaxFaults

\* The inductive invariant.
DispatchInv ==
  /\ Types
  /\ Numbered
  /\ InHand
  /\ Sending
  /\ Waiting
  /\ Table
  /\ Reported
  /\ Counted
  /\ QueuedHasAttempts
  /\ MessageAgrees
  /\ StrandedHasCause
-----------------------------------------------------------------------------
(* The numbers of attempts.                                                *)

\* An interval from 1 determines its upper end.
LEMMA TopOfInterval ==
  ASSUME NEW k \in 0..MaxAttempts
  PROVE  TopOf(1..k) = k
<1>1. \A j \in 0..MaxAttempts : 1..k = 1..j => j = k
  BY DispatchAssumption
<1>2. \E j \in 0..MaxAttempts : 1..k = 1..j
  OBVIOUS
<1> QED
  BY <1>1, <1>2 DEF TopOf

\* Steps that make no attempt row leave the numbers alone.
LEMMA TopKept == rows' = rows => top' = top
  BY DEF top

\* A new dispatch has no attempts.
LEMMA EnqueueKeeps ==
  ASSUME DispatchInv, NEW d \in Dispatches, Enqueue(d)
  PROVE  DispatchInv'
<1>1. top' = top
  BY TopKept DEF Enqueue
<1>2. Types'
  BY DispatchAssumption DEF DispatchInv, Types, Enqueue, memory, observed, Statuses
<1>3. Numbered'
  BY <1>1 DEF DispatchInv, Numbered, Enqueue
<1>4. InHand'
  BY DEF DispatchInv, Types, InHand, Enqueue, memory
<1>5. Sending'
  BY <1>1 DEF DispatchInv, Types, Sending, Open, Enqueue, memory, Queued
<1>6. Waiting'
  BY <1>1 DEF DispatchInv, Types, Waiting, Table, Open, Enqueue, memory, Queued, Settled
<1>7. Table'
  BY <1>1 DEF DispatchInv, Types, Table, Enqueue, Queued, Settled
<1>8. Reported'
  BY DEF DispatchInv, Types, Reported, Enqueue
<1>9. Counted'
  BY <1>1 DEF DispatchInv, Types, Counted, Held, Enqueue, memory, observed
<1>10. attempts[d] = 0 /\ rows[d] = {}
  <2>1. top[d] = 0 /\ attempts[d] <= top[d]
    BY DEF DispatchInv, Table, Enqueue
  <2>2. attempts[d] \in Nat /\ rows[d] = 1..top[d]
    BY DispatchAssumption DEF DispatchInv, Types, Numbered
  <2> QED
    BY <2>1, <2>2
<1>13. QueuedHasAttempts'
  BY <1>10, DispatchAssumption DEF DispatchInv, Types, QueuedHasAttempts, Enqueue, Queued
<1>11. MessageAgrees'
  BY DEF DispatchInv, Types, MessageAgrees, Enqueue
<1>12. StrandedHasCause'
  BY <1>10 DEF DispatchInv, Types, StrandedHasCause, Stranded, InFlight, Enqueue, 
                memory, observed, Queued
<1> QED
  BY <1>2, <1>3, <1>4, <1>5, <1>6, <1>7, <1>8, <1>9, <1>11, <1>12, <1>13 DEF DispatchInv

\* Nobody is sending what has failed.
LEMMA RetryKeeps ==
  ASSUME DispatchInv, NEW d \in Dispatches, RetryDispatch(d)
  PROVE  DispatchInv'
<1>1. top' = top
  BY TopKept DEF RetryDispatch
<1>2. Types'
  BY DispatchAssumption
     DEF DispatchInv, Types, RetryDispatch, AttemptsOnRetry, outcome, memory, observed,
         Statuses
<1>3. Numbered'
  BY <1>1 DEF DispatchInv, Numbered, RetryDispatch
<1>4. InHand'
  BY DEF DispatchInv, Types, InHand, RetryDispatch, memory
<1>5. Sending'
  BY <1>1
     DEF DispatchInv, Types, Sending, Open, RetryDispatch, AttemptsOnRetry, memory, Queued
<1>6. Waiting'
  BY <1>1
     DEF DispatchInv, Types, Waiting, Table, Open, RetryDispatch, AttemptsOnRetry, memory,
         Queued, Settled
<1>7. Table'
  BY <1>1
     DEF DispatchInv, Types, Numbered, Table, RetryDispatch, AttemptsOnRetry, Queued,
         Settled
<1>8. Reported'
  BY DEF DispatchInv, Types, Reported, RetryDispatch, outcome
<1>9. Counted'
  BY <1>1 DEF DispatchInv, Types, Counted, Held, RetryDispatch, memory, observed
<1>10. QueuedHasAttempts'
  BY DispatchAssumption
     DEF DispatchInv, Types, QueuedHasAttempts, RetryDispatch, AttemptsOnRetry, Queued
<1>11. MessageAgrees'
  BY DEF DispatchInv, Types, MessageAgrees, RetryDispatch, outcome
<1>12. StrandedHasCause'
  BY DEF DispatchInv, Types, StrandedHasCause, Stranded, InFlight, Table, Numbered,
         RetryDispatch, AttemptsOnRetry, memory, Queued
<1> QED
  BY <1>2, <1>3, <1>4, <1>5, <1>6, <1>7, <1>8, <1>9, <1>10, <1>11, <1>12 DEF DispatchInv

\* Recovery touches nobody's attempt, and gives nothing up.
LEMMA RecoverKeeps ==
  ASSUME DispatchInv, NEW w \in Workers, Recover(w)
  PROVE  DispatchInv'
<1>1. top' = top
  BY TopKept DEF Recover
<1>2. Types'
  BY DispatchAssumption DEF DispatchInv, Types, Recover, Stuck, outcome, observed, Statuses
<1>3. Numbered'
  BY <1>1 DEF DispatchInv, Numbered, Recover
<1>4. InHand'
  BY DEF DispatchInv, Types, InHand, Recover
<1>5. Sending'
  BY <1>1, DispatchAssumption
     DEF DispatchInv, Types, QueuedHasAttempts, Sending, Open, Recover, Stuck, outcome,
         observed, Statuses, Queued, Settled
<1>6. Waiting'
  BY <1>1, DispatchAssumption
     DEF DispatchInv, Types, QueuedHasAttempts, Waiting, Sending, Table, Open, Recover,
         Stuck, outcome, observed, Statuses, Queued, Settled
<1>7. Table'
  BY <1>1, DispatchAssumption
     DEF DispatchInv, Types, QueuedHasAttempts, Table, Recover, Stuck, outcome, observed,
         Statuses, Queued, Settled
<1>8. Reported'
  BY DEF DispatchInv, Types, Reported, Recover, Stuck, outcome
<1>9. Counted'
  BY <1>1 DEF DispatchInv, Types, Counted, Held, Recover, observed
<1>10. QueuedHasAttempts'
  BY DispatchAssumption DEF DispatchInv, Types, QueuedHasAttempts, Recover, Stuck, Queued
<1>11. MessageAgrees'
  BY <1>1, DispatchAssumption
     DEF DispatchInv, Types, QueuedHasAttempts, MessageAgrees, Recover, Stuck, outcome,
         observed, Statuses, Queued, Settled
<1>12. StrandedHasCause'
  BY DEF DispatchInv, Types, StrandedHasCause, Stranded, InFlight, Table, Numbered,
         Recover, Stuck, Queued
<1> QED
  BY <1>2, <1>3, <1>4, <1>5, <1>6, <1>7, <1>8, <1>9, <1>10, <1>11, <1>12 DEF DispatchInv

\* A receipt finds a dispatch whose acceptance is on record.
LEMMA ReceiptKeeps ==
  ASSUME DispatchInv, NEW d \in Dispatches, Receipt(d)
  PROVE  DispatchInv'
<1>1. top' = top
  BY TopKept DEF Receipt
<1>2. Types'
  BY DispatchAssumption DEF DispatchInv, Types, Receipt, memory, observed, Statuses
<1>3. Numbered'
  BY <1>1 DEF DispatchInv, Numbered, Receipt
<1>4. InHand'
  BY DEF DispatchInv, Types, InHand, Receipt, memory
<1>5. Sending'
  BY <1>1 DEF DispatchInv, Types, Sending, Open, Receipt, memory, Queued
<1>6. Waiting'
  BY <1>1 DEF DispatchInv, Types, Waiting, Table, Open, Receipt, memory, Queued, Settled
<1>7. Table'
  BY <1>1 DEF DispatchInv, Types, Table, Receipt, Queued, Settled
<1>8. Reported'
  BY DEF DispatchInv, Types, Reported, Receipt
<1>9. Counted'
  BY <1>1 DEF DispatchInv, Types, Counted, Held, Receipt, memory, observed
<1>10. QueuedHasAttempts'
  BY DispatchAssumption DEF DispatchInv, Types, QueuedHasAttempts, Receipt, Queued
<1>11. MessageAgrees'
  BY DEF DispatchInv, Types, Reported, MessageAgrees, Receipt
<1>12. StrandedHasCause'
  BY DEF DispatchInv, Types, StrandedHasCause, Stranded, InFlight, Table, Numbered,
         Receipt, memory, Queued
<1> QED
  BY <1>2, <1>3, <1>4, <1>5, <1>6, <1>7, <1>8, <1>9, <1>10, <1>11, <1>12 DEF DispatchInv

\* Nothing of the invariant is about leases.
LEMMA LeaseExpiresKeeps ==
  ASSUME DispatchInv, NEW d \in Dispatches, LeaseExpires(d)
  PROVE  DispatchInv'
<1>1. top' = top
  BY TopKept DEF LeaseExpires
<1>2. Types'
  BY DispatchAssumption
     DEF DispatchInv, Types, LeaseExpires, outcome, memory, observed, Statuses
<1>3. Numbered'
  BY <1>1 DEF DispatchInv, Numbered, LeaseExpires
<1>4. InHand'
  BY DEF DispatchInv, Types, InHand, LeaseExpires, memory
<1>5. Sending'
  BY <1>1 DEF DispatchInv, Types, Sending, Open, LeaseExpires, memory, Queued
<1>6. Waiting'
  BY <1>1
     DEF DispatchInv, Types, Waiting, Table, Open, LeaseExpires, memory, Queued, Settled
<1>7. Table'
  BY <1>1 DEF DispatchInv, Types, Table, LeaseExpires, Queued, Settled
<1>8. Reported'
  BY DEF DispatchInv, Types, Reported, LeaseExpires, outcome
<1>9. Counted'
  BY <1>1 DEF DispatchInv, Types, Counted, Held, LeaseExpires, memory, observed
<1>10. QueuedHasAttempts'
  BY DispatchAssumption DEF DispatchInv, Types, QueuedHasAttempts, LeaseExpires, Queued
<1>11. MessageAgrees'
  BY DEF DispatchInv, Types, MessageAgrees, LeaseExpires, outcome
<1>12. StrandedHasCause'
  BY DEF DispatchInv, Types, StrandedHasCause, Stranded, InFlight, Table, Numbered,
         LeaseExpires, memory, Queued
<1> QED
  BY <1>2, <1>3, <1>4, <1>5, <1>6, <1>7, <1>8, <1>9, <1>10, <1>11, <1>12 DEF DispatchInv

\* Nor about when a dispatch is due.
LEMMA BecomesDueKeeps ==
  ASSUME DispatchInv, NEW d \in Dispatches, BecomesDue(d)
  PROVE  DispatchInv'
<1>1. top' = top
  BY TopKept DEF BecomesDue
<1>2. Types'
  BY DispatchAssumption
     DEF DispatchInv, Types, BecomesDue, outcome, memory, observed, Statuses
<1>3. Numbered'
  BY <1>1 DEF DispatchInv, Numbered, BecomesDue
<1>4. InHand'
  BY DEF DispatchInv, Types, InHand, BecomesDue, memory
<1>5. Sending'
  BY <1>1 DEF DispatchInv, Types, Sending, Open, BecomesDue, memory, Queued
<1>6. Waiting'
  BY <1>1 DEF DispatchInv, Types, Waiting, Table, Open, BecomesDue, memory, Queued, Settled
<1>7. Table'
  BY <1>1 DEF DispatchInv, Types, Table, BecomesDue, Queued, Settled
<1>8. Reported'
  BY DEF DispatchInv, Types, Reported, BecomesDue, outcome
<1>9. Counted'
  BY <1>1 DEF DispatchInv, Types, Counted, Held, BecomesDue, memory, observed
<1>10. QueuedHasAttempts'
  BY DispatchAssumption DEF DispatchInv, Types, QueuedHasAttempts, BecomesDue, Queued
<1>11. MessageAgrees'
  BY DEF DispatchInv, Types, MessageAgrees, BecomesDue, outcome
<1>12. StrandedHasCause'
  BY DEF DispatchInv, Types, StrandedHasCause, Stranded, InFlight, Table, Numbered,
         BecomesDue, memory, Queued
<1> QED
  BY <1>2, <1>3, <1>4, <1>5, <1>6, <1>7, <1>8, <1>9, <1>10, <1>11, <1>12 DEF DispatchInv

\* What a worker that is sending knows of its dispatch.
LEMMA SenderFacts ==
  ASSUME DispatchInv, NEW w \in Workers, pc[w] \in {"send", "record"}
  PROVE  /\ cur[w] \in Dispatches
         /\ attempts[cur[w]] \in Nat
         /\ top[cur[w]] = attempts[cur[w]] + 1
         /\ seen[w][cur[w]] = attempts[cur[w]]
         /\ top[cur[w]] <= MaxAttempts
         /\ status[cur[w]] \in {"PROCESSING", "RETRY"}
         /\ ~known[cur[w]]
         /\ \A u \in Workers : cur[u] = cur[w] => u = w
         /\ Held(cur[w]) <=> answer[w] = "accepted"
<1>1. cur[w] \in Dispatches
  BY DEF DispatchInv, Types, InHand
<1>2. /\ top[cur[w]] = attempts[cur[w]] + 1
      /\ seen[w][cur[w]] = attempts[cur[w]]
      /\ Open(cur[w])
      /\ \A u \in Workers : cur[u] = cur[w] => u = w
  BY <1>1 DEF DispatchInv, Sending
<1>3. attempts[cur[w]] \in Nat /\ top[cur[w]] <= MaxAttempts
  BY <1>1, DispatchAssumption DEF DispatchInv, Types, Numbered
<1> QED
  BY <1>1, <1>2, <1>3 DEF Open, Held

\* Claimed dispatches are open, or their numbers are taken.
LEMMA ClaimKeeps ==
  ASSUME DispatchInv, NEW w \in Workers, Claim(w)
  PROVE  DispatchInv'
<1>1. top' = top
  BY TopKept DEF Claim
<1>2. PICK S \in SUBSET Candidates :
        /\ status' = [d \in Dispatches |-> IF d \in S THEN "PROCESSING" ELSE status[d]]
        /\ lease' = [d \in Dispatches |-> IF d \in S THEN "live" ELSE lease[d]]
        /\ batch' = [batch EXCEPT ![w] = S]
        /\ seen' = [seen EXCEPT ![w] =
                      [d \in Dispatches |-> IF d \in S THEN attempts[d] ELSE 0]]
        /\ pc' = [pc EXCEPT ![w] = IF S = {} THEN "idle" ELSE "begin"]
  BY DEF Claim
<1>3. /\ S \subseteq Dispatches
      /\ \A d \in S : status[d] \in {"PENDING", "RETRY"}
      /\ pc[w] = "claim" /\ cur[w] = NoDispatch
      /\ UNCHANGED <<attempts, due, known, rows, message, verdict, cur, answer,
                     sent, lost, retries, faults>>
  BY DEF Claim, Candidates, DispatchInv, InHand, outcome, observed
<1>4. Types'
  BY <1>2, <1>3, DispatchAssumption DEF DispatchInv, Types, Statuses
<1>5. Numbered'
  BY <1>1, <1>3 DEF DispatchInv, Numbered
<1>6. InHand'
  BY <1>2, <1>3 DEF DispatchInv, Types, InHand
<1>7. Sending'
  BY <1>1, <1>2, <1>3, DispatchAssumption DEF DispatchInv, Types, Sending, Open
<1>8. Waiting'
  <2> SUFFICES ASSUME NEW u \in Workers, NEW d \in batch'[u]
               PROVE  \/ seen'[u][d] < top[d]
                      \/ seen'[u][d] = attempts[d] /\ top[d] = attempts[d] /\ Open(d)'
    BY <1>1, <1>3 DEF Waiting
  <2>1. CASE u = w
    <3>1. d \in S /\ d \in Dispatches /\ seen'[u][d] = attempts[d] /\ status'[d] = "PROCESSING"
      BY <1>2, <1>3, <2>1 DEF DispatchInv, Types
    <3>2. attempts[d] <= top[d] /\ attempts[d] \in Nat /\ top[d] \in Nat
      BY <3>1, DispatchAssumption DEF DispatchInv, Types, Table, Numbered
    <3>3. known[d] => attempts[d] = 0 /\ top[d] > 0
      BY <1>3, <3>1 DEF DispatchInv, Table, Queued, Settled
    <3> QED
      BY <1>3, <3>1, <3>2, <3>3 DEF Open
  <2>2. CASE u # w
    <3>1. d \in batch[u] /\ d \in Dispatches /\ seen'[u][d] = seen[u][d]
      BY <1>2, <2>2 DEF DispatchInv, Types
    <3> QED
      BY <1>2, <1>3, <3>1 DEF DispatchInv, Types, Waiting, Open
  <2> QED
    BY <2>1, <2>2
<1>9. Table'
  BY <1>1, <1>2, <1>3 DEF DispatchInv, Types, Table, Queued, Settled
<1>10. Reported'
  BY <1>2, <1>3 DEF DispatchInv, Types, Reported
<1>11. Counted'
  BY <1>1, <1>2, <1>3 DEF DispatchInv, Types, Counted, Held
<1>12. QueuedHasAttempts'
  BY <1>2, <1>3 DEF DispatchInv, Types, QueuedHasAttempts, Queued
<1>13. MessageAgrees'
  BY <1>2, <1>3 DEF DispatchInv, Types, MessageAgrees
<1>14. StrandedHasCause'
  BY <1>2, <1>3 DEF DispatchInv, Types, StrandedHasCause, Stranded, InFlight, Queued
<1> QED
  BY <1>4, <1>5, <1>6, <1>7, <1>8, <1>9, <1>10, <1>11, <1>12, <1>13, <1>14 DEF DispatchInv

\* A free number is the next one, of a dispatch that nobody is sending.
LEMMA BeginFreeKeeps ==
  ASSUME DispatchInv, NEW w \in Workers, pc[w] = "begin",
         NEW d \in batch[w], NumberFree(w, d),
         rows' = [rows EXCEPT ![d] = @ \cup {Number(w, d)}],
         batch' = [batch EXCEPT ![w] = @ \ {d}],
         cur' = [cur EXCEPT ![w] = d],
         pc' = [pc EXCEPT ![w] = "send"],
         UNCHANGED <<seen, answer, status, attempts, lease, due, known, message, verdict,
                     sent, lost, retries, faults>>
  PROVE  DispatchInv'
<1>1. d \in Dispatches /\ cur[w] = NoDispatch /\ answer[w] = "none"
  BY DEF DispatchInv, Types, InHand
<1>2. seen[w][d] = attempts[d] /\ top[d] = attempts[d] /\ Open(d)
  <2>1. seen[w][d] \in Nat /\ top[d] \in Nat /\ rows[d] = 1..top[d]
    BY <1>1, DispatchAssumption DEF DispatchInv, Types, Numbered
  <2>2. ~(seen[w][d] < top[d])
    BY <2>1 DEF NumberFree, Number
  <2> QED
    BY <2>2 DEF DispatchInv, Waiting
<1>3. attempts[d] \in Nat /\ top[d] + 1 \in 0..MaxAttempts
  BY <1>1, <1>2, DispatchAssumption
     DEF DispatchInv, Types, QueuedHasAttempts, Open, Queued
<1>4. rows'[d] = 1..(top[d] + 1) /\ \A e \in Dispatches : e # d => rows'[e] = rows[e]
  <2>1. rows[d] = 1..top[d]
    BY <1>1 DEF DispatchInv, Numbered
  <2>2. rows'[d] = 1..top[d] \cup {top[d] + 1}
    BY <1>1, <1>2, <2>1 DEF DispatchInv, Types, Number
  <2>3. 1..top[d] \cup {top[d] + 1} = 1..(top[d] + 1)
    BY <1>2, <1>3
  <2> QED
    BY <2>2, <2>3 DEF DispatchInv, Types
<1>5. top'[d] = top[d] + 1 /\ \A e \in Dispatches : e # d => top'[e] = top[e]
  BY <1>1, <1>3, <1>4, TopOfInterval DEF top
<1>6. \A u \in Workers : cur[u] # d
  BY <1>1, <1>2, <1>3 DEF DispatchInv, Sending
<1>7. Types'
  <2>1. top[d] + 1 \in 1..MaxAttempts /\ Number(w, d) = top[d] + 1
    BY <1>2, <1>3 DEF Number
  <2> QED
    BY <1>1, <2>1 DEF DispatchInv, Types
<1>8. Numbered'
  BY <1>3, <1>4, <1>5 DEF DispatchInv, Numbered
<1>9. InHand'
  BY <1>1, DispatchAssumption DEF DispatchInv, Types, InHand
<1>10. Sending'
  BY <1>1, <1>2, <1>5, <1>6, DispatchAssumption DEF DispatchInv, Types, Sending, Open
<1>11. Waiting'
  BY <1>1, <1>2, <1>3, <1>5, DispatchAssumption DEF DispatchInv, Types, Waiting, Open, Numbered
<1>12. Table'
  BY <1>1, <1>2, <1>3, <1>5 DEF DispatchInv, Table, Open, Settled, Queued
<1>13. Reported'
  BY DEF DispatchInv, Reported
<1>14. Counted'
  <2>1. \A e \in Dispatches : Held(e)' <=> Held(e)
    BY <1>1, <1>6, DispatchAssumption DEF DispatchInv, Types, Held
  <2>2. ASSUME NEW e \in Dispatches
        PROVE  /\ sent[e] <= top'[e]
               /\ \A u \in Workers : cur'[u] = e /\ pc'[u] = "send" => sent[e] < top'[e]
    <3>1. sent[e] \in Nat /\ top[e] \in Nat /\ sent[e] <= top[e]
      BY DispatchAssumption DEF DispatchInv, Counted, Numbered
    <3>2. CASE e = d
      BY <1>5, <3>1, <3>2
    <3>3. CASE e # d
      BY <1>1, <1>5, <3>1, <3>3 DEF DispatchInv, Types, Counted
    <3> QED
      BY <3>2, <3>3
  <2> QED
    BY <2>1, <2>2 DEF DispatchInv, Counted
<1>15. QueuedHasAttempts' /\ MessageAgrees'
  BY DEF DispatchInv, QueuedHasAttempts, MessageAgrees
<1>16. StrandedHasCause'
  BY <1>1, <1>4, DispatchAssumption
     DEF DispatchInv, Types, StrandedHasCause, Stranded, InFlight
<1> QED
  BY <1>7, <1>8, <1>9, <1>10, <1>11, <1>12, <1>13, <1>14, <1>15, <1>16 DEF DispatchInv

\* A worker that is not sending loses nothing but its batch.
LEMMA DropKeeps ==
  ASSUME DispatchInv, NEW w \in Workers, cur[w] = NoDispatch, Drop(w),
         UNCHANGED <<queue, outcome, observed, retries>>,
         faults' = faults \/ (faults < MaxFaults /\ faults' = faults + 1)
  PROVE  DispatchInv'
<1>1. top' = top
  BY TopKept DEF queue
<1>2. /\ pc' = [pc EXCEPT ![w] = "idle"]
      /\ batch' = [batch EXCEPT ![w] = {}]
      /\ seen' = [seen EXCEPT ![w] = [d \in Dispatches |-> 0]]
      /\ cur' = cur
      /\ answer' = [answer EXCEPT ![w] = "none"]
      /\ UNCHANGED <<status, attempts, lease, due, known, rows, message, verdict,
                     sent, lost, retries>>
  BY DEF Drop, queue, outcome, observed, DispatchInv, Types
<1>3. faults' \in 0..MaxFaults /\ faults' >= faults
  BY DispatchAssumption DEF DispatchInv, Types
<1>4. Types'
  BY <1>2, <1>3, DispatchAssumption DEF DispatchInv, Types
<1>5. Numbered' /\ Table' /\ Reported' /\ QueuedHasAttempts' /\ MessageAgrees'
  BY <1>1, <1>2 DEF DispatchInv, Numbered, Table, Reported, QueuedHasAttempts, MessageAgrees
<1>6. InHand'
  BY <1>2 DEF DispatchInv, Types, InHand
<1>7. Sending'
  BY <1>1, <1>2, DispatchAssumption DEF DispatchInv, Types, Sending, Open
<1>8. Waiting'
  BY <1>1, <1>2 DEF DispatchInv, Types, Waiting, Open
<1>9. Counted'
  BY <1>1, <1>2, DispatchAssumption DEF DispatchInv, Types, Counted, Held
<1>10. StrandedHasCause'
  BY <1>2, <1>3, DispatchAssumption
     DEF DispatchInv, Types, StrandedHasCause, Stranded, InFlight
<1> QED
  BY <1>4, <1>5, <1>6, <1>7, <1>8, <1>9, <1>10 DEF DispatchInv

\* Either way.
LEMMA BeginKeeps ==
  ASSUME DispatchInv, NEW w \in Workers, Begin(w)
  PROVE  DispatchInv'
<1>1. PICK d \in batch[w] :
        IF NumberFree(w, d)
        THEN /\ rows' = [rows EXCEPT ![d] = @ \cup {Number(w, d)}]
             /\ batch' = [batch EXCEPT ![w] = @ \ {d}]
             /\ cur' = [cur EXCEPT ![w] = d]
             /\ pc' = [pc EXCEPT ![w] = "send"]
             /\ UNCHANGED <<seen, answer>>
        ELSE Drop(w) /\ UNCHANGED rows
  BY DEF Begin
<1>2. /\ pc[w] = "begin"
      /\ UNCHANGED <<status, attempts, lease, due, known, outcome, observed, retries, faults>>
  BY DEF Begin
<1>3. CASE NumberFree(w, d)
  BY <1>1, <1>2, <1>3, BeginFreeKeeps DEF outcome, observed
<1>4. CASE ~NumberFree(w, d)
  <2>1. cur[w] = NoDispatch
    BY <1>2 DEF DispatchInv, InHand
  <2> QED
    BY <1>1, <1>2, <1>4, <2>1, DropKeeps DEF queue
<1> QED
  BY <1>3, <1>4

\* The provider accepts once per row.
LEMMA SendKeeps ==
  ASSUME DispatchInv, NEW w \in Workers, Send(w)
  PROVE  DispatchInv'
<1> DEFINE c == cur[w]
<1>1. top' = top
  BY TopKept DEF Send, queue
<1>2. /\ pc[w] = "send" /\ answer[w] = "none"
      /\ pc' = [pc EXCEPT ![w] = "record"]
      /\ answer' \in [Workers -> {"none", "accepted", "transient", "permanent"}]
      /\ \A u \in Workers : u # w => answer'[u] = answer[u]
      /\ faults' \in 0..MaxFaults /\ (faults > 0 => faults' > 0)
      /\ UNCHANGED <<status, attempts, lease, due, known, rows, message, verdict,
                     batch, seen, cur, retries>>
  <2>1. pc[w] = "send" /\ pc' = [pc EXCEPT ![w] = "record"]
        /\ UNCHANGED <<status, attempts, lease, due, known, rows, message, verdict,
                       batch, seen, cur, retries>>
    BY DEF Send, queue, outcome
  <2>2. answer[w] = "none"
    BY <2>1 DEF DispatchInv, InHand
  <2>3. \E e \in {"accepted", "transient", "permanent"} : answer' = [answer EXCEPT ![w] = e]
    BY DEF Send
  <2>4. faults' \in 0..MaxFaults /\ (faults > 0 => faults' > 0)
    BY DispatchAssumption DEF Send, DispatchInv, Types
  <2> QED
    BY <2>1, <2>2, <2>3, <2>4 DEF DispatchInv, Types
<1>3. /\ c \in Dispatches
      /\ \A u \in Workers : cur[u] = c => u = w
      /\ ~known[c]
      /\ ~Held(c)
  BY <1>2, SenderFacts
<1>4. /\ sent \in [Dispatches -> Nat] /\ lost \in [Dispatches -> Nat]
      /\ sent[c] = lost[c]
      /\ sent[c] < top[c] /\ top[c] \in Nat
  BY <1>2, <1>3, DispatchAssumption DEF DispatchInv, Types, Counted, Numbered
<1>5. /\ sent' \in [Dispatches -> Nat] /\ lost' \in [Dispatches -> Nat]
      /\ sent'[c] <= top[c]
      /\ sent'[c] = IF answer'[w] = "accepted" THEN lost'[c] + 1 ELSE lost'[c]
      /\ \A e \in Dispatches : e # c => sent'[e] = sent[e] /\ lost'[e] = lost[e]
  <2>1. CASE answer' = [answer EXCEPT ![w] = "accepted"] /\ Accepts(c) /\ UNCHANGED lost
    BY <1>3, <1>4, <2>1 DEF Accepts, DispatchInv, Types
  <2>2. CASE /\ \E e \in {"transient", "permanent"} : answer' = [answer EXCEPT ![w] = e]
             /\ UNCHANGED observed
    <3>1. answer'[w] # "accepted" /\ sent' = sent /\ lost' = lost
      BY <2>2 DEF observed, DispatchInv, Types
    <3> QED
      BY <1>3, <1>4, <3>1
  <2>3. CASE answer' = [answer EXCEPT ![w] = "transient"] /\ Accepts(c) /\ Loses(c)
    BY <1>3, <1>4, <2>3 DEF Accepts, Loses, DispatchInv, Types
  <2> QED
    BY <2>1, <2>2, <2>3 DEF Send
<1>6. Types'
  BY <1>2, <1>5 DEF DispatchInv, Types
<1>7. Numbered' /\ Table' /\ Reported' /\ QueuedHasAttempts' /\ MessageAgrees'
  BY <1>1, <1>2 DEF DispatchInv, Numbered, Table, Reported, QueuedHasAttempts, MessageAgrees
<1>8. InHand'
  BY <1>2 DEF DispatchInv, Types, InHand
<1>9. Sending' /\ Waiting'
  BY <1>1, <1>2 DEF DispatchInv, Sending, Waiting, Open
<1>10. Counted'
  <2> SUFFICES ASSUME NEW e \in Dispatches
               PROVE  /\ sent'[e] \in Nat /\ lost'[e] \in Nat
                      /\ sent'[e] = IF Held(e)' THEN lost'[e] + 1 ELSE lost'[e]
                      /\ sent'[e] <= top[e]
                      /\ \A u \in Workers : cur'[u] = e /\ pc'[u] = "send" => sent'[e] < top[e]
    BY <1>1 DEF Counted
  <2>1. CASE e = c
    <3>1. Held(e)' <=> answer'[w] = "accepted"
      BY <1>2, <1>3, <2>1 DEF Held
    <3>2. \A u \in Workers : cur'[u] = e => pc'[u] = "record"
      BY <1>2, <1>3, <2>1 DEF DispatchInv, Types
    <3> QED
      BY <1>3, <1>5, <2>1, <3>1, <3>2
  <2>2. CASE e # c
    <3>1. Held(e)' <=> Held(e)
      BY <1>2, <2>2 DEF Held
    <3>2. \A u \in Workers : cur'[u] = e => cur[u] = e /\ pc'[u] = pc[u]
      BY <1>2, <2>2 DEF DispatchInv, Types
    <3> QED
      BY <1>5, <2>2, <3>1, <3>2 DEF DispatchInv, Counted
  <2> QED
    BY <2>1, <2>2
<1>11. StrandedHasCause'
  BY <1>2, DispatchAssumption
     DEF DispatchInv, Types, StrandedHasCause, Stranded, InFlight
<1> QED
  BY <1>6, <1>7, <1>8, <1>9, <1>10, <1>11 DEF DispatchInv

\* How a worker comes to the end of an attempt, recorded or not.
Ends(w) ==
  /\ pc' \in [Workers -> {"idle", "claim", "begin", "send", "record"}]
  /\ pc'[w] \in {"idle", "begin"}
  /\ \A u \in Workers : u # w => pc'[u] = pc[u]
  /\ cur' = [cur EXCEPT ![w] = NoDispatch]
  /\ answer' = [answer EXCEPT ![w] = "none"]
  /\ batch' \in [Workers -> SUBSET Dispatches]
  /\ \A u \in Workers : batch'[u] \subseteq batch[u]
  /\ seen' \in [Workers -> [Dispatches -> 0..MaxAttempts]]
  /\ \A u \in Workers : u # w => seen'[u] = seen[u]
  /\ \A d \in batch'[w] : seen'[w][d] = IF d = cur[w] THEN 0 ELSE seen[w][d]
  /\ rows' = rows

\* What the end of an attempt does to workers, whatever it does to the
\* dispatch's row.
LEMMA EndsKeeps ==
  ASSUME DispatchInv, NEW w \in Workers, pc[w] \in {"send", "record"}, Ends(w),
         \A e \in Dispatches : e # cur[w] =>
           status'[e] = status[e] /\ attempts'[e] = attempts[e] /\ known'[e] = known[e]
  PROVE  /\ top' = top
         /\ Numbered' /\ InHand' /\ Sending' /\ Waiting'
         /\ \A e \in Dispatches : Held(e)' <=> IF e = cur[w] THEN known'[e] ELSE Held(e)
         /\ \A u \in Workers, e \in Dispatches :
              cur'[u] = e => e # cur[w] /\ cur[u] = e /\ pc'[u] = pc[u]
<1> DEFINE c == cur[w]
<1>1. top' = top
  BY TopKept DEF Ends
<1>2. /\ c \in Dispatches /\ attempts[c] \in Nat /\ top[c] = attempts[c] + 1
      /\ \A u \in Workers : cur[u] = c => u = w
  BY SenderFacts
<1>3. \A u \in Workers, e \in Dispatches :
        cur'[u] = e => e # c /\ u # w /\ cur[u] = e /\ pc'[u] = pc[u]
  BY <1>2, DispatchAssumption DEF Ends, DispatchInv, Types
<1>4. Numbered'
  BY <1>1 DEF DispatchInv, Numbered, Ends
<1>5. InHand'
  BY DEF DispatchInv, Types, InHand, Ends
<1>6. Sending'
  <2> SUFFICES ASSUME NEW u \in Workers, NEW e \in Dispatches, cur'[u] = e
               PROVE  /\ top[e] = attempts'[e] + 1
                      /\ seen'[u][e] = attempts'[e]
                      /\ Open(e)'
                      /\ \A v \in Workers : cur'[v] = e => v = u
    BY <1>1 DEF Sending
  <2>1. e # c /\ u # w /\ cur[u] = e
    BY <1>3
  <2>2. \A v \in Workers : cur'[v] = e => cur[v] = e
    BY <1>3
  <2> QED
    BY <2>1, <2>2 DEF DispatchInv, Sending, Open, Ends
<1>7. Waiting'
  <2> SUFFICES ASSUME NEW u \in Workers, NEW d \in batch'[u]
               PROVE  \/ seen'[u][d] < top[d]
                      \/ seen'[u][d] = attempts'[d] /\ top[d] = attempts'[d] /\ Open(d)'
    BY <1>1 DEF Waiting
  <2>1. d \in batch[u] /\ d \in Dispatches
    BY DEF Ends, DispatchInv, Types
  <2>2. \/ seen[u][d] < top[d]
        \/ seen[u][d] = attempts[d] /\ top[d] = attempts[d] /\ Open(d)
    BY <2>1 DEF DispatchInv, Waiting
  <2>3. CASE d = c
    <3>1. seen[u][d] < top[d]
      BY <1>2, <2>2, <2>3
    <3>2. seen'[u][d] = IF u = w THEN 0 ELSE seen[u][d]
      BY <2>3 DEF Ends
    <3> QED
      BY <1>2, <2>3, <3>1, <3>2
  <2>4. CASE d # c
    <3>1. seen'[u][d] = seen[u][d]
      BY <2>1, <2>4 DEF Ends
    <3> QED
      BY <2>1, <2>2, <2>4, <3>1 DEF Open
  <2> QED
    BY <2>3, <2>4
<1>8. ASSUME NEW e \in Dispatches
      PROVE  Held(e)' <=> IF e = c THEN known'[e] ELSE Held(e)
  <2>1. CASE e = c
    BY <1>3, <2>1 DEF Held
  <2>2. CASE e # c
    <3>1. \A u \in Workers : cur'[u] = e <=> cur[u] = e
      BY <2>2, DispatchAssumption DEF Ends, DispatchInv, Types
    <3>2. \A u \in Workers : cur[u] = e => answer'[u] = answer[u]
      BY <2>2 DEF Ends, DispatchInv, Types
    <3> QED
      BY <2>2, <3>1, <3>2 DEF Held
  <2> QED
    BY <2>1, <2>2
<1> QED
  BY <1>1, <1>3, <1>4, <1>5, <1>6, <1>7, <1>8

\* Both ways on end an attempt so.
LEMMA DropEnds ==
  ASSUME DispatchInv, NEW w \in Workers, pc[w] \in {"send", "record"}, Drop(w), rows' = rows
  PROVE  Ends(w)
BY SenderFacts, DispatchAssumption DEF DispatchInv, Types, Drop, Ends

LEMMA NextInBatchEnds ==
  ASSUME DispatchInv, NEW w \in Workers, pc[w] \in {"send", "record"}, NextInBatch(w),
         rows' = rows
  PROVE  Ends(w)
BY SenderFacts, DispatchAssumption DEF DispatchInv, Types, NextInBatch, Ends

\* Counts stay right at the end of an attempt if those of its dispatch do.
LEMMA EndsCounted ==
  ASSUME DispatchInv, NEW w \in Workers, pc[w] \in {"send", "record"}, Ends(w),
         \A e \in Dispatches : e # cur[w] =>
           /\ status'[e] = status[e] /\ attempts'[e] = attempts[e] /\ known'[e] = known[e]
           /\ sent'[e] = sent[e] /\ lost'[e] = lost[e],
         sent'[cur[w]] \in Nat, lost'[cur[w]] \in Nat,
         sent'[cur[w]] = IF known'[cur[w]] THEN lost'[cur[w]] + 1 ELSE lost'[cur[w]],
         sent'[cur[w]] <= top[cur[w]]
  PROVE  Counted'
<1> DEFINE c == cur[w]
<1>1. /\ top' = top
      /\ \A e \in Dispatches : Held(e)' <=> IF e = c THEN known'[e] ELSE Held(e)
      /\ \A u \in Workers, e \in Dispatches :
           cur'[u] = e => e # c /\ cur[u] = e /\ pc'[u] = pc[u]
  BY EndsKeeps
<1> SUFFICES ASSUME NEW e \in Dispatches
             PROVE  /\ sent'[e] \in Nat /\ lost'[e] \in Nat
                    /\ sent'[e] = IF Held(e)' THEN lost'[e] + 1 ELSE lost'[e]
                    /\ sent'[e] <= top[e]
                    /\ \A u \in Workers : cur'[u] = e /\ pc'[u] = "send" => sent'[e] < top[e]
  BY <1>1 DEF Counted
<1>2. CASE e = c
  BY <1>1, <1>2
<1>3. CASE e # c
  BY <1>1, <1>3 DEF DispatchInv, Counted
<1> QED
  BY <1>2, <1>3

\* What is known of a dispatch's counts before its attempt ends.
LEMMA CountsBefore ==
  ASSUME DispatchInv, NEW w \in Workers, pc[w] \in {"send", "record"}
  PROVE  /\ sent \in [Dispatches -> Nat] /\ lost \in [Dispatches -> Nat]
         /\ top[cur[w]] \in Nat
         /\ sent[cur[w]] = IF answer[w] = "accepted" THEN lost[cur[w]] + 1 ELSE lost[cur[w]]
         /\ sent[cur[w]] <= top[cur[w]]
         /\ pc[w] = "send" => sent[cur[w]] < top[cur[w]]
BY SenderFacts, DispatchAssumption DEF DispatchInv, Types, Numbered, Counted

\* An acceptance on record is final for workers.
LEMMA RecordAcceptedKeeps ==
  ASSUME DispatchInv, NEW w \in Workers, RecordAccepted(w)
  PROVE  DispatchInv'
<1> DEFINE c == cur[w]
<1>1. /\ pc[w] \in {"send", "record"} /\ answer[w] = "accepted"
      /\ status' = [status EXCEPT ![c] = "ACCEPTED"]
      /\ attempts' = [attempts EXCEPT ![c] = @ + 1]
      /\ lease' = [lease EXCEPT ![c] = "none"]
      /\ known' = [known EXCEPT ![c] = TRUE]
      /\ message' = [message EXCEPT ![c] = "sent"]
      /\ verdict' = [verdict EXCEPT ![c] = "none"]
      /\ NextInBatch(w)
      /\ UNCHANGED <<due, rows, sent, lost, retries, faults>>
  BY DEF RecordAccepted, observed
<1>2. /\ c \in Dispatches /\ attempts[c] \in Nat
      /\ top[c] = attempts[c] + 1 /\ top[c] <= MaxAttempts
  BY <1>1, SenderFacts
<1>3. Ends(w)
  BY <1>1, NextInBatchEnds
<1>4. \A e \in Dispatches : e # c =>
        status'[e] = status[e] /\ attempts'[e] = attempts[e] /\ known'[e] = known[e]
  BY <1>1 DEF DispatchInv, Types
<1>5. top' = top /\ Numbered' /\ InHand' /\ Sending' /\ Waiting'
  BY <1>1, <1>3, <1>4, EndsKeeps
<1>6. Types'
  <2>1. attempts[c] + 1 \in 0..MaxAttempts
    BY <1>2, DispatchAssumption
  <2> QED
    BY <1>1, <1>2, <1>3, <2>1 DEF DispatchInv, Types, Ends, Statuses
<1>7. Table' /\ Reported'
  BY <1>1, <1>2, <1>5 DEF DispatchInv, Types, Table, Reported, Settled, Queued
<1>8. Counted'
  BY <1>1, <1>2, <1>3, <1>4, CountsBefore, EndsCounted DEF DispatchInv, Types
<1>9. QueuedHasAttempts' /\ MessageAgrees'
  BY <1>1, <1>2 DEF DispatchInv, Types, QueuedHasAttempts, MessageAgrees, Queued
<1>10. StrandedHasCause'
  <2> SUFFICES ASSUME NEW e \in Dispatches, Stranded(e)', faults = 0, retries = 0
               PROVE  FALSE
    BY <1>1, DispatchAssumption DEF DispatchInv, Types, StrandedHasCause
  <2>1. e # c
    BY <1>1, <1>2 DEF Stranded, Queued, DispatchInv, Types
  <2>2. Stranded(e)
    BY <1>1, <1>3, <1>4, <2>1 DEF Stranded, InFlight, Ends, DispatchInv, Types
  <2> QED
    BY <2>2 DEF DispatchInv, StrandedHasCause
<1> QED
  BY <1>5, <1>6, <1>7, <1>8, <1>9, <1>10 DEF DispatchInv

\* After a failure the next attempt has a number of its own.
LEMMA RecordFailureKeeps ==
  ASSUME DispatchInv, NEW w \in Workers, RecordFailure(w)
  PROVE  DispatchInv'
<1> DEFINE c == cur[w]
<1>1. /\ pc[w] \in {"send", "record"}
      /\ status' = [status EXCEPT ![c] = IF GivesUp(w) THEN "DEAD" ELSE "RETRY"]
      /\ attempts' = [attempts EXCEPT ![c] = seen[w][c] + 1]
      /\ lease' = [lease EXCEPT ![c] = "none"]
      /\ due' = [due EXCEPT ![c] = FALSE]
      /\ message' = [message EXCEPT ![c] = IF GivesUp(w) THEN "failed" ELSE @]
      /\ NextInBatch(w)
      /\ UNCHANGED <<known, rows, verdict, sent, retries>>
  BY DEF RecordFailure, AttemptsOnFailure, Number
<1>2. /\ c \in Dispatches /\ attempts[c] \in Nat /\ seen[w][c] = attempts[c]
      /\ top[c] = attempts[c] + 1 /\ top[c] <= MaxAttempts
      /\ status[c] \in {"PROCESSING", "RETRY"} /\ ~known[c]
  BY <1>1, SenderFacts
<1>3. Ends(w)
  BY <1>1, NextInBatchEnds
<1>4. \A e \in Dispatches : e # c =>
        status'[e] = status[e] /\ attempts'[e] = attempts[e] /\ known'[e] = known[e]
  BY <1>1 DEF DispatchInv, Types
<1>5. top' = top /\ Numbered' /\ InHand' /\ Sending' /\ Waiting'
  BY <1>1, <1>3, <1>4, EndsKeeps
<1>6. /\ lost' \in [Dispatches -> Nat]
      /\ lost'[c] = IF answer[w] = "accepted" THEN lost[c] + 1 ELSE lost[c]
      /\ \A e \in Dispatches : e # c => lost'[e] = lost[e]
      /\ faults' \in 0..MaxFaults /\ (faults > 0 => faults' > 0)
  <2>1. CASE answer[w] = "accepted"
    BY <1>2, <2>1, DispatchAssumption DEF RecordFailure, Loses, DispatchInv, Types
  <2>2. CASE answer[w] # "accepted"
    BY <1>2, <2>2 DEF RecordFailure, DispatchInv, Types
  <2> QED
    BY <2>1, <2>2
<1>7. Types'
  <2>1. seen[w][c] + 1 \in 0..MaxAttempts
    BY <1>2, DispatchAssumption
  <2> QED
    BY <1>1, <1>2, <1>3, <1>6, <2>1 DEF DispatchInv, Types, Ends, Statuses
<1>8. Table' /\ Reported'
  BY <1>1, <1>2, <1>5 DEF DispatchInv, Types, Table, Reported, Settled, Queued
<1>9. Counted'
  <2>1. sent'[c] = sent[c] /\ ~known'[c] /\ sent[c] = lost'[c] /\ sent[c] <= top[c]
    BY <1>1, <1>2, <1>6, CountsBefore
  <2>2. \A e \in Dispatches : e # c => sent'[e] = sent[e] /\ lost'[e] = lost[e]
    BY <1>1, <1>6
  <2>3. sent'[c] \in Nat /\ lost'[c] \in Nat
    BY <1>1, <1>2, <1>6, CountsBefore
  <2> QED
    BY <1>1, <1>3, <1>4, <2>1, <2>2, <2>3, EndsCounted
<1>10. QueuedHasAttempts'
  BY <1>1, <1>2, DispatchAssumption
     DEF DispatchInv, Types, QueuedHasAttempts, Queued, GivesUp, Number
<1>11. MessageAgrees'
  BY <1>1, <1>2 DEF DispatchInv, Types, MessageAgrees
<1>12. StrandedHasCause'
  <2> SUFFICES ASSUME NEW e \in Dispatches, Stranded(e)', faults = 0, retries = 0
               PROVE  FALSE
    BY <1>1, <1>6, DispatchAssumption DEF DispatchInv, Types, StrandedHasCause
  <2>1. CASE e = c
    <3>1. attempts'[c] + 1 = top[c] + 1 /\ top[c] \in Nat /\ rows[c] = 1..top[c]
      BY <1>1, <1>2 DEF DispatchInv, Types, Numbered
    <3> QED
      BY <1>1, <2>1, <3>1 DEF Stranded
  <2>2. CASE e # c
    <3>1. Stranded(e)
      BY <1>1, <1>3, <1>4, <2>2 DEF Stranded, InFlight, Ends, DispatchInv, Types
    <3> QED
      BY <3>1 DEF DispatchInv, StrandedHasCause
  <2> QED
    BY <2>1, <2>2
<1> QED
  BY <1>5, <1>7, <1>8, <1>9, <1>10, <1>11, <1>12 DEF DispatchInv

\* A worker that dies leaves its row behind, and loses at most one acceptance.
LEMMA AbandonKeeps ==
  ASSUME DispatchInv, NEW w \in Workers, Abandon(w)
  PROVE  DispatchInv'
<1> DEFINE c == cur[w]
<1>1. /\ Drop(w) /\ faults < MaxFaults /\ faults' = faults + 1
      /\ UNCHANGED <<queue, outcome, retries>>
  BY DEF Abandon
<1>2. CASE pc[w] \notin {"send", "record"}
  <2>1. cur[w] = NoDispatch /\ UNCHANGED observed
    BY <1>2 DEF Abandon, DispatchInv, Types, InHand
  <2> QED
    BY <1>1, <2>1, DropKeeps
<1>3. CASE pc[w] \in {"send", "record"}
  <2>1. UNCHANGED <<status, attempts, lease, due, known, rows, message, verdict, retries>>
    BY <1>1 DEF queue, outcome
  <2>2. Ends(w)
    BY <1>1, <1>3, <2>1, DropEnds
  <2>3. top' = top /\ Numbered' /\ InHand' /\ Sending' /\ Waiting'
    BY <1>3, <2>1, <2>2, EndsKeeps
  <2>4. c \in Dispatches /\ ~known[c]
    BY <1>3, SenderFacts
  <2>5. /\ sent' \in [Dispatches -> Nat] /\ lost' \in [Dispatches -> Nat]
        /\ sent'[c] = lost'[c] /\ sent'[c] <= top[c]
        /\ \A e \in Dispatches : e # c => sent'[e] = sent[e] /\ lost'[e] = lost[e]
    <3>1. CASE pc[w] = "send" /\ Accepts(c) /\ Loses(c)
      <4>1. answer[w] # "accepted"
        BY <3>1 DEF DispatchInv, InHand
      <4> QED
        BY <1>3, <2>4, <3>1, <4>1, CountsBefore DEF Accepts, Loses
    <3>2. CASE answer[w] = "accepted" /\ Loses(c) /\ UNCHANGED sent
      BY <1>3, <2>4, <3>2, CountsBefore DEF Loses
    <3>3. CASE answer[w] # "accepted" /\ UNCHANGED observed
      BY <1>3, <2>4, <3>3, CountsBefore DEF observed
    <3> QED
      BY <3>1, <3>2, <3>3 DEF Abandon
  <2>6. faults' \in 0..MaxFaults /\ faults' > 0
    BY <1>1, DispatchAssumption DEF DispatchInv, Types
  <2>7. Types'
    BY <2>1, <2>2, <2>4, <2>5, <2>6 DEF DispatchInv, Types, Ends
  <2>8. Table' /\ Reported' /\ QueuedHasAttempts' /\ MessageAgrees'
    BY <2>1, <2>3 DEF DispatchInv, Table, Reported, QueuedHasAttempts, MessageAgrees
  <2>9. Counted'
    BY <1>3, <2>1, <2>2, <2>4, <2>5, EndsCounted
  <2>10. StrandedHasCause'
    BY <2>6 DEF StrandedHasCause
  <2> QED
    BY <2>3, <2>7, <2>8, <2>9, <2>10 DEF DispatchInv
<1> QED
  BY <1>2, <1>3
-----------------------------------------------------------------------------
(* The invariant.                                                          *)

LEMMA InitDispatchInv == Init => DispatchInv
<1> SUFFICES ASSUME Init PROVE DispatchInv
  OBVIOUS
<1>1. Types
  BY DispatchAssumption DEF Init, Types, Statuses
<1>2. \A d \in Dispatches : top[d] = 0 /\ rows[d] = 1..0
  <2>1. 0 \in 0..MaxAttempts /\ 1..0 = {}
    BY DispatchAssumption
  <2> QED
    BY <2>1, TopOfInterval DEF Init, top
<1>3. Numbered /\ Table
  BY <1>2, DispatchAssumption DEF Init, Numbered, Table, Settled
<1>4. InHand /\ Sending /\ Waiting /\ Reported
  BY DispatchAssumption DEF Init, InHand, Sending, Waiting, Reported
<1>5. Counted
  BY <1>2, DispatchAssumption DEF Init, Counted, Held
<1>6. QueuedHasAttempts /\ MessageAgrees /\ StrandedHasCause
  BY DEF Init, QueuedHasAttempts, MessageAgrees, StrandedHasCause, Stranded, Queued
<1> QED
  BY <1>1, <1>3, <1>4, <1>5, <1>6 DEF DispatchInv

LEMMA NextKeepsDispatchInv == DispatchInv /\ [Next]_vars => DispatchInv'
<1> SUFFICES ASSUME DispatchInv, [Next]_vars PROVE DispatchInv'
  OBVIOUS
<1>1. ASSUME NEW w \in Workers, WorkerStep(w)
      PROVE  DispatchInv'
  BY <1>1, RecoverKeeps, ClaimKeeps, BeginKeeps, SendKeeps, RecordAcceptedKeeps,
     RecordFailureKeeps DEF WorkerStep
<1>2. ASSUME NEW w \in Workers, Abandon(w)
      PROVE  DispatchInv'
  BY <1>2, AbandonKeeps
<1>3. ASSUME NEW d \in Dispatches,
             \/ Enqueue(d) \/ RetryDispatch(d) \/ Receipt(d) \/ LeaseExpires(d) \/ BecomesDue(d)
      PROVE  DispatchInv'
  BY <1>3, EnqueueKeeps, RetryKeeps, ReceiptKeeps, LeaseExpiresKeeps, BecomesDueKeeps
<1>4. CASE UNCHANGED vars
  <2>1. top' = top
    BY <1>4, TopKept DEF vars, queue
  <2> QED
    BY <1>4, <2>1 DEF vars, queue, outcome, memory, observed, DispatchInv, Types, Numbered, InHand,
          Sending, Open, Waiting, Table, Reported, Counted, Held, QueuedHasAttempts,
          MessageAgrees, StrandedHasCause, Stranded, InFlight
<1> QED
  BY <1>1, <1>2, <1>3, <1>4 DEF Next

\* The invariant holds of every behaviour.
LEMMA DispatchInvariant == Spec => []DispatchInv
  BY InitDispatchInv, NextKeepsDispatchInv, PTL DEF Spec
-----------------------------------------------------------------------------
(* The properties.                                                         *)

\* Every variable keeps its type: no dispatch is tried, or accepted, more often
\* than its message may be.
THEOREM DispatchesTyped == Spec => []TypeOK
<1>1. DispatchInv => TypeOK
  <2> SUFFICES ASSUME DispatchInv PROVE TypeOK
    OBVIOUS
  <2>1. ASSUME NEW d \in Dispatches
        PROVE  sent[d] \in 0..MaxAttempts /\ lost[d] \in 0..MaxAttempts
    <3>1. /\ sent[d] \in Nat /\ lost[d] \in Nat
          /\ lost[d] <= sent[d] /\ sent[d] <= top[d]
      BY DEF DispatchInv, Counted
    <3>2. top[d] \in 0..MaxAttempts
      BY DEF DispatchInv, Numbered
    <3> QED
      BY <3>1, <3>2, DispatchAssumption
  <2> QED
    BY <2>1 DEF DispatchInv, Types, TypeOK
<1> QED
  BY <1>1, DispatchInvariant, PTL

\* Only a lost acceptance makes a duplicate, whatever the pace of the workers,
\* the leases and the owner's retries.
THEOREM DuplicatesAreLost == Spec => []DuplicateOnlyAfterLoss
<1>1. DispatchInv => DuplicateOnlyAfterLoss
  <2> SUFFICES ASSUME DispatchInv, NEW d \in Dispatches
               PROVE  sent[d] <= 1 + lost[d] /\ sent[d] <= MaxAttempts
    BY DEF DuplicateOnlyAfterLoss
  <2>1. top[d] \in 0..MaxAttempts
    BY DEF DispatchInv, Numbered
  <2> QED
    BY <2>1, DispatchAssumption DEF DispatchInv, Counted
<1> QED
  BY <1>1, DispatchInvariant, PTL

\* Messages agree with their dispatches.
THEOREM MessagesAgree == Spec => []MessageAgrees
<1>1. DispatchInv => MessageAgrees
  BY DEF DispatchInv
<1> QED
  BY <1>1, DispatchInvariant, PTL

\* A queued dispatch has attempts left.
THEOREM QueuedHaveAttempts == Spec => []QueuedHasAttempts
<1>1. DispatchInv => QueuedHasAttempts
  BY DEF DispatchInv
<1> QED
  BY <1>1, DispatchInvariant, PTL

\* Without crash, error or retry by the owner, no dispatch is stranded.
THEOREM StrandedHaveCause == Spec => []StrandedHasCause
<1>1. DispatchInv => StrandedHasCause
  BY DEF DispatchInv
<1> QED
  BY <1>1, DispatchInvariant, PTL

\* What the carrier has delivered stays delivered: no late worker, recovery,
\* repeated webhook or retry undoes it.
DeliveredIsFinal ==
  [][\A d \in Dispatches : status[d] = "DELIVERED" => status'[d] = "DELIVERED"]_vars

\* What is delivered stays delivered: whoever may still write to a dispatch has
\* read it open, a retry takes only what has failed, and a carrier that has
\* reported a delivery reports nothing else.
THEOREM DeliveredStays == Spec => DeliveredIsFinal
<1>1. ASSUME DispatchInv, [Next]_vars, NEW d \in Dispatches, status[d] = "DELIVERED"
      PROVE  status'[d] = "DELIVERED"
  <2>1. ASSUME NEW w \in Workers, RecordAccepted(w) \/ RecordFailure(w)
        PROVE  status'[d] = "DELIVERED"
    <3>1. status[cur[w]] \in {"PROCESSING", "RETRY"}
      <4>1. pc[w] \in {"send", "record"}
        BY <2>1 DEF RecordAccepted, RecordFailure
      <4> QED
        BY <1>1, <4>1, SenderFacts
    <3> QED
      BY <1>1, <2>1, <3>1 DEF RecordAccepted, RecordFailure, DispatchInv, Types
  <2>2. ASSUME NEW w \in Workers, Recover(w) \/ Claim(w)
        PROVE  status'[d] = "DELIVERED"
    BY <1>1, <2>2 DEF Recover, Stuck, Claim, Candidates
  <2>3. ASSUME NEW w \in Workers, Begin(w) \/ Send(w) \/ Abandon(w)
        PROVE  status' = status
    BY <2>3 DEF Begin, Send, Abandon, queue
  <2>4. ASSUME NEW e \in Dispatches, Enqueue(e) \/ RetryDispatch(e)
        PROVE  status'[d] = "DELIVERED"
    BY <1>1, <2>4 DEF Enqueue, RetryDispatch, DispatchInv, Types
  <2>5. ASSUME NEW e \in Dispatches, Receipt(e)
        PROVE  status'[d] = "DELIVERED"
    BY <1>1, <2>5 DEF Receipt, DispatchInv, Types, Reported
  <2>6. ASSUME NEW e \in Dispatches, LeaseExpires(e) \/ BecomesDue(e)
        PROVE  status' = status
    BY <2>6 DEF LeaseExpires, BecomesDue
  <2>7. CASE UNCHANGED vars
    BY <1>1, <2>7 DEF vars, queue
  <2> QED
    BY <1>1, <2>1, <2>2, <2>3, <2>4, <2>5, <2>6, <2>7 DEF Next, WorkerStep
<1>2. DispatchInv /\ [Next]_vars =>
        [\A d \in Dispatches : status[d] = "DELIVERED" => status'[d] = "DELIVERED"]_vars
  BY <1>1
<1> QED
  BY <1>2, DispatchInvariant, PTL DEF Spec, DeliveredIsFinal
-----------------------------------------------------------------------------
(* The queue implements MessageFate.                                       *)

\* The fates that MessageFate is given.
fates == [d \in Dispatches |-> FateOf(d)]

LEMMA FateInit == Init => Fate!Init
<1> SUFFICES ASSUME Init PROVE Fate!Init
  OBVIOUS
<1>1. \A d \in Dispatches : status[d] = "ABSENT"
  BY DEF Init
<1>2. \A d \in Dispatches : FateOf(d) = "absent"
  BY <1>1 DEF FateOf, Queued
<1> QED BY <1>2 DEF Init, Fate!Init

\* Messages whose statuses say the same have the same fate.
LEMMA FatesStay ==
  ASSUME \A d \in Dispatches : FateOf(d)' = FateOf(d), UNCHANGED observed
  PROVE  UNCHANGED Fate!vars
<1>1. fates' = fates
  BY DEF fates
<1> QED BY <1>1 DEF fates, Fate!vars, observed

\* One dispatch comes to another status.
LEMMA FateMoves ==
  ASSUME DispatchInv, NEW d \in Dispatches, NEW to \in Statuses,
         status' = [status EXCEPT ![d] = to]
  PROVE  /\ FateOf(d)' = CASE to = "ABSENT" -> "absent"
                           [] to \in Queued -> "waiting"
                           [] to = "ACCEPTED" -> "sent"
                           [] to = "DELIVERED" -> "delivered"
                           [] OTHER -> "failed"
         /\ fates' = [fates EXCEPT ![d] = FateOf(d)']
<1>1. status \in [Dispatches -> Statuses] /\ status'[d] = to
  BY DEF DispatchInv, Types
<1>2. \A e \in Dispatches : e # d => FateOf(e)' = FateOf(e)
  BY <1>1 DEF FateOf, Queued
<1>3. fates' = [fates EXCEPT ![d] = FateOf(d)']
  BY <1>2 DEF fates
<1> QED BY <1>1, <1>3 DEF FateOf

\* A worker that is sending or recording holds a message that waits, and has an
\* acceptance exactly if one is outstanding.
LEMMA SenderFate ==
  ASSUME DispatchInv, NEW w \in Workers, pc[w] \in {"send", "record"}
  PROVE  /\ cur[w] \in Dispatches
         /\ FateOf(cur[w]) = "waiting"
         /\ sent \in [Dispatches -> Nat] /\ lost \in [Dispatches -> Nat]
         /\ Fate!Held(cur[w]) <=> answer[w] = "accepted"
<1>1. cur[w] \in Dispatches /\ status[cur[w]] \in Queued
  BY SenderFacts DEF Queued
<1>2. FateOf(cur[w]) = "waiting"
  BY <1>1 DEF FateOf, Queued
<1> QED BY <1>1, <1>2, CountsBefore DEF Fate!Held

\* A send hands over one copy; a crash or a lost answer loses it.
LEMMA TransmitStep ==
  ASSUME DispatchInv, NEW w \in Workers, pc[w] = "send", answer[w] # "accepted",
         Accepts(cur[w]), Loses(cur[w]) \/ UNCHANGED lost, UNCHANGED status
  PROVE  Fate!Transmit(cur[w])
<1>1. fates' = fates
  BY DEF fates, FateOf
<1>2. fates[cur[w]] = "waiting" /\ ~Fate!Held(cur[w])
  BY SenderFate DEF fates
<1>3. \E missed \in {0, 1} : lost' = [lost EXCEPT ![cur[w]] = @ + missed]
  <2>1. lost \in [Dispatches -> Nat] /\ cur[w] \in Dispatches
    BY SenderFate
  <2>2. CASE UNCHANGED lost
    <3>1. lost' = [lost EXCEPT ![cur[w]] = @ + 0]
      BY <2>1, <2>2
    <3> QED BY <3>1
  <2>3. CASE Loses(cur[w])
    BY <2>3 DEF Loses
  <2> QED BY <2>2, <2>3
<1> QED BY <1>1, <1>2, <1>3 DEF fates, Accepts, Fate!Transmit

\* The steps of a worker that answer for a message.
LEMMA WorkerFate ==
  ASSUME DispatchInv, NEW w \in Workers, WorkerStep(w) \/ Abandon(w)
  PROVE  \/ UNCHANGED Fate!vars
         \/ \E d \in Dispatches : Fate!Moves(d) \/ Fate!Transmit(d) \/ Fate!Forget(d)
<1> DEFINE c == cur[w]
<1>1. CASE Recover(w) \/ Claim(w) \/ Begin(w)
  <2>1. ASSUME NEW d \in Dispatches
        PROVE  status'[d] = status[d] \/ (status[d] \in Queued /\ status'[d] \in Queued)
    <3>1. status[d] \in Queued => attempts[d] \in Nat /\ attempts[d] < MaxAttempts
      BY DispatchAssumption DEF DispatchInv, Types, QueuedHasAttempts
    <3> QED
      BY <1>1, <3>1, DispatchAssumption DEF Recover, Stuck, Claim, Candidates, Begin, Queued
  <2>2. UNCHANGED observed
    BY <1>1 DEF Recover, Claim, Begin
  <2> QED BY <2>1, <2>2, FatesStay DEF FateOf, Queued
<1>2. CASE Send(w)
  <2>1. pc[w] = "send" /\ answer[w] # "accepted" /\ UNCHANGED status
    BY <1>2 DEF Send, queue, DispatchInv, InHand
  <2>2. CASE UNCHANGED observed
    BY <2>1, <2>2, FatesStay DEF FateOf
  <2>3. CASE Accepts(c) /\ (Loses(c) \/ UNCHANGED lost)
    BY <2>1, <2>3, TransmitStep, SenderFate
  <2> QED BY <1>2, <2>2, <2>3 DEF Send
<1>3. CASE RecordAccepted(w)
  <2>1. /\ pc[w] = "record" /\ answer[w] = "accepted"
        /\ status' = [status EXCEPT ![c] = "ACCEPTED"] /\ UNCHANGED observed
    BY <1>3 DEF RecordAccepted
  <2>2. c \in Dispatches /\ FateOf(c) = "waiting" /\ Fate!Held(c)
    BY <2>1, SenderFate
  <2>3. fates' = [fates EXCEPT ![c] = "sent"]
    BY <2>1, <2>2, FateMoves DEF Statuses, Queued
  <2>4. Fate!Moves(c)
    BY <2>1, <2>2, <2>3 DEF fates, Fate!Moves, Fate!Becomes, observed
  <2> QED BY <2>2, <2>4
<1>4. CASE RecordFailure(w)
  <2>1. PICK to \in {"DEAD", "RETRY"} : status' = [status EXCEPT ![c] = to]
    BY <1>4 DEF RecordFailure
  <2>2. /\ pc[w] = "record" /\ UNCHANGED sent
        /\ IF answer[w] = "accepted" THEN Loses(c) ELSE UNCHANGED lost
    BY <1>4 DEF RecordFailure
  <2>3. /\ c \in Dispatches /\ FateOf(c) = "waiting"
        /\ Fate!Held(c) <=> answer[w] = "accepted"
    BY <2>2, SenderFate
  <2>4. /\ fates' = [fates EXCEPT ![c] = IF to = "DEAD" THEN "failed" ELSE "waiting"]
        /\ fates[c] = "waiting"
    BY <2>1, <2>3, FateMoves DEF Statuses, Queued, fates
  <2>5. CASE answer[w] = "accepted"
    <3>1. Fate!Forget(c)
      BY <2>2, <2>3, <2>4, <2>5 DEF fates, Loses, Fate!Forget
    <3> QED BY <2>3, <3>1
  <2>6. CASE answer[w] # "accepted" /\ to = "DEAD"
    <3>1. Fate!Moves(c)
      BY <2>2, <2>4, <2>6 DEF fates, Fate!Moves, Fate!Becomes
    <3> QED BY <2>3, <3>1
  <2>7. CASE answer[w] # "accepted" /\ to = "RETRY"
    <3>1. fates' = fates
      BY <2>4, <2>7 DEF fates
    <3> QED BY <2>2, <2>7, <3>1 DEF fates, Fate!vars
  <2> QED BY <2>5, <2>6, <2>7
<1>5. CASE Abandon(w)
  <2>1. UNCHANGED status
    BY <1>5 DEF Abandon, queue
  <2>2. CASE pc[w] = "send" /\ Accepts(c) /\ Loses(c)
    <3>1. answer[w] # "accepted"
      BY <2>2 DEF DispatchInv, InHand
    <3> QED BY <2>1, <2>2, <3>1, TransmitStep, SenderFate
  <2>3. CASE pc[w] = "record" /\ answer[w] = "accepted" /\ Loses(c) /\ UNCHANGED sent
    <3>1. c \in Dispatches /\ FateOf(c) = "waiting" /\ Fate!Held(c)
      BY <2>3, SenderFate
    <3>2. fates' = fates /\ fates[c] = "waiting"
      BY <2>1, <3>1 DEF fates, FateOf
    <3>3. fates' = [fates EXCEPT ![c] = "waiting"]
      BY <3>2 DEF fates
    <3>4. Fate!Forget(c)
      BY <2>3, <3>1, <3>2, <3>3 DEF fates, Loses, Fate!Forget
    <3> QED BY <3>1, <3>4
  <2>4. CASE UNCHANGED observed
    BY <2>1, <2>4, FatesStay DEF FateOf
  <2> QED BY <1>5, <2>2, <2>3, <2>4 DEF Abandon
<1> QED BY <1>1, <1>2, <1>3, <1>4, <1>5 DEF WorkerStep

\* The steps of the owner, of carriers and of time.
LEMMA OutsideFate ==
  ASSUME DispatchInv, NEW d \in Dispatches,
         \/ Enqueue(d) \/ RetryDispatch(d)
         \/ Receipt(d) \/ LeaseExpires(d) \/ BecomesDue(d)
  PROVE  UNCHANGED Fate!vars \/ Fate!Moves(d)
<1>1. CASE Enqueue(d) \/ RetryDispatch(d)
  <2>1. PICK to \in {"PENDING", "RETRY"} :
          status' = [status EXCEPT ![d] = to] /\ UNCHANGED observed
    BY <1>1 DEF Enqueue, RetryDispatch
  <2>2. fates' = [fates EXCEPT ![d] = "waiting"]
    BY <2>1, FateMoves DEF Statuses, Queued
  <2>3. fates[d] \in {"absent", "failed"}
    BY <1>1 DEF Enqueue, RetryDispatch, fates, FateOf, Queued
  <2> QED BY <2>1, <2>2, <2>3 DEF fates, Fate!Moves, Fate!Becomes, observed
<1>2. CASE Receipt(d)
  <2>1. PICK v \in {"DELIVERED", "FAILED"} :
          /\ known[d] /\ verdict[d] \in {"none", v}
          /\ status' = [status EXCEPT ![d] = v] /\ UNCHANGED observed
    BY <1>2 DEF Receipt
  <2>2. fates' = [fates EXCEPT ![d] = IF v = "FAILED" THEN "failed" ELSE "delivered"]
    BY <2>1, FateMoves DEF Statuses, Queued
  <2>3. /\ status[d] \in {"ACCEPTED", "DELIVERED", "FAILED"} \cup Queued
        /\ status[d] \notin {"ACCEPTED", "DELIVERED"} => v = "FAILED"
        /\ status[d] = "DELIVERED" => v = "DELIVERED"
    BY <2>1 DEF DispatchInv, Table, Reported, Settled, Queued
  <2>4. CASE status[d] = v
    <3>1. fates' = fates
      BY <2>1, <2>4 DEF fates, FateOf, DispatchInv, Types
    <3> QED BY <2>1, <3>1 DEF fates, Fate!vars, observed
  <2>5. CASE status[d] # v
    <3>1. \/ fates[d] = "sent"
          \/ fates[d] = "waiting" /\ v = "FAILED"
      BY <2>1, <2>3, <2>5 DEF fates, FateOf, Queued
    <3> QED BY <2>1, <2>2, <3>1 DEF fates, Fate!Moves, Fate!Becomes, observed
  <2> QED BY <2>4, <2>5
<1>3. CASE LeaseExpires(d) \/ BecomesDue(d)
  BY <1>3, FatesStay DEF LeaseExpires, BecomesDue, FateOf
<1> QED BY <1>1, <1>2, <1>3

\* With workers of any pace, crashes, lost answers, receipts in any order and
\* retries, the queue is one that sends each message once, loses some answers,
\* and leaves settled messages alone.
THEOREM DispatchKeepsFate == Spec => KeepsFate
<1>1. DispatchInv /\ [Next]_vars => [Fate!Next]_(Fate!vars)
  <2> SUFFICES ASSUME DispatchInv, [Next]_vars
               PROVE  Fate!Next \/ UNCHANGED Fate!vars
    OBVIOUS
  <2>1. CASE UNCHANGED vars
    BY <2>1, FatesStay DEF vars, queue, FateOf
  <2>2. ASSUME NEW w \in Workers, WorkerStep(w) \/ Abandon(w)
        PROVE  Fate!Next \/ UNCHANGED Fate!vars
    BY <2>2, WorkerFate DEF Fate!Next
  <2>3. ASSUME NEW d \in Dispatches,
               \/ Enqueue(d) \/ RetryDispatch(d)
               \/ Receipt(d) \/ LeaseExpires(d) \/ BecomesDue(d)
        PROVE  Fate!Next \/ UNCHANGED Fate!vars
    BY <2>3, OutsideFate DEF Fate!Next
  <2> QED BY <2>1, <2>2, <2>3 DEF Next
<1> QED BY <1>1, FateInit, DispatchInvariant, PTL DEF Spec, KeepsFate, Fate!Spec
-----------------------------------------------------------------------------
(* A stranded dispatch.                                                    *)

\* A dispatch whose next attempt has a row already, made by nobody who is
\* still sending, and whose message no carrier can report on.
Abandoned(d) == Stranded(d) /\ ~known[d]

\* The row of an attempt is at most the newest.
LEMMA AbandonedNumber ==
  ASSUME DispatchInv, NEW d \in Dispatches, Stranded(d)
  PROVE  top[d] > attempts[d] /\ rows[d] = 1..top[d] /\ top[d] \in Nat
<1>1. attempts[d] + 1 \in 1..top[d] /\ rows[d] = 1..top[d] /\ top[d] \in 0..MaxAttempts
  BY DEF DispatchInv, Numbered, Stranded
<1>2. attempts[d] \in Nat
  BY DispatchAssumption DEF DispatchInv, Types
<1> QED
  BY <1>1, <1>2, DispatchAssumption

\* Whoever has it in a batch, or claims it again, finds the number taken: its
\* batch ends, and the attempts stay as they are.  So it is neither sent nor
\* settled ever again, although the recovery of stuck dispatches, which is to
\* reclaim what a crashed worker leaves behind, goes on queueing it: nothing
\* the program does by itself, and no retry by the owner, who may only retry
\* what has failed, gets its message out.
THEOREM StrandedForGood ==
  Spec => [][\A d \in Dispatches :
               Abandoned(d) => Abandoned(d)' /\ sent'[d] = sent[d]]_vars
<1>1. ASSUME DispatchInv, [Next]_vars, NEW d \in Dispatches, Abandoned(d)
      PROVE  Abandoned(d)' /\ sent'[d] = sent[d]
  <2> USE <1>1 DEF Abandoned
  <2>1. ASSUME NEW w \in Workers, Recover(w)
        PROVE  Abandoned(d)' /\ sent'[d] = sent[d]
    <3>1. status'[d] \in Queued
      <4>1. status[d] \in Queued /\ attempts[d] \in Nat /\ attempts[d] < MaxAttempts
        BY DispatchAssumption DEF Stranded, DispatchInv, Types, QueuedHasAttempts
      <4>2. status'[d] = IF ~Stuck(d) THEN status[d]
                         ELSE IF attempts[d] >= MaxAttempts THEN "DEAD" ELSE "RETRY"
        BY <2>1 DEF Recover
      <4> QED
        BY <4>1, <4>2, DispatchAssumption DEF Queued
    <3> QED
      BY <2>1, <3>1 DEF Recover, Stranded, InFlight, observed
  <2>2. ASSUME NEW w \in Workers, Claim(w)
        PROVE  Abandoned(d)' /\ sent'[d] = sent[d]
    BY <2>2 DEF Claim, Stranded, InFlight, Queued, observed
  <2>3. ASSUME NEW w \in Workers, Begin(w)
        PROVE  Abandoned(d)' /\ sent'[d] = sent[d]
    <3>1. PICK e \in batch[w] :
            IF NumberFree(w, e)
            THEN /\ rows' = [rows EXCEPT ![e] = @ \cup {Number(w, e)}]
                 /\ cur' = [cur EXCEPT ![w] = e]
            ELSE Drop(w) /\ UNCHANGED rows
      BY <2>3 DEF Begin
    <3>2. e = d => ~NumberFree(w, e)
      <4> SUFFICES ASSUME e = d PROVE Number(w, d) \in rows[d]
        BY DEF NumberFree
      <4>1. seen[w][d] \in Nat
        BY DispatchAssumption DEF DispatchInv, Types
      <4>2. seen[w][d] < top[d]
        BY <3>1, AbandonedNumber DEF DispatchInv, Types, Waiting
      <4> QED
        BY <4>1, <4>2, AbandonedNumber DEF Number
    <3>3. rows'[d] = rows[d]
      BY <3>1, <3>2 DEF DispatchInv, Types
    <3>4. \A u \in Workers : cur'[u] # d
      BY <3>1, <3>2, DispatchAssumption DEF Drop, Stranded, InFlight, DispatchInv, Types
    <3> QED
      BY <2>3, <3>3, <3>4 DEF Begin, Stranded, InFlight, observed
  <2>4. ASSUME NEW w \in Workers, Send(w)
        PROVE  Abandoned(d)' /\ sent'[d] = sent[d]
    <3>1. cur[w] # d
      BY DEF Stranded, InFlight
    <3> QED
      BY <2>4, <3>1 DEF Send, Accepts, Stranded, InFlight, observed, queue, DispatchInv, Types
  <2>5. ASSUME NEW w \in Workers, RecordAccepted(w) \/ RecordFailure(w)
        PROVE  Abandoned(d)' /\ sent'[d] = sent[d]
    <3>1. cur[w] # d
      BY DEF Stranded, InFlight
    <3>2. /\ status'[d] = status[d] /\ attempts'[d] = attempts[d] /\ known'[d] = known[d]
          /\ rows' = rows /\ sent' = sent
      BY <2>5, <3>1 DEF RecordAccepted, RecordFailure, observed, DispatchInv, Types
    <3>3. \A u \in Workers : cur'[u] # d
      BY <2>5, DispatchAssumption
         DEF RecordAccepted, RecordFailure, NextInBatch, Stranded, InFlight, DispatchInv, Types
    <3> QED
      BY <3>2, <3>3 DEF Stranded, InFlight
  <2>6. ASSUME NEW w \in Workers, Abandon(w)
        PROVE  Abandoned(d)' /\ sent'[d] = sent[d]
    <3>1. cur[w] # d
      BY DEF Stranded, InFlight
    <3>2. sent'[d] = sent[d]
      BY <2>6, <3>1 DEF Abandon, Accepts, observed, DispatchInv, Types
    <3>3. \A u \in Workers : cur'[u] # d
      BY <2>6, DispatchAssumption DEF Abandon, Drop, Stranded, InFlight, DispatchInv, Types
    <3> QED
      BY <2>6, <3>2, <3>3 DEF Abandon, Stranded, InFlight, queue
  <2>7. ASSUME NEW e \in Dispatches, Enqueue(e) \/ RetryDispatch(e)
        PROVE  Abandoned(d)' /\ sent'[d] = sent[d]
    <3>1. e # d
      BY <2>7 DEF Enqueue, RetryDispatch, Stranded, Queued
    <3> QED
      BY <2>7, <3>1
         DEF Enqueue, RetryDispatch, Stranded, InFlight, memory, observed, DispatchInv, Types
  <2>8. ASSUME NEW e \in Dispatches, Receipt(e)
        PROVE  Abandoned(d)' /\ sent'[d] = sent[d]
    <3>1. e # d
      BY <2>8 DEF Receipt
    <3> QED
      BY <2>8, <3>1 DEF Receipt, Stranded, InFlight, memory, observed, DispatchInv, Types
  <2>9. ASSUME NEW e \in Dispatches, LeaseExpires(e) \/ BecomesDue(e)
        PROVE  Abandoned(d)' /\ sent'[d] = sent[d]
    BY <2>9 DEF LeaseExpires, BecomesDue, Stranded, InFlight, memory, observed
  <2>10. CASE UNCHANGED vars
    BY <2>10 DEF vars, queue, memory, observed, Stranded, InFlight
  <2> QED
    BY <2>1, <2>2, <2>3, <2>4, <2>5, <2>6, <2>7, <2>8, <2>9, <2>10 DEF Next, WorkerStep
<1>2. DispatchInv /\ [Next]_vars =>
        [\A d \in Dispatches : Abandoned(d) => Abandoned(d)' /\ sent'[d] = sent[d]]_vars
  BY <1>1
<1> QED
  BY <1>2, DispatchInvariant, PTL DEF Spec

\* retryDispatch sets attempts to 0 and leaves the rows of the attempts that
\* were made: there is one, since the dispatch has failed, so every dispatch
\* that the owner retries is stranded at once.
THEOREM RetryStrands ==
  Spec => [][\A d \in Dispatches : RetryDispatch(d) => Stranded(d)']_vars
<1>1. ASSUME DispatchInv, NEW d \in Dispatches, RetryDispatch(d)
      PROVE  Stranded(d)'
  <2>1. 1 \in rows[d]
    <3>1. top[d] \in 0..MaxAttempts /\ top[d] > 0 /\ rows[d] = 1..top[d]
      BY <1>1 DEF RetryDispatch, DispatchInv, Table, Numbered, Settled
    <3> QED
      BY <3>1, DispatchAssumption
  <2>2. \A w \in Workers : cur[w] # d
    BY <1>1 DEF RetryDispatch, DispatchInv, Sending, Open
  <2>3. attempts'[d] = 0 /\ status'[d] \in Queued
    BY <1>1 DEF RetryDispatch, AttemptsOnRetry, Queued, DispatchInv, Types
  <2> QED
    BY <1>1, <2>1, <2>2, <2>3 DEF RetryDispatch, Stranded, InFlight, memory
<1>2. DispatchInv /\ [Next]_vars =>
        [\A d \in Dispatches : RetryDispatch(d) => Stranded(d)']_vars
  BY <1>1
<1> QED
  BY <1>2, DispatchInvariant, PTL DEF Spec

=============================================================================
