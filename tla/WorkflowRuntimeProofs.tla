----------------------- MODULE WorkflowRuntimeProofs -----------------------
(***************************************************************************)
(* Theorems about the workflow runtime, for every workflow graph and any   *)
(* number of executions, workers, attempts, interventions and faults.      *)
(*                                                                         *)
(* The invariant has a part per execution (RowOK) and two per worker       *)
(* (InHand, AtNode).  The heart of it is AtNode: a worker that still owns  *)
(* the execution it walks has owned it ever since it read its node, so     *)
(* what it has read is still recorded.  It rests on InHand: a worker has   *)
(* nothing in hand when it claims.                                         *)
(***************************************************************************)
EXTENDS WorkflowRuntime, TLAPS

\* Between two executions.
Between == {"idle", "claim", "next"}

\* Before the first node, and at one.
Opening == {"switches", "hold", "begin"}
Walking == {"node", "own", "mark", "act", "acted", "progress"}
Steps == Between \cup Opening \cup Walking \cup {"loop", "pause", "failed"}

\* An execution is RUNNING exactly while it is owned and leased, and open
\* executions have attempts left.
RowOK(x) ==
  /\ status[x] = "RUNNING" <=> owner[x] # Nobody
  /\ status[x] = "RUNNING" <=> lease[x] # "none"
  /\ status[x] \in {"ABSENT", "RUNNING"} => ~closed[x]
  /\ ~closed[x] => retries[x] < MaxAttempts

\* A worker has an execution in hand exactly while it is walking one.
InHand(w) ==
  /\ pc[w] \in Between => cur[w] = Nobody
  /\ pc[w] \notin Between => cur[w] \in Execs
  /\ pc[w] \in Walking => node[w] \in Nodes

\* The node of a worker that owns its execution is the recorded one, or, after
\* a branch, one behind it.
AtNode(w) ==
  \A x \in Execs : cur[w] = x /\ owner[x] = w =>
    /\ pc[w] \in Opening \cup Walking => node[w] = at[x]
    /\ pc[w] = "loop" =>
         node[w] = at[x] \/ (at[x] # 0 /\ (node[w] = 0 \/ node[w] > at[x]))

\* The inductive invariant.
RuntimeInv ==
  /\ TypeOK
  /\ \A x \in Execs : RowOK(x)
  /\ \A w \in Workers : InHand(w) /\ AtNode(w)

USE DEF Statuses, Attempts, Switches

LEMMA InitRuntimeInv == Init => RuntimeInv
<1> SUFFICES ASSUME Init PROVE RuntimeInv
  OBVIOUS
<1>1. TypeOK
  BY RuntimeAssumption DEF Init, TypeOK, Ends
<1>2. \A x \in Execs : RowOK(x)
  BY RuntimeAssumption DEF Init, RowOK
<1>3. \A w \in Workers : InHand(w) /\ AtNode(w)
  BY RuntimeAssumption DEF Init, InHand, AtNode, Between, Opening, Walking
<1> QED BY <1>1, <1>2, <1>3 DEF RuntimeInv
-----------------------------------------------------------------------------
(* Frames: what is left to show of a step that leaves most of the state.   *)

\* The columns of an execution that the invariant is about.
SameRow(x) == UNCHANGED <<status[x], at[x], retries[x], owner[x], lease[x], closed[x]>>
SameWorker(w) == UNCHANGED <<pc[w], cur[w], node[w]>>

LEMMA SameRowKeeps ==
  ASSUME NEW x \in Execs, RowOK(x), SameRow(x)
  PROVE  RowOK(x)'
BY DEF RowOK, SameRow

\* A step of worker w on execution x, which leaves it to w or to nobody.
LEMMA StepOf ==
  ASSUME RuntimeInv, TypeOK', NEW w \in Workers, NEW x \in Execs,
         \A v \in Workers : v # w => SameWorker(v),
         \A y \in Execs : y # x => SameRow(y),
         owner'[x] \in {w, Nobody} \/ SameRow(x),
         RowOK(x)', InHand(w)', AtNode(w)'
  PROVE  RuntimeInv'
<1>1. \A y \in Execs : RowOK(y)'
  BY SameRowKeeps DEF RuntimeInv
<1>2. ASSUME NEW v \in Workers
      PROVE  InHand(v)' /\ AtNode(v)'
  <2>1. CASE v = w
    BY <2>1
  <2>2. CASE v # w
    <3>1. InHand(v) /\ AtNode(v) /\ SameWorker(v) /\ v # Nobody
      BY <2>2, RuntimeAssumption DEF RuntimeInv
    <3>2. InHand(v)'
      BY <3>1 DEF InHand, SameWorker
    <3>3. AtNode(v)'
      BY <2>2, <3>1 DEF AtNode, SameWorker, SameRow
    <3> QED BY <3>2, <3>3
  <2> QED BY <2>1, <2>2
<1> QED BY <1>1, <1>2 DEF RuntimeInv

\* A step of worker w on no execution.
LEMMA StepOfWorker ==
  ASSUME RuntimeInv, TypeOK', NEW w \in Workers,
         \A v \in Workers : v # w => SameWorker(v),
         UNCHANGED execution,
         InHand(w)', AtNode(w)'
  PROVE  RuntimeInv'
<1>1. \A y \in Execs : SameRow(y)
  BY DEF SameRow, execution
<1>2. \A y \in Execs : RowOK(y)'
  BY <1>1, SameRowKeeps DEF RuntimeInv
<1>3. ASSUME NEW v \in Workers
      PROVE  InHand(v)' /\ AtNode(v)'
  <2>1. CASE v = w
    BY <2>1
  <2>2. CASE v # w
    <3>1. InHand(v) /\ AtNode(v) /\ SameWorker(v)
      BY <2>2 DEF RuntimeInv
    <3> QED BY <1>1, <3>1 DEF InHand, AtNode, SameWorker, SameRow
  <2> QED BY <2>1, <2>2
<1> QED BY <1>2, <1>3 DEF RuntimeInv

\* A step of no worker on execution x, which leaves its owner and its node, or
\* takes its owner away.
LEMMA StepOfRow ==
  ASSUME RuntimeInv, TypeOK', NEW x \in Execs,
         \A v \in Workers : SameWorker(v),
         \A y \in Execs : y # x => SameRow(y),
         owner'[x] = Nobody \/ UNCHANGED <<owner[x], at[x]>>,
         RowOK(x)'
  PROVE  RuntimeInv'
<1>1. \A y \in Execs : RowOK(y)'
  BY SameRowKeeps DEF RuntimeInv
<1>2. ASSUME NEW v \in Workers
      PROVE  InHand(v)' /\ AtNode(v)'
  <2>1. InHand(v) /\ AtNode(v) /\ SameWorker(v) /\ v # Nobody
    BY RuntimeAssumption DEF RuntimeInv
  <2> QED BY <2>1 DEF InHand, AtNode, SameWorker, SameRow
<1> QED BY <1>1, <1>2 DEF RuntimeInv

\* What every action on the execution in hand starts from.
LEMMA InHandFacts ==
  ASSUME RuntimeInv, NEW w \in Workers, pc[w] \notin Between
  PROVE  /\ cur[w] \in Execs /\ RowOK(cur[w])
         /\ pc[w] \in Walking => node[w] \in Nodes /\ Follows[node[w]] \subseteq Ends
         /\ owner[cur[w]] = w => status[cur[w]] = "RUNNING"
         /\ owner[cur[w]] = w /\ pc[w] \in Opening \cup Walking => node[w] = at[cur[w]]
BY RuntimeAssumption DEF RuntimeInv, InHand, AtNode, RowOK
-----------------------------------------------------------------------------
(* Steps on no execution.                                                  *)

LEMMA MemoryStep ==
  ASSUME RuntimeInv, NEW w \in Workers,
         \/ Load(w) \/ EndBatch(w) \/ ReadSwitches(w) \/ Branch(w) \/ Abandon(w)
         \/ FindAttempt(w) \/ CheckLease(w) \/ Mark(w) \/ Act(w) \/ Succeed(w)
         \/ ActionFails(w) \/ Throw(w)
  PROVE  RuntimeInv'
<1> USE DEF Between, Opening, Walking
<1>1. UNCHANGED execution
  BY DEF Load, EndBatch, ReadSwitches, Branch, Abandon, FindAttempt, CheckLease, Mark,
     Act, Succeed, ActionFails, Throw
<1>2. CASE Load(w)
  <2>1. PICK x \in batch[w] :
          /\ batch' = [batch EXCEPT ![w] = @ \ {x}]
          /\ \/ /\ cur' = [cur EXCEPT ![w] = x]
                /\ node' = [node EXCEPT ![w] = at[x]]
                /\ pc' = [pc EXCEPT ![w] = "switches"]
             \/ UNCHANGED <<cur, node, pc>>
    BY <1>2 DEF Load
  <2>2. x \in Execs /\ at[x] \in Ends /\ pc[w] = "next"
    BY <1>2 DEF RuntimeInv, TypeOK, Load
  <2>3. TypeOK'
    <3>1. batch' \in [Workers -> SUBSET Execs]
      BY <2>1 DEF RuntimeInv, TypeOK
    <3>2. /\ cur' \in [Workers -> Execs \cup {Nobody}]
          /\ node' \in [Workers -> Ends]
      BY <2>1, <2>2 DEF RuntimeInv, TypeOK
    <3>3. pc' \in [Workers -> Steps]
      <4>1. pc \in [Workers -> Steps]
        BY DEF RuntimeInv, TypeOK, Steps
      <4>2. pc' = [pc EXCEPT ![w] = "switches"] \/ pc' = pc
        BY <2>1
      <4>3. "switches" \in Steps
        BY DEF Steps
      <4> QED BY <4>1, <4>2, <4>3
    <3> QED BY <1>2, <3>1, <3>2, <3>3 DEF RuntimeInv, TypeOK, Load, execution, bounds, Steps
  <2>4. \A v \in Workers : v # w => SameWorker(v)
    BY <2>1 DEF SameWorker, RuntimeInv, TypeOK
  <2>5. InHand(w)' /\ AtNode(w)'
    BY <1>1, <2>1, <2>2 DEF RuntimeInv, TypeOK, InHand, AtNode, execution
  <2> QED BY <1>1, <2>3, <2>4, <2>5, StepOfWorker
<1>3. CASE EndBatch(w) \/ Abandon(w)
  <2>1. TypeOK'
    <3>1. CASE EndBatch(w)
      BY <3>1 DEF RuntimeInv, TypeOK, EndBatch, execution, bounds
    <3>2. CASE Abandon(w)
      <4>1. UNCHANGED <<attempt, node, seen, switches, performed, controls, flips>>
        BY <3>2 DEF Abandon
      <4>2. /\ pc' \in [Workers -> Steps]
            /\ batch' \in [Workers -> SUBSET Execs]
            /\ cur' \in [Workers -> Execs \cup {Nobody}]
            /\ faults' \in 0..MaxFaults
        BY <3>2, RuntimeAssumption DEF RuntimeInv, TypeOK, Abandon, Steps
      <4> QED BY <1>1, <4>1, <4>2 DEF RuntimeInv, TypeOK, execution, Steps
    <3> QED BY <1>3, <3>1, <3>2
  <2>2. \A v \in Workers : v # w => SameWorker(v)
    BY <1>3 DEF SameWorker, RuntimeInv, TypeOK, EndBatch, Abandon
  <2>3. InHand(w)' /\ AtNode(w)'
    BY <1>3, RuntimeAssumption DEF RuntimeInv, TypeOK, InHand, AtNode, EndBatch, Abandon
  <2> QED BY <1>1, <2>1, <2>2, <2>3, StepOfWorker
<1>4. CASE ReadSwitches(w)
  <2>1. TypeOK'
    BY <1>4 DEF RuntimeInv, TypeOK, ReadSwitches, execution, bounds
  <2>2. \A v \in Workers : v # w => SameWorker(v)
    BY <1>4 DEF SameWorker, RuntimeInv, TypeOK, ReadSwitches
  <2>3. InHand(w)' /\ AtNode(w)'
    BY <1>1, <1>4 DEF RuntimeInv, TypeOK, InHand, AtNode, ReadSwitches, execution
  <2> QED BY <1>1, <2>1, <2>2, <2>3, StepOfWorker
<1>5. CASE Branch(w)
  <2>1. PICK n \in Follows[node[w]] : node' = [node EXCEPT ![w] = n]
    BY <1>5 DEF Branch
  <2>2. node[w] \in Nodes /\ n \in Ends /\ (n = 0 \/ n > node[w]) /\ node[w] # 0
    BY <1>5, InHandFacts, RuntimeAssumption DEF Branch
  <2>3. TypeOK'
    BY <1>5, <2>1, <2>2 DEF RuntimeInv, TypeOK, Branch, execution, bounds
  <2>4. \A v \in Workers : v # w => SameWorker(v)
    BY <1>5, <2>1 DEF SameWorker, RuntimeInv, TypeOK, Branch
  <2>5. pc[w] = "node" /\ pc'[w] = "loop" /\ cur' = cur /\ node'[w] = n
    BY <1>5, <2>1 DEF Branch, RuntimeInv, TypeOK
  <2>6. InHand(w)' /\ AtNode(w)'
    BY <1>1, <2>2, <2>5 DEF RuntimeInv, InHand, AtNode, execution
  <2> QED BY <1>1, <2>3, <2>4, <2>6, StepOfWorker
<1>6. CASE \/ FindAttempt(w) \/ CheckLease(w) \/ Mark(w) \/ Act(w) \/ Succeed(w)
           \/ ActionFails(w) \/ Throw(w)
  <2>1. /\ pc[w] \in {"begin", "loop", "node", "own", "mark", "act", "acted", "progress", "pause"}
        /\ \/ pc[w] \in Walking
              /\ \E s \in Walking \cup {"failed"} : pc' = [pc EXCEPT ![w] = s]
           \/ pc' = [pc EXCEPT ![w] = "failed"]
        /\ UNCHANGED <<batch, cur, node, seen>>
    BY <1>6 DEF FindAttempt, CheckLease, Mark, Act, Succeed, ActionFails, Throw, Goto
  <2>2. cur[w] \in Execs /\ (pc[w] \in Walking => node[w] \in Nodes)
    BY <2>1, InHandFacts
  <2>3. TypeOK'
    <3>1. attempt' \in [Execs -> [Nodes -> Attempts]]
      <4>1. CASE UNCHANGED attempt
        BY <4>1 DEF RuntimeInv, TypeOK
      <4>2. ASSUME NEW r \in Attempts,
                   attempt' = [attempt EXCEPT ![cur[w]][node[w]] = r]
            PROVE  attempt' \in [Execs -> [Nodes -> Attempts]]
        BY <4>2 DEF RuntimeInv, TypeOK
      <4>3. \/ UNCHANGED attempt
            \/ pc[w] \in Walking
               /\ \E r \in Attempts : attempt' = [attempt EXCEPT ![cur[w]][node[w]] = r]
        <5>1. CASE FindAttempt(w) \/ ActionFails(w)
          <6>1. pc[w] \in Walking /\ attempt[cur[w]][node[w]] \in Attempts
            BY <5>1, <2>2 DEF RuntimeInv, TypeOK, FindAttempt, ActionFails
          <6> QED BY <5>1, <6>1 DEF FindAttempt, ActionFails
        <5>2. CASE CheckLease(w) \/ Mark(w) \/ Act(w) \/ Succeed(w) \/ Throw(w)
          BY <5>2 DEF CheckLease, Mark, Act, Succeed, Throw
        <5> QED BY <1>6, <5>1, <5>2
      <4> QED BY <4>1, <4>2, <4>3
    <3>2. performed' \in [Execs -> [Nodes -> BOOLEAN]]
      <4>1. CASE Act(w)
        <5>1. performed' = [performed EXCEPT ![cur[w]][node[w]] = TRUE] /\ node[w] \in Nodes
          BY <4>1, <2>2 DEF Act
        <5> QED BY <5>1, <2>2 DEF RuntimeInv, TypeOK
      <4>2. CASE ~Act(w)
        BY <1>6, <4>2 DEF RuntimeInv, TypeOK, FindAttempt, CheckLease, Mark, Succeed,
           ActionFails, Throw
      <4> QED BY <4>1, <4>2
    <3>3. UNCHANGED <<switches, controls, flips>> /\ faults' \in 0..MaxFaults
      BY <1>6, RuntimeAssumption DEF RuntimeInv, TypeOK, FindAttempt, CheckLease, Mark, Act,
         Succeed, ActionFails, Throw, bounds
    <3>4. pc' \in [Workers -> Steps]
      <4>1. pc \in [Workers -> Steps]
        BY DEF RuntimeInv, TypeOK, Steps
      <4>2. PICK t \in Steps : pc' = [pc EXCEPT ![w] = t]
        BY <2>1 DEF Steps
      <4> QED BY <4>1, <4>2
    <3> QED BY <1>1, <2>1, <3>1, <3>2, <3>3, <3>4 DEF RuntimeInv, TypeOK, execution, Steps
  <2>4. \A v \in Workers : v # w => SameWorker(v)
    BY <2>1 DEF SameWorker, RuntimeInv, TypeOK
  <2>5. InHand(w)' /\ AtNode(w)'
    BY <1>1, <2>1, <2>2 DEF RuntimeInv, TypeOK, InHand, AtNode, execution
  <2> QED BY <1>1, <2>3, <2>4, <2>5, StepOfWorker
<1> QED BY <1>2, <1>3, <1>4, <1>5, <1>6
-----------------------------------------------------------------------------
(* Steps on the execution in hand.                                         *)

\* What a release does to the rows.
LEMMA Released ==
  ASSUME TypeOK, NEW x \in Execs, NEW to \in Statuses, Release(x, to)
  PROVE  /\ status' \in [Execs -> Statuses] /\ status'[x] = to
         /\ owner' \in [Execs -> Workers \cup {Nobody}] /\ owner'[x] = Nobody
         /\ lease' \in [Execs -> {"none", "live", "expired"}] /\ lease'[x] = "none"
         /\ \A y \in Execs \ {x} : UNCHANGED <<status[y], owner[y], lease[y]>>
BY DEF Release, TypeOK

\* Leaving an execution, whatever is written to it.
LEMMA LeaveStep ==
  ASSUME RuntimeInv, NEW w \in Workers, pc[w] \notin Between, Leave(w),
         NEW x \in Execs,
         \A y \in Execs \ {x} : SameRow(y),
         owner'[x] = Nobody,
         RowOK(x)',
         status' \in [Execs -> Statuses], at' \in [Execs -> Ends],
         retries' \in [Execs -> 0..MaxAttempts],
         owner' \in [Execs -> Workers \cup {Nobody}],
         lease' \in [Execs -> {"none", "live", "expired"}],
         closed' \in [Execs -> BOOLEAN], due' \in [Execs -> BOOLEAN],
         UNCHANGED <<late, attempt, switches, performed, bounds>>
  PROVE  RuntimeInv'
<1>1. TypeOK'
  <2>1. pc' \in [Workers -> Steps]
    <3>1. pc \in [Workers -> Steps]
      BY DEF RuntimeInv, TypeOK, Steps, Between, Opening, Walking
    <3>2. "next" \in Steps
      BY DEF Steps, Between
    <3> QED BY <3>1, <3>2 DEF Leave
  <2>2. cur' \in [Workers -> Execs \cup {Nobody}]
    BY DEF RuntimeInv, TypeOK, Leave
  <2> QED BY <2>1, <2>2 DEF RuntimeInv, TypeOK, Leave, bounds, execution, Steps, Between,
          Opening, Walking
<1>2. \A v \in Workers : v # w => SameWorker(v)
  BY DEF SameWorker, Leave, RuntimeInv, TypeOK
<1>3. InHand(w)' /\ AtNode(w)'
  BY RuntimeAssumption DEF RuntimeInv, TypeOK, Leave, InHand, AtNode, Between, Walking, Opening
<1> QED BY <1>1, <1>2, <1>3, StepOf

\* Leaving an execution that is no longer held.
LEMMA LeaveUnwritten ==
  ASSUME RuntimeInv, NEW w \in Workers, Leave(w),
         UNCHANGED <<execution, attempt, switches, performed, bounds>>
  PROVE  RuntimeInv'
<1>1. TypeOK'
  <2>1. pc' \in [Workers -> Steps]
    <3>1. pc \in [Workers -> Steps]
      BY DEF RuntimeInv, TypeOK, Steps, Between, Opening, Walking
    <3>2. "next" \in Steps
      BY DEF Steps, Between
    <3> QED BY <3>1, <3>2 DEF Leave
  <2>2. cur' \in [Workers -> Execs \cup {Nobody}]
    BY DEF RuntimeInv, TypeOK, Leave
  <2> QED BY <2>1, <2>2 DEF RuntimeInv, TypeOK, Leave, bounds, execution, Steps, Between,
          Opening, Walking
<1>2. \A v \in Workers : v # w => SameWorker(v)
  BY DEF SameWorker, Leave, RuntimeInv, TypeOK
<1>3. InHand(w)' /\ AtNode(w)'
  BY RuntimeAssumption DEF RuntimeInv, TypeOK, Leave, InHand, AtNode, Between, Walking, Opening
<1> QED BY <1>1, <1>2, <1>3, StepOfWorker

\* Going on to another step with the lease held.
LEMMA StayStep ==
  ASSUME RuntimeInv, NEW w \in Workers, NEW n \in Ends, NEW t \in Walking \cup {"loop", "pause"},
         pc[w] \in Walking \cup {"begin", "loop"}, Holds(w, cur[w]),
         t \in Walking => n \in Nodes /\ at'[cur[w]] = n,
         t = "loop" => n = at'[cur[w]] \/ (at'[cur[w]] # 0 /\ (n = 0 \/ n > at'[cur[w]])),
         pc' = [pc EXCEPT ![w] = t], node' = [node EXCEPT ![w] = n],
         at' \in [Execs -> Ends], \A y \in Execs \ {cur[w]} : at'[y] = at[y],
         lease' = [lease EXCEPT ![cur[w]] = "live"],
         UNCHANGED <<batch, cur, seen, status, retries, owner, closed, due, late,
                     attempt, switches, performed, bounds>>
  PROVE  RuntimeInv'
<1> DEFINE x == cur[w]
<1>1. x \in Execs /\ RowOK(x) /\ w # Nobody
  BY InHandFacts, RuntimeAssumption DEF Between, Walking
<1>2. TypeOK'
  <2>1. pc \in [Workers -> Steps] /\ t \in Steps
    BY DEF RuntimeInv, TypeOK, Steps, Between, Opening, Walking
  <2>2. pc' \in [Workers -> Steps]
    BY <2>1
  <2> QED BY <1>1, <2>2 DEF RuntimeInv, TypeOK, bounds, Steps, Between, Opening, Walking
<1>3. \A v \in Workers : v # w => SameWorker(v)
  BY DEF SameWorker, RuntimeInv, TypeOK
<1>4. \A y \in Execs : y # x => SameRow(y)
  BY <1>1 DEF SameRow, RuntimeInv, TypeOK
<1>5. RowOK(x)'
  BY <1>1 DEF RowOK, Holds, RuntimeInv, TypeOK
<1>6. InHand(w)' /\ AtNode(w)'
  <2>1. pc'[w] = t /\ node'[w] = n /\ cur'[w] = x
    BY DEF RuntimeInv, TypeOK
  <2> QED BY <1>1, <2>1 DEF InHand, AtNode, Between, Opening, Walking
<1>7. owner'[x] \in {w, Nobody}
  BY DEF Holds
<1> QED BY <1>1, <1>2, <1>3, <1>4, <1>5, <1>6, <1>7, StepOf

LEMMA HoldStep ==
  ASSUME RuntimeInv, NEW w \in Workers, Hold(w)
  PROVE  RuntimeInv'
<1>0. PICK x \in Execs : x = cur[w]
  BY InHandFacts DEF Hold, Between
<1>1. pc[w] \notin Between /\ x = cur[w] /\ RowOK(x)
  BY <1>0, InHandFacts DEF Hold, Between
<1>2. Release(x, "PENDING") /\ Leave(w) /\ due' = [due EXCEPT ![x] = FALSE]
  BY <1>1 DEF Hold
<1>3. RowOK(x)' /\ \A y \in Execs \ {x} : SameRow(y)
  BY <1>1, <1>2, Released DEF Hold, RuntimeInv, RowOK, SameRow
<1>4. due' \in [Execs -> BOOLEAN]
  BY <1>2 DEF Hold, RuntimeInv, TypeOK
<1> QED BY <1>1, <1>2, <1>3, <1>4, Released, LeaveStep DEF Hold, RuntimeInv, TypeOK

LEMMA TimeOutStep ==
  ASSUME RuntimeInv, NEW w \in Workers, TimeOut(w)
  PROVE  RuntimeInv'
<1>0. PICK x \in Execs : x = cur[w]
  BY InHandFacts DEF TimeOut, Between
<1>1. pc[w] \notin Between /\ x = cur[w] /\ RowOK(x) /\ TypeOK /\ Leave(w)
  BY <1>0, InHandFacts DEF TimeOut, Between, RuntimeInv
<1>2. CASE owner[x] = w
  <2>1. Release(x, "FAILED") /\ closed' = [closed EXCEPT ![x] = TRUE]
    BY <1>1, <1>2 DEF TimeOut
  <2>2. RowOK(x)' /\ \A y \in Execs \ {x} : SameRow(y)
    BY <1>1, <2>1, Released DEF TimeOut, TypeOK, RowOK, SameRow
  <2>3. closed' \in [Execs -> BOOLEAN]
    BY <1>1, <2>1 DEF TypeOK
  <2> QED BY <1>1, <2>1, <2>2, <2>3, Released, LeaveStep DEF TimeOut, TypeOK
<1>3. CASE owner[x] # w
  <2>1. UNCHANGED <<execution, attempt, switches, performed, bounds>>
    BY <1>1, <1>3 DEF TimeOut, execution
  <2> QED BY <1>1, <2>1, LeaveUnwritten
<1> QED BY <1>2, <1>3

LEMMA EnterStep ==
  ASSUME RuntimeInv, NEW w \in Workers, Enter(w)
  PROVE  RuntimeInv'
<1>1. /\ pc[w] \notin Between /\ cur[w] \in Execs /\ TypeOK
      /\ pc[w] \in Walking \cup {"begin", "loop"}
      /\ node[w] \in Nodes
  BY InHandFacts DEF Enter, Between, RuntimeInv, TypeOK, Ends
<1>2. CASE Holds(w, cur[w])
  <2>1. /\ at' = [at EXCEPT ![cur[w]] = node[w]]
        /\ lease' = [lease EXCEPT ![cur[w]] = "live"]
        /\ Goto(w, "node")
    BY <1>2 DEF Enter
  <2>2. node' = [node EXCEPT ![w] = node[w]]
    BY <1>1, <2>1 DEF Goto, TypeOK
  <2>3. at' \in [Execs -> Ends] /\ at'[cur[w]] = node[w] /\ node[w] \in Ends
    BY <1>1, <2>1 DEF TypeOK, Ends
  <2>4. "node" \in Walking \cup {"loop", "pause"} /\ "node" # "loop"
    BY DEF Walking
  <2>5. \A y \in Execs \ {cur[w]} : at'[y] = at[y]
    BY <1>1, <2>1 DEF TypeOK
  <2>6. UNCHANGED <<batch, cur, seen, status, retries, owner, closed, due, late,
                    attempt, switches, performed, bounds>> /\ pc' = [pc EXCEPT ![w] = "node"]
    BY <2>1 DEF Enter, Goto
  <2> QED BY <1>1, <1>2, <2>1, <2>2, <2>3, <2>4, <2>5, <2>6, StayStep
<1>3. CASE ~Holds(w, cur[w])
  <2>1. UNCHANGED <<execution, attempt, switches, performed, bounds>> /\ Leave(w)
    BY <1>3 DEF Enter, execution
  <2> QED BY <1>1, <2>1, LeaveUnwritten
<1> QED BY <1>2, <1>3

LEMMA CompleteStep ==
  ASSUME RuntimeInv, NEW w \in Workers, Complete(w)
  PROVE  RuntimeInv'
<1>0. PICK x \in Execs : x = cur[w]
  BY InHandFacts DEF Complete, Between
<1>1. pc[w] \notin Between /\ x = cur[w] /\ RowOK(x) /\ TypeOK /\ Leave(w)
  BY <1>0, InHandFacts DEF Complete, Between, RuntimeInv
<1>2. CASE Holds(w, x)
  <2>1. /\ Release(x, "COMPLETED")
        /\ closed' = [closed EXCEPT ![x] = TRUE]
        /\ at' = [at EXCEPT ![x] = 0]
    BY <1>1, <1>2 DEF Complete
  <2>2. RowOK(x)' /\ \A y \in Execs \ {x} : SameRow(y)
    BY <1>1, <2>1, Released DEF Complete, TypeOK, RowOK, SameRow
  <2>3. closed' \in [Execs -> BOOLEAN] /\ at' \in [Execs -> Ends]
    BY <1>1, <2>1 DEF TypeOK, Ends
  <2> QED BY <1>1, <2>1, <2>2, <2>3, Released, LeaveStep DEF Complete, TypeOK
<1>3. CASE ~Holds(w, x)
  <2>1. UNCHANGED <<execution, attempt, switches, performed, bounds>>
    BY <1>1, <1>3 DEF Complete, execution
  <2> QED BY <1>1, <2>1, LeaveUnwritten
<1> QED BY <1>2, <1>3

LEMMA DelayStep ==
  ASSUME RuntimeInv, NEW w \in Workers, Delay(w)
  PROVE  RuntimeInv'
<1>0. PICK x \in Execs : x = cur[w]
  BY InHandFacts DEF Delay, Between
<1>1. /\ pc[w] \notin Between /\ x = cur[w] /\ RowOK(x) /\ TypeOK /\ Leave(w)
      /\ Follows[node[w]] \subseteq Ends
  BY <1>0, InHandFacts DEF Delay, Between, Walking, RuntimeInv
<1>2. CASE Holds(w, x)
  <2>1. PICK n \in Follows[node[w]] : at' = [at EXCEPT ![x] = n]
    BY <1>1, <1>2 DEF Delay
  <2>2. Release(x, "PENDING") /\ due' = [due EXCEPT ![x] = FALSE]
    BY <1>1, <1>2 DEF Delay
  <2>3. at' \in [Execs -> Ends] /\ due' \in [Execs -> BOOLEAN]
    BY <1>1, <2>1, <2>2 DEF TypeOK
  <2>4. RowOK(x)' /\ \A y \in Execs \ {x} : SameRow(y)
    BY <1>1, <1>2, <2>1, <2>2, Released DEF Delay, TypeOK, RowOK, SameRow, Holds
  <2> QED BY <1>1, <2>2, <2>3, <2>4, Released, LeaveStep DEF Delay, TypeOK
<1>3. CASE ~Holds(w, x)
  <2>1. UNCHANGED <<execution, attempt, switches, performed, bounds>>
    BY <1>1, <1>3 DEF Delay, execution
  <2> QED BY <1>1, <2>1, LeaveUnwritten
<1> QED BY <1>2, <1>3

LEMMA PostponeStep ==
  ASSUME RuntimeInv, NEW w \in Workers, Postpone(w) \/ PauseHere(w)
  PROVE  RuntimeInv'
<1>0. PICK x \in Execs : x = cur[w]
  BY InHandFacts DEF Postpone, PauseHere, Between
<1>1. pc[w] \notin Between /\ x = cur[w] /\ RowOK(x) /\ TypeOK /\ Leave(w)
  BY <1>0, InHandFacts DEF Postpone, PauseHere, Between, RuntimeInv
<1>2. CASE Holds(w, x)
  <2>1. PICK to \in {"PENDING", "PAUSED"} : Release(x, to)
    BY <1>1, <1>2 DEF Postpone, PauseHere
  <2>2. due' \in [Execs -> BOOLEAN]
    BY <1>1, <1>2 DEF TypeOK, Postpone, PauseHere
  <2>3. UNCHANGED <<at, retries, closed, late, attempt, switches, performed, bounds>>
    BY DEF Postpone, PauseHere
  <2>4. RowOK(x)' /\ \A y \in Execs \ {x} : SameRow(y)
    BY <1>1, <1>2, <2>1, <2>3, Released DEF TypeOK, RowOK, SameRow, Holds
  <2>5. /\ status' \in [Execs -> Statuses] /\ owner'[x] = Nobody
        /\ owner' \in [Execs -> Workers \cup {Nobody}]
        /\ lease' \in [Execs -> {"none", "live", "expired"}]
    BY <1>1, <2>1, Released
  <2>6. at' \in [Execs -> Ends] /\ retries' \in [Execs -> 0..MaxAttempts]
        /\ closed' \in [Execs -> BOOLEAN]
    BY <1>1, <2>3 DEF TypeOK
  <2> QED BY <1>1, <2>2, <2>3, <2>4, <2>5, <2>6, LeaveStep
<1>3. CASE ~Holds(w, x)
  <2>1. UNCHANGED <<execution, attempt, switches, performed, bounds>>
    BY <1>1, <1>3 DEF Postpone, PauseHere, execution
  <2> QED BY <1>1, <2>1, LeaveUnwritten
<1> QED BY <1>2, <1>3

LEMMA RecordFailureStep ==
  ASSUME RuntimeInv, NEW w \in Workers, RecordFailure(w)
  PROVE  RuntimeInv'
<1>0. PICK x \in Execs : x = cur[w]
  BY InHandFacts DEF RecordFailure, Between
<1>1. pc[w] \notin Between /\ x = cur[w] /\ RowOK(x) /\ TypeOK /\ Leave(w)
  BY <1>0, InHandFacts DEF RecordFailure, Between, RuntimeInv
<1>2. CASE Holds(w, x)
  <2>1. PICK permanent \in BOOLEAN :
          closed' = [closed EXCEPT ![x] = @ \/ permanent \/ LastRetry(x)]
    BY <1>1, <1>2 DEF RecordFailure
  <2>2. /\ Release(x, "FAILED")
        /\ due' = [due EXCEPT ![x] = FALSE]
        /\ retries' = [retries EXCEPT ![x] = @ + 1]
    BY <1>1, <1>2 DEF RecordFailure
  <2>3. ~closed[x] /\ retries[x] < MaxAttempts
    BY <1>1, <1>2 DEF RowOK, Holds
  <2>4. retries'[x] = retries[x] + 1 /\ retries'[x] \in 0..MaxAttempts
    BY <1>1, <2>2, <2>3, RuntimeAssumption DEF TypeOK
  <2>5. retries' \in [Execs -> 0..MaxAttempts]
    BY <1>1, <2>2, <2>4 DEF TypeOK
  <2>6. closed' \in [Execs -> BOOLEAN]
    BY <1>1, <2>1 DEF TypeOK, LastRetry
  <2>7. ~closed'[x] => retries'[x] < MaxAttempts
    <3>1. closed'[x] = (closed[x] \/ permanent \/ LastRetry(x))
      BY <1>1, <2>1 DEF TypeOK
    <3>2. retries[x] \in Nat /\ MaxRetries \in Nat /\ MaxAttempts \in Nat
          /\ MaxRetries <= MaxAttempts
      BY <1>1, RuntimeAssumption DEF TypeOK
    <3>3. ~LastRetry(x) => retries'[x] < MaxAttempts
      BY <2>4, <3>2 DEF LastRetry
    <3> QED BY <3>1, <3>3
  <2>8. due' \in [Execs -> BOOLEAN]
    BY <1>1, <2>2 DEF TypeOK
  <2>9. RowOK(x)'
    BY <1>1, <2>2, <2>7, Released DEF RowOK
  <2>10. \A y \in Execs \ {x} : SameRow(y)
    BY <1>1, <2>1, <2>2, Released DEF RecordFailure, TypeOK, SameRow
  <2> QED BY <1>1, <2>2, <2>5, <2>6, <2>8, <2>9, <2>10, Released, LeaveStep DEF RecordFailure, TypeOK
<1>3. CASE ~Holds(w, x)
  <2>1. UNCHANGED <<execution, attempt, switches, performed, bounds>>
    BY <1>1, <1>3 DEF RecordFailure, execution
  <2> QED BY <1>1, <2>1, LeaveUnwritten
<1> QED BY <1>2, <1>3

LEMMA ProgressStep ==
  ASSUME RuntimeInv, NEW w \in Workers, Progress(w)
  PROVE  RuntimeInv'
<1>1. /\ pc[w] \notin Between /\ cur[w] \in Execs /\ RowOK(cur[w]) /\ TypeOK
      /\ pc[w] \in Walking \cup {"begin", "loop"}
      /\ node[w] \in Nodes /\ Follows[node[w]] \subseteq Ends
  BY InHandFacts DEF Progress, Between, Walking, RuntimeInv
<1>2. CASE Holds(w, cur[w])
  <2>1. PICK n \in Follows[node[w]] :
          /\ at' = [at EXCEPT ![cur[w]] = n]
          /\ lease' = [lease EXCEPT ![cur[w]] = "live"]
          /\ node' = [node EXCEPT ![w] = IF Kind[node[w]] = "complete" THEN 0 ELSE n]
          /\ pc' = [pc EXCEPT ![w] = IF Kind[node[w]] = "pause" THEN "pause" ELSE "loop"]
          /\ UNCHANGED <<batch, cur, seen>>
    BY <1>2 DEF Progress
  <2> DEFINE t == IF Kind[node[w]] = "pause" THEN "pause" ELSE "loop"
             m == IF Kind[node[w]] = "complete" THEN 0 ELSE n
  <2>2. /\ m \in Ends /\ t \in Walking \cup {"loop", "pause"} /\ t \notin Walking
        /\ at'[cur[w]] = n /\ at' \in [Execs -> Ends]
        /\ \A y \in Execs \ {cur[w]} : at'[y] = at[y]
    BY <1>1, <2>1 DEF TypeOK, Ends, Walking
  <2>3. m = n \/ (n # 0 /\ (m = 0 \/ m > n))
    OBVIOUS
  <2>4. UNCHANGED <<status, retries, owner, closed, due, late, attempt, switches,
                    performed, bounds>>
    BY DEF Progress
  <2> HIDE DEF t, m
  <2>5. pc' = [pc EXCEPT ![w] = t] /\ node' = [node EXCEPT ![w] = m]
    BY <2>1 DEF t, m
  <2> QED BY <1>1, <1>2, <2>1, <2>2, <2>3, <2>4, <2>5, StayStep
<1>3. CASE ~Holds(w, cur[w])
  <2>1. UNCHANGED <<execution, attempt, switches, performed, bounds>> /\ Leave(w)
    BY <1>3 DEF Progress, execution
  <2> QED BY <1>1, <2>1, LeaveUnwritten
<1> QED BY <1>2, <1>3
-----------------------------------------------------------------------------
(* Recovery and claim: steps on many executions of a worker with none in   *)
(* hand.                                                                   *)

LEMMA RecoverStep ==
  ASSUME RuntimeInv, NEW w \in Workers, Recover(w)
  PROVE  RuntimeInv'
<1>1. TypeOK'
  <2>1. retries' \in [Execs -> 0..MaxAttempts]
    <3>1. ASSUME NEW x \in Execs, Abandoned(x)
          PROVE  retries[x] + 1 \in 0..MaxAttempts
      BY <3>1, RuntimeAssumption DEF RuntimeInv, TypeOK, RowOK, Abandoned
    <3>2. ASSUME NEW x \in Execs
          PROVE  (IF Abandoned(x) THEN retries[x] + 1 ELSE retries[x]) \in 0..MaxAttempts
      BY <3>1 DEF RuntimeInv, TypeOK
    <3> QED BY <3>2 DEF Recover
  <2>2. pc' \in [Workers -> Steps]
    <3>1. pc \in [Workers -> Steps] /\ "claim" \in Steps
      BY DEF RuntimeInv, TypeOK, Steps, Between, Opening, Walking
    <3> QED BY <3>1 DEF Recover
  <2>3. status' \in [Execs -> Statuses] /\ closed' \in [Execs -> BOOLEAN]
        /\ due' \in [Execs -> BOOLEAN]
    BY DEF RuntimeInv, TypeOK, Recover, Abandoned, LastRecovery
  <2>4. owner' \in [Execs -> Workers \cup {Nobody}]
        /\ lease' \in [Execs -> {"none", "live", "expired"}]
    BY DEF RuntimeInv, TypeOK, Recover
  <2> QED BY <2>1, <2>2, <2>3, <2>4
          DEF RuntimeInv, TypeOK, Recover, bounds, Steps, Between, Opening, Walking
<1>2. ASSUME NEW x \in Execs
      PROVE  RowOK(x)'
  <2>1. CASE Abandoned(x)
    <3>1. status'[x] = "FAILED" /\ owner'[x] = Nobody /\ lease'[x] = "none"
          /\ retries'[x] = retries[x] + 1 /\ (~closed'[x] => ~LastRecovery(x))
      BY <2>1 DEF Recover
    <3>2. ~LastRecovery(x) => retries[x] + 1 < MaxAttempts
      BY RuntimeAssumption DEF LastRecovery, RuntimeInv, TypeOK
    <3> QED BY <3>1, <3>2 DEF RowOK
  <2>2. CASE ~Abandoned(x)
    <3>1. SameRow(x)
      BY <2>2 DEF Recover, SameRow, RuntimeInv, TypeOK
    <3> QED BY <3>1, SameRowKeeps DEF RuntimeInv
  <2> QED BY <2>1, <2>2
<1>3. ASSUME NEW v \in Workers
      PROVE  InHand(v)' /\ AtNode(v)'
  <2>1. InHand(v) /\ AtNode(v) /\ v # Nobody
    BY RuntimeAssumption DEF RuntimeInv
  <2>2. CASE v = w
    <3>1. pc'[v] = "claim" /\ cur'[v] = Nobody
      BY <2>1, <2>2 DEF Recover, RuntimeInv, TypeOK, InHand, Between
    <3> QED BY <3>1, RuntimeAssumption DEF InHand, AtNode, Between, Opening, Walking
  <2>3. CASE v # w
    <3>1. SameWorker(v) /\ UNCHANGED at
      BY <2>3 DEF Recover, SameWorker, RuntimeInv, TypeOK
    <3>2. \A x \in Execs : owner'[x] = v => owner[x] = v
      BY <2>1 DEF Recover
    <3> QED BY <2>1, <3>1, <3>2 DEF InHand, AtNode, SameWorker
  <2> QED BY <2>2, <2>3
<1> QED BY <1>1, <1>2, <1>3 DEF RuntimeInv

LEMMA ClaimStep ==
  ASSUME RuntimeInv, NEW w \in Workers, Claim(w)
  PROVE  RuntimeInv'
<1>1. TypeOK'
  <2>1. pc' \in [Workers -> Steps]
    <3>1. pc \in [Workers -> Steps] /\ "next" \in Steps
      BY DEF RuntimeInv, TypeOK, Steps, Between, Opening, Walking
    <3> QED BY <3>1 DEF Claim
  <2>2. status' \in [Execs -> Statuses] /\ owner' \in [Execs -> Workers \cup {Nobody}]
        /\ lease' \in [Execs -> {"none", "live", "expired"}]
        /\ batch' \in [Workers -> SUBSET Execs]
    BY DEF RuntimeInv, TypeOK, Claim
  <2> QED BY <2>1, <2>2
          DEF RuntimeInv, TypeOK, Claim, bounds, Steps, Between, Opening, Walking
<1>2. ASSUME NEW x \in Execs
      PROVE  RowOK(x)'
  <2>1. CASE Claimable(x)
    <3>1. status'[x] = "RUNNING" /\ owner'[x] = w /\ lease'[x] = "live"
          /\ UNCHANGED <<retries, closed>> /\ ~closed[x] /\ retries[x] < MaxAttempts
      BY <2>1 DEF Claim, Claimable
    <3> QED BY <3>1, RuntimeAssumption DEF RowOK
  <2>2. CASE ~Claimable(x)
    <3>1. SameRow(x)
      BY <2>2 DEF Claim, SameRow, RuntimeInv, TypeOK
    <3> QED BY <3>1, SameRowKeeps DEF RuntimeInv
  <2> QED BY <2>1, <2>2
<1>3. ASSUME NEW v \in Workers
      PROVE  InHand(v)' /\ AtNode(v)'
  <2>1. InHand(v) /\ AtNode(v) /\ v # Nobody
    BY RuntimeAssumption DEF RuntimeInv
  <2>2. CASE v = w
    <3>1. pc'[v] = "next" /\ cur'[v] = Nobody
      BY <2>1, <2>2 DEF Claim, RuntimeInv, TypeOK, InHand, Between
    <3> QED BY <3>1, RuntimeAssumption DEF InHand, AtNode, Between, Opening, Walking
  <2>3. CASE v # w
    <3>1. SameWorker(v) /\ UNCHANGED at
      BY <2>3 DEF Claim, SameWorker, RuntimeInv, TypeOK
    <3>2. \A x \in Execs : owner'[x] = v => owner[x] = v
      BY <2>1, <2>3 DEF Claim
    <3> QED BY <2>1, <3>1, <3>2 DEF InHand, AtNode, SameWorker
  <2> QED BY <2>2, <2>3
<1> QED BY <1>1, <1>2, <1>3 DEF RuntimeInv

LEMMA WorkerStepKeeps ==
  ASSUME RuntimeInv, NEW w \in Workers, WorkerStep(w) \/ Throw(w) \/ Abandon(w)
  PROVE  RuntimeInv'
BY RecoverStep, ClaimStep, MemoryStep, HoldStep, TimeOutStep, EnterStep, CompleteStep, DelayStep,
   PostponeStep, ProgressStep, RecordFailureStep DEF WorkerStep
-----------------------------------------------------------------------------
(* Steps of nobody's worker.                                               *)

LEMMA MemorySame ==
  ASSUME UNCHANGED memory, NEW v \in Workers
  PROVE  SameWorker(v)
BY DEF memory, SameWorker

LEMMA ControlStep ==
  ASSUME RuntimeInv, NEW x \in Execs, Pause(x) \/ Resume(x) \/ Cancel(x) \/ Retry(x)
  PROVE  RuntimeInv'
<1>1. PICK to \in {"PAUSED", "PENDING", "CANCELLED"} :
        /\ Release(x, to)
        /\ controls < MaxControls /\ controls' = controls + 1
        /\ UNCHANGED <<at, late, attempt, memory, switches, performed, flips, faults>>
  BY DEF Pause, Resume, Cancel, Retry, Control
<1>2. /\ due' \in [Execs -> BOOLEAN] /\ closed' \in [Execs -> BOOLEAN]
      /\ retries' \in [Execs -> 0..MaxAttempts]
      /\ \A y \in Execs \ {x} : UNCHANGED <<retries[y], closed[y]>>
  <2>1. due \in [Execs -> BOOLEAN] /\ closed \in [Execs -> BOOLEAN]
        /\ retries \in [Execs -> 0..MaxAttempts] /\ 0 \in 0..MaxAttempts
    BY RuntimeAssumption DEF RuntimeInv, TypeOK
  <2>2. /\ UNCHANGED due \/ due' = [due EXCEPT ![x] = TRUE]
        /\ \/ UNCHANGED closed
           \/ \E b \in BOOLEAN : closed' = [closed EXCEPT ![x] = b]
        /\ UNCHANGED retries \/ retries' = [retries EXCEPT ![x] = 0]
    BY DEF Pause, Resume, Cancel, Retry
  <2>3. due' \in [Execs -> BOOLEAN]
    BY <2>1, <2>2
  <2>4. closed' \in [Execs -> BOOLEAN] /\ \A y \in Execs \ {x} : closed'[y] = closed[y]
    BY <2>1, <2>2
  <2>5. retries' \in [Execs -> 0..MaxAttempts] /\ \A y \in Execs \ {x} : retries'[y] = retries[y]
    BY <2>1, <2>2
  <2> QED BY <2>3, <2>4, <2>5
<1>3. to \in Statuses /\ TypeOK /\ RowOK(x)
  BY DEF RuntimeInv
<1>4. TypeOK'
  <2>1. controls' \in 0..MaxControls
    BY <1>1, <1>3, RuntimeAssumption DEF TypeOK
  <2> QED BY <1>1, <1>2, <1>3, <2>1, Released DEF TypeOK, memory
<1>5. \A v \in Workers : SameWorker(v)
  BY <1>1, MemorySame
<1>6. \A y \in Execs : y # x => SameRow(y)
  BY <1>1, <1>2, <1>3, Released DEF SameRow
<1>7. ~closed'[x] => retries'[x] < MaxAttempts
  BY <1>3, RuntimeAssumption DEF RowOK, TypeOK, Pause, Resume, Cancel, Retry
<1>8. RowOK(x)' /\ owner'[x] = Nobody
  BY <1>1, <1>3, <1>7, Released DEF RowOK
<1> QED BY <1>4, <1>5, <1>6, <1>8, StepOfRow

LEMMA RowStep ==
  ASSUME RuntimeInv, NEW x \in Execs,
         Start(x) \/ LeaseExpires(x) \/ BecomesDue(x) \/ DeadlinePasses(x)
  PROVE  RuntimeInv'
<1>1. \A v \in Workers : SameWorker(v)
  BY MemorySame DEF Start, LeaseExpires, BecomesDue, DeadlinePasses
<1>2. /\ \A y \in Execs : y # x => SameRow(y)
      /\ UNCHANGED <<owner[x], at[x]>>
  BY DEF Start, LeaseExpires, BecomesDue, DeadlinePasses, SameRow, RuntimeInv, TypeOK
<1>3. RowOK(x)'
  BY DEF Start, LeaseExpires, BecomesDue, DeadlinePasses, RowOK, RuntimeInv, TypeOK
<1>4. TypeOK'
  <2>1. UNCHANGED <<at, retries, owner, closed, attempt, pc, batch, cur, node, seen, switches,
                    performed, controls, flips, faults>>
    BY DEF Start, LeaseExpires, BecomesDue, DeadlinePasses, memory, bounds
  <2>2. /\ status' \in [Execs -> Statuses] /\ lease' \in [Execs -> {"none", "live", "expired"}]
        /\ due' \in [Execs -> BOOLEAN] /\ late' \in [Execs -> BOOLEAN]
    BY DEF Start, LeaseExpires, BecomesDue, DeadlinePasses, RuntimeInv, TypeOK
  <2> QED BY <2>1, <2>2 DEF RuntimeInv, TypeOK
<1> QED BY <1>1, <1>2, <1>3, <1>4, StepOfRow

LEMMA NextRuntimeInv == RuntimeInv /\ [Next]_vars => RuntimeInv'
<1> SUFFICES ASSUME RuntimeInv, [Next]_vars PROVE RuntimeInv'
  OBVIOUS
<1>1. ASSUME NEW w \in Workers, WorkerStep(w) \/ Throw(w) \/ Abandon(w) PROVE RuntimeInv'
  BY <1>1, WorkerStepKeeps
<1>2. ASSUME NEW x \in Execs, \/ Start(x) \/ Pause(x) \/ Resume(x) \/ Cancel(x) \/ Retry(x)
                              \/ LeaseExpires(x) \/ BecomesDue(x) \/ DeadlinePasses(x)
      PROVE  RuntimeInv'
  BY <1>2, ControlStep, RowStep
<1>3. CASE Flip
  <2>1. TypeOK'
    BY <1>3, RuntimeAssumption DEF Flip, RuntimeInv, TypeOK, execution, memory
  <2>2. UNCHANGED <<execution, memory>>
    BY <1>3 DEF Flip
  <2> QED BY <2>1, <2>2 DEF RuntimeInv, RowOK, InHand, AtNode, execution, memory
<1>4. CASE UNCHANGED vars
  BY <1>4 DEF RuntimeInv, TypeOK, RowOK, InHand, AtNode, vars, execution, memory, bounds
<1> QED BY <1>1, <1>2, <1>3, <1>4 DEF Next
-----------------------------------------------------------------------------
(* The theorems.                                                           *)

LEMMA RuntimeInvariant == Spec => []RuntimeInv
BY InitRuntimeInv, NextRuntimeInv, PTL DEF Spec

\* Every execution, attempt and worker keeps its type, and the retry count
\* never passes MAX_ATTEMPTS, although recovery and the catch block both count.
THEOREM RuntimeTyped == Spec => []TypeOK
<1>1. RuntimeInv => TypeOK
  BY DEF RuntimeInv
<1> QED BY <1>1, RuntimeInvariant, PTL

\* An execution that waits to be run again can be claimed again, whatever
\* recoveries, controls and failed writes brought it there.
THEOREM WaitingCanBeClaimed == Spec => []NotStranded
<1>1. RuntimeInv => NotStranded
  <2> SUFFICES ASSUME RuntimeInv, NEW x \in Execs,
                      status[x] \in {"PENDING", "FAILED"}, ~closed[x]
               PROVE  retries[x] < MaxAttempts /\ lease[x] = "none"
    BY DEF NotStranded
  <2> QED BY DEF RuntimeInv, RowOK
<1> QED BY <1>1, RuntimeInvariant, PTL

\* A step moves the recorded node of an execution forward or not at all: a
\* worker that lost its lease and one that took it over never undo each other.
LEMMA StepsForward ==
  ASSUME RuntimeInv, [Next]_vars, NEW x \in Execs, at'[x] # at[x]
  PROVE  at[x] # 0 /\ (at'[x] = 0 \/ at'[x] > at[x])
<1>1. PICK w \in Workers : Enter(w) \/ Complete(w) \/ Delay(w) \/ Progress(w)
  <2>1. at' # at
    OBVIOUS
  <2> QED BY <2>1 DEF Next, WorkerStep, Recover, Claim, Load, EndBatch, ReadSwitches, Hold, TimeOut,
       Branch, Postpone, FindAttempt, CheckLease, Mark, Act, Succeed, ActionFails, PauseHere,
       RecordFailure, Throw, Abandon, Start, Pause, Resume, Cancel, Retry, Control, LeaseExpires,
       BecomesDue, DeadlinePasses, Flip, vars, execution
<1>2. Holds(w, cur[w]) /\ pc[w] \notin Between
  BY <1>1 DEF Enter, Complete, Delay, Progress, Between
<1>3. x = cur[w] /\ owner[x] = w /\ cur[w] \in Execs /\ AtNode(w)
  BY <1>1, <1>2, InHandFacts DEF Enter, Complete, Delay, Progress, Holds, RuntimeInv, TypeOK
<1>4. /\ pc[w] \in Opening \cup Walking => node[w] = at[x]
      /\ pc[w] = "loop" => node[w] = at[x] \/ (at[x] # 0 /\ (node[w] = 0 \/ node[w] > at[x]))
  BY <1>3 DEF AtNode
<1>5. CASE Enter(w) \/ Complete(w)
  <2>1. at'[x] = node[w] /\ pc[w] \in {"begin", "loop"}
    BY <1>2, <1>3, <1>5 DEF Enter, Complete, RuntimeInv, TypeOK
  <2> QED BY <1>4, <2>1 DEF Opening
<1>6. CASE Delay(w) \/ Progress(w)
  <2>1. node[w] \in Nodes /\ node[w] = at[x] /\ node[w] # 0
    BY <1>2, <1>4, <1>6, InHandFacts, RuntimeAssumption DEF Delay, Progress, Walking
  <2>2. at'[x] \in Follows[node[w]]
    BY <1>2, <1>3, <1>6 DEF Delay, Progress, RuntimeInv, TypeOK
  <2> QED BY <2>1, <2>2, RuntimeAssumption
<1> QED BY <1>1, <1>5, <1>6

\* Recorded progress never moves back along the graph.
THEOREM ProgressNeverGoesBack == Spec => ProgressIsMonotone
<1>1. RuntimeInv /\ [Next]_vars
        => [\A x \in Execs : at'[x] # at[x] => at[x] # 0 /\ (at'[x] = 0 \/ at'[x] > at[x])]_vars
  BY StepsForward
<1> QED BY <1>1, RuntimeInvariant, PTL DEF Spec, ProgressIsMonotone
-----------------------------------------------------------------------------
(* Executions at rest.                                                     *)

\* What moves an execution at rest: its owner, or a worker that has seen
\* automation switched off.
LEMMA RestingIsLeft ==
  ASSUME RuntimeInv, [Next]_vars, NEW x \in Execs, Resting(x), status'[x] # status[x]
  PROVE  \/ status[x] # "COMPLETED" /\ controls' = controls + 1
         \/ \E w \in Workers : Hold(w) /\ cur[w] = x
<1>1. status[x] # "RUNNING" /\ status[x] # "ABSENT" /\ RowOK(x)
  BY DEF RuntimeInv, RowOK, Resting
<1>2. ASSUME NEW w \in Workers, WorkerStep(w) \/ Throw(w) \/ Abandon(w)
      PROVE  Hold(w) /\ cur[w] = x
  <2>1. CASE Hold(w)
    BY <2>1 DEF Hold, Release, RuntimeInv, TypeOK
  <2>2. CASE Recover(w) \/ Claim(w)
    BY <1>1, <2>2 DEF Recover, Abandoned, Claim, Claimable, Resting
  <2>3. CASE TimeOut(w)
    <3>1. owner[cur[w]] = w /\ Release(cur[w], "FAILED") /\ x = cur[w]
      BY <2>3 DEF TimeOut, Release, RuntimeInv, TypeOK
    <3> QED BY <1>1, <3>1, RuntimeAssumption DEF RowOK
  <2>4. CASE \/ Complete(w) \/ Delay(w) \/ Postpone(w) \/ PauseHere(w) \/ RecordFailure(w)
    <3>1. Holds(w, cur[w]) /\ \E to \in Statuses : Release(cur[w], to)
      BY <2>4 DEF Complete, Delay, Postpone, PauseHere, RecordFailure
    <3>2. x = cur[w]
      BY <3>1 DEF Release, RuntimeInv, TypeOK
    <3> QED BY <1>1, <3>1, <3>2 DEF Holds
  <2>5. CASE \/ Load(w) \/ EndBatch(w) \/ ReadSwitches(w) \/ Enter(w) \/ Branch(w) \/ FindAttempt(w)
             \/ CheckLease(w) \/ Mark(w) \/ Act(w) \/ Succeed(w) \/ ActionFails(w) \/ Progress(w)
             \/ Throw(w) \/ Abandon(w)
    BY <2>5 DEF Load, EndBatch, ReadSwitches, Enter, Branch, FindAttempt, CheckLease, Mark, Act,
       Succeed, ActionFails, Progress, Throw, Abandon, execution
  <2> QED BY <1>2, <2>1, <2>2, <2>3, <2>4, <2>5 DEF WorkerStep
<1>3. ASSUME NEW y \in Execs, \/ Start(y) \/ LeaseExpires(y) \/ BecomesDue(y) \/ DeadlinePasses(y)
      PROVE  FALSE
  BY <1>1, <1>3 DEF Start, LeaseExpires, BecomesDue, DeadlinePasses, RuntimeInv, TypeOK
<1>4. ASSUME NEW y \in Execs, Pause(y) \/ Resume(y) \/ Cancel(y) \/ Retry(y)
      PROVE  status[x] # "COMPLETED" /\ controls' = controls + 1
  <2>1. PICK to \in Statuses : Release(y, to)
    BY <1>4 DEF Pause, Resume, Cancel, Retry, Control
  <2>2. x = y
    BY <2>1 DEF Release, RuntimeInv, TypeOK
  <2> QED BY <1>4, <2>2 DEF Pause, Resume, Cancel, Retry, Control
<1>5. CASE Flip \/ UNCHANGED vars
  BY <1>5 DEF Flip, vars, execution
<1> QED BY <1>2, <1>3, <1>4, <1>5 DEF Next

\* What OwnerDecides promises, but for the worker that puts its execution back.
OwnerOrHoldDecides ==
  [][\A x \in Execs : Resting(x) /\ status'[x] # status[x] =>
       \/ status[x] # "COMPLETED" /\ controls' = controls + 1
       \/ \E w \in Workers : Hold(w) /\ cur[w] = x]_vars

\* The write by id alone that puts an execution back while automation is off is
\* the only step of a worker that overrides its owner: every other write of a
\* worker, however late, is stopped by its guard.
THEOREM OnlyTheHoldOverrides == Spec => OwnerOrHoldDecides
<1>1. RuntimeInv /\ [Next]_vars
        => [\A x \in Execs : Resting(x) /\ status'[x] # status[x] =>
              \/ status[x] # "COMPLETED" /\ controls' = controls + 1
              \/ \E w \in Workers : Hold(w) /\ cur[w] = x]_vars
  BY RestingIsLeft
<1> QED BY <1>1, RuntimeInvariant, PTL DEF Spec, OwnerOrHoldDecides

\* The kill switches are on, and every worker has read them so.
Enabled ==
  /\ switches = "on"
  /\ \A w \in Workers : pc[w] # "hold"

LEMMA EnabledStays ==
  ASSUME RuntimeInv, Enabled, MaxFlips = 0, [Next]_vars
  PROVE  Enabled'
<1>1. ~Flip
  BY DEF Flip, RuntimeInv, TypeOK
<1>2. switches' = "on"
  BY <1>1 DEF Enabled, Next, WorkerStep, Recover, Claim, Load, EndBatch, ReadSwitches, Hold, TimeOut,
     Enter, Complete, Delay, Progress, Branch, Postpone, FindAttempt, CheckLease, Mark, Act,
     Succeed, ActionFails, PauseHere, RecordFailure, Throw, Abandon, Start, Pause, Resume,
     Cancel, Retry, Control, LeaseExpires, BecomesDue, DeadlinePasses, vars
<1>3. ASSUME NEW w \in Workers, pc'[w] = "hold"
      PROVE  pc[w] = "hold"
  <2>1. CASE \E v \in Workers : WorkerStep(v) \/ Throw(v) \/ Abandon(v)
    <3>1. PICK v \in Workers : WorkerStep(v) \/ Throw(v) \/ Abandon(v)
      BY <2>1
    <3>2. pc' = pc \/ \E t \in Steps \ {"hold"} : pc' = [pc EXCEPT ![v] = t]
      BY <3>1 DEF Steps, Between, Opening, Walking, Enabled, WorkerStep, Recover, Claim, Load,
         EndBatch, ReadSwitches, Hold, TimeOut, Enter, Complete, Delay, Progress, Branch,
         Postpone, FindAttempt, CheckLease, Mark, Act, Succeed, ActionFails, PauseHere,
         RecordFailure, Throw, Abandon, Goto, Leave
    <3> QED BY <1>3, <3>2 DEF RuntimeInv, TypeOK
  <2>2. CASE ~\E v \in Workers : WorkerStep(v) \/ Throw(v) \/ Abandon(v)
    BY <1>1, <1>3, <2>2 DEF Next, Start, Pause, Resume, Cancel, Retry, Control, LeaseExpires,
       BecomesDue, DeadlinePasses, vars, memory
  <2> QED BY <2>1, <2>2
<1> QED BY <1>2, <1>3 DEF Enabled

\* While automation stays on, only the owner moves a paused, completed,
\* cancelled or finally failed execution, and nobody a completed one.  (Putting
\* an execution back by its id alone breaks this as soon as it is switched off.)
THEOREM WorkersLeaveTheRestAlone ==
  ASSUME MaxFlips = 0
  PROVE  Spec => OwnerDecides
<1>1. Init => Enabled
  BY DEF Init, Enabled
<1>2. RuntimeInv /\ Enabled /\ [Next]_vars => Enabled'
  BY EnabledStays
<1>3. RuntimeInv /\ Enabled /\ [Next]_vars
        => [\A x \in Execs : Resting(x) /\ status'[x] # status[x]
              => status[x] # "COMPLETED" /\ controls' = controls + 1]_vars
  BY RestingIsLeft DEF Enabled, Hold
<1> QED BY <1>1, <1>2, <1>3, RuntimeInvariant, PTL DEF Spec, OwnerDecides
-----------------------------------------------------------------------------
(* No step of the walk is skipped.                                         *)

\* A worker has rightly come to m: a node that is walked to, or an end.
Reached(x, m) == IF m = 0 THEN Ended(x) ELSE m \in Walked(x)

\* What is recorded of an execution was walked to, and an output that is
\* stored is one of an action that was performed.
WalkedRow(x) ==
  /\ \A m \in Nodes : performed[x][m] => m \in Walked(x)
  /\ \A m \in Ends : at[x] = m => Reached(x, m)
  /\ status[x] = "COMPLETED" => Ended(x)
  /\ \A m \in Nodes : attempt[x][m] = "SUCCEEDED" => performed[x][m]

\* Where a worker is was walked to, whether or not it still has its lease.
WalkedBy(w) ==
  \A x \in Execs, n \in Ends : cur[w] = x /\ node[w] = n =>
    /\ pc[w] \in Opening \cup Walking \cup {"loop"} => Reached(x, n)
    /\ pc[w] \in {"acted", "progress"} => n \in Nodes /\ performed[x][n]

\* The invariant; RuntimeInv carries the types.
WalkInv ==
  /\ \A x \in Execs : WalkedRow(x)
  /\ \A w \in Workers : WalkedBy(w)

LEMMA FirstIsWalked ==
  ASSUME NEW x \in Execs
  PROVE  1 \in Walked(x)
BY RuntimeAssumption DEF Walked, Closure

\* The walk goes on from a passed node to whatever follows it.
LEMMA WalkGoesOn ==
  ASSUME NEW x \in Execs, NEW n \in Nodes, n \in Walked(x), Passed(x, n),
         NEW m \in Follows[n]
  PROVE  m \in Ends /\ Reached(x, m)
<1>1. m \in Ends
  BY RuntimeAssumption
<1>2. CASE m = 0
  BY <1>2, RuntimeAssumption DEF Reached, Ended, Ends
<1>3. CASE m # 0
  <2>1. m \in Nodes
    BY <1>1, <1>3 DEF Ends
  <2>2. ASSUME NEW S \in SUBSET Nodes, Closure(x, S) PROVE m \in S
    <3>1. n \in S
      BY <2>2 DEF Walked
    <3> QED BY <1>3, <2>2, <3>1 DEF Closure
  <2> QED BY <1>1, <1>3, <2>1, <2>2 DEF Reached, Walked
<1> QED BY <1>2, <1>3

\* Performed actions stay performed.
Grows == \A x \in Execs, n \in Nodes : performed[x][n] => performed'[x][n]

\* The more is performed, the more is walked to.
LEMMA WalkGrows ==
  ASSUME Grows, NEW x \in Execs
  PROVE  /\ Walked(x) \subseteq Walked(x)'
         /\ Ended(x) => Ended(x)'
         /\ \A m : Reached(x, m) => Reached(x, m)'
<1>1. \A n \in Nodes : Passed(x, n) => Passed(x, n)'
  BY DEF Grows, Passed
<1>2. \A S \in SUBSET Nodes : Closure(x, S)' => Closure(x, S)
  BY <1>1 DEF Closure
<1>3. Walked(x) \subseteq Walked(x)'
  BY <1>2 DEF Walked
<1>4. Ended(x) => Ended(x)'
  <2>1. Walked(x) \subseteq Nodes
    BY DEF Walked
  <2> QED BY <1>1, <1>3, <2>1 DEF Ended
<1> QED BY <1>3, <1>4 DEF Reached

\* What a step may do to an execution: record what was walked to.
RowMove(x) ==
  /\ \A m \in Nodes : performed'[x][m] => performed[x][m] \/ m \in Walked(x)
  /\ \A m \in Ends : at'[x] = m => at[x] = m \/ Reached(x, m)
  /\ status'[x] = "COMPLETED" => status[x] = "COMPLETED" \/ Ended(x)
  /\ \A m \in Nodes : attempt'[x][m] = "SUCCEEDED"
                        => attempt[x][m] = "SUCCEEDED" \/ performed[x][m]

\* What a step may do to a worker: bring it to a node that was walked to.
WorkerMove(w) ==
  \A x \in Execs, n \in Ends : cur'[w] = x /\ node'[w] = n =>
    /\ pc'[w] \in Opening \cup Walking \cup {"loop"} =>
         \/ Reached(x, n)
         \/ pc[w] \in Opening \cup Walking \cup {"loop"} /\ cur[w] = x /\ node[w] = n
    /\ pc'[w] \in {"acted", "progress"} =>
         \/ n \in Nodes /\ performed'[x][n]
         \/ pc[w] \in {"acted", "progress"} /\ cur[w] = x /\ node[w] = n

LEMMA WalkFrame ==
  ASSUME WalkInv, Grows,
         \A x \in Execs : RowMove(x),
         \A w \in Workers : WorkerMove(w)
  PROVE  WalkInv'
<1>1. ASSUME NEW x \in Execs PROVE WalkedRow(x)'
  <2>1. WalkedRow(x) /\ RowMove(x)
    BY DEF WalkInv
  <2>2. \A m \in Nodes : performed'[x][m] => m \in Walked(x)'
    BY <2>1, WalkGrows DEF WalkedRow, RowMove
  <2>3. \A m \in Ends : at'[x] = m => Reached(x, m)'
    BY <2>1, WalkGrows DEF WalkedRow, RowMove
  <2>4. status'[x] = "COMPLETED" => Ended(x)'
    BY <2>1, WalkGrows DEF WalkedRow, RowMove
  <2>5. \A m \in Nodes : attempt'[x][m] = "SUCCEEDED" => performed'[x][m]
    BY <2>1 DEF WalkedRow, RowMove, Grows
  <2> QED BY <2>2, <2>3, <2>4, <2>5 DEF WalkedRow
<1>2. ASSUME NEW w \in Workers PROVE WalkedBy(w)'
  <2> SUFFICES ASSUME NEW x \in Execs, NEW n \in Ends, cur'[w] = x, node'[w] = n
               PROVE  /\ pc'[w] \in Opening \cup Walking \cup {"loop"} => Reached(x, n)'
                      /\ pc'[w] \in {"acted", "progress"} => n \in Nodes /\ performed'[x][n]
    BY DEF WalkedBy
  <2>1. WalkedBy(w) /\ WorkerMove(w)
    BY DEF WalkInv
  <2>2. pc'[w] \in Opening \cup Walking \cup {"loop"} => Reached(x, n)'
    BY <2>1, WalkGrows DEF WalkedBy, WorkerMove
  <2>3. pc'[w] \in {"acted", "progress"} => n \in Nodes /\ performed'[x][n]
    BY <2>1 DEF WalkedBy, WorkerMove, Grows
  <2> QED BY <2>2, <2>3
<1> QED BY <1>1, <1>2 DEF WalkInv

LEMMA InitWalkInv == Init => WalkInv
<1> SUFFICES ASSUME Init PROVE WalkInv
  OBVIOUS
<1>1. ASSUME NEW x \in Execs PROVE WalkedRow(x)
  <2>1. at[x] = 1 /\ Reached(x, 1)
    BY FirstIsWalked DEF Init, Reached
  <2> QED BY <2>1 DEF Init, WalkedRow
<1>2. ASSUME NEW w \in Workers PROVE WalkedBy(w)
  BY RuntimeAssumption DEF Init, WalkedBy
<1> QED BY <1>1, <1>2 DEF WalkInv

\* A row that is not completed by a step and whose progress stays.
LEMMA QuietRow ==
  ASSUME UNCHANGED <<at, attempt, performed>>, NEW x \in Execs,
         status'[x] = "COMPLETED" => status[x] = "COMPLETED"
  PROVE  RowMove(x)
BY DEF RowMove

LEMMA SameWorkerMoves ==
  ASSUME NEW w \in Workers, SameWorker(w)
  PROVE  WorkerMove(w)
BY DEF WorkerMove, SameWorker

\* A worker that gives up its execution.
LEMMA LeaveMoves ==
  ASSUME TypeOK, NEW w \in Workers, Leave(w)
  PROVE  \A v \in Workers : WorkerMove(v)
BY RuntimeAssumption DEF Leave, WorkerMove, TypeOK

\* Steps of a worker that record no progress and bring nobody to a node.
LEMMA QuietWalk ==
  ASSUME RuntimeInv, WalkInv, NEW w \in Workers,
         \/ Recover(w) \/ Claim(w) \/ EndBatch(w) \/ ReadSwitches(w) \/ Hold(w) \/ TimeOut(w)
         \/ Postpone(w) \/ CheckLease(w) \/ PauseHere(w) \/ RecordFailure(w)
         \/ Throw(w) \/ Abandon(w)
  PROVE  WalkInv'
<1> USE DEF Opening, Walking
<1>1. TypeOK
  BY DEF RuntimeInv
<1>2. UNCHANGED <<at, attempt, performed>>
  BY DEF Recover, Claim, EndBatch, ReadSwitches, Hold, TimeOut, Postpone, CheckLease, PauseHere,
     RecordFailure, Throw, Abandon, execution
<1>3. ASSUME NEW x \in Execs, status'[x] = "COMPLETED" PROVE status[x] = "COMPLETED"
  <2>1. CASE Recover(w) \/ Claim(w)
    BY <1>3, <2>1 DEF Recover, Claim
  <2>2. CASE Hold(w) \/ TimeOut(w) \/ Postpone(w) \/ PauseHere(w) \/ RecordFailure(w)
    <3>1. UNCHANGED status
          \/ \E to \in Statuses \ {"COMPLETED"} : status' = [status EXCEPT ![cur[w]] = to]
      BY <2>2 DEF Hold, TimeOut, Postpone, PauseHere, RecordFailure, Release
    <3> QED BY <1>1, <1>3, <3>1 DEF TypeOK
  <2>3. CASE EndBatch(w) \/ ReadSwitches(w) \/ CheckLease(w) \/ Throw(w) \/ Abandon(w)
    BY <1>3, <2>3 DEF EndBatch, ReadSwitches, CheckLease, Throw, Abandon, execution
  <2> QED BY <2>1, <2>2, <2>3
<1>4. ASSUME NEW v \in Workers PROVE WorkerMove(v)
  <2>1. CASE Hold(w) \/ TimeOut(w) \/ Postpone(w) \/ PauseHere(w) \/ RecordFailure(w)
    BY <1>1, <2>1, LeaveMoves DEF Hold, TimeOut, Postpone, PauseHere, RecordFailure
  <2>2. CASE \/ Recover(w) \/ Claim(w) \/ EndBatch(w) \/ Throw(w) \/ Abandon(w)
    <3>1. /\ pc'[w] \in Between \cup {"failed"}
          /\ v # w => SameWorker(v)
      BY <1>1, <2>2 DEF Recover, Claim, EndBatch, Throw, Abandon, Goto, TypeOK, SameWorker,
         Between
    <3> QED BY <3>1, SameWorkerMoves DEF WorkerMove, Between
  <2>3. CASE ReadSwitches(w) \/ CheckLease(w)
    <3>1. /\ pc[w] \in Opening \cup Walking
          /\ pc'[w] \notin {"acted", "progress"}
          /\ UNCHANGED <<cur, node>>
          /\ v # w => SameWorker(v)
      BY <1>1, <2>3 DEF ReadSwitches, CheckLease, Goto, TypeOK, SameWorker
    <3> QED BY <3>1, SameWorkerMoves DEF WorkerMove
  <2> QED BY <2>1, <2>2, <2>3
<1> QED BY <1>2, <1>3, <1>4, QuietRow, WalkFrame DEF Grows

LEMMA LoadWalk ==
  ASSUME RuntimeInv, WalkInv, NEW w \in Workers, Load(w)
  PROVE  WalkInv'
<1>1. UNCHANGED <<execution, attempt, performed>>
  BY DEF Load
<1>2. ASSUME NEW v \in Workers PROVE WorkerMove(v)
  <2>1. PICK y \in batch[w] :
          \/ /\ cur' = [cur EXCEPT ![w] = y]
             /\ node' = [node EXCEPT ![w] = at[y]]
             /\ pc' = [pc EXCEPT ![w] = "switches"]
          \/ UNCHANGED <<cur, node, pc>>
    BY DEF Load
  <2>2. y \in Execs /\ at[y] \in Ends
    BY DEF RuntimeInv, TypeOK
  <2>3. Reached(y, at[y])
    BY <2>2 DEF WalkInv, WalkedRow
  <2>4. v # w => SameWorker(v)
    BY <2>1 DEF RuntimeInv, TypeOK, SameWorker
  <2>5. CASE UNCHANGED <<cur, node, pc>>
    BY <2>5, SameWorkerMoves DEF SameWorker
  <2>6. CASE v = w /\ cur'[w] = y /\ node'[w] = at[y] /\ pc'[w] = "switches"
    BY <2>3, <2>6 DEF WorkerMove
  <2> QED BY <2>1, <2>4, <2>5, <2>6, SameWorkerMoves DEF RuntimeInv, TypeOK
<1> QED BY <1>1, <1>2, QuietRow, WalkFrame DEF Grows, execution

\* The heartbeat records the node the worker has come to.
LEMMA EnterWalk ==
  ASSUME RuntimeInv, WalkInv, NEW w \in Workers, Enter(w)
  PROVE  WalkInv'
<1>1. /\ TypeOK /\ cur[w] \in Execs /\ node[w] \in Nodes
      /\ pc[w] \in Opening \cup {"loop"}
  BY InHandFacts DEF RuntimeInv, TypeOK, Enter, Between, Opening, Ends
<1>2. Reached(cur[w], node[w])
  BY <1>1 DEF WalkInv, WalkedBy, Ends
<1>3. /\ UNCHANGED <<status, attempt, performed>>
      /\ UNCHANGED at \/ at' = [at EXCEPT ![cur[w]] = node[w]]
  BY DEF Enter
<1>4. ASSUME NEW x \in Execs PROVE RowMove(x)
  BY <1>1, <1>2, <1>3 DEF RowMove, TypeOK
<1>5. ASSUME NEW v \in Workers PROVE WorkerMove(v)
  <2>1. CASE Leave(w)
    BY <1>1, <2>1, LeaveMoves
  <2>2. CASE Goto(w, "node")
    <3>1. pc'[w] = "node" /\ UNCHANGED <<cur, node>> /\ (v # w => SameWorker(v))
      BY <1>1, <2>2 DEF Goto, TypeOK, SameWorker
    <3> QED BY <1>1, <3>1, SameWorkerMoves DEF WorkerMove
  <2> QED BY <2>1, <2>2 DEF Enter
<1> QED BY <1>3, <1>4, <1>5, WalkFrame DEF Grows

\* An execution is completed by a worker that has come to an end.
LEMMA CompleteWalk ==
  ASSUME RuntimeInv, WalkInv, NEW w \in Workers, Complete(w)
  PROVE  WalkInv'
<1>1. /\ TypeOK /\ cur[w] \in Execs /\ node[w] = 0 /\ 0 \in Ends
      /\ pc[w] \in Opening \cup {"loop"}
  BY InHandFacts DEF RuntimeInv, Complete, Between, Opening, Ends
<1>2. Reached(cur[w], 0) /\ Ended(cur[w])
  BY <1>1 DEF WalkInv, WalkedBy, Reached
<1>3. /\ UNCHANGED <<attempt, performed>>
      /\ \/ UNCHANGED <<status, at>>
         \/ /\ at' = [at EXCEPT ![cur[w]] = 0]
            /\ status' = [status EXCEPT ![cur[w]] = "COMPLETED"]
      /\ Leave(w)
  BY DEF Complete, Release
<1>4. ASSUME NEW x \in Execs PROVE RowMove(x)
  BY <1>1, <1>2, <1>3 DEF RowMove, TypeOK
<1>5. ASSUME NEW v \in Workers PROVE WorkerMove(v)
  BY <1>1, <1>3, LeaveMoves
<1> QED BY <1>3, <1>4, <1>5, WalkFrame DEF Grows

\* A worker at a node was walked there.
LEMMA AtWalked ==
  ASSUME RuntimeInv, WalkInv, NEW w \in Workers, pc[w] \in Walking
  PROVE  /\ cur[w] \in Execs /\ node[w] \in Nodes /\ node[w] \in Walked(cur[w])
         /\ pc[w] \in {"acted", "progress"} => performed[cur[w]][node[w]]
<1>1. cur[w] \in Execs /\ node[w] \in Nodes /\ node[w] \in Ends
  BY InHandFacts DEF Between, Walking, Ends
<1>2. Reached(cur[w], node[w]) /\ node[w] # 0
  BY <1>1, RuntimeAssumption DEF WalkInv, WalkedBy
<1> QED BY <1>1, <1>2 DEF Reached, WalkInv, WalkedBy

\* A branch and a delay have nothing to perform.
LEMMA BranchWalk ==
  ASSUME RuntimeInv, WalkInv, NEW w \in Workers, Branch(w) \/ Delay(w)
  PROVE  WalkInv'
<1> DEFINE x == cur[w]
<1>1. pc[w] = "node" /\ Kind[node[w]] \in {"branch", "delay"} /\ TypeOK
  BY DEF Branch, Delay, RuntimeInv
<1>2. x \in Execs /\ node[w] \in Nodes /\ node[w] \in Walked(x) /\ Passed(x, node[w])
  BY <1>1, AtWalked DEF Walking, Passed
<1>3. \A m \in Follows[node[w]] : m \in Ends /\ Reached(x, m)
  BY <1>2, WalkGoesOn
<1>4. CASE Branch(w)
  <2>1. PICK n \in Follows[node[w]] : node' = [node EXCEPT ![w] = n]
    BY <1>4 DEF Branch
  <2>2. UNCHANGED <<execution, attempt, performed, cur>> /\ pc' = [pc EXCEPT ![w] = "loop"]
    BY <1>4 DEF Branch
  <2>3. ASSUME NEW v \in Workers PROVE WorkerMove(v)
    <3>1. v # w => SameWorker(v)
      BY <1>1, <2>1, <2>2 DEF TypeOK, SameWorker
    <3>2. pc'[w] = "loop" /\ node'[w] = n /\ cur'[w] = x
      BY <1>1, <2>1, <2>2 DEF TypeOK
    <3>3. WorkerMove(w)
      BY <1>3, <3>2 DEF WorkerMove
    <3> QED BY <3>1, <3>3, SameWorkerMoves
  <2> QED BY <2>2, <2>3, QuietRow, WalkFrame DEF Grows, execution
<1>5. CASE Delay(w)
  <2>1. UNCHANGED <<attempt, performed>> /\ Leave(w)
    BY <1>5 DEF Delay
  <2>2. \/ UNCHANGED <<status, at>>
        \/ /\ status' = [status EXCEPT ![x] = "PENDING"]
           /\ \E n \in Follows[node[w]] : at' = [at EXCEPT ![x] = n]
    BY <1>5 DEF Delay, Release
  <2>3. ASSUME NEW y \in Execs PROVE RowMove(y)
    BY <1>1, <1>2, <1>3, <2>1, <2>2 DEF RowMove, TypeOK
  <2>4. ASSUME NEW v \in Workers PROVE WorkerMove(v)
    BY <1>1, <2>1, LeaveMoves
  <2> QED BY <2>1, <2>3, <2>4, WalkFrame DEF Grows
<1> QED BY <1>4, <1>5

\* An action that is taken for done was performed.
LEMMA AttemptWalk ==
  ASSUME RuntimeInv, WalkInv, NEW w \in Workers,
         FindAttempt(w) \/ Mark(w) \/ Succeed(w) \/ ActionFails(w)
  PROVE  WalkInv'
<1> DEFINE c == cur[w]
           k == node[w]
<1>1. TypeOK /\ pc[w] \in Walking
  BY DEF RuntimeInv, FindAttempt, Mark, Succeed, ActionFails, Walking
<1>2. /\ c \in Execs /\ k \in Nodes /\ k \in Walked(c)
      /\ pc[w] = "acted" => performed[c][k]
  BY <1>1, AtWalked
<1>3. /\ UNCHANGED <<execution, performed, cur, node>>
      /\ pc' = [pc EXCEPT ![w] = pc'[w]]
      /\ pc'[w] \in {"own", "act", "progress", "failed"}
      /\ pc'[w] = "progress" => performed[c][k]
  <2>1. CASE FindAttempt(w)
    <3>1. Done(c, k) => performed[c][k]
      BY <1>2 DEF Done, WalkInv, WalkedRow
    <3> QED BY <1>1, <2>1, <3>1 DEF FindAttempt, Goto, TypeOK
  <2>2. CASE Mark(w) \/ Succeed(w) \/ ActionFails(w)
    BY <1>1, <1>2, <2>2 DEF Mark, Succeed, ActionFails, Goto, TypeOK
  <2> QED BY <2>1, <2>2
<1>4. ASSUME NEW x \in Execs, NEW m \in Nodes, attempt'[x][m] = "SUCCEEDED"
      PROVE  attempt[x][m] = "SUCCEEDED" \/ performed[x][m]
  <2>1. CASE x = c /\ m = k
    <3>1. CASE Succeed(w)
      BY <1>2, <2>1, <3>1 DEF Succeed
    <3>2. CASE FindAttempt(w) \/ Mark(w) \/ ActionFails(w)
      BY <1>1, <1>4, <2>1, <3>2 DEF FindAttempt, Mark, ActionFails, TypeOK
    <3> QED BY <3>1, <3>2
  <2>2. CASE ~(x = c /\ m = k)
    BY <1>1, <1>2, <1>4, <2>2 DEF FindAttempt, Mark, Succeed, ActionFails, TypeOK
  <2> QED BY <2>1, <2>2
<1>5. ASSUME NEW x \in Execs PROVE RowMove(x)
  BY <1>3, <1>4 DEF RowMove, execution
<1>6. ASSUME NEW v \in Workers PROVE WorkerMove(v)
  <2>1. v # w => SameWorker(v)
    BY <1>1, <1>3 DEF TypeOK, SameWorker
  <2>2. WorkerMove(w)
    BY <1>1, <1>2, <1>3 DEF WorkerMove
  <2> QED BY <2>1, <2>2, SameWorkerMoves
<1> QED BY <1>3, <1>5, <1>6, WalkFrame DEF Grows

\* An action is performed at a node that was walked to.
LEMMA ActWalk ==
  ASSUME RuntimeInv, WalkInv, NEW w \in Workers, Act(w)
  PROVE  WalkInv'
<1> DEFINE c == cur[w]
           k == node[w]
<1>1. TypeOK /\ pc[w] \in Walking /\ pc[w] = "act"
  BY DEF RuntimeInv, Act, Walking
<1>2. c \in Execs /\ k \in Nodes /\ k \in Walked(c)
  BY <1>1, AtWalked
<1>3. /\ UNCHANGED <<execution, attempt, cur, node>>
      /\ performed' = [performed EXCEPT ![c][k] = TRUE]
      /\ pc' = [pc EXCEPT ![w] = "acted"]
  BY DEF Act, Goto
<1>4. \A x \in Execs, m \in Nodes :
        performed'[x][m] = IF x = c /\ m = k THEN TRUE ELSE performed[x][m]
  BY <1>1, <1>2, <1>3 DEF TypeOK
<1>5. Grows
  BY <1>4 DEF Grows
<1>6. ASSUME NEW x \in Execs PROVE RowMove(x)
  BY <1>2, <1>3, <1>4 DEF RowMove, execution
<1>7. ASSUME NEW v \in Workers PROVE WorkerMove(v)
  <2>1. v # w => SameWorker(v)
    BY <1>1, <1>3 DEF TypeOK, SameWorker
  <2>2. pc'[w] = "acted" /\ performed'[c][k]
    BY <1>1, <1>2, <1>3, <1>4 DEF TypeOK
  <2>3. WorkerMove(w)
    BY <1>1, <1>2, <1>3, <2>2 DEF WorkerMove
  <2> QED BY <2>1, <2>3, SameWorkerMoves
<1> QED BY <1>5, <1>6, <1>7, WalkFrame

\* The walk goes on behind an action only once it was performed.
LEMMA ProgressWalk ==
  ASSUME RuntimeInv, WalkInv, NEW w \in Workers, Progress(w)
  PROVE  WalkInv'
<1> DEFINE c == cur[w]
           k == node[w]
<1>1. TypeOK /\ pc[w] \in Walking /\ pc[w] = "progress"
  BY DEF RuntimeInv, Progress, Walking
<1>2. /\ c \in Execs /\ k \in Nodes /\ k \in Walked(c) /\ Passed(c, k)
  BY <1>1, AtWalked DEF Passed
<1>3. \A m \in Follows[k] : m \in Ends /\ Reached(c, m)
  BY <1>2, WalkGoesOn
<1>4. UNCHANGED <<status, attempt, performed>>
  BY DEF Progress
<1>5. CASE Leave(w) /\ UNCHANGED at
  BY <1>1, <1>4, <1>5, LeaveMoves, QuietRow, WalkFrame DEF Grows
<1>6. ASSUME NEW n \in Follows[k],
             at' = [at EXCEPT ![c] = n],
             node' = [node EXCEPT ![w] = IF Kind[k] = "complete" THEN 0 ELSE n],
             pc' = [pc EXCEPT ![w] = IF Kind[k] = "pause" THEN "pause" ELSE "loop"],
             UNCHANGED cur
      PROVE  WalkInv'
  <2>1. Reached(c, n) /\ n \in Ends
    BY <1>3
  <2>2. Kind[k] = "complete" => Reached(c, 0)
    BY <1>2 DEF Reached, Ended
  <2>3. ASSUME NEW x \in Execs PROVE RowMove(x)
    BY <1>1, <1>2, <1>4, <1>6, <2>1 DEF RowMove, TypeOK
  <2>4. ASSUME NEW v \in Workers PROVE WorkerMove(v)
    <3>1. v # w => SameWorker(v)
      BY <1>1, <1>6 DEF TypeOK, SameWorker
    <3>2. /\ pc'[w] \in {"pause", "loop"}
          /\ node'[w] = IF Kind[k] = "complete" THEN 0 ELSE n
      BY <1>1, <1>6 DEF TypeOK
    <3>3. WorkerMove(w)
      BY <1>6, <2>1, <2>2, <3>2 DEF WorkerMove, Opening, Walking
    <3> QED BY <3>1, <3>3, SameWorkerMoves
  <2> QED BY <1>4, <2>3, <2>4, WalkFrame DEF Grows
<1> QED BY <1>5, <1>6 DEF Progress

\* The owner of the business, time and the switches move nobody's walk.
LEMMA OutsideWalk ==
  ASSUME RuntimeInv, WalkInv,
         \/ \E x \in Execs : \/ Start(x) \/ Pause(x) \/ Resume(x) \/ Cancel(x) \/ Retry(x)
                             \/ LeaseExpires(x) \/ BecomesDue(x) \/ DeadlinePasses(x)
         \/ Flip
         \/ UNCHANGED vars
  PROVE  WalkInv'
<1>1. UNCHANGED <<at, attempt, performed, memory>>
  BY DEF Start, Pause, Resume, Cancel, Retry, Control, LeaseExpires, BecomesDue, DeadlinePasses,
     Flip, execution, vars
<1>2. ASSUME NEW x \in Execs, status'[x] = "COMPLETED" PROVE status[x] = "COMPLETED"
  <2>1. \/ UNCHANGED status
        \/ \E y \in Execs, to \in Statuses \ {"COMPLETED"} : status' = [status EXCEPT ![y] = to]
    BY DEF Start, Pause, Resume, Cancel, Retry, Control, Release, LeaseExpires, BecomesDue,
       DeadlinePasses, Flip, execution, vars
  <2> QED BY <1>2, <2>1 DEF RuntimeInv, TypeOK
<1>3. \A v \in Workers : WorkerMove(v)
  BY <1>1, MemorySame, SameWorkerMoves
<1> QED BY <1>1, <1>2, <1>3, QuietRow, WalkFrame DEF Grows

LEMMA NextWalkInv == RuntimeInv /\ WalkInv /\ [Next]_vars => WalkInv'
<1> SUFFICES ASSUME RuntimeInv, WalkInv, [Next]_vars PROVE WalkInv'
  OBVIOUS
<1>1. ASSUME NEW w \in Workers, WorkerStep(w) \/ Throw(w) \/ Abandon(w) PROVE WalkInv'
  BY <1>1, QuietWalk, LoadWalk, EnterWalk, CompleteWalk, BranchWalk, AttemptWalk, ActWalk,
     ProgressWalk DEF WorkerStep
<1> QED BY <1>1, OutsideWalk DEF Next

\* No crash, retry, recovery or second worker makes the walk skip an action:
\* one is performed, and an execution completed, only behind performed ones.
THEOREM WalkSkipsNothing == Spec => []NothingSkipped
<1>1. Init => RuntimeInv /\ WalkInv
  BY InitRuntimeInv, InitWalkInv
<1>2. RuntimeInv /\ WalkInv /\ [Next]_vars => (RuntimeInv /\ WalkInv)'
  BY NextRuntimeInv, NextWalkInv
<1>3. WalkInv => NothingSkipped
  BY DEF WalkInv, WalkedRow, NothingSkipped
<1> QED BY <1>1, <1>2, <1>3, PTL DEF Spec
=============================================================================
