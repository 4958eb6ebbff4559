------------------------ MODULE OrderedDeliveryProofs ------------------------
(***************************************************************************)
(* What OrderedDelivery comes to, for any events and aggregates.  A system *)
(* that implements it has these properties without a proof of its own:     *)
(* EventPipelineProofs takes them over through its refinement.             *)
(***************************************************************************)
EXTENDS OrderedDelivery, TLAPS

\* Events leave the outbox, and reach their subscribers, in the order of their
\* aggregate: what precedes one that was published has been passed, and what
\* precedes one that was delivered is over, or late.
InOrder ==
  \A e \in Events : /\ phase[e] \in Passed => After(e, Passed)
                    /\ phase[e] = "delivered" => After(e, Over)

\* What was delivered stays delivered, what was dropped stays dropped, what was
\* published is not queued again, and what was withheld before it was published
\* can only turn up late.
NeverTakenBack ==
  [][\A e \in Events : /\ phase[e] \in {"delivered", "dropped"} => phase'[e] = phase[e]
                       /\ phase[e] = "withheld" => phase'[e] \in {"withheld", "late"}
                       /\ phase[e] \in Passed => phase'[e] \in Passed]_phase

\* The steps that an event can take lead out of the outbox, and then to an end.
LEMMA MayOnlyAdvance ==
  ASSUME NEW e \in Events, phase'[e] = phase[e] \/ May(e, phase'[e])
  PROVE  /\ phase[e] \in {"delivered", "dropped"} => phase'[e] = phase[e]
         /\ phase[e] = "withheld" => phase'[e] \in {"withheld", "late"}
         /\ phase[e] \in Passed => phase'[e] \in Passed
         /\ phase[e] \in Over => phase'[e] \in Over
         /\ phase'[e] \in Passed => phase[e] \in Passed \/ After(e, Passed)
         /\ phase'[e] = "delivered" => phase[e] = "delivered" \/ After(e, Over)
  BY DEF May, Passed, Over

LEMMA OrderNext == InOrder /\ [Next]_phase => InOrder'
<1> SUFFICES ASSUME InOrder, [Next]_phase, NEW e \in Events
             PROVE  /\ phase'[e] \in Passed => After(e, Passed)'
                    /\ phase'[e] = "delivered" => After(e, Over)'
  BY DEF InOrder
<1>1. ASSUME NEW f \in Events
      PROVE  /\ phase[f] \in Over => phase'[f] \in Over
             /\ phase[f] \in Passed => phase'[f] \in Passed
             /\ phase'[f] \in Passed => phase[f] \in Passed \/ After(f, Passed)
             /\ phase'[f] = "delivered" => phase[f] = "delivered" \/ After(f, Over)
  BY MayOnlyAdvance DEF Next
<1>2. After(e, Passed) => After(e, Passed)'
  BY <1>1 DEF After, Precedes, Passed
<1>3. After(e, Over) => After(e, Over)'
  BY <1>1 DEF After, Precedes, Over
<1> QED BY <1>1, <1>2, <1>3 DEF InOrder

\* Order: a subscriber that is told of an event has been told of, or will
\* never be told of, everything that happened to its aggregate before it, but
\* for what was given up unpublished and may turn up late.
THEOREM PromisedOrder == Spec => []InOrder
<1>1. Init => InOrder
  BY DEF Init, InOrder, Passed
<1> QED BY <1>1, OrderNext, PTL DEF Spec

\* Finality: what was promised of an event is not taken back.
THEOREM PromisedFinality == Spec => NeverTakenBack
<1>1. [Next]_phase =>
        [\A e \in Events : /\ phase[e] \in {"delivered", "dropped"} => phase'[e] = phase[e]
                           /\ phase[e] = "withheld" => phase'[e] \in {"withheld", "late"}
                           /\ phase[e] \in Passed => phase'[e] \in Passed]_phase
  BY MayOnlyAdvance DEF Next
<1> QED BY <1>1, PTL DEF Spec, NeverTakenBack
=============================================================================
