-------------------------- MODULE OrderedDelivery --------------------------
(***************************************************************************)
(* What the event pipeline promises its subscribers: every event that was  *)
(* committed with a business change is published, then delivered, or given *)
(* up on the way, and the events of one aggregate take each of the two     *)
(* steps one after another.  An event that was given up before it was      *)
(* published is not waited for any more, and may turn up late.             *)
(***************************************************************************)
EXTENDS Naturals

CONSTANTS
  Events,       \* event numbers, in the order (created_at, id)
  Aggregate     \* the aggregate an event belongs to

VARIABLE phase  \* what has become of each event

\* Given up before its publication an event is withheld, and late if it is
\* published after all; given up afterwards it is dropped.
Phases == {"absent", "queued", "published", "delivered", "dropped", "withheld", "late"}

\* Nothing waits for the publication, or for the delivery, of these.
Passed == {"published", "delivered", "dropped", "withheld", "late"}
Over == {"delivered", "dropped", "withheld", "late"}

\* f precedes e in e's aggregate.
Precedes(f, e) == f < e /\ Aggregate[f] = Aggregate[e]

\* Every earlier event of e's aggregate has got as far as one of done.
After(e, done) == \A f \in Events : Precedes(f, e) => phase[f] \in done

\* The steps of one event: publication is in order, and so is delivery.
May(e, to) ==
  \/ phase[e] = "absent" /\ to = "queued"
  \/ phase[e] = "queued" /\ to \in {"published", "withheld"} /\ After(e, Passed)
  \/ phase[e] \in {"published", "late"} /\ to \in {"delivered", "dropped"} /\ After(e, Over)
  \/ phase[e] = "withheld" /\ to = "late"

Init == phase = [e \in Events |-> "absent"]

\* One statement may give up events of several aggregates at once.
Next ==
  /\ phase' \in [Events -> Phases]
  /\ \A e \in Events : phase'[e] = phase[e] \/ May(e, phase'[e])

Spec == Init /\ [][Next]_phase
=============================================================================
