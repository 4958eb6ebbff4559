---------------------------- MODULE MessageFate ----------------------------
(***************************************************************************)
(* What is promised of a text to a customer, by the automation engine and  *)
(* by the message queue alike.  While it waits it is handed to the carrier *)
(* once, and again only if an acceptance was lost; it is shown as sent     *)
(* only on an acceptance that was not; once it is settled no copy follows, *)
(* unless one that failed is tried again.                                  *)
(***************************************************************************)
EXTENDS Naturals

CONSTANT Messages

VARIABLES
  fate,   \* what has become of a message
  copies, \* how often the carrier has accepted it
  lost    \* how many of these acceptances were never recorded

vars == <<fate, copies, lost>>

\* The carrier has accepted a copy of m, and the acceptance is not lost.
Held(m) == copies[m] > lost[m]

Init ==
  /\ fate = [m \in Messages |-> "absent"]
  /\ copies = [m \in Messages |-> 0]
  /\ lost = [m \in Messages |-> 0]

\* m comes to another fate; nothing is sent.
Becomes(m, to) ==
  /\ fate' = [fate EXCEPT ![m] = to]
  /\ UNCHANGED <<copies, lost>>

\* It is queued, sent, given up or called off, reported on by its carrier, or
\* tried again.
Moves(m) ==
  \/ fate[m] = "absent" /\ Becomes(m, "waiting")
  \/ fate[m] = "waiting" /\ Held(m) /\ Becomes(m, "sent")
  \/ fate[m] = "waiting" /\ Becomes(m, "failed")
  \/ fate[m] = "sent" /\ \E to \in {"delivered", "failed"} : Becomes(m, to)
  \/ fate[m] = "failed" /\ Becomes(m, "waiting")

\* The carrier accepts a copy, and its answer may be missed.
Transmit(m) ==
  /\ fate[m] = "waiting"
  /\ ~Held(m)
  /\ copies' = [copies EXCEPT ![m] = @ + 1]
  /\ \E missed \in {0, 1} : lost' = [lost EXCEPT ![m] = @ + missed]
  /\ UNCHANGED fate

\* An acceptance is lost before it is recorded; m may be given up with it.
Forget(m) ==
  /\ fate[m] = "waiting"
  /\ Held(m)
  /\ lost' = [lost EXCEPT ![m] = @ + 1]
  /\ \E to \in {"waiting", "failed"} : fate' = [fate EXCEPT ![m] = to]
  /\ UNCHANGED copies

Next == \E m \in Messages : Moves(m) \/ Transmit(m) \/ Forget(m)

Spec == Init /\ [][Next]_vars
=============================================================================
