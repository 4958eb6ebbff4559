--------------------------- MODULE InvoicePayments ---------------------------
(***************************************************************************)
(* Collecting an invoice over Stripe                                       *)
(* (modules/invoices/invoicePayments.service.ts).  A payment link is a     *)
(* transaction row and a Checkout Session at Stripe; the session's outcome *)
(* arrives as a webhook, any number of times and at any time; a refund is  *)
(* a call to Stripe followed by a write.  What has been paid is never      *)
(* stored on the invoice but derived from its transactions                 *)
(* (lib/invoices/invoicePayments.domain.ts).                               *)
(*                                                                         *)
(* Link requests and refunds are HTTP handlers that run concurrently, one  *)
(* statement or call to Stripe at a time.  The ledger's columns count      *)
(* cents, Stripe's amounts are whole minor units of the currency, and what *)
(* a refund asks for is in halves of a cent.  One invoice is modelled,     *)
(* since nothing relates two of them.                                      *)
(***************************************************************************)
EXTENDS Integers, FiniteSets, FiniteSetsExt

CONSTANTS
  Txns,       \* transaction rows, numbered in the order of their creation
  Links,      \* concurrent requests for a payment link
  Refunders,  \* concurrent requests for a refund
  NoTxn,      \* a request's transaction when it has none
  Total,      \* the total of the invoice's revision, in cents
  Unit,       \* the currency's minor unit in cents: 1, or 100 if it has no decimals
  MaxRefunds, \* bound on calls for a refund
  MaxFaults   \* bound on crashes, lost answers and refunds that fail later

ASSUME PaymentAssumption ==
  /\ Txns \subseteq Nat
  /\ NoTxn \notin Txns
  /\ Total \in Nat \ {0}
  /\ Unit \in Nat \ {0}
  /\ MaxRefunds \in Nat
  /\ MaxFaults \in Nat

VARIABLES
  invoice,   \* Invoice.status
  status,    \* InvoicePaymentTransaction.status, "absent" before it is created
  amount,    \* InvoicePaymentTransaction.amount
  refunded,  \* InvoicePaymentTransaction.refundedAmount
  linked,    \* its stripeCheckoutSessionId and checkoutUrl are set
  session,   \* Stripe: the Checkout Session created for a transaction
  returned,  \* Stripe: the refunds of its payment that have been accepted
  bounced,   \* Stripe: the part of them that has failed since
  inexact,   \* how many of them are not for the amount that was asked for
  lpc,       \* where a link request is
  owes,      \* the outstanding balance a link request has read
  made,      \* the transaction a link request has created
  rpc,       \* where a refund is
  target,    \* the transaction a refund is for
  snapshot,  \* the refundedAmount a refund has read
  asks,      \* the amount of a refund, in half-cents
  refunds,   \* calls for a refund so far
  faults     \* crashes, lost answers and refunds that have failed so far

ledger == <<status, amount, refunded, linked>>
stripe == <<session, returned, bounced, inexact>>
linking == <<lpc, owes, made>>
refunding == <<rpc, target, snapshot, asks>>
bounds == <<refunds, faults>>
vars == <<invoice, ledger, stripe, linking, refunding, bounds>>

Statuses == {"absent", "pending", "paid", "failed", "partially_refunded", "refunded"}

\* A transaction counts as money in.
Settled == {"paid", "partially_refunded", "refunded"}

\* "open" until the customer has completed it, "unpaid" while a payment that is
\* settled later is outstanding, then "paid"; or "failed", or expired.
Sessions == {"none", "open", "unpaid", "paid", "failed"}

TypeOK ==
  /\ invoice \in {"DRAFT", "SENT", "VOID"}
  /\ status \in [Txns -> Statuses]
  /\ amount \in [Txns -> 0..Total]
  /\ refunded \in [Txns -> 0..Total]
  /\ linked \in [Txns -> BOOLEAN]
  /\ session \in [Txns -> Sessions]
  /\ returned \in [Txns -> Nat]
  /\ bounced \in [Txns -> Nat]
  /\ inexact \in [Txns -> Nat]
  /\ lpc \in [Links -> {"idle", "find", "create", "checkout", "store"}]
  /\ owes \in [Links -> 0..Total]
  /\ made \in [Links -> Txns \cup {NoTxn}]
  /\ rpc \in [Refunders -> {"idle", "call", "write"}]
  /\ target \in [Refunders -> Txns \cup {NoTxn}]
  /\ snapshot \in [Refunders -> 0..Total]
  /\ asks \in [Refunders -> 0..(2 * Total)]
  /\ refunds \in 0..MaxRefunds
  /\ faults \in 0..MaxFaults

Init ==
  /\ invoice = "DRAFT"
  /\ status = [t \in Txns |-> "absent"]
  /\ amount = [t \in Txns |-> 0]
  /\ refunded = [t \in Txns |-> 0]
  /\ linked = [t \in Txns |-> FALSE]
  /\ session = [t \in Txns |-> "none"]
  /\ returned = [t \in Txns |-> 0]
  /\ bounced = [t \in Txns |-> 0]
  /\ inexact = [t \in Txns |-> 0]
  /\ lpc = [l \in Links |-> "idle"]
  /\ owes = [l \in Links |-> 0]
  /\ made = [l \in Links |-> NoTxn]
  /\ rpc = [r \in Refunders |-> "idle"]
  /\ target = [r \in Refunders |-> NoTxn]
  /\ snapshot = [r \in Refunders |-> 0]
  /\ asks = [r \in Refunders |-> 0]
  /\ refunds = 0
  /\ faults = 0
-----------------------------------------------------------------------------
(* The invoice's lifecycle, as far as payments depend on it.               *)

\* sendInvoice: the revision's total is what is to be paid.
SendInvoice ==
  /\ invoice = "DRAFT"
  /\ invoice' = "SENT"
  /\ UNCHANGED <<ledger, stripe, linking, refunding, bounds>>

\* voidInvoice; the transactions and their sessions are left alone.
VoidInvoice ==
  /\ invoice \in {"DRAFT", "SENT"}
  /\ invoice' = "VOID"
  /\ UNCHANGED <<ledger, stripe, linking, refunding, bounds>>
-----------------------------------------------------------------------------
(* deriveInvoicePayment.                                                   *)

\* The sum of the settled transactions, and of what was refunded of them.
PaidIn == MapThenSumSet(LAMBDA t : amount[t], {t \in Txns : status[t] \in Settled})
PaidBack == MapThenSumSet(LAMBDA t : refunded[t], {t \in Txns : status[t] \in Settled})

\* No refundedAmount exceeds its amount, so the difference is not negative.
NetPaid == PaidIn - PaidBack

\* What is left to pay.
Outstanding == IF NetPaid >= Total THEN 0 ELSE Total - NetPaid
-----------------------------------------------------------------------------
(* createInvoicePaymentLink.                                               *)

\* The invoice and its transactions are read; a draft, a void and a fully
\* paid invoice are refused.
ReadInvoice(l) ==
  /\ lpc[l] = "idle"
  /\ invoice = "SENT"
  /\ \E balance \in 1..Total :
       /\ balance = Outstanding
       /\ owes' = [owes EXCEPT ![l] = balance]
  /\ lpc' = [lpc EXCEPT ![l] = "find"]
  /\ UNCHANGED <<invoice, ledger, stripe, made, refunding, bounds>>

\* A transaction whose Checkout Session the code takes to be open.
Open(t) == status[t] = "pending" /\ linked[t]

\* The newest open session, whatever it is for.
Newest(t) == Open(t) /\ \A u \in Txns : Open(u) => u <= t

\* It is returned if it asks for the balance.
FindOpen(l) ==
  /\ lpc[l] = "find"
  /\ LET reusable == \E t \in Txns : Newest(t) /\ amount[t] = owes[l]
     IN lpc' = [lpc EXCEPT ![l] = IF reusable THEN "idle" ELSE "create"]
  /\ UNCHANGED <<invoice, ledger, stripe, owes, made, refunding, bounds>>

\* Otherwise a transaction is created for the balance as it was read.
CreateTxn(l) ==
  /\ lpc[l] = "create"
  /\ \E t \in Txns :
       /\ status[t] = "absent"
       /\ \A u \in Txns : u < t => status[u] # "absent"
       /\ status' = [status EXCEPT ![t] = "pending"]
       /\ amount' = [amount EXCEPT ![t] = owes[l]]
       /\ made' = [made EXCEPT ![l] = t]
  /\ lpc' = [lpc EXCEPT ![l] = "checkout"]
  /\ UNCHANGED <<invoice, refunded, linked, stripe, owes, refunding, bounds>>

\* The request is over.
LinkDone(l) ==
  /\ lpc' = [lpc EXCEPT ![l] = "idle"]
  /\ owes' = [owes EXCEPT ![l] = 0]
  /\ made' = [made EXCEPT ![l] = NoTxn]

\* toMinorUnits of a transaction's amount, in cents: Math.round, half up.
Charged(t) == ((2 * amount[t] + Unit) \div (2 * Unit)) * Unit

\* The provider creates the session; its id and URL are not stored yet.
Checkout(l) ==
  /\ lpc[l] = "checkout"
  /\ Charged(made[l]) > 0
  /\ session' = [session EXCEPT ![made[l]] = "open"]
  /\ lpc' = [lpc EXCEPT ![l] = "store"]
  /\ UNCHANGED <<invoice, ledger, returned, bounced, inexact, owes, made, refunding, bounds>>

\* The session's id and URL are stored, and the URL is handed out.
StoreSession(l) ==
  /\ lpc[l] = "store"
  /\ linked' = [linked EXCEPT ![made[l]] = TRUE]
  /\ LinkDone(l)
  /\ UNCHANGED <<invoice, status, amount, refunded, stripe, refunding, bounds>>

\* The provider refuses, or its answer or the write after it is lost: the
\* catch block gives the transaction up.
CheckoutFails(l) ==
  /\ lpc[l] \in {"checkout", "store"}
  /\ \/ lpc[l] = "checkout" /\ UNCHANGED <<session, faults>>
     \/ /\ faults < MaxFaults
        /\ faults' = faults + 1
        /\ session' = [session EXCEPT ![made[l]] = "open"]
  /\ status' = [status EXCEPT ![made[l]] = "failed"]
  /\ LinkDone(l)
  /\ UNCHANGED <<invoice, amount, refunded, linked, returned, bounced, inexact>>
  /\ UNCHANGED <<refunding, refunds>>

\* The process dies in the middle of a request.
LinkCrash(l) ==
  /\ lpc[l] # "idle"
  /\ faults < MaxFaults
  /\ faults' = faults + 1
  /\ LinkDone(l)
  /\ UNCHANGED <<invoice, ledger, stripe, refunding, refunds>>
-----------------------------------------------------------------------------
(* Stripe's side of a session, and its webhook (applyInvoiceStripeEvent).  *)

\* The customer completes the session, whose URL is known once it is stored:
\* the money has been captured, or comes later.
Pay(t) ==
  /\ session[t] = "open"
  /\ linked[t]
  /\ \E s \in {"paid", "unpaid"} : session' = [session EXCEPT ![t] = s]
  /\ UNCHANGED <<invoice, ledger, returned, bounced, inexact, linking, refunding, bounds>>

\* The money of a completed session arrives.
Capture(t) ==
  /\ session[t] = "unpaid"
  /\ session' = [session EXCEPT ![t] = "paid"]
  /\ UNCHANGED <<invoice, ledger, returned, bounced, inexact, linking, refunding, bounds>>

\* The session expires, or the payment in it fails.
SessionFails(t) ==
  /\ session[t] \in {"open", "unpaid"}
  /\ session' = [session EXCEPT ![t] = "failed"]
  /\ UNCHANGED <<invoice, ledger, returned, bounced, inexact, linking, refunding, bounds>>

\* Mutant: a completed session is taken for a paid one.
CollectedEarly(t) == session[t] \in {"unpaid", "paid"}

\* The event's payment_status is paid.
Collected(t) == session[t] = "paid"

\* Mutant: the claim names the transaction only.
ClaimUnchecked(t) == TRUE

\* The claim's WHERE status = pending.
Claims(t) == status[t] = "pending"

\* Mutant: the amount collected is compared with what the invoice now owes.
MatchesBalance(t) == linked[t] /\ amount[t] = Outstanding

\* The stored session id is the event's: it is not while it is not stored.  The
\* amount is the session's own, so it matches.
Matches(t) == linked[t]

\* A delivery of the completed or succeeded session's event.  An event that
\* does not match is answered with an error and comes again; the claim and
\* the InvoicePaymentReceived event are one transaction.
PaidEvent(t) ==
  /\ Collected(t)
  /\ status[t] # "paid"
  /\ Matches(t)
  /\ Claims(t)
  /\ status' = [status EXCEPT ![t] = "paid"]
  /\ UNCHANGED <<invoice, amount, refunded, linked, stripe, linking, refunding, bounds>>

\* A delivery of the failed or expired session's event; where it changes
\* nothing it is acknowledged all the same.
FailedEvent(t) ==
  /\ session[t] = "failed"
  /\ Claims(t)
  /\ Matches(t)
  /\ status' = [status EXCEPT ![t] = "failed"]
  /\ UNCHANGED <<invoice, amount, refunded, linked, stripe, linking, refunding, bounds>>
-----------------------------------------------------------------------------
(* refundInvoicePayment.                                                   *)

\* What is left of a payment to refund.
Refundable(t) == amount[t] - refunded[t]

\* The transaction is read and the requested amount is checked against it.  It
\* need not be a whole number of cents; an odd number of half-cents stands for
\* every amount between two whole ones.
LoadRefund(r) ==
  /\ rpc[r] = "idle"
  /\ refunds < MaxRefunds
  /\ refunds' = refunds + 1
  /\ \E t \in Txns :
       /\ status[t] \in {"paid", "partially_refunded"}
       /\ \E x \in 1..(2 * Refundable(t)) : asks' = [asks EXCEPT ![r] = x]
       /\ target' = [target EXCEPT ![r] = t]
       /\ snapshot' = [snapshot EXCEPT ![r] = refunded[t]]
  /\ rpc' = [rpc EXCEPT ![r] = "call"]
  /\ UNCHANGED <<invoice, ledger, stripe, linking, faults>>

\* The refund is over.
RefundDone(r) ==
  /\ rpc' = [rpc EXCEPT ![r] = "idle"]
  /\ target' = [target EXCEPT ![r] = NoTxn]
  /\ snapshot' = [snapshot EXCEPT ![r] = 0]
  /\ asks' = [asks EXCEPT ![r] = 0]

\* toMinorUnits of an amount in half-cents, in cents: the nearest multiple of
\* the minor unit, a tie going up; between two cents it may be either of them.
Minor(x) ==
  {y \in 0..(x + Unit) : /\ y % Unit = 0
                         /\ 2 * y - x \in (-Unit)..Unit
                         /\ x - 2 * y = Unit => Unit = 1}

\* Stripe refunds something, and no more than was charged.
Granted(r, y) ==
  LET t == target[r] IN y > 0 /\ returned[t] - bounced[t] + y <= Charged(t)

\* Stripe accepts a refund of y.
Accept(r, y) ==
  /\ returned' = [returned EXCEPT ![target[r]] = @ + y]
  /\ inexact' = [inexact EXCEPT ![target[r]] = IF 2 * y = asks[r] THEN @ ELSE @ + 1]

\* Mutant: a refused refund is booked all the same.
BooksRefused(r, y) == TRUE

\* createRefund throws when Stripe refuses.  The status of an accepted refund,
\* which may be pending, is not looked at.
Books(r, y) == Granted(r, y)

\* The call to Stripe.
CallRefund(r) ==
  /\ rpc[r] = "call"
  /\ \E y \in Minor(asks[r]) :
       /\ IF Granted(r, y) THEN Accept(r, y) ELSE UNCHANGED <<returned, inexact>>
       /\ IF Books(r, y)
          THEN /\ rpc' = [rpc EXCEPT ![r] = "write"]
               /\ UNCHANGED <<target, snapshot, asks>>
          ELSE RefundDone(r)
  /\ UNCHANGED <<invoice, ledger, session, bounced, linking, bounds>>

\* Mutant: the row is incremented by the new total.
NextIncremented(r) == 2 * refunded[target[r]] + 2 * snapshot[r] + asks[r]

\* What a refund makes of the refunded amount, from the one it has read, in
\* half-cents: the amount asked for is added, not the one Stripe was sent.
NextRefunded(r) == 2 * snapshot[r] + asks[r]

\* What a column of whole cents keeps of it.
Stored(x) == {x \div 2, (x + 1) \div 2}

\* The status that goes with it.  The sum itself is compared with the amount,
\* not what is stored of it, and as a sum of floating-point numbers it may be
\* just short of the amount where it should be equal to it.
StatusOf(r) ==
  LET all == 2 * amount[target[r]] IN
  {s \in {"partially_refunded", "refunded"} :
     /\ s = "refunded" => NextRefunded(r) >= all
     /\ s = "partially_refunded" =>
          NextRefunded(r) < all \/ (NextRefunded(r) = all /\ snapshot[r] > 0)}

\* The refund is booked, with its InvoicePaymentRefunded event.
WriteRefund(r) ==
  /\ rpc[r] = "write"
  /\ \E n \in Stored(NextRefunded(r)), s \in StatusOf(r) :
       /\ refunded' = [refunded EXCEPT ![target[r]] = n]
       /\ status' = [status EXCEPT ![target[r]] = s]
  /\ RefundDone(r)
  /\ UNCHANGED <<invoice, amount, linked, stripe, linking, bounds>>

\* The process dies, the call or the write fails; Stripe may have refunded.
RefundFails(r) ==
  /\ rpc[r] # "idle"
  /\ faults < MaxFaults
  /\ faults' = faults + 1
  /\ RefundDone(r)
  /\ \/ UNCHANGED <<returned, inexact>>
     \/ /\ rpc[r] = "call"
        /\ \E y \in Minor(asks[r]) : Granted(r, y) /\ Accept(r, y)
  /\ UNCHANGED <<invoice, ledger, session, bounced, linking, refunds>>

\* A refund that Stripe has accepted fails at the customer's bank, and the
\* money comes back; no webhook handler looks for it.
RefundBounces(t) ==
  /\ faults < MaxFaults
  /\ faults' = faults + 1
  /\ \E y \in 1..(returned[t] - bounced[t]) :
       y % Unit = 0 /\ bounced' = [bounced EXCEPT ![t] = @ + y]
  /\ UNCHANGED <<invoice, ledger, session, returned, inexact, linking, refunding, refunds>>
-----------------------------------------------------------------------------
\* One statement, or one call, of a link request.
LinkStep(l) ==
  \/ ReadInvoice(l) \/ FindOpen(l) \/ CreateTxn(l)
  \/ Checkout(l) \/ StoreSession(l) \/ CheckoutFails(l)

Next ==
  \/ SendInvoice \/ VoidInvoice
  \/ \E l \in Links : LinkStep(l) \/ LinkCrash(l)
  \/ \E t \in Txns : Pay(t) \/ Capture(t) \/ SessionFails(t) \/ RefundBounces(t)
  \/ \E t \in Txns : PaidEvent(t) \/ FailedEvent(t)
  \/ \E r \in Refunders :
       LoadRefund(r) \/ CallRefund(r) \/ WriteRefund(r) \/ RefundFails(r)

Spec == Init /\ [][Next]_vars

\* Stripe delivers a webhook again until it is acknowledged.
Fairness == \A t \in Txns : WF_vars(PaidEvent(t)) /\ WF_vars(FailedEvent(t))

FairSpec == Spec /\ Fairness
-----------------------------------------------------------------------------
\* A transaction counts as money in only if Stripe has captured the money: a
\* session completed with a payment that is still to come, or one that
\* failed, never does (applyInvoiceStripeEvent's payment_status check).
SettledIsCaptured == \A t \in Txns : status[t] \in Settled => session[t] = "paid"

\* The status agrees with the refunded amount, although the two are written by
\* webhooks and refunds that overlap and come in any order: nothing is refunded
\* of a paid transaction or of one that is not settled, and all of a refunded
\* one.  A partially refunded one may have any part of its amount refunded, all
\* of it included: line 206 compares a floating-point sum that is not what is
\* stored (0.70 and then 0.10 of 0.80), and a part of a cent is stored as none.
StatusMatchesRefunds ==
  \A t \in Txns :
    CASE status[t] = "partially_refunded" -> refunded[t] \in 0..amount[t]
      [] status[t] = "refunded" -> refunded[t] = amount[t]
      [] OTHER -> refunded[t] = 0

\* What rounding can add to a payment's refunds, in half-cents: half a minor
\* unit in the call to Stripe, and half a cent in the column.
Rounding(t) == (Unit + 1) * inexact[t]

\* The ledger books no refund that Stripe has not accepted: whatever overlaps,
\* is refused or is cut short, what it has refunded of a payment exceeds what
\* Stripe has accepted by no more than one rounding for every accepted refund
\* whose amount had to be rounded, and by nothing where none had to be.  (It
\* may be lower: a refund whose write is lost, or overwritten, is made and not
\* booked.  And an accepted refund that fails later stays booked.)
BookedRefundsWereAccepted ==
  \A t \in Txns : 2 * refunded[t] <= 2 * returned[t] + Rounding(t)

\* A payment captured at Stripe is booked in the end, whatever has become of
\* the invoice and its other transactions by the time its event arrives.
CaptureIsRecorded ==
  \A t \in Txns : session[t] = "paid" ~> status[t] \in Settled

\* "Reuse a still-open Checkout Session rather than minting a second one."
\* (invoicePayments.service.ts): never two open sessions for an invoice.
OneOpenSession == Cardinality({t \in Txns : Open(t)}) <= 1
=============================================================================
