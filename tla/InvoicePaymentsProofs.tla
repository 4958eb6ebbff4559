----------------------- MODULE InvoicePaymentsProofs -----------------------
(***************************************************************************)
(* For any number of transactions, link requests and refunds, any total,   *)
(* any minor unit and any number of crashes: only captured money counts as *)
(* paid, status and refunded amount agree, and no refund is booked that    *)
(* Stripe has not accepted, but for the rounding of what was asked for.    *)
(***************************************************************************)
EXTENDS InvoicePayments, TLAPS

\* A link request between the creation of its transaction and the storing of
\* its session has that transaction for itself, and no event touches it.
LinksInFlight ==
  /\ \A t \in Txns : status[t] = "absent" => ~linked[t]
  /\ \A l \in Links : lpc[l] \in {"checkout", "store"} =>
       /\ made[l] \in Txns
       /\ status[made[l]] \in {"pending", "failed"}
       /\ ~linked[made[l]]
       /\ \A k \in Links \ {l} : lpc[k] \in {"checkout", "store"} => made[k] # made[l]

\* What the ledger may book of a payment's refunds, in half-cents.
Backed(t) == 2 * returned[t] + Rounding(t)

\* A refund in flight is for a settled transaction and asks for no more than
\* is left of it; what it has read may be booked, and after the call so may
\* what it is going to write.
RefundsInFlight ==
  \A r \in Refunders : rpc[r] # "idle" =>
    /\ target[r] \in Txns
    /\ status[target[r]] \in Settled
    /\ asks[r] > 0
    /\ NextRefunded(r) <= 2 * amount[target[r]]
    /\ rpc[r] = "call" => 2 * snapshot[r] <= Backed(target[r])
    /\ rpc[r] = "write" => \A n \in Stored(NextRefunded(r)) : 2 * n <= Backed(target[r])

PayInv ==
  /\ TypeOK
  /\ SettledIsCaptured
  /\ StatusMatchesRefunds
  /\ BookedRefundsWereAccepted
  /\ LinksInFlight
  /\ RefundsInFlight

LEMMA PayInit == Init => PayInv
<1> SUFFICES ASSUME Init PROVE PayInv
  OBVIOUS
<1>1. \A t \in Txns : Rounding(t) = 0
  BY PaymentAssumption DEF Init, Rounding
<1>2. BookedRefundsWereAccepted
  BY <1>1 DEF Init, BookedRefundsWereAccepted
<1> QED
  BY <1>2, PaymentAssumption DEF Init, PayInv, TypeOK, SettledIsCaptured, StatusMatchesRefunds,
     LinksInFlight, RefundsInFlight, Statuses, Settled, Sessions
-----------------------------------------------------------------------------
(* Rounding.                                                               *)

\* A column keeps the nearest cent.
LEMMA StoredIsNear ==
  ASSUME NEW x \in Nat, NEW n \in Stored(x)
  PROVE  n \in Nat /\ 2 * n - x \in (-1)..1
BY DEF Stored

\* A sum of whole cents is kept as it is.
LEMMA StoredIsExact ==
  ASSUME NEW m \in Nat, NEW n \in Stored(2 * m)
  PROVE  n = m
BY DEF Stored

LEMMA RoundingNat ==
  ASSUME TypeOK, NEW t \in Txns
  PROVE  Rounding(t) \in Nat
<1>1. \A k, m \in Nat : k * m \in Nat
  OBVIOUS
<1> QED BY <1>1, PaymentAssumption DEF TypeOK, Rounding

\* An accepted refund, with the rounding it is allowed, covers what it asked
\* for: with half a cent to spare unless it was for exactly that.
LEMMA AcceptedCovers ==
  ASSUME TypeOK, NEW r \in Refunders, target[r] \in Txns, NEW y \in Minor(asks[r]), Accept(r, y),
         NEW t \in Txns
  PROVE  /\ y \in Nat /\ asks[r] \in Nat
         /\ returned'[t] = returned[t] + (IF t = target[r] THEN y ELSE 0)
         /\ IF t = target[r] /\ 2 * y # asks[r]
            THEN Rounding(t)' = Rounding(t) + Unit + 1
            ELSE Rounding(t)' = Rounding(t)
         /\ 2 * y - asks[r] \in (-Unit)..Unit
<1>1. y \in Nat /\ asks[r] \in Nat /\ 2 * y - asks[r] \in (-Unit)..Unit
  BY PaymentAssumption DEF TypeOK, Minor
<1>2. returned'[t] = returned[t] + (IF t = target[r] THEN y ELSE 0)
  BY <1>1 DEF TypeOK, Accept
<1>3. inexact'[t] = inexact[t] + (IF t = target[r] /\ 2 * y # asks[r] THEN 1 ELSE 0)
  BY DEF TypeOK, Accept
<1>4. \A k, m \in Nat : m * (k + 1) = m * k + m
  OBVIOUS
<1>5. inexact[t] \in Nat /\ Unit + 1 \in Nat
  BY PaymentAssumption DEF TypeOK
<1>6. CASE t = target[r] /\ 2 * y # asks[r]
  <2>1. inexact'[t] = inexact[t] + 1
    BY <1>3, <1>6
  <2>2. (Unit + 1) * (inexact[t] + 1) = (Unit + 1) * inexact[t] + (Unit + 1)
    BY <1>4, <1>5
  <2>3. Rounding(t)' = Rounding(t) + (Unit + 1)
    BY <2>1, <2>2 DEF Rounding
  <2>4. Rounding(t) \in Nat
    BY RoundingNat
  <2> QED BY <1>1, <1>2, <1>6, <2>3, <2>4, PaymentAssumption
<1>7. CASE ~(t = target[r] /\ 2 * y # asks[r])
  BY <1>1, <1>2, <1>3, <1>5, <1>7 DEF Rounding
<1> QED BY <1>6, <1>7
-----------------------------------------------------------------------------
(* The steps of link requests.                                             *)

\* A step that leaves the refunds alone that are booked, made or in flight, but
\* for those it ends.
LEMMA BooksKept ==
  ASSUME BookedRefundsWereAccepted, RefundsInFlight, UNCHANGED <<refunded, returned, inexact>>,
         \A t \in Txns : status[t] \in Settled =>
           status'[t] \in Settled /\ UNCHANGED amount[t],
         \A r \in Refunders : rpc'[r] # "idle" =>
           UNCHANGED <<rpc[r], target[r], snapshot[r], asks[r]>>
  PROVE  BookedRefundsWereAccepted' /\ RefundsInFlight'
<1>1. \A t \in Txns : Rounding(t)' = Rounding(t)
  BY DEF Rounding
<1>2. BookedRefundsWereAccepted'
  BY <1>1 DEF BookedRefundsWereAccepted
<1>3. \A t \in Txns : Backed(t)' = Backed(t)
  BY <1>1 DEF Backed
<1>4. ASSUME NEW r \in Refunders, rpc'[r] # "idle"
      PROVE  /\ target'[r] \in Txns
             /\ status'[target'[r]] \in Settled
             /\ asks'[r] > 0
             /\ NextRefunded(r)' <= 2 * amount'[target'[r]]
             /\ rpc'[r] = "call" => 2 * snapshot'[r] <= Backed(target[r])'
             /\ rpc'[r] = "write" =>
                  \A n \in Stored(NextRefunded(r)') : 2 * n <= Backed(target[r])'
  <2>1. UNCHANGED <<rpc[r], target[r], snapshot[r], asks[r]>> /\ rpc[r] # "idle"
    BY <1>4
  <2>2. PICK t \in Txns : t = target[r]
    BY <2>1 DEF RefundsInFlight
  <2>3. status'[t] \in Settled /\ amount'[t] = amount[t]
    BY <2>1, <2>2 DEF RefundsInFlight
  <2>4. NextRefunded(r)' = NextRefunded(r)
    BY <2>1 DEF NextRefunded
  <2>5. Backed(target[r])' = Backed(target[r])
    BY <1>1, <2>1, <2>2 DEF Backed, Rounding
  <2> HIDE DEF Backed
  <2> QED BY <2>1, <2>2, <2>3, <2>4, <2>5 DEF RefundsInFlight
<1>5. RefundsInFlight'
  BY <1>4 DEF RefundsInFlight, Stored
<1> QED BY <1>2, <1>5

\* A step that leaves the ledger and Stripe alone, starts no refund and moves
\* no request into or between the steps with a transaction in hand.
LEMMA QuietStep ==
  ASSUME PayInv, TypeOK', UNCHANGED <<ledger, stripe>>,
         \A l \in Links : lpc'[l] \in {"checkout", "store"} =>
           lpc[l] \in {"checkout", "store"} /\ UNCHANGED made[l],
         \A r \in Refunders : rpc'[r] # "idle" =>
           UNCHANGED <<rpc[r], target[r], snapshot[r], asks[r]>>
  PROVE  PayInv'
<1> USE DEF PayInv, ledger, stripe
<1>1. SettledIsCaptured' /\ StatusMatchesRefunds'
  BY DEF SettledIsCaptured, StatusMatchesRefunds
<1>2. LinksInFlight'
  BY DEF LinksInFlight
<1>3. BookedRefundsWereAccepted' /\ RefundsInFlight'
  BY BooksKept
<1> QED BY <1>1, <1>2, <1>3

LEMMA LinkType ==
  ASSUME TypeOK, NEW l \in Links,
         ReadInvoice(l) \/ FindOpen(l) \/ CreateTxn(l) \/ Checkout(l)
           \/ StoreSession(l) \/ CheckoutFails(l) \/ LinkCrash(l)
  PROVE  TypeOK'
<1> USE DEF TypeOK, Statuses, Sessions, ledger, stripe, linking, refunding, bounds
<1>1. CASE ReadInvoice(l)
  <2>1. PICK b \in 1..Total : owes' = [owes EXCEPT ![l] = b]
    BY <1>1 DEF ReadInvoice
  <2>2. owes' \in [Links -> 0..Total]
    BY <2>1, PaymentAssumption
  <2> QED BY <1>1, <2>2 DEF ReadInvoice
<1>2. CASE FindOpen(l)
  BY <1>2 DEF FindOpen
<1>3. CASE CreateTxn(l)
  BY <1>3 DEF CreateTxn
<1>4. CASE Checkout(l)
  BY <1>4 DEF Checkout
<1>5. CASE StoreSession(l)
  <2>1. owes' \in [Links -> 0..Total]
    BY <1>5, PaymentAssumption DEF StoreSession, LinkDone
  <2>2. linked' \in [Txns -> BOOLEAN]
    BY <1>5 DEF StoreSession
  <2> QED BY <1>5, <2>1, <2>2 DEF StoreSession, LinkDone
<1>6. CASE CheckoutFails(l)
  <2>1. faults' \in 0..MaxFaults
    BY <1>6, PaymentAssumption DEF CheckoutFails
  <2>2. session' \in [Txns -> Sessions]
    BY <1>6 DEF CheckoutFails
  <2>3. status' \in [Txns -> Statuses]
    BY <1>6 DEF CheckoutFails
  <2> QED BY <1>6, <2>1, <2>2, <2>3, PaymentAssumption DEF CheckoutFails, LinkDone
<1>7. CASE LinkCrash(l)
  BY <1>7, PaymentAssumption DEF LinkCrash, LinkDone
<1> QED BY <1>1, <1>2, <1>3, <1>4, <1>5, <1>6, <1>7

LEMMA CreateTxnStep ==
  ASSUME PayInv, NEW l \in Links, CreateTxn(l)
  PROVE  PayInv'
<1> USE DEF PayInv
<1>1. PICK t \in Txns : /\ status[t] = "absent"
                        /\ status' = [status EXCEPT ![t] = "pending"]
                        /\ amount' = [amount EXCEPT ![t] = owes[l]]
                        /\ made' = [made EXCEPT ![l] = t]
  BY DEF CreateTxn
<1>2. /\ lpc[l] = "create"
      /\ lpc' = [lpc EXCEPT ![l] = "checkout"]
      /\ UNCHANGED <<refunded, linked, session, returned, inexact>>
      /\ UNCHANGED <<rpc, target, snapshot, asks>>
  BY DEF CreateTxn, stripe, refunding
<1>4. TypeOK'
  BY LinkType
<1>5. SettledIsCaptured'
  BY <1>1, <1>2 DEF SettledIsCaptured, TypeOK, Settled
<1>6. StatusMatchesRefunds'
  BY <1>1, <1>2 DEF StatusMatchesRefunds, TypeOK
<1>7. LinksInFlight'
  <2>1. ~linked[t]
    BY <1>1 DEF LinksInFlight
  <2> QED BY <1>1, <1>2, <2>1 DEF LinksInFlight, TypeOK
<1>8. BookedRefundsWereAccepted' /\ RefundsInFlight'
  <2>1. \A u \in Txns : status[u] \in Settled => status'[u] \in Settled /\ UNCHANGED amount[u]
    BY <1>1 DEF TypeOK, Settled
  <2> QED BY <1>2, <2>1, BooksKept
<1> QED BY <1>4, <1>5, <1>6, <1>7, <1>8

LEMMA CheckoutStep ==
  ASSUME PayInv, NEW l \in Links, Checkout(l)
  PROVE  PayInv'
<1> USE DEF PayInv
<1>1. /\ lpc[l] = "checkout"
      /\ session' = [session EXCEPT ![made[l]] = "open"]
      /\ lpc' = [lpc EXCEPT ![l] = "store"]
      /\ UNCHANGED <<status, amount, refunded, linked, returned, inexact, made>>
      /\ UNCHANGED <<rpc, target, snapshot, asks>>
  BY DEF Checkout, ledger, refunding
<1>2. TypeOK'
  BY LinkType
<1>3. SettledIsCaptured'
  BY <1>1 DEF SettledIsCaptured, LinksInFlight, TypeOK, Settled
<1>4. StatusMatchesRefunds'
  BY <1>1 DEF StatusMatchesRefunds
<1>5. LinksInFlight'
  BY <1>1 DEF LinksInFlight, TypeOK
<1>6. BookedRefundsWereAccepted' /\ RefundsInFlight'
  BY <1>1, BooksKept
<1> QED BY <1>2, <1>3, <1>4, <1>5, <1>6

LEMMA StoreStep ==
  ASSUME PayInv, NEW l \in Links, StoreSession(l)
  PROVE  PayInv'
<1> USE DEF PayInv
<1>1. /\ lpc[l] = "store"
      /\ linked' = [linked EXCEPT ![made[l]] = TRUE]
      /\ lpc' = [lpc EXCEPT ![l] = "idle"]
      /\ made' = [made EXCEPT ![l] = NoTxn]
      /\ UNCHANGED <<status, amount, refunded, session, returned, inexact>>
      /\ UNCHANGED <<rpc, target, snapshot, asks>>
  BY DEF StoreSession, LinkDone, stripe, refunding
<1>2. TypeOK'
  BY LinkType
<1>3. SettledIsCaptured' /\ StatusMatchesRefunds'
  BY <1>1 DEF SettledIsCaptured, StatusMatchesRefunds
<1>4. LinksInFlight'
  BY <1>1 DEF LinksInFlight, TypeOK
<1>5. BookedRefundsWereAccepted' /\ RefundsInFlight'
  BY <1>1, BooksKept
<1> QED BY <1>2, <1>3, <1>4, <1>5

LEMMA CheckoutFailsStep ==
  ASSUME PayInv, NEW l \in Links, CheckoutFails(l)
  PROVE  PayInv'
<1> USE DEF PayInv
<1>1. /\ lpc[l] \in {"checkout", "store"}
      /\ session' = session \/ session' = [session EXCEPT ![made[l]] = "open"]
      /\ status' = [status EXCEPT ![made[l]] = "failed"]
      /\ lpc' = [lpc EXCEPT ![l] = "idle"]
      /\ made' = [made EXCEPT ![l] = NoTxn]
      /\ UNCHANGED <<amount, refunded, linked, returned, inexact>>
      /\ UNCHANGED <<rpc, target, snapshot, asks>>
  BY DEF CheckoutFails, LinkDone, refunding
<1>2. TypeOK'
  BY LinkType
<1>3. made[l] \in Txns /\ status[made[l]] \in {"pending", "failed"}
  BY <1>1 DEF LinksInFlight
<1>4. SettledIsCaptured'
  BY <1>1, <1>3 DEF SettledIsCaptured, TypeOK, Settled
<1>5. StatusMatchesRefunds'
  BY <1>1, <1>3 DEF StatusMatchesRefunds, TypeOK
<1>6. LinksInFlight'
  BY <1>1, <1>3 DEF LinksInFlight, TypeOK
<1>7. BookedRefundsWereAccepted' /\ RefundsInFlight'
  <2>1. \A t \in Txns : status[t] \in Settled => status'[t] \in Settled
    BY <1>1, <1>3 DEF TypeOK, Settled
  <2> QED BY <1>1, <2>1, BooksKept
<1> QED BY <1>2, <1>4, <1>5, <1>6, <1>7

LEMMA LinkRequestStep ==
  ASSUME PayInv, NEW l \in Links, LinkStep(l) \/ LinkCrash(l)
  PROVE  PayInv'
<1>1. CASE ReadInvoice(l) \/ FindOpen(l) \/ LinkCrash(l)
  <2>1. TypeOK'
    BY <1>1, LinkType DEF PayInv
  <2>2. /\ UNCHANGED <<ledger, stripe>>
        /\ UNCHANGED <<rpc, target, snapshot, asks>>
    BY <1>1 DEF ReadInvoice, FindOpen, LinkCrash, refunding
  <2>3. \A k \in Links : lpc'[k] \in {"checkout", "store"} =>
          lpc[k] \in {"checkout", "store"} /\ UNCHANGED made[k]
    BY <1>1 DEF ReadInvoice, FindOpen, LinkCrash, LinkDone, PayInv, TypeOK
  <2> QED BY <2>1, <2>2, <2>3, QuietStep
<1>2. CASE CreateTxn(l) \/ Checkout(l) \/ StoreSession(l) \/ CheckoutFails(l)
  BY <1>2, CreateTxnStep, CheckoutStep, StoreStep, CheckoutFailsStep
<1> QED BY <1>1, <1>2 DEF LinkStep
-----------------------------------------------------------------------------
(* Stripe's side, its events, and the invoice.                             *)

LEMMA SessionStep ==
  ASSUME PayInv, NEW t \in Txns, Pay(t) \/ Capture(t) \/ SessionFails(t)
  PROVE  PayInv'
<1> USE DEF PayInv
<1>1. PICK s \in {"unpaid", "paid", "failed"} :
        session' = [session EXCEPT ![t] = s] /\ session[t] \in {"open", "unpaid"}
  BY DEF Pay, Capture, SessionFails
<1>2. UNCHANGED <<invoice, ledger, returned, bounced, inexact, linking, refunding, bounds>>
  BY DEF Pay, Capture, SessionFails
<1>3. TypeOK'
  BY <1>1, <1>2 DEF TypeOK, Sessions, ledger, linking, refunding, bounds
<1>4. SettledIsCaptured'
  BY <1>1, <1>2 DEF SettledIsCaptured, TypeOK, ledger
<1>5. StatusMatchesRefunds' /\ LinksInFlight'
  BY <1>2 DEF StatusMatchesRefunds, LinksInFlight, ledger, linking
<1>6. BookedRefundsWereAccepted' /\ RefundsInFlight'
  BY <1>2, BooksKept DEF ledger, refunding
<1> QED BY <1>3, <1>4, <1>5, <1>6

LEMMA BounceStep ==
  ASSUME PayInv, NEW t \in Txns, RefundBounces(t)
  PROVE  PayInv'
<1> USE DEF PayInv
<1>1. PICK y \in 1..(returned[t] - bounced[t]) : bounced' = [bounced EXCEPT ![t] = @ + y]
  BY DEF RefundBounces
<1>2. /\ UNCHANGED <<invoice, ledger, session, returned, inexact, linking, refunding, refunds>>
      /\ faults' \in 0..MaxFaults
  BY PaymentAssumption DEF RefundBounces, TypeOK
<1>3. TypeOK'
  BY <1>1, <1>2 DEF TypeOK, ledger, linking, refunding
<1>4. SettledIsCaptured' /\ StatusMatchesRefunds' /\ LinksInFlight'
  BY <1>2 DEF SettledIsCaptured, StatusMatchesRefunds, LinksInFlight, ledger, linking
<1>5. BookedRefundsWereAccepted' /\ RefundsInFlight'
  BY <1>2, BooksKept DEF ledger, refunding
<1> QED BY <1>3, <1>4, <1>5

\* Events are about linked, pending transactions: no request has one in hand.
LEMMA EventStep ==
  ASSUME PayInv, NEW t \in Txns, PaidEvent(t) \/ FailedEvent(t)
  PROVE  PayInv'
<1> USE DEF PayInv
<1>1. PICK s \in {"paid", "failed"} :
        /\ status' = [status EXCEPT ![t] = s]
        /\ s = "paid" => session[t] = "paid"
  BY DEF PaidEvent, FailedEvent, Collected
<1>2. /\ status[t] = "pending"
      /\ linked[t]
      /\ UNCHANGED <<invoice, amount, refunded, linked, stripe, linking, refunding, bounds>>
  BY DEF PaidEvent, FailedEvent, Claims, Matches
<1>3. TypeOK'
  BY <1>1, <1>2 DEF TypeOK, Statuses, stripe, linking, refunding, bounds
<1>4. SettledIsCaptured'
  BY <1>1, <1>2 DEF SettledIsCaptured, TypeOK, Settled, stripe
<1>5. StatusMatchesRefunds'
  BY <1>1, <1>2 DEF StatusMatchesRefunds, TypeOK
<1>6. LinksInFlight'
  BY <1>1, <1>2 DEF LinksInFlight, TypeOK, linking
<1>7. BookedRefundsWereAccepted' /\ RefundsInFlight'
  <2>1. \A u \in Txns : status[u] \in Settled => status'[u] \in Settled
    BY <1>1, <1>2 DEF TypeOK, Settled
  <2> QED BY <1>2, <2>1, BooksKept DEF stripe, refunding
<1> QED BY <1>3, <1>4, <1>5, <1>6, <1>7

LEMMA InvoiceStep ==
  ASSUME PayInv, SendInvoice \/ VoidInvoice
  PROVE  PayInv'
<1>1. TypeOK'
  BY DEF PayInv, TypeOK, SendInvoice, VoidInvoice, ledger, stripe, linking, refunding, bounds
<1>2. UNCHANGED <<ledger, stripe, linking, refunding>>
  BY DEF SendInvoice, VoidInvoice
<1> QED BY <1>1, <1>2, QuietStep DEF linking, refunding
-----------------------------------------------------------------------------
(* The steps of refunds.                                                   *)

LEMMA LoadStep ==
  ASSUME PayInv, NEW r \in Refunders, LoadRefund(r)
  PROVE  PayInv'
<1> USE DEF PayInv
<1>1. PICK t \in Txns :
        /\ status[t] \in {"paid", "partially_refunded"}
        /\ \E x \in 1..(2 * Refundable(t)) : asks' = [asks EXCEPT ![r] = x]
        /\ target' = [target EXCEPT ![r] = t]
        /\ snapshot' = [snapshot EXCEPT ![r] = refunded[t]]
  BY DEF LoadRefund
<1>2. PICK x \in 1..(2 * Refundable(t)) : asks' = [asks EXCEPT ![r] = x]
  BY <1>1
<1>3. /\ rpc' = [rpc EXCEPT ![r] = "call"]
      /\ refunds' \in 0..MaxRefunds
      /\ UNCHANGED <<invoice, ledger, stripe, linking, faults>>
  BY PaymentAssumption DEF LoadRefund, TypeOK
<1>4. /\ refunded[t] \in Nat /\ amount[t] \in 0..Total
      /\ x \in 1..(2 * Total)
      /\ 2 * refunded[t] + x <= 2 * amount[t]
  BY PaymentAssumption DEF Refundable, TypeOK
<1>5. TypeOK'
  BY <1>1, <1>2, <1>3, <1>4 DEF TypeOK, ledger, stripe, linking
<1>6. /\ SettledIsCaptured' /\ StatusMatchesRefunds' /\ LinksInFlight'
  BY <1>3 DEF SettledIsCaptured, StatusMatchesRefunds, LinksInFlight, ledger, stripe, linking
<1>7. BookedRefundsWereAccepted'
  BY <1>3 DEF BookedRefundsWereAccepted, Rounding, ledger, stripe
<1>8. RefundsInFlight'
  <2> SUFFICES ASSUME NEW q \in Refunders, rpc'[q] # "idle"
               PROVE  /\ target'[q] \in Txns
                      /\ status'[target'[q]] \in Settled
                      /\ asks'[q] > 0
                      /\ NextRefunded(q)' <= 2 * amount'[target'[q]]
                      /\ rpc'[q] = "call" => 2 * snapshot'[q] <= Backed(target[q])'
                      /\ rpc'[q] = "write" =>
                           \A n \in Stored(NextRefunded(q)') : 2 * n <= Backed(target[q])'
    BY DEF RefundsInFlight, Stored
  <2>1. CASE q = r
    <3>1. /\ rpc'[r] = "call" /\ target'[r] = t /\ snapshot'[r] = refunded[t] /\ asks'[r] = x
      BY <1>1, <1>2, <1>3 DEF TypeOK
    <3>2. 2 * refunded[t] <= Backed(t)
      BY DEF BookedRefundsWereAccepted, Backed
    <3>3. Backed(target[r])' = Backed(t)
      BY <1>3, <3>1 DEF Backed, Rounding, stripe
    <3>4. NextRefunded(r)' = 2 * refunded[t] + x
      BY <3>1 DEF NextRefunded
    <3> QED BY <1>1, <1>3, <1>4, <2>1, <3>1, <3>2, <3>3, <3>4 DEF Settled, ledger
  <2>2. CASE q # r
    <3>1. UNCHANGED <<rpc[q], target[q], snapshot[q], asks[q]>>
      BY <1>1, <1>2, <1>3, <2>2 DEF TypeOK
    <3>2. Backed(target[q])' = Backed(target[q])
      BY <1>3, <3>1 DEF Backed, Rounding, stripe
    <3>3. NextRefunded(q)' = NextRefunded(q)
      BY <3>1 DEF NextRefunded
    <3> QED BY <1>3, <3>1, <3>2, <3>3 DEF RefundsInFlight, ledger
  <2> QED BY <2>1, <2>2
<1> QED BY <1>5, <1>6, <1>7, <1>8

\* A refund at Stripe, whether the request lives to book it or not.
LEMMA ReturnStep ==
  ASSUME PayInv, TypeOK', NEW r \in Refunders, rpc[r] = "call",
         NEW y \in Minor(asks[r]), Accept(r, y),
         \/ rpc' = [rpc EXCEPT ![r] = "write"] /\ UNCHANGED <<target, snapshot, asks>>
         \/ RefundDone(r),
         UNCHANGED <<ledger, session, linking>>
  PROVE  PayInv'
<1> USE DEF PayInv
<1>1. PICK t \in Txns : t = target[r]
  BY DEF RefundsInFlight
<1>2. ASSUME NEW u \in Txns
      PROVE  /\ Backed(u) \in Nat /\ Backed(u)' \in Nat
             /\ Backed(u)' >= Backed(u)
             /\ 2 * returned'[u] + Rounding(u)' >= 2 * returned[u] + Rounding(u)
             /\ u = t =>
                  /\ 2 * y = asks[r] => Backed(u)' >= Backed(u) + 2 * y
                  /\ 2 * y # asks[r] => Backed(u)' >= Backed(u) + asks[r] + 1
  <2>1. /\ y \in Nat /\ asks[r] \in Nat
        /\ returned'[u] = returned[u] + (IF u = t THEN y ELSE 0)
        /\ IF u = t /\ 2 * y # asks[r]
           THEN Rounding(u)' = Rounding(u) + Unit + 1
           ELSE Rounding(u)' = Rounding(u)
        /\ 2 * y - asks[r] \in (-Unit)..Unit
    BY <1>1, AcceptedCovers
  <2>2. returned[u] \in Nat /\ Rounding(u) \in Nat
    BY RoundingNat DEF TypeOK
  <2> QED BY <2>1, <2>2, PaymentAssumption DEF Backed
<1>3. BookedRefundsWereAccepted'
  <2> SUFFICES ASSUME NEW u \in Txns
               PROVE  2 * refunded'[u] <= 2 * returned'[u] + Rounding(u)'
    BY DEF BookedRefundsWereAccepted
  <2>1. /\ 2 * refunded[u] <= Backed(u)
        /\ refunded'[u] = refunded[u] /\ refunded[u] \in Nat
    BY DEF BookedRefundsWereAccepted, Backed, TypeOK, ledger
  <2>2. Backed(u)' = 2 * returned'[u] + Rounding(u)'
    BY DEF Backed
  <2> QED BY <1>2, <2>1, <2>2
<1>4. RefundsInFlight'
  <2> SUFFICES ASSUME NEW q \in Refunders, rpc'[q] # "idle"
               PROVE  /\ target'[q] \in Txns
                      /\ status'[target'[q]] \in Settled
                      /\ asks'[q] > 0
                      /\ NextRefunded(q)' <= 2 * amount'[target'[q]]
                      /\ rpc'[q] = "call" => 2 * snapshot'[q] <= Backed(target[q])'
                      /\ rpc'[q] = "write" =>
                           \A n \in Stored(NextRefunded(q)') : 2 * n <= Backed(target[q])'
    BY DEF RefundsInFlight, Stored
  <2>1. rpc[q] # "idle" /\ UNCHANGED <<target[q], snapshot[q], asks[q]>>
    BY DEF RefundDone, TypeOK
  <2>2. q # r => rpc'[q] = rpc[q]
    BY DEF RefundDone, TypeOK
  <2>3. q = r => rpc'[q] = "write"
    BY DEF RefundDone, TypeOK
  <2>4. PICK u \in Txns : u = target[q]
    BY <2>1 DEF RefundsInFlight
  <2>5. /\ status'[u] \in Settled
        /\ asks'[q] > 0
        /\ NextRefunded(q)' = NextRefunded(q)
        /\ NextRefunded(q) <= 2 * amount'[u]
    BY <2>1, <2>4 DEF RefundsInFlight, NextRefunded, ledger
  <2>6. Backed(target[q])' = Backed(u)'
    BY <2>1, <2>4 DEF Backed, Rounding
  <2>7. snapshot[q] \in Nat /\ asks[q] \in Nat /\ NextRefunded(q) \in Nat
    BY DEF TypeOK, NextRefunded
  <2>8. CASE q = r
    <3>1. 2 * snapshot[r] <= Backed(u) /\ u = t
      BY <1>1, <2>4, <2>8 DEF RefundsInFlight
    <3>2. ASSUME NEW n \in Stored(NextRefunded(r))
          PROVE  2 * n <= Backed(u)'
      <4>1. n \in Nat /\ 2 * n <= NextRefunded(r) + 1
        BY <2>7, <2>8, StoredIsNear
      <4>2. NextRefunded(r) = 2 * snapshot[r] + asks[r]
        BY DEF NextRefunded
      <4>3. CASE 2 * y = asks[r]
        <5>1. y \in Nat
          BY DEF Minor
        <5>2. NextRefunded(r) = 2 * (snapshot[r] + y) /\ snapshot[r] + y \in Nat
          BY <2>7, <2>8, <4>2, <4>3, <5>1
        <5>3. n = snapshot[r] + y
          BY <5>2, StoredIsExact
        <5> QED BY <1>2, <2>7, <2>8, <3>1, <4>3, <5>1, <5>3
      <4>4. CASE 2 * y # asks[r]
        BY <1>2, <2>7, <2>8, <3>1, <4>1, <4>2, <4>4
      <4> QED BY <4>3, <4>4
    <3> QED BY <2>1, <2>3, <2>4, <2>5, <2>6, <2>8, <3>2
  <2>9. CASE q # r
    <3>1. rpc[q] = "call" => 2 * snapshot[q] <= Backed(u)'
      <4>1. rpc[q] = "call" => 2 * snapshot[q] <= Backed(u)
        BY <2>4 DEF RefundsInFlight
      <4> QED BY <1>2, <2>7, <4>1
    <3>2. ASSUME rpc[q] = "write", NEW n \in Stored(NextRefunded(q))
          PROVE  2 * n <= Backed(u)'
      <4>1. 2 * n <= Backed(u)
        BY <2>4, <3>2 DEF RefundsInFlight
      <4>2. n \in Nat
        BY <2>7, StoredIsNear
      <4> QED BY <1>2, <4>1, <4>2
    <3> QED BY <2>1, <2>2, <2>4, <2>5, <2>6, <2>9, <3>1, <3>2
  <2> QED BY <2>8, <2>9
<1>5. SettledIsCaptured' /\ StatusMatchesRefunds' /\ LinksInFlight'
  BY DEF SettledIsCaptured, StatusMatchesRefunds, LinksInFlight, ledger, linking
<1> QED BY <1>3, <1>4, <1>5

LEMMA RefundType ==
  ASSUME PayInv, NEW r \in Refunders, CallRefund(r) \/ RefundFails(r)
  PROVE  TypeOK'
<1>1. /\ returned' \in [Txns -> Nat]
      /\ inexact' \in [Txns -> Nat]
  <2>1. \/ UNCHANGED <<returned, inexact>>
        \/ \E y \in Minor(asks[r]) : Accept(r, y)
    BY DEF CallRefund, RefundFails
  <2>2. \A y \in Minor(asks[r]) : y \in Nat
    BY DEF Minor
  <2> QED BY <2>1, <2>2 DEF PayInv, TypeOK, Accept
<1>2. faults' \in 0..MaxFaults /\ UNCHANGED refunds
  BY PaymentAssumption DEF CallRefund, RefundFails, PayInv, TypeOK, bounds
<1>3. /\ UNCHANGED <<invoice, ledger, session, bounced, linking>>
      /\ \/ rpc' = [rpc EXCEPT ![r] = "write"] /\ UNCHANGED <<target, snapshot, asks>>
         \/ RefundDone(r)
  BY DEF CallRefund, RefundFails
<1>4. /\ rpc' \in [Refunders -> {"idle", "call", "write"}]
      /\ target' \in [Refunders -> Txns \cup {NoTxn}]
      /\ snapshot' \in [Refunders -> 0..Total]
      /\ asks' \in [Refunders -> 0..(2 * Total)]
  BY <1>3, PaymentAssumption DEF RefundDone, PayInv, TypeOK
<1> QED BY <1>1, <1>2, <1>3, <1>4 DEF PayInv, TypeOK, ledger, linking

LEMMA CallStep ==
  ASSUME PayInv, NEW r \in Refunders, CallRefund(r) \/ RefundFails(r)
  PROVE  PayInv'
<1>1. TypeOK'
  BY RefundType
<1>2. UNCHANGED <<ledger, session, bounced, linking>>
  BY DEF CallRefund, RefundFails
<1>3. CASE UNCHANGED <<returned, inexact>> /\ RefundDone(r)
  <2>1. \A q \in Refunders : rpc'[q] # "idle" =>
          UNCHANGED <<rpc[q], target[q], snapshot[q], asks[q]>>
    BY <1>3 DEF RefundDone, PayInv, TypeOK
  <2> QED BY <1>1, <1>2, <1>3, <2>1, QuietStep DEF stripe, linking
<1>4. ASSUME rpc[r] = "call", NEW y \in Minor(asks[r]), Accept(r, y) PROVE PayInv'
  <2>1. \/ rpc' = [rpc EXCEPT ![r] = "write"] /\ UNCHANGED <<target, snapshot, asks>>
        \/ RefundDone(r)
    BY DEF CallRefund, RefundFails
  <2> QED BY <1>1, <1>2, <1>4, <2>1, ReturnStep
<1> QED BY <1>3, <1>4 DEF CallRefund, RefundFails, Books

LEMMA WriteStep ==
  ASSUME PayInv, NEW r \in Refunders, WriteRefund(r)
  PROVE  PayInv'
<1> USE DEF PayInv
<1>1. PICK t \in Txns : t = target[r]
  BY DEF WriteRefund, RefundsInFlight
<1>2. PICK n \in Stored(NextRefunded(r)), s \in StatusOf(r) :
        /\ refunded' = [refunded EXCEPT ![t] = n]
        /\ status' = [status EXCEPT ![t] = s]
  BY <1>1 DEF WriteRefund
<1>3. /\ RefundDone(r)
      /\ UNCHANGED <<invoice, amount, linked, stripe, linking, bounds>>
  BY DEF WriteRefund
<1>4. /\ status[t] \in Settled
      /\ NextRefunded(r) \in Nat
      /\ NextRefunded(r) <= 2 * amount[t]
      /\ amount[t] \in 0..Total
      /\ 2 * n <= Backed(t)
  BY <1>1, <1>2 DEF WriteRefund, RefundsInFlight, TypeOK, NextRefunded
<1>5. n \in 0..amount[t] /\ n \in 0..Total
  BY <1>2, <1>4, StoredIsNear, PaymentAssumption
<1>6. /\ s \in {"refunded", "partially_refunded"}
      /\ s = "refunded" => n = amount[t]
  <2>1. s = "refunded" => NextRefunded(r) = 2 * amount[t]
    BY <1>1, <1>2, <1>4 DEF StatusOf
  <2>2. NextRefunded(r) = 2 * amount[t] => n = amount[t]
    BY <1>2, <1>4, StoredIsExact
  <2> QED BY <1>2, <2>1, <2>2 DEF StatusOf
<1>7. TypeOK'
  BY <1>2, <1>3, <1>5, <1>6, PaymentAssumption DEF TypeOK, Statuses, RefundDone, stripe,
     linking, bounds
<1>8. SettledIsCaptured'
  BY <1>2, <1>3, <1>4, <1>6 DEF SettledIsCaptured, TypeOK, stripe
<1>9. StatusMatchesRefunds'
  BY <1>2, <1>3, <1>5, <1>6 DEF StatusMatchesRefunds, TypeOK
<1>10. \A u \in Txns : Rounding(u)' = Rounding(u) /\ Backed(u)' = Backed(u)
  BY <1>3 DEF Rounding, Backed, stripe
<1>11. BookedRefundsWereAccepted'
  <2> SUFFICES ASSUME NEW u \in Txns
               PROVE  2 * refunded'[u] <= 2 * returned'[u] + Rounding(u)'
    BY DEF BookedRefundsWereAccepted
  <2>1. returned' = returned /\ Rounding(u)' = Rounding(u)
    BY <1>3, <1>10 DEF stripe
  <2>2. CASE u = t
    BY <1>2, <1>4, <2>1, <2>2 DEF Backed, TypeOK
  <2>3. CASE u # t
    BY <1>2, <2>1, <2>3 DEF BookedRefundsWereAccepted, TypeOK
  <2> QED BY <2>2, <2>3
<1>12. LinksInFlight'
  BY <1>2, <1>3, <1>4, <1>6 DEF LinksInFlight, TypeOK, Settled, linking
<1>13. RefundsInFlight'
  <2> SUFFICES ASSUME NEW q \in Refunders, rpc'[q] # "idle"
               PROVE  /\ target'[q] \in Txns
                      /\ status'[target'[q]] \in Settled
                      /\ asks'[q] > 0
                      /\ NextRefunded(q)' <= 2 * amount'[target'[q]]
                      /\ rpc'[q] = "call" => 2 * snapshot'[q] <= Backed(target[q])'
                      /\ rpc'[q] = "write" =>
                           \A m \in Stored(NextRefunded(q)') : 2 * m <= Backed(target[q])'
    BY DEF RefundsInFlight, Stored
  <2>1. rpc[q] # "idle" /\ UNCHANGED <<rpc[q], target[q], snapshot[q], asks[q]>>
    BY <1>3 DEF RefundDone, TypeOK
  <2>2. PICK u \in Txns : u = target[q] /\ status[u] \in Settled
    BY <2>1 DEF RefundsInFlight
  <2>3. status'[u] \in Settled /\ amount'[u] = amount[u]
    BY <1>2, <1>3, <1>6, <2>2 DEF TypeOK, Settled
  <2>4. Backed(target[q])' = Backed(target[q])
    BY <1>3, <2>1, <2>2 DEF Backed, Rounding, stripe
  <2>5. NextRefunded(q)' = NextRefunded(q)
    BY <2>1 DEF NextRefunded
  <2> QED BY <2>1, <2>2, <2>3, <2>4, <2>5 DEF RefundsInFlight
<1> QED BY <1>7, <1>8, <1>9, <1>11, <1>12, <1>13
-----------------------------------------------------------------------------
(* The theorem.                                                            *)

LEMMA PayNext == PayInv /\ [Next]_vars => PayInv'
<1> SUFFICES ASSUME PayInv, [Next]_vars PROVE PayInv'
  OBVIOUS
<1>1. CASE UNCHANGED vars
  <2>1. TypeOK'
    BY <1>1 DEF PayInv, TypeOK, vars, ledger, stripe, linking, refunding, bounds
  <2> QED BY <1>1, <2>1, QuietStep DEF vars, linking, refunding
<1>2. CASE SendInvoice \/ VoidInvoice
  BY <1>2, InvoiceStep
<1>3. ASSUME NEW l \in Links, LinkStep(l) \/ LinkCrash(l) PROVE PayInv'
  BY <1>3, LinkRequestStep
<1>4. ASSUME NEW t \in Txns, Pay(t) \/ Capture(t) \/ SessionFails(t) \/ RefundBounces(t)
      PROVE  PayInv'
  BY <1>4, SessionStep, BounceStep
<1>5. ASSUME NEW t \in Txns, PaidEvent(t) \/ FailedEvent(t) PROVE PayInv'
  BY <1>5, EventStep
<1>6. ASSUME NEW r \in Refunders,
             LoadRefund(r) \/ CallRefund(r) \/ WriteRefund(r) \/ RefundFails(r)
      PROVE  PayInv'
  BY <1>6, LoadStep, CallStep, WriteStep
<1> QED BY <1>1, <1>2, <1>3, <1>4, <1>5, <1>6 DEF Next

\* Whatever the order and number of link requests, webhooks, refunds and
\* crashes (invoicePayments.service.ts): a transaction counts as paid only if
\* Stripe has captured it, its status agrees with its refunded amount, and
\* every refund that is booked has been accepted, but for the roundings.
THEOREM PaymentSafety ==
  Spec => [](/\ TypeOK
             /\ SettledIsCaptured
             /\ StatusMatchesRefunds
             /\ BookedRefundsWereAccepted)
<1>1. PayInv => /\ TypeOK
                /\ SettledIsCaptured
                /\ StatusMatchesRefunds
                /\ BookedRefundsWereAccepted
  BY DEF PayInv
<1> QED BY <1>1, PayInit, PayNext, PTL DEF Spec

\* Only captured money counts as paid.
THEOREM PaidIsCaptured == Spec => []SettledIsCaptured
BY PaymentSafety, PTL

\* A transaction's status says how much of it the ledger has refunded.
THEOREM RefundStatusAgrees == Spec => []StatusMatchesRefunds
BY PaymentSafety, PTL

\* Every variable keeps its type: refunds never exceed the total.
THEOREM PaymentsTyped == Spec => []TypeOK
BY PaymentSafety, PTL
-----------------------------------------------------------------------------
(* A captured payment can be booked.                                       *)

\* The event of a captured payment is the one the guards of PaidEvent let
\* through, unless it has been booked: the safety half of CaptureIsRecorded.
CaptureCanBeBooked ==
  \A t \in Txns :
    session[t] = "paid" => status[t] \in Settled \/ (Claims(t) /\ Matches(t))

\* What is booked as paid stays so, at the amount that was collected.
BookedStaysBooked ==
  [][\A t \in Txns :
       status[t] \in Settled => status'[t] \in Settled /\ amount'[t] = amount[t]]_vars

\* A customer can complete only a session whose URL is stored, and a
\* transaction with a stored session fails only with its session.
Tracked ==
  \A t \in Txns :
    /\ session[t] \in {"unpaid", "paid"} => linked[t]
    /\ linked[t] => session[t] # "none"
    /\ linked[t] /\ status[t] = "failed" => session[t] = "failed"

\* The transaction of a request in flight is pending, and from the answer of
\* the provider on it has a session.
InFlightIsPending ==
  \A l \in Links :
    /\ lpc[l] \in {"checkout", "store"} => status[made[l]] = "pending"
    /\ lpc[l] = "store" => session[made[l]] # "none"

TrackInv == PayInv /\ Tracked /\ InFlightIsPending

LEMMA TrackLink ==
  ASSUME TrackInv, NEW l \in Links, LinkStep(l) \/ LinkCrash(l)
  PROVE  Tracked' /\ InFlightIsPending'
<1> USE DEF TrackInv, PayInv
<1>1. lpc[l] \in {"checkout", "store"} =>
        /\ made[l] \in Txns
        /\ status[made[l]] = "pending"
        /\ ~linked[made[l]]
        /\ \A k \in Links \ {l} : lpc[k] \in {"checkout", "store"} => made[k] # made[l]
  BY DEF LinksInFlight, InFlightIsPending
<1>2. CASE ReadInvoice(l) \/ FindOpen(l) \/ LinkCrash(l)
  <2>1. UNCHANGED <<status, linked, session>>
    BY <1>2 DEF ReadInvoice, FindOpen, LinkCrash, ledger, stripe
  <2>2. \A k \in Links : lpc'[k] \in {"checkout", "store"} => UNCHANGED <<lpc[k], made[k]>>
    BY <1>2 DEF ReadInvoice, FindOpen, LinkCrash, LinkDone, TypeOK
  <2> QED BY <2>1, <2>2 DEF Tracked, InFlightIsPending
<1>3. CASE CreateTxn(l)
  <2>1. PICK t \in Txns : /\ status[t] = "absent"
                          /\ status' = [status EXCEPT ![t] = "pending"]
                          /\ made' = [made EXCEPT ![l] = t]
    BY <1>3 DEF CreateTxn
  <2>2. /\ lpc' = [lpc EXCEPT ![l] = "checkout"]
        /\ UNCHANGED <<linked, session>>
    BY <1>3 DEF CreateTxn, stripe
  <2>3. Tracked'
    BY <2>1, <2>2 DEF Tracked, TypeOK
  <2>4. InFlightIsPending'
    BY <2>1, <2>2 DEF InFlightIsPending, LinksInFlight, TypeOK
  <2> QED BY <2>3, <2>4
<1>4. CASE Checkout(l)
  <2>1. /\ lpc[l] = "checkout"
        /\ session' = [session EXCEPT ![made[l]] = "open"]
        /\ lpc' = [lpc EXCEPT ![l] = "store"]
        /\ UNCHANGED <<status, linked, made>>
    BY <1>4 DEF Checkout, ledger
  <2> QED BY <1>1, <2>1 DEF Tracked, InFlightIsPending, LinksInFlight, TypeOK
<1>5. CASE StoreSession(l)
  <2>1. /\ lpc[l] = "store"
        /\ linked' = [linked EXCEPT ![made[l]] = TRUE]
        /\ lpc' = [lpc EXCEPT ![l] = "idle"]
        /\ made' = [made EXCEPT ![l] = NoTxn]
        /\ UNCHANGED <<status, session>>
    BY <1>5 DEF StoreSession, LinkDone, stripe
  <2>2. Tracked'
    BY <1>1, <2>1 DEF Tracked, InFlightIsPending, TypeOK
  <2>3. InFlightIsPending'
    BY <1>1, <2>1 DEF InFlightIsPending, LinksInFlight, TypeOK
  <2> QED BY <2>2, <2>3
<1>6. CASE CheckoutFails(l)
  <2>1. /\ lpc[l] \in {"checkout", "store"}
        /\ session' = session \/ session' = [session EXCEPT ![made[l]] = "open"]
        /\ status' = [status EXCEPT ![made[l]] = "failed"]
        /\ lpc' = [lpc EXCEPT ![l] = "idle"]
        /\ made' = [made EXCEPT ![l] = NoTxn]
        /\ UNCHANGED linked
    BY <1>6 DEF CheckoutFails, LinkDone
  <2>2. Tracked'
    BY <1>1, <2>1 DEF Tracked, TypeOK
  <2>3. InFlightIsPending'
    BY <1>1, <2>1 DEF InFlightIsPending, LinksInFlight, TypeOK
  <2> QED BY <2>2, <2>3
<1> QED BY <1>2, <1>3, <1>4, <1>5, <1>6 DEF LinkStep

\* A step that leaves requests alone and moves sessions and statuses only the
\* way Stripe and its events do.
LEMMA TrackOther ==
  ASSUME TrackInv, UNCHANGED <<linked, lpc, made>>,
         \A t \in Txns : session'[t] # session[t] =>
           /\ session[t] # "none" /\ session'[t] # "none"
           /\ linked[t] \/ session'[t] = "failed"
           /\ session[t] # "failed",
         \A t \in Txns : status'[t] # status[t] =>
           /\ linked[t]
           /\ status'[t] = "failed" => session'[t] = "failed"
  PROVE  Tracked' /\ InFlightIsPending'
<1>1. \A t \in Txns : linked[t] /\ session[t] = "failed" => session'[t] = "failed"
  OBVIOUS
<1>2. Tracked'
  BY <1>1 DEF TrackInv, Tracked
<1>3. InFlightIsPending'
  BY DEF TrackInv, PayInv, InFlightIsPending, LinksInFlight
<1> QED BY <1>2, <1>3

LEMMA TrackNext ==
  ASSUME TrackInv, [Next]_vars
  PROVE  Tracked' /\ InFlightIsPending'
<1> USE DEF ledger, stripe, linking
<1>1. CASE UNCHANGED vars
  BY <1>1, TrackOther DEF vars
<1>2. CASE SendInvoice \/ VoidInvoice
  BY <1>2, TrackOther DEF SendInvoice, VoidInvoice
<1>3. ASSUME NEW l \in Links, LinkStep(l) \/ LinkCrash(l)
      PROVE  Tracked' /\ InFlightIsPending'
  BY <1>3, TrackLink
<1>4. ASSUME NEW t \in Txns, Pay(t) \/ Capture(t) \/ SessionFails(t)
      PROVE  Tracked' /\ InFlightIsPending'
  <2>1. PICK s \in {"unpaid", "paid", "failed"} : session' = [session EXCEPT ![t] = s]
    BY <1>4 DEF Pay, Capture, SessionFails
  <2>2. /\ session[t] \in {"open", "unpaid"}
        /\ linked[t] \/ session'[t] = "failed"
    BY <1>4 DEF Pay, Capture, SessionFails, TrackInv, PayInv, TypeOK, Tracked
  <2>3. UNCHANGED <<status, linked, lpc, made>>
    BY <1>4 DEF Pay, Capture, SessionFails
  <2> QED BY <2>1, <2>2, <2>3, TrackOther DEF TrackInv, PayInv, TypeOK
<1>5. ASSUME NEW t \in Txns, PaidEvent(t) \/ FailedEvent(t)
      PROVE  Tracked' /\ InFlightIsPending'
  <2>1. PICK s \in {"paid", "failed"} : /\ status' = [status EXCEPT ![t] = s]
                                        /\ s = "failed" => session[t] = "failed"
    BY <1>5 DEF PaidEvent, FailedEvent
  <2>2. linked[t] /\ UNCHANGED <<linked, session, lpc, made>>
    BY <1>5 DEF PaidEvent, FailedEvent, Matches
  <2> QED BY <2>1, <2>2, TrackOther DEF TrackInv, PayInv, TypeOK
<1>6. ASSUME NEW r \in Refunders,
             LoadRefund(r) \/ CallRefund(r) \/ RefundFails(r)
      PROVE  Tracked' /\ InFlightIsPending'
  BY <1>6, TrackOther DEF LoadRefund, CallRefund, RefundFails
<1>7. ASSUME NEW r \in Refunders, WriteRefund(r)
      PROVE  Tracked' /\ InFlightIsPending'
  <2>1. PICK s \in {"refunded", "partially_refunded"} :
          status' = [status EXCEPT ![target[r]] = s]
    BY <1>7 DEF WriteRefund, StatusOf
  <2>2. target[r] \in Txns /\ status[target[r]] \in Settled
    BY <1>7 DEF WriteRefund, TrackInv, PayInv, RefundsInFlight
  <2>3. linked[target[r]]
    BY <2>2 DEF TrackInv, PayInv, SettledIsCaptured, Tracked
  <2>4. UNCHANGED <<linked, session, lpc, made>>
    BY <1>7 DEF WriteRefund
  <2> QED BY <2>1, <2>2, <2>3, <2>4, TrackOther DEF TrackInv, PayInv, TypeOK
<1>8. ASSUME NEW t \in Txns, RefundBounces(t)
      PROVE  Tracked' /\ InFlightIsPending'
  BY <1>8, TrackOther DEF RefundBounces
<1> QED BY <1>1, <1>2, <1>3, <1>4, <1>5, <1>6, <1>7, <1>8 DEF Next

LEMMA TrackInvariant == Spec => []TrackInv
<1>1. Init => TrackInv
  BY PayInit DEF Init, TrackInv, Tracked, InFlightIsPending
<1>2. TrackInv /\ [Next]_vars => TrackInv'
  <2> SUFFICES ASSUME TrackInv, [Next]_vars PROVE TrackInv'
    OBVIOUS
  <2>1. PayInv'
    BY PayNext DEF TrackInv
  <2> QED BY <2>1, TrackNext DEF TrackInv
<1> QED BY <1>1, <1>2, PTL DEF Spec

\* No captured payment is ever out of reach of its webhook: a request that
\* fails, a void, or another payment never closes a transaction whose money
\* has come (applyInvoiceStripeEvent).
THEOREM CapturesCanBeBooked == Spec => []CaptureCanBeBooked
<1>1. TrackInv => CaptureCanBeBooked
  <2> SUFFICES ASSUME TrackInv, NEW t \in Txns, session[t] = "paid", status[t] \notin Settled
               PROVE  Claims(t) /\ Matches(t)
    BY DEF CaptureCanBeBooked
  <2>1. linked[t] /\ status[t] # "failed" /\ status[t] # "absent"
    BY DEF TrackInv, PayInv, Tracked, LinksInFlight
  <2>2. status[t] = "pending"
    BY <2>1 DEF TrackInv, PayInv, TypeOK, Statuses, Settled
  <2> QED BY <2>1, <2>2 DEF Claims, Matches
<1> QED BY <1>1, TrackInvariant, PTL

LEMMA BookedStep ==
  ASSUME TrackInv, [Next]_vars, NEW t \in Txns, status[t] \in Settled
  PROVE  status'[t] \in Settled /\ amount'[t] = amount[t]
<1> USE DEF TrackInv, PayInv, TypeOK, Settled, ledger
<1>1. CASE UNCHANGED ledger
  BY <1>1
<1>2. ASSUME NEW l \in Links, CreateTxn(l) PROVE status'[t] \in Settled /\ amount'[t] = amount[t]
  BY <1>2 DEF CreateTxn
<1>3. ASSUME NEW l \in Links, CheckoutFails(l)
      PROVE  status'[t] \in Settled /\ amount'[t] = amount[t]
  <2>1. made[l] \in Txns /\ status[made[l]] \in {"pending", "failed"}
    BY <1>3 DEF CheckoutFails, LinksInFlight
  <2> QED BY <1>3, <2>1 DEF CheckoutFails
<1>4. ASSUME NEW u \in Txns, PaidEvent(u) \/ FailedEvent(u)
      PROVE  status'[t] \in Settled /\ amount'[t] = amount[t]
  BY <1>4 DEF PaidEvent, FailedEvent, Claims
<1>5. ASSUME NEW r \in Refunders, WriteRefund(r)
      PROVE  status'[t] \in Settled /\ amount'[t] = amount[t]
  BY <1>5 DEF WriteRefund, StatusOf
<1>6. ASSUME NEW l \in Links, StoreSession(l)
      PROVE  status'[t] \in Settled /\ amount'[t] = amount[t]
  BY <1>6 DEF StoreSession
<1>7. CASE \/ UNCHANGED vars \/ SendInvoice \/ VoidInvoice
           \/ \E l \in Links :
                ReadInvoice(l) \/ FindOpen(l) \/ Checkout(l) \/ LinkCrash(l)
           \/ \E u \in Txns : Pay(u) \/ Capture(u) \/ SessionFails(u) \/ RefundBounces(u)
           \/ \E r \in Refunders : LoadRefund(r) \/ CallRefund(r) \/ RefundFails(r)
  <2>1. UNCHANGED ledger
    BY <1>7 DEF vars, SendInvoice, VoidInvoice, ReadInvoice, FindOpen, Checkout, LinkCrash,
       Pay, Capture, SessionFails, RefundBounces, LoadRefund, CallRefund, RefundFails
  <2> QED BY <1>1, <2>1
<1> QED BY <1>2, <1>3, <1>4, <1>5, <1>6, <1>7 DEF Next, LinkStep

\* A payment that has been booked is never unbooked: not by the request that
\* made its link and fails late, not by an event that comes again, not by a
\* refund of it.
THEOREM BookedPaymentsStay == Spec => BookedStaysBooked
<1>1. TrackInv /\ [Next]_vars =>
        [\A t \in Txns :
           status[t] \in Settled => status'[t] \in Settled /\ amount'[t] = amount[t]]_vars
  BY BookedStep
<1> QED BY <1>1, TrackInvariant, PTL DEF Spec, BookedStaysBooked
-----------------------------------------------------------------------------
(* Refunds that do not overlap.                                            *)

\* n, as the refunded amount of a payment, is what Stripe has accepted, but
\* for the roundings.
Near(n, t) == /\ 2 * n <= 2 * returned[t] + Rounding(t)
              /\ 2 * returned[t] <= 2 * n + Rounding(t)

\* As long as no call, no write and no process has failed, and no refund is
\* being made, the ledger's refunds are Stripe's, but for the roundings.
RefundsAgree ==
  faults = 0 /\ (\A r \in Refunders : rpc[r] = "idle") => \A t \in Txns : Near(refunded[t], t)

\* The refund in flight has read what the row says, and Stripe is ahead of
\* the ledger by what it is about to write.
SerialRefunds ==
  faults = 0 =>
    /\ \A t \in Txns :
         (\A r \in Refunders : rpc[r] = "write" => target[r] # t) => Near(refunded[t], t)
    /\ \A r \in Refunders : rpc[r] # "idle" =>
         /\ snapshot[r] = refunded[target[r]]
         /\ rpc[r] = "write" => \A n \in Stored(NextRefunded(r)) : Near(n, target[r])

\* A step that leaves refunds alone.
LEMMA SerialQuiet ==
  ASSUME PayInv, SerialRefunds, faults = 0,
         UNCHANGED <<refunded, returned, inexact, rpc, target, snapshot, asks>>
  PROVE  SerialRefunds'
<1>1. \A t \in Txns : Near(refunded[t], t)' <=> Near(refunded[t], t)
  BY DEF Near, Rounding
<1>2. ASSUME NEW r \in Refunders, rpc[r] = "write", NEW n \in Stored(NextRefunded(r)')
      PROVE  Near(n, target[r])'
  <2>1. NextRefunded(r)' = NextRefunded(r)
    BY DEF NextRefunded
  <2>2. Near(n, target[r])
    BY <1>2, <2>1 DEF SerialRefunds
  <2> QED BY <2>2 DEF Near, Rounding
<1> QED BY <1>1, <1>2 DEF SerialRefunds, Stored

\* What an accepted refund of y leaves to be written is near again.
LEMMA AcceptedIsNear ==
  ASSUME TypeOK, NEW r \in Refunders, NEW t \in Txns, t = target[r],
         NEW y \in Minor(asks[r]), Accept(r, y), Near(snapshot[r], t),
         NEW n \in Stored(NextRefunded(r))
  PROVE  2 * n <= 2 * returned'[t] + Rounding(t)' /\ 2 * returned'[t] <= 2 * n + Rounding(t)'
<1>1. /\ y \in Nat /\ asks[r] \in Nat
      /\ returned'[t] = returned[t] + y
      /\ 2 * y = asks[r] => Rounding(t)' = Rounding(t)
      /\ 2 * y # asks[r] => Rounding(t)' = Rounding(t) + Unit + 1
      /\ 2 * y - asks[r] \in (-Unit)..Unit
  BY AcceptedCovers
<1>2. /\ returned[t] \in Nat /\ Rounding(t) \in Nat /\ snapshot[r] \in Nat
      /\ NextRefunded(r) = 2 * snapshot[r] + asks[r]
      /\ NextRefunded(r) \in Nat
  BY <1>1, RoundingNat DEF TypeOK, NextRefunded
<1>3. n \in Nat /\ 2 * n - NextRefunded(r) \in (-1)..1
  BY <1>2, StoredIsNear
<1>4. CASE 2 * y = asks[r]
  <2>1. NextRefunded(r) = 2 * (snapshot[r] + y) /\ snapshot[r] + y \in Nat
    BY <1>1, <1>2, <1>4
  <2>2. n = snapshot[r] + y
    BY <2>1, StoredIsExact
  <2> QED BY <1>1, <1>2, <1>4, <2>2 DEF Near
<1>5. CASE 2 * y # asks[r]
  BY <1>1, <1>2, <1>3, <1>5, PaymentAssumption DEF Near
<1> QED BY <1>4, <1>5

LEMMA SerialNext ==
  ASSUME PayInv, SerialRefunds, [Next]_vars,
         \A q, r \in Refunders : q = r
  PROVE  SerialRefunds'
<1> SUFFICES ASSUME faults' = 0
             PROVE  SerialRefunds'
  BY DEF SerialRefunds
<1> USE DEF PayInv, ledger, stripe, linking, refunding, bounds
<1>1. faults = 0
  <2>1. faults \in Nat /\ (faults' = faults \/ faults' = faults + 1)
    BY PaymentAssumption DEF TypeOK, Next, LinkStep, vars, SendInvoice, VoidInvoice, ReadInvoice,
       FindOpen, CreateTxn, Checkout, StoreSession, CheckoutFails, LinkCrash, Pay, Capture,
       SessionFails, RefundBounces, PaidEvent, FailedEvent, LoadRefund, CallRefund, WriteRefund,
       RefundFails
  <2> QED BY <2>1
<1>2. ASSUME NEW r \in Refunders, LoadRefund(r) PROVE SerialRefunds'
  <2>1. PICK t \in Txns : /\ target' = [target EXCEPT ![r] = t]
                          /\ snapshot' = [snapshot EXCEPT ![r] = refunded[t]]
    BY <1>2 DEF LoadRefund
  <2>2. /\ rpc[r] = "idle"
        /\ rpc' = [rpc EXCEPT ![r] = "call"]
        /\ UNCHANGED <<refunded, returned, inexact>>
    BY <1>2 DEF LoadRefund
  <2>3. \A u \in Txns : Near(refunded[u], u)
    BY <1>1, <2>2 DEF SerialRefunds
  <2>4. \A u \in Txns : Near(refunded[u], u)'
    BY <2>2, <2>3 DEF Near, Rounding
  <2>5. rpc'[r] = "call" /\ snapshot'[r] = refunded'[target'[r]]
    BY <2>1, <2>2 DEF TypeOK
  <2> QED BY <2>4, <2>5 DEF SerialRefunds, Stored
<1>3. ASSUME NEW r \in Refunders, CallRefund(r) PROVE SerialRefunds'
  <2>1. PICK t \in Txns : t = target[r]
    BY <1>3 DEF CallRefund, RefundsInFlight
  <2>2. /\ rpc[r] = "call"
        /\ snapshot[r] = refunded[t]
        /\ UNCHANGED refunded
        /\ \A u \in Txns : Near(refunded[u], u)
    BY <1>1, <1>3, <2>1 DEF CallRefund, SerialRefunds
  <2>3. PICK y \in Minor(asks[r]) :
          \/ /\ Accept(r, y)
             /\ rpc' = [rpc EXCEPT ![r] = "write"]
             /\ UNCHANGED <<target, snapshot, asks>>
          \/ UNCHANGED <<returned, inexact>> /\ RefundDone(r)
    BY <1>3 DEF CallRefund, Books
  <2>4. CASE /\ Accept(r, y)
             /\ rpc' = [rpc EXCEPT ![r] = "write"]
             /\ UNCHANGED <<target, snapshot, asks>>
    <3>1. rpc'[r] = "write" /\ target'[r] = t /\ snapshot'[r] = refunded'[t]
      BY <2>1, <2>2, <2>4 DEF TypeOK
    <3>2. ASSUME NEW u \in Txns, u # t PROVE Near(refunded[u], u)'
      <4>1. returned'[u] = returned[u] /\ Rounding(u)' = Rounding(u)
        BY <2>1, <2>4, <3>2 DEF Accept, TypeOK, Rounding
      <4> QED BY <2>2, <4>1 DEF Near
    <3>3. ASSUME NEW n \in Stored(NextRefunded(r)') PROVE Near(n, target[r])'
      <4>1. NextRefunded(r)' = NextRefunded(r)
        BY <2>4 DEF NextRefunded
      <4>2. Near(snapshot[r], t)
        BY <2>2
      <4>3. /\ 2 * n <= 2 * returned'[t] + Rounding(t)'
            /\ 2 * returned'[t] <= 2 * n + Rounding(t)'
        BY <2>1, <2>4, <3>3, <4>1, <4>2, AcceptedIsNear
      <4> QED BY <3>1, <4>3 DEF Near, Rounding
    <3> QED BY <2>1, <3>1, <3>2, <3>3 DEF SerialRefunds, Stored
  <2>5. CASE UNCHANGED <<returned, inexact>> /\ RefundDone(r)
    <3>1. \A u \in Txns : Near(refunded[u], u)'
      BY <2>2, <2>5 DEF Near, Rounding
    <3>2. \A q \in Refunders : rpc'[q] = "idle"
      BY <2>5 DEF RefundDone, TypeOK
    <3> QED BY <3>1, <3>2 DEF SerialRefunds
  <2> QED BY <2>3, <2>4, <2>5
<1>4. ASSUME NEW r \in Refunders, WriteRefund(r) PROVE SerialRefunds'
  <2>1. PICK t \in Txns : t = target[r]
    BY <1>4 DEF WriteRefund, RefundsInFlight
  <2>2. PICK n \in Stored(NextRefunded(r)) : refunded' = [refunded EXCEPT ![t] = n]
    BY <1>4, <2>1 DEF WriteRefund
  <2>3. /\ rpc[r] = "write"
        /\ rpc' = [rpc EXCEPT ![r] = "idle"]
        /\ UNCHANGED <<returned, inexact>>
    BY <1>4 DEF WriteRefund, RefundDone
  <2>4. Near(n, t)
    BY <1>1, <2>1, <2>2, <2>3 DEF SerialRefunds
  <2>5. ASSUME NEW u \in Txns PROVE Near(refunded[u], u)'
    <3>1. CASE u = t
      BY <2>2, <2>3, <2>4, <3>1 DEF Near, Rounding, TypeOK
    <3>2. CASE u # t
      <4>1. Near(refunded[u], u)
        BY <1>1, <2>1, <2>3, <3>2 DEF SerialRefunds
      <4> QED BY <2>2, <2>3, <3>2, <4>1 DEF Near, Rounding, TypeOK
    <3> QED BY <3>1, <3>2
  <2>6. \A q \in Refunders : rpc'[q] = "idle"
    BY <2>3 DEF TypeOK
  <2> QED BY <2>5, <2>6 DEF SerialRefunds
<1>5. ASSUME NEW r \in Refunders, RefundFails(r) PROVE SerialRefunds'
  BY <1>1, <1>5 DEF RefundFails
<1>6. ASSUME NEW t \in Txns, RefundBounces(t) PROVE SerialRefunds'
  BY <1>1, <1>6 DEF RefundBounces
<1>7. CASE \/ UNCHANGED vars \/ SendInvoice \/ VoidInvoice
           \/ \E l \in Links : \/ ReadInvoice(l) \/ FindOpen(l) \/ CreateTxn(l) \/ Checkout(l)
                               \/ StoreSession(l) \/ CheckoutFails(l) \/ LinkCrash(l)
           \/ \E t \in Txns : \/ Pay(t) \/ Capture(t) \/ SessionFails(t)
                              \/ PaidEvent(t) \/ FailedEvent(t)
  <2>1. UNCHANGED <<refunded, returned, inexact, rpc, target, snapshot, asks>>
    BY <1>7 DEF vars, SendInvoice, VoidInvoice, ReadInvoice, FindOpen, CreateTxn, Checkout,
       StoreSession, CheckoutFails, LinkCrash, Pay, Capture, SessionFails, PaidEvent, FailedEvent
  <2> QED BY <1>1, <2>1, SerialQuiet
<1> QED BY <1>2, <1>3, <1>4, <1>5, <1>6, <1>7 DEF Next, LinkStep

\* When refunds are made one at a time and none is cut short, the ledger and
\* Stripe agree on what has been refunded of each payment: they differ, either
\* way, by at most a rounding of each refund that had to be rounded, and not at
\* all where none had to be.  What else the ledger can miss is due to an overlap
\* or a fault (refundInvoicePayment reads, calls Stripe and writes without a
\* lock).
THEOREM SerialRefundsAgree ==
  ASSUME \A q, r \in Refunders : q = r
  PROVE  Spec => []RefundsAgree
<1>1. Init => SerialRefunds
  <2> SUFFICES ASSUME Init PROVE SerialRefunds
    OBVIOUS
  <2>1. \A t \in Txns : Rounding(t) = 0 /\ refunded[t] = 0 /\ returned[t] = 0
    BY PaymentAssumption DEF Init, Rounding
  <2>2. \A t \in Txns : Near(refunded[t], t)
    BY <2>1 DEF Near
  <2> QED BY <2>2 DEF Init, SerialRefunds
<1>2. PayInv /\ SerialRefunds /\ [Next]_vars => SerialRefunds'
  BY SerialNext
<1>3. SerialRefunds => RefundsAgree
  BY DEF SerialRefunds, RefundsAgree
<1> QED BY <1>1, <1>2, <1>3, PayInit, PayNext, PTL DEF Spec

=============================================================================
