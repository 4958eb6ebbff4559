--------------------------- MODULE QuoteToInvoice ---------------------------
(***************************************************************************)
(* The invoices made from a quote (modules/invoices/invoices.service.ts):  *)
(* an accepted quote is turned into an invoice, which is edited, sent,     *)
(* voided or deleted, and whose link may be issued again.  The requests    *)
(* are SERIALIZABLE transactions as in Quotes; those about one invoice     *)
(* write its row, and conversions, which look for an invoice of the quote  *)
(* before they make one, conflict with each other on the business's        *)
(* invoice counter (and, in different years, on what they have looked      *)
(* for).                                                                   *)
(***************************************************************************)
EXTENDS Quotes, Sequences

CONSTANTS
  Clerks,    \* transactions about invoices that may overlap
  Invoices,  \* Invoice rows that may come to be
  NoInvoice, \* no invoice in hand
  MaxEdits,  \* bound on the revisions of an invoice
  MaxIssued  \* bound on the links issued for an invoice

ASSUME InvoicesAssumption ==
  /\ NoInvoice \notin Invoices
  /\ MaxEdits \in Nat \ {0}
  /\ MaxIssued \in Nat \ {0}

VARIABLES
  iStatus,  \* Invoice.status, or "ABSENT", or "DELETED"
  iCurrent, \* the number of its current revision
  iSource,  \* the quote's revision in sourceQuoteRevisionId
  iLinks,   \* its InvoiceAccessToken rows: 1, 2, ...: [state, revision]
  iOp,      \* the operation of a transaction that has begun
  iDoc,     \* the invoice it is about
  iRev      \* the current revision in its snapshot; a conversion's: the quote's

invoices == <<iStatus, iCurrent, iSource, iLinks>>
clerks == <<iOp, iDoc, iRev>>
ivars == <<invoices, clerks>>
allVars == <<vars, ivars>>

InvoiceOps == {"edit", "delete", "send", "reissue", "void"}
InvoiceStatuses == {"ABSENT", "DRAFT", "SENT", "VOID", "DELETED"}
LinkRows == [state : {"live", "expired", "revoked"}, revision : 1..MaxEdits]

AllTypeOK ==
  /\ TypeOK
  /\ iStatus \in [Invoices -> InvoiceStatuses]
  /\ iCurrent \in [Invoices -> 0..MaxEdits]
  /\ iSource \in [Invoices -> 0..MaxRevisions]
  /\ \A i \in Invoices :
       /\ DOMAIN iLinks[i] \subseteq 1..MaxIssued
       /\ \A n \in DOMAIN iLinks[i] : iLinks[i][n] \in LinkRows
  /\ iOp \in [Clerks -> {"idle", "convert"} \cup InvoiceOps]
  /\ iDoc \in [Clerks -> Invoices \cup {NoInvoice}]
  /\ iRev \in [Clerks -> 0..MaxEdits + MaxRevisions]

AllInit ==
  /\ Init
  /\ iStatus = [i \in Invoices |-> "ABSENT"]
  /\ iCurrent = [i \in Invoices |-> 0]
  /\ iSource = [i \in Invoices |-> 0]
  /\ iLinks = [i \in Invoices |-> <<>>]
  /\ iOp = [c \in Clerks |-> "idle"]
  /\ iDoc = [c \in Clerks |-> NoInvoice]
  /\ iRev = [c \in Clerks |-> 0]
-----------------------------------------------------------------------------
(* Transactions.                                                           *)

\* The statuses in which the checks allow an operation.
InvoiceLegalIn ==
  [edit |-> {"DRAFT"}, delete |-> {"DRAFT"}, send |-> {"DRAFT"},
   reissue |-> {"SENT"}, void |-> {"DRAFT", "SENT"}]

\* A live invoice of the quote.
Alive(i) == iStatus[i] \in {"DRAFT", "SENT"}

Takes(c, o, i, n) ==
  /\ iOp[c] = "idle"
  /\ iOp' = [iOp EXCEPT ![c] = o]
  /\ iDoc' = [iDoc EXCEPT ![c] = i]
  /\ iRev' = [iRev EXCEPT ![c] = n]
  /\ UNCHANGED <<vars, invoices>>

InvoiceBegins(c, o, i) ==
  /\ iStatus[i] \in InvoiceLegalIn[o]
  /\ Takes(c, o, i, iCurrent[i])

\* Only an accepted quote without a live invoice is turned into one.
ConvertBegins(c) ==
  /\ status = "ACCEPTED"
  /\ \A i \in Invoices : ~Alive(i)
  /\ Takes(c, "convert", NoInvoice, accepted)

\* Mutant: READ COMMITTED transactions.
InvoiceRefusedAtReadCommitted(c) == {}

\* The transactions that fail when c commits: those that are to write the same
\* invoice, or, when c makes one, the counter.
InvoiceRefused(c) == {b \in Clerks : iOp[b] # "idle" /\ iDoc[b] = iDoc[c]}

\* These transactions are over.
InvoiceFinish(C) ==
  /\ iOp' = [c \in Clerks |-> IF c \in C THEN "idle" ELSE iOp[c]]
  /\ iDoc' = [c \in Clerks |-> IF c \in C THEN NoInvoice ELSE iDoc[c]]
  /\ iRev' = [c \in Clerks |-> IF c \in C THEN 0 ELSE iRev[c]]

\* c commits operation o, whose UPDATE or DELETE asks for status and revision.
InvoiceCommits(c, o) ==
  /\ iOp[c] = o
  /\ iStatus[iDoc[c]] \in InvoiceLegalIn[o]
  /\ o \notin {"delete", "void"} => iCurrent[iDoc[c]] = iRev[c]
  /\ InvoiceFinish(InvoiceRefused(c) \cup {c})
  /\ UNCHANGED vars

\* A transaction ends and changes nothing.
InvoiceAbort(c) ==
  /\ iOp[c] # "idle"
  /\ InvoiceFinish({c})
  /\ UNCHANGED <<vars, invoices>>

\* Mutant: a new link leaves the old ones as they are.
KeptLinks(i) == iLinks[i]

\* updateMany(revokedAt: null -> now) on the invoice's tokens.
RevokedLinks(i) ==
  [n \in DOMAIN iLinks[i] |-> [iLinks[i][n] EXCEPT !.state = "revoked"]]

\* A token for the revision that is sent, after the old ones are revoked.
IssueLink(i, n) ==
  /\ Len(iLinks[i]) < MaxIssued
  /\ iLinks' = [iLinks EXCEPT ![i] =
                  Append(RevokedLinks(i), [state |-> "live", revision |-> n])]
-----------------------------------------------------------------------------
(* Operations.                                                             *)

\* createInvoiceFromQuote: a copy of the accepted revision.
Convert(c) ==
  /\ iOp[c] = "convert"
  /\ \E i \in Invoices :
       /\ iStatus[i] = "ABSENT"
       /\ iStatus' = [iStatus EXCEPT ![i] = "DRAFT"]
       /\ iCurrent' = [iCurrent EXCEPT ![i] = 1]
       /\ iSource' = [iSource EXCEPT ![i] = iRev[c]]
  /\ InvoiceFinish(InvoiceRefused(c) \cup {c})
  /\ UNCHANGED <<vars, iLinks>>

\* updateInvoiceDraft: a new revision.
EditInvoice(c) ==
  /\ InvoiceCommits(c, "edit")
  /\ iRev[c] < MaxEdits
  /\ iCurrent' = [iCurrent EXCEPT ![iDoc[c]] = @ + 1]
  /\ UNCHANGED <<iStatus, iSource, iLinks>>

DeleteInvoice(c) ==
  /\ InvoiceCommits(c, "delete")
  /\ iStatus' = [iStatus EXCEPT ![iDoc[c]] = "DELETED"]
  /\ UNCHANGED <<iCurrent, iSource, iLinks>>

SendInvoice(c) ==
  /\ InvoiceCommits(c, "send")
  /\ iStatus' = [iStatus EXCEPT ![iDoc[c]] = "SENT"]
  /\ IssueLink(iDoc[c], iRev[c])
  /\ UNCHANGED <<iCurrent, iSource>>

\* reissueInvoiceLink writes the row it does not change, to be in conflict.
Reissue(c) ==
  /\ InvoiceCommits(c, "reissue")
  /\ IssueLink(iDoc[c], iRev[c])
  /\ UNCHANGED <<iStatus, iCurrent, iSource>>

VoidInvoice(c) ==
  /\ InvoiceCommits(c, "void")
  /\ iStatus' = [iStatus EXCEPT ![iDoc[c]] = "VOID"]
  /\ iLinks' = [iLinks EXCEPT ![iDoc[c]] = RevokedLinks(iDoc[c])]
  /\ UNCHANGED <<iCurrent, iSource>>

\* INVOICE_ACCESS_TOKEN_TTL_DAYS are over; the due date does not matter.
InvoiceLinkExpires(i) ==
  /\ \E n \in DOMAIN iLinks[i] :
       /\ iLinks[i][n].state = "live"
       /\ iLinks' = [iLinks EXCEPT ![i][n].state = "expired"]
  /\ UNCHANGED <<vars, iStatus, iCurrent, iSource, clerks>>

ClerkStep(c) ==
  \/ \E o \in InvoiceOps, i \in Invoices : InvoiceBegins(c, o, i)
  \/ ConvertBegins(c) \/ Convert(c) \/ EditInvoice(c) \/ DeleteInvoice(c)
  \/ SendInvoice(c) \/ Reissue(c) \/ VoidInvoice(c) \/ InvoiceAbort(c)

AllNext ==
  \/ Next /\ UNCHANGED ivars
  \/ \E c \in Clerks : ClerkStep(c)
  \/ \E i \in Invoices : InvoiceLinkExpires(i)

AllSpec == AllInit /\ [][AllNext]_allVars

AllFairSpec == AllSpec /\ Fairness
-----------------------------------------------------------------------------
(* Properties.                                                             *)

\* "One live invoice per quote": however conversions overlap, and whatever is
\* voided or deleted meanwhile; and every invoice is made from the revision
\* the customer has accepted.
OneLiveInvoice ==
  /\ \A i, j \in Invoices : Alive(i) /\ Alive(j) => i = j
  /\ \A i \in Invoices : iStatus[i] # "ABSENT" =>
       /\ status = "ACCEPTED"
       /\ iSource[i] = accepted

\* The customer's link opens the revision that was sent, there is one at a
\* time, and none once the invoice is void.
InvoiceLinkIsCurrent ==
  \A i \in Invoices, n \in 1..MaxIssued :
    n \in DOMAIN iLinks[i] /\ iLinks[i][n].state = "live" =>
      /\ iStatus[i] = "SENT"
      /\ iLinks[i][n].revision = iCurrent[i]
      /\ n = Len(iLinks[i])
=============================================================================
