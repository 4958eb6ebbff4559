------------------------ MODULE QuoteToInvoiceProofs ------------------------
(***************************************************************************)
(* Proofs about QuoteToInvoice, for any number of invoices, overlapping    *)
(* transactions, edits and links.  A quote with invoices is still a quote, *)
(* so that what QuotesProofs shows of it holds here, too.                  *)
(*                                                                         *)
(* OneLiveInvoice depends on a conversion's reads still being so when it   *)
(* commits (Converting), and InvoiceLinkIsCurrent on a draft having no     *)
(* link at all (Unsent).                                                   *)
(***************************************************************************)
EXTENDS QuoteToInvoice, QuotesProofs

\* The variables of invoices have their types; links are sequences.
InvoiceTypes ==
  /\ iStatus \in [Invoices -> InvoiceStatuses]
  /\ iCurrent \in [Invoices -> 0..MaxEdits]
  /\ iSource \in [Invoices -> 0..MaxRevisions]
  /\ iLinks \in [Invoices -> Seq(LinkRows)]
  /\ \A i \in Invoices : Len(iLinks[i]) <= MaxIssued
  /\ iOp \in [Clerks -> {"idle", "convert"} \cup InvoiceOps]
  /\ iDoc \in [Clerks -> Invoices \cup {NoInvoice}]
  /\ iRev \in [Clerks -> 0..MaxEdits + MaxRevisions]

\* A transaction that has begun is about an invoice, or makes one.
AboutInvoice == \A c \in Clerks : iOp[c] \in InvoiceOps => iDoc[c] \in Invoices

\* What a conversion has read is still so.
Converting ==
  \A c \in Clerks : iOp[c] = "convert" =>
    /\ iDoc[c] = NoInvoice
    /\ status = "ACCEPTED"
    /\ iRev[c] = accepted
    /\ \A i \in Invoices : ~Alive(i)

\* An invoice has a revision; before it is sent it has no links.
Unsent ==
  \A i \in Invoices :
    /\ iStatus[i] # "ABSENT" => iCurrent[i] # 0
    /\ iStatus[i] \in {"ABSENT", "DRAFT"} => iLinks[i] = <<>>

\* The inductive invariant.
InvoiceInv ==
  /\ QuoteInv
  /\ InvoiceTypes
  /\ AboutInvoice
  /\ Converting
  /\ Unsent
  /\ OneLiveInvoice
  /\ InvoiceLinkIsCurrent
-----------------------------------------------------------------------------
(* A quote and its invoices.                                               *)

\* What is done about invoices changes nothing of the quote.
LEMMA ClerkStepStutters ==
  ASSUME NEW c \in Clerks, ClerkStep(c)
  PROVE  UNCHANGED vars
  BY DEF ClerkStep, InvoiceBegins, ConvertBegins, Takes, Convert, EditInvoice, DeleteInvoice,
     SendInvoice, Reissue, VoidInvoice, InvoiceCommits, InvoiceAbort

\* Every step is a step of the quote, or leaves it alone.
LEMMA AllNextIsNext == [AllNext]_allVars => [Next]_vars
<1>1. ASSUME NEW i \in Invoices, InvoiceLinkExpires(i) PROVE UNCHANGED vars
  BY <1>1 DEF InvoiceLinkExpires
<1> QED
  BY <1>1, ClerkStepStutters DEF AllNext, allVars

\* A quote with invoices is a quote.
THEOREM QuoteWithInvoices == AllSpec => Spec
<1>1. AllInit => Init
  BY DEF AllInit
<1> QED
  BY <1>1, AllNextIsNext, PTL DEF AllSpec, Spec

\* An accepted quote stays as it is.
LEMMA AcceptedStays ==
  ASSUME QuoteInv, Next, status = "ACCEPTED"
  PROVE  status' = status /\ accepted' = accepted
<1>1. \A r \in Requests : op[r] = "idle"
  BY StatusFacts DEF QuoteInv, Current, TypeOK
<1>2. ASSUME NEW r \in Requests, RequestStep(r) PROVE UNCHANGED row
  <2>1. ~(Update(r) \/ Delete(r) \/ Send(r) \/ Cancel(r) \/ Revise(r) \/ Resend(r)
          \/ Accept(r) \/ Decline(r) \/ Abort(r))
    BY <1>1 DEF Update, Delete, Send, Cancel, Revise, Resend, Accept, Decline, Abort, Commits
  <2> QED
    BY <1>2, <2>1 DEF RequestStep, OwnerBegins, CustomerBegins, Begin
<1>3. ASSUME NEW s \in Sweepers, SweepReads(s) \/ SweepApplies(s) \/ SweepFails(s)
      PROVE  status' = status /\ accepted' = accepted
  BY <1>3 DEF SweepReads, SweepApplies, SweepFails, Due, row
<1> QED
  BY <1>2, <1>3 DEF Next, Create, LinkExpires, DeadlinePasses, row
-----------------------------------------------------------------------------
(* The operators actions are made of.                                      *)

\* Transactions end, and the others go on.
LEMMA ClerksFinish ==
  ASSUME InvoiceTypes, NEW C \in SUBSET Clerks, InvoiceFinish(C)
  PROVE  /\ iOp' \in [Clerks -> {"idle", "convert"} \cup InvoiceOps]
         /\ iDoc' \in [Clerks -> Invoices \cup {NoInvoice}]
         /\ iRev' \in [Clerks -> 0..MaxEdits + MaxRevisions]
         /\ \A c \in Clerks : c \in C => iOp'[c] = "idle"
         /\ \A c \in Clerks : c \notin C =>
              iOp'[c] = iOp[c] /\ iDoc'[c] = iDoc[c] /\ iRev'[c] = iRev[c]
<1>1. 0 \in 0..MaxEdits + MaxRevisions
  BY QuotesAssumption, InvoicesAssumption
<1> QED
  BY <1>1 DEF InvoiceTypes, InvoiceFinish

\* Revoked links are links, none of them live.
LEMMA RevokedLinksType ==
  ASSUME InvoiceTypes, NEW i \in Invoices
  PROVE  /\ RevokedLinks(i) \in Seq(LinkRows)
         /\ Len(RevokedLinks(i)) = Len(iLinks[i])
         /\ \A n \in 1..Len(iLinks[i]) : RevokedLinks(i)[n].state = "revoked"
<1> DEFINE L == iLinks[i]
<1>1. L \in Seq(LinkRows) /\ Len(L) \in Nat /\ DOMAIN L = 1..Len(L)
  BY DEF InvoiceTypes
<1>2. ASSUME NEW n \in 1..Len(L)
      PROVE  /\ [L[n] EXCEPT !.state = "revoked"] \in LinkRows
             /\ [L[n] EXCEPT !.state = "revoked"].state = "revoked"
  <2>1. L[n] \in LinkRows
    BY <1>1, <1>2
  <2> QED
    BY <2>1 DEF LinkRows
<1>3. RevokedLinks(i) = [n \in 1..Len(L) |-> [L[n] EXCEPT !.state = "revoked"]]
  BY <1>1 DEF RevokedLinks
<1> HIDE DEF L
<1>4. /\ RevokedLinks(i) \in Seq(LinkRows)
      /\ Len(RevokedLinks(i)) = Len(L)
  BY <1>1, <1>2, <1>3
<1> QED
  BY <1>2, <1>3, <1>4 DEF L

\* The newest link is the only live one.
LEMMA IssuedLink ==
  ASSUME InvoiceTypes, NEW i \in Invoices, NEW n \in 1..MaxEdits, IssueLink(i, n)
  PROVE  /\ iLinks' \in [Invoices -> Seq(LinkRows)]
         /\ Len(iLinks'[i]) <= MaxIssued
         /\ iLinks'[i] # <<>>
         /\ \A j \in Invoices : j # i => iLinks'[j] = iLinks[j]
         /\ \A m \in DOMAIN iLinks'[i] : iLinks'[i][m].state = "live" =>
              m = Len(iLinks'[i]) /\ iLinks'[i][m].revision = n
<1> DEFINE R == RevokedLinks(i)  new == [state |-> "live", revision |-> n]
<1>1. new \in LinkRows
  BY DEF LinkRows
<1>2. /\ R \in Seq(LinkRows) /\ Len(R) = Len(iLinks[i]) /\ Len(iLinks[i]) \in Nat
      /\ \A m \in 1..Len(R) : R[m].state = "revoked"
  BY RevokedLinksType DEF InvoiceTypes
<1>3. iLinks'[i] = Append(R, new) /\ Len(R) < MaxIssued
      /\ iLinks' = [iLinks EXCEPT ![i] = Append(R, new)]
  BY <1>2 DEF InvoiceTypes, IssueLink
<1> HIDE DEF R, new
<1>4. /\ Append(R, new) \in Seq(LinkRows)
      /\ Len(Append(R, new)) = Len(R) + 1
      /\ DOMAIN Append(R, new) = 1..Len(R) + 1
      /\ Append(R, new)[Len(R) + 1] = new
      /\ \A m \in 1..Len(R) : Append(R, new)[m] = R[m]
      /\ Append(R, new) # <<>>
  BY <1>1, <1>2
<1>5. iLinks' \in [Invoices -> Seq(LinkRows)] /\ Len(iLinks'[i]) <= MaxIssued
      /\ \A j \in Invoices : j # i => iLinks'[j] = iLinks[j]
  BY <1>2, <1>3, <1>4, InvoicesAssumption DEF InvoiceTypes
<1>6. ASSUME NEW m \in DOMAIN iLinks'[i], iLinks'[i][m].state = "live"
      PROVE  m = Len(iLinks'[i]) /\ iLinks'[i][m].revision = n
  <2>1. m \in 1..Len(R) \/ m = Len(R) + 1
    BY <1>2, <1>3, <1>4, <1>6
  <2>2. m \notin 1..Len(R)
    BY <1>2, <1>3, <1>4, <1>6
  <2> QED
    BY <2>1, <2>2, <1>3, <1>4 DEF new
<1> QED
  BY <1>3, <1>4, <1>5, <1>6
-----------------------------------------------------------------------------
(* One lemma per kind of step.                                             *)

LEMMA InitInvoiceInv == AllInit => InvoiceInv
<1> SUFFICES ASSUME AllInit PROVE InvoiceInv
  OBVIOUS
<1>1. QuoteInv
  BY InitQuoteInv DEF AllInit
<1>2. InvoiceTypes
  <2>1. 0 \in 0..MaxEdits /\ 0 \in 0..MaxRevisions /\ 0 \in 0..MaxEdits + MaxRevisions
        /\ 0 <= MaxIssued
    BY QuotesAssumption, InvoicesAssumption
  <2>2. <<>> \in Seq(LinkRows) /\ Len(<<>>) = 0
    OBVIOUS
  <2> QED
    BY <2>1, <2>2 DEF AllInit, InvoiceTypes, InvoiceStatuses
<1>3. AboutInvoice /\ Converting /\ Unsent /\ OneLiveInvoice
  BY DEF AllInit, AboutInvoice, Converting, Unsent, OneLiveInvoice, Alive, InvoiceOps
<1>4. InvoiceLinkIsCurrent
  BY DEF AllInit, InvoiceLinkIsCurrent
<1> QED
  BY <1>1, <1>2, <1>3, <1>4 DEF InvoiceInv

\* The quote moves on, its invoices do not.
LEMMA QuoteStepKeeps ==
  ASSUME InvoiceInv, Next, UNCHANGED ivars
  PROVE  InvoiceInv'
<1>1. QuoteInv'
  BY NextKeepsQuoteInv DEF InvoiceInv
<1>2. status = "ACCEPTED" => status' = status /\ accepted' = accepted
  BY AcceptedStays DEF InvoiceInv
<1>3. UNCHANGED <<iStatus, iCurrent, iSource, iLinks, iOp, iDoc, iRev>>
  BY DEF ivars, invoices, clerks
<1>4. InvoiceTypes' /\ AboutInvoice' /\ Unsent' /\ InvoiceLinkIsCurrent'
  BY <1>3 DEF InvoiceInv, InvoiceTypes, AboutInvoice, Unsent, InvoiceLinkIsCurrent
<1>5. Converting' /\ OneLiveInvoice'
  BY <1>2, <1>3 DEF InvoiceInv, Converting, OneLiveInvoice, Alive
<1> QED
  BY <1>1, <1>4, <1>5 DEF InvoiceInv

\* A transaction begins.
LEMMA TakesKeeps ==
  ASSUME InvoiceInv, NEW c \in Clerks,
         ConvertBegins(c) \/ \E o \in InvoiceOps, i \in Invoices : InvoiceBegins(c, o, i)
  PROVE  InvoiceInv'
<1>1. UNCHANGED <<vars, iStatus, iCurrent, iSource, iLinks>>
  BY DEF ConvertBegins, InvoiceBegins, Takes, invoices
<1>2. QuoteInv'
  BY <1>1, NextKeepsQuoteInv DEF InvoiceInv
<1>3. UNCHANGED <<status, accepted>>
  BY <1>1 DEF vars, row
<1> DEFINE Taken ==
      /\ iOp' \in [Clerks -> {"idle", "convert"} \cup InvoiceOps]
      /\ iDoc' \in [Clerks -> Invoices \cup {NoInvoice}]
      /\ iRev' \in [Clerks -> 0..MaxEdits + MaxRevisions]
      /\ \A d \in Clerks : d # c =>
           iOp'[d] = iOp[d] /\ iDoc'[d] = iDoc[d] /\ iRev'[d] = iRev[d]
      /\ iOp'[c] \in InvoiceOps => iDoc'[c] \in Invoices
      /\ iOp'[c] = "convert" => /\ iDoc'[c] = NoInvoice /\ status = "ACCEPTED"
                                /\ iRev'[c] = accepted /\ \A i \in Invoices : ~Alive(i)
<1>4. Taken
  <2>1. CASE ConvertBegins(c)
    <3>1. accepted \in 0..MaxEdits + MaxRevisions
      BY QuotesAssumption, InvoicesAssumption DEF InvoiceInv, QuoteInv, TypeOK
    <3> QED
      BY <2>1, <3>1 DEF InvoiceInv, InvoiceTypes, ConvertBegins, Takes, InvoiceOps
  <2>2. ASSUME NEW o \in InvoiceOps, NEW i \in Invoices, InvoiceBegins(c, o, i)
        PROVE  Taken
    <3>1. iCurrent[i] \in 0..MaxEdits + MaxRevisions
      BY QuotesAssumption, InvoicesAssumption DEF InvoiceInv, InvoiceTypes
    <3> QED
      BY <2>2, <3>1 DEF InvoiceInv, InvoiceTypes, InvoiceBegins, Takes, InvoiceOps
  <2> QED
    BY <2>1, <2>2
<1>5. InvoiceTypes' /\ AboutInvoice'
  BY <1>1, <1>4 DEF InvoiceInv, InvoiceTypes, AboutInvoice
<1>6. Converting'
  BY <1>1, <1>3, <1>4 DEF InvoiceInv, Converting, Alive
<1>7. Unsent' /\ OneLiveInvoice' /\ InvoiceLinkIsCurrent'
  BY <1>1, <1>3 DEF InvoiceInv, Unsent, OneLiveInvoice, InvoiceLinkIsCurrent, Alive
<1> QED
  BY <1>2, <1>5, <1>6, <1>7 DEF InvoiceInv

\* Transactions that are not over are as they were, and about what they were.
ClerksGoOn ==
  /\ iOp' \in [Clerks -> {"idle", "convert"} \cup InvoiceOps]
  /\ iDoc' \in [Clerks -> Invoices \cup {NoInvoice}]
  /\ iRev' \in [Clerks -> 0..MaxEdits + MaxRevisions]
  /\ \A c \in Clerks : iOp'[c] # "idle" =>
       iOp'[c] = iOp[c] /\ iDoc'[c] = iDoc[c] /\ iRev'[c] = iRev[c]

\* What is true of the links of one invoice.
LinksCurrent(i) ==
  \A n \in DOMAIN iLinks[i] : iLinks[i][n].state = "live" =>
    /\ iStatus[i] = "SENT"
    /\ iLinks[i][n].revision = iCurrent[i]
    /\ n = Len(iLinks[i])

\* InvoiceLinkIsCurrent, without the bound on the number of links.
LEMMA LinksAreCurrent ==
  ASSUME InvoiceTypes
  PROVE  InvoiceLinkIsCurrent <=> \A i \in Invoices : LinksCurrent(i)
<1>1. ASSUME NEW i \in Invoices PROVE DOMAIN iLinks[i] \subseteq 1..MaxIssued
  <2>1. iLinks[i] \in Seq(LinkRows) /\ Len(iLinks[i]) <= MaxIssued
    BY DEF InvoiceTypes
  <2> QED
    BY <2>1, InvoicesAssumption
<1> QED
  BY <1>1 DEF InvoiceLinkIsCurrent, LinksCurrent

\* A step about one live invoice keeps the invariant if its row stays in order.
LEMMA RowStepKeeps ==
  ASSUME InvoiceInv, NEW i \in Invoices, Alive(i), ClerksGoOn,
         UNCHANGED <<vars, iSource>>,
         iStatus' \in [Invoices -> InvoiceStatuses],
         iCurrent' \in [Invoices -> 0..MaxEdits],
         iLinks' \in [Invoices -> Seq(LinkRows)],
         Len(iLinks'[i]) <= MaxIssued,
         \A j \in Invoices : j # i =>
           iStatus'[j] = iStatus[j] /\ iCurrent'[j] = iCurrent[j] /\ iLinks'[j] = iLinks[j],
         iStatus'[i] # "ABSENT", iCurrent'[i] # 0,
         iStatus'[i] = "DRAFT" => iLinks'[i] = <<>>,
         LinksCurrent(i)'
  PROVE  InvoiceInv'
<1>1. QuoteInv'
  BY NextKeepsQuoteInv DEF InvoiceInv
<1>2. UNCHANGED <<status, accepted>>
  BY DEF vars, row
<1>3. InvoiceTypes'
  BY DEF InvoiceInv, InvoiceTypes, ClerksGoOn
<1>4. AboutInvoice'
  BY DEF InvoiceInv, AboutInvoice, ClerksGoOn, InvoiceOps
<1>5. \A c \in Clerks : iOp[c] # "convert"
  BY DEF InvoiceInv, Converting
<1>6. Converting'
  BY <1>5 DEF Converting, ClerksGoOn
<1>7. Unsent'
  BY DEF InvoiceInv, Unsent
<1>8. OneLiveInvoice'
  <2>1. ASSUME NEW j \in Invoices, Alive(j)' PROVE Alive(j)
    BY <2>1 DEF Alive
  <2>2. ASSUME NEW j \in Invoices, iStatus'[j] # "ABSENT" PROVE iStatus[j] # "ABSENT"
    BY <2>2 DEF Alive
  <2> QED
    BY <1>2, <2>1, <2>2 DEF InvoiceInv, OneLiveInvoice
<1>9. InvoiceLinkIsCurrent'
  <2>1. \A j \in Invoices : LinksCurrent(j)
    BY LinksAreCurrent DEF InvoiceInv
  <2>2. \A j \in Invoices : LinksCurrent(j)'
    BY <2>1 DEF LinksCurrent
  <2>3. ASSUME NEW j \in Invoices PROVE DOMAIN iLinks'[j] \subseteq 1..MaxIssued
    <3>1. iLinks'[j] \in Seq(LinkRows) /\ Len(iLinks'[j]) <= MaxIssued
      BY <1>3 DEF InvoiceTypes
    <3> QED
      BY <3>1, InvoicesAssumption
  <2> QED
    BY <2>2 DEF InvoiceLinkIsCurrent, LinksCurrent
<1> QED
  BY <1>1, <1>3, <1>4, <1>6, <1>7, <1>8, <1>9 DEF InvoiceInv

\* What every commit has in common.
LEMMA CommitFacts ==
  ASSUME InvoiceInv, NEW c \in Clerks, NEW o \in InvoiceOps, InvoiceCommits(c, o)
  PROVE  /\ iDoc[c] \in Invoices
         /\ Alive(iDoc[c])
         /\ iStatus[iDoc[c]] \in InvoiceLegalIn[o]
         /\ iCurrent[iDoc[c]] \in 1..MaxEdits
         /\ ClerksGoOn
         /\ UNCHANGED vars
<1>1. iDoc[c] \in Invoices
  BY DEF InvoiceInv, AboutInvoice, InvoiceCommits
<1>2. iStatus[iDoc[c]] \in InvoiceLegalIn[o]
  BY DEF InvoiceCommits
<1>3. InvoiceLegalIn[o] \subseteq {"DRAFT", "SENT"}
  BY DEF InvoiceOps, InvoiceLegalIn
<1>4. iCurrent[iDoc[c]] \in 1..MaxEdits
  <2>1. iCurrent[iDoc[c]] \in 0..MaxEdits
    BY <1>1 DEF InvoiceInv, InvoiceTypes
  <2>2. iCurrent[iDoc[c]] # 0
    BY <1>1, <1>2, <1>3 DEF InvoiceInv, Unsent
  <2> QED
    BY <2>1, <2>2, InvoicesAssumption
<1>5. InvoiceRefused(c) \cup {c} \in SUBSET Clerks
  BY DEF InvoiceRefused
<1>6. ClerksGoOn
  BY <1>5, ClerksFinish DEF InvoiceInv, InvoiceCommits, ClerksGoOn
<1> QED
  BY <1>1, <1>2, <1>3, <1>4, <1>6 DEF InvoiceCommits, Alive

\* updateInvoiceDraft.
LEMMA EditKeeps ==
  ASSUME InvoiceInv, NEW c \in Clerks, EditInvoice(c)
  PROVE  InvoiceInv'
<1>0. PICK i \in Invoices : i = iDoc[c]
  BY CommitFacts DEF EditInvoice, InvoiceOps
<1>1. /\ Alive(i) /\ iStatus[i] = "DRAFT"
      /\ iCurrent[i] \in 1..MaxEdits /\ iCurrent[i] = iRev[c] /\ iRev[c] < MaxEdits
      /\ ClerksGoOn /\ UNCHANGED vars
  BY <1>0, CommitFacts DEF EditInvoice, InvoiceOps, InvoiceLegalIn, InvoiceCommits
<1>2. /\ iCurrent' = [iCurrent EXCEPT ![i] = @ + 1]
      /\ UNCHANGED <<iStatus, iSource, iLinks>>
  BY <1>0 DEF EditInvoice
<1>3. iLinks[i] = <<>>
  BY <1>1 DEF InvoiceInv, Unsent
<1>4. /\ iCurrent' \in [Invoices -> 0..MaxEdits]
      /\ iCurrent'[i] # 0
      /\ \A j \in Invoices : j # i => iCurrent'[j] = iCurrent[j]
  BY <1>1, <1>2, InvoicesAssumption DEF InvoiceInv, InvoiceTypes
<1>5. LinksCurrent(i)'
  BY <1>2, <1>3 DEF LinksCurrent
<1>6. /\ iStatus' \in [Invoices -> InvoiceStatuses]
      /\ iLinks' \in [Invoices -> Seq(LinkRows)] /\ Len(iLinks'[i]) <= MaxIssued
  BY <1>1, <1>2 DEF InvoiceInv, InvoiceTypes
<1> QED
  BY <1>1, <1>2, <1>3, <1>4, <1>5, <1>6, RowStepKeeps

\* deleteInvoiceDraft.
LEMMA DeleteKeeps ==
  ASSUME InvoiceInv, NEW c \in Clerks, DeleteInvoice(c)
  PROVE  InvoiceInv'
<1>0. PICK i \in Invoices : i = iDoc[c]
  BY CommitFacts DEF DeleteInvoice, InvoiceOps
<1>1. /\ Alive(i) /\ iStatus[i] = "DRAFT" /\ iCurrent[i] \in 1..MaxEdits
      /\ ClerksGoOn /\ UNCHANGED vars
  BY <1>0, CommitFacts DEF DeleteInvoice, InvoiceOps, InvoiceLegalIn
<1>2. /\ iStatus' = [iStatus EXCEPT ![i] = "DELETED"]
      /\ UNCHANGED <<iCurrent, iSource, iLinks>>
  BY <1>0 DEF DeleteInvoice
<1>3. iLinks[i] = <<>>
  BY <1>1 DEF InvoiceInv, Unsent
<1>4. /\ iStatus' \in [Invoices -> InvoiceStatuses] /\ iStatus'[i] = "DELETED"
      /\ \A j \in Invoices : j # i => iStatus'[j] = iStatus[j]
  BY <1>1, <1>2 DEF InvoiceInv, InvoiceTypes, InvoiceStatuses
<1>5. LinksCurrent(i)'
  BY <1>2, <1>3 DEF LinksCurrent
<1>6. /\ iCurrent' \in [Invoices -> 0..MaxEdits] /\ iCurrent'[i] # 0
      /\ iLinks' \in [Invoices -> Seq(LinkRows)] /\ Len(iLinks'[i]) <= MaxIssued
  BY <1>1, <1>2 DEF InvoiceInv, InvoiceTypes
<1> QED
  BY <1>1, <1>2, <1>4, <1>5, <1>6, RowStepKeeps

\* sendInvoice and reissueInvoiceLink: a new link, and no other.
LEMMA LinkKeeps ==
  ASSUME InvoiceInv, NEW c \in Clerks, SendInvoice(c) \/ Reissue(c)
  PROVE  InvoiceInv'
<1>0. PICK i \in Invoices : i = iDoc[c]
  BY CommitFacts DEF SendInvoice, Reissue, InvoiceOps
<1>1. /\ Alive(i)
      /\ iCurrent[i] \in 1..MaxEdits /\ iCurrent[i] = iRev[c]
      /\ ClerksGoOn /\ UNCHANGED vars
  <2>1. PICK o \in {"send", "reissue"} : InvoiceCommits(c, o)
    BY DEF SendInvoice, Reissue
  <2> QED
    BY <1>0, <2>1, CommitFacts DEF InvoiceOps, InvoiceCommits
<1>2. /\ IssueLink(i, iRev[c])
      /\ UNCHANGED <<iCurrent, iSource>>
      /\ \/ iStatus' = [iStatus EXCEPT ![i] = "SENT"]
         \/ iStatus' = iStatus /\ iStatus[i] = "SENT"
  <2>1. CASE SendInvoice(c)
    BY <1>0, <2>1 DEF SendInvoice
  <2>2. CASE Reissue(c)
    BY <1>0, <2>2 DEF Reissue, InvoiceCommits, InvoiceLegalIn
  <2> QED
    BY <2>1, <2>2
<1>3. /\ iLinks' \in [Invoices -> Seq(LinkRows)] /\ Len(iLinks'[i]) <= MaxIssued
      /\ iLinks'[i] # <<>>
      /\ \A j \in Invoices : j # i => iLinks'[j] = iLinks[j]
      /\ \A m \in DOMAIN iLinks'[i] : iLinks'[i][m].state = "live" =>
           m = Len(iLinks'[i]) /\ iLinks'[i][m].revision = iRev[c]
  BY <1>1, <1>2, IssuedLink DEF InvoiceInv
<1>4. /\ iStatus' \in [Invoices -> InvoiceStatuses] /\ iStatus'[i] = "SENT"
      /\ \A j \in Invoices : j # i => iStatus'[j] = iStatus[j]
  BY <1>1, <1>2 DEF InvoiceInv, InvoiceTypes, InvoiceStatuses
<1>5. LinksCurrent(i)'
  BY <1>1, <1>2, <1>3, <1>4 DEF LinksCurrent
<1>6. iCurrent' \in [Invoices -> 0..MaxEdits] /\ iCurrent'[i] # 0
  BY <1>1, <1>2 DEF InvoiceInv, InvoiceTypes
<1> QED
  BY <1>1, <1>2, <1>3, <1>4, <1>5, <1>6, RowStepKeeps

\* voidInvoice.
LEMMA VoidKeeps ==
  ASSUME InvoiceInv, NEW c \in Clerks, VoidInvoice(c)
  PROVE  InvoiceInv'
<1>0. PICK i \in Invoices : i = iDoc[c]
  BY CommitFacts DEF VoidInvoice, InvoiceOps
<1>1. /\ Alive(i) /\ iCurrent[i] \in 1..MaxEdits
      /\ ClerksGoOn /\ UNCHANGED vars
  BY <1>0, CommitFacts DEF VoidInvoice, InvoiceOps
<1>2. /\ iStatus' = [iStatus EXCEPT ![i] = "VOID"]
      /\ iLinks' = [iLinks EXCEPT ![i] = RevokedLinks(i)]
      /\ UNCHANGED <<iCurrent, iSource>>
  BY <1>0 DEF VoidInvoice
<1>3. /\ RevokedLinks(i) \in Seq(LinkRows)
      /\ Len(RevokedLinks(i)) = Len(iLinks[i]) /\ Len(iLinks[i]) <= MaxIssued
      /\ \A n \in 1..Len(iLinks[i]) : RevokedLinks(i)[n].state = "revoked"
  BY <1>1, RevokedLinksType DEF InvoiceInv, InvoiceTypes
<1>4. /\ iStatus' \in [Invoices -> InvoiceStatuses] /\ iStatus'[i] = "VOID"
      /\ \A j \in Invoices : j # i => iStatus'[j] = iStatus[j]
  BY <1>1, <1>2 DEF InvoiceInv, InvoiceTypes, InvoiceStatuses
<1>5. /\ iLinks' \in [Invoices -> Seq(LinkRows)] /\ iLinks'[i] = RevokedLinks(i)
      /\ \A j \in Invoices : j # i => iLinks'[j] = iLinks[j]
  BY <1>1, <1>2, <1>3 DEF InvoiceInv, InvoiceTypes
<1>6. LinksCurrent(i)'
  <2>1. DOMAIN RevokedLinks(i) = 1..Len(iLinks[i])
    BY <1>3
  <2> QED
    BY <1>3, <1>5, <2>1 DEF LinksCurrent
<1>7. iCurrent' \in [Invoices -> 0..MaxEdits] /\ iCurrent'[i] # 0
  BY <1>1, <1>2 DEF InvoiceInv, InvoiceTypes
<1> QED
  BY <1>1, <1>2, <1>3, <1>4, <1>5, <1>6, <1>7, RowStepKeeps

\* createInvoiceFromQuote.
LEMMA ConvertKeeps ==
  ASSUME InvoiceInv, NEW c \in Clerks, Convert(c)
  PROVE  InvoiceInv'
<1>1. PICK i \in Invoices :
        /\ iStatus[i] = "ABSENT"
        /\ iStatus' = [iStatus EXCEPT ![i] = "DRAFT"]
        /\ iCurrent' = [iCurrent EXCEPT ![i] = 1]
        /\ iSource' = [iSource EXCEPT ![i] = iRev[c]]
  BY DEF Convert
<1>2. /\ iOp[c] = "convert" /\ iDoc[c] = NoInvoice
      /\ status = "ACCEPTED" /\ iRev[c] = accepted
      /\ \A j \in Invoices : ~Alive(j)
      /\ UNCHANGED <<vars, iLinks>>
  BY DEF InvoiceInv, Converting, Convert
<1>3. QuoteInv'
  BY <1>2, NextKeepsQuoteInv DEF InvoiceInv
<1>4. UNCHANGED <<status, accepted>> /\ accepted \in 0..MaxRevisions
  BY <1>2 DEF vars, row, InvoiceInv, QuoteInv, TypeOK
<1>5. ClerksGoOn /\ \A d \in Clerks : iOp'[d] # "convert"
  <2>1. InvoiceRefused(c) \cup {c} \in SUBSET Clerks
    BY DEF InvoiceRefused
  <2>2. \A d \in Clerks : iOp[d] = "convert" => d \in InvoiceRefused(c)
    BY <1>2 DEF InvoiceRefused, InvoiceInv, Converting
  <2>3. InvoiceFinish(InvoiceRefused(c) \cup {c})
    BY DEF Convert
  <2> QED
    BY <2>1, <2>2, <2>3, ClerksFinish DEF InvoiceInv, ClerksGoOn
<1>6. InvoiceTypes'
  <2>1. iStatus' \in [Invoices -> InvoiceStatuses]
    BY <1>1 DEF InvoiceInv, InvoiceTypes, InvoiceStatuses
  <2>2. iCurrent' \in [Invoices -> 0..MaxEdits]
    BY <1>1, InvoicesAssumption DEF InvoiceInv, InvoiceTypes
  <2>3. iSource' \in [Invoices -> 0..MaxRevisions]
    BY <1>1, <1>2, <1>4 DEF InvoiceInv, InvoiceTypes
  <2> QED
    BY <2>1, <2>2, <2>3, <1>2, <1>5 DEF InvoiceInv, InvoiceTypes, ClerksGoOn
<1>7. AboutInvoice' /\ Converting'
  BY <1>5 DEF InvoiceInv, AboutInvoice, Converting, ClerksGoOn, InvoiceOps
<1>8. \A j \in Invoices : j # i =>
        iStatus'[j] = iStatus[j] /\ iCurrent'[j] = iCurrent[j] /\ iSource'[j] = iSource[j]
  BY <1>1 DEF InvoiceInv, InvoiceTypes
<1>9. iStatus'[i] = "DRAFT" /\ iCurrent'[i] = 1 /\ iSource'[i] = accepted /\ iLinks[i] = <<>>
  BY <1>1, <1>2 DEF InvoiceInv, InvoiceTypes, Unsent
<1>10. Unsent'
  BY <1>2, <1>8, <1>9 DEF InvoiceInv, Unsent
<1>11. OneLiveInvoice'
  <2>1. \A j \in Invoices : Alive(j)' => j = i
    BY <1>2, <1>8 DEF Alive
  <2> QED
    BY <2>1, <1>2, <1>4, <1>8, <1>9 DEF InvoiceInv, OneLiveInvoice
<1>12. InvoiceLinkIsCurrent'
  BY <1>2, <1>8, <1>9 DEF InvoiceInv, InvoiceLinkIsCurrent
<1> QED
  BY <1>3, <1>6, <1>7, <1>10, <1>11, <1>12 DEF InvoiceInv

\* A transaction ends without having changed anything.
LEMMA InvoiceAbortKeeps ==
  ASSUME InvoiceInv, NEW c \in Clerks, InvoiceAbort(c)
  PROVE  InvoiceInv'
<1>1. UNCHANGED <<vars, iStatus, iCurrent, iSource, iLinks>>
  BY DEF InvoiceAbort, invoices
<1>2. ClerksGoOn
  BY ClerksFinish DEF InvoiceInv, InvoiceAbort, ClerksGoOn
<1>3. QuoteInv' /\ UNCHANGED <<status, accepted>>
  BY <1>1, NextKeepsQuoteInv DEF InvoiceInv, vars, row
<1>4. InvoiceTypes' /\ AboutInvoice'
  BY <1>1, <1>2 DEF InvoiceInv, InvoiceTypes, AboutInvoice, ClerksGoOn, InvoiceOps
<1>5. Converting'
  BY <1>1, <1>2, <1>3 DEF InvoiceInv, Converting, ClerksGoOn, Alive
<1>6. Unsent' /\ OneLiveInvoice' /\ InvoiceLinkIsCurrent'
  BY <1>1, <1>3 DEF InvoiceInv, Unsent, OneLiveInvoice, InvoiceLinkIsCurrent, Alive
<1> QED
  BY <1>3, <1>4, <1>5, <1>6 DEF InvoiceInv

\* A link runs out.
LEMMA LinkExpiresKeeps ==
  ASSUME InvoiceInv, NEW i \in Invoices, InvoiceLinkExpires(i)
  PROVE  InvoiceInv'
<1>1. PICK n \in DOMAIN iLinks[i] :
        /\ iLinks[i][n].state = "live"
        /\ iLinks' = [iLinks EXCEPT ![i][n].state = "expired"]
  BY DEF InvoiceLinkExpires
<1>2. UNCHANGED <<vars, iStatus, iCurrent, iSource, iOp, iDoc, iRev>>
  BY DEF InvoiceLinkExpires, clerks
<1>3. /\ iLinks[i] \in Seq(LinkRows) /\ Len(iLinks[i]) <= MaxIssued
      /\ iLinks \in [Invoices -> Seq(LinkRows)]
      /\ n \in 1..Len(iLinks[i]) /\ iLinks[i][n] \in LinkRows
  BY <1>1 DEF InvoiceInv, InvoiceTypes
<1>4. [iLinks[i][n] EXCEPT !.state = "expired"] \in LinkRows
      /\ [iLinks[i][n] EXCEPT !.state = "expired"].state = "expired"
  BY <1>3 DEF LinkRows
<1>5. iLinks'[i] = [iLinks[i] EXCEPT ![n] = [iLinks[i][n] EXCEPT !.state = "expired"]]
      /\ \A j \in Invoices : j # i => iLinks'[j] = iLinks[j]
      /\ DOMAIN iLinks' = Invoices
  BY <1>1, <1>3
<1>6. /\ iLinks'[i] \in Seq(LinkRows) /\ Len(iLinks'[i]) = Len(iLinks[i])
      /\ iLinks'[i][n].state = "expired"
      /\ \A m \in 1..Len(iLinks[i]) : m # n => iLinks'[i][m] = iLinks[i][m]
  BY <1>3, <1>4, <1>5
<1>7. Alive(i) /\ LinksCurrent(i) /\ iStatus[i] = "SENT"
  BY <1>1, LinksAreCurrent DEF InvoiceInv, LinksCurrent, Alive
<1>8. ClerksGoOn
  BY <1>2 DEF InvoiceInv, InvoiceTypes, ClerksGoOn
<1>9. iLinks' \in [Invoices -> Seq(LinkRows)]
  <2>1. iLinks' = [j \in Invoices |-> iLinks'[j]]
    BY <1>1, <1>3
  <2>2. \A j \in Invoices : iLinks'[j] \in Seq(LinkRows)
    BY <1>3, <1>5, <1>6
  <2> QED
    BY <2>1, <2>2
<1>10. LinksCurrent(i)'
  <2>1. DOMAIN iLinks'[i] = 1..Len(iLinks[i]) /\ DOMAIN iLinks[i] = 1..Len(iLinks[i])
    BY <1>3, <1>6
  <2> QED
    BY <1>2, <1>6, <1>7, <2>1 DEF LinksCurrent
<1>11. /\ iStatus' \in [Invoices -> InvoiceStatuses] /\ iCurrent' \in [Invoices -> 0..MaxEdits]
       /\ iStatus'[i] = "SENT" /\ iCurrent'[i] # 0
  BY <1>2, <1>7 DEF InvoiceInv, InvoiceTypes, Unsent
<1> QED
  BY <1>2, <1>3, <1>5, <1>6, <1>7, <1>8, <1>9, <1>10, <1>11, RowStepKeeps
-----------------------------------------------------------------------------
(* The theorems.                                                           *)

\* Every step keeps the inductive invariant.
LEMMA AllNextKeepsInvoiceInv == InvoiceInv /\ [AllNext]_allVars => InvoiceInv'
<1> SUFFICES ASSUME InvoiceInv, [AllNext]_allVars PROVE InvoiceInv'
  OBVIOUS
<1>1. CASE Next /\ UNCHANGED ivars
  BY <1>1, QuoteStepKeeps
<1>2. ASSUME NEW c \in Clerks, ClerkStep(c) PROVE InvoiceInv'
  BY <1>2, TakesKeeps, ConvertKeeps, EditKeeps, DeleteKeeps, LinkKeeps, VoidKeeps,
     InvoiceAbortKeeps DEF ClerkStep
<1>3. ASSUME NEW i \in Invoices, InvoiceLinkExpires(i) PROVE InvoiceInv'
  BY <1>3, LinkExpiresKeeps
<1>4. CASE UNCHANGED allVars
  <2>1. UNCHANGED vars /\ UNCHANGED <<status, accepted>>
        /\ UNCHANGED <<iStatus, iCurrent, iSource, iLinks, iOp, iDoc, iRev>>
    BY <1>4 DEF allVars, ivars, invoices, clerks, vars, row
  <2>2. QuoteInv'
    BY <2>1, NextKeepsQuoteInv DEF InvoiceInv
  <2> QED
    BY <2>1, <2>2 DEF InvoiceInv, InvoiceTypes, AboutInvoice, Converting, Unsent, OneLiveInvoice,
       InvoiceLinkIsCurrent, Alive
<1> QED
  BY <1>1, <1>2, <1>3, <1>4 DEF AllNext

\* However many conversions of a quote overlap, and whatever is edited, voided
\* or deleted meanwhile, it has at most one live invoice, and every invoice
\* was made from the revision the customer has accepted.
THEOREM AtMostOneLiveInvoice == AllSpec => []OneLiveInvoice
<1>1. InvoiceInv => OneLiveInvoice
  BY DEF InvoiceInv
<1> QED
  BY InitInvoiceInv, AllNextKeepsInvoiceInv, <1>1, PTL DEF AllSpec

\* A link that opens an invoice opens what was sent, is the newest, and dies
\* when the invoice is voided.
THEOREM InvoiceLinksStayCurrent == AllSpec => []InvoiceLinkIsCurrent
<1>1. InvoiceInv => InvoiceLinkIsCurrent
  BY DEF InvoiceInv
<1> QED
  BY InitInvoiceInv, AllNextKeepsInvoiceInv, <1>1, PTL DEF AllSpec

\* Every variable, of the quote and of its invoices, keeps its type.
THEOREM QuotesAndInvoicesTyped == AllSpec => []AllTypeOK
<1>1. InvoiceInv => AllTypeOK
  <2> SUFFICES ASSUME InvoiceInv PROVE AllTypeOK
    OBVIOUS
  <2>1. ASSUME NEW i \in Invoices
        PROVE  /\ DOMAIN iLinks[i] \subseteq 1..MaxIssued
               /\ \A n \in DOMAIN iLinks[i] : iLinks[i][n] \in LinkRows
    <3>1. iLinks[i] \in Seq(LinkRows) /\ Len(iLinks[i]) <= MaxIssued
      BY DEF InvoiceInv, InvoiceTypes
    <3> QED
      BY <3>1, InvoicesAssumption
  <2> QED
    BY <2>1 DEF InvoiceInv, InvoiceTypes, AllTypeOK, QuoteInv
<1> QED
  BY InitInvoiceInv, AllNextKeepsInvoiceInv, <1>1, PTL DEF AllSpec
-----------------------------------------------------------------------------
(* The life of an invoice.                                                 *)

\* The invoice transition graph of invoices.domain.ts, and the creation and
\* deletion of a draft.
InvoiceGraph ==
  {<<"ABSENT", "DRAFT">>, <<"DRAFT", "SENT">>, <<"DRAFT", "VOID">>, <<"SENT", "VOID">>,
   <<"DRAFT", "DELETED">>}

\* The status of an invoice moves along the graph, it keeps its source, and
\* once it has been sent or voided its revision is not replaced.
InvoiceFollowsGraph ==
  [][\A i \in Invoices :
       /\ iStatus'[i] # iStatus[i] => <<iStatus[i], iStatus'[i]>> \in InvoiceGraph
       /\ iStatus[i] # "ABSENT" => iSource'[i] = iSource[i]
       /\ iStatus[i] \in {"SENT", "VOID"} => iCurrent'[i] = iCurrent[i]]_allVars

\* What a step makes of invoice i.
InvoiceMoves(i) ==
  /\ iStatus'[i] # iStatus[i] => <<iStatus[i], iStatus'[i]>> \in InvoiceGraph
  /\ iStatus[i] # "ABSENT" => iSource'[i] = iSource[i]
  /\ iStatus[i] \in {"SENT", "VOID"} => iCurrent'[i] = iCurrent[i]

LEMMA ClerkMoves ==
  ASSUME InvoiceInv, NEW c \in Clerks, ClerkStep(c), NEW i \in Invoices
  PROVE  InvoiceMoves(i)
<1> USE DEF InvoiceInv, InvoiceTypes
<1>1. CASE ConvertBegins(c) \/ InvoiceAbort(c)
           \/ \E o \in InvoiceOps, j \in Invoices : InvoiceBegins(c, o, j)
  BY <1>1 DEF ConvertBegins, InvoiceAbort, InvoiceBegins, Takes, invoices, InvoiceMoves
<1>2. CASE Convert(c)
  <2>1. PICK j \in Invoices : /\ iStatus[j] = "ABSENT"
                              /\ iStatus' = [iStatus EXCEPT ![j] = "DRAFT"]
                              /\ iCurrent' = [iCurrent EXCEPT ![j] = 1]
                              /\ iSource' = [iSource EXCEPT ![j] = iRev[c]]
    BY <1>2 DEF Convert
  <2> QED BY <2>1 DEF InvoiceMoves, InvoiceGraph
<1>3. CASE EditInvoice(c)
  <2>1. /\ iStatus[iDoc[c]] = "DRAFT"
        /\ iCurrent' = [iCurrent EXCEPT ![iDoc[c]] = @ + 1]
        /\ UNCHANGED <<iStatus, iSource>>
    BY <1>3 DEF EditInvoice, InvoiceCommits, InvoiceLegalIn
  <2> QED BY <2>1 DEF InvoiceMoves
<1>4. CASE DeleteInvoice(c) \/ SendInvoice(c) \/ Reissue(c) \/ VoidInvoice(c)
  <2>1. \/ iStatus' = iStatus
        \/ \E s \in {"DELETED", "SENT", "VOID"} :
             /\ iStatus' = [iStatus EXCEPT ![iDoc[c]] = s]
             /\ <<iStatus[iDoc[c]], s>> \in InvoiceGraph
    BY <1>4 DEF DeleteInvoice, SendInvoice, Reissue, VoidInvoice, InvoiceCommits,
       InvoiceLegalIn, InvoiceGraph
  <2>2. UNCHANGED <<iCurrent, iSource>>
    BY <1>4 DEF DeleteInvoice, SendInvoice, Reissue, VoidInvoice
  <2> QED BY <2>1, <2>2 DEF InvoiceMoves
<1> QED BY <1>1, <1>2, <1>3, <1>4 DEF ClerkStep

\* Whatever overlaps, an invoice is sent at most once, never after it is void,
\* always from the accepted revision it was made from, and what the customer
\* was sent is not edited.
THEOREM InvoiceLifecycle == AllSpec => InvoiceFollowsGraph
<1>1. InvoiceInv /\ [AllNext]_allVars =>
        [\A i \in Invoices :
           /\ iStatus'[i] # iStatus[i] => <<iStatus[i], iStatus'[i]>> \in InvoiceGraph
           /\ iStatus[i] # "ABSENT" => iSource'[i] = iSource[i]
           /\ iStatus[i] \in {"SENT", "VOID"} => iCurrent'[i] = iCurrent[i]]_allVars
  <2> SUFFICES ASSUME InvoiceInv, AllNext, NEW i \in Invoices
               PROVE  InvoiceMoves(i)
    BY DEF InvoiceMoves
  <2>1. CASE UNCHANGED <<iStatus, iCurrent, iSource>>
    BY <2>1 DEF InvoiceMoves
  <2>2. ASSUME NEW c \in Clerks, ClerkStep(c) PROVE InvoiceMoves(i)
    BY <2>2, ClerkMoves
  <2> QED BY <2>1, <2>2 DEF AllNext, InvoiceLinkExpires, ivars, invoices
<1> QED
  BY InitInvoiceInv, AllNextKeepsInvoiceInv, <1>1, PTL DEF AllSpec, InvoiceFollowsGraph

=============================================================================
