---------------------------- MODULE QuotesProofs ----------------------------
(***************************************************************************)
(* Proofs about Quotes, for any number of overlapping requests, sweeps,    *)
(* links and revisions.                                                    *)
(*                                                                         *)
(* ClosedOnce and OpenLinkIsCurrent are not inductive: they depend on what *)
(* a request has read still being so when it commits (Current), and on     *)
(* links that have expired, which a revision could otherwise leave behind  *)
(* unrevoked (Unrevoked).                                                  *)
(***************************************************************************)
EXTENDS Quotes, TLAPS

\* Every quote has a revision.
Numbered == status # "ABSENT" => current # 0

\* The snapshot of a request that has begun is what the row still says.
Current ==
  \A r \in Requests : op[r] # "idle" => status = LegalIn[op[r]] /\ rev[r] = current

\* A link that is not revoked is bound to the revision of a sent quote.
Unrevoked ==
  \A t \in Links : link[t] \in {"live", "expired"} => status = "SENT" /\ bound[t] = current

\* The inductive invariant.
QuoteInv == TypeOK /\ Numbered /\ Current /\ Unrevoked /\ OpenLinkIsCurrent /\ ClosedOnce

-----------------------------------------------------------------------------
(* The operators actions are made of.                                      *)

\* A request leaves the others as they are or ends them.
LEMMA FinishKeeps ==
  ASSUME TypeOK, NEW R \in SUBSET Requests, Finish(R)
  PROVE  /\ op' \in [Requests -> {"idle"} \cup OwnerOps \cup Decisions]
         /\ rev' \in [Requests -> 0..MaxRevisions]
         /\ \A r \in Requests : r \in R => op'[r] = "idle"
         /\ \A r \in Requests : r \notin R => op'[r] = op[r] /\ rev'[r] = rev[r]
  BY QuotesAssumption DEF TypeOK, Finish

\* When a request commits, all requests are over.
LEMMA CommitEndsAll ==
  ASSUME TypeOK, NEW r \in Requests, Finish(Refused \cup {r})
  PROVE  /\ op' \in [Requests -> {"idle"} \cup OwnerOps \cup Decisions]
         /\ rev' \in [Requests -> 0..MaxRevisions]
         /\ \A q \in Requests : op'[q] = "idle"
<1>1. Refused \cup {r} \in SUBSET Requests
  BY DEF Refused
<1> QED
  BY <1>1, FinishKeeps DEF Refused

\* The sweep ends all requests as well.
LEMMA SweepEndsAll ==
  ASSUME TypeOK, Finish(Refused)
  PROVE  /\ op' \in [Requests -> {"idle"} \cup OwnerOps \cup Decisions]
         /\ rev' \in [Requests -> 0..MaxRevisions]
         /\ \A q \in Requests : op'[q] = "idle"
<1>1. Refused \in SUBSET Requests
  BY DEF Refused
<1> QED
  BY <1>1, FinishKeeps DEF Refused

\* A request that commits does so on the row it has read.
LEMMA CommitsOnCurrent ==
  ASSUME TypeOK, Current, NEW r \in Requests, NEW o \in OwnerOps \cup Decisions, Commits(r, o)
  PROVE  /\ status = LegalIn[o]
         /\ rev[r] = current
         /\ Finish(Refused \cup {r})
         /\ swept' = swept
<1>1. op[r] # "idle"
  BY DEF Commits, OwnerOps, Decisions
<1> QED
  BY <1>1 DEF Commits, Current

\* Revoking keeps links well typed.
LEMMA RevokedType ==
  ASSUME TypeOK, NEW S
  PROVE  /\ Revoked(S) \in [Links -> {"none", "live", "expired", "revoked"}]
         /\ \A t \in Links : bound[t] \in S => Revoked(S)[t] \in {"none", "revoked"}
         /\ \A t \in Links : Revoked(S)[t] # "revoked" => Revoked(S)[t] = link[t]
  BY DEF TypeOK, Revoked

\* The only link that is not revoked is the one that is issued.
LEMMA IssuedIsOnly ==
  ASSUME TypeOK, NEW n \in 0..MaxRevisions, NEW d \in Deadlines, NEW S,
         Issue(n, d, S), \A t \in Links : link[t] \in {"live", "expired"} => bound[t] \in S
  PROVE  /\ link' \in [Links -> {"none", "live", "expired", "revoked"}]
         /\ bound' \in [Links -> 0..MaxRevisions]
         /\ \A t \in Links : link'[t] \in {"live", "expired"} => bound'[t] = n
         /\ \A t, u \in Links : link'[t] \in {"live", "expired"}
                                /\ link'[u] \in {"live", "expired"} => t = u
         /\ \A t \in Links : link'[t] = "live" => d # "past"
<1>1. PICK t \in Links :
        /\ link[t] = "none"
        /\ link' = [Revoked(S) EXCEPT ![t] = Fresh(d)]
        /\ bound' = [bound EXCEPT ![t] = n]
  BY DEF Issue
<1>2. Fresh(d) \in {"live", "expired"} /\ (Fresh(d) = "live" => d # "past")
  BY DEF Fresh
<1>3. /\ Revoked(S) \in [Links -> {"none", "live", "expired", "revoked"}]
      /\ \A u \in Links : Revoked(S)[u] \in {"none", "revoked"}
  BY DEF TypeOK, Revoked
<1>4. \A u \in Links : u # t => link'[u] \in {"none", "revoked"}
  BY <1>1, <1>3
<1>5. /\ link' \in [Links -> {"none", "live", "expired", "revoked"}]
      /\ bound' \in [Links -> 0..MaxRevisions]
      /\ link'[t] = Fresh(d) /\ bound'[t] = n
  BY <1>1, <1>2, <1>3 DEF TypeOK
<1> QED
  BY <1>2, <1>4, <1>5

\* A quote that is not yet closed gets its closing event.
LEMMA ClosesOnce ==
  ASSUME TypeOK, ClosedOnce, status \notin Terminal,
         NEW event \in Terminal, NEW n \in 0..MaxRevisions, Close(event, n)
  PROVE  /\ closing' = [event |-> event, revision |-> n]
         /\ closing' \in [event : Terminal \cup {"none"}, revision : 0..MaxRevisions]
         /\ closings' = 1
  BY DEF ClosedOnce, Close, ClosingCap

\* Every status a row is written with.
LEMMA StatusFacts ==
  /\ Terminal \subseteq Statuses
  /\ \A s \in {"ABSENT", "DRAFT", "SENT", "DELETED"} : s \in Statuses /\ s \notin Terminal
  /\ \A o \in OwnerOps \cup Decisions : LegalIn[o] \in {"DRAFT", "SENT"}
  BY DEF Terminal, Statuses, OwnerOps, Decisions, LegalIn
-----------------------------------------------------------------------------
(* One lemma per kind of step.                                             *)

LEMMA InitQuoteInv == Init => QuoteInv
  BY QuotesAssumption DEF Init, QuoteInv, TypeOK, Numbered, Current, Unrevoked, OpenLinkIsCurrent,
     ClosedOnce, Statuses, Terminal, Deadlines, ClosingCap

\* createQuoteDraft.
LEMMA CreateKeeps == QuoteInv /\ Create => QuoteInv'
<1> SUFFICES ASSUME QuoteInv, Create PROVE QuoteInv'
  OBVIOUS
<1>1. \A r \in Requests : op[r] = "idle"
  BY StatusFacts DEF QuoteInv, Create, Current, TypeOK
<1>2. \A t \in Links : link[t] \notin {"live", "expired"}
  BY DEF QuoteInv, Create, Unrevoked
<1>3. TypeOK'
  BY StatusFacts, QuotesAssumption DEF QuoteInv, Create, TypeOK, ledger, requests
<1>4. Current' /\ Unrevoked' /\ OpenLinkIsCurrent' /\ Numbered'
  BY <1>1, <1>2 DEF Create, Current, Unrevoked, OpenLinkIsCurrent, Numbered, ledger, requests
<1>5. ClosedOnce'
  BY StatusFacts DEF QuoteInv, Create, ClosedOnce, ledger, Terminal
<1> QED
  BY <1>3, <1>4, <1>5 DEF QuoteInv

\* A request begins.
LEMMA BeginKeeps ==
  ASSUME QuoteInv, NEW r \in Requests, NEW o \in OwnerOps \cup Decisions, Begin(r, o)
  PROVE  QuoteInv'
<1>1. TypeOK'
  BY DEF QuoteInv, Begin, TypeOK, row, ledger
<1>2. Current'
  BY DEF QuoteInv, Begin, Current, TypeOK, row
<1>3. Numbered' /\ Unrevoked' /\ OpenLinkIsCurrent' /\ ClosedOnce'
  BY DEF QuoteInv, Begin, Numbered, Unrevoked, OpenLinkIsCurrent, ClosedOnce, row, ledger
<1> QED
  BY <1>1, <1>2, <1>3 DEF QuoteInv

\* A request ends without having changed anything.
LEMMA AbortKeeps ==
  ASSUME QuoteInv, NEW r \in Requests, Abort(r)
  PROVE  QuoteInv'
<1>1. /\ op' \in [Requests -> {"idle"} \cup OwnerOps \cup Decisions]
      /\ rev' \in [Requests -> 0..MaxRevisions]
      /\ \A q \in Requests : op'[q] # "idle" => op'[q] = op[q] /\ rev'[q] = rev[q]
  BY FinishKeeps DEF QuoteInv, Abort
<1>2. UNCHANGED <<row, ledger, swept>>
  BY DEF Abort
<1>3. TypeOK'
  BY <1>1, <1>2 DEF QuoteInv, TypeOK, row, ledger
<1>4. Current'
  BY <1>1, <1>2 DEF QuoteInv, Current, row
<1>5. Numbered' /\ Unrevoked' /\ OpenLinkIsCurrent' /\ ClosedOnce'
  BY <1>2 DEF QuoteInv, Numbered, Unrevoked, OpenLinkIsCurrent, ClosedOnce, row, ledger
<1> QED
  BY <1>3, <1>4, <1>5 DEF QuoteInv

\* updateQuoteDraft, deleteQuoteDraft: no link of a draft is unrevoked.
LEMMA DraftKeeps ==
  ASSUME QuoteInv, NEW r \in Requests, Update(r) \/ Delete(r)
  PROVE  QuoteInv'
<1>1. /\ status = "DRAFT" /\ rev[r] = current
      /\ Finish(Refused \cup {r})
      /\ swept' = swept
  <2>1. PICK o \in {"update", "delete"} : Commits(r, o)
    BY DEF Update, Delete
  <2>2. o \in OwnerOps \cup Decisions /\ LegalIn[o] = "DRAFT"
    BY DEF OwnerOps, LegalIn
  <2> QED
    BY <2>1, <2>2, CommitsOnCurrent DEF QuoteInv
<1>2. /\ op' \in [Requests -> {"idle"} \cup OwnerOps \cup Decisions]
      /\ rev' \in [Requests -> 0..MaxRevisions]
      /\ \A q \in Requests : op'[q] = "idle"
  BY <1>1, CommitEndsAll DEF QuoteInv
<1>3. /\ status' \in {"DRAFT", "DELETED"}
      /\ current' \in 0..MaxRevisions /\ current' # 0
      /\ deadline' \in Deadlines
      /\ UNCHANGED <<accepted, link, bound, closing, closings>>
  BY <1>1, QuotesAssumption DEF QuoteInv, TypeOK, Numbered, Update, Delete, ledger
<1>4. TypeOK'
  BY <1>1, <1>2, <1>3, StatusFacts DEF QuoteInv, TypeOK
<1>5. \A t \in Links : link'[t] \notin {"live", "expired"}
  BY <1>1, <1>3 DEF QuoteInv, Unrevoked
<1>6. ClosedOnce'
  BY <1>1, <1>3, StatusFacts DEF QuoteInv, ClosedOnce
<1> QED
  BY <1>2, <1>3, <1>4, <1>5, <1>6 DEF QuoteInv, Numbered, Current, Unrevoked, OpenLinkIsCurrent

\* sendQuote, reviseQuote, resendQuote: every unrevoked link is replaced.
LEMMA IssueKeeps ==
  ASSUME QuoteInv, NEW r \in Requests, Send(r) \/ Revise(r) \/ Resend(r)
  PROVE  QuoteInv'
<1>1. /\ status \in {"DRAFT", "SENT"} /\ rev[r] = current
      /\ Finish(Refused \cup {r})
      /\ swept' = swept
  BY CommitsOnCurrent DEF QuoteInv, Send, Revise, Resend, OwnerOps, LegalIn
<1>2. /\ op' \in [Requests -> {"idle"} \cup OwnerOps \cup Decisions]
      /\ rev' \in [Requests -> 0..MaxRevisions]
      /\ \A q \in Requests : op'[q] = "idle"
  BY <1>1, CommitEndsAll DEF QuoteInv
<1>3. /\ status' = "SENT"
      /\ current' \in 0..MaxRevisions /\ current' # 0
      /\ deadline' \in Deadlines
      /\ UNCHANGED <<accepted, closing, closings>>
  <2>1. CASE Send(r)
    BY <2>1, <1>1 DEF QuoteInv, TypeOK, Numbered, Send
  <2>2. CASE Revise(r)
    BY <2>2, <1>1, CommitsOnCurrent, QuotesAssumption
       DEF QuoteInv, TypeOK, Revise, OwnerOps, LegalIn
  <2>3. CASE Resend(r)
    BY <2>3, <1>1, CommitsOnCurrent DEF QuoteInv, TypeOK, Numbered, Resend, row, OwnerOps, LegalIn
  <2> QED
    BY <2>1, <2>2, <2>3
<1>4. \E S : /\ Issue(current', deadline', S)
             /\ \A t \in Links : link[t] \in {"live", "expired"} => bound[t] \in S
  <2>1. CASE Send(r)
    <3>1. status = "DRAFT"
      BY <2>1 DEF Send, Commits, LegalIn
    <3>2. \A t \in Links : link[t] \notin {"live", "expired"}
      BY <3>1 DEF QuoteInv, Unrevoked
    <3> QED
      BY <2>1, <3>2, <1>1 DEF Send
  <2>2. CASE Revise(r)
    <3>1. \A t \in Links : link[t] \in {"live", "expired"} => bound[t] \in {rev[r]}
      BY <1>1 DEF QuoteInv, Unrevoked
    <3> QED
      BY <2>2, <3>1 DEF Revise
  <2>3. CASE Resend(r)
    <3>1. \A t \in Links : link[t] \in {"live", "expired"} => bound[t] \in {rev[r]}
      BY <1>1 DEF QuoteInv, Unrevoked
    <3> QED
      BY <2>3, <3>1, <1>1 DEF Resend, row
  <2> QED
    BY <2>1, <2>2, <2>3
<1>5. /\ link' \in [Links -> {"none", "live", "expired", "revoked"}]
      /\ bound' \in [Links -> 0..MaxRevisions]
      /\ \A t \in Links : link'[t] \in {"live", "expired"} => bound'[t] = current'
      /\ \A t, u \in Links : link'[t] \in {"live", "expired"}
                             /\ link'[u] \in {"live", "expired"} => t = u
      /\ \A t \in Links : link'[t] = "live" => deadline' # "past"
  BY <1>3, <1>4, IssuedIsOnly DEF QuoteInv
<1>6. TypeOK'
  BY <1>1, <1>2, <1>3, <1>5, StatusFacts DEF QuoteInv, TypeOK
<1>7. ClosedOnce'
  BY <1>1, <1>3, StatusFacts DEF QuoteInv, ClosedOnce
<1>8. Numbered' /\ Current' /\ Unrevoked' /\ OpenLinkIsCurrent'
  BY <1>2, <1>3, <1>5 DEF Numbered, Current, Unrevoked, OpenLinkIsCurrent
<1> QED
  BY <1>6, <1>7, <1>8 DEF QuoteInv

\* cancelQuote and the customer's decision close the quote.
LEMMA CloseKeeps ==
  ASSUME QuoteInv, NEW r \in Requests, Cancel(r) \/ Accept(r) \/ Decline(r)
  PROVE  QuoteInv'
<1>1. /\ status = "SENT" /\ rev[r] = current
      /\ Finish(Refused \cup {r})
      /\ swept' = swept
  BY CommitsOnCurrent DEF QuoteInv, Cancel, Accept, Decline, OwnerOps, Decisions, LegalIn
<1>2. /\ op' \in [Requests -> {"idle"} \cup OwnerOps \cup Decisions]
      /\ rev' \in [Requests -> 0..MaxRevisions]
      /\ \A q \in Requests : op'[q] = "idle"
  BY <1>1, CommitEndsAll DEF QuoteInv
<1>3. /\ status' \in Terminal
      /\ status' # "EXPIRED"
      /\ accepted' = IF status' = "ACCEPTED" THEN current ELSE 0
      /\ UNCHANGED <<current, deadline, bound>>
      /\ Close(status', current)
  BY <1>1 DEF QuoteInv, ClosedOnce, Cancel, Accept, Decline, Terminal
<1>4. current \in 1..MaxRevisions
  BY <1>1, QuotesAssumption DEF QuoteInv, TypeOK, Numbered
<1>5. /\ link' \in [Links -> {"none", "live", "expired", "revoked"}]
      /\ \A t \in Links : link'[t] \notin {"live", "expired"}
  <2>1. link' = Revoked(1..MaxRevisions) \/ link' = Revoked({current})
    BY <1>1 DEF Cancel, Accept, Decline
  <2>2. \A t \in Links : link[t] \in {"live", "expired"} => bound[t] = current
    BY DEF QuoteInv, Unrevoked
  <2> QED
    BY <2>1, <2>2, <1>4 DEF QuoteInv, TypeOK, Revoked
<1>6. /\ closing' = [event |-> status', revision |-> current]
      /\ closing' \in [event : Terminal \cup {"none"}, revision : 0..MaxRevisions]
      /\ closings' = 1
  BY <1>1, <1>3, ClosesOnce, StatusFacts DEF QuoteInv, TypeOK
<1>7. TypeOK'
  BY <1>1, <1>2, <1>3, <1>5, <1>6, StatusFacts, QuotesAssumption DEF QuoteInv, TypeOK, ClosingCap
<1>8. ClosedOnce'
  BY <1>3, <1>6 DEF ClosedOnce
<1> QED
  BY <1>2, <1>3, <1>4, <1>5, <1>7, <1>8
     DEF QuoteInv, Numbered, Current, Unrevoked, OpenLinkIsCurrent

\* The sweep's read and its failures.
LEMMA SweepReadKeeps ==
  ASSUME QuoteInv, NEW s \in Sweepers, SweepReads(s) \/ SweepFails(s)
  PROVE  QuoteInv'
<1>1. UNCHANGED <<row, ledger, requests>> /\ swept' \in [Sweepers -> 0..MaxRevisions]
  BY QuotesAssumption DEF QuoteInv, TypeOK, SweepReads, SweepFails
<1> QED
  BY <1>1 DEF QuoteInv, TypeOK, Numbered, Current, Unrevoked, OpenLinkIsCurrent, ClosedOnce,
     row, ledger, requests

\* The sweep's transaction.
LEMMA SweepApplyKeeps ==
  ASSUME QuoteInv, NEW s \in Sweepers, SweepApplies(s)
  PROVE  QuoteInv'
<1>1. /\ swept' \in [Sweepers -> 0..MaxRevisions]
      /\ swept[s] \in 0..MaxRevisions
      /\ UNCHANGED <<current, accepted, deadline, bound>>
  BY QuotesAssumption DEF QuoteInv, TypeOK, SweepApplies
<1>2. CASE ~Due
  <2>1. UNCHANGED <<status, link, closing, closings, requests>>
    BY <1>2 DEF SweepApplies
  <2> QED
    BY <1>1, <2>1 DEF QuoteInv, TypeOK, Numbered, Current, Unrevoked, OpenLinkIsCurrent,
       ClosedOnce, requests
<1>3. CASE Due
  <2>1. /\ status = "SENT" /\ status' = "EXPIRED"
        /\ link' = Revoked(1..MaxRevisions)
        /\ Close("EXPIRED", swept[s])
        /\ Finish(Refused)
    BY <1>3 DEF SweepApplies, Due
  <2>2. /\ op' \in [Requests -> {"idle"} \cup OwnerOps \cup Decisions]
        /\ rev' \in [Requests -> 0..MaxRevisions]
        /\ \A q \in Requests : op'[q] = "idle"
    BY <2>1, SweepEndsAll DEF QuoteInv
  <2>3. current \in 1..MaxRevisions
    BY <2>1, QuotesAssumption DEF QuoteInv, TypeOK, Numbered
  <2>4. /\ link' \in [Links -> {"none", "live", "expired", "revoked"}]
        /\ \A t \in Links : link'[t] \notin {"live", "expired"}
    BY <2>1, <2>3 DEF QuoteInv, TypeOK, Unrevoked, Revoked
  <2>5. /\ closing' = [event |-> "EXPIRED", revision |-> swept[s]]
        /\ closing' \in [event : Terminal \cup {"none"}, revision : 0..MaxRevisions]
        /\ closings' = 1
    BY <1>1, <2>1, ClosesOnce, StatusFacts DEF QuoteInv, Terminal
  <2>6. accepted' = 0
    BY <1>1, <2>1 DEF QuoteInv, ClosedOnce
  <2>7. TypeOK'
    BY <1>1, <2>1, <2>2, <2>4, <2>5, StatusFacts DEF QuoteInv, TypeOK, ClosingCap, Terminal
  <2>8. ClosedOnce'
    BY <2>1, <2>5, <2>6 DEF ClosedOnce, Terminal
  <2> QED
    BY <1>1, <2>2, <2>3, <2>4, <2>7, <2>8
       DEF QuoteInv, Numbered, Current, Unrevoked, OpenLinkIsCurrent
<1> QED
  BY <1>2, <1>3

\* Time passes: links only lose.
LEMMA TimeKeeps ==
  ASSUME QuoteInv, DeadlinePasses \/ \E t \in Links : LinkExpires(t)
  PROVE  QuoteInv'
<1>1. /\ link' \in [Links -> {"none", "live", "expired", "revoked"}]
      /\ \A t \in Links : link'[t] \in {"live", "expired"} => link[t] \in {"live", "expired"}
      /\ \A t \in Links : link'[t] = "live" => link[t] = "live" /\ deadline' = deadline
      /\ UNCHANGED <<status, current, accepted, bound, closing, closings, op, rev, swept>>
      /\ deadline' \in Deadlines
  <2>1. CASE DeadlinePasses
    BY <2>1 DEF QuoteInv, TypeOK, DeadlinePasses, ExpiresWithQuote, Deadlines, requests
  <2>2. CASE \E t \in Links : LinkExpires(t)
    BY <2>2 DEF QuoteInv, TypeOK, LinkExpires, row, requests
  <2> QED
    BY <2>1, <2>2
<1> QED
  BY <1>1 DEF QuoteInv, TypeOK, Numbered, Current, Unrevoked, OpenLinkIsCurrent, ClosedOnce
-----------------------------------------------------------------------------
(* The theorems.                                                           *)

\* Every step keeps the inductive invariant.
LEMMA NextKeepsQuoteInv == QuoteInv /\ [Next]_vars => QuoteInv'
<1> SUFFICES ASSUME QuoteInv, [Next]_vars PROVE QuoteInv'
  OBVIOUS
<1>1. CASE Create
  BY <1>1, CreateKeeps
<1>2. ASSUME NEW r \in Requests, RequestStep(r) PROVE QuoteInv'
  <2>1. ASSUME NEW o \in OwnerOps, OwnerBegins(r, o) PROVE QuoteInv'
    BY <2>1, BeginKeeps DEF OwnerBegins
  <2>2. ASSUME NEW o \in Decisions, NEW t \in Links, CustomerBegins(r, o, t) PROVE QuoteInv'
    BY <2>2, BeginKeeps DEF CustomerBegins
  <2> QED
    BY <1>2, <2>1, <2>2, DraftKeeps, IssueKeeps, CloseKeeps, AbortKeeps DEF RequestStep
<1>3. ASSUME NEW s \in Sweepers, SweepReads(s) \/ SweepApplies(s) \/ SweepFails(s)
      PROVE  QuoteInv'
  BY <1>3, SweepReadKeeps, SweepApplyKeeps
<1>4. CASE DeadlinePasses \/ \E t \in Links : LinkExpires(t)
  BY <1>4, TimeKeeps
<1>5. CASE UNCHANGED vars
  BY <1>5 DEF QuoteInv, TypeOK, Numbered, Current, Unrevoked, OpenLinkIsCurrent, ClosedOnce,
     vars, row, ledger, requests
<1> QED
  BY <1>1, <1>2, <1>3, <1>4, <1>5 DEF Next

\* Whatever the owner's requests, the customer's answers and the sweeps do to a
\* quote at the same time: a link that can still be used shows the current
\* revision of a sent quote within its deadline, and is the only one.
THEOREM LinksStayCurrent == Spec => []OpenLinkIsCurrent
<1>1. QuoteInv => OpenLinkIsCurrent
  BY DEF QuoteInv
<1> QED
  BY InitQuoteInv, NextKeepsQuoteInv, <1>1, PTL DEF Spec

\* A quote is closed by exactly one of acceptance, refusal, cancellation and
\* expiry, on record with the revision that was current.
THEOREM QuotesCloseOnce == Spec => []ClosedOnce
<1>1. QuoteInv => ClosedOnce
  BY DEF QuoteInv
<1> QED
  BY InitQuoteInv, NextKeepsQuoteInv, <1>1, PTL DEF Spec

\* Every variable keeps its type.
THEOREM QuotesTyped == Spec => []TypeOK
<1>1. QuoteInv => TypeOK
  BY DEF QuoteInv
<1> QED
  BY InitQuoteInv, NextKeepsQuoteInv, <1>1, PTL DEF Spec
-----------------------------------------------------------------------------
(* The life of a quote and of its links.                                   *)

\* The "LOCKED v1 transition graph" of quotes.domain.ts, and the creation and
\* deletion of a draft.
Graph ==
  {<<"ABSENT", "DRAFT">>, <<"DRAFT", "SENT">>, <<"DRAFT", "DELETED">>}
    \cup {<<"SENT", s>> : s \in Terminal}

\* The status moves along the graph; once it is terminal, neither what was
\* decided nor the record of it changes.
FollowsGraph ==
  [][/\ status' # status => <<status, status'>> \in Graph
     /\ status \in Terminal => UNCHANGED <<current, accepted, closing, closings>>]_vars

\* A token stays bound to the revision it was issued for; one that has expired
\* is at most revoked, and one that is revoked stays so.
LinksStayDead ==
  [][\A t \in Links :
       /\ link[t] # "none" => bound'[t] = bound[t]
       /\ link[t] = "expired" => link'[t] \in {"expired", "revoked"}
       /\ link[t] = "revoked" => link'[t] = "revoked"]_vars

\* What a step makes of a link, if it issues, revokes or expires some.
LinkMoves ==
  \A t \in Links :
    /\ link[t] # "none" => bound'[t] = bound[t]
    /\ link[t] = "expired" => link'[t] \in {"expired", "revoked"}
    /\ link[t] = "revoked" => link'[t] = "revoked"

LEMMA RevokingMoves ==
  ASSUME TypeOK, NEW S, link' = Revoked(S), UNCHANGED bound
  PROVE  LinkMoves
BY DEF TypeOK, Revoked, LinkMoves

LEMMA IssuingMoves ==
  ASSUME TypeOK, NEW n, NEW d, NEW S, Issue(n, d, S)
  PROVE  LinkMoves
<1>1. PICK t \in Links :
        /\ link[t] = "none"
        /\ link' = [Revoked(S) EXCEPT ![t] = Fresh(d)]
        /\ bound' = [bound EXCEPT ![t] = n]
  BY DEF Issue
<1> QED BY <1>1 DEF TypeOK, Revoked, LinkMoves

\* What a step makes of the status, and of what was decided.
StatusMoves ==
  /\ status' # status => <<status, status'>> \in Graph
  /\ status \in Terminal => UNCHANGED <<current, accepted, closing, closings>>

LEMMA RequestMoves ==
  ASSUME QuoteInv, NEW r \in Requests, RequestStep(r)
  PROVE  StatusMoves /\ LinkMoves
<1> USE DEF QuoteInv, row, ledger
<1>1. ASSUME NEW o, Begin(r, o)
      PROVE  StatusMoves /\ LinkMoves
  BY <1>1 DEF Begin, StatusMoves, LinkMoves
<1>2. CASE Abort(r)
  BY <1>2 DEF Abort, StatusMoves, LinkMoves
<1>3. CASE Update(r) \/ Delete(r)
  <2>1. status = "DRAFT" /\ status' \in {"DRAFT", "DELETED"} /\ UNCHANGED ledger
    BY <1>3 DEF Update, Delete, Commits, LegalIn
  <2> QED BY <2>1 DEF StatusMoves, LinkMoves, Graph, Terminal
<1>4. CASE Send(r)
  <2>1. status = "DRAFT" /\ status' = "SENT"
    BY <1>4 DEF Send, Commits, LegalIn
  <2>2. LinkMoves
    BY <1>4, IssuingMoves DEF Send
  <2> QED BY <2>1, <2>2 DEF StatusMoves, Graph, Terminal
<1>5. CASE Revise(r) \/ Resend(r)
  <2>1. status = "SENT" /\ UNCHANGED status
    BY <1>5 DEF Revise, Resend, Commits, LegalIn
  <2>2. LinkMoves
    BY <1>5, IssuingMoves DEF Revise, Resend
  <2> QED BY <2>1, <2>2 DEF StatusMoves, Terminal
<1>6. CASE Cancel(r) \/ Accept(r) \/ Decline(r)
  <2>1. status = "SENT" /\ status' \in Terminal
    BY <1>6 DEF Cancel, Accept, Decline, Commits, LegalIn, Terminal
  <2>2. LinkMoves
    BY <1>6, RevokingMoves DEF Cancel, Accept, Decline
  <2> QED BY <2>1, <2>2 DEF StatusMoves, Graph, Terminal
<1> QED
  BY <1>1, <1>2, <1>3, <1>4, <1>5, <1>6 DEF RequestStep, OwnerBegins, CustomerBegins

LEMMA QuoteMoves ==
  ASSUME QuoteInv, [Next]_vars
  PROVE  StatusMoves /\ LinkMoves
<1> USE DEF QuoteInv, row, ledger
<1>1. CASE Create
  BY <1>1 DEF Create, StatusMoves, LinkMoves, Graph, Terminal
<1>2. ASSUME NEW r \in Requests, RequestStep(r) PROVE StatusMoves /\ LinkMoves
  BY <1>2, RequestMoves
<1>3. ASSUME NEW s \in Sweepers, SweepApplies(s) PROVE StatusMoves /\ LinkMoves
  <2>1. CASE Due
    <3>1. status = "SENT" /\ status' = "EXPIRED" /\ link' = Revoked(1..MaxRevisions)
      BY <1>3, <2>1 DEF SweepApplies, Due
    <3>2. LinkMoves
      BY <1>3, <3>1, RevokingMoves DEF SweepApplies
    <3> QED BY <3>1, <3>2 DEF StatusMoves, Graph, Terminal
  <2>2. CASE ~Due
    BY <1>3, <2>2 DEF SweepApplies, StatusMoves, LinkMoves
  <2> QED BY <2>1, <2>2
<1>4. ASSUME NEW s \in Sweepers, SweepReads(s) \/ SweepFails(s) PROVE StatusMoves /\ LinkMoves
  BY <1>4 DEF SweepReads, SweepFails, StatusMoves, LinkMoves
<1>5. CASE DeadlinePasses \/ \E t \in Links : LinkExpires(t)
  <2>1. /\ UNCHANGED <<status, current, accepted, bound, closing, closings>>
        /\ \A t \in Links : link'[t] = link[t] \/ (link[t] = "live" /\ link'[t] = "expired")
    BY <1>5 DEF DeadlinePasses, LinkExpires, ExpiresWithQuote, TypeOK
  <2> QED BY <2>1 DEF StatusMoves, LinkMoves
<1>6. CASE UNCHANGED vars
  BY <1>6 DEF vars, StatusMoves, LinkMoves
<1> QED BY <1>1, <1>2, <1>3, <1>4, <1>5, <1>6 DEF Next

\* The code checks its transition graph on a snapshot and in the WHERE of every
\* write; with any number of requests and sweeps under way the quote follows
\* it, and a decision is never changed.
THEOREM QuoteLifecycle == Spec => FollowsGraph
<1>1. QuoteInv /\ [Next]_vars =>
        [/\ status' # status => <<status, status'>> \in Graph
         /\ status \in Terminal => UNCHANGED <<current, accepted, closing, closings>>]_vars
  BY QuoteMoves DEF StatusMoves
<1> QED
  BY InitQuoteInv, NextKeepsQuoteInv, <1>1, PTL DEF Spec, FollowsGraph

\* No resend, revision or moved deadline revives a link the customer was told
\* is dead, or shows another revision through it.
THEOREM DeadLinksStayDead == Spec => LinksStayDead
<1>1. QuoteInv /\ [Next]_vars =>
        [\A t \in Links :
           /\ link[t] # "none" => bound'[t] = bound[t]
           /\ link[t] = "expired" => link'[t] \in {"expired", "revoked"}
           /\ link[t] = "revoked" => link'[t] = "revoked"]_vars
  BY QuoteMoves DEF LinkMoves
<1> QED
  BY InitQuoteInv, NextKeepsQuoteInv, <1>1, PTL DEF Spec, LinksStayDead

=============================================================================
