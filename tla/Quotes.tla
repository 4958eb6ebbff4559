------------------------------- MODULE Quotes -------------------------------
(***************************************************************************)
(* A quote and the links by which its customer answers it: the owner's     *)
(* operations (modules/quotes/quotes.service.ts), the customer's decision  *)
(* (modules/public/publicQuoteActions.service.ts) and the expiry sweep     *)
(* (lib/quotes/quoteExpiry.ts).                                            *)
(*                                                                         *)
(* Every request is one SERIALIZABLE transaction (withLimitCheck).  It     *)
(* reads the quote, checks what it has read, and then writes its row: a    *)
(* request begins with a snapshot and commits later.  If the row has been  *)
(* written in between PostgreSQL refuses the request, which is run again   *)
(* (it begins anew) or, after six more tries, fails: nothing is left for   *)
(* it to do once the row is written, and it ends with that write.  The     *)
(* sweep runs at READ COMMITTED: its UPDATE looks at the row as it is.     *)
(*                                                                         *)
(* One quote: quotes share no rows but a counter.  A revision is its       *)
(* number; revisions are immutable.                                        *)
(***************************************************************************)
EXTENDS Naturals, FiniteSets

CONSTANTS
  Requests,     \* transactions of the owner and the customer that may overlap
  Sweepers,     \* workers and HTTP ticks that sweep
  Links,        \* QuoteAcceptanceToken rows
  MaxRevisions  \* bound on the revisions of the quote

ASSUME QuotesAssumption == MaxRevisions \in Nat \ {0}

VARIABLES
  status,    \* QuoteDocument.status, or "ABSENT", or "DELETED"
  current,   \* the number of the revision in currentRevisionId
  accepted,  \* that of acceptedRevisionId, 0 for null
  deadline,  \* QuoteDocument.expiresAt: null, in the future, or past
  link,      \* a token: not issued, valid, past its expiresAt, or revoked
  bound,     \* the revision a token was issued for
  closing,   \* the newest terminal QuoteEvent, and the revision it names
  closings,  \* the number of terminal QuoteEvents
  op,        \* the operation of a request that has begun
  rev,       \* the current revision in its snapshot
  swept      \* the revision a sweep has read with a quote that is due, or 0

row == <<status, current, accepted, deadline>>
ledger == <<link, bound, closing, closings>>
requests == <<op, rev>>
vars == <<row, ledger, requests, swept>>

Terminal == {"ACCEPTED", "DECLINED", "CANCELED", "EXPIRED"}
Statuses == {"ABSENT", "DRAFT", "SENT", "DELETED"} \cup Terminal
Deadlines == {"none", "ahead", "past"}
OwnerOps == {"update", "delete", "send", "cancel", "revise", "resend"}
Decisions == {"accept", "decline"}

\* Closing events are counted up to one more than there should ever be.
ClosingCap == 2

TypeOK ==
  /\ status \in Statuses
  /\ current \in 0..MaxRevisions
  /\ accepted \in 0..MaxRevisions
  /\ deadline \in Deadlines
  /\ link \in [Links -> {"none", "live", "expired", "revoked"}]
  /\ bound \in [Links -> 0..MaxRevisions]
  /\ closing \in [event : Terminal \cup {"none"}, revision : 0..MaxRevisions]
  /\ closings \in 0..ClosingCap
  /\ op \in [Requests -> {"idle"} \cup OwnerOps \cup Decisions]
  /\ rev \in [Requests -> 0..MaxRevisions]
  /\ swept \in [Sweepers -> 0..MaxRevisions]

Init ==
  /\ status = "ABSENT"
  /\ current = 0
  /\ accepted = 0
  /\ deadline = "none"
  /\ link = [t \in Links |-> "none"]
  /\ bound = [t \in Links |-> 0]
  /\ closing = [event |-> "none", revision |-> 0]
  /\ closings = 0
  /\ op = [r \in Requests |-> "idle"]
  /\ rev = [r \in Requests |-> 0]
  /\ swept = [s \in Sweepers |-> 0]
-----------------------------------------------------------------------------
(* Transactions.                                                           *)

\* What the checks on the snapshot ask of the quote's status: the transition
\* table, the draft checks, and resendQuote's own.
LegalIn ==
  [update |-> "DRAFT", delete |-> "DRAFT", send |-> "DRAFT",
   cancel |-> "SENT", revise |-> "SENT", resend |-> "SENT",
   accept |-> "SENT", decline |-> "SENT"]

\* A request takes its snapshot and passes its checks.
Begin(r, o) ==
  /\ op[r] = "idle"
  /\ status = LegalIn[o]
  /\ op' = [op EXCEPT ![r] = o]
  /\ rev' = [rev EXCEPT ![r] = current]
  /\ UNCHANGED <<row, ledger, swept>>

\* An edit or a revision expects the revision the owner has loaded; a quote
\* past its deadline is not resent.
OwnerBegins(r, o) ==
  /\ o = "resend" => deadline # "past"
  /\ Begin(r, o)

\* deriveState: the quote is SENT and this token neither revoked nor expired.
Open(t) == link[t] = "live"

\* The customer follows a link of the revision that is current.
CustomerBegins(r, o, t) ==
  /\ Open(t)
  /\ bound[t] = current
  /\ Begin(r, o)

\* Mutant: READ COMMITTED transactions.
RefusedAtReadCommitted == {}

\* The requests that a write of the row makes fail: all that have begun.
Refused == {r \in Requests : op[r] # "idle"}

\* These requests are over.
Finish(R) ==
  /\ op' = [r \in Requests |-> IF r \in R THEN "idle" ELSE op[r]]
  /\ rev' = [r \in Requests |-> IF r \in R THEN 0 ELSE rev[r]]

\* r commits operation o, whose UPDATE asks for this status and revision.
Commits(r, o) ==
  /\ op[r] = o
  /\ status = LegalIn[o]
  /\ o \notin {"delete", "cancel", "decline"} => current = rev[r]
  /\ Finish(Refused \cup {r})
  /\ UNCHANGED swept

\* A request ends and changes nothing: its UPDATE matches no row, PostgreSQL
\* refuses it for less reason than it might, or the process dies.
Abort(r) ==
  /\ op[r] # "idle"
  /\ Finish({r})
  /\ UNCHANGED <<row, ledger, swept>>

\* updateMany(revokedAt: null -> now) on the tokens of these revisions.
Revoked(revisions) ==
  [t \in Links |-> IF bound[t] \in revisions /\ link[t] \in {"live", "expired"}
                   THEN "revoked" ELSE link[t]]

\* Mutant: the token takes over the deadline's own word.
FreshAsDeadline(d) == IF d = "past" THEN "past" ELSE "live"

\* resolveAcceptanceTokenExpiry: a token never outlives its quote's deadline.
Fresh(d) == IF d = "past" THEN "expired" ELSE "live"

\* A new token for revision n, after the tokens of these revisions are revoked.
Issue(n, d, revisions) ==
  \E t \in Links :
    /\ link[t] = "none"
    /\ link' = [Revoked(revisions) EXCEPT ![t] = Fresh(d)]
    /\ bound' = [bound EXCEPT ![t] = n]

\* The quote's closing event.
Close(event, revision) ==
  /\ closing' = [event |-> event, revision |-> revision]
  /\ closings' = IF closings < ClosingCap THEN closings + 1 ELSE closings
-----------------------------------------------------------------------------
(* The owner's operations.                                                 *)

\* createQuoteDraft, with its first revision.
Create ==
  /\ status = "ABSENT"
  /\ status' = "DRAFT"
  /\ current' = 1
  /\ deadline' \in Deadlines
  /\ UNCHANGED <<accepted, ledger, requests, swept>>

\* updateQuoteDraft: a new revision; the deadline is replaced.
Update(r) ==
  /\ Commits(r, "update")
  /\ current < MaxRevisions
  /\ current' = current + 1
  /\ deadline' \in Deadlines
  /\ UNCHANGED <<status, accepted, ledger>>

Delete(r) ==
  /\ Commits(r, "delete")
  /\ status' = "DELETED"
  /\ UNCHANGED <<current, accepted, deadline, ledger>>

Send(r) ==
  /\ Commits(r, "send")
  /\ status' = "SENT"
  /\ Issue(rev[r], deadline, {})
  /\ UNCHANGED <<current, accepted, deadline, closing, closings>>

Cancel(r) ==
  /\ Commits(r, "cancel")
  /\ status' = "CANCELED"
  /\ link' = Revoked(1..MaxRevisions)
  /\ Close("CANCELED", rev[r])
  /\ UNCHANGED <<current, accepted, deadline, bound>>

\* reviseQuote: only the tokens of the revision that was current are revoked.
\* The deadline stays unless the owner sends one, which may be in the past.
Revise(r) ==
  /\ Commits(r, "revise")
  /\ current < MaxRevisions
  /\ current' = current + 1
  /\ deadline' \in Deadlines
  /\ Issue(current + 1, deadline', {rev[r]})
  /\ UNCHANGED <<status, accepted, closing, closings>>

\* resendQuote writes the row it does not change, to be in conflict.
Resend(r) ==
  /\ Commits(r, "resend")
  /\ Issue(rev[r], deadline, {rev[r]})
  /\ UNCHANGED <<row, closing, closings>>
-----------------------------------------------------------------------------
(* The customer's decision.                                                *)

Accept(r) ==
  /\ Commits(r, "accept")
  /\ status' = "ACCEPTED"
  /\ accepted' = rev[r]
  /\ link' = Revoked({rev[r]})
  /\ Close("ACCEPTED", rev[r])
  /\ UNCHANGED <<current, deadline, bound>>

Decline(r) ==
  /\ Commits(r, "decline")
  /\ status' = "DECLINED"
  /\ link' = Revoked({rev[r]})
  /\ Close("DECLINED", rev[r])
  /\ UNCHANGED <<current, accepted, deadline, bound>>
-----------------------------------------------------------------------------
(* The sweep, and time.                                                    *)

\* Mutant: the sweep looks for quotes with a link that is still open.
DueByLink ==
  status = "SENT" /\ deadline = "past" /\ \E t \in Links : link[t] = "live"

\* WHERE status = SENT AND expires_at <= now.
Due == status = "SENT" /\ deadline = "past"

\* sweepExpiredQuotes' findMany.
SweepReads(s) ==
  /\ swept[s] = 0
  /\ Due
  /\ swept' = [swept EXCEPT ![s] = current]
  /\ UNCHANGED <<row, ledger, requests>>

\* Its transaction for the quote, if the WHERE still holds; the event names
\* the revision that was read.
SweepApplies(s) ==
  /\ swept[s] # 0
  /\ swept' = [swept EXCEPT ![s] = 0]
  /\ IF Due
     THEN /\ status' = "EXPIRED"
          /\ link' = Revoked(1..MaxRevisions)
          /\ Close("EXPIRED", swept[s])
          /\ Finish(Refused)
     ELSE UNCHANGED <<status, link, closing, closings, requests>>
  /\ UNCHANGED <<current, accepted, deadline, bound>>

\* The worker dies, or the sweep's transaction fails.
SweepFails(s) ==
  /\ swept[s] # 0
  /\ swept' = [swept EXCEPT ![s] = 0]
  /\ UNCHANGED <<row, ledger, requests>>

\* QUOTE_ACCEPTANCE_TOKEN_TTL_DAYS are over.
LinkExpires(t) ==
  /\ link[t] = "live"
  /\ link' = [link EXCEPT ![t] = "expired"]
  /\ UNCHANGED <<row, bound, closing, closings, requests, swept>>

\* Mutant: tokens live for their TTL, whatever the deadline.
OutlivesQuote(t) == FALSE

\* The token's expiry is capped by the deadline it was issued under.
ExpiresWithQuote(t) == link[t] = "live"

\* The quote's deadline passes, and with it that of its tokens.
DeadlinePasses ==
  /\ deadline = "ahead"
  /\ deadline' = "past"
  /\ link' = [t \in Links |-> IF ExpiresWithQuote(t) THEN "expired" ELSE link[t]]
  /\ UNCHANGED <<status, current, accepted, bound, closing, closings, requests, swept>>

RequestStep(r) ==
  \/ \E o \in OwnerOps : OwnerBegins(r, o)
  \/ \E o \in Decisions, t \in Links : CustomerBegins(r, o, t)
  \/ Update(r) \/ Delete(r) \/ Send(r) \/ Cancel(r) \/ Revise(r) \/ Resend(r)
  \/ Accept(r) \/ Decline(r) \/ Abort(r)

Next ==
  \/ Create
  \/ \E r \in Requests : RequestStep(r)
  \/ \E s \in Sweepers : SweepReads(s) \/ SweepApplies(s) \/ SweepFails(s)
  \/ \E t \in Links : LinkExpires(t)
  \/ DeadlinePasses

Spec == Init /\ [][Next]_vars

\* A sweep runs in every tick, and it succeeds again and again if it is tried
\* again and again.
Fairness ==
  \A s \in Sweepers : WF_vars(SweepReads(s)) /\ SF_vars(SweepApplies(s))

FairSpec == Spec /\ Fairness
-----------------------------------------------------------------------------
(* Properties.                                                             *)

\* A link by which the customer can still answer shows the quote's current
\* revision, is the only one, and dies with the quote and its deadline.
OpenLinkIsCurrent ==
  \A t \in Links : link[t] = "live" =>
    /\ status = "SENT" /\ bound[t] = current /\ deadline # "past"
    /\ \A u \in Links : link[u] = "live" => u = t

\* A quote is closed once, by one event, of the kind of its status; the event
\* and acceptedRevisionId name the revision that was current.  Only the sweep
\* may name an older one in its event.
ClosedOnce ==
  /\ closings = IF status \in Terminal THEN 1 ELSE 0
  /\ status \in Terminal =>
       /\ closing.event = status
       /\ status # "EXPIRED" => closing.revision = current
  /\ accepted = IF status = "ACCEPTED" THEN current ELSE 0

\* "This sweep makes the business-visible status [...] catch up": a quote past
\* its deadline does not stay SENT, unless the owner moves its deadline.
Expires == status = "SENT" /\ deadline = "past" ~> status # "SENT" \/ deadline # "past"
=============================================================================
