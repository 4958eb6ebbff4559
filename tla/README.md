# A formal model of Chakusa's durable work

Chakusa is a backend (TypeScript, Fastify, Prisma over PostgreSQL) for small
service businesses: leads, appointments, quotes, invoices, payments, messages to
customers, and automation on top of all of these. Most of its code is ordinary
request handling. What is hard to get right is the work that outlives a request:
texts sent later, events handed to subscribers, workflows that run for days,
payments confirmed by webhook. That work is kept in database tables that serve
as queues, is claimed under leases by any number of overlapping worker
processes, is retried and recovered, and touches the outside world (an SMS
carrier, Stripe) in ways a transaction cannot undo. This directory models that
part in TLA+, checks it with TLC, and proves part of it with TLAPS.

Source paths below are relative to the repository's root (`src/...` is the
backend's source directory).

## 1. Inventory

### What runs

* The **HTTP server** (`src/server.ts`, `src/modules/*`): every request is a
  handler of its own; handlers overlap, and meet only in the database.
* The **worker** (`src/worker.ts`, `src/worker/automationWorker.ts`): one timer,
  which runs the jobs of a tick one after another and never overlaps itself.
* The **HTTP tick** (`src/worker/scheduledWorkTrigger.ts`, called by
  `cloudflare/worker-tick`): the same jobs in a request, for deployments without
  a worker. A tick may overlap the worker and other ticks.
* **Webhooks** (`src/modules/webhooks/webhooks.routes.ts`) from Stripe, Twilio,
  Meta, Apple and Google, delivered late, repeatedly and in any order.

Nothing else is concurrent: within one process JavaScript runs to the next
`await`, so the steps of the models are the statements between two awaits,
usually one database statement, one transaction, or one call to a provider.

### Components

| Component | State | Operations | Hard behaviour | What must hold |
|---|---|---|---|---|
| Automation runs (`src/lib/automation/executor.ts`, `scheduler.ts`) | `AutomationRun` (status, attemptCount, leaseExpiresAt, scheduledFor), `Message` | schedule, cancel, recover, snapshot, claim, execute, record, fail | lease outlived by its worker; crash between the carrier's acceptance and the commit; stale attemptCount | a run is executed by one worker; no second text outside the documented gap; terminal is terminal; every run settles |
| Outbox and publisher (`src/lib/outbox.ts`, `src/worker/outboxPublisher.ts`) | `OutboxEvent` | append, claim, publish, fail, recover | an event overtakes another of its aggregate; expired claims; a publication that outlives its claim | in order, nothing lost, given up only at the limit |
| Event bus (`src/lib/automation/domainEventBus.ts`) | `EventDelivery` | claim, handle, acknowledge, fail, recover | handler done but not acknowledged; slow handler | as above, and the effects of handlers in order |
| Workflow runtime (`src/lib/automation/workflowRuntime.ts`, `src/modules/automation/workflow.service.ts`) | `WorkflowExecution`, `WorkflowActionAttempt` | start, claim, walk (branch, delay, action), pause, resume, cancel, retry, recover | two workers on one execution; the owner intervenes in mid-walk; kill switches; deadlines | nothing skipped, progress never goes back, the owner's decision stands, every execution ends |
| Invoice payments (`src/modules/invoices/invoicePayments.service.ts`) | `InvoicePaymentTransaction`, Stripe's sessions and refunds | link, webhook, refund, derive balance | concurrent links and refunds around calls to Stripe; webhooks late, repeated, early; amounts converted and rounded three ways | only captured money counts, no refund is booked that was not accepted, every capture is booked |
| Quotes (`src/modules/quotes`, `src/modules/public/publicQuoteActions.service.ts`, `src/lib/quotes`) | `QuoteDocument`, revisions, `QuoteAcceptanceToken`, `QuoteEvent` | draft, edit, send, resend, revise, cancel, accept, decline, expire | overlapping serializable transactions; acceptance races expiry and revision; a sweep that reads first and writes later | one open link, to the current revision; one closing event; no quote stays SENT past its deadline |
| Invoices (`src/modules/invoices/invoices.service.ts`) | `Invoice`, revisions, `InvoiceAccessToken` | convert a quote, edit, send, reissue, void, delete | two conversions of a quote; conditional updates | one live invoice per quote, made from what was accepted; links open what was sent |
| Message dispatch (`src/lib/messaging/messagingPlatform.ts`) | `MessageDispatch`, `MessageDispatchAttempt`, `Message`, receipts | enqueue, recover, claim, attempt, send, record, receipt, retry | a lease per batch, writes not guarded by it, attempts counted late, crash in a send | no second text but after a lost answer, message and dispatch agree, every message settles |
| Appointment messages (`src/modules/appointments/appointmentReminders.ts`) | sent markers on appointments | sweep, send | claim, send, record | at most one reminder |
| Workflow triggers and schedules (`src/lib/automation/triggerEngine.ts`, `workflowScheduling.ts`) | `WorkflowSchedule`, idempotency keys | match event, start, claim schedule, catch up | redelivered events, missed schedules | one execution per event or slot |
| Appointments and booking (`src/lib/booking/customerBooking.ts`, `src/modules/appointments`) | `Appointment` | book, move, cancel | concurrent bookings of a slot | no double booking |
| Entitlements (`src/lib/entitlements.ts`) | plan limits, counters | check, then create, in one serializable transaction with retries | serialization failures | limits hold |
| Appointment payments (`src/modules/payments`) | `AppointmentPaymentTransaction`, paidAmount | as invoice payments | as invoice payments | as invoice payments |
| Subscriptions (`src/lib/billing`) | `Subscription` | purchase, notification, reconcile | store notifications out of order | state is the store's latest |
| Loyalty (`src/lib/loyalty`) | points ledger | accrue, redeem, expire | repeated events, concurrent redemptions | balance = sum of entries, never negative |
| Inventory, commissions, finance; AI platform; identity; CRM; admin and reports; marketplace, calendar, devices; the mobile, web and admin clients | rows | CRUD, remote calls | little beyond single transactions | - |

### How they interact

A business transaction changes its rows and appends an outbox event in the same
transaction. The publisher turns an event into one delivery per subscription;
the bus calls the subscription's handler, of which the workflow trigger engine
is the main one: it starts executions, whose actions send messages, create
tasks, or append further events. The automation executor is older and separate:
services insert runs directly, and the executor sends their text itself.
Message dispatches are sent by their own loop, and Stripe's and the carriers'
webhooks write to payments and messages. An accepted quote is turned into an
invoice by its owner, and a sent invoice is paid over links of its own. The parts are joined by rows only. No
component waits for another, so there is no cyclic waiting; a component that
stops leaves rows behind, and the question is always whether somebody picks them
up, once, in order.

## 2. Modules

| Module | Models | Role |
|---|---|---|
| `MessageFate` | what is promised of one text to a customer | abstract specification |
| `AutomationRuns` | the automation run engine | specification and properties; instantiates `MessageFate` |
| `AutomationRunsProofs` | | theorems about it |
| `MCAutomationRuns` | | instance for TLC |
| `OrderedDelivery` | what the pipeline promises its subscribers | abstract specification |
| `OrderedDeliveryProofs` | | theorems about the promise, inherited by the pipeline |
| `EventPipeline` | outbox, publisher and event bus, composed | specification; instantiates `OrderedDelivery` |
| `EventPipelineProofs` | | theorems, the refinement among them |
| `MCEventPipeline` | | instances for TLC |
| `WorkflowRuntime` | workflow executions and their owner's controls | specification and properties |
| `WorkflowRuntimeProofs` | | theorems about it |
| `MCWorkflowRuntime` | | three workflow graphs for TLC |
| `InvoicePayments` | payment links, Stripe, webhooks, refunds | specification and properties |
| `InvoicePaymentsProofs` | | theorems about it |
| `MCInvoicePayments` | | instances for TLC |
| `MessageDispatch` | the queue of outbound messages, receipts, the owner's retry | specification and properties; instantiates `MessageFate` |
| `MessageDispatchProofs` | | theorems about it |
| `MCMessageDispatch` | | instance for TLC |
| `Quotes` | a quote, its links, the customer's decision and the expiry sweep | specification and properties |
| `QuotesProofs` | | theorems about it |
| `QuoteToInvoice` | a quote composed with the invoices made from it | extends `Quotes`; specification and properties |
| `QuoteToInvoiceProofs` | | theorems, that the composition implements `Quotes` among them |
| `MCQuoteToInvoice` | | instance for TLC |

Conventions shared by the modules:

* A row's columns are functions over the rows' identities; a row that does not
  exist has status `ABSENT`. Only what the properties tell apart is kept.
* A lease is `none`, `live` or `expired`; there is no clock. `LeaseExpires` may
  happen at any time a constant does not forbid, which covers every real
  duration. In the same way a date is reached (`due`) or not.
* A worker's program counter (`pc`) stands between two awaits. Everything it
  remembers across an await is a variable (`todo`, `batch`, `seen`, `snapshot`),
  so stale reads are stale in the model.
* `FOR UPDATE SKIP LOCKED` claims and conditional updates are atomic, as
  PostgreSQL makes them; a snapshot followed by conditional updates
  (`processDueAutomationRuns`) is not.
* A SERIALIZABLE transaction (`withLimitCheck`) is two steps: `Begin` takes the
  snapshot and passes the checks made on it, and the commit writes. A commit
  that writes a row ends every other transaction that has begun and is to write
  it, as PostgreSQL refuses these; `Abort` covers refusals for less reason.
* Crashes, errors and lost answers are actions bounded by `MaxFaults`.
* An operator marked "Mutant" is a plausible wrong version of the operator
  after it, and is used by no specification: substituted for it, it
  breaks one of the properties, which shows that the property depends on that
  detail of the code.

### AutomationRuns

One poll cycle of `processDueAutomationRuns` is `Recover` (expired leases back to
PENDING), `Scan` (a snapshot of due runs with their attemptCount), `Claim` (one
conditional update per run of the snapshot, with its lease), then for each
claimed run `Begin` (re-read and re-validate: cancelled conditions, a suspended
business, a message already there), `Send` (the provider call, whose answer may
be lost) and `Record` (one transaction: message and status). `ExecutionError` is
the catch block, including the case that its own write fails; `Crash` the end of
the process. `Schedule`, `CancelByOwner`, `ConditionChanges`,
`BusinessSuspendedOrRestored`, `KillSwitchFlipped` and `Receipt` are what the rest
of the system does to the rows meanwhile. No write names the worker that holds a
run: the code identifies a holder by status RUNNING only, which is why the
relation of leases to speed matters. It is the constant `LeaseCovers`: a lease
outlasts the whole batch, one execution, or nothing.

`texts` and `gaps` are observations: what the carrier received, and how many
accepted texts left no record.

`MessageFate` is the promise both engines make of a text: it is absent, waiting,
sent, delivered or failed; while it waits it is handed to the carrier once, and
again only after an acceptance was lost; it is sent only on an acceptance that is
not lost; nothing is handed over while it is settled, and one that failed may
wait again (a receipt that reports a failure, a retry by the owner). `FateOf` is
the refinement mapping here and in `MessageDispatch`, with `texts` and `gaps`, and
`sent` and `lost`, as its counters.

### EventPipeline and OrderedDelivery

`Commit` is a business transaction with its event. `StartCycle` begins a worker's
cycle; `ClaimEvents`, `ReadEvent`, `Publish` and `PublishError` are the publisher,
`ClaimDeliveries`, `Take`, `Handle`, `Acknowledge` and `HandlerFails` the bus. Both
stages claim a row only if no earlier row of its aggregate is unsettled
(`FirstInLine`, `NextInLine`). The bus names the lease's owner in the write that
ends an attempt (`OwnsDelivery`). The publisher does not: its transaction, at READ
COMMITTED, checks the owner in a SELECT that takes no lock (`OwnsEvent` in
`ReadEvent`), creates the deliveries and updates the event by its id (`Publish`),
whatever has become of the claim in between; only its catch block's update names
the owner again. An event that a recovery has given up meanwhile is published all
the same; `revived` remembers it. Attempts are counted at the claim. `Abandon` is
anything that leaves a batch half done: a crash, or a database error outside the
`try`. `RecoverEachCycle` separates the HTTP tick, which recovers expired claims
in every cycle, from the worker, which does so when it boots. Two more constants
say which leases outlast their batches: `PublishCovers` the outbox's,
`LeaseCovers` the deliveries'. `late` observes events whose handler completed after
that of a later event.

`OrderedDelivery` is the promise: an event is absent, queued, published, and
delivered or dropped, and an aggregate's events take each step one after another.
One that is given up before its publication is withheld: nothing waits for it any
longer, and it may be published, and then delivered, late. That much the update by
id costs; `Phase` is the refinement mapping.

### WorkflowRuntime

An execution walks an acyclic graph of nodes (`Kind`, `Follows`). `Claim` takes
due executions with a lease; `Load`, `ReadSwitches`, `Hold`, `TimeOut`, `Enter`
open one; `Branch`, `Delay`, `Postpone` and the action steps (`FindAttempt`,
`CheckLease`, `Mark`, `Act`, `Succeed`, `ActionFails`) walk it; `Progress` and
`PauseHere` are the two writes after an action (the code's progress and its
directive are separate statements); `RecordFailure` is the catch block. Every
write to an execution is guarded by its owner and the status RUNNING (`Holds`),
but for two: `finish` (`TimeOut`) asks for the owner only, `Hold` for nothing.
Attempts are written by their id. `Pause`, `Resume`, `Cancel` and `Retry` are the owner's.
Conditions are nondeterministic: `Branch` takes any successor.

### InvoicePayments

A link request reads the invoice and its transactions (`ReadInvoice`), looks for
an open session (`FindOpen`), creates a transaction (`CreateTxn`), calls Stripe
(`Checkout`) and stores the session (`StoreSession`); a refund reads
(`LoadRefund`), calls (`CallRefund`) and writes (`WriteRefund`). Between any two
of these steps other requests, webhooks and crashes happen. Stripe's side is
external: `Pay`, `Capture` (money of an asynchronous payment) and `SessionFails`
move the session; `PaidEvent` and `FailedEvent` are deliveries of a webhook and
stay enabled as long as a delivery would change something, which stands for any
number of deliveries. The balance is derived as `deriveInvoicePayment` does.

Money is converted where the code converts it. The ledger's columns are
DECIMAL(10,2) and count cents; Stripe is sent whole minor units (`Unit` cents each,
1 or, for a currency without decimals, 100), rounded half up (`Charged`, `Minor`).
What a refund asks for is any positive number: `asks` is in half-cents, an odd
number standing for every amount between two whole cents. Stripe is sent the
rounded amount, but the ledger adds the one asked for (`NextRefunded`), the column
rounds the sum (`Stored`), and the status comes from the unrounded floating-point
sum (`StatusOf`), which may fall just short of the amount it should be equal to.
`inexact` observes how many accepted refunds were not for what was asked;
`Rounding` is what these can add. A refund that Stripe has accepted may fail later
(`RefundBounces`): the code does not look at a refund's status.

### MessageDispatch

`Enqueue` stores a message with its dispatch. A worker's cycle is `Recover`
(expired claims back to RETRY), `Claim` (a batch under one lease), then for each
dispatch `Begin` (the row of the attempt, whose number is unique for the
dispatch; if it is taken, the error ends the batch: `Drop`), `Send` and
`RecordAccepted` or `RecordFailure`. `seen` is the attempt count a worker has
claimed with, `batch` what it has not begun. `Abandon` is a crash or an error
outside the `try`, at any point, before or after the carrier accepted. `Receipt`
is the carrier's webhook, any number of times and at any time once the id is
stored; `RetryDispatch` the owner's retry. No write of a worker names the
lease's owner, so the model has none, and it assumes nothing of the workers'
pace. `sent` and `lost` are observations: what the carrier accepted, and how
many of these acceptances were never recorded.

### Quotes and QuoteToInvoice

`Quotes` is one quote. A request of the owner (`OwnerBegins`) or the customer
(`CustomerBegins`, through a link that is open and bound to the current revision)
begins with a snapshot and commits as `Update`, `Delete`, `Send`, `Cancel`,
`Revise`, `Resend`, `Accept` or `Decline`. `SweepReads` and `SweepApplies` are the
expiry sweep, which runs at READ COMMITTED: its update looks at the row as it is,
its event at the revision as it was read. A link's life is bounded by its own TTL
(`LinkExpires`) and by the quote's deadline (`DeadlinePasses`).

`QuoteToInvoice` extends it by transactions about invoices (`ClerkStep`):
`Convert`, `EditInvoice`, `DeleteInvoice`, `SendInvoice`, `Reissue`,
`VoidInvoice`. A step is one of the quote with the invoices left as they are, or
one of a clerk with the quote left as it is. Two conversions conflict on the
business's invoice counter (and on what both have looked for); transactions about
one invoice conflict on its row.

## 3. Runs

All runs use small sets of model values; deadlock is not checked because every
system here may come to rest (all events delivered, all runs settled).

| Run | Question | Instance |
|---|---|---|
| `AutomationRunsPrompt` | With leases that outlast batches: one holder under a live lease, outcomes recorded, terminal is final, no text twice outside the gap, and every run settles; the engine implements `MessageFate`. | 1 run, 2 workers, 3 attempts, 2 faults, fair |
| `AutomationRunsQueue` | Finding: leases that cover one execution and not the batch. | 2 runs, 2 workers, no fault |
| `EventPipelineOrder` | Claims and effects in order but for revived events, nothing lost, given up only at the limit, repetition only after a fault, the backlog drains; the pipeline implements `OrderedDelivery`. | 2 events of an aggregate, 2 workers, 2 and 3 attempts, 2 faults; outbox leases run out at any time, fair |
| `EventPipelineBoot` | Finding: the worker does not recover claims while it runs. | 1 event, 1 worker, 1 fault, fair |
| `WorkflowRuntimeWalk` | No action is skipped; every execution ends. | branch, delay and actions; 2 workers, 2 attempts, 1 flip, 1 fault, fair |
| `WorkflowRuntimeControls` | The owner's decisions stand; progress never goes back; nothing is stranded. | pausing and completing actions; 2 workers, 2 interventions |
| `WorkflowRuntimeSwitch` | Finding: the kill switch undoes a pause. | 1 node, 1 worker, 1 intervention, 1 flip |
| `InvoicePayments` | Only captured money counts, no refund booked that was not accepted but for its rounding, status and amounts agree, every capture booked. | 2 links, 2 refunds, 2 transactions, total 3 cents in units of 2, 1 fault, fair |
| `InvoicePaymentsSessions` | Finding: two open sessions. | as above, total 2 in units of 1 |
| `MessageDispatch` | With workers of any pace: a duplicate needs a lost acceptance, message and dispatch agree, the queue implements `MessageFate`, and every message settles unless an attempt's number was left behind. | 2 dispatches in a batch, 2 workers, 2 attempts, 1 retry, 1 fault, fair |
| `MessageDispatchRecovery` | Finding: a dispatch whose worker crashed in a send is never sent again. | 1 dispatch, 1 worker, 1 fault, fair |
| `QuoteToInvoice` | One open link to the current revision, one closing event, one live invoice, links of invoices open what was sent, quotes expire. | 2 requests, 2 sweeps, 3 links, 2 revisions; 2 clerks, 2 invoices, fair |

### Bounds

* **Two workers.** Every hazard here is a race of a worker with one successor; a
  third is a successor of the successor. Rows remember at most one owner.
* **One run, two runs.** Automation runs share no state but a worker's batch;
  one run with three attempts and two faults shows everything that happens to a
  row, and two runs in one batch what a shared lease adds (`AutomationRunsQueue`).
* **Two events of one aggregate** are the least in which order can be violated.
  Events of different aggregates meet in batches only; that they do not disturb
  each other's order is proved (section 4).
* **Two dispatches in one batch** of two, so that one's error takes the other's
  claim with it; a retry by the owner and a fault, so that both ways of leaving an
  attempt's number behind occur.
* **One quote, two revisions, three links**: a link for each revision and one
  resent; two requests give every pair of operations that can overlap, a sweep
  comes on top. **Two invoices** and two clerks: a conversion after a void or a
  deletion, and two at once. `ClosingCap` is one more than the property allows.
* **Attempts** of two or three have a first, a middle and a last one.
* **Graphs** of four nodes contain each kind of node, a branch with a choice, and
  an action after every other kind.
* **Money.** A total of 3 cents allows partial refunds in more than one way. A
  minor unit of 2 cents is the least that differs from the columns' cent: it has
  refunds that Stripe is sent rounded up, rounded down and rounded to nothing, and
  half-cents between all of them. Every other `Unit`, the tie between two cents
  that is broken either way at `Unit` 1 included, is left to the proofs. Refunds are made of one
  transaction, so two transactions and two refunds give every overlap.
* `MaxFaults`, `MaxFlips`, `MaxControls`, `MaxRefunds` bound disturbances, which
  are otherwise unlimited; `CountCap` and `HandledCap` are the values at which
  observing counters saturate, above every value the properties compare with.

Symmetry over workers is used in `WorkflowRuntimeControls` only, which has no liveness
property.

### Fairness

Weak fairness of each worker's steps: the worker's timer starts the next tick
after the previous one has ended or failed, the scheduler of the HTTP tick calls
it periodically, and a process that crashes is restarted by its supervisor
(`Crash` and `Abandon` return a worker to its idle state; restarting is then part
of its steps). No fairness is assumed of crashes, errors, requests, owners,
switches or customers. Weak fairness of `LeaseExpires` and `BecomesDue`: time
passes. Actions of a workflow end because the runtime passes them an abort signal
with a time limit. Weak fairness of the webhook deliveries: Stripe repeats a
delivery until it is acknowledged, and the route acknowledges only after the
handler has returned. The expiry sweep is part of every tick (weak fairness of `SweepReads`), and its
transaction, which other writers of the row may make fail, succeeds if it is
tried again and again (strong fairness of `SweepApplies`). Liveness properties are conditional where the code's own
switches can hold work back for ever: `EveryRunSettles` assumes that the business
stays active in the end, `EveryExecutionEnds` that the switches stay on. `Expires`
allows the owner to move the deadline, and `SettlesUnlessStranded` allows for the
stranded dispatches of finding 5.

All of them assume besides that ticks go on. Under maintenance, or with the
automation switch off, the whole tick is suspended (`automationWorker.ts:79`,
`scheduledWorkTrigger.ts:109`), and with it the workers of every module:
EveryRunSettles, BacklogDrains, SettlesUnlessStranded and Expires say what happens
once these switches stay on. The strong fairness of `SweepApplies` covers one more
thing: `quoteExpiry.ts:33` has no `try` per document, so a quote whose transaction
goes on failing holds back the quotes behind it in the batch.

## 4. What is proved

Theorems hold for every number of rows, workers, attempts and faults, under the
assumptions on the constants named in each module (`RunsAssumption`,
`PipelineAssumption`, `RuntimeAssumption`, `PaymentAssumption`,
`DispatchAssumption`, `QuotesAssumption`, `InvoicesAssumption`): limits are
positive, null values are not identities, events are numbered, and a workflow's
edges lead forward, which its validation before publication ensures.

**`AutomationRunsProofs`**

* `RunSafety`: TypeOK, RunningHasLease, CompletedIsRecorded and
  UnfinishedHasAttempts hold always, for every `LeaseCovers`. The inductive
  invariant `RunInv` adds that every attemptCount remembered from a snapshot is
  below the limit (`SeenBelowLimit`) and that a worker past `Begin` has a run in
  hand. Without the first, a stale attemptCount could be written back beyond the
  limit; without the second, an outcome could be recorded for no run.
* `TerminalStatusIsFinal`: the action property, from `RunInv` and one lemma per
  way of leaving a status.
* `ExclusiveExecution`: if leases outlast batches, then HeldExclusively (what a
  worker holds is RUNNING under a live lease, and in nobody else's hands) and
  StatusMatchesMessage. The invariant `HoldInv` says in
  addition that a worker executes a run only after having taken it out of its
  batch (`OneAtATime`). The core is the claim: a run that is claimed was PENDING,
  so by HeldUnderLease, the first half, nobody held it.
* `DuplicatesFallInGaps`: under the same assumption, no text is sent twice but for
  an acceptance that left no record. `GapInv` counts on top of `RunInv` and
  `HoldInv`, exactly: accepted texts exceed the unrecorded ones by one once the
  message is recorded or its acceptance in the hands of its one executor, and
  equal them before; and no gap opens without a fault.
* `RunsKeepFate`: under the same assumption, the engine implements `MessageFate`.
  Each step is shown to be a move of one run's fate, a text, an acceptance
  forgotten, or a stutter. It is `GapInv` being exact that carries it: a worker
  records COMPLETED where the promise asks for an acceptance that is not lost, and
  sends where it asks that there be none.
* `RunsTyped`, `HeldRunsAreLeased`, `OutcomesAreRecorded`: the remaining
  invariants the runs check, from the same invariants.

**`EventPipelineProofs`**

* `PipelineSafety`: TypeOK, ClaimedInOrder (in order but for revived events) and
  GivenUpOnlyAtLimit, whatever leases run out under a publication. Each step is
  first shown to make only one of a few `Moves` of a row; that settled rows stay
  settled, and the invariant `PipeInv`, then follow from the moves without
  looking at the actions again. `PipeInv` adds that events of an aggregate are
  committed in order (`CommittedInOrder`) and that an event is published exactly
  when its delivery exists (`Linked`): the first because an event that is
  not committed yet cannot hold others back, the second because the bus looks
  for earlier deliveries in a table an unpublished event is not in. Since
  `Publish` has no guard, `PipeInv` also says that what a worker is about to publish
  has been claimed at some time (`InHand`), so what precedes it is settled, and
  that a revived event stays published (`RevivedIsOut`).
* `PipelineRefinesPromise`: the pipeline implements `OrderedDelivery`, from
  `PipeInv` in both states of a step and the step's moves.
* `NothingIsLost`: an event is published exactly when its delivery exists, and what
  is acknowledged was handled. The second part needs `HandledFirst`: a worker
  about to acknowledge has run the handler, and a delivery becomes DELIVERED in no
  other way.
* `SubscribersSeeOrder`: what is proved of every ordered delivery
  (`OrderedDeliveryProofs`: `PromisedOrder`, `PromisedFinality`) holds of the
  pipeline through the refinement: whatever precedes a delivered event is over, or
  was given up unpublished and may turn up late; whatever precedes a published one
  is published or given up; and nothing published or delivered is taken back.
* `HoldersKeepTheOrder`: whatever leases run out, a handler that completes out of
  order is one of a worker that has lost its delivery meanwhile, or one of a revived
  event. `BegunInv` adds to
  `PipeInv` that a delivery which a handler is, or was, about has been claimed, and
  that a delivery is claimed only behind settled ones, or revived ones.
* `NothingIsRevived`, `OrderIsStrict`: what the code needs for the order to be strict.
  If publishing batches end before their leases (`PublishCovers`), what a worker
  publishes is its own under a live lease (`Held`), so recovery has not given it up and
  nothing is revived; if delivery batches do so too, no handler of an event ever
  completes after one of a later event.
* `EffectsKeepTheOrder`, `RepeatedByFaultsOnly`: EffectsInOrder and
  RepeatedOnlyAfterFault, if batches of deliveries end before their leases
  (`LeaseCovers`; without it a slow handler may overlap its successor).
  `Covered` says that what a worker dispatches is its own under a
  live lease; `Counted` that all completions of a handler but the one that is
  acknowledged, or about to be, were undone by a fault.
* `CompletionsAreLimited`: without that assumption, a handler still completes at most
  maxAttempts times for an event. `ClaimsCounted` sets the completions, and the
  workers that may yet complete, against the claims.
* `HeadIsNeverStuck`: the safety half of BacklogDrains. The first unsettled event
  of an aggregate is always one that a claim selects when it is due, or one under a
  lease that can run out; `Leased` says that claimed rows, and no others, have an
  owner and a lease.
* `DesertedAwaitABoot`: finding 2 for any number of events and workers. If recovery
  happens only as a process starts, a claim that its owner has left, through a
  crash or an error, is given back by no other step.
* `PipelineTyped`, `GivenUpAtLimit`: corollaries.

**`WorkflowRuntimeProofs`**

The invariant `RuntimeInv` has a part per execution, `RowOK` (RUNNING exactly
while owned, and exactly while leased; completedAt is null while running; open
executions have attempts left), and two per worker: `InHand` (it has an execution
in hand exactly while it is walking one) and `AtNode` (if it still owns it, the
node it has reached is the recorded one, or after a branch one behind it).
`AtNode` survives every other worker because ownership is only ever taken, or
given to a worker with nothing in hand.

* `RuntimeTyped`: TypeOK, the bound on retries included, which recovery and the
  catch block both count.
* `WaitingCanBeClaimed`: NotStranded, from `RowOK`.
* `ProgressNeverGoesBack`: ProgressIsMonotone, from `AtNode`, for every acyclic
  graph and workers of any pace.
* `WorkersLeaveTheRestAlone`: OwnerDecides, if the switches stay on. The
  assumption is needed: finding 3 is what happens without it.
* `OnlyTheHoldOverrides`: with the switches changing at will, the write by id of
  finding 3 is the only step of a worker that ever moves an execution its owner has
  put to rest.
* `WalkSkipsNothing`: NothingSkipped, for every acyclic graph. What has been walked
  to is defined as the least set closed under the edges behind performed actions.
  `WalkInv` says that whatever is recorded or performed, and wherever a worker is,
  was walked to, whether or not the worker still has its lease; a worker past an
  action, and a stored output, have that action performed. The set only grows, so
  the invariant survives every other worker.

**`InvoicePaymentsProofs`**

* `PaymentSafety`: TypeOK, SettledIsCaptured, StatusMatchesRefunds and
  BookedRefundsWereAccepted, for any number of requests and any minor unit, under
  `PaymentAssumption`. The invariant `PayInv` says in addition that a link request
  has its new transaction for itself until the session is stored
  (`LinksInFlight`: otherwise the catch block could fail a paid one), and, of a
  refund in flight (`RefundsInFlight`), that what it has read and asks for is within
  the payment, that what it has read is `Backed` by what Stripe has accepted and the
  roundings of that, and after the call so is everything it may be going to store.
  Together they carry the bound over the stale write: however late `WriteRefund`
  comes, the sum it writes was backed before, and what backs it never shrinks. The
  arithmetic is in `AcceptedCovers` and two lemmas about `Stored`: an accepted
  refund and its rounding cover what was asked for with half a cent to spare,
  which is what storing the sum can add, unless it was exact, and then storing
  adds nothing.

  `PaidIsCaptured`, `RefundStatusAgrees` and `PaymentsTyped` are corollaries.
* `CapturesCanBeBooked`: the safety half of CaptureIsRecorded. A transaction whose
  money has come is booked, or in a state in which the guards of its webhook let
  the event through, whatever request failed, invoice was voided or payment came
  beside it. `TrackInv` adds to `PayInv` that a customer can pay only a session whose
  URL is stored, that a transaction with a stored session fails only with it, and
  that the transaction of a request in flight is pending.
* `BookedPaymentsStay`: what is booked stays booked, at the amount collected.
* `SerialRefundsAgree`: with one refund at a time and none cut short, ledger and
  Stripe differ, in either direction, by at most a rounding of each refund that had
  to be rounded, and not at all where none had to be. So the refunds a ledger
  misses beyond that (section 5) are due to an overlap or a fault.

**`MessageDispatchProofs`**

* `DuplicatesAreLost`: no message is accepted twice but for a lost acceptance, and
  none more often than maxAttempts. Leases do not matter to it; the numbers of
  attempts do. `DispatchInv` says that the attempt rows of a dispatch are 1..n
  (`Numbered`), that whoever is sending it has made row n, having read n-1
  answered attempts, and is alone (`Sending`), that a claimed dispatch not yet
  begun is still open or finds its number taken (`Waiting`), that the dispatch's
  row agrees with its attempts' (`Table`), and counts acceptances against lost ones
  and against rows (`Counted`).
* `MessagesAgree`, `StrandedHaveCause`, `QueuedHaveAttempts`, `DeliveredStays`
  and `DispatchesTyped` follow from `DispatchInv`; the third says that the only
  causes of finding 5 are faults and the owner's retries.
* `DispatchKeepsFate`: the queue implements `MessageFate`, with workers of any pace:
  `Counted` gives the acceptances, `Sending` that whoever sends is alone.
* `StrandedForGood`, `RetryStrands`: finding 5 for any number of dispatches and
  workers. A dispatch whose next attempt's number is taken, and of which no carrier
  can report, stays so at every step, and nothing more is sent of it; and a retry by
  the owner leaves its dispatch with a number that is taken, at once, however many
  attempts were made before.

**`QuotesProofs` and `QuoteToInvoiceProofs`**

* `LinksStayCurrent` and `QuotesCloseOnce`: at most one link is open, to the
  current revision of a sent quote, and a quote is closed by one event. `QuoteInv`
  adds that what a request has read still holds when it commits (`Current`,
  which is what SERIALIZABLE buys) and that expired links, too, are bound to the
  current revision (`Unrevoked`).
* `QuoteWithInvoices`: the composition implements `Quotes` (AllSpec implies Spec),
  so both hold in it.
* `AtMostOneLiveInvoice` and `InvoiceLinksStayCurrent`: `InvoiceInv` adds that what
  a conversion has read still holds (`Converting`) and that a draft has no links
  (`Unsent`). `QuotesAndInvoicesTyped` is a corollary.
* `QuoteLifecycle`, `DeadLinksStayDead`, `InvoiceLifecycle`: what a step may do. A
  quote moves along the transitions the code declares, although it checks them on a
  snapshot, and a decision and its record stay; a link that is revoked or expired
  stays dead, and is never bound to another revision; an invoice moves along its
  transitions, keeps its source, and is not edited once it is sent or void.

Only model-checked: the liveness properties EveryRunSettles, BacklogDrains,
EveryExecutionEnds, CaptureIsRecorded, SettlesUnlessStranded and Expires, which are
outside the prover's reach. What stands behind three of them is proved as safety:
HeadIsNeverStuck for BacklogDrains, CapturesCanBeBooked for CaptureIsRecorded,
WaitingCanBeClaimed for EveryExecutionEnds. Every other property of a passing run is
the statement of a theorem.

## 5. Findings

Five runs show the code doing something its comments, tests or documents exclude.

1. `AutomationRunsQueue`. `executor.ts` says that the only exposure to a second
   text is the gap between acceptance and commit, and sizes the lease for one
   execution; but a batch of up to twenty is leased at once and executed in
   sequence, so the last leases can run out first.
2. `EventPipelineBoot`. `docs/INCIDENT_RECOVERY.md` says the loops drain the
   backlog on their own after a database incident; the worker recovers expired
   claims only once, before its first tick.
3. `WorkflowRuntimeSwitch`. All writes of a worker to an execution name the
   lease's owner but the one that puts an execution back while the automation switch is off: it
   undoes a pause or a cancellation made in between.
4. `InvoicePaymentsSessions`. "Reuse a still-open Checkout Session rather than
   minting a second one" does not hold of two requests at once: each mints one,
   and both can be paid. A refund between two links has the same effect,
   since only the newest session is considered, and only if its amount fits.
5. `MessageDispatchRecovery`. `messagingPlatform.ts:86-91` and its test say that a
   dispatch stranded by a crash in a send is picked up again. The row of its
   attempt was created before the send, but `attempts` is raised only when the send
   is answered: the next pickup creates the same number, the unique constraint
   ends the whole batch, and so on at every cycle. The owner's retry of a failed
   dispatch sets `attempts` to 0, keeps the rows, and ends the same way.

Behaviour the models contain, and which no run reports:

* `attemptCount` is written from a snapshot; two executions of one run can both
  record attempt *n*, so the limit bounds the recorded count, not the sends.
* With the communications switch off every send fails as transient and uses up an
  attempt; a run can be given up before the switch is on again, although
  `messagingService.ts:24-26` says callers can retry.
* A PAUSE or COMPLETE directive is a second write after the progress of its
  action (`workflowRuntime.ts:42`); a crash in between loses it.
* Pausing and resuming a finally failed execution leaves it PENDING with
  `completedAt` set, which no claim selects (`workflowRuntime.ts:126`).
* Voiding an invoice leaves its open session payable; the payment is booked on
  the void invoice.
* The expiry sweep's event names the revision the sweep read; the document may
  have got a newer one in between (`ClosedOnce` allows the sweep, and only it, to).
* `docs/PRODUCTION_HARDENING.md:65-67` says that "the provider `idempotencyKey` on
  each dispatch makes a re-send of an already-accepted message safe", but
  `twilioProvider.ts` passes none to the carrier: a message whose answer was lost
  after its acceptance is sent again under the next attempt's number.
* Two refunds of one payment at once, or a crash between Stripe's refund and its
  write, leave a refund unbooked: the ledger may be too low by a whole refund, and
  too high only by roundings, or by a refund that failed after it was accepted.
* An outbox lease that runs out inside the publishing transaction, on the last
  attempt: recovery gives the event up, later events of the aggregate are published
  and delivered, and then the transaction's update by id
  (`outboxPublisher.ts:15`) turns DEAD into PUBLISHED, with a delivery, out of order.
  `docs/PRODUCTION_HARDENING.md:52` speaks of "strict per-aggregate ordering";
  `OrderIsStrict` says under which assumption it is strict.
* A refund's roundings. 0.70 and then 0.10 of a payment of 0.80 leave
  `refundedAmount` at 0.80 and the status partially_refunded for ever, since
  0.7 + 0.1 < 0.8 in floating point (`invoicePayments.service.ts:206`). A request for
  1.005 refunds 1.00 at Stripe and may book 1.01; one for 10.4 yen refunds 10 and books
  10.40. The route accepts any positive number (`invoices.routes.ts:140`).
* A refund that Stripe returns as pending is booked, and stays booked if it fails
  later: its status is dropped (`invoicePayments.service.ts:194`).

## 6. What is not modelled

* Contents of messages, events, workflows' conditions and templates.
* The jobs of a tick that are single conditional updates (retention, heartbeats).
* Everything listed without a module in section 2, either because it is planned
  (below), or because it is CRUD in single transactions, or calls to remote
  services without a protocol of the system's own, or a user interface.
* Hazards listed without a property, because the code does not exclude them and no
  document says it does: two first messages of a customer open two conversations
  (`messagingPlatform.ts:172`); a crash between an action's progress and its
  directive (`workflowRuntime.ts:42`); an action that goes on after its abort
  signal (`workflowRuntime.ts:93`).
* Inbound messages, conversations, suppressions and attachments; contents,
  amounts and document numbers of quotes and invoices; plans and counts of the
  entitlements, of which only the transactions' conflicts and retries are modelled.
* Access control: the models assume that requests reach the handlers they may reach.
* PostgreSQL itself: isolation levels are assumed as documented.
* Lost answers of the database. The models assume that a write which reports an
  error has not been committed. It matters where a catch block then writes
  something else: `invoicePayments.service.ts:118` and `123` (a stored session whose
  transaction is failed all the same), `messagingPlatform.ts:126` and `136` (an
  acceptance recorded and then overwritten by a retry).
* A carrier that reports two outcomes for one dispatch: `MessageDispatch` assumes one
  per id, so a failed receipt followed by a delivered one (`messagingPlatform.ts:152`)
  is not covered.  In `AutomationRuns` receipts may contradict each other.

## 7. Plan

Done, in the order of importance:

1. `AutomationRuns`, its runs and proofs: the engine that texts customers.
2. `OrderedDelivery` and `EventPipeline` with the refinement.
3. `WorkflowRuntime` and its proofs.
4. `InvoicePayments` and its proofs.
5. `MessageDispatch` and its proofs.
6. `Quotes`, composed with invoices in `QuoteToInvoice`, and their proofs.

Left, in the order in which it would be worth doing:

1. Workflow triggers and schedules: the composition of the pipeline with the trigger
   engine and the runtime, one execution per event and workflow, and schedules
   that catch up.
2. Appointments and customer booking: slot conflicts in serializable transactions,
   modelled in the manner of `Quotes`, with the reminders sent around them.
3. Appointment payments as a second instance of the payment model.
4. Loyalty's ledger and the reconciliation of subscriptions with the stores.
5. An abstract ledger for payments, which `InvoicePayments` and the module for
   appointment payments would both implement, as `MessageFate` is one for texts.
6. What is left of the engine's guarantees when leases outlast one execution but not
   the batch, the bound on texts among them.
