# Verification of the ERP's state machines

This directory holds TLA+ models of the API of this repository
(`src/apps/api`), the TLC runs that check them on small instances and the
theorems that TLAPS proves about them for every instance. `PROJECT.json` lists
the components, the runs, the source lines behind every definition, the hazards
and the theorems.

The program is a NestJS service over PostgreSQL (through Prisma). Its requests,
webhooks and timers share nothing but database rows; nearly every handler reads
rows, awaits, decides, and writes by id. PostgreSQL runs at READ COMMITTED, so
what was read may have changed when the write comes, inside an interactive
transaction as well. Several processes may run, and each has its own timers.
That is where its hard behaviour lies, and what the models keep: **one action
per point at which a handler reads, one per commit or external call**, and in
between whatever the others do.

| Module | Models | Checked by | Proved in |
|---|---|---|---|
| `Checkout.tla` | one order from its draft to its invoice | `CheckoutOverlap`, `CheckoutSerial`, `CheckoutProgress` | `CheckoutProofs.tla`, `CheckoutBillingProofs.tla` |
| `PaymentLedger.tla` | what the payment part of the checkout promises (abstract) | `CheckoutSerial` (`ExactLedger`) | `CheckoutProofs.tla` |
| `Workflow.tla` | one approval workflow with its scheduler | `WorkflowEscalation`, `WorkflowDecisions` | `WorkflowProofs.tla`, `WorkflowGateProofs.tla` |
| `ApprovalProcess.tla` | what the workflow engine promises for one workflow (abstract) | `WorkflowDecisions` (`ImplementsProcess`) | `WorkflowGateProofs.tla` |
| `AiOutbox.tla` | the events handed to the AI flow | `AiOutboxRuns` | `AiOutboxProofs.tla` |
| `Campaign.tla` | message campaigns and their scheduler | `CampaignTicks`, `CampaignOperators`, `CampaignProgress` | `CampaignProofs.tla` |
| `Audit.tla` | the hash chain of the audit log and its archive | `AuditTiers` | `AuditProofs.tla` |
| `AuditTrail.tla` | what the audit log promises (abstract) | `AuditTiers` (`ImplementsTrail`) | `AuditProofs.tla` |
| `Billing.tla` | classic orders, their edits and invoices, period locks | `BillingOrders`, `BillingPeriods` | `BillingProofs.tla` |

Each model has an `MC...` module with the model values of its runs. In every
model a variable marked *history* is no state of the program: it records what
has happened, so that a property can say "unless two requests overlapped here".
Such an exception is only made where the code really fails without it; the
section "Known weaknesses" says how.

## Inventory

| Component | State | Operations | Hard behaviour | What makes it correct |
|---|---|---|---|---|
| **Sales checkout** `modules/sales/sales-checkout.service.ts`, `sales-draft-cleanup.service.ts` | order, order lines, payment intent, bank transactions, overrides, invoice | create, update draft, submit, bank event, override, complete activation line, re-evaluate invoice, invoice from order (n8n), hourly cleanup | duplicate and concurrent bank events, guards read before the transaction, automation after the commit, two paths that bill | a bank event counts once; the intent agrees with itself and with the money; terms are locked from submission on; a paid order is billed |
| Checkout numbering (same file, `nextNumberingSequence`) | a counter in a settings row | next number, three attempts on the unique order number | read and write without a lock | unique numbers; creation fails only under real contention |
| Callback rate limit `modules/sales/guards` | counters per address and intent, in one process | count or refuse | limits at the window boundary | refuses only; never half processes |
| **Classic sales orders** `modules/sales/sales.service.ts` | order, edit approvals | create, update, archive, approve, reject | an edit compares with a total read earlier; archiving races billing | a total falls only by an approved edit; an archived order is settled |
| **Workflow engine** `modules/workflows` | definition, instance, approvals, action log | submit, approve, reject, cancel, reassign, delegate, escalate (by hand and by a timer every five minutes) | no transactions: gate evaluated on re-read rows, advance without a pending test, failure between a step and its approvals | one decision per step visit, a terminal instance stays terminal, a pending step has someone to decide |
| **Zalo AI jobs** `modules/zalo/zalo-ai-jobs.service.ts`, `zalo-ai-routing.controller.ts` | job, outbox row, thread | enqueue, dispatch, flush, callback, mark replied or failed, takeover | no claim on rows, callbacks racing the dispatch that caused them, crash between callback and reply | one reply per message, attempts bounded, nothing lost, outcomes stay |
| **Zalo campaigns** `modules/zalo/zalo-campaign.service.ts` | campaign, accounts with quotas, recipients, attempts | start, pause, resume, cancel, edit, delete, tick (claim, send, record, next day's quota) | overlapping ticks, crash between claim and outcome, operator against tick | no customer twice, quota kept, a stop is soon, an account in one campaign, a campaign ends |
| **Audit chain** `prisma/prisma.service.ts` | chain state and logs of a tenant | append | concurrent appends, a second connection inside a transaction | one chain without forks; every request returns |
| **Audit archive** `modules/audit/audit-archive.service.ts` | manifests, files | archive, prune, delete past the retention | crash between file, manifest and prune; runs of two processes | no entry is lost or hidden; the table is relieved |
| **Finance** `modules/finance/finance.service.ts` | invoice, allocations, journal entries, period locks | create, amend, transition, archive, allocate, lock periods | allocations racing, lock racing a posting | paid is what was allocated; a closed period does not change |
| **Settings** `modules/settings` | policies in settings rows | read by all others; writes of `finance_controls`; maintenance | a domain is written whole from what was read | no lock is lost |
| CRM, HR, e-learning, supply chain, catalog, assets, projects, assistant, reports, notifications, search, custom fields, conversations | records | forms, timers for reminders and distribution | little shared state | (not modelled) |
| Identity and access, tenant isolation | permissions, filters | read by all others | caching | constants of the models |
| Web application `apps/web` | none of the system's | pages | - | - |

Interactions: the checkout reads its policies from settings and writes the
invoice that finance works on; workflow decisions write the status of the order,
invoice or other target they were started for; closing a period is a write of
settings that every write of finance has to respect; the audit chain hangs
behind every write of the API, and its archive is run by the maintenance of
settings; AI jobs and campaigns send through the same personal accounts, and a
message of an employee takes a conversation over from the AI jobs.

## The checkout model

`Checkout.tla` models one order from its creation to its invoice.

| Code | Model |
|---|---|
| `Order` row (`checkoutStatus`, `totalAmount`, `commercialLockedAt` with `status`, discount of its items) | `order` (`NONE` before creation); `itemsTotal` is the sum of the rows in `OrderItem` |
| `OrderItem` rows with `activationStatus` | `lines`: `UNUSED`, `PENDING`, `COMPLETED`, `DELETED` |
| `PaymentIntent` row | `intent`: status, locked, paid and remaining amount, QR switch |
| `PaymentTransaction` rows, unique on `dedupeHash` | `txns` |
| `Invoice` row, unique on `orderId` | `invoice` |
| a handler in flight and its local variables | `req[h]`, with `pc` naming the step it does next |
| - | `ledger`: history of the money credited, and how often under each key |

`createCheckoutOrder` is `CreateOrder` and `RequestApproval`; `updateDraftOrder`
is `UpdateDraftRead`, `UpdateDraftWrite` and `UpdateDraftCommit`;
`submitCheckoutOrder` is `SubmitRead` and `SubmitCommit`; `processBankEvent` is
`BankRead` and then one of `BankConflict`, `BankReject`, `BankApply`;
`createPaymentOverride` is `OverrideRead` and `OverrideCommit`;
`completeActivationLine` is `ActivateRead`, `ActivateGate`, `ActivateScan` and
`ActivateCommit`; `reEvaluateInvoiceAutomation` is `ReEvaluate` and
`WriteInvoice`, entered after a commit or from `ManualReEvaluate`;
`createInvoiceFromOrder` is `InvoiceFromOrder`, `FindInvoice`, `IssueInvoice` and
`MarkOrder`; the cleanup job is `CleanupDraft`. `RequestFails` drops a request
between two of its steps: an open transaction is rolled back, committed work
stays, the rest is lost.

Row locks are modelled where a wait could be circular or would change an
outcome: a draft update holds the order while it replaces lines, an activation
holds its line while it waits for the order, and when the two wait for each
other PostgreSQL aborts either (`DeadlockVictim`).

What is abstracted: amounts are small integers; a discount is one of three
classes against the two limits of the policy; the policy does not change while a
behaviour lasts; permissions, signatures, templates and the customer test of
invoicing are not modelled, nor are the search index, service contract dates and
QR payload. A read of an order with its relations is one read, although Prisma
fetches relations one after the other. Other orders share no row with this one.

`PaymentLedger.tla` is the abstract specification of the payment part: an amount
locked once, credits, and the recorded paid amount; with `MayLose` a credit may
be overwritten by a concurrent one. The checkout implements it with
`MayLose = TRUE` at any overlap (`ReadCommittedLedger`, proved) and with
`MayLose = FALSE` when requests do not overlap (`ExactLedger`, checked and
proved).

### Runs

`MCCheckout.tla` declares the model values. Handlers, keys and lines are
interchangeable, and symmetry is used where only safety is checked.

| Run | Shows |
|---|---|
| `CheckoutOverlap` | two handlers, every endpoint but the n8n invoicing. `TypeOK`; `IntentConsistent`: the intent agrees with itself and shows no money out of nothing; `KeysSettleOnce`: every bank event counts once; `ApprovedInvoiceIsCovered`: the automation approves only what is paid in full |
| `CheckoutSerial` | one handler, every endpoint, two failures half way. `CommercialTermsLocked`; `DraftHasNoIntent`; `ExactLedger`: the abstract ledger that loses nothing is implemented |
| `CheckoutProgress` | two handlers, fair and without failures: draft updates, activations, payments and n8n invoicing. `RequestsFinish`: nobody waits for ever on the row locks of the other; `StaysPaidGetsInvoice`: an intent that stays paid gets its invoice approved although two sides bill |

Bounds: two handlers are enough for every race found here, since each is between
one stale read and one write; two keys, so that one event can be repeated and
another follow; amounts 1 and 2 with totals 2 and 3, so that partial, exact and
over-payment all occur; two or three lines, so that an order is partly
activated and lines are replaced. `MaxCredit` stops overrides from starting
once that much is credited (a lost update would otherwise allow one more for
ever), `MaxInvoiced` does the same for manual invoicing, and `MaxFailures`
bounds the requests that fail. `CHECK_DEADLOCK FALSE` is set because an order
whose keys and lines are used up may rest.

Fairness: a request that began is scheduled on by the runtime, and a waiter of a
row lock is served in turn, hence strong fairness of `Proceed`; the cleanup job
is driven by `setInterval` and its update waits for the row lock like any other
statement, hence strong fairness of `CleanupDraft`. Nothing is assumed of
clients, banks or time (`Begin`, `DraftExpires`).

### Proofs

`CheckoutProofs.tla` proves, for every value of the constants that
`CheckoutAssumption` admits:

- `TypeCorrect`: `Spec => []TypeOK`;
- `SafetyInvariant`: `Spec => []SafetyInv`, and from it `IntentAlwaysConsistent`,
  `KeysAlwaysSettleOnce` and `ApprovedInvoiceAlwaysCovered`;
- `ImplementsReadCommittedLedger`: refinement of the ledger that may lose a
  credit, for any number of handlers;
- `ImplementsExactLedger`: refinement of the exact ledger when at most one
  request is in flight (`OneAtATime`);
- `TermsStayLocked` and `DraftsHaveNoIntent`: `CommercialTermsLocked` and
  `DraftHasNoIntent` under `OneAtATime`, failures included.

None of the invariants is inductive alone. A stale payment writes
`Least(read + amount, locked)`, so "no money out of nothing" needs that what a
request carries is covered by what was credited when it read, and that credit
only grows; an invoice is approved from a flag read earlier, so
`ApprovedInvoiceIsCovered` needs that a request that read "paid in full" carries
the locked amount, and that the locked amount does not change once set. These
facts about requests in flight are `RequestsCovered`; with the shape of the
intent (`IntentShape`) and of the approved invoice (`ApprovedInvoice`) they make
up `SafetyInv`. The proofs under `OneAtATime` add what the only request knows:
what a payment has read is what the intent shows (`FreshReads`), and what a
draft update, a submission or an activation read of the order still holds.

The lemmas split by what a step may touch: `PaymentStep` for the intent,
transactions and ledger (with `PaymentFrame` for the many actions that leave
them alone), `RequestsStep` for the requests, `InvoiceStep` for the invoice; the
refinement theorems reuse them with `OpenStep` and `NewKey`.

`CheckoutBillingProofs.tla` proves `BillsAreNotForgotten`, the safety core of
`StaysPaidGetsInvoice`, for every trigger, policy and number of overlapping
requests: as long as no request has failed half way, an order whose policy asks
for an invoice has one or a request in flight is about to evaluate or write it
(`NoBillForgotten`), and a paid order under `ON_PAID` has an approved one unless
`reEvaluateInvoiceAction` may force a bill early. The automation runs after the
commit that makes a bill due, so what has to be shown is that no other step makes
one due and that no request drops the bill on stale reads. The hard case is
`ON_ACTIVATED`: an activation goes on to the automation only if the status it
computed from its own scan says so, and a draft update may replace the lines
between the scan and the commit. `LinesOnce` closes it: a line identifier belongs
to one edit, a deleted line never comes back, so a line that is on the order at
the commit was on it at the scan. `AutomationApproves` says that unaided by a
manual rerun the automation writes no invoice but an approved one, also when it
inserts and loses the race to the n8n endpoint. With `MaxFailures` above zero the
hypothesis `failures = 0` matters: a crash between the commit and the automation
does forget the bill (see "Known weaknesses"). Eventual
billing itself needs fairness and stays with `CheckoutProgress`; the invariant is
no property of a run.

## The workflow model

`Workflow.tla` models one approval workflow, submitted for an edited order, from
its submission to its outcome.

| Code | Model |
|---|---|
| `definitionJson` of an active definition: steps, assignees, modes, transitions | `graph`, chosen from the constant `Definitions`; conditions and assignment rules look only at the context, which never changes, so they are resolved in the graph |
| `WorkflowInstance` row | `instance`: status and current step |
| `Approval` rows | `approvals`: one per visit of a step and assignee, with status, step, present approver and whether `escalatedAt` is set |
| `dueAt` in the past | `overdue`: the visits whose approvals are late (one `createMany`, one `dueAt`) |
| status of the `Order` (`ORDER_EDIT`) | `order` |
| a request or scheduler run and its local variables | `req[h]`, `scan[t]` |
| - | `autoEscalated`: history, how often the scheduler escalated each approval |

Nothing in this service but the last write to the order is a transaction, so
every statement is an action. `submitInstance`, called by `updateOrder`, is
`Submit`, `Assign` (`ensureStepApprovals`) and `Mark`. Each decision begins with
`ReadInstance` and `Pick` (`pickPendingApproval` and the separation of duties).
`approveInstance` goes on with `Approve`, `Gate` and `Skip`, `rejectInstance`
with `RejectPending` and `RejectOwn`; both end in `advanceByDecision`, which is
`AdvanceRead`, `Move`, then `Assign` for the next step or `Sync` for the order.
Reassignment and delegation are `Handover`, escalation by hand is `Escalate`,
cancellation is `CancelRead`, `CancelApprovals`, `CancelInstance`. The scheduler
is `ScanBegin`, then `ScanTask`, `ScanInstance`, `ScanWrite` for each approval.
`RequestFails` and `TimerFails` stop between two statements; what was written
stays.

Abstracted: who is resolved from a role or department (a set of users); whether
a user is authorised (the present approver decides); the switches of delegation
and escalation (a request may end without effect in `Pick`); terminal statuses
other than APPROVED, REJECTED and ARCHIVED; notes, logs and access grants. An
order has one workflow here.

`ApprovalProcess.tla` is what all these statements add up to, without requests,
users or timers: a workflow that `Begin`s, `Ask`s or `Waive`s on each step it
enters, takes a `Vote` at a time on the ballot of that step, leaves the step by
`Approve` (only when the ballot carries it), `Reject` or `Cancel`, and an order
that is put on `Hold` and `Settle`d once. `Workflow` maps to it by `Entering`
(some request has entered a step and has not created its approvals yet) and
`Ballots` (for each step, how many approvals its *latest* visit has, and how
many of them are given). That the gate counts the approvals of *all* visits is
what makes this hard: the two agree only where the definition lets them.

### Runs

| Run | Shows |
|---|---|
| `WorkflowEscalation` | two overlapping scheduler runs, one request and one failure, the requester among the assignees. `EscalatedOnce`: an approval is escalated at most once by the scheduler |
| `WorkflowDecisions` | one request at a time, one failure, the scheduler between any two statements; a definition that sends back for rework and one with an automatic step. `TypeOK`; `ImplementsProcess`: the engine implements `ApprovalProcess`; `SomebodyDecides`: a pending workflow has an approval to decide; `OrderFollowsWorkflow`; `OutcomeStays`: what is decided stays decided and ended workflows stay ended; `OverdueEscalates`; `RequestsFinish` |

Bounds: two users are enough for every mode (one is not all); three visits, for
a step, its successor and the step again; two scheduler runs, since the guarded
write is between two; one failure. No decision starts when fewer visits are left
than requests could need. `Decisions` names the decisions users may take: all
four in both runs. `CHECK_DEADLOCK FALSE` is set because an ended workflow
rests. Fairness: the runtime goes on with a request that was started, and
`setInterval` starts the scheduler again and again, hence weak fairness of
`RequestStep` and `Timer`; nobody has to decide and nothing has to fall due.

### Proofs

`WorkflowProofs.tla` proves, for every set of definitions, users, steps and
visits, from `WorkflowAssumption`:

- `TypeCorrect`: `Spec => []TypeOK`;
- `EscalatesOnce`: `Spec => []EscalatedOnce`, for any number of scheduler runs
  and requests. The invariant is `EscalationMarked`: an approval that was
  escalated carries the mark, exists, and no statement removes the mark, because
  new approvals take unused visits and handing over keeps it;
- `DecisionsStay` and `OutcomesStay`: `DecidedStays` and `OutcomeStays` when
  requests do not overlap (`OneAtATime`), with any number of scheduler runs. The
  invariant is `Undisturbed`: the approval a request picked is pending until it
  decides it, and the workflow until it moves it. `ScanWriteKeeps` shows that the
  scheduler, which is not bound by `OneAtATime`, cannot disturb either;
- `OrdersFollow`: `OrderFollowsWorkflow` under `OneAtATime`, for definitions
  whose first step has assignees (`FirstStepAssigned`: otherwise the workflow
  can end before `updateOrder` marks its order). The invariant says of each
  step of a request how far the order lags behind the instance.

`WorkflowGateProofs.tla` proves what holds of the gate, for every set of
definitions that leaves out what the known weaknesses name. The three
hypotheses say which; the definitions of `WorkflowDecisions` satisfy all three:

- `GateJudgesVisit`: approval does not lead to ARCHIVED, and a `MIN_N` step that
  asks for more than one approval cannot be reached again after it was left (old
  approvals would count). "Cannot be reached" is stated by a set of steps closed
  under transitions (`Past`), so that no recursion over the graph is needed;
- `StepsDecidable`: every step has assignees or approves itself, `MIN_N` asks for
  no more than are assigned, and an `ALL` step is not reached again by rejection
  (the rejected rows would block it for ever);
- `FirstStepAssigned`, as above.

The theorems, all under `OneAtATime`, with scheduler runs and failures free:

- `StepsAreLeftByGate`: a step is left by approval only when the approvals of its
  latest visit suffice for its mode. The invariant is `Gated`: visits are
  numbered in order and what is pending belongs to the latest visit of the
  present step (`VisitsInOrder`); a request decides on the step the workflow is
  on and nothing is pending any more when it advances it (`Deciding`); a step
  that cannot be returned to has one visit (`EnteredOnce`); and a request that
  passed the gate knows that its step is `Passable` (`Judged`). `GateSatisfies`
  is the lemma that turns the count over all visits into one over the latest,
  mode by mode;
- `WorkflowsAreNeverStuck`: `SomebodyDecides`. The invariant `Unstuck` adds to
  `Gated` that an approval that was refused lies on a step the workflow has left
  for good if all must approve it (`LeftRefused`), and that everybody who is
  assigned on the present visit has approved or still can (`Waiting`); a gate
  that stays closed then has somebody pending (`GateOpens`);
- `ImplementsApprovalProcess`: `ImplementsProcess`, step by step, one lemma per
  action of the abstract process. It needs `Gated` and `SettledOnce` (the order
  is open until it is marked and unsettled until the workflow has ended), and
  that the ballots change only where they should: `BallotOpens` (one vote per
  assignee and none left over), `BallotGains`, `BallotsKept`, `BallotCarries`.

With TLC only: the liveness properties.

## The model of the AI jobs

`AiOutbox.tla` models the customer messages of one thread that are handed to the
external AI flow. `enqueueN8nJob` writes a job and an outbox row in one
transaction and dispatches it at once; a timer dispatches, every five seconds,
what is still waiting; the flow calls back.

| Code | Model |
|---|---|
| `AiConversationJob` row | `job`: status, and whether a callback was stored |
| `AiConversationOutbox` row | `outbox`: status, attempt number, whether `nextRetryAt` has passed |
| `pauseUntil` of the thread | `paused` |
| messages stored after the customer's | `answered` |
| `dispatchOutboxById`, `flushPendingOutbox` and their local variables | `run[d]`: `Enqueue`, `Flush`, then `DispatchSkip` or `DispatchRead`, `DispatchMark`, `DispatchPost`, and `DispatchSent` or `DispatchFailed` (`markOutboxAttemptFailed`) |
| the callback endpoint and its local variables | `call[c]`: `CallbackRead`, `CallbackStore` (`registerCallback`), then `CallbackSkip`, `CallbackTakenOver` or `CallbackAccept`, `CallbackSend`, `CallbackReplied` and `CallbackClear` (`markJobReplied`), `CallbackThrows` and `CallbackFailed` (`markJobFailed`) |
| an employee's message and takeover | `AgentReplies`, `PauseEnds` |
| - | `posts`, `replies`: what reached the flow and the customer; `mixed`: what overlapped on the event |

The flow may call back at any time after it was given the event, any number of
times. A post may be delivered and still time out; a reply may go out and still
be reported as an error; a process may stop between any two statements.

`AiOutboxRuns` has one event, two dispatchers, one callback request at a time,
two attempts and two crashes. It checks `AtMostOneReply`, `RetryBudget` (posts
are bounded by the attempts and the crashes), `NothingLost` (a dead row without
an answer is with a person, a received callback with a request), `OutcomeStays`
and, under fairness, `QueueDrains`. Two dispatchers give every race on the row,
since each race is between one stale read and one write; two attempts give a
retry and a giving up. Events meet only in `paused` and `answered`, which the
employee's messages change in the same way at any time, so one event is enough.
One callback at a time is the case the properties speak of: two at once both
pass the duplicate test (see the known weaknesses), and the theorems cover any
number of them. Fairness: the timer fires again and again and statements and
posts return (each post has a timeout), hence weak fairness of `RunStep`,
`Flush` and `BackoffElapses`. The flow need not call back.

`AiOutboxProofs.tla` proves, for any number of events, dispatchers, callback
requests, attempts and crashes: `TypeCorrect`, `RepliesOnce`,
`RetriesAreBounded`, `NoEventIsLost` and `OutcomesOfEventsStay`. The invariant
has two halves for each event. `Dispatching`: as long as no two dispatches
overlapped, the one at work read the present attempt number, and at most one
post is not counted yet for each crash and for the attempt in hand; without the
clause on the attempt in hand the bound is not inductive, because the post
precedes the count. `AnsweringOnce`: a callback past its first write has stored
the payload that turns later ones away, so nobody can be before the send when a
reply is out. `OutcomesOfEventsStay` adds `Kept`: an event is answered only when
its row is SENT and no row of an event with an outcome would still be posted.
`QueueDrains` stays with TLC.

## The campaign model

`Campaign.tla` models campaigns with their accounts and recipients, operators'
requests on them and the ticks of the schedulers.

| Code | Model |
|---|---|
| `ZaloCampaign.status` | `status` (`NONE` once deleted) |
| `ZaloCampaignAccount` rows | `account[c][a]`: daily quota (0 stands for no row), status, messages counted, errors in a row, the day of the quota window, whether the cooldown is over |
| `ZaloCampaignRecipient` rows | `recipient[c][k]`: status, attempts |
| `startCampaign` | `OpRead`, `OpCheck` (`assertNoRunningAccountConflict`), `StartAccounts` and `StartCommit` (its transaction) |
| `resumeCampaign`, `updateCampaign`, `deleteCampaign` | `OpRead`, `OpCheck`, then `ResumeCommit`, `UpdateCommit` or `DeleteCommit`; an update with accounts in its payload (kind `replace`, of a campaign read as DRAFT) replaces the account rows by new ones with other accounts and quotas and counters at 0, one without leaves them; `OpFails` when the row is gone or the transaction fails |
| `pauseCampaign`, `cancelCampaign` | `Pause`, `Cancel`: one write, whatever the status |
| `runSchedulerTick`, `processRunningCampaign` | `TickBegin` copies the rows of a running campaign, `Process` takes it up later, with the day of then, or `LeaveOut` passes over it; for each account `QuotaWindow` (`ensureDailyQuotaWindow`), `PassOver`, `Offline` or `Choose` |
| `claimNextRecipient` | `SkipRecipient`, `Claim`, `NothingToClaim` |
| `processRecipientDelivery` | `Unrenderable`, `Send`, `Record`, `RecordFails`, `RecordError` |
| `syncCampaignTerminalStatus` | `CountPending`, `Decide`, `Finish` |
| a process that stops; a campaign deleted, or its account rows replaced, under its tick | `TickCrashes`; `TickLost`: the next write by an id that is gone throws |
| - | `out`, `unsure`, `today`, `late`, `raced`: what reached customers, what was not recorded, what was counted today or went out since a stop, and where ticks or a start overlapped or a started campaign was made a draft again |

A tick reads all running campaigns at once and works on one after the other. A
scheduler of the model is such a tick as far as one campaign is concerned:
`TickBegin` is the reading, and `Process` comes when the campaigns before it are
done. A process with several running campaigns counts as several schedulers, so
the model has more interleavings than the code. From `Process` on a tick keeps
the rows it read and the day it is; midnight may fall between any two steps. The
message goes out, or not, or goes out and is reported as an error.

| Run | Shows |
|---|---|
| `CampaignTicks` | two processes with their ticks over one campaign, while it is started, paused, cancelled and started again, and a second operator deletes it or replaces its accounts under a start or a tick. `OneMessagePerCustomer`: no customer is written to twice, unless a message was not recorded |
| `CampaignOperators` | two campaigns with lists of one account each, out of two accounts; one operator starts, resumes, edits, replaces accounts and deletes while a tick runs. `TypeOK`; `AccountRunsOnce`: an account is in one running campaign |
| `CampaignProgress` | one campaign with retries, errors, new days and a restart in a tick. `QuotaKept`: the daily quota holds where no second tick and no start ran at the same time; `StopIsSoon`: after a stop each account sends at most one more message per process; `CampaignFinishes`: a running campaign ends, unless a claim is stranded |

Bounds: two recipients and a quota of one message (`OneList`, `OneAccountLists`)
give a full quota with work left in `CampaignProgress`; one error pauses an account (`MaxErrors` 1), so
that both the error pause and the end without an account occur; two attempts in
`CampaignTicks` and `CampaignProgress` give a retry, one attempt elsewhere. In
`CampaignTicks` one of the two can be reached and the other, whom no account can
write to, is skipped (`FirstOnly`); in `CampaignOperators` one campaign has a
recipient and the filter of the other selects nobody (`FirstForOne`), since who
runs with which account does not depend on recipients. New days are in
`CampaignProgress` alone: the claim, which `CampaignTicks` asks about, does not
look at the day. Requests: in `CampaignProgress` operators only start, pause and
cancel (`StartOnly`); in `CampaignTicks` a second one deletes and replaces
(`DraftsApart`); everything together is asked in `CampaignOperators`
(`Everything`), which has one operator since two overlapping starts do break
`AccountRunsOnce`. Two accounts and lists of one of them are enough for that:
lists that share an account, that do not, and that change from one to the other.
The accounts are alike there, and so are the processes in `CampaignTicks`
(symmetry). Other quotas than 1, and drafts that get others, are in the proof of
`QuotaIsKept`.

Fairness: statements, transactions and calls of the messenger return (weak
fairness of each operator's and each tick's steps); every tick looks at every
running campaign again and again, and not always outside its hours or behind one
that ended the tick (strong fairness of `TickBegin` and `Process`); cooldowns and
days pass. Nobody need make a request.

`CampaignProofs.tla` proves, for any number of campaigns, accounts, customers,
account lists, processes and operator requests: `TypeCorrect`;
`CustomersAreWrittenToOnce` (invariant `Once`: what waits was not sent, and a
recipient in progress is in the hands of one tick); `AccountsRunOnce` when
starting, resuming, editing and replacing is done by one operator at a time
(`OneStarts`; invariant `Excl`: the accounts such a request read are still those
of its campaign, and past its check no running campaign is in its way, which
stays so because it alone can start one or change a list); `StopsSoon` for a
finite set of processes (invariant `StopInv`: the messages sent since the stop
and the processes that still owe one are together no more than the processes);
`QuotaIsKept` (invariant `Counted`: what was counted today is no more than the
row shows, the row a tick copied is still the row as long as it is alone, and a
draft has sent nothing and is on no tick, so that its rows may be replaced).
Account lists change only where `Replaces` says so (`ListsKept`); every other
step is treated with the lists fixed. `CampaignFinishes` stays with TLC.

## The audit model

`Audit.tla` models the audit log of one tenant: the hash chain that every write
of the API extends, and the archive that moves old days to an object store.

| Code | Model |
|---|---|
| `AuditLog` rows | `log`: every row ever inserted; `hot`: those still in the table |
| `AuditChainState.lastLogId`, and its row lock | `head`, `holder` |
| `auditWriteMiddleware` and `appendAuditLog` | `writer[w]`: `Write`, `Connect`, `Lock` (`FOR UPDATE`), `ReadHead`, `Insert`, `End`; `AppendFails`, `PoolTimeout` |
| the connection pool | `InUse`, counted from what writers hold: a transaction one, an append another |
| `AuditArchiveManifest` rows, files | `manifest`, `object` |
| `runArchiveAndPrune` | `run[r]`: `StartRun` (`listCandidateWindows`), for each day `FindManifest` and `WriteManifest` or `ManifestExists` (`ensureManifest`), `ReadChunk` (`readWindowRows`), `Noop` or `Upload`, `Complete`, `Prune`, `MarkPruned`; `StepFails` and `WriteFailed`; at the end `DeleteExpired` |
| a process that stops | `RunCrashes` |
| - | `mixed`: days two runs had in hand at once; `hurt`: days in which a run failed |

An entry is appended on a connection of its own, outside the transaction that
caused it: it stays when that transaction rolls back, and a transaction that
waits for it holds a connection meanwhile. Reading in chunks is modelled with
its cursor: nothing follows a row that was deleted in between. An entry is its
place in the chain and its day; hashes stand for the entry they are made from.

`AuditTrail.tla` is the log as an auditor sees it, without requests, locks, runs
and tiers: `Record` appends an entry that is linked to the one before it and
dated that day or the day before, `Forget` loses what is past the retention, and
nothing else changes an entry or whether it can be found, except on days that
two runs had in hand (`Contend`). `Audit` maps to it by `Found`: what is in the
table, or in the file of its day.

The model has an object store: where none is configured (`isEnabled`) a run
passes over every day on its list, nothing is deleted, and `OldEntriesLeave`
does not hold; the other properties hold because nothing happens. Dry runs,
which write nothing, are left out as well.

`AuditTiers` has two writers on two connections, two archive runs and a failure
at any point, over four days of which the first two are written. It checks
`NothingLost` (an entry within the retention is in the table or in the file of
its day), `ArchiveIsShown` (a day that left the table has a completed manifest),
`ImplementsTrail` and, under fairness, `OldEntriesLeave` and `WritersReturn`.
Two connections and two transactions are the smallest case in which everybody
holds what the other needs; two entries with chunks of one, so that a window is
read in pieces; the hot tier and the retention one and two days, so that days
are listed, archived and expired within the run. Fairness: statements return or
time out, and the maintenance timer starts a run every day.

`AuditProofs.tla` proves, for any finite number of writers and any number of
runs, days, entries, connections and failures: `TypeCorrect`, `ChainIsLinear`
(invariant `Chained`: who has read the head holds the lock, and what it read is
still the head), `ArchivingLosesNothing` and `ArchiveIsAlwaysShown`. For these
`Archived` says of a day on which runs did not overlap that it is whole in the
table or whole in the file, and of the run that works on it that it has read a
beginning of the day, then all of it, and prunes only when the file has it all;
`Timely` says that nobody appends to a day that is old enough to be listed,
without which the file could be complete when it is written and not when the
day is pruned. `ImplementsAuditTrail` shows `ImplementsTrail` step by step from
the same invariant: an insertion is a `Record` because `Chained` makes the head
it read the last entry, and `Timely` dates it; a step of a run is a `Forget`
because an entry the trail must keep is kept before and after. The two liveness
properties stay with TLC.

## The billing model

`Billing.tla` models classic orders, the approvals of their edits, their
invoices with payments, and the locks of accounting periods.

| Code | Model |
|---|---|
| `Order` row | `order[o]`: status, total |
| `Approval` rows with target `ORDER_EDIT` | `edit[e]`: status, order, the total asked for |
| `Invoice` row, unique on `orderId` | `invoice[o]`: status (`PAID` does not occur: paying archives), total, paid amount, period |
| `PaymentAllocation` rows | `allocated[o]`: their sum |
| `lockedPeriods` of `finance_controls`; the older setting `finance_period_locks` | `locked`; `legacy` |
| `new Date()`, as a month | `today`, which `MonthTurns` moves; a request keeps the month it began with (`asOf`) |
| `createOrder`, `updateOrder`, `archiveOrder`, `approveOrder` and `rejectOrder`, `handleApprovalDecision` | `CreateOrder`; `UpdateOrder` and `ApplyUpdate`, or `RequestEdit` and `HoldOrder`; `ArchiveOrder`, `ArchiveCommit`; `DecideOrder`, `DecideCommit`; `DecideEdit`, `EditCommit` |
| `assertPeriodUnlockedByDate` before each write of finance, once for each period | `AskLocks`: the list of the domain, or the legacy one while that is empty (`getLockedPeriods`); `AskLegacyLocks`: the domain cannot be read, the error is swallowed and the legacy list asked |
| `createInvoice`, `updateInvoice`, `transitionInvoice`, `archiveInvoice` | `CreateInvoice`, `InsertInvoice`; `AmendInvoice`, `AmendCommit`; `MoveInvoice`, `MoveCommit`; `VoidInvoice`, `CountAllocations`, `VoidCommit` |
| `allocatePayment` | `AllocatePayment`, `SumAllocations`, `InsertAllocation`, `Settle` |
| `lockFinancePeriod`, `updateDomain` | `ClosePeriod`, `WriteLock`, `WriteLegacyLock`; `ChangeSettings`, then `SaveSettings` (another field is changed, the locks are written back as read) or `SetLocks` (the payload, or a snapshot, brings its own list; the legacy setting is not touched) |
| a statement that throws, a restart | `Fail` |
| - | `mixed`: orders on which requests overlapped, were cut off, or a closed invoice was opened; `closed`: periods closed and not opened again; `since` of a request: those that were closed when it began and still bind it; `clash`: two writers of `finance_controls` at once |

An invoice without due date belongs to the month in which it is looked at (`dueAt
?? new Date()`). `updateInvoice` asks for the period the invoice has and, where a
due date is given, for the one it gets; it asks for none when the due date is
cleared (`PeriodsOfMove`).

| Run | Shows |
|---|---|
| `BillingOrders` | two requests on one order and its invoice, every endpoint of the two, one cut off half way. `TypeOK`; `ArchivedOrderIsSettled`: an archived order has no open invoice; `PaidIsAllocated`: a paid amount is the sum of the allocations, or the total paid by hand; `DecreaseIsApproved`: a total falls only by an approved edit |
| `BillingPeriods` | two periods that are closed, opened and set by hand while two requests bill, amend, move, void and pay, the month turns, and the settings cannot be read once. `ClosedPeriodIsFrozen`: a request that began after the closing changes no invoice of the period, moves none into it and books no payment in it; excepted are a cleared due date, a period opened again or missing in the legacy list that was asked instead, and requests or changes of settings that overlapped |

Bounds: one order, since requests of different orders share no row but the
locks, and two requests, since each race is between one read and one write; one
edit and amounts 1 and 2 for totals that rise and fall; two periods, so that an
invoice can move from a closed one into an open one and back and the month can
turn (`BillingOrders`, which is not about periods, has one); due dates in
either, or none (`DueDates`); one request cut off or one reading that fails.
`BillingPeriods` stops at states in which requests or changes of settings have
overlapped (`Undisturbed`): the property says nothing of them, and no step leads
back. There is no liveness property: nothing in these services happens without a
request.

`BillingProofs.tla` proves all of them (`ArchivedOrdersAreSettled`,
`PaidAmountsAreAllocated`, `DecreasesAreApproved`, `ClosedPeriodsAreFrozen`,
with `TypeCorrect`) for any number of orders, edits, periods, requests and
amounts. The invariant is what a request that is alone on its order still knows
of the rows it read (`Knows`), that the periods a request found open are none that
were closed when it began, and past the check all it had to ask for are among
them (`Passed`), and that a closed
period is locked as long as the writers of the locks do not overlap
(`LocksKept`). A reading of the legacy list takes the period it lets pass off
what binds the request. A second invoice of an order is excluded by the unique index and
not assumed.

## Known weaknesses

The properties above hold of the code as it is. These steps are in the models
too; each was met with TLC, and is why a property speaks of requests that do not
overlap or names an exception. Where a document says otherwise, it is named.

Checkout:
- two bank events that overlap both add to the paid amount they read; one credit
  is lost, although `docs/plans/2026-04-09-checkout-test-matrix-v1.md`
  (CKO-CB-03) has the second bring the intent to PAID. `ReadCommittedLedger` is
  what remains, and it is proved;
- a process that stops after the commit of the paying event never bills the
  order: the retry of the bank is a duplicate (ADR-058 triggers on payment);
- a draft update that overlaps the submission changes the terms after they were
  locked (ADR-056), and an activation that overlaps it puts the order back to
  DRAFT;
- a bank event or override after an activation moves the order from ACTIVATING
  or ACTIVE back to PAID or PARTIALLY_PAID; two activations at once both leave
  it ACTIVATING; a draft update can raise a discount above the maximum that
  creation refuses;
- a forced re-evaluation that read the unpaid intent can insert a PENDING
  invoice between the paying request's read and its insert, which then fails on
  the unique order, and the invoice stays PENDING; invoicing through n8n moves
  an unpaid order to PAID and leaves its intent unpaid.

Workflow:
- two decisions on one step both find its gate satisfied and advance the
  workflow twice (ADR-024); a cancellation and an approval overwrite each other;
- a step in mode ALL that is entered again after a rejection is judged with the
  rejected approvals of its first visit and can never be approved; one in mode
  `MIN_N` is approved with the old approvals;
- steps that approve themselves in a circle go on for ever: the depth that is
  meant to stop them is never counted up;
- a first step that approves itself approves the order before `updateOrder`
  marks it PENDING; an approval handed to the requester can only be decided
  after an escalation.

AI jobs:
- two callbacks of one event at once both find no stored payload and both reply
  (ADR-055 promises idempotence by event); a callback that comes before the
  dispatch was committed is answered, and its outcome then overwritten by
  DISPATCHED; a crash after the callback was stored leaves the job at
  CALLBACK_RECEIVED, since the retry of the flow is a duplicate.

Campaigns:
- two starts at once both pass the conflict check and put one account into two
  running campaigns (ADR-049); a start during a tick writes back the count it
  read, and two ticks at once test the quota on the same row;
- a message that went out and was not recorded is sent again; a recipient
  claimed when the process stopped stays IN_PROGRESS for ever, and with it the
  campaign; the terminal status of a tick overwrites a pause or a cancellation;
- an update writes the status it read: made over a start it turns the campaign
  back into a draft and, when it has accounts in its payload, replaces rows that
  a tick is using. The counters begin at 0 on the same day, the tick throws at
  its next write, and what it had claimed stays IN_PROGRESS; a list replaced
  while the campaign starts is not checked for conflicts.

Audit:
- two archive runs on one day reset each other's manifest, and one can replace
  the day's file by the part of the day the other has not pruned yet.

Billing:
- two changes of `finance_controls` at once write each other's locks back, and a
  closed period is open again;
- clearing the due date of an invoice moves it into the current period without
  a look at that period's lock, although
  `docs/specs/PHASE1_FINANCE_EXECUTION_CHECKLIST.md` (line 28) has an update in
  a closed period refused;
- when `finance_controls` cannot be read, the legacy list decides, which lacks a
  period between the two writes of a closing and after the list was set by
  hand; a list set by hand is not written to the legacy setting, although
  ADR-013 (line 39) has both read and written, and a list set to empty leaves
  the legacy one in force;
- an edit that overlaps another one passes a decrease as an increase; two
  allocations at once exceed the total; a payment allocated to an archived or
  rejected invoice opens it again; a request cut off between allocation and
  invoice leaves the two apart.

## What is proved and what is not

All safety properties of the runs, the three refinements among them, are theorems
as well; `PROJECT.json` lists them. The proofs assume what the
`ASSUME` of each module says of its constants and, where a theorem names it,
that requests do not overlap. The pattern is the same in every module: types
with the shapes of local variables first, then an invariant over rows and
requests in flight, preserved action by action, with a frame lemma for the many
actions that do not touch the rows in question; histories enter as the
exceptions under which the invariant says nothing.

Out of the prover's reach, and checked by TLC only: liveness (`RequestsFinish`
of both models, `StaysPaidGetsInvoice`, `OverdueEscalates`, `QueueDrains`,
`CampaignFinishes`, `OldEntriesLeave`, `WritersReturn`) and everything that
needs `ENABLED`, induction over data, and recursive operators, which no module
here uses.

## Not modelled

- **Numbering** (`nextNumberingSequence`, and the same in finance): the counter
  is read and written without a lock, but only the unique index decides, and a
  failed attempt leaves nothing behind.
- **Callback rate limit**: counters of one process that refuse a callback; a
  callback that is not delivered is already a behaviour of the checkout.
- **Workflow definitions and generic patches** (`createInstance`,
  `updateInstance`, `createApproval`, `updateApproval`): editors' tools without
  rules of their own. **Journal entries, accounts, budgets, posting windows**:
  records and checks that only refuse. **Contents** of messages, audit entries,
  jobs and invoices, signatures, permissions, templates, numbers and QR payloads.
- **CRM, HR, e-learning, supply chain, catalog, assets, projects**: record
  keeping, most of whose operations touch one row; the largest part of the
  repository by lines. **Search, custom fields, reports, OCR, uploads,
  conversations and channels**: input and output. **Assistant, identity,
  settings other than `finance_controls`, tenant isolation**: decisions on data
  without state of their own. **Web application**: pages over the API.

The models cover the parts of the API where processes, messages and failures
meet; measured in lines that is a small part of the repository, most of which is
forms, lists and pages.

## Plan

Done, in this order: `Checkout` with `PaymentLedger`, `Workflow`, `AiOutbox`,
`Campaign`, `Audit`, `Billing`, and their proofs. If the project goes on:

1. `Reminders` (`modules/crm`): renewal reminders and lead distribution by
   timers of several processes. Properties: one reminder per contract and
   threshold, every lead distributed once.
2. `Stock` (`modules/scm`): receipts and issues that read and write quantities.
   Property: the quantity is the sum of the movements.
3. `Dispatch` (`modules/notifications`): a timer that sends what waits, with the
   abstract outbox shared with `AiOutbox`.
4. The edit of an order composed with `Workflow`, with two workflows for one
   order, in place of the approvals `Billing` has now.
