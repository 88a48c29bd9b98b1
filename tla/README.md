# AnyStudio in TLA+

AnyStudio turns a customer's photo, song or script request into a *generation*:
a row in Postgres that is paid for when it is requested, worked on by a worker
process that calls outside vendors, and finished with either artifacts or a full
refund. These modules model the part of the API and the worker
(`src/apps/api/src`) where several processes write the same row, where money
moves, and where a vendor is paid. The web application, the mail and
conversation front-ends and the adapters' HTTP are not modelled.

Contents: [the system](#1-the-system), [modules](#2-modules-and-how-they-follow-the-code),
[abstractions](#3-abstractions), [runs](#4-runs-and-bounds),
[fairness](#5-fairness), [proofs](#6-proofs),
[what the code does otherwise than it says](#7-where-code-and-comments-disagree),
[what is missing and the plan](#8-not-modelled-and-the-plan).

## 1. The system

| part | state it keeps | operations | talks to |
| --- | --- | --- | --- |
| Generation service (`modules/generation/generation.service.ts`) | `generations` rows: status, stage, attempts, heartbeatAt, createdAt, credits, parent | request, createChild, start, resume, wait, requeue, heartbeat, succeed, fail, cancel, refundShare, sweepStale, redispatchOrphans | ledger (same transaction), queue (after the commit) |
| Ledger (`modules/ledger`, migration `20260922000004`) | append-only entries under a unique idempotency key, balance under the wallet's row lock | debit, refund, partial refunds | called inside the generation transactions |
| Queue (`modules/queue/queue.service.ts`) | BullMQ jobs, whose id is the generation's id | enqueue (bounded, never throws), clear a finished job | Redis |
| Worker supervisor (`worker/supervisor.ts`) | consumers, timers, direct mode | consume, sweep, dispatch, wake parents; advisory locks so that one process runs each timer | everything below |
| Runner (`worker/runner.ts`) | the row as it was claimed, a heartbeat timer | claim, pipeline, store, succeed, handleFailure, wakeParent | generation service, pipelines |
| Ad and batch pipelines (`worker/pipelines/ad.ts`, `batch.ts`) | a plan on the parent, one child row per shot | plan and dispatch, step aside, assemble or gather | generation service |
| Provider router (`modules/provider/provider.router.ts`) | a circuit breaker per provider and process, `breakerOpenedAt` on the provider's row | route, report, persist, forget | callProvider, askAnyModel, the operators' console |
| Attempt journal (`worker/provider-attempts.ts`) | `provider_attempts` rows: status, external id, cost, submission number | outstanding, begin, submitted, settled, rejectBeforeAcceptance, guardFailure | callWithFallback, adapters |
| Usage billing (`modules/usage-billing/usage-billing.service.ts`) | `billing_accounts`, `invoices`, `wallets.overdraftLimit` | setTerms, closeAccount, reactivate, closePeriodNow, closeDue, settleInvoice, voidInvoice, dun, reactivateIfClear | ledger and wallet lock, generation service (what succeeded, and when) |
| Billing (`modules/billing/billing.service.ts`) | `payments`, `refund_requests`, `payment_adjustments`, `subscriptions` | checkout, settle, refund requests and their cycles, adjustments, renewals, subscription events, cancellation and its outbox, maintenance tick | ledger (same transaction), payment vendors |
| Annual credits (`modules/billing/annual-credit.service.ts`) | ledger entries, one key per month | tick | the payment's lock, ledger |
| Publishing (`modules/publishing/publishing.service.ts`) | `publish_jobs` and social accounts: status, attempts, nextAttemptAt | create, patch, cancel, retry, connect, disconnect, runDue, refreshTokens, refreshMetrics | social networks, an advisory lock |
| Webhooks to customers (`modules/developer`) | `webhook_deliveries` and `webhook_endpoints`: status, attempts, nextAttemptAt, failures, active | onGenerationFinished, deliverDue, attempt, redeliver, updateWebhook | generation hooks (in memory), customers' endpoints |
| Retention, media, catalogue, sessions, support, notifications, WhatsApp, public API, studio | their own tables | record keeping and front-ends | generation service, object storage |

What is hard here:

* **Every road leads to the same row.** A job arrives from the queue, from
  BullMQ's redelivery of a stalled job, from the dispatcher, or, without Redis,
  straight from the database. The sweep and a customer's cancellation write the
  same row. Nothing but the `where` of each update keeps them apart.
* **Three processes move one customer's credits**: the worker (success with a
  downgrade, failure), the sweep (failure) and the API (cancellation). Each must
  move them once, and the row must agree.
* **A parent and its shots** run on different workers; a shot may end while its
  siblings do not exist yet, and it writes its parent's stage.
* **Commit first, enqueue after**: the enqueue may be lost, swallowed by an old
  job of the same id, or land late. The dispatcher repairs what was missed.
* **Workers die or stop**: BullMQ redelivers a job of a worker that is merely
  slow, and the heartbeat of a paused process grows old while it still holds
  what it read when it claimed the row.
* **A vendor's job is bought before anybody knows its name**: between the POST
  and the write of the job id there is nothing to ask about.
* **A circuit breaker is memory** of one process, with one probe at a time.
* **Money is weighed after it has moved**: a charge, a refund or a chargeback is read
  from the provider before the transaction that applies it, so what is applied may be
  old, come twice or in another order, while a worker retries the same refund.
* **The provider's news of a plan comes in any order**: charges and subscription events
  are separate webhooks, each applied beside the others, late or twice, while the
  customer's cancellation is still on its way to the provider.
* **An attempt writes what it read before its call**: a webhook delivery and its
  endpoint are updated by id after up to fifty calls of ten seconds.
* **A post cannot be taken back**: a claimed row is posted outside any transaction, by
  a pass whose lock it may outlive, and the outcome is written by id.
* **A period is planned before it is billed**: the hourly pass, an "Invoice now"
  and the closing of a line each read the last invoice outside the wallet lock and
  write the next one under it, while work completes and payments arrive.

What makes it correct: a customer is out of pocket by exactly what the row says
(`PaidMatchesRow`, `ImplementsCreditHold`); an end is final (`TerminalIsFinal`); a row
has one worker (`OneRunPerRow`, `SweepSparesTheLiving`); everything accepted ends
(`EveryGenerationEnds`); an ad is made from all its shots (`AdIsWhole`); an operation is
bought once (`OneVendorJob`, `NewCallAfterFailure`); a probe is single and its lease is
released (`OneProbe`, `LeaseIsAccountedFor`); work is billed in one period, and periods
follow one another (`InvoiceIsComplete`, `InvoicesInOrder`); a wallet may go below zero
just as far as an active account says (`LineFollowsAccount`), and a workspace that paid
is not left paused (`PaidUpIsReopened`); the credits a purchase left behind are those
its money paid for (`RowsMatchMoney`, `CreditsMatchMoneyMostly`), a charge is returned once
(`OneLiveRefund`), what was set aside for a refund does not stay aside
(`ReservationEnds`) and nothing is granted for what is on its way back
(`ReturnedIsNotGranted`); a plan follows its provider whatever order the news comes in
(`FollowsProvider`, `OnlyForward`), and a cancellation stays and reaches the provider
(`AskedStays`, `ClearedWasTold`, `CatchesUp`); a post goes out once (`TakenIsOnTheRow`)
and not at all after it was cancelled or the account disconnected; a webhook is tried as
often as promised and not sent again once delivered (`AbandonedWasTried`,
`SentStaysSent`). `PROJECT.json` lists the hazards line by line.

## 2. Modules and how they follow the code

```
GenerationRows        one operator per conditional update or money transaction
  GenerationQueue     enqueue, and the job states BullMQ keeps for an id
    GenerationWorker  GenerationRunner.run, step by step; crash and pause
      GenerationScheduler   API, sweepStale, dispatcher, time, Redis
        GenerationSystem    Next, fairness, properties  --implements-->  CreditHold
          MCGeneration            instances for TLC
          GenerationSystemProofs  theorems for TLAPS
ProviderCalls         callWithFallback and the attempt journal      MCProviderCalls
  ProviderCallsProofs theorems for TLAPS
ProviderRouter        breakers, probe leases, reports, the rows     MCProviderRouter
  ProviderRouterProofs theorems for TLAPS
CreditLine            account, overdraft, invoices, dunning         MCCreditLine
  CreditLineProofs    theorems for TLAPS
Payments              one purchase, its refunds and chargebacks     MCPayments
  PaymentsProofs      theorems for TLAPS
Subscriptions         a plan, its renewals and its end, with Paddle
  SubscriptionsProofs theorems for TLAPS
Publishing            posts to a social account
  PublishingProofs    theorems for TLAPS
Deliveries            webhooks to a customer's endpoint
  DeliveriesProofs    theorems for TLAPS
```

**GenerationRows.** `rows` is the table and `ledger` the wallet entries that name
a row, by idempotency key (`debit`, `refund`, `share`, `downgrade`): `Post`
under a used key posts nothing. `CanStart`/`StartRow`, `CanResume`/`ResumeRow`,
`CanRequeue`/`RequeueRow`, `CanRetryAssembly`/`RetryAssemblyRow`, `WaitRow`,
`Beat` and `Staged` are the `where` and the `data` of one `updateMany` each;
`CreateRow`, `SucceedRow`, `FailRow`, `CancelRow` and `ShareRow` are one
transaction each. Nothing in it decides when a statement runs.

**GenerationQueue.** `jobs[q][g]` is `none`, `ready`, `active` or `finished`; the
last is the tombstone that swallows an `add` of the same id. `Enqueue` clears it
only if the job is over and Redis answers. An ad has a second queue, on which it
is assembled (`parentResumeCapability`).

**GenerationWorker.** `worker[w]` is a slot of a worker process with the snapshot
`run()` works from: `attempt` and `composing` are what `handleFailure` decides
on, not the row. The steps are the awaits of `run()`: claim (`Start`, then
`Resume`), `Prepare`, `Enter`, then for a parent `DispatchShot` one child at a
time, `Wait`, `StageWait`, or `AssembleAd`/`GatherBatch`/`RefundShare`; for the
rest `Produce`; then `Store`, `Succeed`; `Retry`, `EnqueueRetry`, `Fail` are
`handleFailure`; `Finally`, `WakeStage`, `Wake`, `Return` are the `finally`
block with `wakeParent`. `Report` is the unawaited `reportShots`. `Crash` loses
the slot; `Pause` stops the process, its timers and its BullMQ lock, and
`Unpause` lets the zombie go on with its old snapshot.

**GenerationScheduler.** `SweepSelect` is the query of `sweepStale`, and
`SweepRequeue`, `SweepReassemble`, `SweepFail`, `SweepSkip` what becomes of each
selected row under `staleGuard`; `RedispatchOrphan` and `WakeReadyParent` are the
dispatcher; `Request` and `Cancel` the API; `Lapse` and `Age` the clock.

**GenerationSystem** composes them and states the properties. **CreditHold** is
what the service promises and nothing else: a price is held, then captured in
full or in part, or released in full.

**ProviderCalls.** `journal[k]` is the provider's submissions in order, each with the
row's status, whether the vendor's job id is known, and `job`, what is true at the
vendor and no code reads. `run[w]` walks `outstanding`, the candidates, `begin`, the
create, the POST, `onSubmitted`, the wait, `settled` and `guardFailure`. A direct vendor
answers its POST with the result.

**ProviderRouter.** `health[p][k]` is a process's memory of a provider (window,
`openedAt`, `probing`), `breaker[k]` the row's `breakerOpenedAt`, `writes` the
updates of `persist()` that are under way. `Ask` is `route()`, `Steer` a second
`route()` that replaces the first answer, `Try`, `Reports` and `Leave` the
caller. `probes` and `abandoned` are history: whose lease it is, and which leases
ended with a request that never reported.

**CreditLine** is one workspace that is billed for what it uses. `account` is its
`billing_accounts` row, `overdraft` the limit on its wallet, `gens` the generations
it requests (`Debit`, `Succeed`, `Fail`), `entries` the wallet's ledger under
idempotency keys, `invoices` the invoices by `periodStart`, which is unique per
account. Every transaction that takes the wallet lock (`lockCreditLine`,
`ledger_apply`) is one action. What the code does outside that lock takes steps:
`issuers[p]` is the hourly pass, an "Invoice now" or the closing request between
reading the account and the clock (`Begin`, `CloseAccount`), reading the last
invoice (`Plan`, which is `openPeriodStart` and the caller's choice of the end) and
writing the next (`Issue`); `followUps[i]` is what remains to be done after a
payment or a void has committed (`FollowUpLooks`, `ReactivateIfClear`); `pausing`
says that dunning holds the lock with the overdue invoices it read in hand.
`SetTerms`, `Reactivate`, `SettleInvoice`, `VoidInvoice` and `MarkOverdue` are the
handlers of those names. `overtaken` is history: the line was reopened while its
last opening was still being invoiced.

**Payments** is one purchase, from its checkout to its last refund. `payment`,
`request` and `adjustments` are the rows, `entries` the wallet's ledger under
idempotency keys, `provider` the truth at the provider. Every transaction first locks
the payment, so each is one action (`Settle`, `ApproveRefund`, `ApplyPending`,
`ReleaseRefundReservation`, `ApplyConfirmedAdjustment`, `GrantMonth`); what lies
outside the lock takes steps. `hands[w]` is a process between reading and writing: the
checkout request (`PageMade` to `PersistCheckoutSession`), the maintenance tick
(`CheckBegins`, `CheckEnds`, `Claim`, `Submit`, `Exhaust`, `VerifyRefund`), a charge
webhook or return page (`AskCharge`), the member of staff who approves, and the refund
webhooks (`HookBegins`). A request has cycles: each decision opens one, reserves under
its own key, and a refund binds to the cycle that asked for it
(`RefundCycleBinding`). The provider call of `Submit` is the one made under the locks.

**Publishing** is one account and its posts. `job[p]` is the row; `run[w]` walks
`runDue()`: `Sweep` of what was abandoned, `Select`, `Claim`, then `attempt()` from
`Read` to `Record` or `Fail` and `Mark`. `create`, `patch` and `retry` read and write
in two steps (`asked`), `Cancel` and `Disconnect` are conditional updates. `lock` is
the advisory lock, which lapses under a long pass (`Lapse`). `known`, `raced`,
`abandoned` and `consent` are history.

**Subscriptions** is one plan. `prov` and `txn` are the provider's subscription and the
transaction that bills each period; every change at the provider has a time (`clock`) and
sends an event (`news`), and both kinds of webhook are read in any order and again and
again, because nothing is ever taken out of them. `pay[n]` is the payment row of a period,
`sub` the `subscriptions` row. A charge goes through three steps, as in the code:
`Receives` finds or makes the row and asks the provider (`act`, `renewalPayment`,
`verify`), `Looks` has the payment's lock and reads the plan without its lock, `Settles`
is the rest of the transaction, with the plan locked: a declined renewal
(`renewalFailureAuthority`), an automatic refund that ends the plan, the rollback of a
renewal whose plan was cancelled in between, or `upsertSubscription`. `ActSubscription`
is the transaction of a subscription event. `Ask` saves a cancellation with its command,
`caller["api"]` carries it out in the request and `caller["pass"]` in
`reconcileProviderCancellations` (`PassReads`, `PassClaims`, `Calls`, `Clears`,
`CallFails`), each with the row as it was read. `Returned` is the end of a full refund,
whose course is the subject of Payments. `stop` is history: money of the current period
went back.

**Deliveries** is one endpoint of one organization. `event[e]` says where the news of a
finished generation is: the listener runs in memory after the commit and may die before it
writes `row[e]`, its `webhook_deliveries` row (`Enqueue`, `ListenerDies`). `Select` takes the
due rows together with the endpoint as it is, `Next1` takes one of them in hand; the portal's
`Redeliver` and `DeliverOne` do the same at once beside the pass. An attempt is `Answers`,
`WriteRow` and `WriteEndpoint`, two statements by id from what `hand[h]` holds. `tries` and
`beside` are history.

## 3. Abstractions

*Time.* Clocks are reduced to the comparisons the code makes. `hb` says whether
`heartbeatAt` is null, younger than `STALE_AFTER_MS` (15 minutes) or older; `old`
whether `createdAt` is more than `QUEUED_STALE_AFTER_MS` (90 minutes) ago, and
only a QUEUED row is asked. A breaker's time is `null`, within `COOLDOWN_MS` or
past it; the row's and the memory's cool independently, since they are two
readings of two clocks. The samples of the sliding window leave it when the clock
says, at a report.

*Merged steps.* A conditional update and the `findUnique` that follows it are one
step, as are the scheduler's claim and its enqueue, and createChild's upsert and
its enqueue: between the two nothing else reads what the second one writes. The
crash between them is `LoseJob`, which takes a job that was added and has not been
taken, and that is the same state. The merge of `purgeRetiredWork` after a commit
is a step that changes nothing modelled.

*Order.* Shots are created in any order, not in the order of the plan. Vendors are
tried in any order: `route()` sorts, and neither the journal nor the lease depends
on how.

*Locks.* The advisory lock of the scheduler makes passes of one timer exclusive;
the model has one pass at a time, shorter than `STALE_AFTER_MS`, so the
`heartbeatAt` token a pass selected a row with still matches exactly if the row is
still quiet.

*Faults.* `crash` (a worker or a sweep dies), `pause` (a process stops past its
lock, which is assumed to lapse at once), `outage` (Redis), `loss` (a job) and
`rollback` (a transaction). A database error in the `finally` block or in
`wakeParent` is not modelled; a crash at the same step is.

*Data.* "working" stands for the stages preparing, routing, generating and
storing, which no guard reads. Text, plans, captions, media and metadata are left
out. What a pipeline fails with is a choice between the kinds the runner tells
apart: worth another attempt or not.

*The journal.* Providers whose key begins with `local:` or `stub:` are not
journaled and not modelled. `callExternal` takes the same path as
`callWithFallback`. The router's answer is any set of providers; an outstanding
job whose provider is no longer offered ends with SUBMISSION_UNKNOWN. Not
modelled: a cancellation during a call, and an `onSubmitted` that completes in the
background after the shared deadline has passed.

*The router.* The development stub is left out. `Leave` covers everything after
which a request calls no more vendors and reports nothing: `askAnyModel`, which
never reports, an accepted job elsewhere, a spent budget. An update that had not
arrived when its process died is lost; one that had arrived is a `Persist` before
it. A late report of an older call releases the lease of another request's probe:
`OneProbe` is about leases, not about requests on the wire.

*The credit line.* A generation costs one credit and runs as soon as it is
requested; what happens to it in between is the subject of GenerationSystem. A
request reads its clock and its account in one step: no other await lies between
them. A month is `Month` ticks, counted from zero; a tick is also the
resolution of "due" and of the grace. The amount is the usage at `Rate`, or the
minimum. Left out: the reservation of an invoice by a checkout
(`Invoice.paymentId`), what a gateway takes back or disputes after an invoice was
paid, so that an invoice is never DISPUTED or REFUNDED, the warning at 80 % of the
limit, numbering, currency, mail. A crash takes the requests and follow-ups of
the API, or the pass and the dunning of the worker.

*Payments.* A row and a wallet; the other purchases of the workspace are in
`Spends`. A provider gives its refunds ids in a fixed order. `Slow = FALSE`: a bank
does not dispute a charge that a verification read as pending is still about to
settle. `Nameless` lets the provider accept a refund and not name it. A request is due
again only after a submission has timed out (`REFUND_RECHECK_MS` against the HTTP
timeout). One hand, `tick`, is the maintenance pass, which the worker runs under an
advisory lock. Left out: invoices and renewals paid through a checkout, Paddle's
adjustments (`markAdjustmentForReview`), adjustments recorded by older releases, and
the branch of `settle` for a provider reference that another payment owns. `past` of an
adjustment is history: no guard reads it, and only properties do.

*Subscriptions.* A period is a number, and the calendar (`month`) only says which have
begun: the code compares period ends, and they rise with the period. Every fact of the
provider has its own time, so that two are never equal. Webhook receipts (`handleWebhook`,
`processWebhookReceipt`) are not modelled: a webhook that could not be applied is applied
later, which assumes that none uses up its 20 attempts. The provider decides a charge
with the state it has when `act` asks; the credits a charge grants, and the refund that
`QueueRefund` sets off, belong to Payments. Paused plans, a second plan of the workspace,
upgrades and Flutterwave's plan references are left out. A command for a subscription the
provider has ended is refused.

*Deliveries.* `due` is `nextAttemptAt` in the past; back-off is the step `ComesDue`. An
answer is accepted or not. The cut of a pass at fifty rows, addresses, signatures, and the
portal's create, delete and test are left out; `DeliverOne` calls whether or not the
endpoint is active, as the code does.

*Publishing.* One account; of it only the status, since that decides whether anything
goes out. `late` is `nextAttemptAt` in the past, or `updatedAt` older than
`STUCK_AFTER_MS`. The cut of a pass at five rows is left out: a row waits for the next
pass. `Slow = FALSE`: no attempt outlasts 20 minutes (what happens otherwise is in
section 7). `Die` is a process that dies and also a database error that ends the
pass. `MaxRequests` counts the customers' retries and moves together.

## 4. Runs and bounds

| run | instance | distinct states | question |
| --- | --- | --- | --- |
| `standalone` | one paid row, two workers, `MaxAttempts` 3, three faults of any kind, direct mode | 666 thousand | who works on a row, what it costs, that its end is final, and that the service implements `CreditHold` |
| `ad` | an ad of two shots, two workers, two attempts, one crash, pause or lost job | 4.2 million | an ad that succeeded was made from every shot |
| `batch` | a batch of two photos, one worker, three attempts, one crash, lost job or rolled-back transaction, fairness | 573 thousand | a replayed gathering returns the failed share once; everything accepted ends |
| `calls` | two vendors, one of them direct, two workers, three runs of which one may overlap, two crashes or failed writes | 754 thousand | one paid operation is bought once |
| `router` | two requests of one process, two vendors, a breaker that trips on half of two samples | 156 thousand | a lease is released whatever the outcome, and is single |
| `credit_line` | two generations, two sets of terms, the hourly pass, the closing request and one "Invoice now" of which two are at work at once, a month of two ticks, one crash | 2.3 million | a period is billed whole, once and in order; the wallet follows the account; who paid is reopened |
| `payments` | one pack or plan, two of our refunds and one chargeback, one refund webhook, two cycles, two attempts, two revisions, one reversal, three hands at once | 773 thousand | credits follow the money, one refund of a charge, nothing left aside |
| `payments_end` | one pack, one refund that the provider may not name, fairness | 20 thousand | an uncertain checkout ends, a refund under way ends |
| `subscriptions` | two periods, one charge looked into at a time, one call to the provider that fails or whose answer is lost, an end scheduled there, full refunds, fairness | 425 thousand | the row follows the provider, a cancellation stays and arrives, every charge is settled |
| `publishing` | one post, two workers, two attempts, one death, two requests, fairness | 522 thousand | a post goes out once, not after it was withdrawn, and ends |
| `deliveries` | two events, two attempts, an endpoint paused after one failure, one replay, one switch by the customer, one death, fairness | 2.6 million | nothing is abandoned early or sent again, everything wanted ends |
| `claim_over_return` | the instance of `payments` | up to the first violation | section 7 |

Why the bounds suffice. Every guard of a row reads that row and, for a parent, its
shots, so a second unrelated generation adds nothing but interleavings of
independent steps. Two workers are what a race needs: a zombie and its successor,
or two shots that end together. `MaxAttempts` is 3 in the code; 2 already has a
first attempt, a retry and an exhausted counter, and 3 is used where a fault may
consume one of them. Three faults are a worker that is paused, the one that took
its place dying, and a lost job. Two shots are the least for which one can end
before the other exists. `batch` has no pause, since its liveness would then wait for a
zombie, and `ad` no rolled-back transaction; `standalone` has both. "age" is a fault kind
too: a queued row may be older than 90 minutes at any time, which would let the sweep end
every `ad` and `batch` early. The price is 4 and the premium 1, so that a full refund,
a downgrade and a half share are different amounts. In `calls`, a third run is the
one that follows a retry after an ambiguous failure, and an overlap is a worker that
was given up for dead. In `router` a window of two samples trips and does not trip;
`MIN_SAMPLES` is 5 in the code, and only more of the same are counted. In
`credit_line`, two ticks are a month with a moment inside it at which a line can be
opened, closed and opened again; two agreements are an opening and a change or a
reopening; the limits 1 and 2 let one generation or both run into debt; the second set
of terms has a minimum above the usage, so an invoice without credits exists. With
`Prepaid` 0 every debit is a debt; the grace of zero ticks only brings dunning sooner.
In `payments`, an amount of 2 can be returned in part, and 3 credits do not divide by
it, so that the share is rounded; two cycles are a refund and the one after it; two
revisions let an adjustment move credits and be reversed; a third hand is what it takes
for a verification to be stale when a chargeback and a retry meet. In `publishing` two
attempts are a failure that is retried and one that is not; the rows of two posts share
nothing but the account and the pass, and PublishingProofs has any number. In
`subscriptions`, two periods are the first charge and a renewal, in either order; the
safety part was also checked once with three periods (8.6 million states) and with two
charges looked into at once (3 million), which are too large for a run. In `deliveries`,
two events share the endpoint and one batch, and one failure pauses it
(`WEBHOOK_PAUSE_AFTER` is 20), so that a pause, a pass and a replay meet.

Symmetry is used over workers, over the shots of one root and over the requests and
vendors of the router instance, and in no run with a liveness property. Deadlock
is not checked where the system legitimately stops: a generation ends and, with
the request made once per id, so does the behaviour. The router never stops.

Invariants qualified by `pauses = 0` or `overlaps = 0` say what the code can
promise: a process that stops past its lock and wakes up is not fenced by any
token, and may finish a row that was given to somebody else. What still holds with
zombies is unqualified: the money, the final end, and a new submission only after
a definite failure.

## 5. Fairness

`FairSpec` assumes, and no more: a worker that is running takes its next step
(awaits return: every vendor call, transfer and queue operation has a deadline); a
paused process comes back; a job that stays on its queue, or comes back to it
again and again, is eventually taken (strong fairness: the queue is
first-in-first-out and a worker that is busy with another row in between does not
lose it); the dispatcher's and the sweeper's timers go off while the worker
process lives (a `setInterval` each, on every worker); 15 quiet minutes pass.
Nothing is assumed of customers, of Redis, of a row growing 90 minutes old or of
unawaited reports. `EveryGenerationEnds` is "in the end, and for good", since a parent may
create another shot. `CreditLine` and the two provider modules state safety only and
assume no fairness at all.

`Payments`: a call that is under way returns (every gateway call has a timeout), so the
steps of the checkout, of an applied verification and of a submission are weakly fair.
The maintenance timer keeps firing and its worker does not die at the same step of the
pass for ever: `CheckBegins`, `CheckEnds`, `Claim`, `Exhaust` and the tick's
`SettleCharge` are strongly fair, because the pass is also busy with other work and
may die in between. `Publishing`: some worker begins a pass when none holds the lock,
a pass goes on, `nextAttemptAt` and `STUCK_AFTER_MS` pass. The provider, the customer
and the staff owe nothing in either. `Subscriptions`: a webhook that was received is tried
until it is dealt with (the maintenance pass retries receipts, strongly fair because a
charge may be found settling by somebody else in between), a transaction ends, the pass
and its back-off go on, time passes; the provider owes nothing, not even the renewal.
`Deliveries`: a listener and a call end, the timer that delivers fires (`supervisor.ts:225`,
every ten seconds), back-off passes. A crashed worker is restarted by its platform, hence a slot is
idle again after `Crash`.

## 6. Proofs

`GenerationSystemProofs` proves, for every set of generations, kinds, prices,
workers, every `MaxAttempts`, `MaxFaults` and set of fault kinds that satisfy the
named assumptions (`GenAssumption`, `PriceAssumption`, `WorkerAssumption`,
`BatchAssumption`):

| theorem | says |
| --- | --- |
| `Invariance` | `IInv` is an inductive invariant |
| `TypeCorrect` | `TypeOK` always holds |
| `MoneyCorrect` | `PaidMatchesRow` always holds |
| `EndsAreFinal` | `TerminalIsFinal` |
| `OneRunAtATime` | `OneRunPerRow` always holds |
| `AdsAreWhole` | `AdIsWhole` always holds |
| `SharesReturnedOnce` | `ShareComesBackOnce` always holds |
| `LivingAreSpared` | `SweepSparesTheLiving` |
| `Refinement` | without batches, `Spec` implements `CreditHold` |

The argument has two halves. The system has some thirty actions, but the table is
written in six ways only, `RowStep`: a statement *keeps* status class, credits and
entries (claims, hand-backs, heartbeats, stages), *creates* a row, *succeeds*,
*fails*, *cancels* it, or hands back a *share*. One lemma per action shows that it
is one of these (`ClaimSteps`, `WorkSteps`, `BatchSteps`, `EndSteps`,
`FinallySteps`, `ApiSteps`, `SchedulerSteps`, `EnvironmentSteps`, put together in
`SystemStep`), and one lemma per property shows that the six preserve it
(`RowStepTypes`, `RowStepMoney`, `RowStepTerminal`, `RowStepIsHoldStep`). An action
added to the system needs the first half only.

`IInv` is `TableOK /\ MoneyInv /\ ControlOK`. `PaidMatchesRow` is not inductive: it
says nothing of *which* entries add up, and a refund posted under a key that is
already used would post nothing. `MoneyInv` says, row by row, which keys a row in
each status has used and that an active row still has its full price. `ControlOK`
gives what the steps rely on: a run at work has a generation, a share is only
computed for a batch, a child's parent is a generation.

Who works on a row depends on where the runs are, which `RowStep` does not say. Two more
facts of every step do (`SystemMoves`, again from one lemma per group of actions): at most
one run moves, it comes to own a row only by the claim of `start()` and to have an ad to
store only with all its shots rendered (`RunsMove`); and a RUNNING row that was heard from
stays so unless its own run lets it go or nobody works on it (`RowsSpared`). Three small
invariants follow. `OneOwner`: until a process is paused, whoever works on a standalone row
or a shot keeps it RUNNING and fresh, so that no claim, sweep or cancellation finds it, and
is alone. It is what `OneRunPerRow` lacks to be inductive: of two runs nothing says that the
row is not still there to be claimed. `AdInv`: a run that stores an ad found its shots
rendered, and what is rendered stays so. `ShareInv`: what a batch's run is about to hand
back is at most the share of all photos but one (`ShareBound`, with the arithmetic of the
rounded share in `DivMonotone`). The last needs `BatchAssumption`, that a batch has photos
at all: the schema of a batch asks for two (`capabilities.ts:457`).

`Refinement` assumes that no row is a batch, because a batch returns a share while
it is still held (and may return more than it took, section 7); CreditHold has no
step for that.

`CreditLineProofs` proves, for any generations, staff, terms, prices, month and
bounds (`CreditLineAssumption`):

| theorem | says |
| --- | --- |
| `Invariance` | its `IInv` is inductive |
| `TypeCorrect` | `CreditLineTypeOK` always holds |
| `LineCorrect` | `LineFollowsAccount` always holds |
| `BillingComplete` | `InvoiceIsComplete` always holds |
| `CreditsComeBackOnce` | `CreditsReturnedOnce` always holds |
| `PaidUpReopens` | `PaidUpIsReopened` always holds |
| `OrderCorrect` | `InvoicesInOrder` |
| `NeverStalls` | `BillingNeverStalls` always holds |

What `InvoiceIsComplete` lacks to be inductive is `PastOnly`: no invoice, and no
period a request has planned, reaches past the present. A success is stamped with the
present under the wallet lock, hence at or after the end of every invoice, and a
period does not contain its end. The proof has a lemma per group of steps that write
the same part of the state, and nothing in it depends on how a period is chosen, so
it also covers the overlapping periods of section 7.

The other three say how requests meet. `ReturnsOK` counts an invoice's returns: one entry
of all its credits if it was paid or voided, none otherwise, which needs of the ledger only
that a key is posted once; a sum over one entry is what the entry says (`FoldOfOne`).
`PauseHasCause` follows what dunning and the payments have read: a suspension about to be
written still has its cause, because the cause is read under the wallet's lock, and whoever
removes the last cause has a follow-up to run. It holds while no process dies and every
invoice has credits, which `PaidUpIsReopened` says. `InOrder` is the longest: a request
plans from the last end it read, and another may have issued since; what is true is that
its plan, if it reaches further than all invoices, still starts where they end
(`PlannedAt`), unless the line was reopened over it. `BillingNeverStalls` needs no more than
that every invoice ends after it starts, and that a set of ends has a greatest
(`GreatestNatural`, by a least counterexample, since the library's induction is out of
reach).

`PublishingProofs` proves, for any posts, processes, tries, deaths and requests
(`PublishingAssumption`, `NoOneAssumption`) and under `~Slow`:

| theorem | says |
| --- | --- |
| `Invariance` | its `IInv` is inductive |
| `PublishingTypeCorrect` | `PublishingTypeOK` always holds |
| `TakenCorrect` | `TakenIsOnTheRow` always holds |
| `WithdrawnCorrect` | `NothingGoesOutWithdrawn` always holds |
| `CancelledCorrect` | `CancelledStaysCancelled` |
| `TriesCorrect` | `TriesAreCounted` always holds |

`TakenIsOnTheRow` says nothing of the attempts that are still to come, so it is not
inductive. `OneGo` counts a post's *goes*: the times the platform has it, the processes
that may still send it, and the one go that a waiting row offers; together they are at
most one more than the "try again" writes that hit a row which had moved on. A claim
turns the row's go into a process's, a take turns that into a known post, a death or a
lost answer gives nothing back to the row. The row gets its go back from the sweep
alone, and `LateIsLoose` says why that is safe: a row that grew old is in nobody's
hands. The lemmas `OneElementMoves` and `OneProcessMoves` count (a step moves one
process in or out of a set), `RowsMove`, `HandsMove`, `QuietStep` and `HeldRowMoves`
reduce the twenty-odd actions to four shapes. `~Slow` is needed: section 7.

`TriesAreCounted` looks at the row's counter, and a pass puts the row back by what it read
before. `Tries` adds what is still to come (`Counted`): the passes that read the row while
it had tries left and would put it back (`Eager`), and the row itself while it waits. When
the row has used up its tries, all of these together are paid for by an abandoned claim or a
"try again" written over it. The last claim is the delicate step: it takes the row's wait
away and must find no other eager pass, which is what `OneGo` says.

`SubscriptionsProofs` proves, for any number of periods, of charges looked into at once and
of failing calls, with and without the provider's portal and refunds
(`SubscriptionsAssumption`):

| theorem | says |
| --- | --- |
| `Invariance` | its `IInv` is inductive |
| `SubscriptionsTypeCorrect` | `SubscriptionsTypeOK` always holds |
| `AskedStaysCorrect` | `AskedStays` always holds |
| `ClearedCorrect` | `ClearedWasTold` always holds |
| `ForwardCorrect` | `OnlyForward` |
| `FollowsCorrect` | `FollowsProvider` always holds |

Why a cancelled plan never comes back takes the most. If the end was asked for here, the
flag `asked` holds every later event off. If it was scheduled at the provider, nothing on the
row does, and the argument is `Unasked`: what the provider tells after it has scheduled the
end is the end itself, so an event that is newer than what the row knows cannot say that the
plan lives. `CallsOK` is what `ClearedWasTold` lacks: a caller about to clear the command
carries the row as it was read, and the provider has at least *that* command; `Clears`
compares before it clears. `Begun` and `HandsOK` say that a renewal is only looked into when
there is a plan. Most steps either leave the row's end of plan alone (`KeepsEnd`) or end the
plan at once (`EndsNow`); `PlanMoves` does both for all of them, and `Following` is the one
step that does neither.

`FollowsProvider` speaks of a quiet moment and is proved of every moment (`FInv`): an event
carries what the provider was at its time, and the one that has the provider's own clock
carries what it is now (`Told`); periods are billed one after the other and a period that
was paid stays paid (`Billed`); a row that has heard the provider's last word says the same,
or has its own word (`Matches`). When all was dealt with, nothing newer than the row is left.

`ProviderCallsProofs` proves, for any workers, providers, direct or not,
runs, overlaps and faults (`CallsAssumption`):

| theorem | says |
| --- | --- |
| `Invariance` | `CallsInv` is inductive |
| `CallsTypeCorrect` | `CallsTypeOK` always holds |
| `NewCallCorrect` | `NewCallAfterFailure` always holds |
| `OneVendorCorrect` | `OneVendorJob` always holds |

`CallsInv` relates the journal to who works with it, and holds beside any number of other runs:
every submission but a provider's last has failed, and what has failed has no job (`JournalOK`);
a run between its create and its POST holds a row nobody has touched, and a run whose error
carries the proof of a refusal holds one without a job, or one whose job id is known (`Sound`);
two runs hold the same attempt only when its id is known (`Exclusive`), because the second can
only have resumed it. Without `Exclusive` another run could change the row between a POST and its
guard. `OneInv` adds what is true while runs follow each other: whoever is at work is alone
(`Solo`), there is at most one live job (`OneLive`), and `Faithful` says at each step what the
run knows of it: after `outstanding` its provider is the only candidate, after the POST it is the
attempt in hand, and where a new row is made there is none. `Room` (a run submits once to a
provider) keeps every submission within the numbers `outstanding` looks at. With overlapping
runs the property does not hold, and does not claim to.

`ProviderRouterProofs` proves, for any processes, providers, requests and window
(`RouterAssumption`):

| theorem | says |
| --- | --- |
| `Invariance` | its `IInv` is inductive |
| `RouterTypeCorrect` | `RouterTypes` always holds |
| `LeaseCorrect` | `LeaseIsAccountedFor` always holds |
| `ProbeCorrect` | `OneProbe` always holds |

A lease is followed: as long as a process remembers a probe, its lease is with a request or was
given up (`LeaseIsSomewhere`), and it is in one of these places only (`OnePlace`). A second probe
would need a second lease, and a report finds exactly the one it releases.

`DeliveriesProofs` proves, for any events, attempts, pauses, replays and deaths:

| theorem | says |
| --- | --- |
| `Invariance` | its `IInv` is inductive |
| `DeliveriesTypeCorrect` | `DeliveriesTypeOK` always holds |
| `AbandonedCorrect` | `AbandonedWasTried` always holds |
| `SentCorrect` | `SentStaysSent` |

The heart is `Alone(e)`, for an event whose row was never read twice at a time (`beside`): whoever
has the row knows it as it is, since the pass selects it once (`Selections`) and the portal has it
only when the pass has not, and every attempt that is counted was a call.

`PaymentsProofs` proves, for any amounts, credits, refunds, chargebacks, webhooks, debits and
bounds (`PaymentsAssumption`) and under `~Slow`:

| theorem | says |
| --- | --- |
| `Invariance` | its `IInv` is inductive |
| `PaymentsTypeCorrect` | `PaymentsTypeOK` always holds |
| `StatusCorrect` | `StatusMatchesMoney` always holds |
| `ReturnedCorrect` | `ReturnedIsNotGranted` |
| `ReservationsEnd` | `ReservationEnds` always holds |
| `OneRefundAlive` | `OneLiveRefund` always holds |
| `RowsCorrect` | `RowsMatchMoney` always holds |
| `CyclesAreOwn` | no two refunds are ever bound to one cycle of the request |
| `CreditsCorrect` | `CreditsMatchMoneyMostly` always holds |

`StatusMatchesMoney` follows from `Money`, which says of every status what the net of the
adjustments is, and that is not inductive for three reasons. A settlement writes SUCCEEDED or
FAILED and looks at no adjustment: it is right only if there is none, so `Fulfilment` says what
a row that was never granted may be and own, and `UnsettledIsUntouched` that whoever still finds
the row open under its lock finds it so. A settlement that waited while the return of the charge
was queued meets a row that was left open for early partial returns (`isRecoverableEarlyAdjustment`);
`Late` says that there is none while it waits, which needs that our own refunds are of the whole
charge (`Sources`, and `OursAreWhole` with the multiples of the charge in `Whole`), and `~Slow` for
the chargebacks: with `Slow` it is false (section 7). A failed refund of a request that was given up
puts the row back to SUCCEEDED, which it may only if it was granted. `Rows` and `HandsOK` relate what
the rows and the processes say of a refund to what the provider said, now or before: an answer that
is late is still one the provider gave, and a final state stays. `Kept` is what the contained
reversal needs: who may ask for what, and that a plan's credits are only reserved after a reversal.

The money is a sum over the rows, and the library's induction over finite sets is out of reach of
the provers; `LeastSubset` (among the subsets that break a claim one has no smaller inside it)
replaces it, and `TotalPick`, `NetStays` and `NetMoves` say what a sum does when one row changes.
Each action has a lemma that it preserves `IInv`; `ProviderMoves`, `HandMovesBeside`, `RequestMoves`,
`RecordMoves` and `ConfirmedMoves` reduce them to what they write.

`ReservationsEnd` needs from a step only that a row keeps the cycle it is bound to and what was
confirmed of it (`RowsGrow`), so that no step but the two that reserve can make a reservation
outstanding (`OutstandingShrinks`): a confirmed answer ends that of its own cycle
(`ActsForItsCycle`), a failed one gives it back, and a contained reversal outside a cycle finds none,
or is the second (`ContainedAlone`). `ReturnedCorrect` says that whoever grants is a settlement that
found the row untouched.

`OneRefundAlive` has an invariant of its own over `IInv`: `Singly`, or a chargeback was reversed
(`Exempt`, which stays). `OnePerCycle` says that a cycle of the request asks for one refund, and
that the refunds of the cycles before it are `Dead`: they failed, or their reversal is recorded. So
two live ones would both be of this cycle. It is not inductive alone, because a cycle is left when
the program believes that its refund is dead, and it learns that from an answer. `BoundToItsOwn`
says that a row and the request name only refunds of their own cycle, so that an answer to an older
one cannot end this one (`AnswerBinds`; a success that a request adopts without having asked is
alive, hence of this cycle: `AliveIsOfThisCycle`). `Holders` says the same of the processes: who
acts for a cycle knows that cycle's refund, who was refused one knows that the cycle has none, so a
refusal ends a cycle that has nothing alive (`RefusedIsDead`); and two do not act for one cycle, so
that a second submission finds the first at the provider (`NoneOfThisCycle`, `AloneInItsCycle`).
A contained reversal starts the next cycle by the very answer that says its refund is dead: the
reversal of a chargeback does so too, and then a refund of ours may be alive, which is `Exempt`.

`RowsCorrect` says of the adjustments what `CreditsMatchMoney` says of the ledger: the credits they
hold taken are together the share of the money that is away, rounded up once and not once for each.
`Shares` says so with the quotient the code computes; `OwedIs` and `LeastCover` say that this
quotient is the least number of credits that covers the share. A confirmed answer writes what is
left after the others (`ConfirmedShares`, with `NetMoves` and `TakenMoves` for the two sums), and
everything else must leave the money, the credits, the amount charged and the funding alone
(`SharesStay`), or find that nothing is away: a month is granted only while the payment is SUCCEEDED,
so that by `Money` the net is zero and nothing is owed of a funding that just grew
(`GrantsShare`), and a settlement that changes the amount finds the row untouched
(`SettlementsShare`). What an adjustment books in the ledger may differ from what it holds, by its
reservation; that difference is the subject of `CreditsMatchMoneyMostly`.

`CreditsCorrect` adds the ledger. `Books` says that it balances: what it holds beside debits is the
funding, what the rows hold taken (`Taken`) and the reservations that are outstanding; with
`RowsCorrect` this is the property (`BooksMatchMoney`). Each kind of entry moves one of these sums
(`BalancedSpend`, `BalancedGrant`, `BalancedMove`, `BalancedReserve`), and a reservation that is
used moves its amount from what is set aside to what is taken without an entry (`BalancedUse`).
A failed refund returns just what was set aside (`ReturnsBooks`), and a confirmed one takes what
its row is to hold, less the reservation that covers it (`ConfirmedBalanced`). Three invariants
carry this. `Names` says that a cycle, its request and whoever acts for it know one refund, so a
reservation is used by one row (`CyclesAreOwn`, `ActingRow`). `Keys` says that a key is in the
ledger once, and that the keys the next movement and the next cycle will use are new, so what is
posted is posted (`Fresh`). `Pasts` says of every row what its history has made of it. The two
cases in which the code does not keep the books (section 7) are told by that history: a row that
was confirmed while it acted for no cycle is marked `unbound`, one that was told again after it had
taken nothing `again` (`past`, which no action reads). An excuse stays (`ExcuseStays`); without
one, a row that is bound to a cycle with a reservation either used it when it was confirmed or
holds credits of its own, so `CoveredByReservation` is true just when the reservation is still
outstanding (`PastSays`). That is what the condition `adjustment.creditDelta === 0` of the code
(`billing.service.ts:2141`) stands for.

Only model-checked: the liveness properties (`EveryGenerationEnds`, `EveryPostEnds`, `CatchesUp`,
`UncertainCheckoutEnds`, `RefundEnds` and the others of section 5), which are out of the prover's
reach. The type invariants of Publishing, Subscriptions, Deliveries, ProviderCalls
(`CallsTypeOK`), ProviderRouter (`RouterTypes`), CreditLine (`CreditLineTypeOK`) and Payments
(`PaymentsTypeOK`) are theorems and no run repeats them.

## 7. Where code and comments disagree

One has a run of its own, `claim_over_return`, whose one property is what the text says
and which TLC refutes: `CreditsMatchWhenOverReturned` (`billing.service.ts:2135`). When a
chargeback has returned the charge already, the refund that succeeds after it gives its
reservation back, though the money it returned went out a second time; a later reversal then
restores the same credits again. `CreditsMatchMoneyMostly` excepts these by `ToldAgain`.

The others were seen with TLC on an instance that states them as an invariant:

* `generation.service.ts:434`: planning and assembling share one attempt counter. A
  parent that planned on its last attempt waits for shots whose assembly `resume()` can
  never claim; the sweep fails it.
* `runner.ts:283`: a finished shot writes stage *waiting* on its parent whatever the
  parent is doing, and that stage is the token of the assembly claim; two workers can
  assemble one ad at a time. The row still ends once.
* `pipelines/batch.ts:52`: gathering never compares the children it finds with the plan;
  a first photo that ends before the second exists wakes the parent, and the batch
  succeeds without it.
* `generation.service.ts:1054`: a share returned by a gathering is not subtracted from the
  row, so a batch that then fails returns its whole price on top of it ("Give back exactly
  what was taken", line 1047).
* `webhook.dispatcher.ts:167`: each failed attempt writes the endpoint's failure count as it
  was selected, plus one, so the failures of a whole batch count as one, and an answer of an
  older attempt can undo a pause or a switch of the customer. `schema.prisma:1841` calls it
  "Consecutive failed deliveries", the header "twenty failures in a row".
* `provider.router.ts:147`: routing leases a half-open provider that may never be
  called; nobody then releases the lease.

Seen while reading, with no text that says otherwise and so with no run: a cancelled
row that had been started and put back is refunded in full; a retry is enqueued
while its own job is still active, so BullMQ drops it and the dispatcher brings the
row back; a requeued row keeps its `createdAt` and can be failed as "never picked
up" a minute later; each paused process that comes back can add one attempt to
`MAX_ATTEMPTS`; a batch pays for photos the gathering
did not see; a run after a direct vendor answered ends SUBMISSION_UNKNOWN, since
there is no job id to ask for; a unique violation in `begin()` is classified as
retryable and falls back to the next vendor; two `persist()` of one provider may
commit in the other order than the memory changed.

Of the credit line, what the properties of CreditLine except, each confirmed by TLC
on an instance that drops the exception:

* Two "Invoice now" at once, or one beside the hourly pass at the end of a month:
  the request whose clock is behind the invoice just written starts again at the
  first of the month (`start > now ? monthOf(now).start`,
  `usage-billing.service.ts:740`) and bills dates a second time, though the comment
  above says "never by re-billing the same dates". It takes a month of three ticks
  and three of time, or two such requests, which `credit_line` is too small for, and
  `InvoicesInOrder` asks only of the invoice that reaches furthest.
* A process that dies between a payment's commit and its follow-up leaves the
  workspace paused, and nothing looks again, though `docs/DEPLOY.md` says that "Any
  payment that clears the overdue invoices reopens the line automatically". An
  invoice of a minimum alone is settled without the wallet lock, so the follow-up can
  find the account still active while dunning is about to suspend it.
* A line that is reopened before its final invoice was written, because the closing
  request died, moves `startedAt` past that period; nobody bills it.
* Work requested while the workspace was prepaid and finished after its line opened
  is billed: usage goes by the completion.

Of payments, what the properties except or the instances leave out, each confirmed by
TLC; the first two are what `ConfirmedUnbound` stands for:

* A provider that accepts a refund without an id: the success webhook that comes later
  finds a request that has been posted and has no reference, is not bound to it
  (`billing.service.ts:3608`) and takes the credits a second time beside the
  reservation; the discovery that binds the row afterwards finds nothing left to move
  (`Nameless` is off in `payments`). The same happens without such a provider when a
  submission is refused, the process dies before it applies the refusal, and the answer to
  the next submission is lost: the request is posted, and names no refund, by the first and
  the second (TLC with `MaxAttempts = 3`; `payments` has two attempts, the code 32).
* A refund first seen when it had been reversed already is booked as money gained, and
  REVERSED is final, so that a success that arrives late is not applied
  (`billing.service.ts:2127` says "a later success then converges to zero"); its request
  stays PROCESSING and keeps its credits aside.
* A chargeback that the bank reverses on a purchase with a refund under way queues a
  second full refund (`OneLiveRefund` excepts it).
* A second chargeback of a plan that is reversed while the refund queued by the first
  reversal is under way finds the money at zero, replaces the refund's cycle by the next one
  and reserves all the credits again; nothing ends the reservation of the cycle it replaced
  (`ReservationEnds` excepts it by `ReversedTwice`; the instance has one reversal). The comment at
  `billing.service.ts:2468` says that "At net money zero every originally funded credit is
  available again".
* A verification that finds the charge failed overwrites the reason *checkout
  abandoned*, on which the return of a later charge depends; the write-back of a
  checkout request by id erases the `automaticRefund` marker.
* A payment that a chargeback turned REFUNDED leaves its refund request PROCESSING until
  somebody looks (`RefundEnds` excepts it), and a reversed chargeback leaves an approved
  request APPROVED. A request given up as exhausted keeps its reservation
  (`ReservationEnds` allows it).
* With `Slow = TRUE`, a settlement that was read before a partial chargeback of the same
  charge reopens a payment whose return had been queued
  (`isRecoverableEarlyAdjustment`, `billing.service.ts:3877`).

Of subscriptions, seen while modelling:

* A renewal that is settled while a cancellation at the end of the period has not reached
  the provider yet (`providerCancelPending`) is refunded and the plan ended at once
  (`billing.service.ts:613`), though the comment at lines 908-909 says of a paid renewal that
  comes after the customer scheduled the cancellation that it "extends the paid period".
* A charge that is settled after the provider has ended the plan sets the command again
  (`queueSubscriptionCancellation`), and Paddle refuses it for ever; it stays pending.
* A receipt whose worker dies during its last attempt stays *processing*: it is neither
  tried again nor reported as failed.

Of publishing, the header says that the claim "is what stops two ticks, or two workers,
posting the same thing twice". It does not in three cases:

* Two "try again" requests read FAILED together; the second write, by id, puts back a
  row that is going out or has gone out (`publishing.service.ts:369`, counted by
  `raced`).
* An attempt that outlasts `STUCK_AFTER_MS` is swept and sent by another pass beside
  itself, and the lock of the pass ends after 30 minutes (`Slow = TRUE`).
* A post that was taken and whose answer, or whose record, was lost is put back and sent
  again (`publishing.service.ts:474`).

Also: deaths in the middle of a post add tries beyond the "at most three times" of
`schema.prisma:2178`; a timer that read the account before it was disconnected or
connected again marks it NEEDS_REAUTH by id; a post created beside a disconnect stays
SCHEDULED on an account that is gone, though `publishing.service.ts:262` says that
"Anything still waiting to go out through it can no longer".

## 8. Not modelled, and the plan

Not modelled at all: the web application, sign-in and sessions, catalogue imports, support,
notifications, careers, leads, the waitlist, onboarding, WhatsApp, the public API and the
studio as front-ends (record keeping, no protocol of their own); media and retention;
adapters and vendors (the environment of `ProviderCalls`); post-processing with ffmpeg (one
step of the worker); planning texts. They are most of the repository's lines and hold little
of its concurrent state.

Modelled in part: of the generation service, editing text, quoting, history, `clientKey`
replays and the daily video limit are missing; of the ledger, forced claw-backs, expiry and
adjustments by staff; of usage billing, checkout reservations and what a gateway takes back
or disputes; of billing, the receipts of webhooks, invoices paid through a checkout, paused
plans, legacy references and the other gateways; of annual credits, which plans and months
are due; of webhooks to customers, an endpoint's creation, deletion and test.

What would come next, in the order of what a mistake would cost:

1. **Wallet**: `ledger_apply` statement by statement (wallet row lock, key lookup, sum,
   overdraft, insert, claw-back) with several generations and payments on one wallet; two
   requests with one `clientKey`. Abstract specification: an atomic balance that never goes
   below its floor and applies a key once. To prove: the refinement, and that the balance is
   the sum of the entries.
2. **Webhook receipts** (`handleWebhook`, `processWebhookReceipt`): claims, stale claims and
   the 20 attempts, composed with Subscriptions, which assumes them.
3. **Usage billing**, what CreditLine leaves out: checkout reservations against a second
   payment, `billing.service.ts` around `settleInvoice`; a refinement to an abstract bill
   (each completion on exactly one invoice).
4. **Retention** against a running parent; a two-process instance of ProviderRouter.
