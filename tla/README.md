# Formal models of the kds-marketing backend

This directory holds TLA+ specifications of the backend of *kds-marketing*
(`backend/`, a NestJS application over PostgreSQL), the TLC configurations that
model-check them and the TLAPS proofs about them. Paths below are relative to
`backend/src/modules/` of the repository unless they start with `backend/`.

    tlc -workers 2 -config OutboxDrain.cfg MCOutbox        # one run
    tlapm OutboxProofs.tla                                 # the proofs of one module

`PROJECT.json` lists the runs with their properties, the mutants that show
that each property can fail, the source lines behind each definition, the
hazards, the disagreements between code and comments, and the theorems.

## 1. The system

The backend is one process type, deployed as several replicas. Every replica
serves HTTP, runs the same cron jobs and the same outbox poll loop. There is no
broker: replicas coordinate through PostgreSQL only, by

* **guarded statements** (`updateMany` with the expected status in the `where`):
  the affected-row count says who won;
* **`FOR UPDATE SKIP LOCKED` claims** followed by a reclaim sweep for claims whose
  owner died;
* **unique indexes** (a duplicate insert fails with Prisma's `P2002`);
* **advisory locks** held by a transaction (`common/scheduling/advisory-lock.ts`):
  one replica runs a cron body, the others skip the tick.

Prisma statements outside `$transaction` commit one by one, so every `await`
between two of them is a point where other replicas, requests and crashes
interleave. That is the grain of all the models: **one SQL statement (or one
`$transaction`) is one step**, and whatever a function keeps in its local
variables across an `await` is state of the model.

### Components

| component | state | operations | what is hard, and what makes it correct |
|---|---|---|---|
| Transactional outbox and event bus (`outbox/`) | `outbox_events` rows; per replica the claimed batch | `append`, `drainOnce` (reclaim, claim, dispatch, flip, failure write), `pruneOnce` | crash between claim and flip, a reclaim window that runs out under a live replica, retries of `append` without a unique index. No event lost, redelivery only with a cause, a settled row stays settled |
| Payment orders (`billing/`, callbacks in `billing/payments/`, decisions in `platform/`) | `payment_orders` (status, providerRef, grantedAt), the workspace's subscription row, add-ons | `checkout`, `walletTopup`, three providers' `createCheckout`, PayTR and Stripe callbacks, approve and reject, `settleSuccess`, `settleFailure`, `reconcileUngrantedOrders` | duplicated and concurrent callbacks, crash between flip, grant and marker, the sweep racing a live settlement. Grants follow money, once each |
| Prepaid wallets (`marketing/wallet`, `marketing/ai/ai-credit-wallet.service.ts`) | a balance per workspace, a ledger with a unique ref | credit, debit, cumulative debit | first credits racing for the wallet row, replays, one currency |
| Subscription period (`billing/billing-scheduler.service.ts`, renewal and cancel in `billing-settlement.service.ts`) | status, period end, trial end, cancelAtPeriodEnd | activate, renew, cancel, daily degrade sweep, operator assignment | the sweep writes by id what it listed earlier; concurrent renewals |
| Entitlements (`billing/entitlements.service.ts`) | a cache over the subscription row | reads | staleness of the cache only |
| Scheduled jobs (`marketing/scheduling`) | `scheduled_jobs` rows, unique (kind, dedupKey) among PENDING ones | `schedule`, `cancel`, runner tick: reap, claim, dispatch, hold, retry, release | a claim racing a reschedule, a crash mid-batch, the unique index against every write that sets PENDING |
| Leases for a connected Claude (`marketing/ai/ai-reply-lease.service.ts`, `marketing/research`) | the same rows in status CLAIMED | claim, complete, lazy expiry | expired leases against the unique index, a lease without an owner token |
| MCP inference tasks (`marketing/ai/mcp-ai-task.service.ts`) | rows in MCP_* statuses with a tool journal | generate, claim, complete, `runToolOnce` | an external write must not run twice, whatever dies in between |
| AI credits and usage (`marketing/ai/ai-credits.service.ts`) | monthly counters and the wallet-funded part | reserve, refund, overage | refunds against inflated counters and month boundaries |
| Spend ledger and budget executor (`marketing/wallet/spend-ledger.service.ts`, `marketing/budget`) | append-only ledger per budget | `debitOnce`, `debitToCumulative`, apply an approved reallocation | cumulative debits that arrive out of order, double apply |
| Approvals (`marketing/agents`) | an approval request and its heartbeat | enqueue, approve, reject, claimForApply, reap | double decision, a reaped apply that is alive |
| Campaign sender, mail gateway, message quota (`marketing/campaigns`, `marketing/channels`) | the campaign and its recipients, the mail ledger, the monthly pool of messages | launch, pause, resume, cancel; the launch, decide and batch jobs; send under a key; reserve, refund | a tick that dies or is overtaken between relay, ledger and recipient row, status writes by id, jobs that are queued in a statement of their own. Mailed once, charged once, never asleep |
| Channels and conversations (`marketing/channels`, `marketing/inbox`) | conversations, messages | ingress, reply, AI reply, backfill | duplicate inbound messages, pauses against late replies |
| Workflows and triggers (`marketing/workflows`) | runs and their current step | enrol, resume, act | a step resumed twice |
| Leads, distribution, opportunities | leads and their owners | ingest, dedupe, assign | concurrent ingest of one person |
| Booking and calendars (`marketing/sites/booking.service.ts`) | bookings, holds | reserve, move, cancel, mail | two customers, one slot |
| Invoicing, estimates, order forms, coupons | documents, numbers, redemptions | issue, pay, redeem | numbering and redemption limits under concurrency |
| Telephony, IVR, voice AI | calls, dialer queue | dial, event, bill | dialer claims, out-of-order call events |
| Content programme, social planner, distribution | slots, posts, drafts | plan, produce, publish, send | a slot produced twice, caps held over pauses |
| Compliance, suppression, domains, memberships, integrations | consents, verification states, tokens | mostly CRUD around the above | guards of sending |
| Auth, ACL, platform console, audit, metrics, frontend | sessions, roles, logs | CRUD and reads | no protocol a model would tell apart |

### How they interact

* Services append to the outbox inside their own transactions; consumers
  subscribe on the in-process bus and are called by whichever replica drained
  the row, at least once and in no order across rows.
* Events of the core product (`payment.succeeded.v1`) come in over
  `internal/internal-events.controller.ts`, which only appends them; commission,
  installation and webhook consumers hear them from the bus.
* Settlement of an order writes the subscription row, a boost or wallet credits
  directly; the sweep finds what a crash left out. Entitlements read the result.
* Everything delayed (AI replies, follow-ups, campaign batches, reminders,
  content slots) is a row of `scheduled_jobs`; handlers run in the replica that
  holds the runner's lock, except for rows leased to a connected Claude.
* AI calls reserve credits first; credits beyond the plan are debited from the
  wallet that top-up orders fill.

## 2. Modules

| module | what it is |
|---|---|
| `Outbox` | the outbox: producers, replicas, retention and time; its properties and inductive invariant |
| `AtLeastOnce` | what the outbox promises, without replicas, claims or windows |
| `MCOutbox` | symmetry sets for TLC |
| `OutboxProofs` | the theorems about `Outbox` |
| `OutboxCountProofs` | the theorems about it that count invocations and rows |
| `OrderSettlement` | checkout, callbacks, operator decisions, settlement, grants, wallets, the recovery sweep |
| `OrderSettlementProofs` | the inductive invariant and the theorems about `OrderSettlement` |
| `MCOrderSettlement` | the markets (what customers buy) and symmetry sets for TLC |
| `ScheduledJobs` | delayed work: callers of `schedule` and `cancel`, the ticks of the runner |
| `MCScheduledJobs` | the model values for TLC |
| `ScheduledJobsProofs` | the inductive invariant and the theorems about `ScheduledJobs` |
| `McpTasks` | the mailbox of a connected assistant and the journal of its answers' tools |
| `AtMostOnce` | what the journal promises of one external write |
| `MCMcpTasks` | symmetry sets for TLC |
| `McpTasksProofs` | the inductive invariant and the theorems about `McpTasks` |
| `CampaignSender` | an e-mail campaign: the operator's requests, its three jobs, the mail gateway and its ledger |
| `MCCampaignSender` | symmetry sets for TLC |
| `CampaignSenderProofs` | the inductive invariants and the theorems about `CampaignSender`: mails, rows, the booked launch |
| `CampaignGoingProofs` | the theorems that a campaign neither falls asleep nor ends early |
| `CampaignMeterProofs` | the theorem that the message pool is charged for the mails |

### Outbox

`rows` is the table. `work[w]` is the position of replica `w` in `drainOnce`:
`batch` holds what `RETURNING` gave it, `cur` the row in hand with the attempts
**read at the claim**, `pos` the listener the bus is at. The actions follow the
statements: `Reclaim`, `Claim`, `Take` (next turn of the loop), `Invoke` and
`Return` (one listener), `Flip`, `FlipThrows`, `RecordFailure`, `EndTick`.
`Crash` drops `work[w]` and leaves the rows dispatching. Producers take two steps,
`Lookup` and `Insert`, or `Rollback`. `Prune` is the retention sweep.

*Time* is one bit per row, `elapsed`: the instant that matters in the row's
status has passed. `Elapse` may set it at any moment, so every backoff and every
window is covered; when a **reclaim window** runs out under a replica that still has
the row, the step is counted in `overruns`. *Ghosts*: `calls` counts listener
invocations, `owner` the replica of the latest claim; no guard reads them.

*Rejections of listeners* are swallowed by the bus (`Promise.allSettled`), so
they change nothing here: a consumer that fails is **not** retried by the outbox.

### OrderSettlement

One workspace, because no statement of settlement touches rows of two. `orders`
holds status, the kind of id in `providerRef`, `grantedAt` and the rank of
`succeededAt`; `psp` is what really happened to the money (external); `task[a]`
is where a webhook delivery, an operator request or the sweep stands, with the
`ref` of the **order snapshot** it read; `sub`, `wallet`, `aiWallet`, `ledger`,
`credited` and `addons` are what grants write. `Read` and `Flip` are
`settleSuccess`, `Grant`, `CreateWallet`, `Modules` and `Mark` are
`grantEntitlement` and `markGranted`, taken by handlers and the sweep alike;
`SweepStart`, `SweepPass`, `SweepProbe`, `SweepEnd` are
`reconcileUngrantedOrders` with its three lists. `Throw` is a failing statement
(caught where the code catches it), `Crash` a dead process.

The wallet's upsert is split into the lookup (`CreditGrowthWallet`,
`CreditAiWallet`) and the insert (`CreateWallet`), because Prisma compiles it
that way when it cannot use `ON CONFLICT`; the model allows both outcomes of the
race. A wallet transaction is otherwise one step.

### ScheduledJobs

`rows` is the table, one row per insert; a *request* is the payload a caller (or
a handler that asks for another turn) writes, numbered in the order of the
writes. `calls[c]` is where a caller of `schedule` stands between its lookup
(`Schedule`), its conditional update (`Reschedule`), its insert (`Create`) and the
lookup after a `P2002` (`Collapse`). `lock` is the advisory lock, and `work[t]` a
tick: the `batch` `claimBatch` returned, with request and attempts **as the claim
read them**, the job `cur` in `run`, and the jobs put off for `later`.

A tick goes `Begin`, `Reap`, `Claim`, then for each job `Pick` (the first look at
the policy), `Beat` (the heartbeat), `Handle` (the handler and the second look),
and one of `Done`, `Chain` (the handler's directive to run again), `Hold` (the
policy forbids it) and `Fail` (retry or dead letter). `Defer` puts a job off (the
cap of its kind, or the deadline of the tick: the model allows it for any job but
the first), `Release` hands deferred rows back, `End` unlocks. `Throw` is a
failing statement, with the place in which the code catches it; `Crash` a dead
process; `LoseLock` the end of the lock's transaction under a tick that goes on.

The partial unique index is `Conflict`: a write that would make a second PENDING
row of a key fails, and the code's reaction to the `P2002` follows. The reaper's
three statements, one `$transaction`, are one step. Of `lockedAt` only its order
among rows of one key is kept (`older`) and whether fifteen minutes have passed
since (`elapsed`, which is "runAt has passed" in a PENDING row). The spend policy
of the workspace and the presence of a connected MCP client are one bit,
`enabled`: the job may run in this process or not. *Ghost:* `owed` is the newest
request of a key that nothing has disposed of yet.

### McpTasks

One workspace, since the lock, the queries and the limits are per workspace.
`rows` is the table, `journal` the tool executions in the payload of a row,
`calls[c]` where a request of the backend stands in `generate` and `runToolOnce`,
`polls[a]` where a connection of the assistant stands in `claim` and `complete`.
`ran` is external: how often the write a tool performs really happened.

`Admit` is the whole transaction of `generate` (unresolved writes, the existing
task, the capacity, the insert), one step because it is under the workspace's
advisory lock. `StartTool` is the transaction that journals a tool, under the same
lock; `Write` and `Return` are the callback, which may throw with or without
having written; `Confirm` and `GiveUp` are `finishTool` on the two paths. A
commit whose answer is lost is a fault of `Confirm` that did write the entry.
`Sweep`, `Scan` and `Take` are `claim`: the two sweeps, the snapshot, one turn of
the loop. `Present` and `Apply` are `complete`, the read and the guarded update.
The reading of the policy and the statement that follows it are one step: a
policy that changes in between is a change before or after the pair. A replay of
an entry that is DONE changes nothing and is not a step.

### CampaignSender

One campaign over e-mail. `rec` is the recipients' rows, `ledger` the rows of the mail
ledger under their keys, `used` the pool of messages; `mailed` is external: what the
relay accepted. `ticks[w]` is where a tick of the runner stands in a handler, with
what it keeps across statements (`todo`, `cur`, the outcome, the loop's counters);
`request` is where the operator's request stands. The job queue is that of
`ScheduledJobs` as a handler sees it: a kind is `queued` or not, `dead` when only the
reaper will move it, and `lock` admits one tick. `Throw` is a failing statement, with
a retry or, on the last attempt, the hook that pauses the campaign (which attempt it
was is left open); `LoseLock` lets a second tick run beside the first.

`AskLaunch`, `AskPause`, `AskResume`, `AskCancel` are the checks of the status, then
come the statements in the order of `Following`: `Freeze` (audience, delete and
insert of the rows), `Unbook`, `Set` (by id), `Arm`, `Kick`, `Book`. `FlipSending`,
`Rearm`, `KickBatch` are `launchScheduled`; `Look`, `Elect`, `Release`, `KickBatch`
are `decideAbWinner`; `Read`, `Reclaim`, `List`, `Turn` (the claim of a row), `Check`
(opt-out, reservation), `Mark`, `Leave`, `Streak`, `Count`, `Held`, `Close` are
`batch`. The gateway under the recipient's key is `AskGateway` (was it delivered? may
it go out?), `Open` and `Reopen` (the PENDING or refused row), `Dispatch`, `Settle`,
and `Refund` of the unit for a mail this attempt did not send. `Elapse` is the minute
after which a PENDING row no longer belongs to a send in flight.

The ledger never stops a send by an error of its own, and the model follows each place
where one is swallowed: a `claim` that cannot be read counts as "not delivered"
(`mail-log.service.ts:131`); an insert that fails, whether or not it took effect, and a
conflict whose row cannot be read, let the mail out without a row (`Open`; `row` is
FALSE from there, and `Settle` has nothing to write); a failed `reopen` lets it out over
the old row (`Reopen`). In the last two the recipient is put in `lost` when the send
goes on, not when the harm is done. A gateway that throws before the row is opened costs a
refund and a retry (`AskGateway`, `campaign-sender.service.ts:1048`).

`Elect` leaves out the early return with fewer than two variants: rows are held back
and the decision is armed only by a launch with at least two
(`campaigns.service.ts:655-708`), and an edit of the variants is refused once the campaign
is SENDING (`:200-202`). Edits are not modelled, so neither is one that passed that check
before the launch and replaces the variants after it.
`Release` takes in the statistics note before it (`:399-420`): a decision that dies
before the note, or between note and release, has claimed the winner and released nobody,
and so has one that dies before this step. A month that turns between a reservation and
its refund is not modelled: `used` is the pool of one month, and the refund would go to
another one.

A recipient stands for any lead treated alike. `FAILED` in the ledger stands for
every status that reached nobody. *Ghosts:* `lost` (recipients whose ledger row
has lost track of a mail: an outcome never written, a send that outlived its minute, a
failed row reopened by two senders, or a row the ledger could not write), `guessed` (marked SENT because another send was in flight) and
`excuse` (what left the campaign without its job); no guard reads them.

## 3. Runs

Every passing run ends with the whole state space explored; every property of
it fails under a mutant of the code (`Bug_...` operators, listed in
`PROJECT.json`).

| run | question | bounds |
|---|---|---|
| `outbox_drain` | Is any event lost, closed before it was heard, closed by the wrong replica or reopened, and is every event dispatched or dead-lettered in the end? | 2 replicas, 2 rows, batch 2, 2 attempts, 1 listener, 1 fault, 1 overrun |
| `outbox_append` | What do retries and overlapping calls of `append` with one key insert, whose row do they get back, and is the outbox `AtLeastOnce` over several listeners? | 2 producers, 1 key, 1 tenant and the null tenant, 3 rows, 2 listeners, 1 replica |
| `outbox_overrun` | *(violation)* Does only the owner of a claim write its outcome? | 1 row, 1 overrun, no fault |
| `settle_orders` | Do grants follow money, once, whatever runs concurrently, and does what was paid through Stripe arrive in the end? | every kind of order, each provider, 1 order, 2 handlers and the sweep, 2 faults |
| `settle_wallets` | Do first credits, stamps and a change of currency keep wallets consistent, and is every order stamped that can be? | top-ups by transfer and credits over Stripe, 2 orders, 1 handler and the sweep, 1 fault, 1 change |
| `settle_first_top_ups` | *(violation)* Does a stamp on a growth-wallet top-up mean money was credited? | 2 orders, 2 handlers, no fault |
| `settle_renewed_early` | *(violation)* Does a stamp on a subscription order mean its own period was granted? | 2 orders, 1 handler, 1 fault |
| `jobs_queue` | Does the index ever refuse the reaper, does a claimed row change under its tick, is the newest request of a key lost, and is every row settled in the end? | 1 tick at a time, 1 caller, 1 key or none, 2 rows, 3 requests, 2 attempts, batch 2, 1 event (crash, failing statement, lost lock or policy edit) |
| `mcp_mailbox` | Is a tool of an answer written at most once, does an unresolved write keep retries away, and who may answer? | 2 callers, 2 connections, 1 request, 1 tool, 2 tasks with 2 leases each, 1 fault, 1 policy edit |
| `campaign_send` | Does a campaign fall asleep, or is it closed, while somebody waits or is held back, and does a scheduled one have its job? | 2 recipients, 1 tick at a time, 2 requests, 1 fault, with and without a winner, pause after 1 tick without a send |
| `campaign_overlap` | Is a recipient mailed once and charged once, is SENT true, and does an opt-out last, when ticks die or overlap? | 1 recipient, 2 ticks, 1 request, 2 faults, 1 opt-out, 1 suspension, no winner, pause after 2 ticks |
| `campaign_blocked` | *(violation)* Does a campaign go on once its workspace is active again? | 1 recipient, 1 tick, 1 request, no fault |

**Why the bounds are enough.** The hazards need two parties and one accident: two
replicas and a row one loses; two settlements of one order; a settlement and the
sweep; two first credits. Batch 2 with two rows lets a replica hold a row it has
not begun while another takes it over. `MaxAttempts = 2` reaches the DLQ through
a retry. Two listeners (in `outbox_append`) distinguish "some heard it" from "all
did"; what a replica does between two listeners does not depend on the others.
Beyond that more replicas or rows repeat the same interleavings, and the
theorems below, of each of the five systems, hold for every value of the constants.

Two top-ups, paid by transfer in either currency, and one change of the workspace's
currency are what it takes to mint two orders that cannot go into one wallet.
`settle_wallets` reaches that state: the second credit is refused on every sweep and
its order is never stamped, so `SucceededIsStamped` names it (`Mismatched`), and without
that name the run fails. Subscriptions get their marker in `settle_orders`
(`PaidOrdersArrive`), where the second handler is.

In `mcp_mailbox` the second task is the one admitted when the first is past its
TTL; two callers and two connections are what its races need. Nothing relates
tasks of different requests but the capacity, which one request never reaches.

Two recipients make a test cohort and a held remainder, which `campaign_send` is
about; what two ticks do to one row needs one recipient, and the rows are
independent of each other but for the counters of a tick and the question whether any
is left. One fault is one accident (a death, a failing statement, a lost lock, a lost
answer): `campaign_overlap` has two, a lock lost and an accident of one of the ticks
that overlap; in `campaign_send` two requests are a launch and what interferes with it. `MailedOnce`, `SentWasMailed`,
`KeepsGoing`, `ScheduledIsBooked` and `SentIsDone` name the accidents they exclude
(section 5); `CHECK_DEADLOCK FALSE`, because a campaign is finished in the end.

Two rows of one key are what the reaper's second pass is about, and a third
request is needed to see one overtaken while another is queued. `jobs_queue` has
one tick at a time, so its runs do not show a tick that overlaps another one
after a lost lock; for `OnePendingPerKey` and `TypeOK` the theorems do, with any
number of ticks. `EventuallySettled` with overlapping ticks is not checked.
`WithinCap`, `HeldJobsCurrent` and `NewestKept` are stated for behaviours without
a lost lock, `NewestKept` also without crashes: with them they are false, and the
code does not claim otherwise (pass 1 of the reaper retires a row for any PENDING
row of its key, also an older one that was revived).

**Fairness.** `FairSpec` of `Outbox` assumes weak fairness of each replica's drain
steps (the poll loop reschedules itself in a `finally`, whatever a tick did) and
of `Elapse` (time passes). Nothing is assumed of producers, failures or
retention. `SweptSpec` of `OrderSettlement` assumes only that the cron sweep keeps
running, which is all that `SucceededIsStamped` needs; `FairSpec` adds that a request
that was started goes on, and strong fairness of Stripe's delivery per order (Stripe
repeats an event until it gets a 2xx). PayTR stops at the first OK, so nothing is
assumed of it, and `PaidOrdersArrive` starts from the payment for Stripe orders only.
One assumption about Stripe is not fairness: that a completed session is a paid one.
`StripeCompleted` happens when `psp` says paid, while the controller
(`webhooks.controller.ts:300-342`) never reads `session.payment_status`; it
holds as long as the account offers no payment method that settles later (the sessions
name none, `stripe.provider.ts:123`), and `StatusFollowsMoney` rests on it. `FairSpec` of `ScheduledJobs` assumes weak fairness
of each tick (the cron fires every minute, the lock is free once a tick ends or
dies, and a tick goes on to its `release`) and of `Elapse`; that the policy allows
the jobs from some time on is the hypothesis of `EventuallySettled`, not an
assumption of the specification. A handler that never returns is outside that:
`run` awaits it without a timeout of its own. So is a handler that asks
for another turn for ever: every turn is a new request, and requests are bounded. Faults are bounded, which is how "once failures
stop" is said.

## 4. Proofs

TLAPS checks the theorems for **all** values of the constants, from
`OutboxAssumption`, `SettlementAssumption`, `JobsAssumption`, `McpAssumption` and
`CampaignAssumption` (sizes are naturals, the null values are not members, a
market offers well-formed intents). Where sets are counted, in `OutboxCountProofs` and
`CampaignMeterProofs`, `FiniteAssumption` is needed too: finitely many actors and events.

### OutboxProofs

The inductive invariant `IInv` (defined in `Outbox`, in named parts) is

* `TypeOK`;
* `InHand`: where a replica stands says what it has in hand, no row twice;
* `Fresh`: rows from `nextId` on are untouched;
* `HandIsPast`: a row in hand was inserted and claimed at least as often as its
  claimer read, which is what `DlqOnlyAtCap` needs, because the give-up decision
  uses the attempts read at the claim;
* `HeardSoFar`: the listeners a dispatch has passed were invoked, which is what
  `SettledWasHeard` needs at the flip, and what survives a row that was taken over;
* `HandIsOwned`: while `overruns = 0`, a row in hand is dispatching, its window
  is open and its owner is the replica that has it (or that replica's own
  flip has already changed it): exclusivity and ownership follow;
* `SettledWasHeard`, `DlqOnlyAtCap` themselves.

`Invariant` proves `Spec => []IInv` with one lemma per action; from it follow
`TypeCorrect`, `SettledWasHeardAlways`, `DlqOnlyAtCapAlways`,
`ClaimIsExclusiveAlways`, `OwnerSettlesInWindowAlways` and
`SettledIsFinalAlways`. `OutboxImplementsDelivery` proves the refinement: initial
states map to initial states, an insert is `Accept`, the first invocation of a
listener is `Hear` (in registration order, by `HeardSoFar`), a terminal write that
takes effect is `Close`, and everything else stutters.

Only model-checked: liveness (`EveryEventSettles`, `ImplementsFairDelivery`),
since fairness and ENABLED are outside TLAPS.

### OutboxCountProofs

Two balances are kept per row and listener, `CallsArePaid`. The replicas that have the
invocation still ahead of them (`Awaiting`) and the invocations made are together at
most the attempts of the row: a claim adds one to both sides. And with the replicas
about to write a failure (`Owing`), and one more if the row can be claimed again
without another accident (`Open`), they are at most 1 + `faults` + `overruns`: a claim
closes the row it takes, a failure write opens one only when its own delivery is
given up, and whatever else opens a row (a crash, a flip that throws, a window under a live
replica) is counted. `RedeliveryHasCause` alone is not inductive, because it says
nothing of the deliveries that are still to come. A step of a replica moves only
that replica in or out of these sets (`OneCounted`), so `PaidStep` reduces it to a balance
of bits (`Pays`), proved per action.

`AnswerIsOwnEvent` needs that an answer is an id and that a row is inserted once
(`Fresh`); `DuplicatesOnlyByOverlap` is inductive as it stands: a lookup lets a call
insert only when there is no copy, and the insert moves it from one side to the other.
The sets are counted, so these theorems also assume `FiniteAssumption`:
finitely many replicas and producers.

### OrderSettlementProofs

Settlement has many actors that each read an order, decide, and write later; what
must be known is what each may still rely on when it writes. `IInv` is `TypeOK` with

* `Numbered`, `Unminted`, `Shopped`: orders are minted in turn, nobody pays or calls
  back for one that was not, and a checkout under way has one;
* `OnTransfer`: only transfers await one, and a transfer under way is not PENDING, so
  what the operator decides is never an order that a provider collects;
* `ActorsKnow`: what is true of its order wherever an actor stands. Before `Flip` the
  money is there (so `StatusFollowsMoney` survives the flip, however old the snapshot);
  from `Grant` on the order succeeded; an actor about to grant a boost finds none;
  at `Mark` credits are in the ledger (so a stamp tells the truth);
* `OneGranter`: at most one actor stands before the grant of a boost. The flip is a
  compare-and-set from a status that is not SUCCEEDED, so it is won once, and the sweep
  leaves boosts out: that is the whole reason why a create that is not idempotent
  happens once;
* `SweepKnows`: what the sweep has listed succeeded, whatever happened since;
* `GrantsFollow`: markers, boosts and ledger entries belong to orders that succeeded,
  entries to wallets that exist;
* `StatusFollowsMoney`, `GrantedOnce`, `StampedCreditsLanded`, `OneCurrency` themselves.

The steps are sorted first: `StepMoves` says how any step may change an order
(`OrdersMove`: mint, rename, announce, settle, fail, mark, or not at all), the payments
(`PaymentsMove`) and the balances (`MoneySteps`: one entry with its credit, one boost,
or nothing). All conjuncts but those about actors follow from that alone.
`ActorsKnow` goes by where a step may lead an actor (`SweepMoves`, `GotoMoves`, ...).
Theorems: `TypeCorrect`, `MoneyDecides`, `GrantsAreOnce`, `StampsAreTrue`,
`WalletHasOneCurrency`, `SettlementStands`. They hold for any number of handlers and
faults and any market, where the runs have two handlers and two faults at most.
Only model-checked: `SucceededIsStamped` and `PaidOrdersArrive` (liveness).

### ScheduledJobsProofs

`IInv`, defined there, is

* `TypeOK`, with the cap on attempts (`WithinCap`);
* `Shape`: the phase of a tick says what it has in hand, no job in two places;
* `Numbered`, `Known`: ids are given in order, and ticks and callers know
  inserted rows only, so that no write by id creates a row;
* `LockOrder`: of two rows at most one is older than the other. This is what
  makes the survivor of the reaper's second pass unique;
* `LockHolder`: while no lock was lost, a tick that works has it. So while one tick
  is past `Begin` the others are idle and hold nothing;
* `AttemptLeft`: while no lock was lost, a row that may run has an attempt left.
  `Fail` counts from the attempts of the claim, so the step needs
  `HeldJobsCurrent` to know that these are the row's;
* `OnePendingPerKey` and `HeldJobsCurrent` themselves.

The proof goes by what a step does, not by who takes it. `TableSteps` shows that
every step leaves the table alone, writes one row (and makes it PENDING only if
the index allows it), inserts, reaps or locks a set of rows; `NumberedStep`,
`LockOrderStep` and `OnePendingStep` go through these five cases.
`WorkStepsHold` does the same for the ticks: none changes, one goes on without
taking a job, or one claims. `OnePendingStep` is the argument the comment of
`reapStuck` gives in prose: of two rows of a key that are PENDING after a reap,
both cannot have been kept, and a revived one was the only survivor of its
key, with no PENDING row beside it. It needs no assumption about the lock, so it
covers ticks that overlap. `CurrentStep` shows that no caller touches a claimed row
(`OutsideKeeps`) and that the row a tick settles is one it lets go of
(`WrittenRow`, with `HeldUnique`: no other job in hand has its id).

From `Invariant` follow `TypeCorrect`, `OnePendingAlways` and `HeldJobsAlways`.

`NewestKept` says that a live row carries what is owed, which is too little for
induction: a RUNNING row whose tick let go of it (the index refused its requeue) is
live, and the next reap retires it. `Newest`, inductive together with `IInv` while
nothing crashed, failed or lost its lock (`Orderly`), asks for more:

* `Carried`: the row is PENDING or in the hand of a tick;
* `PendingIsNewest`: the PENDING row of a key is the one that carries what is owed. So
  when the index refuses to requeue a row, the row in its way is the better one, and a
  reap can only revive rows of keys to which nothing is owed;
* `OneHeldPerKey`: a claim takes one row of a key, since only one is PENDING;
* `HandledIsSettled`, `RequestsPast`, `CallFits`, `BatchDone`: what a tick past its
  handler, the numbering of requests, a caller before its update and a tick that hands
  back know.

`MovesStep` sorts the orderly steps by what they do to rows, jobs in hand and debts
(`Moves`: nothing, a job requeued, refused or over, a row with a new request, a
cancellation, a reap, a claim); `CarriedStep`, `PendingStep` and `OneHeldStep` go
through these. `NewestKeptAlways` follows. It covers what `jobs_queue` is too small for:
more keys, rows, callers and ticks.

Only model-checked: `EventuallySettled` (liveness).

### McpTasksProofs

`IInv` is `TypeOK` with

* `Numbered`, `LiveIsNewest`: ids are given in order, and of the tasks of a
  request only the newest may be unexpired and not cancelled. `OneLiveTask`
  follows, and `UnresolvedIsNewest` needs it: a tool is started only on an
  unexpired answer, which is then the newest task of its request, and from there
  on `Blocking` refuses another one;
* `JournalledAreDone`: only an answered task has entries, so no sweep touches one;
* `CallsMatch`: what a call inside `runToolOnce` knows: before `Write` the tool was
  not run, after it it was, and while the entry is RUNNING in its name nobody
  else's step changes it;
* `JournalTellsTruth`, `UnresolvedIsNewest` themselves.

The steps are sorted first by how they change the rows (not at all, an insert,
one row, the sweeps) and the journal (not at all, an entry begun, an entry
settled), then each conjunct is proved per kind of change. `WritesAreAtMostOnce`
proves that `McpTasks` implements `AtMostOnce` for every tool of every task: an
entry is begun once, performed at most once after that, and settled by the
call that began it.

### CampaignSenderProofs

Four invariants, each inductive with `Typed`: `TypeOK` and `HandsFull` (a tick between
the claim and `mark` has a recipient of the audience in hand; without it the ghosts
could take up `NoRecipient`).

* `Exclusive` gives `AtMostOneMail`. For a recipient whose ledger row has not lost
  track: a send under way has the row to itself, which is PENDING and fresh; there is
  at most one such send; and a mail that went out is in the ledger as SENT or in the
  hand of that send. A ledger row that is not `Taken` is therefore in nobody's hand
  and reached nobody (`NotTaken`), which is what lets `Open` and `Reopen` go on.
* `Told` gives `SentMeansMailed`: a ledger row that says SENT was mailed, and so was
  the recipient of a tick whose outcome says so, unless it is a guess. It needs that
  a tick the guard refused does not carry SENT, or `Open` could pass it on.
* `Booked` gives `ScheduledHasJob`: while the status is SCHEDULED the launch job
  waits, or a tick is at its first statement, or a request has taken it out and is
  about to write the status, or the launch is accounted as lost. It does not need
  the ticks to exclude each other.
* `UnsubscribedStays` needs only `Typed` and what each step may do to a row
  (`RowMoves`): a row leaves UNSUBSCRIBED only by the outcome of an attempt other
  than a retry.

The steps are sorted once: `QuietSteps` says that every step but those of the gateway,
a crash and `Elapse` leaves ledger and sends alone, and `SendSteps` says of each gateway
step what it does to them (`SendMoves`). The theorems hold with any number of ticks
that overlap, with any number of faults, so they go beyond `campaign_overlap`.

### CampaignGoingProofs

`KeepsGoing` and `SentIsDone` are about a campaign as a whole: its status, its rows, the
queue, the tick at work and the operator's request. The steps are sorted first
(`Splits`): the operator (`OperatorMoves`: asks, freezes, unbooks, sets, queues, breaks),
a tick that takes a job (`Begins`), a statement of a handler (`Handled`: it walks on,
starts the campaign, writes a row or ends), a tick that dies or throws (`Dies`), and what
happens outside. The inductive invariant `GoingInv` is the two properties with

* `KindFits`: a tick is at a statement of the handler of its kind;
* `Alone`: while no lock was lost (`Ordered`) only the holder of the lock works;
* `DraftRests`: for a draft nothing is queued, dead, locked or at work, and nothing is
  decided; `Frozen`: once the audience is frozen, whoever has no row has opted out;
* `OneInHand`: while a batch reclaims no row says SENDING, and from then on only the one in
  its hand does; `DoneAtEnd`: a batch that looks at the held rows has nobody waiting, and
  one that closes has nobody held back either. With `Alone` this is `SentIsDone` at the
  write of SENT, which does not look again;
* `DecidedThen`: a batch that found the decision taken is right about it; `Freed`: after
  the decision rows are held back only while a tick is about to release them, or when the
  remainder is accounted as lost. This is what `KeepsGoing` needs when a batch finds the
  decision taken and arms none (`campaign-sender.service.ts:796`).

The proof that a step keeps the campaign going says who takes the work over: a batch
that ends with rows left queues its successor (`HandledKeeps`), a dead tick leaves its job
to the reaper or pauses the campaign (`OthersKeep`), a request that took jobs out of the queue
is about to put one in (`OperatorKeeps`).

### CampaignMeterProofs

`MeterTellsTruth` is inductive as it stands, together with finitely many mails: `used`
less the sends in hand (`InHand`) less the mails moves by at most one, and only when
`faults` does. A step moves only its own tick in or out of `InHand` (`HandMoves`) and adds
at most one mail (`OneMail`), so each step comes down to a sum of bits (`Balanced`,
`Weighing`): `Check` reserves and takes in hand, a mail accepted by the relay leaves the
hand, a refund gives a unit back with it, a crash drops what was in hand. The floor of the
refund (`message-quota.service.ts:130`) could hide a unit only when the pool is empty with a send
in hand, which is a balance below zero that the floor lifts. Sets are counted, so the
theorem also assumes `FiniteAssumption`: finitely many recipients and ticks.

## 5. Where the code and its comments disagree

`PROJECT.json` has these as findings, each with a run that shows it.

* `outbox_overrun`: terminal writes are guarded by status, not by owner; a row
  reclaimed *and claimed again* is settled by the late replica.
* `settle_first_top_ups`: the growth wallet takes every `P2002` for a replay; the
  loser of two first top-ups is stamped and never credited. The AI wallet looks
  at the violated index and passes (`settle_wallets`).
* `settle_renewed_early`: the sweep recognises a grant by package and period, so of two
  paid orders for one package the one whose grant failed is stamped on the strength of
  the other. (An order stamped while the callback that flipped it has still to grant it
  is not counted, since that grant lands.)
* `campaign_blocked`: a tick that meets a suspended workspace ends without queueing
  another one, and the comment has the campaign heal by itself on re-activation.

Seen while modelling and not kept as runs: an error before the flip is acknowledged
to PayTR, with a comment that counts on the sweep, which lists only orders that
succeeded; a deferred job is left RUNNING because a PENDING successor carries its
work (`scheduled-job-runner.service.ts:241` has the reaper retire it), but when that
successor ran within the fifteen minutes the reaper revives the row, and the older
request is handled after the newer one; a row that orphans its replica on
every dispatch passes `MAX_ATTEMPTS`, because only the failure branch reads it
(`outbox/outbox-worker.service.ts:162` claims otherwise); recovery of an old
failed grant after an upgrade puts the older package back
(`billing-settlement.service.ts:222` calls re-granting safe); a Stripe session id
written late over the subscription id; a currency mismatch that is refused after
the payment when no wallet existed at checkout; and `OutboxService`'s comments
send operators to a controller that requeues DLQ rows, which does not exist.
In the campaign sender: a mail whose outcome never reached the ledger is sent again
once its minute is over, while `campaign-sender.service.ts:1040` has the key close
that window (`lost` in the model); a tick whose job runs again keeps its list, and
the unguarded reclaim takes the row in its hand (comment at `:594`); two senders that
reopen one failed ledger row both send; the ledger swallows its own errors, so a mail
goes out with no row at all (`mail-log.service.ts:179`), or over the old failed row
(`:287`), and nothing tells the next attempt that it went; the decision dying between its claim and the
release of the remainder leaves it held for ever; a launch job on its last attempt
that fails before its flip leaves the campaign SCHEDULED without a job, since the
dead-letter hook looks for SENDING; `mark` writes by id, so SENT replaces
UNSUBSCRIBED (the opt-out of the lead itself stays); the last tick writes SENT over
PAUSED.
In the job queue: when a handler *succeeds* and asks for another turn, or when the
policy holds a job back, and a PENDING row of the key exists by then, the refused
write goes to the catch of `run` and costs an attempt, while
`scheduled-job-runner.service.ts:641` says policy changes consume none.

## 6. What is not modelled, and the plan

Left out everywhere: wording, logging, metrics, authentication, signature checks
of callbacks (a callback that fails them changes nothing), money amounts beyond
"the right amount or not".

Next, in this order, with the abstract specification each one should implement:

1. **Leases** over the same table (`ai-reply-lease.service.ts`,
   `marketing/research`): claim, complete and lazy expiry of CLAIMED rows, which
   the runner does not see. Properties: an expired lease does not stop the lane,
   a late completion does not settle another client's claim. With it, what
   `ScheduledJobs` leaves out: rows of a kind without handler, the exhausted hook, and
   overlapping ticks in a run.
2. **SubscriptionPeriods** (`billing-scheduler.service.ts`, renewals): paid time is
   not lost to the degrade sweep or to a concurrent renewal.
3. **Consumers over the outbox** (commission, webhook fan-out) composed with
   `AtLeastOnce`: effects once under redelivery; what a failing listener loses.
4. **Credits and ledgers** (`ai-credits`, `spend-ledger`, wallet debits):
   refunds never mint credits, cumulative debits converge.
5. The rest of the campaigns (SMS and voice batches with their own settlement, edits
   that revert a scheduled campaign, the mail budget per mailbox), approvals with
   heartbeats, research lease, booking holds.
