# LaunchOS: a verification development

TLA+ models of the parts of LaunchOS whose correctness depends on the order in
which several things happen: TLC checks them on small instances, and TLAPS
proves the safety properties for every value of the constants. Paths below are
relative to `src/`.

To run: `tlc -config AgentOverlap.cfg MCAgentApprovals.tla` and so on for each
cfg (the module of each is in `PROJECT.json`, "runs"; `Billing.cfg` and
`Studio.cfg` take one to two minutes), and `tlapm X_proofs.tla` for each of the
eight proof modules.

## 1. The system

LaunchOS is an agency back office: a Next.js application (`apps/web`), one
worker process (`apps/worker`), PostgreSQL, and a queue (pg-boss) in the same
database. Almost all business logic is in `packages/core`; the AI agents are in
`packages/agents`; adapters to the outside are in `packages/channels` and
`packages/integrations`.

Three mechanisms carry all interaction between the parts:

- **rows**. Every component keeps its state in tables, most of the protocol
  state in a `status` column and in a `metadata` JSON column. Transactions are
  READ COMMITTED; what must not race is done in one conditional UPDATE or under
  `FOR UPDATE`, and what is not done so can race.
- **events and jobs**. After a commit, code calls `emit` (web:
  `lib/queue.ts`), which enqueues a pg-boss job. The enqueue is best effort: it
  can be lost, or land although its promise was rejected. Jobs carry a singleton
  key, are retried after a throw, and are delivered again when they outlive
  their expiry, while the first handler may still be running.
- **crons** in the worker. Sweeps re-read the rows and repair what events lost.
  They read first and act afterwards.

| Component | State | Operations | What is hard |
|---|---|---|---|
| **agent kernel** (`packages/agents/src/kernel`) | `agent_runs`: status, `metadata.pending`; `agent_steps` | `runAgent`, `runLoop`, `parkForApproval`, `finish`, `resumeAgent` (`loadParked`, `reopen`, `executeApprovedTool`) | a run parked for days is continued by another process; two deliveries of one decision; crash between claim and outcome |
| **approval decisions** (`core/approvals`, web actions) | `approvals`: status, decidedAt | `decideApproval`, `deleteApproval`, `deleteRejectedApprovals`, fast-path enqueue | decided before the run is parked; decided twice; deleted before delivery |
| **resume and stuck sweeps** (`apps/worker/src/jobs/resume-sweep.ts`) | give-up marker on the approval | re-drive, give-up alert, close stranded runs | two time windows that must meet; evidence stale when acted on |
| **outbound messages** (`core/support/send-queued-message.ts`, `outbound-sweep.ts`) | `messages`: status, `metadata.claimedAt`, `attempts`, markers | queue, claim, send, record, retry, announce, re-drive, give up | the provider cannot be rolled back; a lease that lapses under its holder; unconditional write-back of a snapshot |
| **invoices** (`core/billing`, Stripe webhooks) | invoices, payments, chase tickets, send cards | send on approval, pay, void, reconcile, sweep overdue | an event delivered twice at once; payments summed without each other; unlocked writes of staff; an approval spent once |
| **subscriptions** (`core/billing`) | `subscriptions.status`, plan-change cards | apply an event, reconcile with Stripe, decide and carry out a change | events late, lost, out of order; a list read before it is written; the provider called after the commit |
| **signup** (`core/signup`) | leads, clients, billing profiles, payment accounts, subscriptions | complete a paid session, import a subscription | webhook, redelivery and landing page at once; a claim that outlives its holder; an import that gets there first |
| **proposals** (`core/proposals`, worker jobs) | proposals, acceptances, their cards | approve, send, view, accept, decline, expire, follow on, take payment | a client answering while the expiry passes; two taps; a stamp lost after the effect |
| **support cases** (`core/support`) | tickets, conversations, messages | ingest mail, answer as client, answer as staff, update, hide | row locks taken in two transactions; a case closed while the client writes |
| **content** (`core/content`) | content items and their cards | approve, edit, cancel, publish | a publish claim and retry against an external service; a decision that arrives late |
| **meetings** (`core/meetings`) | meetings, reminder stamps | book, move, cancel, mark, remind | the slot and the video provider must agree, and the provider cannot be rolled back |
| **tasks** (`core/tasks`), **site builds**, **portal purchases**, **monitoring**, **push**, **heartbeat** | their tables | generate, stage, buy, open an incident, alert | each has one small protocol of the same kinds |
| reports, documents, knowledge, clients, domains, teams, adapters, pages | — | aggregation, record keeping, rendering, I/O | no protocol across steps |

`PROJECT.json` "components" lists every part with its sources and whether it is
modelled; "hazards" lists what can go wrong at which line.

### What makes each modelled component correct

*Kernel and approvals.* No gated tool runs unless a person released that very
call; it runs at most once; a run has one driver at a time; a closed run stays
closed; a decision reaches its run, or its owner is told; no run stays
`running` for ever.

*Outbound messages.* A client receives a message once, short of causes nobody
can prevent, and those are known; a settled message stays settled; a queued
message is sent or failed although its enqueue was lost and workers died; what
is not is announced.

*Invoices.* Money that covers an invoice is never overlooked; an event is booked
once; one approval emails once; a chase is raised only when the one before it was
settled and a week is over, again while the invoice is owed, and never after it is
settled; a settled invoice stays so.

*Subscriptions.* A cancellation Stripe knows of ends in a cancelled row; a row
says cancelled while Stripe goes on charging only after a fault.

*Signup.* One buyer becomes one client, who owns the plan that was paid for.

*Proposals.* An answer is final and recorded; the client is mailed the proposal
once, gets one payment link, and the payment is filed once.

*Content.* Nothing goes out without the owner's approval of the very card on the
item; nothing is posted twice by the code's own doing; a cancelled item stays
cancelled.

*Meetings.* No two calls share a slot; row and video provider agree; a guest is
reminded once for each time the call was put at.

*Support cases.* A client who writes is not left on a closed case; nothing is
delivered on a hidden case; the four kinds of transaction never wait for each
other in a circle.

## 2. The modules

| Module | Models | Extends |
|---|---|---|
| `ApprovalGate` | abstract: what an approval gate promises (asked, decided once, carried out at most once and only if released) | — |
| `AgentApprovals` | the kernel, decisions, `agent.resume` deliveries and both sweeps; implements `ApprovalGate` | — |
| `MCAgentApprovals` | constants and symmetry for TLC | `AgentApprovals` |
| `AgentApprovals_proofs` | theorems and proofs | `AgentApprovals` |
| `OutboundMessages` | the message row, the claim under a lease, the send and its bookkeeping, the sweep | — |
| `MCOutboundMessages` | constants for TLC | `OutboundMessages` |
| `OutboundMessages_proofs` | theorems and proofs | `OutboundMessages` |
| `Invoices` | an invoice after it is raised: payments, sends on approval, staff, the overdue sweep | — |
| `Subscriptions` | a subscription against Stripe: events, reconciles, plan changes | — |
| `Signups` | the completion of a paid signup against imports of its subscription | — |
| `MCBilling` | the three of them in one run | `Invoices`, instances of `Subscriptions`, `Signups` |
| `MCBilling_proofs` | theorems about an invoice, a subscription, and the three side by side | `MCBilling`, an instance of `Signups_proofs` |
| `Proposals` | a proposal from its approval to its payment | — |
| `Publishing` | a content item from the draft to the post | — |
| `Meetings` | a host's diary and the video provider | — |
| `Cases` | a support conversation, its cases and their row locks | — |
| `MCStudio` | the four of them in one run | `Proposals`, instances of `Publishing`, `Meetings`, `Cases` |
| `MCStudio_proofs` | theorems about a proposal, and the four side by side | `MCStudio`, instances of the three below |
| `Signups_proofs`, `Publishing_proofs`, `Meetings_proofs`, `Cases_proofs` | theorems and proofs | the module each is named after |

`ApprovalGate` is kept by three parts that share no code for it, so it is
instantiated three times: `AgentApprovals` maps a gated call to the gate by its
card and how often it was executed, `Invoices` an approved send by its card and
its emails, `MCBilling_proofs` a plan change by its card and its decision email.
What was done twice, or without approval, maps to a state outside the gate's, so
the refinement says "at most once" and "only if released" by itself.

`MCBilling` and `MCStudio` are disjoint unions: their components share no row
and call each other nowhere, so an interleaving of two of them shows nothing a
run of each alone would not. `part`, chosen in the initial state, says which one
moves; the variables of the others hold `None`. A property there is the
component's own, guarded by `part`.

Each action is one statement, or the code between two awaits, of a handler, so
handlers interleave exactly where the code lets go of the processor or of a
transaction. `PROJECT.json` "map" gives the lines of every definition. An
operator whose comment is `\* mutant` is a plausible mistake in the definition
it precedes: no action uses it, and substituting it makes a property fail.

### AgentApprovals

| Variable | Code |
|---|---|
| `status`, `pending` | `agent_runs.status`, `metadata.pending.awaitingToolUseId` (as the approval that names it) |
| `quiet` | running, and no step and no claim for `RUN_STUCK_AFTER_MS` (30 min) |
| `card`, `age` | `approvals.status`; `decidedAt` against `RESUME_UNDELIVERED_AFTER_MS` and `RESUME_GIVE_UP_AFTER_MS` |
| `announced` | `approvals.metadata.resumeGiveUpNotifiedAt` |
| `queued` | waiting `agent.resume` jobs by singleton key |
| `web` | requests between the committed decision and the enqueue |
| `suspects` | the list `findStuckRuns` returned, not yet acted on |
| `pc`, `on`, `job`, `verdict`, `outcome`, `asks`, `turns` | where each handler invocation is and its local variables |
| `executed` | history: how often the approved tool ran |

The road of a gated call: `OpenRun` (`RunRecorder.open`) → `CallTools` →
`ParkForApproval` (the approval row; decidable from here) → `Settle` (`finish`
parks the run) → `Decide` → `FastPath` or `Redrive` → `Fetch`
(`handleAgentResume`, which drops a delivery for a run that is not parked) →
`Load` (`loadParked`) → `Reopen` (the claim) → `CarryOut` or `TellRejected` →
the loop again. `LoopThrows`, `Dies` and `Expire` are the faults: an error the
loop's catch settles, an error or a death that leaves the handler, and a job
that outlives its expiry while its handler works on. `settle` is called as
`return settle(...)` without `await`, so its own failure is not caught by the
loop; it is a `Dies`.

Abstractions, and what they leave out:

- Waiting jobs of one key are one: the queue policy is `short`, and a second
  job for a run that moved on is dropped by `Fetch`. The retry limit is a
  choice at every throw: retried, or not. Hence nothing relies on the limit.
- `age` grows only while the run is parked on the decision, the only time a
  sweep looks at it.
- A decision's age is `fresh`, `due` or `late`: before the sweep's first look, up to
  24 hours, after. The two windows therefore meet by construction; `GiveUpAnnounced` is about the decisions a
  query leaves out and about lost and repeated sweeps.
- `Redrive` and `GiveUp` read and act in one step: a stale re-enqueue ends in
  `Fetch`, and `GiveUp` joins the alert and its marker (a crash between them
  repeats the alert, which the code accepts). The stuck sweep is split into
  `FindStuck` and `FailStuck`, because there the gap has consequences.
- `loadParked`'s two reads are one step. A commit whose outcome the client
  never learns is not modelled. Step numbering (`seq`) follows from `OneDriver`.
- Token budgets, message contents and tool results are left out.

### OutboundMessages

| Variable | Code |
|---|---|
| `status`, `lease`, `attempts`, `marks` | `messages.status`; `metadata.claimedAt` against `CLAIM_TTL_MINUTES`; `metadata.attempts`; the two announcement markers |
| `age` | row age against `OUTBOUND_UNDELIVERED_AFTER_MS` and `OUTBOUND_GIVE_UP_AFTER_MS` |
| `raised`, `jobs` | `message.queued` events not yet enqueued; waiting `outbound.message` jobs |
| `found` | the list `findGivenUpMessages` returned, not yet announced |
| `pc`, `on`, `snap` | each delivery, the message it claimed, the metadata its claim returned and its writes put back |
| `accepted`, `slips`, `spoken` | history: sends the provider took; causes for another one; failures whose announcement was tried |

`Deliver` is the conditional UPDATE that claims; `Accept`/`Refuse` the
provider; `RecordSent` and `AuditSent` the bookkeeping in the same `try` as the
send; `RecordFailure` the catch block; `RetryLater` and `Announce` its two
ends. `patchMessage` writes the whole metadata column from the claim's snapshot
without a condition: `Patch` does the same, so every lost update it can cause
is in the model.

- Email and SMS take the same road with different calls on the way; one
  message may meet either (`BrokenThread` is the conversation read outside the
  email path's `try`, `SkipSend` the SMS gateway that reports nothing was
  delivered). This adds behaviours and removes none.
- Job expiry needs no action: a lapsed lease and a re-drive give the same
  extra job. Usage recording swallows its errors and is left out.
- `age` grows only while the row is queued, the only time it is read.

### Invoices

| Variable | Code |
|---|---|
| `status`, `flagged`, `late` | `invoices.status`; `metadata.settleSkippedAt`; `dueAt` against now |
| `booked` | succeeded `payments` rows, per provider event or staff entry |
| `card`, `emails` | `approvals.status` of each `invoice_send`, `spent` once `consumedAt` is set; emails sent for it |
| `chase`, `older` | `tickets.status` of the chase `metadata.overdueTicketId` names, and of those before it: `open` as raised, `settled` (resolved, closed), `reopened` by hand |
| `cooling` | `metadata.lastChasedAt` against `OVERDUE_CHASE_COOLDOWN_MS` |
| `lock`, `pc`, `arg`, `covers` | the row lock, and each worker's place and locals |
| `overruns` | history: staff wrote over a status they had not read |

A payment is inserted, then `reconcileInvoice` locks the row, sums and settles,
in one transaction that others see at its commit. `ClaimApproval` is the
conditional UPDATE of `consumedAt`; the email follows the commit.
`LockForChase` and `Chase` are the overdue sweep's transaction: it asks for the
last chase ticket only, which it does not lock. `UpdateChase` is `updateTicket`
on any of them, which may settle and reopen it at any time. `markInvoicePaid`
and `voidInvoice` read without a lock and write by id. Amounts are counted in
payments; recipients and wording are left out.

### Subscriptions

`live` and `ending` are Stripe's `status` and `cancel_at_period_end`; `wire` the
statuses that events under way carry (a set: any order, repeated, lost); `row`
is `subscriptions.status`; `listing` what each reconcile was told. `Apply` is
the transaction of a decision, `StopBilling` the provider call after its
commit. `CancelAtProvider` and `WriteCancelled` are staff's cancellation. Prices
and the other kinds of change are one kind, `other`.

### Signups

`clients`, `profile`, `account`, `filed` are the rows of `clients`,
`billing_profiles`, `client_payment_accounts` and `subscriptions`, each known by
the process that made its client; `lead` and `claim` are `leads.client_id` and
`metadata.signupClaimedAt` against `SIGNUP_CLAIM_TTL_MS`. The actions between
`Claim` and `Welcome` are the awaits of `completeSignup` and `provisionSignup`;
those between `LoadIndex` and `Upsert` the awaits of `syncOneSubscription`.

### Proposals

`stage`, `lapsed`, `seen` are the row; `ask` and `applied` its cards; `mailed`
counts what was queued for the client; `signed` is the acceptance row;
`handedOn`, `session`, `paid`, `started` are stamps in `metadata`. `BeginSend`
and `CommitSend` are apart because the PDF is rendered in between. `Accept` is
one transaction keyed by the status it read. `HandOn` is what
`queueProposalFollowOn` does in the web process (section 6, finding 6). The job
is `BeginFollowOn`, `OpenPayment`, `StartProject`; a provider event is claimed,
and then filed, by a hook.

### Publishing

`status`, `approvalId`, `attempts` are the item; `card` and `applied` its
approvals; `posts` and `unanswered` what the platform took, and of these what it
never confirmed. `Revise` and `Cancel` write by id what `ReadItem` read before;
`overwritten` counts the times the status had moved. A sweep goes
`ClaimDueContent`, `Post`, then `MarkContentPublished` or `MarkContentFailed`.
The words of the item and its images are left out.

### Meetings

Time is a count of slots. `status`, `startsAt`, `stamped` are the row
(`scheduled` and `rescheduled` are one, `live`); `hosted` is what the video
provider holds. Every operation calls the provider first and writes the row
afterwards; `Taken` is the unique index. `crossed` collects the calls on which a
process died or two requests worked at once: no code excludes that, and
`ProviderAgrees` excuses them. `outrun` collects the other calls whose last move
lost its time to another call (`manage.ts:148`): the row stays, the provider was
moved, and `ProviderAgrees` says that those calls, and only those, differ. The three reminder stamps are claimed alike, and
one stands for them.

### Cases

| Variable | Code |
|---|---|
| `byMail` | `conversations.participantEmail` is set: answers go out by email |
| `case`, `shown` | `tickets.status` (`open`: open, triaged, in progress; `waiting`: waiting for the client; `closed`: resolved, closed); `clientVisible` |
| `link`, `came` | `conversations.ticketId`; the client's committed messages |
| `lock` | who holds each ticket row and the conversation row |
| `at`, `on`, `memo` | each process, the case it read, the mail it files or the status it writes |
| `heard`, `missed` | history: what staff knew when they last wrote the linked case; the messages that met a close neither side had read of |

A reply of either side reads the thread, locks the ticket (`LockCase`, where a
hidden case refuses it), then the conversation, and commits (`Post`, `Answer`).
An email is stored under its unique id, which takes the conversation row, and
joins the linked case or opens a new one according to a read without a lock
(`StoreMail`, then `Attach` or `OpenCase`). `updateTicket` reads the ticket,
and writes it later by id (`ReadCase`, `WriteCase`).

- A thread starts with a case. Internal notes, acknowledgements, courtesy
  notices, `firstResponseAt`, escalation, assignment, CSAT and the
  conversation's own status are left out: no guard of these transactions reads
  them. A mail delivered again after it was stored changes nothing.

## 3. What is checked

Every run exhausts its state space.

| Run (cfg) | Instance | Shows |
|---|---|---|
| `agent_overlap` (`AgentOverlap`) | 1 run, 2 calls, 1 runner, 2 resumers, 1 fault | `OneDriver`, `ReleasedBeforeExecuted`, `ParkedNotExecuted`, `TerminalStays` although `agent.resume` deliveries overlap |
| `agent_single` (`AgentSingle`) | same, 1 resumer, one call names a tool since unregistered | `OnceOnly`, `ClaimedForItsPark`, and that the kernel implements `ApprovalGate` |
| `agent_delivery` (`AgentDelivery`) | 1 call, 2 faults, fairness | `DecisionDelivered`, `GiveUpAnnounced`, `RunsSettle` |
| `outbound_lease` (`OutboundLease`) | 1 message, 2 deliveries, 2 attempts, 1 fault, fairness | `DuplicatesExplained`, `SettledStays`, `Delivered`, `LateAnnounced` |
| `billing` (`Billing`) | 2 payments that make up the total, 2 cards, 2 workers; 2 reconciles, 1 plan change; 2 callers, 2 imports; fairness; 204,799 states | invoices: `CoveredIsSettled`, `BookedOnce`, `GateSpec` (sends implement `ApprovalGate`), `OneOpenChase`, `ChasedOnlyWhenDue`, `OnlyAllowedMoves`, `ChasedUntilSettled`; subscriptions: `ChargedOnlyAfterAFault`, `EndsWithStripe`; signup: `CallersMakeOne`, `WelcomedOwnsThePlan` |
| `studio` (`Studio`) | 1 sender, 2 taps, 2 follow-on jobs, 1 hook, 1 card; 2 editors, 2 sweeps, 2 cards, 3 attempts; 2 calls, 2 requests, 2 sweeps, 2 slots; 2 cases, 1 mail, 2 deliveries, 1 portal reply, 2 staff requests; 1,021,964 states | proposals: `AcceptedTogether`, `MailedOnce`, `AskedOnce`, `DecisionStands`; content: `PostsExplained`, `OutByApproval`, `CancelledStays`; meetings: `OneCallPerSlot`, `ProviderAgrees`; support: `ClientHeard`, `NoLockCycle` |
| `agent_twice`, `agent_stuck`, `agent_deleted`, `outbound_silent`, `outbound_false_alarm`, `follow_on_lost` | as small as shows it | the disagreements of section 6 |

`agent_overlap`, `outbound_lease`, `billing` and `studio` also check that every
variable keeps its type.

**Bounds.** One run suffices for the kernel: nothing an action reads or writes
mentions two runs, and the proofs hold for any number. Two calls of that run
are needed, and enough, for a park to follow another one; two resumers for two
deliveries to be inside `resumeAgent` at once. `MaxTurns` is 1: the counter
matters only at its limit, and parking starts a fresh entry of the loop.
`MaxFaults` counts throws, deaths and expiries; a handler that died leaves only
rows behind, which the next fault starts from again. The liveness run uses one
call so that it can afford two faults: one to lose the driver and one to lose
the delivery that follows. For messages, nothing relates two of them;
`MaxAttempts` is 2 so that there is a last attempt and one before it; the
provider may refuse at any time without spending the fault.

In `billing` and `studio` no fault is counted: a process may die at any step,
as often as it likes, and idle processes start again. Two of whatever races is
the bound throughout, and the proofs of section 4 remove it. Two payments make
up the total, so that each alone leaves the invoice open. Two cards let an old
decision meet a newer request. Two callers and two imports are needed for a
claim to be retaken while an import is under way. `MaxAttempts` is 3 for
content, so that there is a first, a middle and a last attempt. The diary has
two slots and a clock that can pass both; `Buffer` is 0, because the unique
index, which is what `OneCallPerSlot` rests on, knows equal starts only. Two
cases let a mail leave a closed case for a new one. One chase before the last is
remembered (`Earlier`): a settled one may be forgotten, so the sweep can always
raise the next, also beside an older one that was reopened.

There is one sender of proposals because the worker is one replica
(`infra/docker-compose.coolify.yml:174`) that works off the send jobs and their
sweep one at a time. `CommitSend` writes the status without asking again
(`core/proposals/send.ts:163`), so two overlapping senders would mail twice; the
theorems that state the run's properties carry the same hypothesis, `OneSender`,
and others say what is left of them without it.

**Symmetry** is used in `agent_overlap` and in `studio`, which check invariants
and action properties, symmetric in what is permuted, and no liveness. In
`studio` the same model values serve several sets of the four components; each
permuted set is used as a whole by every component that uses it.

**Deadlock** is not checked: the system rests when nobody has anything to ask.

**Why resumers may number two, and when they do not.** The worker is deployed
as one replica whose queue handlers run one at a time, and
`docs/ARCHITECTURE.md` asks that it stay so. Two `agent.resume` handlers are
nevertheless alive at once when a deployment rolls, and when a job outlives its
expiry while its handler goes on. What holds without any assumption is checked
with two; what holds only as long as handlers do not overlap is checked with
one, and the difference is stated as a finding.

**Fairness**, and why the code justifies it. `WF` on a handler's own steps: the
worker runs what it fetched. `SF` on `Fetch` and `Deliver`: pg-boss fetches in
order of creation, so a job is not passed over for ever although the only
handler is now and then busy. `WF` on the sweeps: they are crons, every minute
and every ten minutes. `WF` on `BecomesDue`, `GoQuiet` and `Lapse`: time
passes. Nothing is assumed of people, of the fast path or the enqueue, of the
provider, of a message's age reaching the 24-hour edge, or of faults; the
properties allow for that edge instead ("or it is late", and then "it is
announced").

In `billing`: `WF` on `\E w : Proceed(w)`, some worker going on, since a request
or a sweep that was begun goes on or aborts; `SF` on `LockForChase` and `Chase`, since the sweep
runs every morning, PostgreSQL grants a row lock in turn, and a sweep that rolls
back runs again the next day; `WF` on `CooldownEnds`, since weeks pass. For the
subscription: `WF` on `PeriodEnds` and on `Lose` (Stripe gives an event up after
some days, so none arrives for ever), on `WriteCancelled` (which includes dying
instead) and on `List`, the nightly reconcile; `SF` on `Reconcile`, since not
every night fails. Of workers, sweeps, reconciles and events it is assumed that some one
goes on, not that each does. Nothing is assumed of clients, staff, decisions or payments.
No fairness is assumed in `studio`.

**Mutants.** Each property of each passing run fails when one definition is
replaced by its mutant: the claim without its status check, the decision
without `pending`, `finish` over any status, a kept binding, a sweep that asks
only for approved cards, only for untouched rows, or only for runs that were
once parked, and off-by-one limits; an invoice sendable unless void, a
signup claim without its age, an accept that asks for any status, a decision
carried onto an item that no longer waits for it, a reply that locks the thread
first, a booking that keeps the loser's provider meeting.

## 4. What is proved

`ConstantsOK`, in each module, is the only assumption on the constants: any
number of runs, calls, handlers, messages, turns, attempts and faults. Where a
component is only instantiated (`Signups`, `Publishing`, `Meetings`, `Cases`),
`ConstantsOK` is a hypothesis of its theorems, and the run that instantiates it
assumes it of its values.

### AgentApprovals_proofs

For any number of `agent.resume` handlers, overlapping as they like:

- `TypeCorrect`: `Spec => []TypeOK`, from `Shape`, which adds to the types what
  the locals are at each `pc`.
- `OneDriverAtATime` (`OneDriver`), `ReleasedFirst` (`ReleasedBeforeExecuted`)
  and `ParkedIsUndone` (`ParkedNotExecuted`). They are not inductive. The
  strengthening `SafeInv` adds `Occupancy` (a driver inside a run excludes every
  other, and sees it `running`, or `failed` by the stuck sweep), `Loaded` (a
  delivery past `loadParked` holds a real, final verdict) and `Fresh` (a call
  that some driver is about to park on, or that has no card, was never executed
  and is nobody's pending).
- `ClosedStaysClosed`: `TerminalStays`, from `SafeInv`: the only writes over a
  run are `finish` (only over `running`), `reopen` (only over
  `awaiting_approval`) and the sweep (only over `running`).
- `ExecutedOncePerResumer`: no call is executed more often than there are
  handlers. This bounds finding 1 of section 6, where `OnceOnly` fails. Once a
  run has left its park on a call nobody contends for the call anew, so the
  executions made, plus the deliveries that can still make one (`Contenders`),
  never exceed the handlers (`RepeatBound`); `FiniteSetTheorems` does the counting.
- `ImplementsGateInOrder`: the gate with repetition allowed. Each call is asked
  about first, decided once, and carried out only after its release.

For one handler at a time (`SingleConsumer`, a hypothesis of the theorems):

- `ExecutedOnce`: `OnceOnly`. `SingleInv` says that between `loadParked` and the
  execution nobody moves the run: the delivery's job is what the run is parked
  on, and its call has not been executed.
- `ClaimBinds`: `ClaimedForItsPark`.
- `ImplementsGate`: `Spec => GateSpec`, the initial state and every step of the
  kernel mapped to `ApprovalGate` (`GateStep`).

### OutboundMessages_proofs

- `TypeCorrect`, which includes that no message is tried more than
  `MaxAttempts` times. `Shape` carries it: a message that can still be claimed,
  and every snapshot, has an attempt left, so writing back an old snapshot can
  forget an attempt but never exceed the limit.
- `DuplicatesHaveCauses`: `accepted[m] <= 1 + slips[m]`. Each send that has
  been made or may still be made is an item of a budget: `accepted[m]`, plus
  the deliveries that may yet send or re-queue it (`Pitching`), plus one if it
  can be claimed anew (`Open`), never exceeds `1 + slips[m]`. Every action moves
  an item or pays for it with a slip. The lemmas on `Pitching` do the counting
  with `FiniteSetTheorems`.
- `SettledIsFinal`: `SettledStays`, from `Exclusive`: until something slips,
  one delivery holds a message, its lease is live and the row is queued, so no
  late writer can exist.
- `SilenceHasACause`: the messages that break `FailedIsAnnounced` (finding 4)
  are never more than the faults so far. Whoever fails a message goes on to
  announce it, and only its own death prevents that (`MuteStep`); races, lapsed
  leases and stale snapshots never do.

### MCBilling_proofs

*Invoices*, for any number of payments, cards and workers, and any total. `IInv`
adds to the four safety invariants `LockHeld` (the lock belongs to the worker
that is between its lock and its commit), `OwnPayment` (a payment being inserted
is one worker's, and not booked yet), `ReadHolds` (what was read under the lock
still holds: the invoice is a demand, its week is over, its last chase is settled
or was reopened by hand meanwhile) and `OwnSend` (the email of a spent card is one worker's, and not
sent yet). From it: `NothingOverlooked` (`CoveredIsSettled`),
`EventsBookedOnce` (`BookedOnce`), `OneChase` (`OneOpenChase`),
`MovesAreAllowed` (`OnlyAllowedMoves`), `ChasedWhileOwed` (`ChasedOnlyWhenDue`)
and `InvoiceTyped`. What a sum comes to is never needed: only that the locked
sum is of the rows that are then committed. `SendsThroughTheGate` (`GateSpec`):
the sends implement `ApprovalGate`, each step a step of the gate or a stutter
(`SendGateStep`).

*Subscriptions*, for any number of requests and reconciles.
`ChargedAfterAFault` (`ChargedOnlyAfterAFault`) needs `ToldByStripe` (whoever is
about to write `cancelled` was told so by Stripe, where a cancellation is final)
and `UndecidedIsIdle`. `CancelledRowStays` is the half of `EndsWithStripe` that
needs no fairness: once the cancellation has arrived everywhere (`Over`), the
row says so for good. `RequestsThroughTheGate`: plan changes implement
`ApprovalGate`.

*Side by side.* A behaviour of `MCSpec` is one of the part it picked: `part`
never changes (`PartStays`), the initial state is the part's and every step is
the part's or a stutter (`RunsInvoice`, `RunsSignup`). So the theorems of
`Signups_proofs`, instantiated, give what the run checks: `CallersShareAClient`
(`CallersMakeOne`), `BuyerKeepsThePlan` (`WelcomedOwnsThePlan`) and
`EveryPartTyped` (`Typed`).

### Signups_proofs

For any number of callers and imports. `BuyerOwnsThePlan`
(`WelcomedOwnsThePlan`) rests on `OwnsPlan` (whoever filed the plan owns it and
alone goes on) and `WelcomedLast`. `ClientsAreClaimed` (`CallersMakeOne`) counts
`Winners`, the callers that hold a claim or have used one, against the claims
given out (`Paid`); `FiniteSetTheorems` does the counting.

### MCStudio_proofs

*Proposals*, for any number of taps, follow-on jobs, hooks and cards.
`OneLinkOneFiling` (`AskedOnce`) rests on `OwnFiling`: a link goes out only with
the session stamped, and a payment is filed by its one claimant. A second sender
could put an answered proposal back to `sent`, so what concerns sending is
proved twice, first for any number of senders:

- `SentOncePerSender`: a proposal is mailed no more often than there are
  senders: the mails, plus the senders still rendering a draft they read, are
  counted against them (`MailBound`).
- `AgreeUntilResent`, `FinalUntilResent`: until a second copy goes out, record
  and status agree, and an answer stands (`UntilResent`: a draft is what was
  never mailed, and record and status agree until the second mail).

and then, with `OneSender`, as the run states it: `SentOnce` (`MailedOnce`),
`RecordAndStatusAgree` (`AcceptedTogether`), `AnswerIsFinal` (`DecisionStands`).

*Side by side*, as in billing: `RunsProposal`, `RunsContent`, `RunsDiary`,
`RunsSupport`, and from the component theorems below `PostsHaveCauses`
(`PostsExplained`), `ApprovedOnly` (`OutByApproval`), `CancelledForGood`
(`CancelledStays`), `OneGuestPerSlot` (`OneCallPerSlot`), `RowFollowsProvider`
(`ProviderAgrees`), `EveryClientHeard` (`ClientHeard`), `NoCircle`
(`NoLockCycle`) and `EveryPartTyped` (`Typed`).

### Publishing_proofs

For any number of editors, sweeps, cards and attempts. `OwnerDecides`
(`OutByApproval`) is inductive with the types and with `Places` (a request acts
on a status its guard let pass) and `AttemptLeft`. `OnlyARevisionRevives`
(`CancelledStays`) is a statement about single steps. `NotPostedTwice`
(`PostsExplained`) counts: the posts, plus the sweeps still on their way to one
or back from an unconfirmed one (`Out`), never exceed the lost answers, the
overwrites, and one if the item is out (`Afforded`).

### Meetings_proofs

For any number of calls, requests, sweeps and slots. `NoDoubleBooking`
(`OneCallPerSlot`) and `RemindedOncePerTime` (`RemindedOnce`: a reminder
counted only under an unclaimed stamp) are in the first half of the invariant,
`Safe`. `RowAndProviderAgree` (`ProviderAgrees`) needs the second half: nobody
works on a call without a row (`RowFirst`), one request at a time works on a
call nothing went wrong with (`OneAtWork`), and where row and provider differ
meanwhile, that request holds the time the provider has or the last move was lost
(`Meanwhile`). That a lost move leaves them apart, and never together by chance,
is `OneCallPerSlot`: the other call has the time.

### Cases_proofs

For any number of mails, deliveries, replies, staff requests and cases.
`LocksHeld` says who holds which row at which place. With it `NoDeadlock`
(`NoLockCycle`): whoever holds a ticket while it waits, waits for the
conversation, and whoever holds the conversation waits for nothing
(`ChainsEnd`), so a circle of any length is impossible. `NeverLeftUnheard`
(`ClientHeard`), and `HideIsABoundary`: a reply that passed the visibility check
under the ticket lock commits on a case still shown.

### What stays with TLC

Every safety invariant, action property and refinement that a passing run checks
is stated by a theorem. Only model-checked are the liveness properties
(`DecisionDelivered`, `GiveUpAnnounced`, `RunsSettle`, `Delivered`,
`LateAnnounced`, `ChasedUntilSettled`, `EndsWithStripe`): TLAPS reasons about
safety, and proofs from fairness need `ENABLED`. The properties of section 6 are
false; `ExecutedOncePerResumer` and `SilenceHasACause` bound how false.

## 5. Not modelled, and why

`PROJECT.json` "components" names every part. Most of the repository is pages,
forms, reports, adapters and single-transaction record keeping: there is no
order of events in it for a model to say anything about, so the share of the
lines the map covers stays low whatever is added. What would be worth a module
next, in this order:

1. **Monitoring and incidents, heartbeat and error alerts**: an outage opens an
   incident at exactly the third failure, so a worker that dies between counting
   it and opening (`apps/worker/src/jobs/monitor-check.ts:13-15`) leaves that
   outage without one; `noteSystemError` writes back a map of signatures it read
   before (`core/heartbeat/alerts.ts:116-123`), so two different errors at once
   forget each other's hour.
2. **Portal purchases**: like `Signups`, without the claim's age: a crash after
   the claim is never completed (`core/portal-purchases/complete-purchase.ts`).
3. **Raising invoices**: `due-invoices.ts:78-92` reads before it inserts.
4. **Tasks** (generation per period), **site builds** (stages), **push**.
5. Within modelled components: drafting and editing of proposals and invoices,
   planning a content month, ticket acknowledgements, escalation, assignment,
   CSAT and the first-response clock, opening a checkout session.

Left out for good: rendering, reports, search, adapters, configuration and
access checks of one request. The adapters appear as what the callers observe
(accepts, refuses, times out, skips).

### Gaps the models contain and no property excludes

They were met while reading; a property that forbade them would be false, and
no document promises otherwise, or the promise is too vague to refute.

- *Agent runs.* Deciding the card of a run that failed while parking is
  recorded and dropped. A retried `agent.run` job opens a second run. A crash
  between a give-up alert and its marker repeats the alert
  (`resume-sweep.ts:261`).
- *Messages.* A claim's snapshot written back drops a marker set meanwhile
  (`send-queued-message.ts:539`).
- *Invoices.* Two staff requests on a stale read turn paid into void or back
  (`invoices.ts:241`); `OnlyAllowedMoves` excuses them by `overruns`. A draft paid
  in full is only flagged; sent later, it is chased. A notification lost after
  the chase's commit (`overdue.ts:191`) is not repeated.
  The sweep asks for the last chase ticket only (`overdue.ts:135`), so an older
  one that staff reopen (`update-ticket.ts:56`), or the last one reopened between
  the read and the commit, stays open beside the next: `overdue.ts:48` says "One
  open chase per invoice", and then explains it by the last ticket.
  `OneOpenChase` holds of the chases nobody reopened.
- *Subscriptions.* A decided change whose web request dies before `Apply` is
  never applied.
- *Signup.* An import, or a claim that is retaken, can leave a second, empty
  client behind (`signup.ts:276-279` says two callers cannot make two; the
  second comes from the import, or from the claim's age). A crash within the
  five minutes is answered as already completed.
- *Proposals.* A payment whose claimant dies before filing is never filed. The
  send sweep queues an unstamped card again every two minutes; one sender makes
  that harmless.
- *Content.* An edit read before an approval can be written after it, so the
  words that go out are not the words that were approved (`items.ts:138-140`);
  the model has no words.
- *Meetings.* A late move brings a cancelled call back; a reminder list read
  before a move claims the stamp of the new time, and the guest is reminded of
  it early, still once (`RemindedOncePerTime`); two marks of a no-show mail
  twice; the buffer between calls is only read, never enforced.
- *Support.* A mail leaves a case in `waiting_client`, a portal answer reopens
  it; two mails at once on a closed case open two; a portal answer on a stale
  link reopens the old case; `updateTicket` writes back a status it read before
  (`update-ticket.ts:56`); a breach may be announced for a case answered
  meanwhile (`first-response.ts:83-98`). `ClientHeard` excuses the messages this
  happens to (`missed`), and no other.

## 6. Where the code and its documentation disagree

Each has a run that exhibits it; `PROJECT.json` "findings" quotes the lines.

1. **A spent decision can be carried out twice** (`agent_twice`). `reopen`
   claims the run if it is parked, not if it is parked on the call that
   `loadParked` read. With two live handlers, one can execute the first call
   and park on the second between the other's read and its claim. With one
   handler at a time it cannot happen (`ExecutedOnce`).
2. **The stuck sweep can fail a working run** (`agent_stuck`): its UPDATE asks
   for `running` again, but not for the silence it acted on.
3. **A deleted rejection strands its run** (`agent_deleted`): the sweeps and
   `loadParked` all need the card, and nothing notices it is gone.
4. **A failed message can go unannounced** (`outbound_silent`): the audit
   insert between the write and the announcement is not guarded.
5. **A message can be announced as never sent while it is being sent**
   (`outbound_false_alarm`): the list is read once, and each row announced
   after every earlier one was awaited.
6. **An accepted proposal's follow-on can be stamped and never queued**
   (`follow_on_lost`): the client accepts in the web process, whose sender was
   never installed; the default sender returns, the stamp is written, and the
   sweep that repairs lost enqueues looks for proposals without the stamp.
