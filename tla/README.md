# Verification of the private access bot

The bot sells access to private Telegram channels. A user pays with Telegram Stars or through Crypto
Pay, gets a subscription and an invite link, is warned before the end, and is removed from the channel
when a grace period after the end is over. Around this the bot sends broadcasts, rewards referrals, runs
a support desk, and looks after itself: backups, alerts, reports, reminders. This directory holds TLA+
models of these parts, TLC runs that check them on small instances, and TLAPS proofs of all their safety
properties.

`tlc -config <run>.cfg <MC module>` checks a run, `tlapm <module>.tla` the proofs of `AccessProofs`,
`InvitesProofs`, `CryptoPayProofs`, `CheckoutProofs`, `ReferralProofs`, `BroadcastProofs`,
`SupportProofs` and `UpkeepProofs`. `PROJECT.json` lists the runs, maps every definition to the lines it models, and lists
the hazards, the findings and the theorems.

## 1. The system

The program is one asyncio process over one PostgreSQL database (SQLite in local tests). aiogram starts a task
for every update, so handlers interleave at every `await`; aiohttp does the same for webhook
requests; one more task, the scheduler, runs the workers one after the other, for ever. Every handler,
request and pass has a database session of its own, with `autoflush=False`, under READ COMMITTED, and
no code takes row locks or keeps version columns: an ORM object is read, kept, changed and written
back column by column at the commit. Most of what is hard in this code follows from that; the rest from
what a commit cannot roll back, messages, bans and files.

| component | state | operations | interacts with | module |
|---|---|---|---|---|
| subscriptions (`services/subscriptions.py`) | table `subscriptions` | activate or extend; the queries of the expirer | both kinds of payment, promo codes, manual grants | Access, Checkout |
| expirer (`workers/subscription_expirer.py`) | marks of a row: warned, noticed, grace, revoked; membership in Telegram | one pass: warn, notice, revoke | scheduler, Telegram | Access |
| invite links (`services/invites.py`) | table `invite_links`, Telegram's links | issue or hand out again | payments, promo codes, Telegram | Invites |
| Stars payments (`payments/stars.py`, `routers/user/payments.py`) | table `payments`, charge id UNIQUE | invoice, pre-checkout, successful payment | Telegram, tariffs, promo codes, referrals | Access, Checkout, Referral |
| promo codes (`promo_service.py`) | tables `promo_codes`, `promo_redemptions` | apply, quote, use up, disable | payments, subscriptions | Checkout |
| tariffs (`tariffs.py`) | table `tariffs` | purchase check, edits | payments | Checkout |
| Crypto Pay (`payments/crypto_pay.py`) | table `crypto_invoices`, the provider's invoices | order, webhook, reconciliation | webhook server, scheduler, subscriptions | CryptoPay |
| referrals (`referral_service.py`) | columns of `users` | bind, grant, use reward days | both kinds of payment | Referral |
| broadcasts (`services/broadcasts.py`, `workers/broadcast_sender.py`) | a draft in the FSM storage; tables `broadcast_campaigns`, `broadcast_deliveries` | the wizard, the pass | scheduler, Telegram | Broadcast, Mailing |
| support desk (`support_ticket_flow.py`, `web_admin_dashboard_support_actions.py` ...) | tables `support_tickets`, `support_messages`; signed tokens | write, reply, close, reopen, triage | Telegram, dashboard | Support |
| backups, channel guard, reports, retention | `backup_records`, files; a fingerprint in memory; `audit_logs` | a pass each, and backups by hand | scheduler, Telegram | Upkeep |
| scheduler (`workers/scheduler.py`) | its place in the loop | runs the passes, catches what they raise | every worker | fairness of the modules, Upkeep |
| rate limiter and other middlewares | counters in memory | drop, pass on | every handler | not modelled |
| roles, onboarding, texts, web cabinet, dashboards, analytics, health | their tables | screens and views | | not modelled |

What makes each part correct, and hard:

- Subscriptions and expirer: a payment adds its days once; nobody is removed before the paid time and the
  grace period are over; a renewal clears what belonged to the old end; access ends after all.
  Hard: renewals against a pass, two payments at once, members removed by a pass that rolls back.
- Invite links: who is in the channel has a subscription. Hard: a link lives on its own, and no pass
  looks at a revoked row again.
- Stars: what was paid is booked, or not, and the discount with it. Hard: everything the pre-checkout
  verified may change before the booking, and a redelivered update is handled twice.
- Promo codes: limits, one discount per redemption, first purchases. Hard: the checks count rows
  that other sessions are about to insert.
- Crypto Pay: an invoice is booked once, whichever of webhook and reconciliation comes first; a paid
  invoice is booked in the end. Hard: a batch in one session, with failures in the middle of it.
- Referrals: a reward for the first payment, once; no day lost or used twice. Hard: the store is
  read, added to and written back inside payment sessions that overlap.
- Broadcasts: every recipient is settled, once; totals are those of the rows; what is queued is what was
  previewed. Hard: marks follow the messages, answers get lost, old buttons keep working.
- Support: one open ticket; the desk knows who waits for whom; a token answers once. Hard: messages
  handled out of order, checks before inserts, tokens that stay valid.
- Housekeeping: backups are kept; nobody is told twice. Hard: what is remembered is committed after
  what was done.

## 2. The modules

### Access (core)

| TLA+ | code |
|---|---|
| `subs`, `payments`, `paidAt` | tables `subscriptions` and `payments`; `message.date` or `remote.paid_at` |
| `sessions`, a record of handler, charge and the row as read | the session of a payment handler |
| `cycle`: phase, time, the rows still to remove, the columns changed so far | the session and the locals of `process_expired_subscriptions` |
| `member` | what the channel is to the user: `out`, `member`, `banned`, or `forgotten`, still inside after Telegram said that it knows no such user or chat |
| `BeginPayment`, `CommitPayment`, `RollbackPayment` | `process_successful_stars_payment` and the paid half of `sync_crypto_invoice`, split where the row has been read and where it is written |
| `StartCycle`, `SendWarnings1`, `SendNotices`, `ListRevocations`, `RemoveMember`, `FailRemoval`, `CommitCycle` | the phases of a pass |
| `FailCycle`, `Crash` | the `except` of the scheduler; the death of the process |

A commit is an UPDATE of the columns that changed in the session, over whatever the row is by then
(`Extended`, `Processed`); a column that was NULL when it was read and is set to NULL is not written.
`write_audit_log` flushes, so rows that a pass has audited are locked until it commits, and payments that
need them wait; the rows of the phase that is sending messages are not locked yet (`Locked`), and a
renewal may commit between their query and their flush. An answer such as "chat not found" counts as a removal
in the code (`ABSENT_MEMBER_FRAGMENTS`), so `RemoveMember` has three outcomes: the user is out; the ban was
answered so and he is still inside; the unban was, and he stays banned. In all three the row is revoked. `paidAt` is apart from `now`: a payment may be handled any time after
it was made, and repeatedly.

`overlap` and `credits` are history variables. `overlap` becomes true, for good, when two sessions are
open at once; a property that starts with `~overlap =>` (their names start with `Serial`) is about
the histories in which every handler and pass ran alone. Those without it hold in every race. The
other modules use the same convention.

In Access anybody who ever had a subscription may `Join`; which links there are is the matter of Invites.

### Invites, composed with Access

Invites extends Access by the table `invite_links` and the handlers that wait for
`bot.create_chat_invite_link`. `RequestLink` is `issue_subscription_invite_link` up to that call,
`GrantLink` and `RefuseLink` what follows it; `JoinWith` is `Join` with a link that Telegram still
accepts. A valid link, used or not, is handed out again without any change of state. All other actions
are those of Access, unchanged (`Elsewhere`, `Expirer`, `Restart`), which is why Invites implements
Access and every theorem about Access holds of it. How often links are asked for is bounded
by `MaxLinks`. The history variable `entered` is when each user last came in.

### CryptoPay

The rows of `crypto_invoices` and their status at the provider. `BeginOrder` and `CommitOrder` are
`buy_crypto_tariff` with `create_crypto_invoice`; `BeginWebhook` and `CommitWebhook` are
`crypto_pay_webhook`; `StartPass`, `SyncNext`, `FetchFails`, `Book` and `CommitPass` are
`reconcile_active_crypto_invoices`, one invoice at a time. The pass has two steps for a paid invoice,
because a webhook may book it between the look at table `payments` and the INSERT. `Book` keeps the
difference between its three outcomes: booked, overflowed (audited, with the status that was set
before it), or a violated UNIQUE constraint, which poisons the session and loses the batch. The
activation itself is a credit; module Access has the subscription.

### Checkout

What a purchase depends on besides time: kinds of tariff, prices, promo codes. `PreCheckout` is
`pre_checkout_handler` together with the charge that follows; `BeginBooking`, `RefuseBooking` and
`CommitBooking` are `successful_payment_handler`; `BeginGrant` / `CommitGrant` and `BeginApply` /
`CommitApply` are `apply_promo_code` for free days and for discounts; `Reprice`, `ToggleTariff` and
`EndPromo` stand for the administrators. A row is live or not and endless or not; an amount is the
number of price edits of its tariff. Access and Checkout model `activate_or_extend_subscription` from two
sides: Access its time and marks, Checkout its tariffs.

### Referral

The referral columns of `users` and the sessions that read and write them. `BeginBind` / `CommitBind`
are `bind_referrer_for_user` on `/start`; a payment session goes from `BeginPay` (the buyer's row and the
days to use are read) over `Book` (the payment is flushed, the referrer's row read) to `CommitPay`, or is
refused or fails. It matters which copy of a row is written: the Stars handler holds on to
the buyer's object, which the identity map of its session returns to later reads;
`sync_crypto_invoice` does not and reads again (`OwnRow`).

### Broadcast and Mailing

`Mailing` is the abstract specification: a mailing is queued with its recipients, is under way alone,
settles each of them once, as reached only when Telegram showed him the message, and closes when
nobody is owed an answer. It knows neither batches nor retries, sessions or restarts.

`Broadcast` is the code. The wizard: a draft in aiogram's memory storage, and handlers that read it in one
step and write in a later one (`BeginPreview` / `EndPreview`, `BeginTitle` / `EndTitle`,
`BeginConfirm` / `CommitConfirm`), so that two clicks run side by side and a button of an old preview
works on the draft of now. The audiences: `Recipients` filters users by role, block, link,
trial and end of subscription, at the moment of the confirmation. The worker: `PickCampaign`,
`ListBatch`, `Send` (one attempt, with the answers Telegram gives, the answer that is lost included),
`CommitBatch`, `CountPending`, `Report`, each as the code commits; `FailPass` and `Crash` anywhere.

The mapping takes the tables for the mailing and `copies` for what has reached whom; what a pass holds in
its session maps to nothing. Both TLC (property `MailingSpec` of MCBroadcast) and TLAPS
(`ImplementsMailing`) check it.

### Support

Tickets and messages, and sessions that begin (checks, reads) and commit. `at` is Telegram's time of
a message, up to `MaxDelay` before it is handled; a session that closes or reopens takes its time when it
begins. `WaitingState`, `Breach`, `ActionLane`,
`EscalationLane` and `RankedBefore` are the rules of `support_sla.py` and the queue ranking (of which the
warning bucket and the priority decide nothing between two tickets of one scope); `Scope`
and `Sample` what a triage preview selects; `Preview` issues a token, `BeginApply` verifies it
and looks at its scope again, `CommitApply` writes the replies. The signature itself is not modelled:
a token is one that the preview issued.

### Upkeep

The loop of the scheduler as turns (`After`): daily backup, channel guard, daily and weekly report,
retention; and the administrator's backup beside it. A backup is begun, archived, pruned,
committed, delivered and marked step by step, since files are unlinked before the commit that says so.
Guard, reports and retention share one session record, `notice`: who is to be told, `Tell` for each,
then `Finish`, which commits the audit rows or keeps the fingerprint in memory. An audit row's time is
that of its transaction's start, which `Stamp` keeps apart from the time of the message. `Outage` and
`Recover` are getMe: without it the guard finds nothing and clears its fingerprint, so an alert comes again
for an unbroken incident. An outage is a mishap like a lost answer, and the history `told` forgets an
alert only when the guard has seen that its issues are gone.

## 3. The runs

| run | instance | checks |
|---|---|---|
| MCAccessOverlap | 1 user, 2 charges, 2 handlers, 4 ticks, one mishap; Days 2, warnings 2 and 1, Grace 1 | all safety properties of Access (2.6 million states) |
| MCInvites | 1 user, 2 charges, 1 handler, 1 issuer, 2 links, TTL 3, Days 1, Grace 1, 3 ticks, one mishap, fairness | links; only who came in late is not served; grace periods start and end, with failures and restarts |
| MCCryptoPay | 2 buyers (one endless), 2 invoices, 2 handlers, TTL 2, 3 ticks, one mishap, fairness | credits, statuses, and booking by the pass alone |
| MCCheckout | 1 user, 2 handlers, 2 charges, 3 kinds of tariff, 3 codes, 3 redemptions, 1 edit, 1 mishap | discounts, limits, lifetime access |
| MCReferral | 3 users, 4 charges (Crypto Pay and lifetime among them), 2 sessions, 1 failure | rewards and their store |
| MCBroadcast | 2 recipients and an admin, 1 text, 2 audiences, batches of 1, 2 attempts, 2 campaigns, 5 steps in the wizard, 1 incident, fairness | all properties of Broadcast, the refinement, completion |
| MCSupport | 1 user, 2 tickets, 3 messages each, 1 token, 2 sessions, late messages | open tickets, who waits for whom, tokens |
| MCUpkeep | 1 user, 2 admins, 1 issue, 2 days, 2 changes, 3 archives, 1 mishap, which may be an outage of getMe | backups, repeats |
| MCAccessRemoved, MCAccessDays, MCCheckoutTrial, MCInvitesForever | smallest instances | each finds the counterexample of one finding |

Why the bounds are enough. Rows of different users meet only in the batches of a pass and in its locks,
and two rows of one user do the same, so one user with two payments (two rows, or a row and its
extension) has every kind of conflict: extend against extend, create against create, extend
against pass. Two ticks of subscription, one of grace and four in all let a row be bought, warned, noticed,
renewed in each phase, or ended and revoked; with MCInvites' subscriptions of one tick a renewed row is
revoked too. `BatchLimit` 1 with two rows makes the limit bite.
MCInvites has links that outlive the end and the grace period of one tick each, so that somebody does come in
late; more issuers are covered by the proof of `OneLinkPerHandler`.
Two invoices are a batch whose second half can be lost by the first. Three codes are a discount, a
discount for first purchases and free days; three redemptions are one more than the limits allow.
Two campaigns are one that is sending and one that waits, two recipients in batches of one are two
passes, and one incident is one of each kind, anywhere. Three users bind in a chain. In
Support two tickets with delayed messages cover every order of two messages and a reply. Two days
of two ticks make every daily job due twice. The constants that start with `Max` only bound the state
space; they are guards of the actions.

Two runs have a CONSTRAINT, both named `MCBound`. In MCUpkeep backups, messages to admins and
messages to users share nothing but the clock and the turns of the loop, so a behaviour is followed
in one of the three only. In MCCheckout what comes after an overlap is followed with one tariff and two
codes and without edits: the Serial properties ask nothing there, and the others are about the limits of codes.

Symmetry is declared for charges, handlers and admins where no liveness is checked. Checkout, Broadcast,
Support, Referral and Upkeep have `CHECK_DEADLOCK FALSE`: charges, campaigns, messages and time are
bounded, and all may have been used up.

Each property has a mutant beside the definition it changes (`PROJECT.json`, "mutants"): a bug of the
kind one would write there, under which the run reports the property as violated.

A Serial property says nothing of the race beside it. Where a race has a bound of its own a property states it
(`DaysConserved` as a finding, `LimitsExceededBySessionsOnly`, `GrantsArePaidFor`, `OneLinkPerHandler`);
where it has none, two open tickets, a used redemption cancelled, a notice sent while a renewal is being
handled, nothing in the code prevents it and no document rules it out: the hazard is listed with that
note and without a property.

### Fairness

`run_background_workers` loops for as long as the process lives and catches everything that a pass
raises, so a pass that can take a step takes one: `WF(Expirer)` in Invites, `WF(Worker)` in CryptoPay,
`WF(Pass)` in Broadcast. Time passes, and the provider expires invoices. Nothing is assumed of users,
payments, webhooks, administrators or handlers; a message that Telegram does not deliver and a request
that fails are choices of the environment, and failures that repeat a pass are bounded, without
which no grace period need ever end and no campaign complete.

### What the violations show

1. `RenewedNotRemoved`: a renewal that commits after the pass has listed the rows to revoke does not stop the
   removal; nor does it when the renewal is a second row beside a lapsed one. Without overlap and with
   payments handled before their subscription is revoked it cannot happen: `SerialRenewedNotRemoved`,
   run and theorem.
2. `DaysConserved`: of two payments handled at once, the later commit overwrites `expires_at`.
3. `TrialOnce`: renewing a trial with another tariff erases that it was a trial.
4. `MembersServed`: a link asked for shortly before the end, and followed after the revocation, lets
   the user in for good. The defaults allow it, 24 hours of link against 6 of grace. That it happens in this
   way only is `SerialMembersServed`, run and theorem: whoever is in the channel without a subscription came
   in when the grace period was over, with a link that still lived.

Met while modelling, without a run of their own, since no document promises otherwise or the models keep
them as choices: a pass that sends the notice while a renewal is being handled leaves a renewed row that
is marked as noticed and has no grace period, so that access is never revoked (hence the *Serial* in
`SerialGraceStarts`); an invoice paid shortly before its end is not listed by the next pass (hence
`InTime`); a check that fails after the money was taken leaves the charge without payment; a used
link is handed out until it ends; a user the channel claims not to know stays in it, or stays banned, and
his row is revoked; the retention queries read audit rows without ORDER BY and see the time of the
transaction's start in them.

## 4. The proofs

All theorems hold for any values of the constants that satisfy the module's assumption: durations and
sizes are natural numbers, those that must be positive are positive, what is counted is finite (users in
Referral and Broadcast, handlers in Checkout), and in Referral the value that stands for no referrer is
neither a user nor a charge. Every invariant and every action property that a passing run checks is a
theorem, and so is the refinement of Mailing. `TypeOK` of CryptoPay and of Upkeep is proved only, no run
repeats it.

**AccessProofs**, whatever overlaps: `TypeOK`, `CreditedOnce`, `ServedBeforeRevoke`, `ServedBeforeRemoval`
and `RevokedIsFinal`. The idea: sessions write stale values, so no bound on the end a row has *now*
survives a race. What does survive is a bound from below by `started_at`, which no code changes: every
end that a row or a session's copy of it ever has is at least `started + Days`, and every grace mark at
least `started + Days + Grace`. `IInv` says so of the rows (`RowsOK`), of the rows as sessions read them
(`SessionsOK`) and of what the open pass is about to write (`CycleOK`: a row it marks has ended at
`cycle.at`, a row it revokes is past its grace mark, and `cycle.at` is not after `now`). A commit then
combines values that all obey the bound, whichever came first.

**AccessProofs**, while sessions do not overlap: `SerialOneCurrent`, `SerialMarksMatchEnd`,
`SerialDaysConserved` and `SerialRenewedNotRemoved`. `SInv`: a session's copy of a row is the row
(`Fresh`), a pass and a payment session are never open together (`Alone`), and so the marks of a row
(`RowsTimely`) and those a pass holds (`PassTimely`) are of the end it has. `LapsedFollowed` is needed
because a late payment closes a row that has ended and adds another: the closed row is followed by one
that starts no earlier than it ended.

- Days. The days of a user are a set of pairs of row and tick, `DaysOf`, so that no sum over rows has to be
  defined by recursion. Each commit that credits a charge adds one run of `Days` pairs (`Run`), after the end
  the session has read, which is the stored one, or in a row of its own: in both cases disjoint from what
  there was (`RunAdds`), and `DInv` follows by cardinalities.
- Removals. A pass removes on account of a row that is live and past its end (`PassTimely`), so it is enough
  that no row of the user but the last is live (`LInv`). That holds as long as his rows follow each other
  in time (`InOrder`). TLC found that it fails otherwise, without any overlap: a payment handled only
  after the revocation of the subscription it belonged to starts a row that has ended already, but is not
  the latest; the next purchase leaves it live, and its grace period ends in the middle of what was
  bought. `InOrder` once lost is never regained, which makes the implication inductive (`Ages`).

**InvitesProofs** proves `ImplementsAccess` (every step of Invites is one of Access or leaves its
variables alone), `OneLinkPerHandler` (a waiting handler holds no valid link of the subscription, and
the clock only takes validity away) and `SerialMembersServed`, for any lives of links and grace periods. For the
last, a link ends less than `TTL` after its row's end, an end that is not moved back (`GoesOn`). Who follows it
before the grace period is over finds a row that cannot be revoked yet, nor be in the hands of the open
pass, or, when it has lapsed, the row that took its place; who follows it later has come in late, and
stays so (`HoldersAreServed`). Where links live no longer than a grace period nobody can come in late, and
every member has a subscription. A user the pass was told does not exist is not counted.

**CryptoPayProofs** proves `TypeOK`, `CreditedOnce` and `MarkedPaidIsBooked`. The pass holds writes of a whole
batch while webhooks commit; what keeps them apart is that a row it has flushed is held by the
database. `PassOK`: an invoice the pass has booked has no payment yet, and one it has set to paid
is booked, has its payment, or belongs to a buyer who cannot be extended.

**CheckoutProofs** proves all properties of Checkout. The limits of a code are checked long before
the row that counts against them is inserted, so what is bounded is a sum: the redemptions that count or
that an open booking will make count (`Held`), and the handlers that have passed the checks and will add
one (`Adding`). `Within` keeps it below the limit and the number of handlers; a check that passes leaves
room for every handler, and a commit moves one from the second term to the first. The Serial
properties follow from what an open session has checked being still so when it commits (`Fresh`), since
only its own commit could change it.

**ReferralProofs** proves `TypeOK` and `GrantsArePaidFor` whatever overlaps, and `SerialDaysBalance` and
`SerialFirstPaymentRewards` while sessions do not. A session writes a value computed from an old copy,
so the store alone has no inductive bound; but granted days never decrease, so whatever a session has
read is covered by them, and so is what it writes (`Covered`). Alone, a session writes what it computed
from what is stored, and the days balance exactly.

**BroadcastProofs** proves `TypeOK`, `CountersMatchRows`, `CopiesNeedMishaps`, `ReportedOnce`,
`SerialQueuedAsPreviewed` and `ImplementsMailing`. The invariant ties the session of a pass to the
tables: what it is about to send, or has marked, are pending rows of the one campaign that is sending; a
copy beyond the first of a row that is still pending has cost a mishap, unless the session has marked
it. `QInv`: with one handler at a time, a text in the draft has been shown with the audience the draft
has, every handler is abreast of the draft, and no two campaigns were queued from one draft. `ImplementsMailing` is `Spec => MailingSpec` with the mapping of the
instance written out, one lemma per step that changes the mailing and one for those that do not.

**SupportProofs** proves all properties of Support. The two time columns of a ticket are the times of the
last message stored of each side, in whatever order messages came (`ColumnsOK`), so where they came in order
comparing the columns compares the messages: `WaitingIsUnanswered`. `SerialTokenAnswersOnce` needed the
same hypothesis, which an attempted proof brought up and TLC confirmed with a fourth message: a message
stored after a reply to it moves the columns apart, the ticket is back in the scope of a token that has
answered it, and is answered again. Two theorems go beyond the runs: `TokensAreHeads`, an action property,
says of every token at the step that issues it that its tickets, the one in focus apart, are ranked before
all that it leaves out of its queue, and that it leaves none out unless it is full; `TokensAreBounded`, that
a token covers at least one ticket and never more than `SampleLimit`. Both rest on lemmas about the
first elements of a finite set with a strict total order (`FirstAreFew`, `FirstComeFirst`, `FirstAreAll`).

**UpkeepProofs** proves `TypeOK`, `BackupsKept` and `RepeatsNeedMishaps`. Backups (`BackupInv`): an archive is
as old as its record and not from the future; the archive of a job is not yet recorded, or recorded
with the time it has; what a job is about to mark as pruned has no file; of a day there is one daily backup.
Messages (`NoticeInv`, `RepeatInv`): each is remembered by an audit row, by the fingerprint or by the
pass that sent it; one that is remembered nowhere was forgotten by a mishap not yet counted in its repeats.
While getMe does not answer the fingerprint is cleared pass after pass, at no further cost, so for that time
every alert has to leave one mishap uncounted, also one that an open pass is about to send (`OutageInv`).

Only model-checked: liveness. `GraceEnds`, `SerialGraceStarts`, `InTimeIsBooked` and
`EveryCampaignCompletes` rest on fairness and ENABLED, which the prover does not reach.

## 5. Not modelled

- Middlewares. The rate limiter counts events in memory and drops the rest, a `successful_payment` among
  them; nothing else depends on its state.
- Texts, keyboards, offers, analytics, dashboards, the contents of reports and archives, health: views and
  input/output. Admin roles: one row, written in one handler.
- Manual grants, `activate_or_extend_subscription` once more, and links issued by hand.
- Leaving the channel of one's own will: it only takes members away.
- Several channels: rows of different channels are as independent as rows of different users.
- Row locks beyond those of the expirer and the reconciliation pass: a payment handler flushes just before
  its commit and holds its locks for that long only, so its writes are one step.
- A SQLite database, which serialises writers: the models allow what PostgreSQL allows.
- Archives made in the same second, which share a file name.

Hazards without a property, each with its reason in `PROJECT.json`: rows that always fail at the head of
each batch (`db/repositories/subscriptions.py:147`), unpaid invoices that crowd out younger ones
(`crypto_pay.py:461`), payments dropped by the rate limiter (`rate_limit.py:55`), races of which the code
makes no promise (`subscription_expirer.py:249`, `promo_redemptions.py:130`, `support_ticket_flow.py:137`),
and two ends of an invoice that only a webhook can still book, or nobody (`crypto_invoices.py:82`,
`crypto_pay.py:277`). That a ban is lifted in the end is not covered either (`subscription_expirer.py:115`).

## 6. What is left

1. `RateLimit`, a small sequential state machine in front of the handlers of Checkout.
2. An abstract `Entitlement` (paid days in, access out) that serial histories of Access implement.
3. Manual grants and their links, as one more kind of session in Access.
4. The mapping from Access to Checkout: both model `activate_or_extend_subscription`, from two sides.
