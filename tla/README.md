# MillionBlogs: formal models

TLA+ models of the MillionBlogs backend (`src/src`, a NestJS application over PostgreSQL
through Prisma), the TLC runs that check them on small instances, and proofs, checked by
TLAPS, of what holds for every instance.

    tlc -config MCWallet_race.cfg MCWallet.tla      # one run
    tlapm CreditProofs.tla                          # one module's proofs

`PROJECT.json` lists the runs, the source lines of every definition, the hazards, and for
every property a mutant of the code that breaks it.

## 1. The system

An HTTP API in one Node process (or several behind a load balancer); all state is in
PostgreSQL, except the queues and locks of the feed scheduler, which live in the process.
A request handler is a chain of `await`s, so two requests interleave at every statement; `prisma.$transaction`
gives atomic commit but, at READ COMMITTED, no isolation of reads. What protects the data
are conditional updates (a version or a counter in the `WHERE`), unique indexes, and row
locks held from an update to the commit.

| Component | State | Operations | Talks to | Hard behaviour | What makes it correct |
|---|---|---|---|---|---|
| Wallet | wallet row (two balances, total, version), ledger of transactions | create, credit, debit, hold, release, refund, adjustment | called by payments, promotions, administrators; publishes events | concurrent calls on one row, retried keys, events written outside the transaction | the ledger explains the row, no overdraft, a key is posted once |
| Founder programs | seats, used-seat counters, status, badge | claim, upgrade, close | publishes events | the last seat, upgrade against upgrade, claim/upgrade deadlock, close against claim | counters = seats, no oversell, no seat lost |
| Payments, Stripe | payment rows, recorded webhook events | open intent or checkout, handle webhook | Stripe; wallet, subscriptions, events | duplicated, reordered, lost deliveries; failure between commits | one handling per event, credit matches payment |
| Subscriptions | status, period, grace end, invoices | create, activate, renew, cancel, expire, grace, suspend, extend, renewal job | payments, plans | job against user, unguarded status writes, double charge | one active per user, no renewal without payment |
| Promotions | campaign status, end, counters; recorded views | create, activate, pause, complete, cancel, expire, record a view | wallet | debit without campaign, stale status writes, racing counters | a campaign has its debit; the counters are the views |
| Domain events, outbox | `outbox_events` | publish, process, retry, clear | every service | overlapping passes, crash between emission and mark | at least once; nothing dropped |
| RSS feeds, scheduler | feed rows, logs, sync locks, queues, dead letters | add, change, delete, sync, timer cycle, retry | articles | long syncs against requests, shared promises, crash of the process | no outcome lost, an entry reported once, every call answered |
| Authentication, sessions, brute force | users, sessions, reset tokens, attempt rows | register, login, refresh, logout, reset, revoke | notifications | parallel refresh, reset against login, racing attempt counts | an exchanged session is dead, a reset ends what was before, a block is deserved |
| Blogs and their verification | blog status, trust, owner, deletion; verifications | create, delete, administer, initiate, check, assess | the blogger's site, DNS; events | two verifications at once, deletion under way | verified only with a decision, few tokens pending |
| Articles, jobs | article rows; queue entries | import, update; enqueue, process | feeds | concurrent imports | - |
| Feature access | none | resolve | founder, subscriptions, plans | precedence | - |

Plans, badges, feature flags, users and roles, notifications, support, activity and audit
logs, search, SEO, backup, configuration, health and the frontend are single-row CRUD,
append-only logs, queries, or I/O: they have no protocol to check and are not modelled.

Some code has no caller in the repository: `WalletService.hold`, `release` and `refund`,
`startAutoSync`, `SessionsRepository.deleteExpired`, the outbox's clean-up, `JobService.enqueue`
and the content pipeline; renewals and campaign expiry run only from administrators'
endpoints. Calls of a modelled service are modelled as its interface, whoever may make them.

## 2. Modules

| Module | What it is |
|---|---|
| `CreditLedger` | abstract: a credit statement where each call is one step |
| `Wallet` | the wallet service and its tables, statement by statement |
| `SeatSale` | abstract: seats sold and exchanged in one step |
| `Founder` | the founder service and repository, statement by statement |
| `FounderProofs` | theorems about `Founder` |
| `Payments` | purchases, Stripe, and the webhook handler |
| `CreditProofs` | theorems about `Wallet` and `Payments` |
| `Subscriptions` | subscription rows, requests on them, the renewal job, time |
| `SubscriptionsProofs` | theorems about `Subscriptions` |
| `Feeds` | feed rows, the sync of a feed, the scheduler's queues in memory, crashes |
| `FeedsProofs` | theorems about `Feeds` |
| `Auth` | users, sessions, password resets and counted login attempts |
| `AuthProofs` | theorems about `Auth` |
| `EventRelay` | abstract: a relay that emits what was handed over, at least once or gives up |
| `Outbox` | the event publisher and the overlapping passes of the outbox |
| `OutboxProofs` | theorems about `Outbox` |
| `Promotions` | campaigns, over `CreditLedger`'s promise, and their recorded views |
| `PromotionsProofs` | theorems about `Promotions` |
| `Blogs` | blogs, proofs of ownership and quality assessments |
| `BlogsProofs` | theorems about `Blogs` |
| `MC*` | instances for TLC: symmetry, values of function constants |

### How the code became actions

A statement that is awaited is an action; what the code does between two awaits belongs
to the action before. A client (`Clients`) is a request being handled; its record `tx[c]`
holds its phase, its arguments and what it has read. A transaction's writes take effect at
`Commit`; until then the rows it wrote are locked, and an action that needs such a row is
not enabled. This rests on two facts about the platform: Prisma turns an `update` whose
`where` has non-unique fields into one atomic conditional statement that raises P2025 when
no row qualifies, and PostgreSQL waits for the lock and evaluates the condition on the
committed row. `Fail` is whatever ends a handler early: an exception of a statement, the
transaction timeout, a lost connection, a crash, and the abort of a deadlock victim.

**Wallet.** `Begin*` are the calls with their argument checks, and for `release` and
`refund` the read made before the transaction; `Lookup` is the idempotency lookup;
`ReadWallet` the read with its checks; `WriteRow` the versioned update and the ledger
insert; `PublishEvent` the outbox insert, which is on a connection of its own; `Commit`
applies `NewRow` and appends `NewEntry`. Balances are integers (columns are 32 bits wide;
an overflow is an error of the database, thus `Fail`).

**Founder.** `BeginClaim` and `BeginUpgrade` are the service's checks, the other steps the
repository's transaction, `Announce` the events after the commit. `Deadlocked` is the
waits-for relation and `BreakDeadlock` PostgreSQL's detector. `OneLadder` assumes that
only one program can be upgraded to, as with the two programs `seedDefaultPrograms`
creates. It is needed: with a third tier, two upgrades of one user to different targets
could both run, and the second would count down a program the seat had left.

**Payments.** `Pay`, `Decline`, `Refund` and `Deliver` are Stripe; it emits an event once
and delivers it, in any order and to two workers at a time, until it is answered with
success. A worker goes through the statements of `handleWebhook` and of the handler of
the event's type, each committed by itself; handlers of four types share the actions. The
answer (`Acknowledge`) is a step after `MarkProcessed`: it can be lost in between.
The wallet appears as its promise (a set of posted keys). A purchase is worth at least one
credit. Names that `Wallet` also has carry a prefix here
(`PaymentsInit`, `DeliveryPhases`), because `CreditProofs` extends both. A customer can pay only what has a row, because the checkout address and the
client secret are returned after the insert. Signature checks are not modelled: the model
starts with verified events.

**Subscriptions.** A request is `Request` (or `BeginCreate`, `RequestExtension`), which
finds the row, checks its status and takes the time, and then one of the updates `Create`
to `EnterGrace`, unconditional as in the code; `CreateInvoice` follows `Renew`. A job is a
request whose `job[c]` has a stage and a list: `StartJob` reads the expiring rows, each
`AttemptRenewalPayment` begins a renewal or a grace period as a call (`FindAgain` is its
`findById`), `FindGraceExpired` and `ExpireNext` are the second loop. `Throw` is an error
that a job logs and survives, `Crash` one that ends it. `intents` counts payment intents
at Stripe; the code takes an intent for a payment and confirms none. `orders` and `granted`
are history variables. All subscriptions belong to one user and have one period; the
checkout's creations are in `Payments`, where they race. Cancelling a subscription that
the job is renewing may be undone by the job, as any update may.

**Feeds.** One process. A sync keeps the feed's entry of `syncLocks` from before its first
await to the end of its promise; others who ask join it (`joined`) and return with it.
`ReadFeed` to `CloseSync` are the statements of `executeSync` on the row read at the start;
an error goes to the statements of its `catch`. The timer's cycles (`StartAutoSync`) dequeue
and sync in turn and may overlap. Queues are counts of items for each feed; a document is a
sequence of entries, an entry its guid and URL. `Crash` restarts the process: rows stay,
locks, queues and dead letters are gone. Nothing calls `startAutoSync`, so in the model it
may be started or not.

**Auth.** A request is a caller whose record holds what it has read: a session, an attempt
row, a user. Tokens are sessions' names. An expired session is one that time has passed
(`Expire`); the attempt window likewise. Passwords are generations: a login carries the
password it was given.

**Outbox.** `Insert` is a publication: besides emitting at once, which the model leaves
out, it stores a row that a later pass emits (again); no caller passes a transaction, so
the row is a statement of its own. A pass
reads a batch, then emits and marks each row; nothing keeps two passes apart. An emission
succeeds or throws.

**Promotions.** The wallet is `CreditLedger`, which `Wallet` implements: a
debit with a known key answers the old transaction. `FindCampaign`/`WriteCampaign` are all
four status changes, the write unconditional as in the code; `ListActive` and `ExpireNext`
the expiry; `AddView` and `CountView` the recording of a view. Packages and the promotion
plan are reduced to a refusal, click rates are left out. An activation writes the end it found
(`call[c].end`), or a new one; time (`Pass`) ages both.

**Blogs.** A request is a chain of statements listed in the module's head. `FindBlog` is the
look-up every request starts with, `WriteBlog` the update by id that four of them end with;
the three ownership strategies share `FindToken` to `MarkVerified`, which differ only in
how the site is asked. `ordered` (administrators' orders) and `announced` are history.
Attempt counts and times are left out: nothing reads them.

## 3. Runs

| Run | Instance | Question |
|---|---|---|
| `wallet_race` | 1 user, 2 clients, 1 key, amounts 1-2, calls start while the ledger has < 3 entries (so it reaches 4) and the outbox < 1 | do racing calls keep the ledger, the balances and the keys right, and implement `CreditLedger`? |
| `founder_race` | 2 users, 2 clients, programs of 2 and 1 seats | the book of seats (counters, overselling, closing), lost seats, truth of events, `SeatSale`; does every call end although claim and upgrade deadlock? |
| `payments_race` | 1 purchase, by intent or by checkout, 2 workers, 1 failure | one handling and one announcement per event, nothing acknowledged unrecorded, credits match; is every event acknowledged? |
| `subscriptions_race` | 1 subscription, 2 callers, 4 requests or jobs, period and grace 1, time 0-2 | what unconditional updates and stale lists cannot break; does every request and job end? |
| `feeds_sync` | 1 feed, a document of 2 entries with one URL, 2 callers, 1 cycle, limits 2, batch 1, 3 requests, 1 failure or crash | are outcomes and entries counted once, dead letters deserved; is every call answered and every due retry served? |
| `auth_race` | 2 users, 3 sessions, 1 reset, 2 attempt rows, 2 callers, 2 attempts allowed, 5 requests, 1 failure | what holds of sessions, resets and blocks when requests race |
| `outbox_relay` | 2 events, 2 passes, 1 retry, batch 2, 1 failure | does it implement `EventRelay`; does every row settle? |
| `promotions_race` | 1 user, 2 kinds, 2 campaigns, 2 clients, budgets 1-2, page 1, grant 2, 5 requests, 1 failure | debits behind campaigns, counters against views |
| `blogs_race` | 2 users, 1 blog, 2 methods, 2 clients, 6 requests, 1 failure | is every verified blog backed, and are no more tokens pending than requests run? |

Bounds. Two clients are enough for every conflict of a row: each statement conflicts with
at most one lock holder, and a cycle of waiting calls needs two of them.
Two amounts let a debit take from both sides and be refused; a ledger of three entries lets
a release or a refund follow a credit and a hold or debit, and race with another call. A program of one seat has its last seat taken by a claim or an upgrade and refused
to the other user; one of two seats is filled by two claims. One failure is enough for a crash at each point of a handling and
for the retry after it; a second would repeat it. One event is enough to see an event of a rolled-back call.
A subscription that is activated, runs out, enters its grace period and
expires or is renewed needs two jobs and time 2; the fourth request is the one that races.
Two entries with one URL make the second a duplicate of the first within a sync; two
failures reach the dead letters and the state `failed`; three requests are an addition, a
sync and what races with it, the timer's cycle coming on top. Three sessions let a login, its refresh and
a racing second refresh or login exist together; two attempt rows and a limit of two let a stale
count overwrite a block. Two passes race for a row, one retry reaches the limit. Page 1 makes
an expiry overlook a campaign; a grant of 2 pays one campaign of budget 2 or two of 1, and
refuses more. On a blog, six requests are its creation, a token, a check, and an assessment, a
deletion and a restore around it; the kinds of verification share nothing across blogs, so
one blog is enough.

`CHECK_DEADLOCK FALSE`: every model can stop (all keys used, the ledger at its bound, all
seats sold, all events acknowledged, no requests left).

Fairness. Nothing forces a request to start, a statement to fail or a process to crash. A
call that has begun goes on: `WF` of its next step in Subscriptions, Payments and Feeds (Node runs every
continuation), `SF` in Founder, where it waits for locks that PostgreSQL grants in order
of arrival; `BreakDeadlock` is the detector of the database. Stripe keeps
delivering while an event is unacknowledged and a worker free (`WF` of a delivery, no event
preferred; deliveries of acknowledged events are not repeated, so the others come). Its
real schedule gives up after days: `EveryEventAcked` is about a service that recovers before. The feed timer
fires (`Timer`) while it is started, and the time of a retry comes (`Ripen`). Outbox passes
are started by an interval and go on (`WF` of `Pass`).

### Where the code and its documents disagree

| Run | Property | What TLC shows |
|---|---|---|
| `payments_lost` | `PaidIsCredited` | the retry of a half-handled event is taken for a duplicate |
| `promotions_paid` | `EveryCampaignCharged` | the debit's key names no campaign: a second campaign of a package and type is free (`docs/PROMOTIONS.md:41`) |
| `blogs_restore` | `RestoreHonoured` | `adminRestore` (`admin-blog.service.ts:88`) looks the blog up among those not deleted, so a deleted blog cannot be restored (`API_PLAN.md:185`, `SERVICE_CONTRACTS.md:661`, `AUTHORIZATION_MATRIX.md:67`; `blogs.repository.ts:77` and its test clear `deletedAt`) |

More are plain from one or two definitions and have no run:

- `UpdatePayment` overwrites any status, although a completed payment "should not change"
  (`DATABASE.md:717`); a checkout is credited under two keys, its own and its intent's
  (`DATABASE.md:1003`).
- `BeginRefund` does not look for an earlier refund (`DOMAIN_EVENTS.md:450`). An event of a
  wallet call that rolls back stays in the outbox (`DOMAIN_EVENTS.md:561`).
- A claim commits after an administrator closed the program (`founder.repository.spec.ts:82`).
- `Accepts` lets `activate` and `extend` revive cancelled and expired subscriptions
  (`docs/SUBSCRIPTIONS.md:10`); the job expires a subscription renewed meanwhile (line 33);
  two checkouts handled at once activate two (`subscriptions.service.spec.ts:108`).
- A feed's failure count is never reset by a success, so it becomes `failed` after ten
  failures in all (`docs/FEED_HEALTH.md:42` says consecutive); the end of a sync writes
  `active` over a pause or disabling made meanwhile; nothing starts the automatic sync
  (`docs/RSS_SYNC.md:46`), and a manual sync bypasses the queues.
- Two refreshes with one token can both succeed; a login or refresh under way survives
  `revokeAll`; a stale failed attempt can lift a block. Expired sessions are never cleaned
  up (`docs/SESSIONS.md:29`).
- Every event is emitted twice, by the publisher and by the outbox (`DOMAIN_EVENTS.md:494`,
  750).
- An expiry looks at the 20 newest active campaigns only; a stale write can make a
  cancelled campaign active; nothing stops a campaign whose budget is spent.
- A pending token never expires, so a lost one blocks its method
  (`DATABASE.md:1069`); after a crash between `MarkVerified` and `ConfirmBlog` the token is
  used up and the blog not verified. A suspended blog can be verified again by its owner.

`BonusDebtOnlyByAdmin` holds, but an administrator's negative adjustment does push the
bonus side below zero when the purchased side is positive (`wallet.service.ts:424`), which
`HOSTILE_REVIEW.md:223` does not expect.

Two claims of `HOSTILE_REVIEW.md` are refuted. Its line 315 fears that a failed upgrade
loses the seat for good: the update that finds no row raises, the transaction rolls back,
and `SeatNeverLost` holds (the branch that re-creates the seat is dead code). Its M-16
fears that racing deliveries handle one event twice: the unique event id prevents it
(`HandledOnce`, a part of `EventsOnRecord`).

## 4. Proofs

**CreditProofs**, the wallet: `TypeOK`, `LedgerExplainsRow`, `NeverOverdrawn`, `KeyPostedOnce`,
`BonusDebtOnlyByAdmin` and the
refinement of `CreditLedger`, for any users, clients, keys, amounts and bounds
(`WalletAssumption`). The inductive invariant adds to the properties what a running call
knows: after `WriteRow` the row still is the one it read, its new row is not overdrawn,
its key is new, and no other call holds the row or a pending insert of that key. It is
needed because `Commit` applies a row computed from a read made three steps earlier. The
refinement follows: `Commit` is `Post`, every other step a stutter. Two theorems go beyond
the runs. `AppendOnly`: a step leaves a ledger alone or appends one entry that leads from
the row's total to the new one. `UndoIsBacked`: each release or refund entry names an
earlier entry of its ledger, of a type it may undo and of its amount. Its invariant says the
same of calls under way; as ledgers only grow, what `BeginRelease` read outside the
transaction is still there at `Commit`. (It does not say that an entry is undone once: the
code does not see to that.)

**FounderProofs**: `TypeOK`, `SeatBook` (counters, overselling, closing), `AnnouncedIsTrue`,
`SeatNeverLost` and the refinement of `SeatSale`, for any users, calls
and seats (`FounderAssumption`, `OneLadder`). The delicate part is the upgrade, which
deletes the seat by user id and counts down the program it read earlier. The invariant
(`CallInv`) says of an upgrade that either the seat has not moved, or the counter of its
target has grown since it was read, and then its versioned update will fail; this holds
since the top program only ever grows.

**CreditProofs**, the payments: `PaymentsTypeOK`, `EventsOnRecord` (handled once, recorded when acknowledged,
published once) and `CreditsMatchEvents`, for any purchases, workers and failures. The inductive invariant
has three layers. A worker that handles an event is the only one, and the event is
recorded but not processed. What a worker knows at each phase (`Knows`): past the wallet
call, the credit is posted, so that `MarkProcessed` is right to claim it; one that is about
to answer has processed its event (`AnswersDone`). And `Counted`:
announcements are at most the recorded successes that no worker has still to announce; it
is needed because the announcement comes steps after the record that pays for it.

`payments_lost` shows that a paid purchase may go without its credits. Two theorems say that
nothing but a failure does it: while `failures = 0`, whatever is on record is processed or in
a worker's hands (`NothingForgotten`), and a success event that was answered has its credit
posted or about to be (`CreditedUnlessFailed`), however deliveries are repeated, reordered
and run at once. Left out is the intent's event of a checkout (`Unmatched`), which finds no
payment when it comes before the session's: the session's own event brings the credit. The
argument is that an intent that can be charged has its payment row, and that a worker ends a
handling by `MarkProcessed` unless it fails.

**SubscriptionsProofs**: `TypeOK`, `PendingIsNotBilled`, `InvoicesAreBacked`,
`GraceIsBounded` and `ServiceIsBounded`, for any subscriptions, callers, periods and
bounds (`SubscriptionsAssumption`; `Clients` is finite). The inductive invariant says how
little a caller knows of its row: that it was activated once (`Touched`, which no update
undoes; a creation writes only a row nobody else can have found), and that the end it is
about to write was within bounds when it was computed, and time only grows. `Backed`
counts the renewals under way with the invoices, because the intent is created several
statements before the invoice.

**FeedsProofs**: `TypeOK`, `ReportedOnce`, `NoLostCount`, `DeadLettersDeserved`, and that no
two tasks sync one feed while whoever joined a sync waits for one that is running
(`SyncsExclude`, `Answerable`), for any feeds, callers, cycles, documents and limits
(`FeedsAssumption`). The lock carries the argument. A feed is locked exactly while one task
is between `Lock` and the end of its promise (`Locked`), so that task alone writes the
counters, and what it read of them is still in the row, up to its own writes (`Informed`):
hence a counter written from the old row adds one, and the decision to bury a feed counts the
errors there are. `Counted` relates the entries in the table with what logs have reported
and what the owner has still to report; the two differ only by reports that a failure lost.
Requests that change a feed leave its counters alone, whenever they come.

**AuthProofs**: `TypeOK`, `ExchangedIsDead`, `ResetRevokes` and `BlockedIsDeserved`, for any
users, callers, sessions and limits (`AuthAssumption`). Besides the types the invariant says
which rows a request may still write: one that was in use when it was read, and no row
ever becomes unused. `ResetRevokes` needs a part of its own: a session that was open when a reset wrote the
password is closed, or the reset has not come to its revocation yet.

**OutboxProofs**: `TypeOK` and the refinement of `EventRelay`, for any events, passes and
retry limits. The invariant is that stored rows were published and that what a pass has
read of a row is never ahead of the row (`SeenBehind`); an emission by a stale pass is then
one the relay allows.

**PromotionsProofs**: `TypeOK`, `CampaignsPaid` and `SpentMatchesViews`, for any users,
kinds, budgets and clients (`PromotionsAssumption`). A request past its debit knows its key
is in the ledger, and the ledger only grows; views are counted with the requests that have
inserted a view and not yet counted it, and with the failures that came in between.
`ChargedUnlessKeyReused` names the cause of the violation in `promotions_paid`: as long as no
two campaigns share user, package and type there are as many debits as campaigns.

**BlogsProofs**: `TypeOK`, `VerifiedIsBacked` and `PendingBounded`, for any blogs, methods and clients (`BlogsAssumption`). The invariant says what each phase of a
request knows (`Fits`): past `MarkVerified` there is a verified row of its blog, past
`RecordDecision` a decision, and both tables only grow (`Grows`), so a late statement still
writes what is backed. `PendingBounded` counts the pending rows with the requests about to
insert one: whoever passes the check has seen none, so every other has been issued since
by a request that had passed it before.

Every safety and action property that a passing run checks is stated by a theorem. Only
model-checked is liveness (`EveryCallEnds`, `EveryEventAcked`, `RetryServed`,
`EveryRowSettles`): it rests on fairness, and so on `ENABLED`, which the provers do not do.
The proofs use what the modules assume of their constants (`WalletAssumption` and so on, all
evaluated by TLC on the runs) and no fairness; the bounds on requests and failures are
constants, so a theorem holds whatever they are.

TLC confirmed what theorems state beyond the runs on instances of the runs' size.

## 5. Not modelled, and what is left

The model covers the services whose statements race or fail between commits. About half
of the repository's lines are pages of the frontend, which keep no state the server relies
on, and much of the rest is controllers, data transfer objects, queries and text.

- Articles: an import looks for the article and inserts it without a unique index, so two
  importers may both insert; `Feeds` models the import inside a sync, which holds the
  feed's lock. The pipeline and the job queue have no caller.
- Parsing and validation of feeds, search, SEO, backup, health, configuration: text, queries
  and I/O without state of their own.
- Plans, badges, flags, users and roles, notifications, support, activity and audit:
  rows written one at a time that no protocol depends on.
- Within modelled parts: signatures, amounts of currency, token contents, weighted rotation,
  promotion packages, edits of a feed's or a blog's descriptive columns, uniqueness of slugs,
  the expiry dates of verification tokens (nothing reads them).

Next would be support tickets and feature access, as small modules of their own.
