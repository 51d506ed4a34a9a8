----------------------------- MODULE Subscriptions -----------------------------
(***************************************************************************)
(* Subscriptions (src/src/subscriptions): the life cycle of a user's       *)
(* subscriptions, driven by the user, by administrators, by the checkout,  *)
(* and by the renewal job, which an administrator's endpoint starts.       *)
(*                                                                         *)
(* Every operation finds the row, checks its status (or does not), and     *)
(* updates it by id in a later statement, without a transaction and        *)
(* without a condition.  Requests and jobs interleave between the two, and *)
(* nothing keeps two jobs from running at once.                            *)
(*                                                                         *)
(*   call:  idle -> [finding ->] writing [-> invoicing] -> idle            *)
(*   job:   none -> renewing -> expiring -> none, a call for each of todo  *)
(***************************************************************************)
EXTENDS Integers, FiniteSets

CONSTANTS
  Subs,         \* the subscriptions one user creates
  NoSub,
  Clients,      \* concurrent requests; a job is the request that started it
  Period,       \* length of a billing period (30 or 365 days)
  Grace,        \* gracePeriodDays
  Extensions,   \* the extensionDays an administrator may give
  MaxTime,      \* bound of the clock
  MaxRequests   \* bound of the requests and jobs

ASSUME SubscriptionsAssumption ==
  /\ NoSub \notin Subs
  /\ IsFiniteSet(Clients)
  /\ Period \in Nat /\ Grace \in Nat /\ Extensions \subseteq Nat
  /\ MaxTime \in Nat /\ MaxRequests \in Nat

Rows == {"pending", "active", "grace_period", "expired", "cancelled", "suspended"}
Statuses == Rows \cup {"none"}

VARIABLES
  now,       \* the time
  sub,       \* [Subs -> [status : Statuses, end, grace : Nat]]: currentPeriodEnd and
             \* gracePeriodEnd
  intents,   \* [Subs -> Nat], renewal payments created at Stripe
  invoices,  \* [Subs -> Nat], subscription_invoices rows, all 'paid'
  orders,    \* history: [Subs -> Nat], renewals an administrator asked for
  granted,   \* history: [Subs -> Nat], days of extension an administrator asked for
  call,      \* [Clients -> [op, phase, on, at, end, revive]], the operation on one row
  job,       \* [Clients -> [stage, todo, asOf]], the job of that request, if any
  requests   \* requests so far

vars == <<now, sub, intents, invoices, orders, granted, call, job, requests>>

Ops == {"activate", "renew", "cancel", "suspend", "extend", "expire", "grace"}

\* An operation on a row with this status goes on; else it throws.
Accepts(op, status) ==
  /\ status \in Rows
  /\ op = "activate" => status \in {"pending", "cancelled"}
  /\ op = "renew" => status \in {"active", "grace_period"}
  /\ op = "cancel" => status \notin {"cancelled", "expired"}

NoCall == [op |-> "none", phase |-> "idle", on |-> NoSub, at |-> 0, end |-> 0, revive |-> FALSE]
NoJob == [stage |-> "none", todo |-> {}, asOf |-> 0]

At(c, phase) == call[c].phase = phase
InJob(c, stage) == job[c].stage = stage
Free(c) == At(c, "idle") /\ InJob(c, "none")

Return(c) == call' = [call EXCEPT ![c] = NoCall]

\* findById, the check of the status, and new Date().
Find(c, op, s, days) ==
  call' = [call EXCEPT ![c] =
             IF Accepts(op, sub[s].status)
             THEN [op |-> op, phase |-> "writing", on |-> s, at |-> now,
                   end |-> sub[s].end + days, revive |-> sub[s].status \in {"expired", "cancelled"}]
             ELSE NoCall]

-------------------------------------------------------------------------------
(* Requests.                                                               *)

\* The user must have no active subscription.  The new row has an id of its own.
BeginCreate(c, s) ==
  /\ Free(c) /\ \A t \in Subs : sub[t].status # "active"
  /\ sub[s].status = "none" /\ \A d \in Clients : call[d].on # s
  /\ call' = [call EXCEPT ![c] = [NoCall EXCEPT !.op = "create", !.phase = "writing",
                                                !.on = s, !.at = now]]
  /\ UNCHANGED <<now, sub, intents, invoices, orders, granted, job, requests>>

\* activateSubscription, renewSubscription, cancelSubscription, suspendSubscription.
Request(c, op, s) ==
  /\ Free(c) /\ requests < MaxRequests
  /\ op \in {"activate", "renew", "cancel", "suspend"} /\ Accepts(op, sub[s].status)
  /\ Find(c, op, s, 0)
  /\ orders' = IF op = "renew" THEN [orders EXCEPT ![s] = @ + 1] ELSE orders
  /\ requests' = requests + 1
  /\ UNCHANGED <<now, sub, intents, invoices, granted, job>>

RequestExtension(c, s, days) ==
  /\ Free(c) /\ requests < MaxRequests
  /\ days \in Extensions /\ Accepts("extend", sub[s].status)
  /\ Find(c, "extend", s, days)
  /\ granted' = [granted EXCEPT ![s] = @ + days]
  /\ requests' = requests + 1
  /\ UNCHANGED <<now, sub, intents, invoices, orders, job>>

-------------------------------------------------------------------------------
(* The updates.                                                            *)

Writing(c, op) == At(c, "writing") /\ call[c].op = op
Row(c) == sub[call[c].on]

Update(c, row) ==
  /\ sub' = [sub EXCEPT ![call[c].on] = row]
  /\ UNCHANGED <<now, intents, invoices, orders, granted, job, requests>>

Create(c) ==
  /\ Writing(c, "create")
  /\ Update(c, [status |-> "pending", end |-> call[c].at + Period,
                grace |-> call[c].at + Period + Grace])
  /\ Return(c)

\* gracePeriodEnd stays what it was.
Activate(c) ==
  /\ Writing(c, "activate")
  /\ Update(c, [Row(c) EXCEPT !.status = "active", !.end = call[c].at + Period])
  /\ Return(c)

\* Mutant: the new period is appended to the old one.
MRenewAppends(c) ==
  /\ Writing(c, "renew")
  /\ Update(c, [status |-> "active", end |-> call[c].end + Period,
                grace |-> call[c].end + Period + Grace])
  /\ call' = [call EXCEPT ![c].phase = "invoicing"]

\* The new period begins now, whatever was left of the old one.
Renew(c) ==
  /\ Writing(c, "renew")
  /\ Update(c, [status |-> "active", end |-> call[c].at + Period,
                grace |-> call[c].at + Period + Grace])
  /\ call' = [call EXCEPT ![c].phase = "invoicing"]

\* Mutant: a status the queries do not know.
MCancelMisspelled(c) ==
  /\ Writing(c, "cancel")
  /\ Update(c, [Row(c) EXCEPT !.status = "canceled"])
  /\ Return(c)

Cancel(c) ==
  /\ Writing(c, "cancel")
  /\ Update(c, [Row(c) EXCEPT !.status = "cancelled"])
  /\ Return(c)

Suspend(c) ==
  /\ Writing(c, "suspend")
  /\ Update(c, [Row(c) EXCEPT !.status = "suspended"])
  /\ Return(c)

\* The end and whether to revive the row were computed from the row that was found.
Extend(c) ==
  /\ Writing(c, "extend")
  /\ Update(c, [Row(c) EXCEPT !.end = call[c].end,
                              !.status = IF call[c].revive THEN "active" ELSE @])
  /\ Return(c)

Expire(c) ==
  /\ Writing(c, "expire")
  /\ Update(c, [Row(c) EXCEPT !.status = "expired"])
  /\ Return(c)

\* Mutant: the grace period is counted from the end of the period.
MEnterGraceFromEnd(c) ==
  /\ Writing(c, "grace")
  /\ Update(c, [Row(c) EXCEPT !.status = "grace_period", !.grace = call[c].end + Grace])
  /\ Return(c)

EnterGrace(c) ==
  /\ Writing(c, "grace")
  /\ Update(c, [Row(c) EXCEPT !.status = "grace_period", !.grace = call[c].at + Grace])
  /\ Return(c)

CreateInvoice(c) ==
  /\ At(c, "invoicing")
  /\ invoices' = [invoices EXCEPT ![call[c].on] = @ + 1]
  /\ Return(c)
  /\ UNCHANGED <<now, sub, intents, orders, granted, job, requests>>

-------------------------------------------------------------------------------
(* The renewal job.                                                        *)

\* Mutant: the query filters by date only.
MExpiringAnyStatus == {s \in Subs : sub[s].status # "none" /\ sub[s].end <= now}

Expiring == {s \in Subs : sub[s].status = "active" /\ sub[s].end <= now}
GraceExpired(asOf) == {s \in Subs : sub[s].status = "grace_period" /\ sub[s].grace <= asOf}

StartJob(c) ==
  /\ Free(c) /\ requests < MaxRequests
  /\ job' = [job EXCEPT ![c] = [stage |-> "renewing", todo |-> Expiring, asOf |-> now]]
  /\ requests' = requests + 1
  /\ UNCHANGED <<now, sub, intents, invoices, orders, granted, call>>

\* Mutant: the result of the payment is not looked at.
MAttemptRenewalPaymentIgnored(c, s) ==
  /\ At(c, "idle") /\ InJob(c, "renewing") /\ s \in job[c].todo
  /\ job' = [job EXCEPT ![c].todo = @ \ {s}]
  /\ \E created \in BOOLEAN :
       intents' = IF created THEN [intents EXCEPT ![s] = @ + 1] ELSE intents
  /\ call' = [call EXCEPT ![c] = [NoCall EXCEPT !.op = "renew", !.phase = "finding", !.on = s]]
  /\ UNCHANGED <<now, sub, invoices, orders, granted, requests>>

\* The payment intent is created, which counts as paid, or it is not, or it is but
\* something after it fails and counts as not paid.
AttemptRenewalPayment(c, s) ==
  /\ At(c, "idle") /\ InJob(c, "renewing") /\ s \in job[c].todo
  /\ job' = [job EXCEPT ![c].todo = @ \ {s}]
  /\ \E op \in {"renew", "grace"}, created \in BOOLEAN :
       /\ op = "renew" => created
       /\ intents' = IF created THEN [intents EXCEPT ![s] = @ + 1] ELSE intents
       /\ call' = [call EXCEPT ![c] = [NoCall EXCEPT !.op = op, !.phase = "finding", !.on = s]]
  /\ UNCHANGED <<now, sub, invoices, orders, granted, requests>>

\* The row is found again; what renewSubscription throws is logged.
FindAgain(c) ==
  /\ At(c, "finding")
  /\ Find(c, call[c].op, call[c].on, 0)
  /\ UNCHANGED <<now, sub, intents, invoices, orders, granted, job, requests>>

FindGraceExpired(c) ==
  /\ At(c, "idle") /\ InJob(c, "renewing") /\ job[c].todo = {}
  /\ job' = [job EXCEPT ![c].stage = "expiring", ![c].todo = GraceExpired(job[c].asOf)]
  /\ UNCHANGED <<now, sub, intents, invoices, orders, granted, call, requests>>

\* Mutant: what was found is worked on again and again.
MExpireNextAgain(c, s) ==
  /\ At(c, "idle") /\ InJob(c, "expiring") /\ s \in job[c].todo
  /\ Find(c, "expire", s, 0)
  /\ UNCHANGED <<now, sub, intents, invoices, orders, granted, job, requests>>

ExpireNext(c, s) ==
  /\ At(c, "idle") /\ InJob(c, "expiring") /\ s \in job[c].todo
  /\ job' = [job EXCEPT ![c].todo = @ \ {s}]
  /\ Find(c, "expire", s, 0)
  /\ UNCHANGED <<now, sub, intents, invoices, orders, granted, requests>>

EndJob(c) ==
  /\ At(c, "idle") /\ InJob(c, "expiring") /\ job[c].todo = {}
  /\ job' = [job EXCEPT ![c] = NoJob]
  /\ UNCHANGED <<now, sub, intents, invoices, orders, granted, call, requests>>

\* A statement throws: the request ends, a job goes on with its next subscription.
Throw(c) ==
  /\ ~At(c, "idle")
  /\ Return(c)
  /\ UNCHANGED <<now, sub, intents, invoices, orders, granted, job, requests>>

\* The process dies, or one of the job's two queries throws.
Crash(c) ==
  /\ ~Free(c)
  /\ Return(c)
  /\ job' = [job EXCEPT ![c] = NoJob]
  /\ UNCHANGED <<now, sub, intents, invoices, orders, granted, requests>>

Tick ==
  /\ now < MaxTime
  /\ now' = now + 1
  /\ UNCHANGED <<sub, intents, invoices, orders, granted, call, job, requests>>

-------------------------------------------------------------------------------
Init ==
  /\ now = 0
  /\ sub = [s \in Subs |-> [status |-> "none", end |-> 0, grace |-> 0]]
  /\ intents = [s \in Subs |-> 0] /\ invoices = [s \in Subs |-> 0]
  /\ orders = [s \in Subs |-> 0] /\ granted = [s \in Subs |-> 0]
  /\ call = [c \in Clients |-> NoCall]
  /\ job = [c \in Clients |-> NoJob]
  /\ requests = 0

Begin(c) ==
  \E s \in Subs :
    \/ BeginCreate(c, s)
    \/ \E op \in Ops : Request(c, op, s)
    \/ \E days \in Extensions : RequestExtension(c, s, days)

Write(c) ==
  \/ Create(c) \/ Activate(c) \/ Renew(c) \/ Cancel(c) \/ Suspend(c) \/ Extend(c)
  \/ Expire(c) \/ EnterGrace(c)

Continue(c) ==
  \/ Write(c) \/ CreateInvoice(c) \/ FindAgain(c) \/ FindGraceExpired(c) \/ EndJob(c)
  \/ \E s \in Subs : AttemptRenewalPayment(c, s) \/ ExpireNext(c, s)

Next ==
  \/ \E c \in Clients : Begin(c) \/ StartJob(c) \/ Continue(c) \/ Throw(c) \/ Crash(c)
  \/ Tick

Spec == Init /\ [][Next]_vars

\* A request that has begun goes on.
FairSpec == Spec /\ \A c \in Clients : WF_vars(Continue(c))

-------------------------------------------------------------------------------
(* Properties.                                                             *)

Calls ==
  [op : Ops \cup {"create", "none"}, phase : {"idle", "finding", "writing", "invoicing"},
   on : Subs \cup {NoSub}, at : Nat, end : Nat, revive : BOOLEAN]

TypeOK ==
  /\ now \in Nat /\ requests \in Nat
  /\ sub \in [Subs -> [status : Statuses, end : Nat, grace : Nat]]
  /\ intents \in [Subs -> Nat] /\ invoices \in [Subs -> Nat]
  /\ orders \in [Subs -> Nat] /\ granted \in [Subs -> Nat]
  /\ call \in [Clients -> Calls]
  /\ job \in [Clients -> [stage : {"none", "renewing", "expiring"}, todo : SUBSET Subs, asOf : Nat]]

\* What nobody has activated is not billed: a job's list may be stale, but what was on it
\* never becomes pending again.
PendingIsNotBilled ==
  \A s \in Subs : sub[s].status \in {"none", "pending"} => intents[s] = 0 /\ invoices[s] = 0

\* Whatever jobs overlap, fail or crash, an invoice was preceded by a payment intent of
\* its own, or by an administrator who renewed by hand.
InvoicesAreBacked == \A s \in Subs : invoices[s] <= intents[s] + orders[s]

\* A grace period is never longer than gracePeriodDays from now, although renewals that race
\* with it write a gracePeriodEnd a whole period later.
GraceIsBounded == \A s \in Subs : sub[s].status = "grace_period" => sub[s].grace <= now + Grace

\* Nobody is served for longer than one period and what administrators granted, however
\* often and however concurrently the subscription is renewed and extended.
ServiceIsBounded ==
  \A s \in Subs : sub[s].status = "active" => sub[s].end <= now + Period + granted[s]

\* Requests and jobs end.
EveryCallEnds == \A c \in Clients : ~Free(c) ~> Free(c)
===============================================================================
