------------------------------- MODULE Payments -------------------------------
(***************************************************************************)
(* Stripe payments (src/src/payments): payment rows created when a         *)
(* purchase is opened, and the webhook that turns Stripe's events into     *)
(* payment states, wallet credits, subscriptions and domain events.        *)
(*                                                                         *)
(* Stripe delivers an event until a delivery is answered with success, in  *)
(* any order, possibly two deliveries of one event at a time.  A worker    *)
(* handles one delivery as a chain of awaited statements, each committed   *)
(* by itself:                                                              *)
(*                                                                         *)
(*   idle -Deliver-> received -Deduplicate-> fresh -SaveEvent-> saved      *)
(*   -FindPayment-> found -UpdatePayment-> updated -CreditWallet->         *)
(*   credited -CreateSubscription-> subscribed -ActivateSubscription->     *)
(*   publishing -Publish-> handled -MarkProcessed-> answering              *)
(*   -Acknowledge-> idle                                                   *)
(*                                                                         *)
(* with the chain of the event's type skipping what it does not do.  The   *)
(* wallet is used through its promise (CreditLedger): a key is posted in   *)
(* one step, at most once.  All purchases are of one user, and each is     *)
(* worth at least one credit.                                              *)
(***************************************************************************)
EXTENDS Integers, FiniteSets

CONSTANTS
  Intents,      \* purchases opened with createPaymentIntent
  Checkouts,    \* purchases opened with createCheckoutSession, of a paid plan
  Workers,      \* concurrent webhook deliveries
  MaxPurchases, \* bound: purchases opened
  MaxFailures   \* bound: statements that fail and processes that crash

ASSUME PaymentsAssumption ==
  /\ Intents \cap Checkouts = {}
  /\ MaxPurchases \in Nat /\ MaxFailures \in Nat

Purchases == Intents \cup Checkouts
Types == {"succeeded", "failed", "session", "refunded"}
Events == Purchases \X Types

Statuses == {"none", "pending", "completed", "failed", "refunded"}
DeliveryPhases == {"idle", "received", "fresh", "saved", "found", "updated", "credited",
           "subscribed", "publishing", "handled", "answering"}

VARIABLES
  charge,        \* [Purchases -> {"none", "open", "paid", "refunded"}], at Stripe
  emitted,       \* the events Stripe has created
  acked,         \* the events answered with success: not delivered any more
  payment,       \* [Purchases -> [status : Statuses, linked : BOOLEAN]]; linked: the
                 \* row has the stripePaymentId
  credits,       \* the wallet's idempotency keys: <<purchase, "intent" or "session">>
  subscription,  \* [Checkouts -> {"none", "pending", "active"}]
  published,     \* [Purchases -> Nat], PAYMENT_COMPLETED events of each payment
  saved,         \* the events with a stripe_webhook_events row
  processed,     \* the rows with status 'processed'
  work,          \* [Workers -> [phase, event]]
  failures       \* statements failed so far

stripe == <<charge, emitted, acked>>
tables == <<payment, credits, subscription, published, saved, processed>>
paymentsVars == <<stripe, tables, work, failures>>

NoEvent == <<>>
Of(w) == work[w].event[1]
Type(w) == work[w].event[2]
At(w, phase) == work[w].phase = phase
Go(w, phase) == work' = [work EXCEPT ![w].phase = phase]
Answer(w) == work' = [work EXCEPT ![w] = [phase |-> "idle", event |-> NoEvent]]

-------------------------------------------------------------------------------
(* The purchase, and Stripe.                                               *)

Opened == {x \in Purchases : charge[x] # "none"}

\* Stripe creates the object, then the row is inserted as pending.  The customer gets
\* the object after that, so nothing of it is paid or refused before.
CreatePaymentIntent(x) ==
  /\ x \in Intents \ Opened /\ Cardinality(Opened) < MaxPurchases
  /\ charge' = [charge EXCEPT ![x] = "open"]
  /\ payment' = [payment EXCEPT ![x] = [status |-> "pending", linked |-> TRUE]]
  /\ UNCHANGED <<emitted, acked, credits, subscription, published, saved, processed,
                 work, failures>>

CreateCheckoutSession(x) ==
  /\ x \in Checkouts \ Opened /\ Cardinality(Opened) < MaxPurchases
  /\ charge' = [charge EXCEPT ![x] = "open"]
  /\ payment' = [payment EXCEPT ![x] = [status |-> "pending", linked |-> FALSE]]
  /\ UNCHANGED <<emitted, acked, credits, subscription, published, saved, processed,
                 work, failures>>

\* The card is refused; the same purchase may still be paid with another one.
Decline(x) ==
  /\ charge[x] = "open"
  /\ <<x, "failed">> \notin emitted
  /\ emitted' = emitted \cup {<<x, "failed">>}
  /\ UNCHANGED <<charge, acked, tables, work, failures>>

\* A paid checkout emits the events of its intent and of its session.
Pay(x) ==
  /\ charge[x] = "open"
  /\ charge' = [charge EXCEPT ![x] = "paid"]
  /\ emitted' = emitted \cup {<<x, "succeeded">>} \cup ({x} \cap Checkouts) \X {"session"}
  /\ UNCHANGED <<acked, tables, work, failures>>

Refund(x) ==
  /\ charge[x] = "paid"
  /\ charge' = [charge EXCEPT ![x] = "refunded"]
  /\ emitted' = emitted \cup {<<x, "refunded">>}
  /\ UNCHANGED <<acked, tables, work, failures>>

-------------------------------------------------------------------------------
(* One delivery.                                                           *)

Deliver(w) ==
  /\ At(w, "idle")
  /\ \E e \in emitted \ acked : work' = [work EXCEPT ![w] = [phase |-> "received", event |-> e]]
  /\ UNCHANGED <<stripe, tables, failures>>

\* Mutant: a duplicate of an event that is not processed yet is kept waiting.
MDeduplicateWaits(w) ==
  /\ At(w, "received")
  /\ work[w].event \in saved => work[w].event \in processed
  /\ IF work[w].event \in saved
     THEN Answer(w) /\ acked' = acked \cup {work[w].event}
     ELSE Go(w, "fresh") /\ UNCHANGED acked
  /\ UNCHANGED <<charge, emitted, tables, failures>>

\* An event whose row is there, processed or not, is answered as a duplicate.
Deduplicate(w) ==
  /\ At(w, "received")
  /\ IF work[w].event \in saved
     THEN Answer(w) /\ acked' = acked \cup {work[w].event}
     ELSE Go(w, "fresh") /\ UNCHANGED acked
  /\ UNCHANGED <<charge, emitted, tables, failures>>

\* Mutant: no unique index on the event id.
MSaveTwice(w) ==
  /\ At(w, "fresh")
  /\ saved' = saved \cup {work[w].event} /\ Go(w, "saved")
  /\ UNCHANGED <<stripe, payment, credits, subscription, published, processed, failures>>

\* Mutant: the event is handled without being recorded.
MSaveForgets(w) ==
  /\ At(w, "fresh")
  /\ Go(w, "saved")
  /\ UNCHANGED <<stripe, tables, failures>>

\* The unique event id lets one of two racing deliveries through; the other is
\* answered with an error.
SaveEvent(w) ==
  /\ At(w, "fresh")
  /\ IF work[w].event \in saved
     THEN Answer(w) /\ UNCHANGED saved
     ELSE saved' = saved \cup {work[w].event} /\ Go(w, "saved")
  /\ UNCHANGED <<stripe, payment, credits, subscription, published, processed, failures>>

\* The payment is looked up by the id of its intent; that of a session by the
\* session, which always finds it.  Without a payment, a success is an error (the row
\* it would create names the user 'unknown'), a failure only publishes, and a refund
\* is ignored.
FindPayment(w) ==
  /\ At(w, "saved")
  /\ \/ (payment[Of(w)].linked \/ Type(w) = "session") /\ Go(w, "found")
     \/ ~payment[Of(w)].linked /\ Type(w) = "succeeded" /\ Answer(w)
     \/ ~payment[Of(w)].linked /\ Type(w) = "failed" /\ Go(w, "publishing")
     \/ ~payment[Of(w)].linked /\ Type(w) = "refunded" /\ Go(w, "handled")
  /\ UNCHANGED <<stripe, tables, failures>>

StatusAfter(type) == IF type \in {"succeeded", "session"} THEN "completed" ELSE type

\* Mutant: a succeeded intent completes the payment but not the credit.
MUpdatePaymentNoCredit(w) ==
  /\ At(w, "found")
  /\ payment' = [payment EXCEPT ![Of(w)] = [status |-> StatusAfter(Type(w)), linked |-> TRUE]]
  /\ Go(w, IF Type(w) = "session" THEN "updated" ELSE "publishing")
  /\ UNCHANGED <<stripe, credits, subscription, published, saved, processed, failures>>

\* The status is overwritten whatever it was; a session links the payment to its
\* intent.
UpdatePayment(w) ==
  /\ At(w, "found")
  /\ payment' = [payment EXCEPT ![Of(w)] = [status |-> StatusAfter(Type(w)), linked |-> TRUE]]
  /\ Go(w, IF Type(w) \in {"succeeded", "session"} THEN "updated" ELSE "publishing")
  /\ UNCHANGED <<stripe, credits, subscription, published, saved, processed, failures>>

\* The two events of a checkout post under two different keys.
Key(w) == <<Of(w), IF Type(w) = "session" THEN "session" ELSE "intent">>

CreditWallet(w) ==
  /\ At(w, "updated")
  /\ credits' = credits \cup {Key(w)}
  /\ Go(w, IF Type(w) = "session" THEN "credited" ELSE "publishing")
  /\ UNCHANGED <<stripe, payment, subscription, published, saved, processed, failures>>

\* Only a session buys a subscription, and none while another one is active; any
\* error here is logged and swallowed.  (The lookup and the insert are one step: nothing
\* looks at a pending row.)
CreateSubscription(w) ==
  /\ At(w, "credited")
  /\ IF \E y \in Checkouts : subscription[y] = "active"
     THEN Go(w, "publishing") /\ UNCHANGED subscription
     ELSE Go(w, "subscribed") /\ subscription' = [subscription EXCEPT ![Of(w)] = "pending"]
  /\ UNCHANGED <<stripe, payment, credits, published, saved, processed, failures>>

ActivateSubscription(w) ==
  /\ At(w, "subscribed")
  /\ subscription' = [subscription EXCEPT ![Of(w)] = "active"]
  /\ Go(w, "publishing")
  /\ UNCHANGED <<stripe, payment, credits, published, saved, processed, failures>>

SwallowError(w) ==
  /\ At(w, "credited") \/ At(w, "subscribed")
  /\ failures < MaxFailures
  /\ failures' = failures + 1
  /\ Go(w, "publishing")
  /\ UNCHANGED <<stripe, tables>>

Publish(w) ==
  /\ At(w, "publishing")
  /\ published' = IF Type(w) \in {"succeeded", "session"}
                  THEN [published EXCEPT ![Of(w)] = @ + 1] ELSE published
  /\ Go(w, "handled")
  /\ UNCHANGED <<stripe, payment, credits, subscription, saved, processed, failures>>

MarkProcessed(w) ==
  /\ At(w, "handled")
  /\ processed' = processed \cup {work[w].event}
  /\ Go(w, "answering")
  /\ UNCHANGED <<stripe, payment, credits, subscription, published, saved, failures>>

Acknowledge(w) ==
  /\ At(w, "answering")
  /\ acked' = acked \cup {work[w].event}
  /\ Answer(w)
  /\ UNCHANGED <<charge, emitted, tables, failures>>

\* A statement throws, the wallet refuses, the process dies or the answer is lost:
\* what was written stays, and Stripe will deliver the event again.
FailDelivery(w) ==
  /\ ~At(w, "idle")
  /\ failures < MaxFailures
  /\ failures' = failures + 1
  /\ Answer(w)
  /\ UNCHANGED <<stripe, tables>>

-------------------------------------------------------------------------------
PaymentsInit ==
  /\ charge = [x \in Purchases |-> "none"]
  /\ emitted = {} /\ acked = {}
  /\ payment = [x \in Purchases |-> [status |-> "none", linked |-> FALSE]]
  /\ credits = {}
  /\ subscription = [x \in Checkouts |-> "none"]
  /\ published = [x \in Purchases |-> 0]
  /\ saved = {} /\ processed = {}
  /\ work = [w \in Workers |-> [phase |-> "idle", event |-> NoEvent]]
  /\ failures = 0

Buyer(x) ==
  CreatePaymentIntent(x) \/ CreateCheckoutSession(x) \/ Decline(x) \/ Pay(x) \/ Refund(x)

Handle(w) ==
  \/ Deduplicate(w) \/ SaveEvent(w) \/ FindPayment(w) \/ UpdatePayment(w)
  \/ CreditWallet(w) \/ CreateSubscription(w) \/ ActivateSubscription(w)
  \/ Publish(w) \/ MarkProcessed(w) \/ Acknowledge(w)

PaymentsNext ==
  \/ \E x \in Purchases : Buyer(x)
  \/ \E w \in Workers : Deliver(w) \/ Handle(w) \/ SwallowError(w) \/ FailDelivery(w)

PaymentsSpec == PaymentsInit /\ [][PaymentsNext]_paymentsVars

\* Stripe keeps delivering while an event is not acknowledged, whichever it takes first, and a
\* delivery goes on.
PaymentsFairSpec ==
  /\ PaymentsSpec
  /\ \A w \in Workers : WF_paymentsVars(Handle(w))
  /\ WF_paymentsVars(\E w \in Workers : Deliver(w))
-------------------------------------------------------------------------------
(* Properties.                                                             *)

PaymentsTypeOK ==
  /\ charge \in [Purchases -> {"none", "open", "paid", "refunded"}]
  /\ emitted \subseteq Events /\ acked \subseteq emitted
  /\ payment \in [Purchases -> [status : Statuses, linked : BOOLEAN]]
  /\ credits \subseteq Purchases \X {"intent", "session"}
  /\ subscription \in [Checkouts -> {"none", "pending", "active"}]
  /\ published \in [Purchases -> Nat]
  /\ saved \subseteq emitted /\ processed \subseteq saved
  /\ work \in [Workers -> [phase : DeliveryPhases, event : Events \cup {NoEvent}]]
  /\ failures \in 0..MaxFailures

\* Of the deliveries of an event, racing, repeated or both, one is handled.
Handling(w) == work[w].phase \in DeliveryPhases \ {"idle", "received", "fresh", "answering"}
HandledOnce ==
  /\ \A v, w \in Workers : v # w /\ Handling(v) /\ Handling(w) => work[v].event # work[w].event
  /\ \A w \in Workers : Handling(w) => work[w].event \in saved \ processed

\* Retries and duplicates publish nothing new: each payment is announced as completed
\* at most once for every recorded event of it.
PublishedOncePerEvent ==
  \A x \in Purchases :
    published[x] <= Cardinality(saved \cap ({x} \X {"succeeded", "session"}))

\* An event is only answered with success once it is on record, so that Stripe never
\* stops delivering one the system knows nothing of.
AckedIsRecorded == acked \subseteq saved

\* Deliveries that race, repeat or fail leave the record of events right: each is handled by
\* one worker at a time, answered when recorded, announced once.
EventsOnRecord == HandledOnce /\ AckedIsRecorded /\ PublishedOncePerEvent

\* Wallet credits are backed by a payment at Stripe, and a success that is marked
\* processed has its credit: the handler never skips ahead.
CreditsMatchEvents ==
  \A x \in Purchases :
    /\ <<x, "succeeded">> \in processed => <<x, "intent">> \in credits
    /\ <<x, "session">> \in processed => <<x, "session">> \in credits
    /\ \A kind \in {"intent", "session"} :
         <<x, kind>> \in credits => charge[x] \in {"paid", "refunded"}

\* Deliveries end: every event is acknowledged in the end, whatever failed before.  (There are
\* finitely many, and none is taken back.)
EveryEventAcked == <>[](emitted \subseteq acked)

\* ARCHITECTURE_REVIEW.md:94-95: a webhook is never lost, no "payment without credit".
PaidIsCredited ==
  \A x \in Purchases :
    charge[x] = "paid" ~> \E kind \in {"intent", "session"} : <<x, kind>> \in credits
===============================================================================
