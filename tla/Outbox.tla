--------------------------------- MODULE Outbox ---------------------------------
(***************************************************************************)
(* Publication of domain events (src/src/events/domain-event.publisher.ts) *)
(* and the outbox that emits them again (src/src/outbox).                  *)
(*                                                                         *)
(* A publisher inserts a row and emits the event; nothing in the           *)
(* repository subscribes, so the emission changes no state of it.  Every   *)
(* five seconds a pass of the outbox reads the oldest pending rows and     *)
(* takes them one at a time:                                               *)
(*                                                                         *)
(*   emitting -> marking,  or -> recounting when something throws          *)
(*                                                                         *)
(* A pass does not wait for the one before it, so two may hold the same    *)
(* row, each with the retry count it read.  The subscribers are external:  *)
(* an emission succeeds or throws.                                         *)
(***************************************************************************)
EXTENDS Integers, FiniteSets

CONSTANTS
  Events, NoEvent, Passes,
  MaxRetries,   \* retry count at which the next failure is the last (5)
  BatchSize,    \* rows read by one pass (50)
  MaxFailures   \* bound: statements that fail and processes that crash

ASSUME OutboxAssumption ==
  /\ IsFiniteSet(Events) /\ NoEvent \notin Events
  /\ MaxRetries \in Nat /\ BatchSize \in Nat \ {0} /\ MaxFailures \in Nat

Statuses == {"none", "pending", "processed", "failed", "cleared"}

VARIABLES
  row,        \* [Events -> [status, retries, at]]; at: the place in the order of insertion
  published,  \* events that publish() has been called for
  relayed,    \* events the outbox has handed to the subscribers
  pass,       \* [Passes -> [phase, batch, seen, now]]; seen: the retry counts it
              \* read; now: the row whose turn it is
  failures

vars == <<row, published, relayed, pass, failures>>

At(p, phase) == pass[p].phase = phase
Now(p) == pass[p].now
Pending == {e \in Events : row[e].status = "pending"}
Inserted == {e \in Events : row[e].status # "none"}
NoPass == [phase |-> "emitting", batch |-> {}, seen |-> [e \in Events |-> 0], now |-> NoEvent]
Over(p) == pass' = [pass EXCEPT ![p] = NoPass]

-------------------------------------------------------------------------------
(* The publisher.                                                          *)

Insert(e) ==
  /\ e \notin published
  /\ published' = published \cup {e}
  /\ row' = [row EXCEPT ![e] = [status |-> "pending", retries |-> 0,
                                at |-> Cardinality(Inserted) + 1]]
  /\ UNCHANGED <<relayed, pass, failures>>

\* The insert failed: the error is logged, and the event has no row.
InsertFails(e) ==
  /\ e \notin published /\ failures < MaxFailures
  /\ published' = published \cup {e}
  /\ failures' = failures + 1
  /\ UNCHANGED <<row, relayed, pass>>

-------------------------------------------------------------------------------
(* A pass of the outbox.                                                   *)

\* The oldest pending rows, at most BatchSize.
IsBatch(b) ==
  /\ b \subseteq Pending /\ b # {}
  /\ Cardinality(b) = BatchSize \/ (Cardinality(b) < BatchSize /\ b = Pending)
  /\ \A e \in b, d \in Pending \ b : row[e].at < row[d].at

\* The timer fires and the pass reads its rows.
ReadPending(p) ==
  /\ pass[p].batch = {}
  /\ \E b \in SUBSET Events :
       /\ IsBatch(b)
       /\ pass' = [pass EXCEPT ![p] = [NoPass EXCEPT !.batch = b,
                                       !.seen = [e \in Events |-> row[e].retries]]]
  /\ UNCHANGED <<row, published, relayed, failures>>

Oldest(b, e) == e \in b /\ \A d \in b : row[e].at <= row[d].at

\* Mutant: what a subscriber throws is swallowed.
MEmitSwallows(p, e) ==
  /\ At(p, "emitting") /\ Oldest(pass[p].batch, e)
  /\ pass' = [pass EXCEPT ![p].now = e, ![p].phase = "marking"]
  /\ relayed' \in {relayed, relayed \cup {e}}
  /\ UNCHANGED <<row, published, failures>>

\* emitFromOutbox: the subscribers have the event, or one of them throws.
Emit(p, e) ==
  /\ At(p, "emitting") /\ Oldest(pass[p].batch, e)
  /\ \/ /\ relayed' = relayed \cup {e}
        /\ pass' = [pass EXCEPT ![p].now = e, ![p].phase = "marking"]
     \/ /\ relayed' = relayed
        /\ pass' = [pass EXCEPT ![p].now = e, ![p].phase = "recounting"]
  /\ UNCHANGED <<row, published, failures>>

\* On to the next row of the batch.
NextRow(p) == pass' = [pass EXCEPT ![p].phase = "emitting", ![p].batch = @ \ {Now(p)}]

\* A row cleared meanwhile makes the update throw.
MarkProcessed(p) ==
  /\ At(p, "marking")
  /\ IF row[Now(p)].status = "cleared"
     THEN UNCHANGED row /\ pass' = [pass EXCEPT ![p].phase = "recounting"]
     ELSE row' = [row EXCEPT ![Now(p)].status = "processed"] /\ NextRow(p)
  /\ UNCHANGED <<published, relayed, failures>>

\* Mutant: the catch leaves the count as it is.
MRecountNothing(p) ==
  /\ At(p, "recounting")
  /\ IF row[Now(p)].status = "cleared"
     THEN UNCHANGED row /\ Over(p)
     ELSE /\ row' = [row EXCEPT ![Now(p)].status =
                       IF pass[p].seen[Now(p)] >= MaxRetries THEN "failed" ELSE "pending"]
          /\ NextRow(p)
  /\ UNCHANGED <<published, relayed, failures>>

\* Mutant: a row is given up one failure early.
MRecountEarly(p) ==
  /\ At(p, "recounting")
  /\ IF row[Now(p)].status = "cleared"
     THEN UNCHANGED row /\ Over(p)
     ELSE /\ row' = [row EXCEPT
               ![Now(p)].retries = @ + 1,
               ![Now(p)].status = IF pass[p].seen[Now(p)] + 1 >= MaxRetries THEN "failed" ELSE "pending"]
          /\ NextRow(p)
  /\ UNCHANGED <<published, relayed, failures>>

\* The catch: the count is incremented in the row, the status decided by the count read.
\* When this update throws too, the pass is over.
Recount(p) ==
  /\ At(p, "recounting")
  /\ IF row[Now(p)].status = "cleared"
     THEN UNCHANGED row /\ Over(p)
     ELSE /\ row' = [row EXCEPT
               ![Now(p)].retries = @ + 1,
               ![Now(p)].status = IF pass[p].seen[Now(p)] >= MaxRetries THEN "failed" ELSE "pending"]
          /\ NextRow(p)
  /\ UNCHANGED <<published, relayed, failures>>

\* clearProcessed.
Clear(e) ==
  /\ row[e].status = "processed"
  /\ row' = [row EXCEPT ![e].status = "cleared"]
  /\ UNCHANGED <<published, relayed, pass, failures>>

-------------------------------------------------------------------------------
(* Failures.                                                               *)

StatementFails(p) ==
  /\ failures < MaxFailures
  /\ failures' = failures + 1
  /\ \/ At(p, "marking") /\ pass' = [pass EXCEPT ![p].phase = "recounting"]
     \/ At(p, "recounting") /\ Over(p)
  /\ UNCHANGED <<row, published, relayed>>

\* The process dies and is started again.
Crash ==
  /\ failures < MaxFailures
  /\ failures' = failures + 1
  /\ pass' = [p \in Passes |-> NoPass]
  /\ UNCHANGED <<row, published, relayed>>

-------------------------------------------------------------------------------
Init ==
  /\ row = [e \in Events |-> [status |-> "none", retries |-> 0, at |-> 0]]
  /\ published = {} /\ relayed = {}
  /\ pass = [p \in Passes |-> NoPass]
  /\ failures = 0

Pass(p) ==
  \/ ReadPending(p) \/ MarkProcessed(p) \/ Recount(p)
  \/ \E e \in Events : Emit(p, e)

Next ==
  \/ \E e \in Events : Insert(e) \/ InsertFails(e) \/ Clear(e)
  \/ \E p \in Passes : Pass(p) \/ StatementFails(p)
  \/ Crash

Spec == Init /\ [][Next]_vars

\* The timer goes on firing, and Node runs every pass on.
FairSpec == Spec /\ \A p \in Passes : WF_vars(Pass(p))

-------------------------------------------------------------------------------
(* Properties.                                                             *)

Rows == [status : Statuses, retries : Nat, at : Nat]
PassRecords == [phase : {"emitting", "marking", "recounting"}, batch : SUBSET Events,
                seen : [Events -> Nat], now : Events \cup {NoEvent}]

\* The types of the variables; a pass works on rows that exist, and marks what it emitted.
TypeOK ==
  /\ row \in [Events -> Rows]
  /\ published \subseteq Events /\ relayed \subseteq Events
  /\ pass \in [Passes -> PassRecords]
  /\ failures \in Nat
  /\ \A p \in Passes :
       /\ pass[p].batch \subseteq Inserted
       /\ At(p, "marking") => Now(p) \in relayed
       /\ ~At(p, "emitting") => Now(p) \in pass[p].batch

\* What a row's status means to the subscribers' side.
Meaning == [none |-> "none", pending |-> "waiting", processed |-> "done",
            cleared |-> "done", failed |-> "dropped"]
StateOf(e) == Meaning[row[e].status]

Relay == INSTANCE EventRelay WITH
  state <- [e \in Events |-> StateOf(e)],
  delivered <- relayed,
  refused <- [e \in Events |-> row[e].retries]

\* However passes overlap, fail and die, the outbox is an at-least-once relay: a processed
\* row has been emitted by it, and a row is given up only after more than MaxRetries failures.
ImplementsRelay == Relay!Spec

\* No row is left behind: each is settled for good some day, also behind rows that always
\* fail, and although a slow pass can reopen a settled row.
EveryRowSettles ==
  \A e \in Events :
    row[e].status = "pending" ~> [](row[e].status \in {"processed", "failed", "cleared"})
===============================================================================
