--------------------------------- MODULE Feeds ---------------------------------
(***************************************************************************)
(* RSS feeds (src/src/rss): the feed rows, the sync of a feed, and the     *)
(* in-memory queues of the scheduler, in one server process.               *)
(*                                                                         *)
(* A sync holds the feed's entry in the syncLocks map from before its      *)
(* first await until its promise settles; whoever asks meanwhile waits for *)
(* that promise.  It works on the row it read at its start:                *)
(*                                                                         *)
(*   reading -> fetching -> importing* -> writing -> logging -> closing    *)
(*                                                                         *)
(* and a statement or a download that fails sends it to                    *)
(*                                                                         *)
(*   failing -> reporting -> retrying -> burying                           *)
(*                                                                         *)
(* while other requests change the row's status and the queues.  The       *)
(* cycles of startAutoSync overlap when one takes longer than the          *)
(* interval.  Priorities, times and the text of entries are abstracted:    *)
(* an entry is its guid and its normalized URL, a queue is a count of      *)
(* items for each feed.                                                    *)
(***************************************************************************)
EXTENDS Integers, Sequences, FiniteSets, FiniteSetsExt

CONSTANTS
  Feeds, Address,   \* feed rows, and the URL each is of
  Documents,        \* what a site may answer: sequences of entries <<guid, url>>
  Callers,          \* concurrent HTTP requests
  Cycles,           \* concurrent cycles of the auto-sync timer
  NoTask,
  RetryLimit,       \* consecutive failures that move a feed to the dead letters (5)
  FailedAt,         \* failures that make a feed 'failed' (10)
  BatchSize,        \* feeds dequeued by one cycle (5)
  MaxRequests,      \* bound: requests made
  MaxFailures       \* bound: statements that fail and processes that crash

Items == UNION {{document[i] : i \in DOMAIN document} : document \in Documents}

ASSUME FeedsAssumption ==
  /\ Callers \cap Cycles = {} /\ NoTask \notin Callers \cup Cycles
  /\ {RetryLimit, FailedAt, BatchSize} \subseteq Nat \ {0}
  /\ {MaxRequests, MaxFailures} \subseteq Nat
  /\ \A document \in Documents : document \in Seq(Items)

Tasks == Callers \cup Cycles
Statuses == {"none", "active", "paused", "disabled", "failed", "archived"}
Changes == {"disable", "pause", "enable", "delete"}
SyncPhases == {"reading", "fetching", "importing", "writing", "logging", "closing",
               "failing", "reporting", "retrying", "burying"}
Phases == {"idle", "adding", "queueing", "finding", "changing", "unqueueing", "joined"}
          \cup SyncPhases

VARIABLES
  row,       \* [Feeds -> [status, archived, success, failure, errors]]
  entries,   \* [Feeds -> SUBSET Items], the rss_feed_entries
  log,       \* [Feeds -> [imported, written]]: entries the logs report, logs written
  syncLocks, \* [Feeds -> Tasks \cup {NoTask}]
  queue,     \* [Feeds -> Nat], items in the priority queue
  waiting,   \* [Feeds -> Nat], items in the retry queue that are not due yet
  ripe,      \* [Feeds -> Nat], items in the retry queue that are due
  dlq,       \* [Feeds -> Nat], dead letters
  isRunning, \* the auto-sync timer runs
  batch,     \* [Cycles -> [Feeds -> Nat]], what a cycle has dequeued and not synced yet
  work,      \* [Tasks -> [phase, feed, change, seen, todo, imported]]
  requests, failures

tables == <<row, entries, log>>
retries == <<waiting, ripe>>
memory == <<syncLocks, queue, retries, dlq, isRunning, batch>>
vars == <<tables, memory, work, requests, failures>>

Nothing == [f \in Feeds |-> 0]
Unseen == [success |-> 0, failure |-> 0, errors |-> 0]
At(t, phase) == work[t].phase = phase
Go(t, phase) == work' = [work EXCEPT ![t].phase = phase]
Begin(phase, f, change) ==
  [phase |-> phase, feed |-> f, change |-> change, seen |-> Unseen, todo |-> <<>>, imported |-> 0]
Idle(t) == Begin("idle", work[t].feed, "none")
Exists(f) == row[f].status # "none" /\ ~row[f].archived

\* A request starts: it may do so while the bound allows.
Ask(t, phase, f, change) ==
  /\ t \in Callers /\ At(t, "idle") /\ requests < MaxRequests
  /\ requests' = requests + 1
  /\ work' = [work EXCEPT ![t] = Begin(phase, f, change)]

-------------------------------------------------------------------------------
(* The queues.                                                             *)

Enqueue(f) == queue' = [queue EXCEPT ![f] = @ + 1]

\* remove() takes out the first item of the feed, not all of them.
Drop(q, f) == [q EXCEPT ![f] = IF @ > 0 THEN @ - 1 ELSE 0]

\* The retry queue is sorted by time: the first item of a feed is a due one if any is.
RemoveFromRetry(f) ==
  IF ripe[f] > 0 THEN ripe' = Drop(ripe, f) /\ UNCHANGED waiting
                 ELSE waiting' = Drop(waiting, f) /\ UNCHANGED ripe

Load(b) == MapThenSumSet(LAMBDA f : b[f], Feeds)

-------------------------------------------------------------------------------
(* Adding and changing feeds.                                              *)

\* The URL is looked up, then fetched for validation; the row is inserted later, with an id
\* of its own.
AddFeed(t, f) ==
  /\ row[f].status = "none" /\ \A s \in Tasks : At(s, "adding") => work[s].feed # f
  /\ ~ \E g \in Feeds : Address[g] = Address[f] /\ Exists(g)
  /\ Ask(t, "adding", f, "none")
  /\ UNCHANGED <<tables, memory, failures>>

InsertFeed(t) ==
  LET f == work[t].feed IN
  /\ At(t, "adding")
  /\ row' = [row EXCEPT ![f].status = "active"]
  /\ Go(t, "queueing")
  /\ UNCHANGED <<entries, log, memory, requests, failures>>

ScheduleManualSync(t) ==
  /\ At(t, "queueing")
  /\ Enqueue(work[t].feed)
  /\ work' = [work EXCEPT ![t] = Idle(t)]
  /\ UNCHANGED <<tables, syncLocks, retries, dlq, isRunning, batch, requests, failures>>

AskChange(t, f, change) ==
  /\ Ask(t, "finding", f, change)
  /\ UNCHANGED <<tables, memory, failures>>

\* findById does not see archived rows; the write that follows does.
FindFeed(t) ==
  /\ At(t, "finding")
  /\ work' = [work EXCEPT ![t] = IF Exists(@.feed) THEN [@ EXCEPT !.phase = "changing"]
                                                    ELSE Idle(t)]
  /\ UNCHANGED <<tables, memory, requests, failures>>

StatusOf(change) ==
  [disable |-> "disabled", pause |-> "paused", enable |-> "active", delete |-> "archived"][change]

ChangeFeed(t) ==
  LET f == work[t].feed  change == work[t].change IN
  /\ At(t, "changing")
  /\ row' = [row EXCEPT ![f].status = StatusOf(change),
                        ![f].archived = @ \/ change = "delete"]
  /\ Go(t, IF change = "enable" THEN "queueing" ELSE "unqueueing")
  /\ UNCHANGED <<entries, log, memory, requests, failures>>

\* What disable, pause and delete take out of the queues after the write.
Unqueue(t) ==
  LET f == work[t].feed  change == work[t].change IN
  /\ At(t, "unqueueing")
  /\ queue' = Drop(queue, f)
  /\ IF change \in {"disable", "delete"} THEN RemoveFromRetry(f) ELSE UNCHANGED retries
  /\ dlq' = IF change = "delete" THEN Drop(dlq, f) ELSE dlq
  /\ work' = [work EXCEPT ![t] = Idle(t)]
  /\ UNCHANGED <<tables, syncLocks, isRunning, batch, requests, failures>>

-------------------------------------------------------------------------------
(* The sync of a feed.                                                     *)

\* Mutant: the syncs in progress are not looked up.
MEnterAlways(f) == "reading"

\* Everything up to the first await: look into syncLocks, call executeSync, set the lock.
Enter(f) == IF syncLocks[f] = NoTask THEN "reading" ELSE "joined"
Lock(t, f) == syncLocks' = [syncLocks EXCEPT ![f] = IF @ = NoTask THEN t ELSE @]

SyncFeed(t, f) ==
  /\ Ask(t, Enter(f), f, "none")
  /\ Lock(t, f)
  /\ UNCHANGED <<tables, queue, retries, dlq, isRunning, batch, failures>>

\* The promise settles: the owner takes it out of syncLocks, and all who joined return.
Settle(t) ==
  LET f == work[t].feed IN
  /\ syncLocks' = [syncLocks EXCEPT ![f] = NoTask]
  /\ work' = [s \in Tasks |-> IF s = t \/ (At(s, "joined") /\ work[s].feed = f)
                              THEN Idle(s) ELSE work[s]]

\* Mutant: the feed is refused before the try whose finally releases the lock.
MReadFeedKeepsLock(t) ==
  LET f == work[t].feed IN
  /\ At(t, "reading")
  /\ work' = [work EXCEPT ![t] =
                IF Exists(f) /\ row[f].status \notin {"disabled", "archived"}
                THEN [@ EXCEPT !.phase = "fetching",
                        !.seen = [success |-> row[f].success, failure |-> row[f].failure,
                                  errors |-> row[f].errors]]
                ELSE Idle(t)]
  /\ UNCHANGED <<tables, memory, requests, failures>>

ReadFeed(t) ==
  LET f == work[t].feed IN
  /\ At(t, "reading")
  /\ IF Exists(f) /\ row[f].status \notin {"disabled", "archived"}
     THEN /\ work' = [work EXCEPT ![t].phase = "fetching",
                        ![t].seen = [success |-> row[f].success, failure |-> row[f].failure,
                                     errors |-> row[f].errors]]
          /\ UNCHANGED syncLocks
     ELSE Settle(t)
  /\ UNCHANGED <<tables, queue, retries, dlq, isRunning, batch, requests, failures>>

\* The site answers with a document within 15 s, or with anything else.
Fetch(t) ==
  /\ At(t, "fetching")
  /\ \/ \E document \in Documents :
          work' = [work EXCEPT ![t].phase = "importing", ![t].todo = document]
     \/ Go(t, "failing")
  /\ UNCHANGED <<tables, memory, requests, failures>>

Known(f, e) == \E d \in entries[f] : d[1] = e[1] \/ d[2] = e[2]

\* Mutant: a known entry is counted as imported.
MImportEntryCountsAll(t) ==
  LET f == work[t].feed IN
  /\ At(t, "importing") /\ work[t].todo # <<>>
  /\ LET e == Head(work[t].todo) IN
       entries' = IF Known(f, e) THEN entries ELSE [entries EXCEPT ![f] = @ \cup {e}]
  /\ work' = [work EXCEPT ![t].todo = Tail(@), ![t].imported = @ + 1]
  /\ UNCHANGED <<row, log, memory, requests, failures>>

\* One entry: skipped when it is known, inserted when not.  Only the sync that holds the
\* feed inserts entries, so nothing comes between its queries and its insert.
ImportEntry(t) ==
  LET f == work[t].feed IN
  /\ At(t, "importing") /\ work[t].todo # <<>>
  /\ LET e == Head(work[t].todo)  new == ~Known(f, e) IN
       /\ entries' = IF new THEN [entries EXCEPT ![f] = @ \cup {e}] ELSE entries
       /\ work' = [work EXCEPT ![t].todo = Tail(@),
                               ![t].imported = IF new THEN @ + 1 ELSE @]
  /\ UNCHANGED <<row, log, memory, requests, failures>>

\* The catch around one entry: a statement failed, the entry is left out.
SkipEntry(t) ==
  /\ At(t, "importing") /\ work[t].todo # <<>> /\ failures < MaxFailures
  /\ work' = [work EXCEPT ![t].todo = Tail(@)]
  /\ failures' = failures + 1
  /\ UNCHANGED <<tables, memory, requests>>

EndImport(t) ==
  /\ At(t, "importing") /\ work[t].todo = <<>>
  /\ Go(t, "writing")
  /\ UNCHANGED <<tables, memory, requests, failures>>

WriteSuccess(t) ==
  LET f == work[t].feed IN
  /\ At(t, "writing")
  /\ row' = [row EXCEPT ![f].status = "active", ![f].errors = 0,
                        ![f].success = work[t].seen.success + 1]
  /\ Go(t, "logging")
  /\ UNCHANGED <<entries, log, memory, requests, failures>>

Report(t) ==
  LET f == work[t].feed IN
  log' = [log EXCEPT ![f] = [imported |-> @.imported + work[t].imported,
                             written |-> @.written + 1]]

LogSuccess(t) ==
  /\ At(t, "logging")
  /\ Report(t)
  /\ Go(t, "closing")
  /\ UNCHANGED <<row, entries, memory, requests, failures>>

CloseSync(t) ==
  /\ At(t, "closing")
  /\ RemoveFromRetry(work[t].feed)
  /\ Settle(t)
  /\ UNCHANGED <<tables, queue, dlq, isRunning, batch, requests, failures>>

WriteFailure(t) ==
  LET f == work[t].feed  count == work[t].seen.failure + 1 IN
  /\ At(t, "failing")
  /\ row' = [row EXCEPT ![f].status = IF count >= FailedAt THEN "failed" ELSE "active",
                        ![f].failure = count, ![f].errors = work[t].seen.errors + 1]
  /\ Go(t, "reporting")
  /\ UNCHANGED <<entries, log, memory, requests, failures>>

LogFailure(t) ==
  /\ At(t, "reporting")
  /\ Report(t)
  /\ Go(t, "retrying")
  /\ UNCHANGED <<row, entries, memory, requests, failures>>

\* addToRetry, or the dead letters once the limit is reached.
Reschedule(t) ==
  LET f == work[t].feed IN
  /\ At(t, "retrying")
  /\ IF work[t].seen.errors + 1 < RetryLimit
     THEN waiting' = [waiting EXCEPT ![f] = @ + 1] /\ Settle(t) /\ UNCHANGED dlq
     ELSE dlq' = [dlq EXCEPT ![f] = @ + 1] /\ Go(t, "burying") /\ UNCHANGED <<waiting, syncLocks>>
  /\ UNCHANGED <<tables, queue, ripe, isRunning, batch, requests, failures>>

Bury(t) ==
  /\ At(t, "burying")
  /\ row' = [row EXCEPT ![work[t].feed].status = "failed"]
  /\ Settle(t)
  /\ UNCHANGED <<entries, log, queue, retries, dlq, isRunning, batch, requests, failures>>

\* A statement fails: inside the try of executeSync the sync goes on in its catch, which
\* starts from the row read at the beginning; a failure of the catch is thrown to everybody
\* who waits; other requests end with an error.
Fail(t) ==
  /\ failures < MaxFailures
  /\ failures' = failures + 1
  /\ \/ work[t].phase \in {"writing", "logging"} /\ Go(t, "failing") /\ UNCHANGED syncLocks
     \/ work[t].phase \in {"reading", "failing", "reporting", "burying"} /\ Settle(t)
     \/ /\ work[t].phase \in {"adding", "finding", "changing"}
        /\ work' = [work EXCEPT ![t] = Idle(t)]
        /\ UNCHANGED syncLocks
  /\ UNCHANGED <<tables, queue, retries, dlq, isRunning, batch, requests>>

-------------------------------------------------------------------------------
(* The auto-sync timer.                                                    *)

StartAutoSync ==
  /\ ~isRunning
  /\ isRunning' = TRUE
  /\ UNCHANGED <<tables, syncLocks, queue, retries, dlq, batch, work, requests, failures>>

\* The time of one retry item comes.
Ripen(f) ==
  /\ waiting[f] > 0
  /\ waiting' = [waiting EXCEPT ![f] = @ - 1]
  /\ ripe' = [ripe EXCEPT ![f] = @ + 1]
  /\ UNCHANGED <<tables, syncLocks, queue, dlq, isRunning, batch, work, requests, failures>>

\* Mutant: the retry queue is not looked at.
MCycleIgnoresRetries(y) ==
  /\ y \in Cycles /\ isRunning /\ At(y, "idle") /\ batch[y] = Nothing
  /\ \E b \in [Feeds -> 0..BatchSize] :
       /\ b # Nothing
       /\ \A f \in Feeds : b[f] <= queue[f]
       /\ Load(b) = BatchSize \/ (Load(b) < BatchSize /\ b = queue)
       /\ batch' = [batch EXCEPT ![y] = b]
       /\ queue' = [f \in Feeds |-> queue[f] - b[f]]
  /\ UNCHANGED <<tables, syncLocks, retries, dlq, isRunning, work, requests, failures>>

\* processRetries and dequeueBatch, without an await in between: what is due is queued,
\* then up to BatchSize items are taken.
Cycle(y) ==
  /\ y \in Cycles /\ isRunning /\ At(y, "idle") /\ batch[y] = Nothing
  /\ \E b \in [Feeds -> 0..BatchSize] :
       LET all == [f \in Feeds |-> queue[f] + ripe[f]] IN
       /\ b # Nothing
       /\ \A f \in Feeds : b[f] <= all[f]
       /\ Load(b) = BatchSize \/ (Load(b) < BatchSize /\ b = all)
       /\ batch' = [batch EXCEPT ![y] = b]
       /\ queue' = [f \in Feeds |-> all[f] - b[f]]
  /\ ripe' = Nothing
  /\ UNCHANGED <<tables, syncLocks, waiting, dlq, isRunning, work, requests, failures>>

\* The cycle syncs its feeds one after the other; errors are caught.
NextInBatch(y, f) ==
  /\ y \in Cycles /\ At(y, "idle") /\ batch[y][f] > 0
  /\ batch' = [batch EXCEPT ![y] = Drop(@, f)]
  /\ work' = [work EXCEPT ![y] = Begin(Enter(f), f, "none")]
  /\ Lock(y, f)
  /\ UNCHANGED <<tables, queue, retries, dlq, isRunning, requests, failures>>

\* The process dies and is started again: locks, queues and dead letters are gone.
Crash ==
  /\ failures < MaxFailures
  /\ failures' = failures + 1
  /\ syncLocks' = [f \in Feeds |-> NoTask]
  /\ queue' = Nothing /\ waiting' = Nothing /\ ripe' = Nothing /\ dlq' = Nothing
  /\ isRunning' = FALSE
  /\ batch' = [y \in Cycles |-> Nothing]
  /\ work' = [t \in Tasks |-> Idle(t)]
  /\ UNCHANGED <<tables, requests>>

-------------------------------------------------------------------------------
Init ==
  /\ row = [f \in Feeds |-> [status |-> "none", archived |-> FALSE,
                             success |-> 0, failure |-> 0, errors |-> 0]]
  /\ entries = [f \in Feeds |-> {}]
  /\ log = [f \in Feeds |-> [imported |-> 0, written |-> 0]]
  /\ syncLocks = [f \in Feeds |-> NoTask]
  /\ queue = Nothing /\ waiting = Nothing /\ ripe = Nothing /\ dlq = Nothing
  /\ isRunning = FALSE
  /\ batch = [y \in Cycles |-> Nothing]
  /\ \E f \in Feeds : work = [t \in Tasks |-> Begin("idle", f, "none")]
  /\ requests = 0 /\ failures = 0

Request(t) ==
  \E f \in Feeds :
    AddFeed(t, f) \/ SyncFeed(t, f) \/ \E change \in Changes : AskChange(t, f, change)

\* What goes on by itself once a task has begun.
Continue(t) ==
  \/ InsertFeed(t) \/ ScheduleManualSync(t) \/ FindFeed(t) \/ ChangeFeed(t) \/ Unqueue(t)
  \/ ReadFeed(t) \/ Fetch(t) \/ ImportEntry(t) \/ EndImport(t)
  \/ WriteSuccess(t) \/ LogSuccess(t) \/ CloseSync(t)
  \/ WriteFailure(t) \/ LogFailure(t) \/ Reschedule(t) \/ Bury(t)

Timer(y) == Cycle(y) \/ \E f \in Feeds : NextInBatch(y, f)

Next ==
  \/ \E t \in Callers : Request(t)
  \/ \E t \in Tasks : Continue(t) \/ SkipEntry(t) \/ Fail(t)
  \/ \E y \in Cycles : Timer(y)
  \/ \E f \in Feeds : Ripen(f)
  \/ StartAutoSync \/ Crash

Spec == Init /\ [][Next]_vars

\* Node runs every task on; the timer fires while it runs, and time passes.
Fairness ==
  /\ \A t \in Tasks : WF_vars(Continue(t))
  /\ \A y \in Cycles : WF_vars(Timer(y))
  /\ \A f \in Feeds : WF_vars(Ripen(f))

FairSpec == Spec /\ Fairness

-------------------------------------------------------------------------------
(* Properties.                                                             *)

Seen == [success : Nat, failure : Nat, errors : Nat]
Rows == [status : Statuses, archived : BOOLEAN, success : Nat, failure : Nat, errors : Nat]
Works == [phase : Phases, feed : Feeds, change : Changes \cup {"none"}, seen : Seen,
          todo : Seq(Items), imported : Nat]
Counts == [Feeds -> Nat]

\* The types of the variables; a feed is locked exactly while a task syncs it.
TypeOK ==
  /\ row \in [Feeds -> Rows]
  /\ entries \in [Feeds -> SUBSET Items]
  /\ log \in [Feeds -> [imported : Nat, written : Nat]]
  /\ syncLocks \in [Feeds -> Tasks \cup {NoTask}]
  /\ {queue, waiting, ripe, dlq} \subseteq Counts
  /\ isRunning \in BOOLEAN
  /\ batch \in [Cycles -> Counts]
  /\ work \in [Tasks -> Works]
  /\ requests \in Nat /\ failures \in Nat
  /\ \A f \in Feeds, t \in Tasks :
       syncLocks[f] = t <=> work[t].phase \in SyncPhases /\ work[t].feed = f

\* The counters of a row are computed from the row a sync read at its start, several awaits
\* earlier, and written whole.  No outcome is lost by that: a write never does anything but
\* add one to one of the two.
OneMore(old, new) ==
  \/ new.success = old.success /\ new.failure = old.failure
  \/ new.success = old.success + 1 /\ new.failure = old.failure
  \/ new.success = old.success /\ new.failure = old.failure + 1

NoLostCount == [][\A f \in Feeds : OneMore(row[f], row'[f])]_vars

\* What the sync that holds feed f has imported and not reported in a log yet.
Unreported(f) ==
  LET t == syncLocks[f] IN
  IF t # NoTask /\ work[t].phase \in {"importing", "writing", "logging", "failing", "reporting"}
  THEN work[t].imported ELSE 0

\* The logs report an entry at most once, whatever fails between the import and the log, and
\* all of them when nothing fails.
ReportedOnce ==
  \A f \in Feeds :
    LET reported == log[f].imported + Unreported(f) IN
    /\ reported <= Cardinality(entries[f])
    /\ failures = 0 => reported = Cardinality(entries[f])

\* A feed becomes a dead letter only when its row shows RetryLimit failures in a row,
\* although other requests write that row while the sync runs.
DeadLettersDeserved ==
  [][\A f \in Feeds : dlq'[f] > dlq[f] => row[f].errors >= RetryLimit]_vars

\* Every request is answered, also one that waits for the sync of another.
EveryCallEnds == \A t \in Tasks : work[t].phase # "idle" ~> work[t].phase = "idle"

\* While the timer runs, a failed feed whose retry is due is synced again or taken out of
\* the queues.
RetryServed ==
  \A f \in Feeds :
    isRunning /\ ripe[f] > 0 ~> ~isRunning \/ syncLocks[f] # NoTask \/ ripe[f] + queue[f] = 0
===============================================================================
