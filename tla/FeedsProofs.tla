------------------------------ MODULE FeedsProofs ------------------------------
(***************************************************************************)
(* What holds of the feeds for any number of feeds, requests, timer cycles *)
(* and documents.  The inductive invariant is IInv.  Its core is the lock: *)
(* whoever is in the middle of a sync of a feed is the one syncLocks names *)
(* (Locked), hence alone; so what it read of the row's counters is still   *)
(* true, up to its own writes (Informed), and the entries in the table are *)
(* those reported by a log and those it has still to report (Counted).     *)
(***************************************************************************)
EXTENDS Feeds, FiniteSetTheorems, TLAPS

MemoryOK ==
  /\ queue \in Counts /\ waiting \in Counts /\ ripe \in Counts /\ dlq \in Counts
  /\ isRunning \in BOOLEAN
  /\ batch \in [Cycles -> Counts]

TablesOK ==
  /\ row \in [Feeds -> Rows]
  /\ entries \in [Feeds -> SUBSET Items]
  /\ log \in [Feeds -> [imported : Nat, written : Nat]]

TasksOK ==
  /\ syncLocks \in [Feeds -> Tasks \cup {NoTask}]
  /\ work \in [Tasks -> Works]
  /\ requests \in Nat /\ failures \in Nat

Syncing(w) == w.phase \in SyncPhases

\* A feed is locked exactly while a task syncs it, and whoever waits, waits for such a task.
Locked ==
  /\ \A f \in Feeds, t \in Tasks : syncLocks[f] = t <=> Syncing(work[t]) /\ work[t].feed = f
  /\ \A t \in Tasks : At(t, "joined") => syncLocks[work[t].feed] # NoTask

\* What a task knows at each phase of row r, that of its feed.
Knows(w, r) ==
  /\ w.phase \in {"reading", "fetching"} => w.imported = 0
  /\ w.phase \in {"fetching", "importing", "writing"} =>
       r.success = w.seen.success /\ r.failure = w.seen.failure /\ r.errors = w.seen.errors
  /\ w.phase \in {"logging", "failing"} => r.failure = w.seen.failure
  /\ w.phase \in {"reporting", "retrying"} => r.errors = w.seen.errors + 1

Informed == \A t \in Tasks : Knows(work[t], row[work[t].feed])

ReportingPhases == {"importing", "writing", "logging", "failing", "reporting"}
Owed(w) == IF w.phase \in ReportingPhases THEN w.imported ELSE 0

\* What the logs report of a set of entries, when n entries are still to be reported: all of
\* them unless something failed.
Account(set, line, n, failed) ==
  /\ IsFiniteSet(set)
  /\ line.imported + n <= Cardinality(set)
  /\ failed = 0 => line.imported + n = Cardinality(set)

Counted == \A f \in Feeds : Account(entries[f], log[f], Unreported(f), failures)

\* A request that changes a feed knows what it was asked for.
Purposeful ==
  \A t \in Tasks : work[t].phase \in {"finding", "changing"} => work[t].change \in Changes

Core == TablesOK /\ TasksOK /\ Locked /\ Informed /\ Counted
IInv == MemoryOK /\ Purposeful /\ Core

LEMMA IInvShows == IInv => TypeOK /\ ReportedOnce
<1> SUFFICES ASSUME IInv PROVE TypeOK /\ ReportedOnce
  OBVIOUS
<1>1. TypeOK
  BY DEF IInv, Core, MemoryOK, TablesOK, TasksOK, Locked, Syncing, TypeOK
<1>2. ReportedOnce
  BY DEF IInv, Core, Counted, Account, ReportedOnce
<1> QED BY <1>1, <1>2

-------------------------------------------------------------------------------
(* The queues in memory.                                                   *)

LEMMA CountsFacts ==
  /\ Nothing \in Counts
  /\ \A q \in Counts, f \in Feeds : Drop(q, f) \in Counts /\ [q EXCEPT ![f] = @ + 1] \in Counts
<1>1. Nothing \in Counts
  BY DEF Nothing, Counts
<1>2. ASSUME NEW q \in Counts, NEW f \in Feeds
      PROVE  Drop(q, f) \in Counts /\ [q EXCEPT ![f] = @ + 1] \in Counts
  <2>1. q[f] \in Nat /\ (q[f] > 0 => q[f] - 1 \in Nat) /\ q[f] + 1 \in Nat
    BY DEF Counts
  <2> QED BY <2>1 DEF Drop, Counts
<1> QED BY <1>1, <1>2

LEMMA RemoveFromRetryType ==
  ASSUME MemoryOK, NEW f \in Feeds, RemoveFromRetry(f)
  PROVE  waiting' \in Counts /\ ripe' \in Counts
BY CountsFacts DEF MemoryOK, RemoveFromRetry

LEMMA CycleMemory ==
  ASSUME MemoryOK, NEW y \in Cycles, Cycle(y)
  PROVE  MemoryOK'
<1>1. PICK b \in [Feeds -> 0..BatchSize] :
        LET all == [f \in Feeds |-> queue[f] + ripe[f]] IN
        /\ \A f \in Feeds : b[f] <= all[f]
        /\ batch' = [batch EXCEPT ![y] = b]
        /\ queue' = [f \in Feeds |-> all[f] - b[f]]
  <2>1. PICK b \in [Feeds -> 0..BatchSize] :
          LET all == [f \in Feeds |-> queue[f] + ripe[f]] IN
          /\ b # Nothing
          /\ \A f \in Feeds : b[f] <= all[f]
          /\ Load(b) = BatchSize \/ (Load(b) < BatchSize /\ b = all)
          /\ batch' = [batch EXCEPT ![y] = b]
          /\ queue' = [f \in Feeds |-> all[f] - b[f]]
    BY Zenon DEF Cycle
  <2> QED BY <2>1, Zenon
<1>2. BatchSize \in Nat
  BY FeedsAssumption
<1>3. \A f \in Feeds : queue[f] \in Nat /\ ripe[f] \in Nat /\ b[f] \in Nat
  BY <1>2 DEF MemoryOK, Counts
<1>4. \A f \in Feeds : (queue[f] + ripe[f]) - b[f] \in Nat
  BY <1>1, <1>3
<1>5. b \in Counts
  BY <1>2 DEF Counts
<1>6. queue' = [f \in Feeds |-> (queue[f] + ripe[f]) - b[f]]
  BY <1>1
<1>7. queue' \in Counts
  BY <1>4, <1>6 DEF Counts
<1>8. batch' \in [Cycles -> Counts]
  BY <1>1, <1>5 DEF MemoryOK
<1>9. ripe' \in Counts /\ waiting' = waiting /\ dlq' = dlq /\ isRunning' = isRunning
  BY CountsFacts DEF Cycle
<1> QED BY <1>7, <1>8, <1>9 DEF MemoryOK

LEMMA MemoryKept ==
  ASSUME IInv, [Next]_vars
  PROVE  MemoryOK'
<1>1. MemoryOK /\ (\A t \in Tasks : work[t].feed \in Feeds)
  BY DEF IInv, Core, TasksOK, Works
<1>2. Callers \subseteq Tasks /\ Cycles \subseteq Tasks
  BY DEF Tasks
<1>3. CASE UNCHANGED <<queue, retries, dlq, isRunning, batch>>
  BY <1>1, <1>3 DEF MemoryOK, retries
<1>4. ASSUME NEW t \in Callers, Request(t) PROVE UNCHANGED <<queue, retries, dlq, isRunning, batch>>
  BY <1>4 DEF Request, AddFeed, SyncFeed, AskChange, memory
<1>5. ASSUME NEW t \in Tasks, Continue(t) PROVE MemoryOK'
  <2>1. CASE ScheduleManualSync(t)
    <3>1. queue' \in Counts
      BY <1>1, <2>1, CountsFacts DEF ScheduleManualSync, Enqueue, MemoryOK
    <3> QED BY <1>1, <2>1, <3>1 DEF ScheduleManualSync, MemoryOK, retries
  <2>2. CASE Unqueue(t)
    <3>1. queue' \in Counts /\ dlq' \in Counts
      BY <1>1, <2>2, CountsFacts DEF Unqueue, MemoryOK
    <3>2. waiting' \in Counts /\ ripe' \in Counts
      BY <1>1, <2>2, RemoveFromRetryType DEF Unqueue, MemoryOK, retries
    <3> QED BY <1>1, <2>2, <3>1, <3>2 DEF Unqueue, MemoryOK
  <2>3. CASE CloseSync(t)
    <3>1. waiting' \in Counts /\ ripe' \in Counts
      BY <1>1, <2>3, RemoveFromRetryType DEF CloseSync
    <3> QED BY <1>1, <2>3, <3>1 DEF CloseSync, MemoryOK
  <2>4. CASE Reschedule(t)
    <3>1. waiting' \in Counts /\ dlq' \in Counts
      BY <1>1, <2>4, CountsFacts DEF Reschedule, MemoryOK
    <3> QED BY <1>1, <2>4, <3>1 DEF Reschedule, MemoryOK
  <2>5. CASE \/ InsertFeed(t) \/ FindFeed(t) \/ ChangeFeed(t) \/ Fetch(t) \/ ImportEntry(t)
             \/ EndImport(t) \/ WriteSuccess(t) \/ LogSuccess(t) \/ WriteFailure(t)
             \/ LogFailure(t)
    BY <1>3, <2>5 DEF InsertFeed, FindFeed, ChangeFeed, Fetch, ImportEntry, EndImport,
                      WriteSuccess, LogSuccess, WriteFailure, LogFailure, memory
  <2>6. CASE ReadFeed(t) \/ Bury(t)
    BY <1>3, <2>6 DEF ReadFeed, Bury
  <2> QED BY <1>5, <2>1, <2>2, <2>3, <2>4, <2>5, <2>6 DEF Continue
<1>6. ASSUME NEW t \in Tasks, SkipEntry(t) \/ Fail(t)
      PROVE  UNCHANGED <<queue, retries, dlq, isRunning, batch>>
  BY <1>6 DEF SkipEntry, Fail, memory
<1>7. ASSUME NEW y \in Cycles, NEW f \in Feeds, NextInBatch(y, f) PROVE MemoryOK'
  <2>1. batch' \in [Cycles -> Counts]
    BY <1>1, <1>7, CountsFacts DEF NextInBatch, MemoryOK
  <2> QED BY <1>1, <1>7, <2>1 DEF NextInBatch, MemoryOK, retries
<1>8. ASSUME NEW f \in Feeds, Ripen(f) PROVE MemoryOK'
  <2>1. waiting[f] - 1 \in Nat
    BY <1>1, <1>8 DEF Ripen, MemoryOK, Counts
  <2>2. waiting' \in Counts
    BY <1>1, <1>8, <2>1 DEF Ripen, MemoryOK, Counts
  <2>3. ripe' \in Counts
    BY <1>1, <1>8, CountsFacts DEF Ripen, MemoryOK
  <2> QED BY <1>1, <1>8, <2>2, <2>3 DEF Ripen, MemoryOK
<1>9. CASE StartAutoSync
  BY <1>1, <1>9 DEF StartAutoSync, MemoryOK, retries
<1>10. CASE Crash
  BY <1>1, <1>10, CountsFacts DEF Crash, MemoryOK
<1>11. CASE UNCHANGED vars
  BY <1>3, <1>11 DEF vars, memory
<1> QED BY <1>1, <1>3, <1>4, <1>5, <1>6, <1>7, <1>8, <1>9, <1>10, <1>11, CycleMemory DEF Next, Timer

-------------------------------------------------------------------------------
(* What a step does to the locks, what the tasks know and what is counted. *)

LEMMA BeginWorks ==
  ASSUME NEW phase \in Phases, NEW f \in Feeds, NEW change \in Changes \cup {"none"}
  PROVE  /\ Begin(phase, f, change) \in Works
         /\ Begin(phase, f, change).phase = phase /\ Begin(phase, f, change).feed = f
         /\ Begin(phase, f, change).imported = 0
<1>1. Unseen \in Seen /\ <<>> \in Seq(Items)
  BY DEF Unseen, Seen
<1> QED BY <1>1 DEF Begin, Works

LEMMA IdleWorks ==
  ASSUME TasksOK, NEW t \in Tasks
  PROVE  Idle(t) \in Works /\ Idle(t).phase = "idle" /\ Idle(t).feed = work[t].feed
BY BeginWorks DEF Idle, TasksOK, Works, Phases

SameCounters ==
  /\ row' \in [Feeds -> Rows]
  /\ \A f \in Feeds : /\ row'[f].success = row[f].success /\ row'[f].failure = row[f].failure
                      /\ row'[f].errors = row[f].errors

NoMoreFailed == failures' \in Nat /\ (failures' = 0 => failures = 0)

\* A task outside of a sync goes on outside of a sync.
LEMMA QuietTask ==
  ASSUME Core, NEW t \in Tasks, NEW w \in Works,
         ~Syncing(work[t]), ~Syncing(w), w.phase # "joined",
         work' = [work EXCEPT ![t] = w], SameCounters, NoMoreFailed,
         UNCHANGED <<entries, log, syncLocks>>, requests' \in Nat
  PROVE  Core'
<1>1. /\ work \in [Tasks -> Works] /\ work' \in [Tasks -> Works] /\ work'[t] = w
      /\ \A s \in Tasks \ {t} : work'[s] = work[s]
  BY DEF Core, TasksOK
<1>2. TablesOK' /\ TasksOK'
  BY <1>1 DEF Core, TablesOK, TasksOK, SameCounters, NoMoreFailed
<1>3. Locked'
  BY <1>1 DEF Core, Locked, At
<1>4. Knows(w, row[w.feed]')
  BY DEF Knows, Syncing, SyncPhases
<1>5. \A s \in Tasks : work[s].feed \in Feeds
  BY <1>1 DEF Works
<1>6. Informed'
  BY <1>1, <1>4, <1>5 DEF Core, Informed, Knows, SameCounters
<1>7. ASSUME NEW f \in Feeds PROVE Unreported(f)' = Unreported(f)
  <2>1. syncLocks[f] # NoTask => syncLocks[f] \in Tasks \ {t}
    BY DEF Core, TasksOK, Locked
  <2> QED BY <1>1, <2>1 DEF Unreported
<1>8. Counted'
  BY <1>7 DEF Core, Counted, Account, NoMoreFailed
<1> QED BY <1>2, <1>3, <1>6, <1>8 DEF Core

\* The task that syncs a feed is the only one to change the feed's tables beside the status.
LEMMA SyncTask ==
  ASSUME Core, NEW t \in Tasks, NEW w \in Works, NEW f \in Feeds, f = work[t].feed,
         Syncing(work[t]), Syncing(w), w.feed = f,
         work' = [work EXCEPT ![t] = w], TablesOK', NoMoreFailed,
         UNCHANGED <<syncLocks, requests>>,
         \A g \in Feeds \ {f} : row'[g] = row[g] /\ entries'[g] = entries[g] /\ log'[g] = log[g],
         Knows(w, row'[f]),
         Account(entries[f], log[f], Owed(work[t]), failures) =>
           Account(entries'[f], log'[f], Owed(w), failures')
  PROVE  Core'
<1>1. /\ work \in [Tasks -> Works] /\ work' \in [Tasks -> Works] /\ work'[t] = w
      /\ \A s \in Tasks \ {t} : work'[s] = work[s]
  BY DEF Core, TasksOK
<1>2. TasksOK'
  BY <1>1 DEF Core, TasksOK, NoMoreFailed
<1>3. w.phase # "joined" /\ work[t].phase # "joined"
  BY DEF Syncing, SyncPhases
<1>4. Locked'
  BY <1>1, <1>3 DEF Core, Locked, At
<1>5. NoTask \notin Tasks /\ syncLocks[f] = t
  BY FeedsAssumption DEF Core, Locked, Tasks
<1>6. ASSUME NEW s \in Tasks, s # t PROVE Knows(work'[s], row'[work'[s].feed])
  <2>1. work'[s] = work[s] /\ work[s].feed \in Feeds /\ Knows(work[s], row[work[s].feed])
    BY <1>1, <1>6 DEF Core, Informed, Works
  <2>2. CASE work[s].feed = f
    <3>1. ~Syncing(work[s])
      BY <1>5, <1>6, <2>2 DEF Core, Locked
    <3> QED BY <2>1, <3>1 DEF Knows, Syncing, SyncPhases
  <2> QED BY <2>1, <2>2
<1>7. Informed'
  BY <1>1, <1>6 DEF Informed
<1>8. ASSUME NEW g \in Feeds PROVE Account(entries[g], log[g], Unreported(g), failures)'
  <2>1. Account(entries[g], log[g], Unreported(g), failures)
    BY DEF Core, Counted
  <2>2. CASE g = f
    <3>1. Unreported(g) = Owed(work[t]) /\ Unreported(g)' = Owed(w)
      BY <1>1, <1>5, <2>2 DEF Unreported, Owed, ReportingPhases
    <3> QED BY <2>1, <2>2, <3>1 DEF Account
  <2>3. CASE g # f
    <3>1. syncLocks[g] # t
      BY <2>3 DEF Core, Locked
    <3>2. syncLocks[g] # NoTask => syncLocks[g] \in Tasks \ {t}
      BY <3>1 DEF Core, TasksOK
    <3>3. Unreported(g)' = Unreported(g)
      BY <1>1, <3>2 DEF Unreported
    <3> QED BY <2>1, <2>3, <3>3 DEF Account, NoMoreFailed
  <2> QED BY <2>2, <2>3
<1>9. Counted'
  BY <1>8 DEF Counted
<1> QED BY <1>2, <1>4, <1>7, <1>9 DEF Core

\* The end of a sync: what it has not reported by then was interrupted by a failure.
LEMMA SettleTask ==
  ASSUME Core, NEW t \in Tasks, Syncing(work[t]), Settle(t), SameCounters, NoMoreFailed,
         UNCHANGED <<entries, log, requests>>,
         failures' = 0 => Owed(work[t]) = 0
  PROVE  Core'
<1>1. PICK f \in Feeds : f = work[t].feed
  BY DEF Core, TasksOK, Works
<1>2. /\ work \in [Tasks -> Works]
      /\ syncLocks' = [syncLocks EXCEPT ![f] = NoTask]
      /\ work' = [s \in Tasks |-> IF s = t \/ (At(s, "joined") /\ work[s].feed = f)
                                  THEN Idle(s) ELSE work[s]]
      /\ syncLocks \in [Feeds -> Tasks \cup {NoTask}] /\ syncLocks[f] = t
  BY <1>1 DEF Core, TasksOK, Settle, Locked
<1>3. NoTask \notin Tasks
  BY FeedsAssumption DEF Tasks
<1>4. ASSUME NEW s \in Tasks
      PROVE  /\ work'[s] \in Works /\ work'[s].feed = work[s].feed /\ work[s].feed \in Feeds
             /\ \/ work'[s] = work[s] /\ s # t /\ ~(At(s, "joined") /\ work[s].feed = f)
                \/ work'[s].phase = "idle" /\ (s = t \/ (At(s, "joined") /\ work[s].feed = f))
  BY <1>2, IdleWorks DEF Core, TasksOK, Works
<1>5. TasksOK' /\ TablesOK'
  BY <1>2, <1>4 DEF Core, TasksOK, TablesOK, SameCounters, NoMoreFailed
<1>6. ASSUME NEW s \in Tasks PROVE Syncing(work'[s]) <=> Syncing(work[s]) /\ s # t
  BY <1>4 DEF Syncing, SyncPhases, At
<1>7. ASSUME NEW g \in Feeds, NEW s \in Tasks
      PROVE  syncLocks'[g] = s <=> Syncing(work'[s]) /\ work'[s].feed = g
  <2>1. syncLocks[g] = s <=> Syncing(work[s]) /\ work[s].feed = g
    BY DEF Core, Locked
  <2>2. CASE g = f
    BY <1>2, <1>3, <1>4, <1>6, <2>1, <2>2
  <2>3. CASE g # f
    BY <1>1, <1>2, <1>4, <1>6, <2>1, <2>3
  <2> QED BY <2>2, <2>3
<1>8. ASSUME NEW s \in Tasks, At(s, "joined")' PROVE syncLocks'[work'[s].feed] # NoTask
  <2>1. work'[s] = work[s] /\ work[s].feed # f /\ At(s, "joined")
    BY <1>4, <1>8 DEF At
  <2> QED BY <1>2, <1>4, <2>1 DEF Core, Locked
<1>9. Locked'
  BY <1>7, <1>8 DEF Locked
<1>10. Informed'
  <2>1. ASSUME NEW s \in Tasks PROVE Knows(work'[s], row'[work'[s].feed])
    <3>1. Knows(work[s], row[work[s].feed])
      BY DEF Core, Informed
    <3> QED BY <1>4, <3>1 DEF Knows, SameCounters
  <2> QED BY <2>1 DEF Informed
<1>11. ASSUME NEW g \in Feeds PROVE Account(entries[g], log[g], Unreported(g), failures)'
  <2>1. Account(entries[g], log[g], Unreported(g), failures)
    BY DEF Core, Counted
  <2>2. CASE g = f
    <3>1. Unreported(g) = Owed(work[t]) /\ Unreported(g)' = 0
      BY <1>2, <1>3, <2>2 DEF Unreported, Owed, ReportingPhases
    <3>2. Owed(work[t]) \in Nat /\ log[g].imported \in Nat
      BY DEF Core, TasksOK, TablesOK, Works, Owed
    <3>3. Cardinality(entries[g]) \in Nat
      BY <2>1, FS_CardinalityType DEF Account
    <3> QED BY <2>1, <3>1, <3>2, <3>3 DEF Account, NoMoreFailed
  <2>3. CASE g # f
    <3>1. syncLocks'[g] = syncLocks[g]
      BY <1>2, <2>3
    <3>2. ASSUME syncLocks[g] # NoTask
          PROVE  syncLocks[g] \in Tasks /\ work'[syncLocks[g]] = work[syncLocks[g]]
      <4>1. PICK s \in Tasks : s = syncLocks[g]
        BY <1>2, <3>2
      <4>2. Syncing(work[s]) /\ work[s].feed = g
        BY <4>1 DEF Core, Locked
      <4>3. s # t /\ ~At(s, "joined")
        BY <1>1, <2>3, <4>2 DEF At, Syncing, SyncPhases
      <4> QED BY <1>4, <4>1, <4>3
    <3>3. Unreported(g)' = Unreported(g)
      BY <3>1, <3>2 DEF Unreported
    <3> QED BY <2>1, <3>3 DEF Account, NoMoreFailed
  <2> QED BY <2>2, <2>3
<1>12. Counted'
  BY <1>11 DEF Counted
<1> QED BY <1>5, <1>9, <1>10, <1>12 DEF Core

\* A task outside of a sync begins one or waits for the one under way.
LEMMA EnterTask ==
  ASSUME Core, NEW t \in Tasks, NEW f \in Feeds, ~Syncing(work[t]), Lock(t, f),
         work' = [work EXCEPT ![t] = Begin(Enter(f), f, "none")],
         UNCHANGED <<tables, failures>>, requests' \in Nat
  PROVE  Core'
<1>1. PICK w : w = Begin(Enter(f), f, "none")
  OBVIOUS
<1>2. w \in Works /\ w.phase = Enter(f) /\ w.feed = f /\ w.imported = 0
  BY <1>1, BeginWorks DEF Enter, Phases, SyncPhases
<1>3. /\ work \in [Tasks -> Works] /\ work' \in [Tasks -> Works] /\ work'[t] = w
      /\ \A s \in Tasks \ {t} : work'[s] = work[s]
      /\ syncLocks \in [Feeds -> Tasks \cup {NoTask}]
      /\ syncLocks' = [syncLocks EXCEPT ![f] = IF @ = NoTask THEN t ELSE @]
  BY <1>1, <1>2 DEF Core, TasksOK, Lock
<1>4. NoTask \notin Tasks
  BY FeedsAssumption DEF Tasks
<1>5. TablesOK' /\ TasksOK'
  BY <1>3 DEF Core, TablesOK, TasksOK, tables
<1>6. Syncing(w) <=> syncLocks[f] = NoTask
  BY <1>2 DEF Enter, Syncing, SyncPhases
<1>7. ASSUME NEW g \in Feeds, NEW s \in Tasks
      PROVE  syncLocks'[g] = s <=> Syncing(work'[s]) /\ work'[s].feed = g
  <2>1. syncLocks[g] = s <=> Syncing(work[s]) /\ work[s].feed = g
    BY DEF Core, Locked
  <2>2. CASE s = t
    BY <1>2, <1>3, <1>4, <1>6, <2>1, <2>2
  <2>3. CASE s # t
    BY <1>3, <1>4, <2>1, <2>3
  <2> QED BY <2>2, <2>3
<1>8. ASSUME NEW s \in Tasks, At(s, "joined")' PROVE syncLocks'[work'[s].feed] # NoTask
  <2>1. CASE s = t
    BY <1>2, <1>3, <1>4, <2>1
  <2>2. CASE s # t
    <3>1. work'[s] = work[s] /\ work[s].feed \in Feeds /\ At(s, "joined")
      BY <1>3, <1>8, <2>2 DEF At, Works
    <3>2. syncLocks[work[s].feed] # NoTask
      BY <3>1 DEF Core, Locked
    <3> QED BY <1>3, <3>1, <3>2
  <2> QED BY <2>1, <2>2
<1>9. Locked'
  BY <1>7, <1>8 DEF Locked
<1>10. Knows(w, row'[f])
  BY <1>2 DEF Knows, Enter
<1>11. Informed'
  BY <1>2, <1>3, <1>10 DEF Core, Informed, tables
<1>12. ASSUME NEW g \in Feeds PROVE Unreported(g)' = Unreported(g)
  <2>1. syncLocks[g] # NoTask => syncLocks[g] \in Tasks \ {t} /\ syncLocks'[g] = syncLocks[g]
    BY <1>3 DEF Core, Locked
  <2>2. syncLocks[g] = NoTask => Unreported(g) = 0 /\ Unreported(g)' = 0
    <3>1. CASE g = f
      BY <1>2, <1>3, <3>1 DEF Unreported
    <3>2. CASE g # f
      BY <1>3, <3>2 DEF Unreported
    <3> QED BY <3>1, <3>2
  <2> QED BY <1>3, <2>1, <2>2 DEF Unreported
<1>13. Counted'
  BY <1>12 DEF Core, Counted, Account, tables
<1> QED BY <1>5, <1>9, <1>11, <1>13 DEF Core

-------------------------------------------------------------------------------
(* The requests that do not sync.                                          *)

LEMMA GoWorks ==
  ASSUME TasksOK, NEW t \in Tasks, NEW phase \in Phases, Go(t, phase)
  PROVE  \E w \in Works :
           /\ work' = [work EXCEPT ![t] = w]
           /\ w.phase = phase /\ w.feed = work[t].feed /\ w.seen = work[t].seen
           /\ w.imported = work[t].imported
<1>1. work \in [Tasks -> Works]
  BY DEF TasksOK
<1>2. PICK w : w = [work[t] EXCEPT !.phase = phase]
  OBVIOUS
<1>3. w \in Works /\ w.phase = phase /\ w.feed = work[t].feed /\ w.seen = work[t].seen
      /\ w.imported = work[t].imported
  BY <1>1, <1>2 DEF Works
<1>4. work' = [work EXCEPT ![t] = w]
  BY <1>2 DEF Go
<1> QED BY <1>3, <1>4

LEMMA SameTables ==
  ASSUME Core, UNCHANGED row
  PROVE  SameCounters
BY DEF Core, TablesOK, SameCounters

LEMMA RequestCore ==
  ASSUME Core, NEW t \in Callers, Request(t)
  PROVE  Core'
<1>1. PICK f \in Feeds :
        AddFeed(t, f) \/ SyncFeed(t, f) \/ \E change \in Changes : AskChange(t, f, change)
  BY DEF Request
<1>2. t \in Tasks /\ requests' \in Nat /\ At(t, "idle") /\ ~Syncing(work[t])
  BY <1>1 DEF Tasks, AddFeed, SyncFeed, AskChange, Ask, Core, TasksOK, At, Syncing, SyncPhases
<1>3. ASSUME NEW phase \in {"adding", "finding"}, NEW change \in Changes \cup {"none"},
             Ask(t, phase, f, change), UNCHANGED <<tables, memory, failures>>
      PROVE  Core'
  <2>1. PICK w : w = Begin(phase, f, change)
    OBVIOUS
  <2>2. phase \in Phases /\ phase \notin SyncPhases /\ phase # "joined"
    BY DEF Phases, SyncPhases
  <2>3. w \in Works /\ ~Syncing(w) /\ w.phase # "joined"
    BY <2>1, <2>2, BeginWorks DEF Syncing
  <2>4. work' = [work EXCEPT ![t] = w]
    BY <1>3, <2>1 DEF Ask
  <2>5. SameCounters /\ NoMoreFailed
    BY <1>3, SameTables DEF tables, NoMoreFailed, Core, TasksOK
  <2> QED BY <1>2, <1>3, <2>3, <2>4, <2>5, QuietTask DEF tables, memory
<1>4. CASE AddFeed(t, f)
  BY <1>3, <1>4 DEF AddFeed
<1>5. ASSUME NEW change \in Changes, AskChange(t, f, change) PROVE Core'
  BY <1>3, <1>5 DEF AskChange
<1>6. CASE SyncFeed(t, f)
  BY <1>2, <1>6, EnterTask DEF SyncFeed, Ask
<1> QED BY <1>1, <1>4, <1>5, <1>6

\* The steps of a request that adds a feed or changes its status.
QuietStep(t) ==
  InsertFeed(t) \/ ScheduleManualSync(t) \/ FindFeed(t) \/ ChangeFeed(t) \/ Unqueue(t)

LEMMA StatusKept ==
  ASSUME TablesOK, NEW f \in Feeds, NEW status \in Statuses, NEW archived \in BOOLEAN,
         row' = [row EXCEPT ![f].status = status, ![f].archived = archived]
  PROVE  SameCounters
<1>1. [row[f] EXCEPT !.status = status, !.archived = archived] \in Rows
  BY DEF TablesOK, Rows
<1> QED BY <1>1 DEF TablesOK, SameCounters, Rows

LEMMA QuietStepCore ==
  ASSUME Core, Purposeful, NEW t \in Tasks, QuietStep(t)
  PROVE  Core'
<1>1. PICK f \in Feeds : f = work[t].feed
  BY DEF Core, TasksOK, Works
<1>2. /\ UNCHANGED <<entries, log, syncLocks, requests, failures>> /\ ~Syncing(work[t])
  BY DEF QuietStep, InsertFeed, ScheduleManualSync, FindFeed, ChangeFeed, Unqueue, tables,
         memory, At, Syncing, SyncPhases
<1>3. NoMoreFailed /\ requests' \in Nat
  BY <1>2 DEF Core, TasksOK, NoMoreFailed
<1>4. ASSUME NEW w \in Works, work' = [work EXCEPT ![t] = w], ~Syncing(w), w.phase # "joined",
             SameCounters
      PROVE  Core'
  BY <1>2, <1>3, <1>4, QuietTask
<1>5. ASSUME NEW phase \in {"queueing", "unqueueing", "changing"}, Go(t, phase), SameCounters
      PROVE  Core'
  <2>1. phase \in Phases /\ phase \notin SyncPhases /\ phase # "joined"
    BY DEF Phases, SyncPhases
  <2>2. PICK w \in Works : work' = [work EXCEPT ![t] = w] /\ w.phase = phase
    BY <1>5, <2>1, GoWorks DEF Core
  <2> QED BY <1>4, <1>5, <2>1, <2>2 DEF Syncing
<1>6. ASSUME work' = [work EXCEPT ![t] = Idle(t)], UNCHANGED row
      PROVE  Core'
  <2>1. PICK w : w = Idle(t)
    OBVIOUS
  <2>2. w \in Works /\ ~Syncing(w) /\ w.phase # "joined"
    BY <2>1, IdleWorks DEF Core, Syncing, SyncPhases
  <2> QED BY <1>4, <1>6, <2>1, <2>2, SameTables
<1>7. CASE InsertFeed(t)
  <2>1. row[f].archived \in BOOLEAN /\ row \in [Feeds -> Rows]
    BY DEF Core, TablesOK, Rows
  <2>2. row' = [row EXCEPT ![f].status = "active", ![f].archived = row[f].archived]
    BY <1>1, <1>7, <2>1 DEF InsertFeed, Rows
  <2>3. SameCounters
    BY <2>1, <2>2, StatusKept DEF Core, Statuses
  <2> QED BY <1>5, <1>7, <2>3 DEF InsertFeed
<1>8. CASE ScheduleManualSync(t)
  BY <1>6, <1>8 DEF ScheduleManualSync, tables
<1>9. CASE FindFeed(t)
  <2>1. row' = row
    BY <1>9 DEF FindFeed, tables
  <2>2. CASE Exists(f)
    <3>1. Go(t, "changing")
      BY <1>1, <1>9, <2>2 DEF FindFeed, Go, Core, TasksOK
    <3> QED BY <1>5, <2>1, <3>1, SameTables
  <2>3. CASE ~Exists(f)
    <3>1. work' = [work EXCEPT ![t] = Idle(t)]
      BY <1>1, <1>9, <2>3 DEF FindFeed, Core, TasksOK
    <3> QED BY <1>6, <2>1, <3>1
  <2> QED BY <2>2, <2>3
<1>10. CASE ChangeFeed(t)
  <2>1. PICK change \in Changes : change = work[t].change
    BY <1>10 DEF ChangeFeed, Purposeful, At
  <2>2. PICK status \in Statuses : status = StatusOf(change)
    BY DEF StatusOf, Statuses, Changes
  <2>3. PICK archived \in BOOLEAN : archived = (row[f].archived \/ change = "delete")
    OBVIOUS
  <2>4. row' = [row EXCEPT ![f].status = status, ![f].archived = archived]
    <3>1. row' = [row EXCEPT ![f].status = StatusOf(change),
                             ![f].archived = @ \/ change = "delete"]
      BY <1>1, <1>10, <2>1 DEF ChangeFeed
    <3>2. row \in [Feeds -> Rows]
      BY DEF Core, TablesOK
    <3> QED BY <2>2, <2>3, <3>1, <3>2 DEF Rows
  <2>5. SameCounters
    BY <2>4, StatusKept DEF Core
  <2>6. PICK phase \in {"queueing", "unqueueing"} : Go(t, phase)
    BY <1>10 DEF ChangeFeed
  <2> QED BY <1>5, <2>5, <2>6
<1>11. CASE Unqueue(t)
  BY <1>6, <1>11 DEF Unqueue, tables
<1> QED BY <1>7, <1>8, <1>9, <1>10, <1>11 DEF QuietStep

-------------------------------------------------------------------------------
(* The steps of a sync, each with the part of SyncTask it must show.       *)

\* The steps that go on to another phase of the sync and leave the table of entries alone.
Goes(t, phase) ==
  /\ phase \in SyncPhases
  /\ Go(t, phase)
  /\ UNCHANGED <<entries, syncLocks, requests>>

LEMMA RowWritten ==
  ASSUME TablesOK, NEW f \in Feeds, NEW r \in Rows, row' = [row EXCEPT ![f] = r],
         UNCHANGED <<entries, log>>
  PROVE  /\ TablesOK' /\ row'[f] = r
         /\ \A g \in Feeds \ {f} : row'[g] = row[g] /\ entries'[g] = entries[g] /\ log'[g] = log[g]
BY DEF TablesOK

LEMMA SyncGoes ==
  ASSUME Core, NEW t \in Tasks, NEW phase \in SyncPhases, NEW f \in Feeds, f = work[t].feed,
         Syncing(work[t]), Goes(t, phase), TablesOK', NoMoreFailed,
         \A g \in Feeds \ {f} : row'[g] = row[g] /\ log'[g] = log[g],
         \A w \in Works :
           /\ w.phase = phase /\ w.feed = f /\ w.seen = work[t].seen
           /\ w.imported = work[t].imported
           => Knows(w, row'[f]) /\ Owed(w) + log'[f].imported = Owed(work[t]) + log[f].imported
  PROVE  Core'
<1>1. phase \in Phases
  BY DEF Phases
<1>2. PICK w \in Works :
        /\ work' = [work EXCEPT ![t] = w]
        /\ w.phase = phase /\ w.feed = f /\ w.seen = work[t].seen
        /\ w.imported = work[t].imported
  BY <1>1, GoWorks DEF Goes, Core
<1>3. Knows(w, row'[f]) /\ Owed(w) + log'[f].imported = Owed(work[t]) + log[f].imported
  BY <1>2
<1>4. /\ Owed(w) \in Nat /\ Owed(work[t]) \in Nat
      /\ log[f].imported \in Nat /\ log'[f].imported \in Nat
  BY <1>2 DEF Owed, Works, Core, TasksOK, TablesOK
<1>5. Account(entries[f], log[f], Owed(work[t]), failures) =>
        Account(entries'[f], log'[f], Owed(w), failures')
  BY <1>3, <1>4, FS_CardinalityType DEF Account, Goes, NoMoreFailed
<1>6. \A g \in Feeds \ {f} : row'[g] = row[g] /\ entries'[g] = entries[g] /\ log'[g] = log[g]
  BY DEF Goes
<1>7. Syncing(w)
  BY <1>2 DEF Syncing
<1> QED BY <1>2, <1>3, <1>5, <1>6, <1>7, SyncTask DEF Goes

\* The steps that write nothing in the tables.
LEMMA SyncMoves ==
  ASSUME Core, NEW t \in Tasks, NEW phase \in SyncPhases, Goes(t, phase), UNCHANGED tables,
         NoMoreFailed,
         \/ At(t, "fetching") /\ phase = "failing"
         \/ At(t, "importing") /\ phase = "writing"
         \/ work[t].phase \in {"writing", "logging"} /\ phase = "failing"
         \/ At(t, "retrying") /\ phase = "burying"
  PROVE  Core'
<1>1. PICK f \in Feeds : f = work[t].feed
  BY DEF Core, TasksOK, Works
<1>2. Knows(work[t], row[f]) /\ Syncing(work[t])
  BY <1>1 DEF Core, Informed, Syncing, SyncPhases, At
<1>3. row' = row /\ log' = log /\ TablesOK'
  BY DEF Core, TablesOK, tables
<1>4. ASSUME NEW w \in Works, w.phase = phase, w.seen = work[t].seen,
             w.imported = work[t].imported
      PROVE  Knows(w, row[f]) /\ Owed(w) = Owed(work[t])
  BY <1>2, <1>4 DEF Knows, Owed, ReportingPhases, At
<1> QED BY <1>1, <1>2, <1>3, <1>4, SyncGoes

LEMMA ReadsFeed ==
  ASSUME Core, NEW t \in Tasks, ReadFeed(t), UNCHANGED syncLocks,
         work' = [work EXCEPT ![t].phase = "fetching",
                    ![t].seen = [success |-> row[work[t].feed].success,
                                 failure |-> row[work[t].feed].failure,
                                 errors |-> row[work[t].feed].errors]]
  PROVE  Core'
<1>1. PICK f \in Feeds : f = work[t].feed
  BY DEF Core, TasksOK, Works
<1>2. At(t, "reading") /\ UNCHANGED <<tables, requests, failures>>
  BY DEF ReadFeed
<1>3. Syncing(work[t]) /\ Owed(work[t]) = 0 /\ work[t].imported = 0
  BY <1>2 DEF At, Syncing, SyncPhases, Owed, ReportingPhases, Core, Informed, Knows
<1>4. PICK seen : seen = [success |-> row[f].success, failure |-> row[f].failure,
                          errors |-> row[f].errors]
  OBVIOUS
<1>5. seen \in Seen
  BY <1>4 DEF Seen, Core, TablesOK, Rows
<1>6. PICK w : w = [work[t] EXCEPT !.phase = "fetching", !.seen = seen]
  OBVIOUS
<1>7. work' = [work EXCEPT ![t] = w] /\ work \in [Tasks -> Works]
  BY <1>1, <1>4, <1>6 DEF Core, TasksOK, Works
<1>8. w \in Works /\ w.phase = "fetching" /\ w.feed = f /\ w.imported = 0 /\ w.seen = seen
  <2>1. work[t] \in Works /\ "fetching" \in Phases
    BY <1>7 DEF Phases, SyncPhases
  <2> QED BY <1>1, <1>3, <1>5, <1>6, <2>1 DEF Works
<1>9. Knows(w, row'[f]) /\ Syncing(w) /\ Owed(w) = 0
  BY <1>2, <1>4, <1>8 DEF Knows, Syncing, SyncPhases, Owed, ReportingPhases, tables
<1>10. TablesOK' /\ NoMoreFailed
  BY <1>2 DEF Core, TablesOK, TasksOK, tables, NoMoreFailed
<1> QED BY <1>1, <1>2, <1>3, <1>7, <1>8, <1>9, <1>10, SyncTask DEF tables

LEMMA FetchCore ==
  ASSUME Core, NEW t \in Tasks, Fetch(t)
  PROVE  Core'
<1>1. PICK f \in Feeds : f = work[t].feed
  BY DEF Core, TasksOK, Works
<1>2. At(t, "fetching") /\ UNCHANGED <<tables, syncLocks, requests, failures>>
  BY DEF Fetch, memory
<1>3. Syncing(work[t]) /\ work[t].imported = 0 /\ Knows(work[t], row[f])
  BY <1>1, <1>2 DEF At, Syncing, SyncPhases, Core, Informed, Knows
<1>4. TablesOK' /\ NoMoreFailed
  BY <1>2 DEF Core, TablesOK, TasksOK, tables, NoMoreFailed
<1>5. CASE Go(t, "failing")
  BY <1>2, <1>4, <1>5, SyncMoves DEF Goes, SyncPhases, tables
<1>6. ASSUME NEW document \in Documents,
             work' = [work EXCEPT ![t].phase = "importing", ![t].todo = document]
      PROVE  Core'
  <2>1. PICK w : w = [work[t] EXCEPT !.phase = "importing", !.todo = document]
    OBVIOUS
  <2>2. work' = [work EXCEPT ![t] = w] /\ work \in [Tasks -> Works] /\ document \in Seq(Items)
    BY <1>6, <2>1, FeedsAssumption DEF Core, TasksOK
  <2>3. w \in Works /\ w.phase = "importing" /\ w.feed = f /\ w.imported = 0
        /\ w.seen = work[t].seen
    BY <1>1, <1>3, <2>1, <2>2 DEF Works, Phases, SyncPhases
  <2>4. Knows(w, row'[f]) /\ Syncing(w) /\ Owed(w) = 0 /\ Owed(work[t]) = 0
    BY <1>2, <1>3, <2>3 DEF Knows, Syncing, SyncPhases, Owed, ReportingPhases, tables, At
  <2> QED BY <1>1, <1>2, <1>3, <1>4, <2>2, <2>3, <2>4, SyncTask DEF tables
<1> QED BY <1>5, <1>6 DEF Fetch

\* Only an entry that the table lacks is counted, and it is put there in the same step.
LEMMA ImportCore ==
  ASSUME Core, NEW t \in Tasks, ImportEntry(t)
  PROVE  Core'
<1>1. PICK f \in Feeds : f = work[t].feed
  BY DEF Core, TasksOK, Works
<1>2. At(t, "importing") /\ UNCHANGED <<row, log, syncLocks, requests, failures>>
  BY DEF ImportEntry, memory
<1>3. work[t] \in Works /\ work \in [Tasks -> Works] /\ work[t].todo # <<>>
  BY DEF Core, TasksOK, ImportEntry
<1>4. PICK e : e = Head(work[t].todo)
  OBVIOUS
<1>5. e \in Items /\ Tail(work[t].todo) \in Seq(Items)
  BY <1>3, <1>4 DEF Works
<1>6. PICK n : n = IF ~Known(f, e) THEN 1 ELSE 0
  OBVIOUS
<1>7. PICK w : w = [work[t] EXCEPT !.todo = Tail(work[t].todo), !.imported = work[t].imported + n]
  OBVIOUS
<1>8. /\ w \in Works /\ w.phase = "importing" /\ w.feed = f /\ w.seen = work[t].seen
      /\ w.imported = work[t].imported + n
  <2>1. work[t].imported + n \in Nat /\ work[t].phase = "importing"
    BY <1>2, <1>3, <1>6 DEF Works, At
  <2> QED BY <1>1, <1>3, <1>5, <1>7, <2>1 DEF Works
<1>9. work' = [work EXCEPT ![t] = w]
  <2>1. work' = [work EXCEPT ![t].todo = Tail(@),
                             ![t].imported = IF ~Known(f, e) THEN @ + 1 ELSE @]
    BY <1>1, <1>4 DEF ImportEntry
  <2>2. work[t].imported \in Nat /\ n \in {0, 1}
    BY <1>3, <1>6 DEF Works
  <2>3. (IF ~Known(f, e) THEN work[t].imported + 1 ELSE work[t].imported) = work[t].imported + n
    BY <1>6, <2>2
  <2>4. work' = [work EXCEPT ![t].todo = Tail(@), ![t].imported = work[t].imported + n]
    BY <1>3, <2>1, <2>3 DEF Works
  <2> QED BY <1>3, <1>7, <2>4 DEF Works
<1>10. entries' = IF ~Known(f, e) THEN [entries EXCEPT ![f] = @ \cup {e}] ELSE entries
  BY <1>1, <1>4 DEF ImportEntry
<1>11. entries \in [Feeds -> SUBSET Items]
  BY DEF Core, TablesOK
<1>12. TablesOK' /\ NoMoreFailed
  BY <1>2, <1>5, <1>10, <1>11 DEF Core, TablesOK, TasksOK, NoMoreFailed
<1>13. \A g \in Feeds \ {f} : row'[g] = row[g] /\ entries'[g] = entries[g] /\ log'[g] = log[g]
  BY <1>2, <1>10, <1>11
<1>14. Knows(w, row'[f]) /\ Syncing(w) /\ Syncing(work[t])
  <2>1. Knows(work[t], row[f])
    BY <1>1 DEF Core, Informed
  <2> QED BY <1>2, <1>8, <2>1 DEF Knows, Syncing, SyncPhases, At
<1>15. Owed(w) = Owed(work[t]) + n /\ Owed(work[t]) \in Nat /\ log[f].imported \in Nat
  BY <1>2, <1>3, <1>8 DEF Owed, ReportingPhases, At, Works, Core, TablesOK
<1>16. IsFiniteSet(entries[f]) =>
         IsFiniteSet(entries'[f]) /\ Cardinality(entries'[f]) = Cardinality(entries[f]) + n
  <2>1. CASE Known(f, e)
    <3>1. entries'[f] = entries[f] /\ n = 0
      BY <1>6, <1>10, <2>1
    <3> QED BY <3>1, FS_CardinalityType
  <2>2. CASE ~Known(f, e)
    <3>1. e \notin entries[f]
      BY <2>2 DEF Known
    <3>2. entries'[f] = entries[f] \cup {e} /\ n = 1
      BY <1>6, <1>10, <1>11, <2>2
    <3> QED BY <3>1, <3>2, FS_AddElement
  <2> QED BY <2>1, <2>2
<1>17. Account(entries[f], log[f], Owed(work[t]), failures) =>
         Account(entries'[f], log'[f], Owed(w), failures')
  BY <1>2, <1>6, <1>15, <1>16, FS_CardinalityType DEF Account
<1> QED BY <1>1, <1>2, <1>8, <1>9, <1>12, <1>13, <1>14, <1>17, SyncTask

LEMMA SkipCore ==
  ASSUME Core, NEW t \in Tasks, SkipEntry(t)
  PROVE  Core'
<1>1. PICK f \in Feeds : f = work[t].feed
  BY DEF Core, TasksOK, Works
<1>2. At(t, "importing") /\ UNCHANGED <<tables, syncLocks, requests>> /\ failures' = failures + 1
  BY DEF SkipEntry, memory
<1>3. work[t] \in Works /\ work \in [Tasks -> Works] /\ work[t].todo # <<>> /\ failures \in Nat
  BY DEF Core, TasksOK, SkipEntry
<1>4. PICK w : w = [work[t] EXCEPT !.todo = Tail(work[t].todo)]
  OBVIOUS
<1>5. /\ w \in Works /\ w.phase = "importing" /\ w.feed = f /\ w.seen = work[t].seen
      /\ w.imported = work[t].imported
  <2>1. work[t].phase = "importing" /\ Tail(work[t].todo) \in Seq(Items)
    BY <1>2, <1>3 DEF Works, At
  <2> QED BY <1>1, <1>3, <1>4, <2>1 DEF Works
<1>6. work' = [work EXCEPT ![t] = w]
  BY <1>3, <1>4 DEF SkipEntry
<1>7. Knows(w, row'[f]) /\ Syncing(w) /\ Syncing(work[t]) /\ Owed(w) = Owed(work[t])
  <2>1. Knows(work[t], row[f])
    BY <1>1 DEF Core, Informed
  <2> QED BY <1>2, <1>5, <2>1 DEF Knows, Syncing, SyncPhases, Owed, ReportingPhases, At, tables
<1>8. TablesOK' /\ NoMoreFailed /\ failures' # 0
  BY <1>2, <1>3 DEF Core, TablesOK, tables, NoMoreFailed
<1>9. Account(entries[f], log[f], Owed(work[t]), failures) =>
        Account(entries'[f], log'[f], Owed(w), failures')
  BY <1>2, <1>7, <1>8 DEF Account, tables
<1> QED BY <1>1, <1>2, <1>5, <1>6, <1>7, <1>8, <1>9, SyncTask DEF tables

\* The two writes of the row: each is the only one to change what the task knows of it.
LEMMA WriteCore ==
  ASSUME Core, NEW t \in Tasks, WriteSuccess(t) \/ WriteFailure(t)
  PROVE  Core'
<1>1. PICK f \in Feeds : f = work[t].feed
  BY DEF Core, TasksOK, Works
<1>2. /\ UNCHANGED <<entries, log, syncLocks, requests, failures>>
      /\ NoMoreFailed /\ TablesOK /\ Knows(work[t], row[f])
  BY <1>1 DEF WriteSuccess, WriteFailure, memory, Core, TasksOK, NoMoreFailed, Informed
<1>3. row[f] \in Rows /\ row \in [Feeds -> Rows] /\ work[t].seen \in Seen
  BY DEF Core, TablesOK, TasksOK, Works
<1>4. CASE WriteSuccess(t)
  <2>1. At(t, "writing") /\ Goes(t, "logging") /\ Syncing(work[t])
    BY <1>2, <1>4 DEF WriteSuccess, Goes, SyncPhases, Syncing, At
  <2>2. PICK r : r = [row[f] EXCEPT !.status = "active", !.errors = 0,
                                    !.success = work[t].seen.success + 1]
    OBVIOUS
  <2>3. r \in Rows /\ r.failure = row[f].failure
    <3>1. work[t].seen.success + 1 \in Nat /\ "active" \in Statuses
      BY <1>3 DEF Seen, Statuses
    <3> QED BY <1>3, <2>2, <3>1 DEF Rows
  <2>4. row' = [row EXCEPT ![f] = r]
    BY <1>1, <1>3, <1>4, <2>2 DEF WriteSuccess
  <2>5. /\ TablesOK' /\ row'[f] = r
        /\ \A g \in Feeds \ {f} : row'[g] = row[g] /\ entries'[g] = entries[g] /\ log'[g] = log[g]
    BY <1>2, <2>3, <2>4, RowWritten
  <2>6. ASSUME NEW w \in Works, w.phase = "logging", w.seen = work[t].seen,
               w.imported = work[t].imported
        PROVE  Knows(w, r) /\ Owed(w) = Owed(work[t])
    BY <1>2, <2>1, <2>3, <2>6 DEF Knows, Owed, ReportingPhases, At
  <2> QED BY <1>1, <1>2, <2>1, <2>5, <2>6, SyncGoes DEF SyncPhases
<1>5. CASE WriteFailure(t)
  <2>1. At(t, "failing") /\ Goes(t, "reporting") /\ Syncing(work[t])
    BY <1>2, <1>5 DEF WriteFailure, Goes, SyncPhases, Syncing, At
  <2>2. PICK r : r = [row[f] EXCEPT
                        !.status = IF work[t].seen.failure + 1 >= FailedAt THEN "failed"
                                   ELSE "active",
                        !.failure = work[t].seen.failure + 1,
                        !.errors = work[t].seen.errors + 1]
    OBVIOUS
  <2>3. r \in Rows /\ r.errors = work[t].seen.errors + 1
    <3>1. /\ work[t].seen.failure + 1 \in Nat /\ work[t].seen.errors + 1 \in Nat
          /\ {"active", "failed"} \subseteq Statuses
      BY <1>3 DEF Seen, Statuses
    <3> QED BY <1>3, <2>2, <3>1 DEF Rows
  <2>4. row' = [row EXCEPT ![f] = r]
    BY <1>1, <1>3, <1>5, <2>2 DEF WriteFailure
  <2>5. /\ TablesOK' /\ row'[f] = r
        /\ \A g \in Feeds \ {f} : row'[g] = row[g] /\ entries'[g] = entries[g] /\ log'[g] = log[g]
    BY <1>2, <2>3, <2>4, RowWritten
  <2>6. ASSUME NEW w \in Works, w.phase = "reporting", w.seen = work[t].seen,
               w.imported = work[t].imported
        PROVE  Knows(w, r) /\ Owed(w) = Owed(work[t])
    BY <1>2, <2>1, <2>3, <2>6 DEF Knows, Owed, ReportingPhases, At
  <2> QED BY <1>1, <1>2, <2>1, <2>5, <2>6, SyncGoes DEF SyncPhases
<1> QED BY <1>4, <1>5

LEMMA LogCore ==
  ASSUME Core, NEW t \in Tasks, LogSuccess(t) \/ LogFailure(t)
  PROVE  Core'
<1>1. PICK f \in Feeds : f = work[t].feed
  BY DEF Core, TasksOK, Works
<1>2. UNCHANGED <<row, entries, syncLocks, requests, failures>> /\ Report(t) /\ NoMoreFailed
  BY DEF LogSuccess, LogFailure, memory, Core, TasksOK, NoMoreFailed
<1>3. /\ Knows(work[t], row[f]) /\ work[t].imported \in Nat
      /\ work[t].phase \in {"logging", "reporting"}
  BY <1>1 DEF Core, Informed, TasksOK, Works, LogSuccess, LogFailure, At
<1>4. /\ log \in [Feeds -> [imported : Nat, written : Nat]]
      /\ log[f].imported \in Nat /\ log[f].written \in Nat
  BY DEF Core, TablesOK
<1>5. log' = [log EXCEPT ![f] = [imported |-> log[f].imported + work[t].imported,
                                 written |-> log[f].written + 1]]
  BY <1>1, <1>2, <1>4 DEF Report
<1>6. /\ TablesOK' /\ log'[f].imported = log[f].imported + work[t].imported
      /\ \A g \in Feeds \ {f} : row'[g] = row[g] /\ log'[g] = log[g]
  BY <1>2, <1>3, <1>4, <1>5 DEF Core, TablesOK
<1>7. Syncing(work[t]) /\ Owed(work[t]) = work[t].imported
  BY <1>3 DEF Syncing, SyncPhases, Owed, ReportingPhases
<1>8. PICK phase \in {"closing", "retrying"} :
        /\ Goes(t, phase)
        /\ phase = "retrying" => At(t, "reporting")
  BY <1>2 DEF LogSuccess, LogFailure, Goes, SyncPhases
<1>9. ASSUME NEW w \in Works, w.phase = phase, w.seen = work[t].seen
      PROVE  Knows(w, row'[f]) /\ Owed(w) = 0
  BY <1>2, <1>3, <1>8, <1>9 DEF Knows, Owed, ReportingPhases, At
<1>10. phase \in SyncPhases
  BY DEF SyncPhases
<1>11. ASSUME NEW w \in Works, w.phase = phase, w.seen = work[t].seen
       PROVE  Knows(w, row'[f]) /\ Owed(w) + log'[f].imported = Owed(work[t]) + log[f].imported
  BY <1>3, <1>4, <1>6, <1>7, <1>9, <1>11
<1> QED BY <1>1, <1>2, <1>6, <1>7, <1>8, <1>10, <1>11, SyncGoes

-------------------------------------------------------------------------------
(* The ends of a sync, and what fails.                                     *)

LEMMA EndsCore ==
  ASSUME Core, NEW t \in Tasks, Settle(t), NoMoreFailed, SameCounters,
         UNCHANGED <<entries, log, requests>>,
         work[t].phase \in {"reading", "closing", "retrying", "burying"}
  PROVE  Core'
<1>1. Syncing(work[t]) /\ Owed(work[t]) = 0
  BY DEF Syncing, SyncPhases, Owed, ReportingPhases
<1> QED BY <1>1, SettleTask

LEMMA SyncStepCore ==
  ASSUME Core, NEW t \in Tasks,
         ReadFeed(t) \/ EndImport(t) \/ CloseSync(t) \/ Reschedule(t) \/ Bury(t)
  PROVE  Core'
<1>1. UNCHANGED <<entries, log, requests, failures>> /\ NoMoreFailed
  BY DEF ReadFeed, EndImport, CloseSync, Reschedule, Bury, tables, memory, Core, TasksOK,
         NoMoreFailed
<1>2. CASE ReadFeed(t)
  <2>1. At(t, "reading") /\ SameCounters
    BY <1>2, SameTables DEF ReadFeed, tables
  <2>2. CASE Settle(t)
    BY <1>1, <2>1, <2>2, EndsCore DEF At
  <2> QED BY <1>2, <2>2, ReadsFeed DEF ReadFeed
<1>3. CASE EndImport(t)
  BY <1>1, <1>3, SyncMoves DEF EndImport, Goes, SyncPhases, memory, tables
<1>4. CASE CloseSync(t)
  <2>1. At(t, "closing") /\ SameCounters /\ Settle(t)
    BY <1>4, SameTables DEF CloseSync, tables
  <2> QED BY <1>1, <2>1, EndsCore DEF At
<1>5. CASE Reschedule(t)
  <2>1. At(t, "retrying") /\ SameCounters /\ UNCHANGED tables
    BY <1>5, SameTables DEF Reschedule, tables
  <2>2. CASE Settle(t)
    BY <1>1, <2>1, <2>2, EndsCore DEF At
  <2>3. CASE Go(t, "burying") /\ UNCHANGED syncLocks
    BY <1>1, <2>1, <2>3, SyncMoves DEF Goes, SyncPhases
  <2> QED BY <1>5, <2>2, <2>3 DEF Reschedule
<1>6. CASE Bury(t)
  <2>1. PICK f \in Feeds : f = work[t].feed
    BY DEF Core, TasksOK, Works
  <2>2. row[f].archived \in BOOLEAN /\ row \in [Feeds -> Rows]
    BY DEF Core, TablesOK, Rows
  <2>3. row' = [row EXCEPT ![f].status = "failed", ![f].archived = row[f].archived]
    BY <1>6, <2>1, <2>2 DEF Bury, Rows
  <2>4. SameCounters
    BY <2>2, <2>3, StatusKept DEF Core, Statuses
  <2>5. At(t, "burying") /\ Settle(t)
    BY <1>6 DEF Bury
  <2> QED BY <1>1, <2>4, <2>5, EndsCore DEF At
<1> QED BY <1>2, <1>3, <1>4, <1>5, <1>6

LEMMA FailCore ==
  ASSUME Core, NEW t \in Tasks, Fail(t)
  PROVE  Core'
<1>1. failures \in Nat /\ failures' = failures + 1 /\ UNCHANGED <<tables, requests>>
  BY DEF Core, TasksOK, Fail
<1>2. NoMoreFailed /\ SameCounters /\ UNCHANGED <<row, entries, log>> /\ failures' # 0
  BY <1>1, SameTables DEF NoMoreFailed, tables
<1>3. CASE work[t].phase \in {"writing", "logging"} /\ Go(t, "failing") /\ UNCHANGED syncLocks
  BY <1>1, <1>2, <1>3, SyncMoves DEF Goes, SyncPhases
<1>4. CASE work[t].phase \in {"reading", "failing", "reporting", "burying"} /\ Settle(t)
  <2>1. Syncing(work[t])
    BY <1>4 DEF Syncing, SyncPhases
  <2> QED BY <1>1, <1>2, <1>4, <2>1, SettleTask
<1>5. CASE /\ work[t].phase \in {"adding", "finding", "changing"}
           /\ work' = [work EXCEPT ![t] = Idle(t)]
           /\ UNCHANGED syncLocks
  <2>1. PICK w : w = Idle(t)
    OBVIOUS
  <2>2. w \in Works /\ ~Syncing(w) /\ w.phase # "joined" /\ ~Syncing(work[t])
    BY <1>5, <2>1, IdleWorks DEF Core, Syncing, SyncPhases
  <2>3. requests' \in Nat
    BY <1>1 DEF Core, TasksOK
  <2> QED BY <1>2, <1>5, <2>1, <2>2, <2>3, QuietTask
<1> QED BY <1>3, <1>4, <1>5 DEF Fail

\* A restart forgets every lock together with every sync.
LEMMA CrashCore ==
  ASSUME Core, Crash
  PROVE  Core'
<1>1. /\ failures \in Nat /\ failures' = failures + 1 /\ UNCHANGED <<row, entries, log, requests>>
      /\ syncLocks' = [f \in Feeds |-> NoTask] /\ work' = [t \in Tasks |-> Idle(t)]
  BY DEF Core, TasksOK, Crash, tables
<1>2. ASSUME NEW t \in Tasks
      PROVE  work'[t] \in Works /\ work'[t].phase = "idle"
  BY <1>1, IdleWorks DEF Core
<1>3. TablesOK' /\ TasksOK'
  BY <1>1, <1>2 DEF Core, TablesOK, TasksOK
<1>4. NoTask \notin Tasks
  BY FeedsAssumption DEF Tasks
<1>5. Locked'
  BY <1>1, <1>2, <1>4 DEF Locked, Syncing, SyncPhases, At
<1>6. Informed'
  BY <1>2 DEF Informed, Knows
<1>7. ASSUME NEW f \in Feeds PROVE Account(entries[f], log[f], Unreported(f), failures)'
  <2>1. Account(entries[f], log[f], Unreported(f), failures)
    BY DEF Core, Counted
  <2>2. Unreported(f)' = 0
    BY <1>1 DEF Unreported
  <2>3. Unreported(f) \in Nat /\ log[f].imported \in Nat
    BY DEF Unreported, Core, TablesOK, TasksOK, Works
  <2>4. Cardinality(entries[f]) \in Nat
    BY <2>1, FS_CardinalityType DEF Account
  <2> QED BY <1>1, <2>1, <2>2, <2>3, <2>4 DEF Account
<1>8. Counted'
  BY <1>7 DEF Counted
<1> QED BY <1>3, <1>5, <1>6, <1>8 DEF Core

-------------------------------------------------------------------------------
(* The inductive invariant.                                                *)

LEMMA PurposeKept ==
  ASSUME IInv, [Next]_vars
  PROVE  Purposeful'
<1>1. work \in [Tasks -> Works] /\ Purposeful /\ Callers \subseteq Tasks /\ Cycles \subseteq Tasks
  BY DEF IInv, Core, TasksOK, Tasks
<1> DEFINE Asking(w) == w.phase \in {"finding", "changing"}
<1>2. ASSUME NEW t \in Tasks, NEW w, work' = [work EXCEPT ![t] = w],
             Asking(w) => w.change \in Changes
      PROVE  Purposeful'
  BY <1>1, <1>2 DEF Purposeful
<1>3. ASSUME NEW t \in Tasks, NEW phase, Go(t, phase), phase \notin {"finding", "changing"}
      PROVE  Purposeful'
  <2>1. PICK w : w = [work[t] EXCEPT !.phase = phase]
    OBVIOUS
  <2>2. work' = [work EXCEPT ![t] = w] /\ w.phase = phase
    BY <1>1, <1>3, <2>1 DEF Go, Works
  <2> QED BY <1>2, <1>3, <2>2
<1>4. ASSUME NEW t \in Tasks, work' = [work EXCEPT ![t] = Idle(t)]
      PROVE  Purposeful'
  BY <1>2, <1>4 DEF Idle, Begin
<1>5. ASSUME NEW t \in Tasks, Settle(t) PROVE Purposeful'
  BY <1>1, <1>5 DEF Settle, Purposeful, Idle, Begin
<1>6. ASSUME NEW t \in Tasks, NEW f \in Feeds,
             work' = [work EXCEPT ![t] = Begin(Enter(f), f, "none")]
      PROVE  Purposeful'
  <2>1. PICK w : w = Begin(Enter(f), f, "none")
    OBVIOUS
  <2>2. w.phase \in {"reading", "joined"}
    BY <2>1 DEF Begin, Enter
  <2> QED BY <1>2, <1>6, <2>1, <2>2
<1>7. ASSUME NEW t \in Callers, Request(t) PROVE Purposeful'
  <2>1. PICK f \in Feeds :
          AddFeed(t, f) \/ SyncFeed(t, f) \/ \E change \in Changes : AskChange(t, f, change)
    BY <1>7 DEF Request
  <2>2. CASE AddFeed(t, f)
    BY <1>1, <1>2, <2>2 DEF AddFeed, Ask, Begin
  <2>3. CASE SyncFeed(t, f)
    BY <1>1, <1>6, <2>3 DEF SyncFeed, Ask
  <2>4. ASSUME NEW change \in Changes, AskChange(t, f, change) PROVE Purposeful'
    BY <1>1, <1>2, <2>4 DEF AskChange, Ask, Begin
  <2> QED BY <2>1, <2>2, <2>3, <2>4
<1>8. ASSUME NEW t \in Tasks, Continue(t) \/ SkipEntry(t) \/ Fail(t) PROVE Purposeful'
  <2>1. CASE InsertFeed(t) \/ EndImport(t) \/ WriteSuccess(t) \/ LogSuccess(t)
             \/ WriteFailure(t) \/ LogFailure(t)
    BY <1>3, <2>1 DEF InsertFeed, EndImport, WriteSuccess, LogSuccess, WriteFailure, LogFailure
  <2>2. CASE ScheduleManualSync(t) \/ Unqueue(t)
    BY <1>4, <2>2 DEF ScheduleManualSync, Unqueue
  <2>3. CASE FindFeed(t)
    <3>1. CASE Exists(work[t].feed)
      <4>1. PICK w : w = [work[t] EXCEPT !.phase = "changing"]
        OBVIOUS
      <4>2. work' = [work EXCEPT ![t] = w] /\ w.change = work[t].change
        BY <1>1, <2>3, <3>1, <4>1 DEF FindFeed, Works
      <4>3. work[t].change \in Changes
        BY <1>1, <2>3 DEF FindFeed, At, Purposeful
      <4> QED BY <1>2, <4>2, <4>3
    <3>2. CASE ~Exists(work[t].feed)
      <4>1. work' = [work EXCEPT ![t] = Idle(t)]
        BY <1>1, <2>3, <3>2 DEF FindFeed
      <4> QED BY <1>4, <4>1
    <3> QED BY <3>1, <3>2
  <2>4. CASE ChangeFeed(t)
    <3>1. PICK phase \in {"queueing", "unqueueing"} : Go(t, phase)
      BY <2>4 DEF ChangeFeed
    <3> QED BY <1>3, <3>1
  <2>5. CASE CloseSync(t) \/ Bury(t)
    BY <1>5, <2>5 DEF CloseSync, Bury
  <2>6. CASE Reschedule(t)
    BY <1>3, <1>5, <2>6 DEF Reschedule
  <2>7. CASE ReadFeed(t) \/ Fetch(t) \/ ImportEntry(t) \/ SkipEntry(t)
    <3>1. ASSUME NEW w, work' = [work EXCEPT ![t] = w], w.phase \in SyncPhases
          PROVE  Purposeful'
      BY <1>2, <3>1 DEF SyncPhases
    <3>2. CASE ReadFeed(t)
      <4>1. ASSUME NEW seen, work' = [work EXCEPT ![t].phase = "fetching", ![t].seen = seen]
            PROVE  Purposeful'
        <5>1. PICK w : w = [work[t] EXCEPT !.phase = "fetching", !.seen = seen]
          OBVIOUS
        <5>2. work' = [work EXCEPT ![t] = w] /\ w.phase = "fetching"
          BY <1>1, <4>1, <5>1 DEF Works
        <5> QED BY <3>1, <5>2 DEF SyncPhases
      <4> QED BY <1>5, <3>2, <4>1 DEF ReadFeed
    <3>3. CASE Fetch(t)
      <4>1. ASSUME NEW document \in Documents,
                   work' = [work EXCEPT ![t].phase = "importing", ![t].todo = document]
            PROVE  Purposeful'
        <5>1. PICK w : w = [work[t] EXCEPT !.phase = "importing", !.todo = document]
          OBVIOUS
        <5>2. work' = [work EXCEPT ![t] = w] /\ w.phase = "importing"
          BY <1>1, <4>1, <5>1 DEF Works
        <5> QED BY <3>1, <5>2 DEF SyncPhases
      <4> QED BY <1>3, <3>3, <4>1 DEF Fetch
    <3>4. CASE ImportEntry(t) \/ SkipEntry(t)
      <4>1. \A s \in Tasks : work'[s].phase = work[s].phase /\ work'[s].change = work[s].change
        <5>1. CASE SkipEntry(t)
          BY <1>1, <5>1 DEF SkipEntry, Works
        <5>2. CASE ImportEntry(t)
          <6>1. PICK n : work' = [work EXCEPT ![t].todo = Tail(@), ![t].imported = n]
            BY <5>2 DEF ImportEntry
          <6> QED BY <1>1, <6>1 DEF Works
        <5> QED BY <3>4, <5>1, <5>2
      <4> QED BY <1>1, <4>1 DEF Purposeful
    <3> QED BY <2>7, <3>2, <3>3, <3>4
  <2>8. CASE Fail(t)
    BY <1>3, <1>4, <1>5, <2>8 DEF Fail
  <2> QED BY <1>8, <2>1, <2>2, <2>3, <2>4, <2>5, <2>6, <2>7, <2>8 DEF Continue
<1>9. ASSUME NEW y \in Cycles, NEW f \in Feeds, NextInBatch(y, f) PROVE Purposeful'
  BY <1>1, <1>6, <1>9 DEF NextInBatch
<1>10. CASE Crash
  BY <1>1, <1>10 DEF Crash, Purposeful, Idle, Begin
<1>11. CASE UNCHANGED work
  BY <1>1, <1>11 DEF Purposeful
<1>12. ASSUME NEW y \in Cycles, Cycle(y) PROVE UNCHANGED work
  BY <1>12 DEF Cycle
<1>13. ASSUME NEW f \in Feeds, Ripen(f) PROVE UNCHANGED work
  BY <1>13 DEF Ripen
<1>14. CASE StartAutoSync
  BY <1>11, <1>14 DEF StartAutoSync
<1>15. CASE UNCHANGED vars
  BY <1>11, <1>15 DEF vars
<1> QED BY <1>7, <1>8, <1>9, <1>10, <1>11, <1>12, <1>13, <1>14, <1>15 DEF Next, Timer

LEMMA CoreKept ==
  ASSUME IInv, [Next]_vars
  PROVE  Core'
<1>1. Core /\ Purposeful /\ Cycles \subseteq Tasks
  BY DEF IInv, Tasks
<1>2. ASSUME UNCHANGED <<tables, syncLocks, work, requests, failures>> PROVE Core'
  <2>1. /\ row' = row /\ entries' = entries /\ log' = log /\ syncLocks' = syncLocks /\ work' = work
        /\ requests' = requests /\ failures' = failures
    BY <1>2 DEF tables
  <2>2. TablesOK' /\ TasksOK'
    BY <1>1, <2>1 DEF Core, TablesOK, TasksOK
  <2>3. Locked' /\ Informed'
    BY <1>1, <2>1 DEF Core, Locked, Informed, At
  <2>4. Counted'
    BY <1>1, <2>1 DEF Core, Counted, Account, Unreported
  <2> QED BY <2>2, <2>3, <2>4 DEF Core
<1>3. ASSUME NEW t \in Tasks, Continue(t) PROVE Core'
  <2>1. CASE QuietStep(t)
    BY <1>1, <2>1, QuietStepCore
  <2>2. CASE ReadFeed(t) \/ EndImport(t) \/ CloseSync(t) \/ Reschedule(t) \/ Bury(t)
    BY <1>1, <2>2, SyncStepCore
  <2>3. CASE Fetch(t) \/ ImportEntry(t)
    BY <1>1, <2>3, FetchCore, ImportCore
  <2>4. CASE WriteSuccess(t) \/ WriteFailure(t)
    BY <1>1, <2>4, WriteCore
  <2>5. CASE LogSuccess(t) \/ LogFailure(t)
    BY <1>1, <2>5, LogCore
  <2> QED BY <1>3, <2>1, <2>2, <2>3, <2>4, <2>5 DEF Continue, QuietStep
<1>4. ASSUME NEW t \in Tasks, SkipEntry(t) \/ Fail(t) PROVE Core'
  BY <1>1, <1>4, SkipCore, FailCore
<1>5. ASSUME NEW y \in Cycles, NEW f \in Feeds, NextInBatch(y, f) PROVE Core'
  <2>1. y \in Tasks /\ ~Syncing(work[y]) /\ requests' \in Nat
    BY <1>1, <1>5 DEF NextInBatch, At, Syncing, SyncPhases, Core, TasksOK
  <2> QED BY <1>1, <1>5, <2>1, EnterTask DEF NextInBatch
<1>6. ASSUME NEW y \in Cycles, Cycle(y) PROVE Core'
  BY <1>2, <1>6 DEF Cycle
<1>7. ASSUME NEW f \in Feeds, Ripen(f) PROVE Core'
  BY <1>2, <1>7 DEF Ripen
<1>8. CASE StartAutoSync
  BY <1>2, <1>8 DEF StartAutoSync
<1>9. CASE Crash
  BY <1>1, <1>9, CrashCore
<1>10. CASE UNCHANGED vars
  BY <1>2, <1>10 DEF vars, memory
<1> QED BY <1>1, <1>3, <1>4, <1>5, <1>6, <1>7, <1>8, <1>9, <1>10, RequestCore DEF Next, Timer

LEMMA InitIInv == Init => IInv
<1> SUFFICES ASSUME Init PROVE IInv
  OBVIOUS
<1>1. MemoryOK
  BY CountsFacts DEF Init, MemoryOK
<1>2. PICK f \in Feeds : work = [t \in Tasks |-> Begin("idle", f, "none")]
  BY DEF Init
<1>3. ASSUME NEW t \in Tasks
      PROVE  work[t] \in Works /\ work[t].phase = "idle"
  BY <1>2, BeginWorks DEF Phases
<1>4. Purposeful
  BY <1>3 DEF Purposeful
<1>5. TablesOK
  BY DEF Init, TablesOK, Rows, Statuses
<1>6. TasksOK
  BY <1>2, <1>3 DEF Init, TasksOK
<1>7. NoTask \notin Tasks
  BY FeedsAssumption DEF Tasks
<1>8. Locked
  BY <1>3, <1>7 DEF Init, Locked, Syncing, SyncPhases, At
<1>9. Informed
  BY <1>3 DEF Informed, Knows
<1>10. Counted
  BY FS_EmptySet DEF Init, Counted, Account, Unreported
<1> QED BY <1>1, <1>4, <1>5, <1>6, <1>8, <1>9, <1>10 DEF IInv, Core

LEMMA NextIInv == IInv /\ [Next]_vars => IInv'
BY MemoryKept, PurposeKept, CoreKept DEF IInv

LEMMA AlwaysIInv == Spec => []IInv
BY InitIInv, NextIInv, PTL DEF Spec

-------------------------------------------------------------------------------
(* The theorems.                                                           *)

\* The types of the variables and the lock of rss.service.ts: in every reachable state a feed
\* is in syncLocks exactly while a task syncs it.
THEOREM FeedsTypeCorrect == Spec => []TypeOK
<1>1. IInv => TypeOK
  BY IInvShows
<1> QED BY <1>1, AlwaysIInv, PTL

\* The logs of executeSync report every imported entry at most once, and all of them when
\* nothing fails.
THEOREM FeedsReportedOnce == Spec => []ReportedOnce
<1>1. IInv => ReportedOnce
  BY IInvShows
<1> QED BY <1>1, AlwaysIInv, PTL

\* No two tasks sync one feed.
SyncsExclude ==
  \A s, t \in Tasks : Syncing(work[s]) /\ Syncing(work[t]) /\ work[s].feed = work[t].feed => s = t

\* Whoever has joined a sync has joined one that is running.
Answerable ==
  \A t \in Tasks :
    At(t, "joined") => \E owner \in Tasks : Syncing(work[owner]) /\ work[owner].feed = work[t].feed

\* syncFeed excludes a second sync of a feed, and whoever waits for a promise waits for one
\* that a running sync will settle: a request is never left with a promise nobody owns.
THEOREM FeedsOneSync == Spec => [](SyncsExclude /\ Answerable)
<1>1. ASSUME IInv PROVE SyncsExclude
  <2>1. ASSUME NEW s \in Tasks, NEW t \in Tasks, Syncing(work[s]), Syncing(work[t]),
               work[s].feed = work[t].feed
        PROVE  s = t
    <3>1. PICK f \in Feeds : f = work[s].feed
      BY <1>1 DEF IInv, Core, TasksOK, Works
    <3> QED BY <1>1, <2>1, <3>1 DEF IInv, Core, Locked
  <2> QED BY <2>1 DEF SyncsExclude
<1>2. ASSUME IInv PROVE Answerable
  <2>1. ASSUME NEW t \in Tasks, At(t, "joined")
        PROVE  \E owner \in Tasks : Syncing(work[owner]) /\ work[owner].feed = work[t].feed
    <3>1. PICK f \in Feeds : f = work[t].feed
      BY <1>2 DEF IInv, Core, TasksOK, Works
    <3>2. PICK owner \in Tasks : syncLocks[f] = owner
      BY <1>2, <2>1, <3>1 DEF IInv, Core, TasksOK, Locked
    <3> QED BY <1>2, <3>1, <3>2 DEF IInv, Core, Locked
  <2> QED BY <2>1 DEF Answerable
<1> QED BY <1>1, <1>2, AlwaysIInv, PTL

\* The write of a sync and any other write of the row: at most one outcome is added.
LEMMA StepCountsOne ==
  ASSUME IInv, [Next]_vars
  PROVE  \A f \in Feeds : OneMore(row[f], row'[f])
<1>1. row \in [Feeds -> Rows] /\ work \in [Tasks -> Works]
  BY DEF IInv, Core, TablesOK, TasksOK
<1>2. CASE UNCHANGED row
  BY <1>2 DEF OneMore
<1>3. ASSUME NEW f \in Feeds, NEW status, NEW archived,
             row' = [row EXCEPT ![f].status = status, ![f].archived = archived]
      PROVE  \A g \in Feeds : OneMore(row[g], row'[g])
  BY <1>1, <1>3 DEF OneMore, Rows
<1>4. ASSUME NEW f \in Feeds, NEW status, row' = [row EXCEPT ![f].status = status]
      PROVE  \A g \in Feeds : OneMore(row[g], row'[g])
  BY <1>1, <1>4 DEF OneMore, Rows
<1>5. ASSUME NEW t \in Tasks, Continue(t) PROVE \A g \in Feeds : OneMore(row[g], row'[g])
  <2>1. PICK f \in Feeds : f = work[t].feed
    BY <1>1 DEF Works
  <2>2. Knows(work[t], row[f])
    BY <2>1 DEF IInv, Core, Informed
  <2>3. CASE InsertFeed(t) \/ Bury(t)
    BY <1>4, <2>1, <2>3 DEF InsertFeed, Bury
  <2>4. CASE ChangeFeed(t)
    <3>1. PICK archived : row' = [row EXCEPT ![f].status = StatusOf(work[t].change),
                                             ![f].archived = @ \/ archived]
      BY <2>1, <2>4 DEF ChangeFeed
    <3>2. row' = [row EXCEPT ![f].status = StatusOf(work[t].change),
                             ![f].archived = row[f].archived \/ archived]
      BY <1>1, <3>1 DEF Rows
    <3> QED BY <1>3, <3>2
  <2>5. CASE WriteSuccess(t)
    <3>1. /\ row[f].success = work[t].seen.success
          /\ row' = [row EXCEPT ![f].status = "active", ![f].errors = 0,
                                ![f].success = work[t].seen.success + 1]
      BY <2>1, <2>2, <2>5 DEF WriteSuccess, Knows, At
    <3> QED BY <1>1, <3>1 DEF OneMore, Rows
  <2>6. CASE WriteFailure(t)
    <3>1. PICK status :
            row' = [row EXCEPT ![f].status = status, ![f].failure = work[t].seen.failure + 1,
                               ![f].errors = work[t].seen.errors + 1]
      BY <2>1, <2>6 DEF WriteFailure
    <3>2. row[f].failure = work[t].seen.failure
      BY <2>2, <2>6 DEF WriteFailure, Knows, At
    <3> QED BY <1>1, <3>1, <3>2 DEF OneMore, Rows
  <2>7. CASE \/ ScheduleManualSync(t) \/ FindFeed(t) \/ Unqueue(t) \/ ReadFeed(t) \/ Fetch(t)
             \/ ImportEntry(t) \/ EndImport(t) \/ LogSuccess(t) \/ CloseSync(t)
             \/ LogFailure(t) \/ Reschedule(t)
    BY <1>2, <2>7 DEF ScheduleManualSync, FindFeed, Unqueue, ReadFeed, Fetch, ImportEntry,
                      EndImport, LogSuccess, CloseSync, LogFailure, Reschedule, tables
  <2> QED BY <1>5, <2>3, <2>4, <2>5, <2>6, <2>7 DEF Continue
<1>6. ASSUME NEW t \in Tasks, SkipEntry(t) \/ Fail(t) PROVE UNCHANGED row
  BY <1>6 DEF SkipEntry, Fail, tables
<1>7. ASSUME NEW t \in Callers, Request(t) PROVE UNCHANGED row
  BY <1>7 DEF Request, AddFeed, SyncFeed, AskChange, tables
<1>8. ASSUME NEW y \in Cycles, Timer(y) PROVE UNCHANGED row
  BY <1>8 DEF Timer, Cycle, NextInBatch, tables
<1>9. ASSUME NEW f \in Feeds, Ripen(f) PROVE UNCHANGED row
  BY <1>9 DEF Ripen, tables
<1>10. CASE StartAutoSync \/ Crash
  BY <1>2, <1>10 DEF StartAutoSync, Crash, tables
<1>11. CASE UNCHANGED vars
  BY <1>2, <1>11 DEF vars, tables
<1> QED BY <1>2, <1>5, <1>6, <1>7, <1>8, <1>9, <1>10, <1>11 DEF Next

\* The counters that executeSync computes from the row of its start lose no outcome: whatever
\* runs meanwhile, a write of the row adds one to one of them or leaves both alone.
THEOREM FeedsNoLostCount == Spec => NoLostCount
<1>1. IInv /\ [Next]_vars => [\A f \in Feeds : OneMore(row[f], row'[f])]_vars
  BY StepCountsOne
<1> QED BY <1>1, AlwaysIInv, PTL DEF Spec, NoLostCount

LEMMA DropsNoMore ==
  ASSUME NEW q \in Counts, NEW f \in Feeds, NEW g \in Feeds
  PROVE  ~(Drop(q, f)[g] > q[g])
BY DEF Drop, Counts

LEMMA StepBuriesDeserved ==
  ASSUME IInv, [Next]_vars
  PROVE  \A f \in Feeds : dlq'[f] > dlq[f] => row[f].errors >= RetryLimit
<1>1. dlq \in Counts /\ work \in [Tasks -> Works]
  BY DEF IInv, MemoryOK, Core, TasksOK
<1>2. CASE UNCHANGED dlq
  BY <1>1, <1>2 DEF Counts
<1>3. ASSUME NEW t \in Tasks, Continue(t)
      PROVE  \A f \in Feeds : dlq'[f] > dlq[f] => row[f].errors >= RetryLimit
  <2>1. PICK f \in Feeds : f = work[t].feed
    BY <1>1 DEF Works
  <2>2. Knows(work[t], row[f])
    BY <2>1 DEF IInv, Core, Informed
  <2>3. CASE Reschedule(t)
    <3>1. CASE UNCHANGED dlq
      BY <1>2, <3>1
    <3>2. CASE ~(work[t].seen.errors + 1 < RetryLimit)
               /\ dlq' = [dlq EXCEPT ![f] = @ + 1]
      <4>1. row[f].errors = work[t].seen.errors + 1 /\ work[t].seen.errors \in Nat
        BY <1>1, <2>2, <2>3 DEF Reschedule, Knows, At, Works, Seen
      <4>2. row[f].errors >= RetryLimit
        BY <3>2, <4>1, FeedsAssumption
      <4> QED BY <1>1, <3>2, <4>2 DEF Counts
    <3> QED BY <2>1, <2>3, <3>1, <3>2 DEF Reschedule
  <2>4. CASE Unqueue(t)
    BY <1>1, <1>2, <2>1, <2>4, DropsNoMore DEF Unqueue
  <2>5. CASE \/ InsertFeed(t) \/ ScheduleManualSync(t) \/ FindFeed(t) \/ ChangeFeed(t)
             \/ ReadFeed(t) \/ Fetch(t) \/ ImportEntry(t) \/ EndImport(t)
             \/ WriteSuccess(t) \/ LogSuccess(t) \/ CloseSync(t) \/ WriteFailure(t)
             \/ LogFailure(t) \/ Bury(t)
    BY <1>2, <2>5 DEF InsertFeed, ScheduleManualSync, FindFeed, ChangeFeed, ReadFeed, Fetch,
                      ImportEntry, EndImport, WriteSuccess, LogSuccess, CloseSync,
                      WriteFailure, LogFailure, Bury, memory
  <2> QED BY <1>3, <2>3, <2>4, <2>5 DEF Continue
<1>4. ASSUME NEW t \in Tasks, SkipEntry(t) \/ Fail(t) PROVE UNCHANGED dlq
  BY <1>4 DEF SkipEntry, Fail, memory
<1>5. ASSUME NEW t \in Callers, Request(t) PROVE UNCHANGED dlq
  BY <1>5 DEF Request, AddFeed, SyncFeed, AskChange, memory
<1>6. ASSUME NEW y \in Cycles, Timer(y) PROVE UNCHANGED dlq
  BY <1>6 DEF Timer, Cycle, NextInBatch
<1>7. ASSUME NEW f \in Feeds, Ripen(f) PROVE UNCHANGED dlq
  BY <1>7 DEF Ripen
<1>8. CASE StartAutoSync
  BY <1>2, <1>8 DEF StartAutoSync
<1>9. CASE Crash
  BY <1>1, <1>9 DEF Crash, Nothing, Counts
<1>10. CASE UNCHANGED vars
  BY <1>2, <1>10 DEF vars, memory
<1> QED BY <1>2, <1>3, <1>4, <1>5, <1>6, <1>7, <1>8, <1>9, <1>10 DEF Next

\* addToDeadLetter is called only for a feed whose row shows the failures in a row that the
\* retry limit asks for, although other requests write that row while the sync runs.
THEOREM FeedsDeadLettersDeserved == Spec => DeadLettersDeserved
<1>1. IInv /\ [Next]_vars =>
        [\A f \in Feeds : dlq'[f] > dlq[f] => row[f].errors >= RetryLimit]_vars
  BY StepBuriesDeserved
<1> QED BY <1>1, AlwaysIInv, PTL DEF Spec, DeadLettersDeserved
===============================================================================
