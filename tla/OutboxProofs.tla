----------------------------- MODULE OutboxProofs -----------------------------
(***************************************************************************)
(* For any number of events and of overlapping passes, the outbox of       *)
(* Outbox implements the at-least-once relay of EventRelay.                *)
(***************************************************************************)
EXTENDS Outbox, FiniteSetTheorems, TLAPS

USE OutboxAssumption

\* The retry count a pass has read is never ahead of the row's: counts only grow.
SeenBehind == \A p \in Passes : \A e \in pass[p].batch : pass[p].seen[e] <= row[e].retries

\* Rows are inserted by publications only, and an event without a row has no retries.
RowsArePublished ==
  /\ Inserted \subseteq published
  /\ \A e \in Events \ Inserted : row[e].retries = 0

IInv == TypeOK /\ RowsArePublished /\ SeenBehind

LEMMA CountIsNat ==
  ASSUME TypeOK
  PROVE  Cardinality(Inserted) \in Nat
BY FS_Subset, FS_CardinalityType DEF Inserted

LEMMA NoPassType == NoPass \in PassRecords
BY DEF NoPass, PassRecords

\* A step that leaves every pass as it is or over, and takes no row away.
LEMMA KeepPasses ==
  ASSUME IInv, row' \in [Events -> Rows], published' \subseteq Events, failures' \in Nat,
         relayed' = relayed, RowsArePublished',
         \A p \in Passes : pass'[p] \in {pass[p], NoPass},
         pass' \in [Passes -> PassRecords],
         \A e \in Events : row[e].status # "none" => row'[e].status # "none",
         \A e \in Inserted : row[e].retries <= row'[e].retries
  PROVE  IInv'
<1>1. ASSUME NEW p \in Passes
      PROVE  /\ pass'[p].batch \subseteq Inserted'
             /\ At(p, "marking")' => Now(p)' \in relayed'
             /\ ~At(p, "emitting")' => Now(p)' \in pass'[p].batch
             /\ \A e \in pass'[p].batch : pass'[p].seen[e] <= row'[e].retries
  <2>1. CASE pass'[p] = pass[p]
    <3>1. pass[p].batch \subseteq Inserted /\ Inserted \subseteq Inserted'
      BY DEF IInv, TypeOK, Inserted
    <3>2. ASSUME NEW e \in pass[p].batch
          PROVE  pass[p].seen[e] <= row'[e].retries
      <4>1. e \in Inserted /\ e \in Events
        BY <3>1 DEF Inserted
      <4>2. pass[p].seen[e] <= row[e].retries /\ row[e].retries <= row'[e].retries
        BY <4>1 DEF IInv, SeenBehind
      <4>3. pass[p].seen[e] \in Nat /\ row[e].retries \in Nat /\ row'[e].retries \in Nat
        BY <4>1 DEF IInv, TypeOK, PassRecords, Rows
      <4> QED BY <4>2, <4>3
    <3> QED BY <2>1, <3>1, <3>2 DEF IInv, TypeOK, At, Now
  <2>2. CASE pass'[p] = NoPass
    BY <2>2 DEF NoPass, At, Now
  <2> QED BY <2>1, <2>2
<1>2. relayed' \subseteq Events
  BY DEF IInv, TypeOK
<1> QED BY <1>1, <1>2 DEF IInv, TypeOK, SeenBehind, RowsArePublished

\* A step of pass p that leaves the rows as they are, and hands at most an event to the subscribers.
LEMMA KeepRows ==
  ASSUME IInv, NEW p \in Passes, NEW r \in PassRecords,
         row' = row, published' = published, failures' \in Nat,
         relayed \subseteq relayed', relayed' \subseteq Events,
         pass' = [pass EXCEPT ![p] = r],
         r.batch \subseteq Inserted,
         r.phase = "marking" => r.now \in relayed',
         r.phase # "emitting" => r.now \in r.batch,
         \A e \in r.batch : r.seen[e] <= row[e].retries
  PROVE  IInv'
<1>1. pass' \in [Passes -> PassRecords] /\ pass'[p] = r
  BY DEF IInv, TypeOK
<1>2. ASSUME NEW q \in Passes
      PROVE  /\ pass'[q].batch \subseteq Inserted'
             /\ At(q, "marking")' => Now(q)' \in relayed'
             /\ ~At(q, "emitting")' => Now(q)' \in pass'[q].batch
             /\ \A e \in pass'[q].batch : pass'[q].seen[e] <= row'[e].retries
  <2>1. CASE q = p
    BY <1>1, <2>1 DEF At, Now, Inserted
  <2>2. CASE q # p
    <3>1. pass'[q] = pass[q]
      BY <2>2 DEF IInv, TypeOK
    <3> QED BY <3>1 DEF IInv, TypeOK, SeenBehind, At, Now, Inserted
  <2> QED BY <2>1, <2>2
<1> QED BY <1>1, <1>2 DEF IInv, TypeOK, SeenBehind, RowsArePublished, Inserted

\* A pass settles the row whose turn it is, and goes on.
LEMMA SettlesRow ==
  ASSUME IInv, NEW p \in Passes, ~At(p, "emitting"), NEW r \in Rows,
         r.status # "none", row[Now(p)].retries <= r.retries,
         row' = [row EXCEPT ![Now(p)] = r], NextRow(p),
         UNCHANGED <<published, relayed, failures>>
  PROVE  IInv'
<1>1. Now(p) \in pass[p].batch /\ pass[p].batch \subseteq Inserted /\ Now(p) \in Events
  BY DEF IInv, TypeOK, Inserted
<1>2. row' \in [Events -> Rows] /\ row'[Now(p)] = r
  BY <1>1 DEF IInv, TypeOK
<1>3. \A e \in Events : e # Now(p) => row'[e] = row[e]
  BY <1>1 DEF IInv, TypeOK
<1>4. \A e \in Events : row[e].status # "none" => row'[e].status # "none"
  BY <1>2, <1>3
<1>5. \A e \in Events : row[e].retries <= row'[e].retries
  <2>1. \A e \in Events : row[e].retries \in Nat
    BY DEF IInv, TypeOK, Rows
  <2> QED BY <1>2, <1>3, <2>1
<1>6. pass[p] \in PassRecords
  BY DEF IInv, TypeOK
<1>7. /\ pass' \in [Passes -> PassRecords]
      /\ pass'[p].phase = "emitting" /\ pass'[p].batch \subseteq pass[p].batch
      /\ pass'[p].seen = pass[p].seen
      /\ \A q \in Passes : q # p => pass'[q] = pass[q]
  BY <1>6 DEF IInv, TypeOK, NextRow, PassRecords
<1>8. Inserted \subseteq Inserted'
  BY <1>4 DEF Inserted
<1>9. ASSUME NEW q \in Passes
      PROVE  /\ pass'[q].batch \subseteq Inserted'
             /\ At(q, "marking")' => Now(q)' \in relayed'
             /\ ~At(q, "emitting")' => Now(q)' \in pass'[q].batch
             /\ \A e \in pass'[q].batch : pass'[q].seen[e] <= row'[e].retries
  <2>1. pass'[q].batch \subseteq pass[q].batch /\ pass'[q].seen = pass[q].seen
    BY <1>7
  <2>2. pass[q].batch \subseteq Inserted /\ pass[q].batch \subseteq Events
    BY DEF IInv, TypeOK, Inserted
  <2>3. ASSUME NEW e \in pass'[q].batch
        PROVE  pass'[q].seen[e] <= row'[e].retries
    <3>1. e \in Events /\ e \in pass[q].batch
      BY <2>1, <2>2
    <3>2. pass[q].seen[e] <= row[e].retries /\ row[e].retries <= row'[e].retries
      BY <3>1, <1>5 DEF IInv, SeenBehind
    <3>3. pass[q].seen[e] \in Nat /\ row[e].retries \in Nat /\ row'[e].retries \in Nat
      BY <3>1, <1>2 DEF IInv, TypeOK, PassRecords, Rows
    <3> QED BY <2>1, <3>2, <3>3
  <2>4. /\ At(q, "marking")' => Now(q)' \in relayed'
        /\ ~At(q, "emitting")' => Now(q)' \in pass'[q].batch
    <3>1. CASE q = p
      BY <1>7, <3>1 DEF At
    <3>2. CASE q # p
      BY <1>7, <3>2 DEF IInv, TypeOK, At, Now
    <3> QED BY <3>1, <3>2
  <2> QED BY <1>8, <2>1, <2>2, <2>3, <2>4
<1>10. Inserted' = Inserted
  BY <1>1, <1>2, <1>3 DEF Inserted
<1> QED BY <1>2, <1>7, <1>9, <1>10 DEF IInv, TypeOK, SeenBehind, RowsArePublished

-------------------------------------------------------------------------------
(* The invariant.                                                          *)

LEMMA InitIInv == Init => IInv
<1> SUFFICES ASSUME Init PROVE IInv
  OBVIOUS
<1>1. row \in [Events -> Rows]
  BY DEF Init, Rows, Statuses
<1>2. pass \in [Passes -> PassRecords]
  BY NoPassType DEF Init
<1> QED BY <1>1, <1>2 DEF Init, IInv, TypeOK, RowsArePublished, SeenBehind, Inserted, At, NoPass

LEMMA PublisherKeeps ==
  ASSUME IInv, NEW e \in Events, Insert(e) \/ InsertFails(e) \/ Clear(e)
  PROVE  IInv'
<1>1. Cardinality(Inserted) + 1 \in Nat
  BY CountIsNat DEF IInv
<1>2. pass' = pass /\ relayed' = relayed
  BY DEF Insert, InsertFails, Clear
<1>3. row' \in [Events -> Rows] /\ published' \subseteq Events /\ failures' \in Nat
  BY <1>1 DEF IInv, TypeOK, Rows, Statuses, Insert, InsertFails, Clear
<1>4. \A d \in Events : row[d].status # "none" => row'[d].status # "none"
  BY DEF IInv, TypeOK, Rows, Insert, InsertFails, Clear
<1>5. RowsArePublished'
  BY DEF Rows, IInv, RowsArePublished, TypeOK, Inserted, Insert, InsertFails, Clear
<1>6. ASSUME NEW d \in Inserted
      PROVE  row[d].retries <= row'[d].retries
  <2>1. d \in Events /\ d \in published /\ row[d].retries \in Nat
    BY DEF IInv, TypeOK, RowsArePublished, Inserted, Rows
  <2>2. row'[d].retries = row[d].retries
    BY <2>1 DEF IInv, TypeOK, Rows, Insert, InsertFails, Clear
  <2> QED BY <2>1, <2>2
<1> QED BY <1>2, <1>3, <1>4, <1>5, <1>6, KeepPasses DEF IInv, TypeOK

LEMMA ReadPendingKeeps ==
  ASSUME IInv, NEW p \in Passes, ReadPending(p)
  PROVE  IInv'
<1>1. PICK b \in SUBSET Events : /\ IsBatch(b)
        /\ pass' = [pass EXCEPT ![p] = [NoPass EXCEPT !.batch = b,
                                        !.seen = [e \in Events |-> row[e].retries]]]
  BY DEF ReadPending
<1> DEFINE r == [NoPass EXCEPT !.batch = b, !.seen = [e \in Events |-> row[e].retries]]
<1>2. r \in PassRecords /\ r.phase = "emitting" /\ r.batch = b
      /\ r.seen = [e \in Events |-> row[e].retries]
  BY DEF NoPass, PassRecords, IInv, TypeOK, Rows
<1>3. b \subseteq Inserted
  BY <1>1 DEF IsBatch, Pending, Inserted
<1>4. \A e \in b : r.seen[e] <= row[e].retries
  BY <1>2 DEF IInv, TypeOK, Rows
<1>5. pass' = [pass EXCEPT ![p] = r] /\ UNCHANGED <<row, published, relayed, failures>>
  BY <1>1 DEF ReadPending
<1> HIDE DEF r
<1> QED BY <1>2, <1>3, <1>4, <1>5, KeepRows DEF IInv, TypeOK

LEMMA EmitKeeps ==
  ASSUME IInv, NEW p \in Passes, NEW e \in Events, Emit(p, e)
  PROVE  IInv'
<1>1. PICK ph \in {"marking", "recounting"} :
        /\ pass' = [pass EXCEPT ![p].now = e, ![p].phase = ph]
        /\ ph = "marking" => relayed' = relayed \cup {e}
  BY DEF Emit
<1> DEFINE r == [pass[p] EXCEPT !.now = e, !.phase = ph]
<1>2. pass[p] \in PassRecords
  BY DEF IInv, TypeOK
<1>3. r \in PassRecords /\ r.phase = ph /\ r.now = e
      /\ r.batch = pass[p].batch /\ r.seen = pass[p].seen
  BY <1>2 DEF PassRecords
<1>4. pass' = [pass EXCEPT ![p] = r]
  BY <1>1, <1>2 DEF IInv, TypeOK, PassRecords
<1>5. /\ relayed \subseteq relayed' /\ relayed' \subseteq Events
      /\ row' = row /\ published' = published /\ failures' = failures
  BY DEF Emit, IInv, TypeOK
<1>6. /\ e \in pass[p].batch /\ pass[p].batch \subseteq Inserted
      /\ \A d \in pass[p].batch : pass[p].seen[d] <= row[d].retries
  BY DEF Emit, Oldest, IInv, TypeOK, SeenBehind
<1> HIDE DEF r
<1> QED BY <1>1, <1>3, <1>4, <1>5, <1>6, KeepRows DEF IInv, TypeOK

\* The update of a row that is gone throws, or a statement fails: the rows stay.
LEMMA ThrowKeeps ==
  ASSUME IInv, NEW p \in Passes, ~At(p, "emitting"), row' = row, published' = published,
         relayed' = relayed, failures' \in Nat,
         pass' = [pass EXCEPT ![p].phase = "recounting"] \/ Over(p)
  PROVE  IInv'
<1>1. pass[p] \in PassRecords
  BY DEF IInv, TypeOK
<1>2. CASE Over(p)
  <2>1. NoPass.batch = {} /\ NoPass.phase = "emitting"
    BY DEF NoPass
  <2> QED BY <1>2, <2>1, NoPassType, KeepRows DEF Over, IInv, TypeOK
<1>3. CASE pass' = [pass EXCEPT ![p].phase = "recounting"]
  <2> DEFINE r == [pass[p] EXCEPT !.phase = "recounting"]
  <2>1. r \in PassRecords /\ r.phase = "recounting" /\ r.now = pass[p].now
        /\ r.batch = pass[p].batch /\ r.seen = pass[p].seen
    BY <1>1 DEF PassRecords
  <2>2. pass' = [pass EXCEPT ![p] = r]
    BY <1>1, <1>3 DEF IInv, TypeOK, PassRecords
  <2>3. /\ r.now \in r.batch /\ r.batch \subseteq Inserted
        /\ \A e \in r.batch : r.seen[e] <= row[e].retries
    BY <2>1 DEF IInv, TypeOK, SeenBehind, Now
  <2>4. relayed \subseteq relayed' /\ relayed' \subseteq Events
    BY DEF IInv, TypeOK
  <2> HIDE DEF r
  <2> QED BY <2>1, <2>2, <2>3, <2>4, KeepRows
<1> QED BY <1>2, <1>3

LEMMA MarkProcessedKeeps ==
  ASSUME IInv, NEW p \in Passes, MarkProcessed(p)
  PROVE  IInv'
<1>1. ~At(p, "emitting")
  BY DEF MarkProcessed, At
<1>2. CASE row[Now(p)].status = "cleared"
  BY <1>1, <1>2, ThrowKeeps DEF MarkProcessed, IInv, TypeOK
<1>3. CASE row[Now(p)].status # "cleared"
  <2> DEFINE r == [row[Now(p)] EXCEPT !.status = "processed"]
  <2>1. Now(p) \in Events
    BY <1>1 DEF IInv, TypeOK, Inserted
  <2>2. row[Now(p)] \in Rows
    BY <2>1 DEF IInv, TypeOK
  <2>3. r \in Rows /\ r.status # "none" /\ row[Now(p)].retries <= r.retries
    BY <2>2 DEF Rows, Statuses
  <2>4. row' = [row EXCEPT ![Now(p)] = r] /\ NextRow(p) /\ UNCHANGED <<published, relayed, failures>>
    BY <1>3, <2>1 DEF MarkProcessed, IInv, TypeOK
  <2> HIDE DEF r
  <2> QED BY <1>1, <2>3, <2>4, SettlesRow
<1> QED BY <1>2, <1>3

\* The row as the catch leaves it.
Recounted(p) ==
  [row[Now(p)] EXCEPT
     !.retries = @ + 1,
     !.status = IF pass[p].seen[Now(p)] >= MaxRetries THEN "failed" ELSE "pending"]

LEMMA RecountedRow ==
  ASSUME IInv, NEW p \in Passes, Recount(p), row[Now(p)].status # "cleared"
  PROVE  /\ Now(p) \in Events /\ Recounted(p) \in Rows
         /\ row' = [row EXCEPT ![Now(p)] = Recounted(p)]
         /\ Recounted(p).retries = row[Now(p)].retries + 1
         /\ \/ Recounted(p).status = "pending"
            \/ /\ Recounted(p).status = "failed"
               /\ row[Now(p)].retries + 1 > MaxRetries
<1>1. Now(p) \in Events /\ Now(p) \in pass[p].batch
  BY DEF Recount, IInv, TypeOK, Inserted, At
<1>2. row[Now(p)] \in Rows
  BY <1>1 DEF IInv, TypeOK
<1>3. Recounted(p) \in Rows /\ Recounted(p).retries = row[Now(p)].retries + 1
  <2>1. PICK st \in Statuses :
          Recounted(p) = [row[Now(p)] EXCEPT !.retries = @ + 1, !.status = st]
    BY DEF Recounted, Statuses
  <2> DEFINE n == row[Now(p)].retries + 1
  <2>2. n \in Nat /\ row[Now(p)] \in [status : Statuses, retries : Nat, at : Nat]
    BY <1>2 DEF Rows
  <2>3. Recounted(p) = [[row[Now(p)] EXCEPT !.retries = n] EXCEPT !.status = st]
    BY <2>1, <2>2
  <2> HIDE DEF n
  <2>4. [row[Now(p)] EXCEPT !.retries = n] \in [status : Statuses, retries : Nat, at : Nat]
    BY <2>2
  <2>5. Recounted(p) \in [status : Statuses, retries : Nat, at : Nat] /\ Recounted(p).retries = n
    BY <2>2, <2>3, <2>4
  <2> QED BY <2>5 DEF Rows, n
<1>4. row' = [row EXCEPT ![Now(p)] = Recounted(p)]
  BY <1>1 DEF Recount, Recounted, IInv, TypeOK
<1>5. Recounted(p).status = (IF pass[p].seen[Now(p)] >= MaxRetries THEN "failed" ELSE "pending")
  BY <1>2 DEF Recounted, Rows
<1>6. pass[p].seen[Now(p)] <= row[Now(p)].retries /\ pass[p].seen[Now(p)] \in Nat
      /\ row[Now(p)].retries \in Nat
  BY <1>1, <1>2 DEF IInv, SeenBehind, TypeOK, PassRecords, Rows
<1>7. pass[p].seen[Now(p)] >= MaxRetries => row[Now(p)].retries + 1 > MaxRetries
  BY <1>6
<1> QED BY <1>1, <1>3, <1>4, <1>5, <1>7

LEMMA RecountKeeps ==
  ASSUME IInv, NEW p \in Passes, Recount(p)
  PROVE  IInv'
<1>1. ~At(p, "emitting")
  BY DEF Recount, At
<1>2. CASE row[Now(p)].status = "cleared"
  BY <1>1, <1>2, ThrowKeeps DEF Recount, IInv, TypeOK
<1>3. CASE row[Now(p)].status # "cleared"
  <2>1. row[Now(p)].retries <= Recounted(p).retries
    BY <1>3, RecountedRow DEF IInv, TypeOK, Rows
  <2> QED BY <1>1, <1>3, <2>1, RecountedRow, SettlesRow DEF Recount
<1> QED BY <1>2, <1>3

LEMMA CrashKeeps ==
  ASSUME IInv, Crash
  PROVE  IInv'
<1>1. pass' \in [Passes -> PassRecords] /\ \A p \in Passes : pass'[p] = NoPass
  BY NoPassType DEF Crash
<1>2. \A e \in Inserted : row[e].retries <= row[e].retries
  BY DEF IInv, TypeOK, Inserted, Rows
<1> QED BY <1>1, <1>2, KeepPasses DEF Crash, IInv, TypeOK, RowsArePublished, Inserted

LEMMA NextIInv == IInv /\ [Next]_vars => IInv'
<1> SUFFICES ASSUME IInv, [Next]_vars PROVE IInv'
  OBVIOUS
<1>1. ASSUME NEW e \in Events, Insert(e) \/ InsertFails(e) \/ Clear(e) PROVE IInv'
  BY <1>1, PublisherKeeps
<1>2. ASSUME NEW p \in Passes, Pass(p) PROVE IInv'
  BY <1>2, ReadPendingKeeps, MarkProcessedKeeps, RecountKeeps, EmitKeeps DEF Pass
<1>3. ASSUME NEW p \in Passes, StatementFails(p) PROVE IInv'
  BY <1>3, ThrowKeeps DEF StatementFails, At, IInv, TypeOK
<1>4. CASE Crash
  BY <1>4, CrashKeeps
<1>5. CASE UNCHANGED vars
  BY <1>5 DEF vars, IInv, TypeOK, RowsArePublished, SeenBehind, Inserted, At, Now
<1> QED BY <1>1, <1>2, <1>3, <1>4, <1>5 DEF Next

LEMMA Invariance == Spec => []IInv
<1> QED BY InitIInv, NextIInv, PTL DEF Spec

\* A pass works on rows that exist, and marks only what it has emitted.
THEOREM OutboxTypeCorrect == Spec => []TypeOK
<1>1. IInv => TypeOK
  BY DEF IInv
<1> QED BY <1>1, Invariance, PTL

-------------------------------------------------------------------------------
(* The refinement.                                                         *)

RelayState == [e \in Events |-> StateOf(e)]
RelayRefused == [e \in Events |-> row[e].retries]

LEMMA Meanings ==
  /\ Meaning["none"] = "none" /\ Meaning["pending"] = "waiting"
  /\ Meaning["processed"] = "done" /\ Meaning["cleared"] = "done"
  /\ Meaning["failed"] = "dropped"
BY DEF Meaning

LEMMA RelayInit == Init => Relay!Init
BY Meanings DEF Init, Relay!Init, StateOf

\* A step in which one row changes is one step of the relay for its event.
LEMMA RowStep ==
  ASSUME TypeOK, NEW e \in Events, NEW r \in Rows, row' = [row EXCEPT ![e] = r]
  PROVE  /\ RelayState' = [RelayState EXCEPT ![e] = Meaning[r.status]]
         /\ RelayRefused' = [RelayRefused EXCEPT ![e] = r.retries]
BY DEF TypeOK, RelayState, RelayRefused, StateOf

\* The rows that exist are waiting, done or dropped.
LEMMA Waiting ==
  ASSUME TypeOK, NEW e \in Inserted
  PROVE  e \in Events /\ RelayState[e] # "none"
BY Meanings DEF TypeOK, Inserted, RelayState, StateOf, Rows, Statuses

LEMMA PublisherRefines ==
  ASSUME IInv, NEW e \in Events, Insert(e) \/ InsertFails(e) \/ Clear(e)
  PROVE  [Relay!Next]_(Relay!vars)
<1>1. CASE Insert(e)
  <2> DEFINE r == [status |-> "pending", retries |-> 0, at |-> Cardinality(Inserted) + 1]
  <2>1. r \in Rows /\ r.status = "pending" /\ r.retries = 0
    BY CountIsNat DEF Rows, Statuses, IInv
  <2>2. row[e].status = "none" /\ row[e].retries = 0
    BY <1>1 DEF Insert, IInv, RowsArePublished, Inserted
  <2>3. row' = [row EXCEPT ![e] = r] /\ relayed' = relayed
    BY <1>1 DEF Insert
  <2> HIDE DEF r
  <2>4. RelayState[e] = "none" /\ RelayState' = [RelayState EXCEPT ![e] = "waiting"]
    <3>1. RelayState[e] = "none"
      BY <2>2, Meanings DEF RelayState, StateOf
    <3>2. RelayState' = [RelayState EXCEPT ![e] = Meaning[r.status]]
      BY <2>1, <2>3, RowStep DEF IInv
    <3> QED BY <2>1, <3>1, <3>2, Meanings
  <2>5. RelayRefused' = RelayRefused
    BY <2>1, <2>2, <2>3, RowStep, Meanings DEF IInv, RelayRefused
  <2>6. Relay!Accept(e)
    BY <2>3, <2>4, <2>5 DEF Relay!Accept, RelayState, RelayRefused
  <2> QED BY <2>6 DEF Relay!Next
<1>2. CASE InsertFails(e)
  BY <1>2 DEF InsertFails, Relay!vars, StateOf
<1>3. CASE Clear(e)
  <2> DEFINE r == [row[e] EXCEPT !.status = "cleared"]
  <2>1. row[e] \in Rows /\ row[e].status = "processed"
    BY <1>3 DEF Clear, IInv, TypeOK
  <2>2. r \in Rows /\ r.status = "cleared" /\ r.retries = row[e].retries
    BY <2>1 DEF Rows, Statuses
  <2>3. row' = [row EXCEPT ![e] = r] /\ relayed' = relayed
    BY <1>3 DEF Clear, IInv, TypeOK
  <2> HIDE DEF r
  <2>4. RelayState' = RelayState
    BY <2>1, <2>2, <2>3, RowStep, Meanings DEF IInv, RelayState, StateOf
  <2>5. RelayRefused' = RelayRefused
    BY <2>2, <2>3, RowStep, Meanings DEF IInv, RelayRefused
  <2> QED BY <2>3, <2>4, <2>5 DEF Relay!vars, RelayState, RelayRefused
<1> QED BY <1>1, <1>2, <1>3

LEMMA EmitRefines ==
  ASSUME IInv, NEW p \in Passes, NEW e \in Events, Emit(p, e)
  PROVE  [Relay!Next]_(Relay!vars)
<1>1. RelayState[e] # "none" /\ row' = row
  BY Waiting DEF Emit, Oldest, IInv, TypeOK
<1>2. CASE relayed' = relayed \cup {e}
  <2>1. Relay!Deliver(e)
    BY <1>1, <1>2 DEF Relay!Deliver, RelayState, StateOf
  <2> QED BY <2>1 DEF Relay!Next
<1>3. CASE relayed' = relayed
  BY <1>1, <1>3 DEF Relay!vars, StateOf
<1> QED BY <1>2, <1>3 DEF Emit

LEMMA MarkProcessedRefines ==
  ASSUME IInv, NEW p \in Passes, MarkProcessed(p)
  PROVE  [Relay!Next]_(Relay!vars)
<1>1. CASE row[Now(p)].status = "cleared"
  BY <1>1 DEF MarkProcessed, Relay!vars, StateOf
<1>2. CASE row[Now(p)].status # "cleared"
  <2> DEFINE e == Now(p)
             r == [row[e] EXCEPT !.status = "processed"]
  <2>1. e \in Inserted /\ e \in relayed
    BY DEF MarkProcessed, At, IInv, TypeOK
  <2>2. e \in Events /\ RelayState[e] # "none"
    BY <2>1, Waiting DEF IInv
  <2>3. row[e] \in Rows
    BY <2>2 DEF IInv, TypeOK
  <2>4. r \in Rows /\ r.status = "processed" /\ r.retries = row[e].retries
    BY <2>3 DEF Rows, Statuses
  <2>5. row' = [row EXCEPT ![e] = r] /\ relayed' = relayed
    BY <1>2, <2>2 DEF MarkProcessed, IInv, TypeOK
  <2> HIDE DEF r, e
  <2>6. RelayState' = [RelayState EXCEPT ![e] = "done"]
    <3>1. RelayState' = [RelayState EXCEPT ![e] = Meaning[r.status]]
      BY <2>2, <2>4, <2>5, RowStep DEF IInv
    <3> QED BY <2>4, <3>1, Meanings
  <2>7. RelayRefused' = RelayRefused
    BY <2>2, <2>4, <2>5, RowStep, Meanings DEF IInv, RelayRefused
  <2>8. Relay!Finish(e)
    BY <2>1, <2>2, <2>5, <2>6, <2>7 DEF Relay!Finish, RelayState, RelayRefused
  <2> QED BY <2>2, <2>8 DEF Relay!Next
<1> QED BY <1>1, <1>2

LEMMA RecountRefines ==
  ASSUME IInv, NEW p \in Passes, Recount(p)
  PROVE  [Relay!Next]_(Relay!vars)
<1>1. CASE row[Now(p)].status = "cleared"
  BY <1>1 DEF Recount, Relay!vars, StateOf
<1>2. CASE row[Now(p)].status # "cleared"
  <2>1. Now(p) \in Inserted
    BY DEF Recount, At, IInv, TypeOK
  <2>2. PICK e \in Events : e = Now(p) /\ RelayState[e] # "none"
    BY <2>1, Waiting DEF IInv
  <2> DEFINE r == Recounted(p)
  <2>3. /\ r \in Rows /\ row' = [row EXCEPT ![e] = r] /\ relayed' = relayed
        /\ r.retries = row[e].retries + 1
        /\ r.status = "pending" \/ (r.status = "failed" /\ row[e].retries + 1 > MaxRetries)
    BY <1>2, <2>2, RecountedRow DEF Recount
  <2> HIDE DEF r
  <2>4. RelayRefused' = [RelayRefused EXCEPT ![e] = RelayRefused[e] + 1]
    <3>1. RelayRefused' = [RelayRefused EXCEPT ![e] = r.retries]
      BY <2>3, RowStep DEF IInv
    <3>2. RelayRefused[e] = row[e].retries
      BY DEF RelayRefused
    <3> QED BY <2>3, <3>1, <3>2
  <2>5. \/ RelayState' = [RelayState EXCEPT ![e] = "waiting"]
        \/ /\ RelayState' = [RelayState EXCEPT ![e] = "dropped"]
           /\ RelayRefused[e] + 1 > MaxRetries
    <3>1. RelayState' = [RelayState EXCEPT ![e] = Meaning[r.status]]
      BY <2>3, RowStep DEF IInv
    <3>2. RelayRefused[e] = row[e].retries
      BY DEF RelayRefused
    <3> QED BY <2>3, <3>1, <3>2, Meanings
  <2>6. Relay!Refuse(e)
    BY <2>2, <2>3, <2>4, <2>5 DEF Relay!Refuse, RelayState, RelayRefused
  <2> QED BY <2>6 DEF Relay!Next
<1> QED BY <1>1, <1>2

LEMMA NextRefines == IInv /\ [Next]_vars => [Relay!Next]_(Relay!vars)
<1> SUFFICES ASSUME IInv, [Next]_vars PROVE [Relay!Next]_(Relay!vars)
  OBVIOUS
<1>1. ASSUME NEW e \in Events, Insert(e) \/ InsertFails(e) \/ Clear(e)
      PROVE  [Relay!Next]_(Relay!vars)
  BY <1>1, PublisherRefines
<1>2. ASSUME UNCHANGED <<row, relayed>> PROVE [Relay!Next]_(Relay!vars)
  BY <1>2 DEF Relay!vars, StateOf
<1>3. ASSUME NEW p \in Passes, Pass(p) \/ StatementFails(p) PROVE [Relay!Next]_(Relay!vars)
  BY <1>2, <1>3, EmitRefines, MarkProcessedRefines, RecountRefines
     DEF Pass, ReadPending, StatementFails
<1> QED BY <1>1, <1>2, <1>3 DEF Next, Crash, vars

\* Whatever number of passes overlap, fail or die, every event goes the way of the
\* at-least-once relay: done only once emitted, dropped only after MaxRetries failures.
THEOREM OutboxImplementsRelay == Spec => ImplementsRelay
<1> QED BY RelayInit, NextRefines, Invariance, PTL DEF Spec, ImplementsRelay, Relay!Spec
===============================================================================
