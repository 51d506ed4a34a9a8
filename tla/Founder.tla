-------------------------------- MODULE Founder --------------------------------
(***************************************************************************)
(* Founder programs (src/src/founder): lifetime seats in a limited         *)
(* number, a counter of used seats on each program, at most one seat per   *)
(* user, and the upgrade of a seat to a dearer program.                    *)
(*                                                                         *)
(* The service checks the request, then the repository runs an interactive *)
(* READ COMMITTED transaction whose statements interleave with those of    *)
(* other calls; a call runs                                                *)
(*                                                                         *)
(*   claim    begun -> sized -> checked -> counted -> seated -> committed  *)
(*   upgrade  begun -> sized -> checked -> removed -> left                 *)
(*                           -> counted -> seated -> committed             *)
(*                                                                         *)
(* Writes stay invisible until Commit; until then the program rows and the *)
(* seat they touched are locked.  Events are published after the commit.   *)
(***************************************************************************)
EXTENDS Integers, FiniteSets

CONSTANTS
  Users,
  Clients,     \* concurrent service calls
  Programs, NoProgram,
  Price,       \* [Programs -> Nat]
  Total        \* [Programs -> Nat], the seats of each program

ASSUME FounderAssumption ==
  /\ IsFiniteSet(Users)
  /\ Users # {}
  /\ NoProgram \notin Programs
  /\ Programs # {}
  /\ Price \in [Programs -> Nat]
  /\ Total \in [Programs -> Nat \ {0}]

\* The seeded programs: one program is dearer than the others, so that it is the
\* only target of an upgrade.
ASSUME OneLadder ==
  \E top \in Programs : \A p, q \in Programs : Price[p] < Price[q] => q = top

VARIABLES
  used,      \* [Programs -> Int], the usedSeats counters
  closed,    \* the programs whose status is 'closed'
  seat,      \* [Users -> Programs \cup {NoProgram}], the founder_seats table
  badge,     \* [Users -> Programs \cup {NoProgram}], users.founder_badge
  outbox,    \* the events published: <<event name, aggregate>>
  tx         \* [Clients -> Call]

vars == <<used, closed, seat, badge, outbox, tx>>
tables == <<used, closed, seat, badge, outbox>>

Phases == {"idle", "begun", "sized", "checked", "removed", "left", "counted",
           "seated", "committed"}

\* from is the program an upgrade leaves, NoProgram for a claim; used is the
\* counter of the target program as the transaction read it.
Call == [phase : Phases, user : Users, to : Programs,
         from : Programs \cup {NoProgram}, used : Int]

Events == ({"seat_claimed", "upgraded"} \X Users) \cup ({"program_closed"} \X Programs)

Request(phase, u, p, from) ==
  [phase |-> phase, user |-> u, to |-> p, from |-> from, used |-> 0]

NoCall == Request("idle", CHOOSE u \in Users : TRUE, CHOOSE p \in Programs : TRUE,
                  NoProgram)

Idle(c) == tx[c].phase = "idle"
IsUpgrade(c) == tx[c].from # NoProgram
InPhase(c, phases) == tx[c].phase \in phases

Advance(c, phase) == tx' = [tx EXCEPT ![c].phase = phase]
Finish(c) == tx' = [tx EXCEPT ![c] = NoCall]

Open(p) == p \notin closed /\ used[p] < Total[p]

-------------------------------------------------------------------------------
(* Locks: a program row counted up or down, the seat row removed, the seat *)
(* key inserted.                                                           *)

HoldsSeat(c) ==
  InPhase(c, IF IsUpgrade(c) THEN {"removed", "left", "counted", "seated"} ELSE {"seated"})

HoldsProgram(c, p) ==
  \/ p = tx[c].to /\ InPhase(c, {"counted", "seated"})
  \/ p = tx[c].from /\ InPhase(c, {"left", "counted", "seated"})

SeatFree(c) == \A d \in Clients \ {c} : HoldsSeat(d) => tx[d].user # tx[c].user
ProgramFree(c, p) == \A d \in Clients \ {c} : ~HoldsProgram(d, p)

-------------------------------------------------------------------------------
(* The service calls.                                                      *)

\* claimSeat checks that the program is open with room and the user has no seat.
BeginClaim(c, u, p) ==
  /\ Idle(c)
  /\ Open(p)
  /\ seat[u] = NoProgram
  /\ tx' = [tx EXCEPT ![c] = Request("begun", u, p, NoProgram)]
  /\ UNCHANGED tables

\* upgradeSeat checks that the target is open and dearer than the user's program.
BeginUpgrade(c, u, p) ==
  /\ Idle(c)
  /\ p \notin closed
  /\ seat[u] # NoProgram
  /\ Price[p] > Price[seat[u]]
  /\ tx' = [tx EXCEPT ![c] = Request("begun", u, p, seat[u])]
  /\ UNCHANGED tables

\* The transaction reads the program again: still open, still with room.
ReadProgram(c) ==
  /\ InPhase(c, {"begun"})
  /\ IF Open(tx[c].to)
     THEN tx' = [tx EXCEPT ![c].phase = "sized", ![c].used = used[tx[c].to]]
     ELSE Finish(c)
  /\ UNCHANGED tables

\* ... and the seat: none for a claim, still of the program to leave for an upgrade.
ReadSeat(c) ==
  /\ InPhase(c, {"sized"})
  /\ IF seat[tx[c].user] = tx[c].from THEN Advance(c, "checked") ELSE Finish(c)
  /\ UNCHANGED tables

\* DELETE of the seat by user id, whatever program it is of by now.
RemoveSeat(c) ==
  /\ InPhase(c, {"checked"})
  /\ IsUpgrade(c)
  /\ SeatFree(c)
  /\ IF seat[tx[c].user] # NoProgram THEN Advance(c, "removed") ELSE Finish(c)
  /\ UNCHANGED tables

\* The program left is counted down without a check.
LeaveProgram(c) ==
  /\ InPhase(c, {"removed"})
  /\ ProgramFree(c, tx[c].from)
  /\ Advance(c, "left")
  /\ UNCHANGED tables

\* Mutant: the counter is incremented without comparing it with the one read.
MTakePlaceBlindly(c) ==
  /\ InPhase(c, {IF IsUpgrade(c) THEN "left" ELSE "checked"})
  /\ ProgramFree(c, tx[c].to)
  /\ tx' = [tx EXCEPT ![c].phase = "counted", ![c].used = used[tx[c].to]]
  /\ UNCHANGED tables

\* Mutant: a counter that moved is waited for instead of failing the call.
MTakePlaceWaits(c) ==
  /\ InPhase(c, {IF IsUpgrade(c) THEN "left" ELSE "checked"})
  /\ ProgramFree(c, tx[c].to)
  /\ used[tx[c].to] = tx[c].used
  /\ Advance(c, "counted")
  /\ UNCHANGED tables

\* The target is counted up where its counter is still the one read; otherwise the
\* update finds no row and the transaction rolls back.
TakePlace(c) ==
  /\ InPhase(c, {IF IsUpgrade(c) THEN "left" ELSE "checked"})
  /\ ProgramFree(c, tx[c].to)
  /\ IF used[tx[c].to] = tx[c].used THEN Advance(c, "counted") ELSE Finish(c)
  /\ UNCHANGED tables

\* Mutant: no unique index on the seat's user.
MCreateSecondSeat(c) ==
  /\ InPhase(c, {"counted"})
  /\ SeatFree(c)
  /\ Advance(c, "seated")
  /\ UNCHANGED tables

\* INSERT of the seat: waits for a call that removed or inserted the user's seat,
\* and fails on the unique user id when one is there.
CreateSeat(c) ==
  /\ InPhase(c, {"counted"})
  /\ SeatFree(c)
  /\ IF IsUpgrade(c) \/ seat[tx[c].user] = NoProgram
     THEN Advance(c, "seated")
     ELSE Finish(c)
  /\ UNCHANGED tables

\* Mutant: the counter of the program left is not counted down.
MCommitKeepsOldPlace(c) ==
  LET u == tx[c].user  p == tx[c].to
  IN  /\ InPhase(c, {"seated"})
      /\ used' = [used EXCEPT ![p] = @ + 1]
      /\ closed' = IF used'[p] >= Total[p] THEN closed \cup {p} ELSE closed
      /\ seat' = [seat EXCEPT ![u] = p]
      /\ badge' = [badge EXCEPT ![u] = p]
      /\ Advance(c, "committed")
      /\ UNCHANGED outbox

\* The badge, the closing of a program that is now full, and the commit of all the
\* transaction wrote.  The program left is never opened again.
Commit(c) ==
  LET u == tx[c].user
      p == tx[c].to
  IN  /\ InPhase(c, {"seated"})
      /\ used' = [q \in Programs |-> CASE q = p          -> used[q] + 1
                                       [] q = tx[c].from -> used[q] - 1
                                       [] OTHER          -> used[q]]
      /\ closed' = IF used[p] + 1 >= Total[p] THEN closed \cup {p} ELSE closed
      /\ seat' = [seat EXCEPT ![u] = p]
      /\ badge' = [badge EXCEPT ![u] = p]
      /\ Advance(c, "committed")
      /\ UNCHANGED outbox

\* Mutant: the closing is announced from the counter read before the claim.
MAnnouncementsStale(c) ==
  IF IsUpgrade(c)
  THEN {<<"upgraded", tx[c].user>>}
  ELSE {<<"seat_claimed", tx[c].user>>} \cup
       {<<"program_closed", p>> : p \in {q \in {tx[c].to} : used[q] >= Total[q] - 1}}

\* Mutant: an upgrade is announced with the program as its aggregate.
MAnnouncementsOfProgram(c) ==
  IF IsUpgrade(c)
  THEN {<<"upgraded", tx[c].to>>}
  ELSE {<<"seat_claimed", tx[c].user>>} \cup
       {<<"program_closed", p>> : p \in {q \in {tx[c].to} : used[q] >= Total[q]}}

\* What a committed call publishes: a claim reads the program once more and
\* announces its closing when it is full; an upgrade never does.
Announcements(c) ==
  IF IsUpgrade(c)
  THEN {<<"upgraded", tx[c].user>>}
  ELSE {<<"seat_claimed", tx[c].user>>} \cup
       {<<"program_closed", p>> : p \in {q \in {tx[c].to} : used[q] >= Total[q]}}

\* A write of the outbox that fails is only logged.
Announce(c) ==
  /\ InPhase(c, {"committed"})
  /\ \E written \in SUBSET Announcements(c) : outbox' = outbox \cup written
  /\ Finish(c)
  /\ UNCHANGED <<used, closed, seat, badge>>

\* A crash, a timeout, or the abort of a victim of the deadlock detector: before the
\* commit everything rolls back, after it only the events are lost.
Fail(c) ==
  /\ ~Idle(c)
  /\ Finish(c)
  /\ UNCHANGED tables

\* The administrator's closeProgram.
CloseProgram(p) ==
  /\ \A c \in Clients : ~HoldsProgram(c, p)
  /\ closed' = closed \cup {p}
  /\ \E written \in SUBSET {<<"program_closed", p>>} : outbox' = outbox \cup written
  /\ UNCHANGED <<used, seat, badge, tx>>

-------------------------------------------------------------------------------
Init ==
  /\ used = [p \in Programs |-> 0]
  /\ closed = {}
  /\ seat = [u \in Users |-> NoProgram]
  /\ badge = [u \in Users |-> NoProgram]
  /\ outbox = {}
  /\ tx = [c \in Clients |-> NoCall]

Begin(c) ==
  \E u \in Users, p \in Programs : BeginClaim(c, u, p) \/ BeginUpgrade(c, u, p)

Progress(c) ==
  \/ ReadProgram(c) \/ ReadSeat(c) \/ RemoveSeat(c) \/ LeaveProgram(c)
  \/ TakePlace(c) \/ CreateSeat(c) \/ Commit(c) \/ Announce(c)

Next ==
  \/ \E c \in Clients : Begin(c) \/ Progress(c) \/ Fail(c)
  \/ \E p \in Programs : CloseProgram(p)

Spec == Init /\ [][Next]_vars

\* c waits for a lock that d holds.
WaitsForSeat(c) == InPhase(c, IF IsUpgrade(c) THEN {"checked"} ELSE {"counted"})
WaitsForProgram(c, p) ==
  \/ InPhase(c, {"removed"}) /\ p = tx[c].from
  \/ InPhase(c, {IF IsUpgrade(c) THEN "left" ELSE "checked"}) /\ p = tx[c].to
WaitsFor(c, d) ==
  /\ c # d
  /\ \/ WaitsForSeat(c) /\ HoldsSeat(d) /\ tx[d].user = tx[c].user
     \/ \E p \in Programs : WaitsForProgram(c, p) /\ HoldsProgram(d, p)

\* A call waits for one other at a time: calls that each wait for one of them and
\* are each waited for form cycles.
Deadlocked(S) ==
  \A c \in S : (\E d \in S : WaitsFor(c, d)) /\ (\E d \in S : WaitsFor(d, c))

\* PostgreSQL aborts one of the transactions that wait for each other.
BreakDeadlock == \E S \in SUBSET Clients : Deadlocked(S) /\ \E c \in S : Fail(c)

\* A running call goes on to its next statement, row locks are granted in arrival
\* order, and deadlocks are broken.
FairSpec ==
  /\ Spec
  /\ \A c \in Clients : SF_vars(Progress(c))
  /\ WF_vars(BreakDeadlock)
-------------------------------------------------------------------------------
(* Properties.                                                             *)

TypeOK ==
  /\ used \in [Programs -> Int]
  /\ closed \subseteq Programs
  /\ seat \in [Users -> Programs \cup {NoProgram}]
  /\ badge \in [Users -> Programs \cup {NoProgram}]
  /\ outbox \subseteq Events
  /\ tx \in [Clients -> Call]

\* The counter of every program is the number of its seats, whatever claims and
\* upgrades raced on it.
Holders(p) == {u \in Users : seat[u] = p}
SeatsCounted == \A p \in Programs : used[p] = Cardinality(Holders(p))

\* No program has more seats than it sells, and one that sold them all is closed.
NoOversell == \A p \in Programs : Cardinality(Holders(p)) <= Total[p]
FullIsClosed == \A p \in Programs : used[p] = Total[p] => p \in closed

\* The book of seats is right after any interleaving: counted, not oversold, and closed when
\* the last seat went.
SeatBook == SeatsCounted /\ NoOversell /\ FullIsClosed

\* A user never loses a seat, and never moves to a cheaper program.
SeatNeverLost ==
  [][\A u \in Users : seat[u] # NoProgram /\ seat'[u] # seat[u] =>
       seat'[u] # NoProgram /\ Price[seat'[u]] > Price[seat[u]]]_vars

\* What is published happened and is still so: a claim announced is a seat with its
\* badge, a closing announced is a closed program, although the announcing call reads
\* the program again after its commit.
AnnouncedIsTrue ==
  /\ \A u \in Users : <<"seat_claimed", u>> \in outbox =>
       seat[u] # NoProgram /\ badge[u] = seat[u]
  /\ \A p \in Programs : <<"program_closed", p>> \in outbox => p \in closed

\* Every call ends, also when claims and upgrades of one user wait for each other.
EveryCallEnds == \A c \in Clients : tx[c].phase # "idle" ~> tx[c].phase = "idle"

\* The counters, locks and checks implement an indivisible sale of seats.
Sale == INSTANCE SeatSale WITH holder <- seat

ImplementsSale == Sale!SaleSpec
===============================================================================
