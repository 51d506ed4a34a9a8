----------------------------- MODULE FounderProofs -----------------------------
(***************************************************************************)
(* What holds of the founder programs for any number of users, calls and   *)
(* seats, when one program is the only target of an upgrade (OneLadder).   *)
(*                                                                         *)
(* The inductive invariant IInv adds what a running call knows (CallInv).  *)
(* The delicate part is the upgrade: it deletes the user's seat by user id *)
(* and counts down the program it read earlier, without checking that the  *)
(* seat is still of that program.  It is right because the counter of the  *)
(* top program only grows: either the seat has not moved, or the counter   *)
(* has moved, and then the versioned update of the counter fails.          *)
(***************************************************************************)
EXTENDS Founder, TLAPS, FiniteSetTheorems

Sizing == {"sized", "checked", "removed", "left", "counted", "seated"}
Changing == Sizing \ {"sized"}

CallInv(c) ==
  LET call == tx[c]
  IN  /\ ~Idle(c) /\ IsUpgrade(c) => Price[call.from] < Price[call.to]
      /\ InPhase(c, Sizing) => call.used < Total[call.to]
      /\ InPhase(c, {"counted", "seated"}) => used[call.to] = call.used
      /\ InPhase(c, Sizing) /\ IsUpgrade(c) => used[call.to] >= call.used
      /\ InPhase(c, Changing) /\ IsUpgrade(c) =>
           seat[call.user] = call.from \/ used[call.to] > call.used
      /\ InPhase(c, {"seated"}) /\ ~IsUpgrade(c) => seat[call.user] = NoProgram
      /\ InPhase(c, {"committed"}) => seat[call.user] # NoProgram
      /\ HoldsSeat(c) => SeatFree(c)
      /\ \A p \in Programs : HoldsProgram(c, p) => ProgramFree(c, p)

Bounded == \A p \in Programs : used[p] <= Total[p]

IInv ==
  /\ TypeOK
  /\ SeatsCounted
  /\ Bounded
  /\ FullIsClosed
  /\ \A c \in Clients : CallInv(c)

-------------------------------------------------------------------------------
\* No call is running in the idle record.
LEMMA NoCallType == NoCall \in Call /\ NoCall.phase = "idle"
  <1>1. /\ (CHOOSE u \in Users : TRUE) \in Users
        /\ (CHOOSE p \in Programs : TRUE) \in Programs
    BY FounderAssumption
  <1>2. QED
    BY <1>1 DEF NoCall, Request, Call, Phases

\* A dearer program is the top one, and the top one is dearer than no other.
LEMMA UpgradeGoesToTop ==
  ASSUME NEW p \in Programs, NEW q \in Programs, NEW r \in Programs, NEW s \in Programs,
         Price[p] < Price[q], Price[r] < Price[s]
  PROVE  q = s /\ p # s
  <1>1. PICK top \in Programs : \A x, y \in Programs : Price[x] < Price[y] => y = top
    BY OneLadder
  <1>2. q = top /\ s = top
    BY <1>1
  <1>3. Price[p] \in Nat /\ Price[q] \in Nat
    BY FounderAssumption
  <1>4. QED
    BY <1>2, <1>3

\* Locks and knowledge are functions of the records they are read from.
LEMMA SameRecord ==
  ASSUME NEW c, tx'[c] = tx[c]
  PROVE  /\ Idle(c)' = Idle(c) /\ IsUpgrade(c)' = IsUpgrade(c)
         /\ HoldsSeat(c)' = HoldsSeat(c)
         /\ \A phases : InPhase(c, phases)' = InPhase(c, phases)
         /\ \A p : HoldsProgram(c, p)' = HoldsProgram(c, p)
  BY DEF Idle, IsUpgrade, HoldsSeat, InPhase, HoldsProgram

\* A step that leaves seats and counters alone and changes the record of one call
\* preserves the invariant, when the call knows afterwards what CallInv asks.
LEMMA CallStep ==
  ASSUME IInv, NEW c \in Clients, NEW call \in Call,
         used' = used, seat' = seat, badge' = badge,
         closed \subseteq closed', closed' \subseteq Programs, outbox' \subseteq Events,
         tx' = [tx EXCEPT ![c] = call],
         CallInv(c)'
  PROVE  IInv'
  <1>1. /\ tx \in [Clients -> Call] /\ tx' \in [Clients -> Call]
        /\ tx'[c] = call
        /\ \A d \in Clients \ {c} : tx'[d] = tx[d]
    BY DEF IInv, TypeOK
  <1>2. TypeOK'
    BY <1>1 DEF IInv, TypeOK
  <1>3. SeatsCounted' /\ Bounded' /\ FullIsClosed'
    BY DEF IInv, SeatsCounted, Holders, Bounded, FullIsClosed
  <1>4. ASSUME NEW d \in Clients \ {c} PROVE CallInv(d)'
    <2>1. CallInv(d) /\ tx'[d] = tx[d]
      BY <1>1 DEF IInv
    <2>2. HoldsSeat(d) => SeatFree(d)'
      <3>1. SUFFICES ASSUME HoldsSeat(d), NEW e \in Clients \ {d}, HoldsSeat(e)'
                     PROVE  tx'[e].user # tx'[d].user
        BY DEF SeatFree
      <3>2. CASE e = c
        <4>1. HoldsSeat(d)'
          BY <2>1, <3>1, SameRecord
        <4>2. SeatFree(c)'
          BY <3>1, <3>2 DEF CallInv
        <4>3. QED
          BY <3>2, <4>1, <4>2 DEF SeatFree
      <3>3. CASE e # c
        <4>1. HoldsSeat(e) /\ tx'[e] = tx[e]
          BY <1>1, <3>1, <3>3, SameRecord
        <4>2. QED
          BY <2>1, <3>1, <4>1 DEF CallInv, SeatFree
      <3>4. QED BY <3>2, <3>3
    <2>3. ASSUME NEW p \in Programs, HoldsProgram(d, p) PROVE ProgramFree(d, p)'
      <3>1. SUFFICES ASSUME NEW e \in Clients \ {d}, HoldsProgram(e, p)' PROVE FALSE
        BY DEF ProgramFree
      <3>2. CASE e = c
        <4>1. HoldsProgram(d, p)'
          BY <2>1, <2>3, SameRecord
        <4>2. ProgramFree(c, p)'
          BY <3>1, <3>2 DEF CallInv
        <4>3. QED
          BY <3>2, <4>1, <4>2 DEF ProgramFree
      <3>3. CASE e # c
        <4>1. HoldsProgram(e, p)
          BY <1>1, <3>1, <3>3, SameRecord
        <4>2. QED
          BY <2>1, <2>3, <4>1 DEF CallInv, ProgramFree
      <3>4. QED BY <3>2, <3>3
    <2>4. QED
      BY <2>1, <2>2, <2>3, SameRecord DEF CallInv
  <1>5. QED
    BY <1>2, <1>3, <1>4 DEF IInv

\* Ending a call is such a step.
LEMMA FinishStep ==
  ASSUME IInv, NEW c \in Clients, Finish(c), used' = used, seat' = seat, badge' = badge,
         closed' = closed, outbox' \subseteq Events
  PROVE  IInv'
  <1>1. tx' = [tx EXCEPT ![c] = NoCall] /\ closed \subseteq Programs
    BY DEF Finish, IInv, TypeOK
  <1>2. tx'[c] = NoCall
    BY <1>1 DEF IInv, TypeOK
  <1>3. CallInv(c)'
    BY <1>2, NoCallType
       DEF CallInv, InPhase, Sizing, Changing, HoldsSeat, HoldsProgram, Idle
  <1>4. QED
    BY <1>1, <1>3, NoCallType, CallStep

\* Moving a call to another phase keeps the rest of its record.
LEMMA AdvanceRecord ==
  ASSUME IInv, NEW c \in Clients, NEW phase \in Phases, Advance(c, phase)
  PROVE  /\ tx' = [tx EXCEPT ![c] = [tx[c] EXCEPT !.phase = phase]]
         /\ [tx[c] EXCEPT !.phase = phase] \in Call
         /\ tx'[c].phase = phase /\ tx'[c].user = tx[c].user /\ tx'[c].to = tx[c].to
         /\ tx'[c].from = tx[c].from /\ tx'[c].used = tx[c].used
         /\ \A d \in Clients \ {c} : tx'[d] = tx[d]
         /\ IsUpgrade(c)' = IsUpgrade(c)
  BY DEF Advance, IInv, TypeOK, Call, IsUpgrade

LEMMA AdvanceStep ==
  ASSUME IInv, NEW c \in Clients, NEW phase \in Phases, Advance(c, phase),
         UNCHANGED tables, CallInv(c)'
  PROVE  IInv'
  <1>. DEFINE call == [tx[c] EXCEPT !.phase = phase]
  <1>1. tx' = [tx EXCEPT ![c] = call] /\ call \in Call
    BY AdvanceRecord
  <1>2. /\ used' = used /\ seat' = seat /\ badge' = badge /\ closed' = closed
        /\ closed \subseteq Programs /\ outbox' \subseteq Events
    BY DEF tables, IInv, TypeOK
  <1>. HIDE DEF call
  <1>3. QED
    BY <1>1, <1>2, CallStep

-------------------------------------------------------------------------------
(* The steps of a call.                                                    *)

LEMMA BeginStep ==
  ASSUME IInv, NEW c \in Clients, Begin(c)
  PROVE  IInv'
  <1>1. PICK u \in Users, p \in Programs : BeginClaim(c, u, p) \/ BeginUpgrade(c, u, p)
    BY DEF Begin
  <1>2. PICK from \in Programs \cup {NoProgram} :
          /\ tx' = [tx EXCEPT ![c] = Request("begun", u, p, from)]
          /\ from # NoProgram => Price[from] < Price[p]
    <2>1. CASE BeginClaim(c, u, p)
      BY <2>1 DEF BeginClaim
    <2>2. CASE BeginUpgrade(c, u, p)
      <3>1. /\ seat[u] \in Programs /\ Price[seat[u]] < Price[p]
            /\ tx' = [tx EXCEPT ![c] = Request("begun", u, p, seat[u])]
        BY <2>2, FounderAssumption DEF BeginUpgrade, IInv, TypeOK
      <3>2. QED BY <3>1
    <2>3. QED BY <1>1, <2>1, <2>2
  <1>3. /\ used' = used /\ seat' = seat /\ badge' = badge /\ closed' = closed
        /\ closed \subseteq Programs /\ outbox' \subseteq Events
    BY <1>1 DEF BeginClaim, BeginUpgrade, tables, IInv, TypeOK
  <1>4. Request("begun", u, p, from) \in Call
    BY DEF Request, Call, Phases
  <1>5. tx'[c] = Request("begun", u, p, from)
    BY <1>2 DEF IInv, TypeOK
  <1>6. /\ tx'[c].phase = "begun" /\ tx'[c].from = from /\ tx'[c].to = p
    BY <1>5 DEF Request
  <1>7. CallInv(c)'
    BY <1>2, <1>6 DEF CallInv, InPhase, Sizing, Changing, HoldsSeat, HoldsProgram, IsUpgrade
  <1>8. QED
    BY <1>2, <1>3, <1>4, <1>7, CallStep

LEMMA ReadProgramStep ==
  ASSUME IInv, NEW c \in Clients, ReadProgram(c)
  PROVE  IInv'
  <1>1. /\ used' = used /\ seat' = seat /\ badge' = badge /\ closed' = closed
        /\ closed \subseteq Programs /\ outbox' \subseteq Events
        /\ tx[c].phase = "begun" /\ CallInv(c) /\ tx[c] \in Call
    BY DEF ReadProgram, InPhase, tables, IInv, TypeOK
  <1>2. CASE Finish(c)
    BY <1>1, <1>2, FinishStep
  <1>3. CASE Open(tx[c].to) /\ tx' = [tx EXCEPT ![c].phase = "sized", ![c].used = used[tx[c].to]]
    <2>. DEFINE call == [tx[c] EXCEPT !.phase = "sized", !.used = used[tx[c].to]]
    <2>1. used[tx[c].to] \in Int
      BY <1>1 DEF IInv, TypeOK, Call
    <2>2. call \in Call /\ tx' = [tx EXCEPT ![c] = call]
      BY <1>1, <1>3, <2>1 DEF Call, Phases
    <2>3. /\ call.phase = "sized" /\ call.to = tx[c].to /\ call.from = tx[c].from
          /\ call.user = tx[c].user /\ call.used = used[tx[c].to]
      BY <1>1 DEF Call
    <2>4. tx'[c] = call
      BY <2>2 DEF IInv, TypeOK
    <2>. HIDE DEF call
    <2>5. /\ IsUpgrade(c)' = IsUpgrade(c) /\ ~Idle(c)
          /\ ~HoldsSeat(c)' /\ \A p \in Programs : ~HoldsProgram(c, p)'
          /\ ~InPhase(c, Changing)' /\ ~InPhase(c, {"counted", "seated"})'
          /\ ~InPhase(c, {"seated"})' /\ ~InPhase(c, {"committed"})'
      BY <1>1, <2>3, <2>4
         DEF IsUpgrade, Idle, HoldsSeat, HoldsProgram, InPhase, Changing, Sizing
    <2>6. /\ IsUpgrade(c) => Price[call.from] < Price[call.to]
          /\ call.used < Total[call.to] /\ used[call.to] >= call.used
      BY <1>1, <1>3, <2>1, <2>3, <2>5 DEF CallInv, Open
    <2>7. CallInv(c)'
      BY <1>1, <2>4, <2>5, <2>6 DEF CallInv
    <2>8. QED
      BY <1>1, <2>2, <2>7, CallStep
  <1>4. QED
    BY <1>2, <1>3 DEF ReadProgram

\* What the record of a call in a given phase gives, before and after it advances.
LEMMA AdvanceKnows ==
  ASSUME IInv, NEW c \in Clients, NEW phase \in Changing, Advance(c, phase),
         UNCHANGED tables, InPhase(c, Sizing),
         phase \in {"counted", "seated"} => used[tx[c].to] = tx[c].used,
         IsUpgrade(c) => seat[tx[c].user] = tx[c].from \/ used[tx[c].to] > tx[c].used,
         phase = "seated" /\ ~IsUpgrade(c) => seat[tx[c].user] = NoProgram,
         HoldsSeat(c)' => SeatFree(c),
         \A p \in Programs : HoldsProgram(c, p)' => ProgramFree(c, p)
  PROVE  IInv'
  <1>1. /\ used' = used /\ seat' = seat /\ CallInv(c)
        /\ ~Idle(c) /\ phase \in Phases
    BY DEF tables, IInv, InPhase, Sizing, Changing, Idle, Phases
  <1>2. /\ tx'[c].phase = phase /\ tx'[c].user = tx[c].user /\ tx'[c].to = tx[c].to
        /\ tx'[c].from = tx[c].from /\ tx'[c].used = tx[c].used
        /\ \A d \in Clients \ {c} : tx'[d] = tx[d]
        /\ IsUpgrade(c)' = IsUpgrade(c)
    BY <1>1, AdvanceRecord
  <1>3. SeatFree(c) => SeatFree(c)'
    BY <1>2, SameRecord DEF SeatFree
  <1>4. \A p \in Programs : ProgramFree(c, p) => ProgramFree(c, p)'
    BY <1>2, SameRecord DEF ProgramFree
  <1>5. CallInv(c)'
    BY <1>1, <1>2, <1>3, <1>4 DEF CallInv, InPhase, Sizing, Changing
  <1>6. QED
    BY <1>1, <1>5, AdvanceStep

LEMMA ReadSeatStep ==
  ASSUME IInv, NEW c \in Clients, ReadSeat(c)
  PROVE  IInv'
  <1>1. /\ used' = used /\ seat' = seat /\ badge' = badge /\ closed' = closed
        /\ outbox' \subseteq Events /\ UNCHANGED tables /\ InPhase(c, Sizing)
        /\ tx[c].phase = "sized"
    BY DEF ReadSeat, InPhase, Sizing, tables, IInv, TypeOK
  <1>2. CASE Finish(c)
    BY <1>1, <1>2, FinishStep
  <1>3. CASE seat[tx[c].user] = tx[c].from /\ Advance(c, "checked")
    <2>1. tx'[c].phase = "checked"
      BY <1>3, AdvanceRecord DEF Phases
    <2>2. ~HoldsSeat(c)' /\ \A p \in Programs : ~HoldsProgram(c, p)'
      BY <2>1 DEF HoldsSeat, HoldsProgram, InPhase
    <2>3. QED
      BY <1>1, <1>3, <2>2, AdvanceKnows DEF Changing, Sizing
  <1>4. QED
    BY <1>2, <1>3 DEF ReadSeat

\* What a call in one of the later phases already knows.
LEMMA ChangingKnows ==
  ASSUME IInv, NEW c \in Clients, InPhase(c, Changing)
  PROVE  /\ InPhase(c, Sizing)
         /\ IsUpgrade(c) => seat[tx[c].user] = tx[c].from \/ used[tx[c].to] > tx[c].used
         /\ HoldsSeat(c) => SeatFree(c)
         /\ \A p \in Programs : HoldsProgram(c, p) => ProgramFree(c, p)
  BY DEF IInv, CallInv, InPhase, Changing, Sizing

LEMMA RemoveSeatStep ==
  ASSUME IInv, NEW c \in Clients, RemoveSeat(c)
  PROVE  IInv'
  <1>1. /\ used' = used /\ seat' = seat /\ badge' = badge /\ closed' = closed
        /\ outbox' \subseteq Events /\ UNCHANGED tables /\ InPhase(c, Changing)
        /\ IsUpgrade(c) /\ SeatFree(c)
    BY DEF RemoveSeat, InPhase, Changing, Sizing, tables, IInv, TypeOK
  <1>2. CASE Finish(c)
    BY <1>1, <1>2, FinishStep
  <1>3. CASE Advance(c, "removed")
    <2>1. tx'[c].phase = "removed"
      BY <1>3, AdvanceRecord DEF Phases
    <2>2. \A p \in Programs : ~HoldsProgram(c, p)'
      BY <2>1 DEF HoldsProgram, InPhase
    <2>3. QED
      BY <1>1, <1>3, <2>2, ChangingKnows, AdvanceKnows DEF Changing, Sizing
  <1>4. QED
    BY <1>2, <1>3 DEF RemoveSeat

LEMMA LeaveProgramStep ==
  ASSUME IInv, NEW c \in Clients, LeaveProgram(c)
  PROVE  IInv'
  <1>1. /\ UNCHANGED tables /\ InPhase(c, Changing) /\ tx[c].phase = "removed"
        /\ ProgramFree(c, tx[c].from) /\ Advance(c, "left")
    BY DEF LeaveProgram, InPhase, Changing, Sizing
  <1>2. /\ tx'[c].phase = "left" /\ tx'[c].from = tx[c].from
        /\ IsUpgrade(c)' = IsUpgrade(c)
    BY <1>1, AdvanceRecord DEF Phases
  <1>3. HoldsSeat(c)' => SeatFree(c)
    <2>1. HoldsSeat(c)' => HoldsSeat(c)
      BY <1>1, <1>2 DEF HoldsSeat, InPhase
    <2>2. QED
      BY <1>1, <2>1, ChangingKnows
  <1>4. \A p \in Programs : HoldsProgram(c, p)' => ProgramFree(c, p)
    BY <1>1, <1>2 DEF HoldsProgram, InPhase
  <1>5. QED
    BY <1>1, <1>3, <1>4, ChangingKnows, AdvanceKnows DEF Changing, Sizing

LEMMA TakePlaceStep ==
  ASSUME IInv, NEW c \in Clients, TakePlace(c)
  PROVE  IInv'
  <1>1. /\ used' = used /\ seat' = seat /\ badge' = badge /\ closed' = closed
        /\ outbox' \subseteq Events /\ UNCHANGED tables /\ InPhase(c, Changing)
        /\ tx[c].phase = IF IsUpgrade(c) THEN "left" ELSE "checked"
        /\ ProgramFree(c, tx[c].to)
    BY DEF TakePlace, InPhase, Changing, Sizing, tables, IInv, TypeOK
  <1>2. CASE Finish(c)
    BY <1>1, <1>2, FinishStep
  <1>3. CASE used[tx[c].to] = tx[c].used /\ Advance(c, "counted")
    <2>1. /\ tx'[c].phase = "counted" /\ tx'[c].from = tx[c].from /\ tx'[c].to = tx[c].to
          /\ IsUpgrade(c)' = IsUpgrade(c)
      BY <1>3, AdvanceRecord DEF Phases
    <2>2. HoldsSeat(c)' => SeatFree(c)
      <3>1. HoldsSeat(c)' => HoldsSeat(c)
        BY <1>1, <2>1 DEF HoldsSeat, InPhase
      <3>2. QED
        BY <1>1, <3>1, ChangingKnows
    <2>3. ASSUME NEW p \in Programs, HoldsProgram(c, p)' PROVE ProgramFree(c, p)
      <3>1. p = tx[c].to \/ p = tx[c].from
        BY <2>1, <2>3 DEF HoldsProgram
      <3>2. CASE p = tx[c].to
        BY <1>1, <3>2
      <3>3. CASE p = tx[c].from
        <4>1. IsUpgrade(c)
          BY <3>3, FounderAssumption DEF IsUpgrade
        <4>2. HoldsProgram(c, p)
          BY <1>1, <3>3, <4>1 DEF HoldsProgram, InPhase
        <4>3. QED
          BY <1>1, <4>2, ChangingKnows
      <3>4. QED BY <3>1, <3>2, <3>3
    <2>4. QED
      BY <1>1, <1>3, <2>2, <2>3, ChangingKnows, AdvanceKnows DEF Changing, Sizing
  <1>4. QED
    BY <1>2, <1>3 DEF TakePlace

LEMMA CreateSeatStep ==
  ASSUME IInv, NEW c \in Clients, CreateSeat(c)
  PROVE  IInv'
  <1>1. /\ used' = used /\ seat' = seat /\ badge' = badge /\ closed' = closed
        /\ outbox' \subseteq Events /\ UNCHANGED tables /\ InPhase(c, Changing)
        /\ tx[c].phase = "counted" /\ SeatFree(c)
    BY DEF CreateSeat, InPhase, Changing, Sizing, tables, IInv, TypeOK
  <1>2. CASE Finish(c)
    BY <1>1, <1>2, FinishStep
  <1>3. CASE Advance(c, "seated") /\ (IsUpgrade(c) \/ seat[tx[c].user] = NoProgram)
    <2>1. /\ tx'[c].phase = "seated" /\ tx'[c].from = tx[c].from /\ tx'[c].to = tx[c].to
      BY <1>3, AdvanceRecord DEF Phases
    <2>2. ASSUME NEW p \in Programs, HoldsProgram(c, p)' PROVE ProgramFree(c, p)
      <3>1. HoldsProgram(c, p)
        BY <1>1, <2>1, <2>2 DEF HoldsProgram, InPhase
      <3>2. QED
        BY <1>1, <3>1, ChangingKnows
    <2>3. used[tx[c].to] = tx[c].used
      BY <1>1 DEF IInv, CallInv, InPhase
    <2>4. QED
      BY <1>1, <1>3, <2>2, <2>3, ChangingKnows, AdvanceKnows DEF Changing, Sizing
  <1>4. QED
    BY <1>2, <1>3 DEF CreateSeat

\* What a committing call does: one user moves from no seat, or from a seat of the
\* program the call leaves, to a seat of a program that has room.
LEMMA CommitFacts ==
  ASSUME IInv, NEW c \in Clients, Commit(c)
  PROVE  \E u \in Users, p \in Programs, old \in Programs \cup {NoProgram} :
           /\ u = tx[c].user /\ p = tx[c].to /\ old = tx[c].from /\ seat[u] = old /\ old # p
           /\ old # NoProgram => Price[old] < Price[p]
           /\ used[p] < Total[p]
           /\ used' = [q \in Programs |-> CASE q = p   -> used[q] + 1
                                            [] q = old -> used[q] - 1
                                            [] OTHER   -> used[q]]
           /\ closed' = IF used[p] + 1 >= Total[p] THEN closed \cup {p} ELSE closed
           /\ seat' = [seat EXCEPT ![u] = p] /\ badge' = [badge EXCEPT ![u] = p]
           /\ Advance(c, "committed") /\ outbox' = outbox
           /\ HoldsSeat(c) /\ HoldsProgram(c, p)
           /\ old \in Programs => HoldsProgram(c, old)
  <1>. DEFINE u == tx[c].user
              p == tx[c].to
              old == tx[c].from
  <1>1. /\ tx[c] \in Call /\ tx[c].phase = "seated" /\ CallInv(c)
        /\ ~Idle(c) /\ InPhase(c, Sizing) /\ InPhase(c, Changing)
        /\ InPhase(c, {"counted", "seated"}) /\ InPhase(c, {"seated"})
        /\ HoldsSeat(c) /\ HoldsProgram(c, p) /\ HoldsProgram(c, old)
    BY DEF Commit, InPhase, Sizing, Changing, HoldsSeat, HoldsProgram, Idle, IInv, TypeOK
  <1>2. u \in Users /\ p \in Programs /\ old \in Programs \cup {NoProgram}
    BY <1>1 DEF Call
  <1>3. used[p] = tx[c].used /\ tx[c].used < Total[p] /\ used[p] \in Int
    BY <1>1, <1>2 DEF CallInv, IInv, TypeOK
  <1>4. CASE IsUpgrade(c)
    <2>1. old \in Programs /\ Price[old] < Price[p]
      BY <1>1, <1>2, <1>4 DEF CallInv, IsUpgrade
    <2>2. old # p
      BY <1>2, <2>1, UpgradeGoesToTop
    <2>3. seat[u] = old
      BY <1>1, <1>3, <1>4 DEF CallInv
    <2>4. QED
      BY <1>1, <1>2, <1>3, <2>1, <2>2, <2>3 DEF Commit
  <1>5. CASE ~IsUpgrade(c)
    <2>1. old = NoProgram /\ seat[u] = NoProgram
      BY <1>1, <1>5 DEF CallInv, IsUpgrade
    <2>2. old # p
      BY <1>2, <2>1, FounderAssumption
    <2>3. QED
      BY <1>1, <1>2, <1>3, <2>1, <2>2, FounderAssumption DEF Commit
  <1>6. QED BY <1>4, <1>5

\* Moving one user between two programs moves one holder.
LEMMA HoldersMove ==
  ASSUME TypeOK, NEW u \in Users, NEW p \in Programs, seat[u] # p,
         seat' = [seat EXCEPT ![u] = p], NEW q \in Programs
  PROVE  /\ q = p => Holders(q)' = Holders(q) \cup {u} /\ u \notin Holders(q)
         /\ q # p /\ q = seat[u] => Holders(q)' = Holders(q) \ {u} /\ u \in Holders(q)
         /\ q # p /\ q # seat[u] => Holders(q)' = Holders(q)
         /\ IsFiniteSet(Holders(q))
  <1>1. IsFiniteSet(Holders(q))
    <2>1. Holders(q) \subseteq Users
      BY DEF Holders
    <2>2. QED
      BY <2>1, FounderAssumption, FS_Subset
  <1>2. QED
    BY <1>1 DEF Holders, TypeOK

LEMMA CommitStep ==
  ASSUME IInv, NEW c \in Clients, Commit(c)
  PROVE  IInv'
  <1>1. PICK u \in Users, p \in Programs, old \in Programs \cup {NoProgram} :
           /\ u = tx[c].user /\ p = tx[c].to /\ old = tx[c].from /\ seat[u] = old /\ old # p
           /\ old # NoProgram => Price[old] < Price[p]
           /\ used[p] < Total[p]
           /\ used' = [q \in Programs |-> CASE q = p   -> used[q] + 1
                                            [] q = old -> used[q] - 1
                                            [] OTHER   -> used[q]]
           /\ closed' = IF used[p] + 1 >= Total[p] THEN closed \cup {p} ELSE closed
           /\ seat' = [seat EXCEPT ![u] = p] /\ badge' = [badge EXCEPT ![u] = p]
           /\ Advance(c, "committed") /\ outbox' = outbox
           /\ HoldsSeat(c) /\ HoldsProgram(c, p)
           /\ old \in Programs => HoldsProgram(c, old)
    BY CommitFacts
  <1>2. /\ used \in [Programs -> Int] /\ seat \in [Users -> Programs \cup {NoProgram}]
        /\ tx \in [Clients -> Call] /\ TypeOK /\ Total \in [Programs -> Nat \ {0}]
    BY FounderAssumption DEF IInv, TypeOK
  <1>3. /\ tx' = [tx EXCEPT ![c] = [tx[c] EXCEPT !.phase = "committed"]]
        /\ [tx[c] EXCEPT !.phase = "committed"] \in Call
        /\ tx'[c].phase = "committed" /\ tx'[c].user = u /\ tx'[c].to = p
        /\ tx'[c].from = old
        /\ \A d \in Clients \ {c} : tx'[d] = tx[d]
        /\ IsUpgrade(c)' = IsUpgrade(c)
    BY <1>1, AdvanceRecord DEF Phases
  <1>4. /\ used'[p] = used[p] + 1
        /\ \A q \in Programs \ {p} : used'[q] = IF q = old THEN used[q] - 1 ELSE used[q]
        /\ used' \in [Programs -> Int]
    BY <1>1, <1>2
  <1>5. TypeOK'
    BY <1>1, <1>2, <1>3, <1>4 DEF TypeOK
  <1>6. SeatsCounted'
    <2>0. seat[u] = old /\ seat[u] # p /\ seat' = [seat EXCEPT ![u] = p] /\ TypeOK
      BY <1>1, <1>2
    <2>1. SUFFICES ASSUME NEW q \in Programs PROVE used'[q] = Cardinality(Holders(q)')
      BY DEF SeatsCounted
    <2>2. used[q] = Cardinality(Holders(q)) /\ IsFiniteSet(Holders(q))
      BY <2>0, HoldersMove DEF IInv, SeatsCounted
    <2>3. CASE q = p
      <3>1. Holders(q)' = Holders(q) \cup {u} /\ u \notin Holders(q)
        BY <2>0, <2>3, HoldersMove
      <3>2. Cardinality(Holders(q) \cup {u}) = Cardinality(Holders(q)) + 1
        BY <2>2, <3>1, FS_AddElement
      <3>3. QED
        BY <1>4, <2>2, <2>3, <3>1, <3>2
    <2>4. CASE q # p /\ q = old
      <3>1. Holders(q)' = Holders(q) \ {u} /\ u \in Holders(q)
        BY <2>0, <2>4, HoldersMove
      <3>2. Cardinality(Holders(q) \ {u}) = Cardinality(Holders(q)) - 1
        BY <2>2, <3>1, FS_RemoveElement
      <3>3. QED
        BY <1>4, <2>2, <2>4, <3>1, <3>2
    <2>5. CASE q # p /\ q # old
      <3>1. Holders(q)' = Holders(q)
        BY <2>0, <2>5, HoldersMove
      <3>2. QED
        BY <1>4, <2>2, <2>5, <3>1
    <2>6. QED BY <2>3, <2>4, <2>5
  <1>7. Bounded' /\ FullIsClosed'
    <2>1. ASSUME NEW q \in Programs
          PROVE  used'[q] <= Total[q] /\ (used'[q] = Total[q] => q \in closed')
      <3>1. /\ used[q] <= Total[q]
            /\ used[q] = Total[q] => q \in closed
            /\ used[q] \in Int /\ Total[q] \in Int
        BY <1>2 DEF IInv, Bounded, FullIsClosed
      <3>2. CASE q = p
        BY <1>1, <1>4, <3>1, <3>2
      <3>3. CASE q # p
        <4>1. closed \subseteq closed'
          BY <1>1
        <4>2. used'[q] = used[q] \/ used'[q] = used[q] - 1
          BY <1>4, <3>3
        <4>3. QED
          BY <3>1, <4>1, <4>2
      <3>4. QED BY <3>2, <3>3
    <2>2. QED
      BY <2>1 DEF Bounded, FullIsClosed
  <1>8. ASSUME NEW d \in Clients PROVE CallInv(d)'
    <2>1. CASE d = c
      <3>1. /\ ~HoldsSeat(d)' /\ \A q \in Programs : ~HoldsProgram(d, q)'
            /\ ~InPhase(d, Sizing)' /\ ~InPhase(d, Changing)'
            /\ ~InPhase(d, {"counted", "seated"})' /\ ~InPhase(d, {"seated"})'
        BY <1>3, <2>1 DEF HoldsSeat, HoldsProgram, InPhase, Sizing, Changing
      <3>2. seat'[u] # NoProgram
        BY <1>1, <1>2, FounderAssumption
      <3>3. IsUpgrade(c) => Price[old] < Price[p]
        BY <1>1 DEF IsUpgrade
      <3>4. QED
        BY <1>3, <2>1, <3>1, <3>2, <3>3 DEF CallInv
    <2>2. CASE d # c
      <3>1. CallInv(d) /\ tx'[d] = tx[d] /\ tx[d] \in Call
        BY <1>2, <1>3, <2>2 DEF IInv
      <3>2. tx[d].to \in Programs /\ tx[d].user \in Users /\ tx[d].used \in Int
            /\ tx[d].from \in Programs \cup {NoProgram}
        BY <3>1 DEF Call
      <3>3. \A q \in Programs : HoldsProgram(d, q) => q # p /\ q # old
        <4>1. ASSUME NEW q \in Programs, HoldsProgram(d, q) PROVE ~HoldsProgram(c, q)
          BY <2>2, <3>1, <4>1 DEF CallInv, ProgramFree
        <4>2. QED BY <1>1, <4>1
      <3>4. HoldsSeat(d) => tx[d].user # u
        BY <1>1, <2>2, <3>1 DEF CallInv, SeatFree
      <3>5. InPhase(d, {"counted", "seated"}) => used'[tx[d].to] = tx[d].used
        <4>1. InPhase(d, {"counted", "seated"}) => HoldsProgram(d, tx[d].to)
          BY DEF HoldsProgram
        <4>2. QED
          BY <1>4, <3>1, <3>2, <3>3, <4>1 DEF CallInv
      <3>6. IsUpgrade(d) /\ ~Idle(d) =>
              /\ Price[tx[d].from] < Price[tx[d].to] /\ tx[d].from \in Programs
              /\ tx[d].to # old
              /\ old # NoProgram => p = tx[d].to
        <4>1. SUFFICES ASSUME IsUpgrade(d), ~Idle(d)
                       PROVE  /\ Price[tx[d].from] < Price[tx[d].to] /\ tx[d].from \in Programs
                              /\ tx[d].to # old
                              /\ old # NoProgram => p = tx[d].to
          OBVIOUS
        <4>2. Price[tx[d].from] < Price[tx[d].to] /\ tx[d].from \in Programs
          BY <3>1, <3>2, <4>1 DEF CallInv, IsUpgrade
        <4>3. CASE old = NoProgram
          BY <3>2, <4>2, <4>3, FounderAssumption
        <4>4. CASE old # NoProgram
          <5>1. Price[old] < Price[p] /\ old \in Programs
            BY <1>1, <4>4
          <5>2. QED
            BY <3>2, <4>2, <5>1, UpgradeGoesToTop
        <4>5. QED BY <4>3, <4>4
      <3>7. InPhase(d, Sizing) \/ InPhase(d, Changing) => ~Idle(d)
        BY DEF InPhase, Idle, Sizing, Changing
      <3>8. IsUpgrade(d) /\ ~Idle(d) => used'[tx[d].to] >= used[tx[d].to]
        BY <1>2, <1>4, <3>2, <3>6
      <3>9. InPhase(d, Sizing) /\ IsUpgrade(d) => used'[tx[d].to] >= tx[d].used
        BY <1>2, <1>4, <3>1, <3>2, <3>7, <3>8 DEF CallInv
      <3>10. InPhase(d, Changing) /\ IsUpgrade(d) =>
               seat'[tx[d].user] = tx[d].from \/ used'[tx[d].to] > tx[d].used
        <4>1. SUFFICES ASSUME InPhase(d, Changing), IsUpgrade(d),
                              seat'[tx[d].user] # tx[d].from
                       PROVE  used'[tx[d].to] > tx[d].used
          OBVIOUS
        <4>2. /\ seat[tx[d].user] = tx[d].from \/ used[tx[d].to] > tx[d].used
              /\ used[tx[d].to] >= tx[d].used /\ InPhase(d, Sizing)
          BY <3>1, <4>1 DEF CallInv, InPhase, Sizing, Changing
        <4>3. CASE used[tx[d].to] > tx[d].used
          BY <1>2, <1>4, <3>2, <3>7, <3>8, <4>1, <4>3
        <4>4. CASE seat[tx[d].user] = tx[d].from
          <5>1. tx[d].user = u
            BY <1>1, <1>2, <3>2, <4>1, <4>4
          <5>2. old # NoProgram
            BY <1>1, <4>1, <4>4, <5>1 DEF IsUpgrade
          <5>3. tx[d].to = p
            BY <3>6, <3>7, <4>1, <5>2
          <5>4. QED
            BY <1>2, <1>4, <3>2, <4>2, <5>3
        <4>5. QED BY <4>2, <4>3, <4>4
      <3>11. InPhase(d, {"seated"}) /\ ~IsUpgrade(d) => seat'[tx[d].user] = NoProgram
        <4>1. InPhase(d, {"seated"}) /\ ~IsUpgrade(d) => HoldsSeat(d)
          BY DEF HoldsSeat
        <4>2. QED
          BY <1>1, <1>2, <3>1, <3>2, <3>4, <4>1 DEF CallInv
      <3>12. InPhase(d, {"committed"}) => seat'[tx[d].user] # NoProgram
        BY <1>1, <1>2, <3>1, <3>2, FounderAssumption DEF CallInv
      <3>13. ASSUME NEW e \in Clients
             PROVE  /\ HoldsSeat(e)' => HoldsSeat(e) /\ tx'[e].user = tx[e].user
                    /\ \A q \in Programs : HoldsProgram(e, q)' => HoldsProgram(e, q)
        <4>1. CASE e = c
          BY <1>3, <4>1 DEF HoldsSeat, HoldsProgram, InPhase
        <4>2. CASE e # c
          BY <1>3, <4>2, SameRecord
        <4>3. QED BY <4>1, <4>2
      <3>14. HoldsSeat(d)' => SeatFree(d)'
        BY <3>1, <3>13 DEF CallInv, SeatFree
      <3>15. \A q \in Programs : HoldsProgram(d, q)' => ProgramFree(d, q)'
        BY <3>1, <3>13 DEF CallInv, ProgramFree
      <3>16. /\ Idle(d)' = Idle(d) /\ IsUpgrade(d)' = IsUpgrade(d)
             /\ \A phases : InPhase(d, phases)' = InPhase(d, phases)
        BY <3>1, SameRecord
      <3>17. QED
        BY <3>1, <3>5, <3>9, <3>10, <3>11, <3>12, <3>14, <3>15, <3>16 DEF CallInv
    <2>3. QED BY <2>1, <2>2
  <1>9. QED
    BY <1>5, <1>6, <1>7, <1>8 DEF IInv

LEMMA AnnounceStep ==
  ASSUME IInv, NEW c \in Clients, Announce(c)
  PROVE  IInv'
  <1>1. Announcements(c) \subseteq Events
    BY DEF Announcements, Events, IInv, TypeOK, Call
  <1>2. outbox' \subseteq Events
    BY <1>1 DEF Announce, IInv, TypeOK
  <1>3. QED
    BY <1>2, FinishStep DEF Announce

LEMMA CloseProgramStep ==
  ASSUME IInv, NEW p \in Programs, CloseProgram(p)
  PROVE  IInv'
  <1>1. /\ used' = used /\ seat' = seat /\ badge' = badge /\ tx' = tx
        /\ closed' = closed \cup {p}
        /\ outbox' \subseteq outbox \cup {<<"program_closed", p>>}
    BY DEF CloseProgram
  <1>2. <<"program_closed", p>> \in Events
    BY DEF Events
  <1>3. TypeOK'
    BY <1>1, <1>2 DEF IInv, TypeOK
  <1>4. SeatsCounted' /\ Bounded' /\ FullIsClosed'
    BY <1>1 DEF IInv, SeatsCounted, Holders, Bounded, FullIsClosed
  <1>5. ASSUME NEW c \in Clients PROVE CallInv(c)'
    BY <1>1 DEF IInv, CallInv, Idle, IsUpgrade, InPhase, HoldsSeat, SeatFree,
       HoldsProgram, ProgramFree
  <1>6. QED
    BY <1>3, <1>4, <1>5 DEF IInv

-------------------------------------------------------------------------------
LEMMA InitIInv == Init => IInv
  <1> SUFFICES ASSUME Init PROVE IInv
    OBVIOUS
  <1>1. \A p \in Programs : used[p] = 0 /\ Total[p] \in Nat \ {0} /\ Holders(p) = {}
    BY FounderAssumption DEF Init, Holders
  <1>2. TypeOK
    BY NoCallType DEF Init, TypeOK
  <1>3. SeatsCounted /\ Bounded /\ FullIsClosed
    BY <1>1, FS_EmptySet DEF SeatsCounted, Bounded, FullIsClosed
  <1>4. ASSUME NEW c \in Clients PROVE CallInv(c)
    <2>1. tx[c] = NoCall
      BY DEF Init
    <2>2. QED
      BY <2>1, NoCallType
         DEF CallInv, InPhase, Sizing, Changing, HoldsSeat, HoldsProgram, Idle
  <1>5. QED
    BY <1>2, <1>3, <1>4 DEF IInv

LEMMA NextIInv == IInv /\ [Next]_vars => IInv'
  <1> SUFFICES ASSUME IInv, [Next]_vars PROVE IInv'
    OBVIOUS
  <1>1. ASSUME NEW c \in Clients, Begin(c) PROVE IInv'
    BY <1>1, BeginStep
  <1>2. ASSUME NEW c \in Clients, Progress(c) PROVE IInv'
    BY <1>2, ReadProgramStep, ReadSeatStep, RemoveSeatStep, LeaveProgramStep,
       TakePlaceStep, CreateSeatStep, CommitStep, AnnounceStep DEF Progress
  <1>3. ASSUME NEW c \in Clients, Fail(c) PROVE IInv'
    BY <1>3, FinishStep DEF Fail, tables, IInv, TypeOK
  <1>4. ASSUME NEW p \in Programs, CloseProgram(p) PROVE IInv'
    BY <1>4, CloseProgramStep
  <1>5. CASE UNCHANGED vars
    BY <1>5 DEF vars, IInv, TypeOK, SeatsCounted, Holders, Bounded, FullIsClosed, CallInv,
       Idle, IsUpgrade, InPhase, HoldsSeat, SeatFree, HoldsProgram, ProgramFree
  <1>6. QED
    BY <1>1, <1>2, <1>3, <1>4, <1>5 DEF Next

LEMMA SpecIInv == Spec => []IInv
  BY InitIInv, NextIInv, PTL DEF Spec

\* Type correctness.
THEOREM FounderTypeCorrect == Spec => []TypeOK
  <1>1. IInv => TypeOK
    BY DEF IInv
  <1>2. QED
    BY <1>1, SpecIInv, PTL

\* The counter of a program is always the number of its seats.
THEOREM FounderSeatsCounted == Spec => []SeatsCounted
  <1>1. IInv => SeatsCounted
    BY DEF IInv
  <1>2. QED
    BY <1>1, SpecIInv, PTL

\* No program is oversold: two calls that both read the last free seat never both
\* take it.
THEOREM FounderNoOversell == Spec => []NoOversell
  <1>1. IInv => NoOversell
    BY DEF IInv, SeatsCounted, Bounded, NoOversell
  <1>2. QED
    BY <1>1, SpecIInv, PTL

\* A program whose seats are all taken is closed.
THEOREM FounderFullIsClosed == Spec => []FullIsClosed
  <1>1. IInv => FullIsClosed
    BY DEF IInv
  <1>2. QED
    BY <1>1, SpecIInv, PTL

\* The book of seats is right: the three facts above, together.
THEOREM FounderSeatBook == Spec => []SeatBook
  <1>1. SeatsCounted /\ NoOversell /\ FullIsClosed => SeatBook
    BY DEF SeatBook
  <1>2. QED
    BY <1>1, FounderSeatsCounted, FounderNoOversell, FounderFullIsClosed, PTL

\* Only a commit changes seats and counters.
LEMMA OthersKeepSeats ==
  ASSUME [Next]_vars, \A c \in Clients : ~Commit(c)
  PROVE  seat' = seat /\ badge' = badge /\ used' = used
  BY DEF Next, Begin, BeginClaim, BeginUpgrade, Progress, ReadProgram, ReadSeat, RemoveSeat,
     LeaveProgram, TakePlace, CreateSeat, Announce, Fail, CloseProgram, tables, vars

\* A committing call moves its user up from no seat or from a cheaper one, into a
\* program with room.
LEMMA CommitMovesUp ==
  ASSUME IInv, NEW c \in Clients, Commit(c)
  PROVE  \E u \in Users, p \in Programs :
           /\ seat' = [seat EXCEPT ![u] = p] /\ badge' = [badge EXCEPT ![u] = p]
           /\ seat[u] # NoProgram => seat[u] \in Programs /\ Price[seat[u]] < Price[p]
           /\ Cardinality(Holders(p)) < Total[p]
  BY CommitFacts DEF IInv, TypeOK, SeatsCounted

\* A founder keeps a seat for ever, and only moves to a dearer program: a failed or
\* interrupted upgrade never costs the seat it deletes.
THEOREM FounderSeatNeverLost == Spec => SeatNeverLost
  <1>1. IInv /\ [Next]_vars =>
          [\A u \in Users : seat[u] # NoProgram /\ seat'[u] # seat[u] =>
             seat'[u] # NoProgram /\ Price[seat'[u]] > Price[seat[u]]]_vars
    <2>1. SUFFICES ASSUME IInv, [Next]_vars, NEW v \in Users,
                          seat[v] # NoProgram, seat'[v] # seat[v]
                   PROVE  seat'[v] # NoProgram /\ Price[seat'[v]] > Price[seat[v]]
      OBVIOUS
    <2>2. PICK c \in Clients : Commit(c)
      BY <2>1, OthersKeepSeats
    <2>3. PICK u \in Users, p \in Programs :
            /\ seat' = [seat EXCEPT ![u] = p]
            /\ seat[u] # NoProgram => seat[u] \in Programs /\ Price[seat[u]] < Price[p]
      BY <2>1, <2>2, CommitMovesUp
    <2>4. v = u /\ seat'[v] = p
      BY <2>1, <2>3 DEF IInv, TypeOK
    <2>5. QED
      BY <2>1, <2>3, <2>4, FounderAssumption
  <1>2. QED
    BY <1>1, SpecIInv, PTL DEF Spec, SeatNeverLost

\* Read as one step each, the calls are an indivisible sale.
THEOREM FounderImplementsSale == Spec => ImplementsSale
  <1>1. Init => Sale!SaleInit
    BY DEF Init, Sale!SaleInit
  <1>2. IInv /\ [Next]_vars => [Sale!SaleNext]_seat
    <2>1. SUFFICES ASSUME IInv, [Next]_vars, seat' # seat PROVE Sale!SaleNext
      OBVIOUS
    <2>2. PICK c \in Clients : Commit(c)
      BY <2>1, OthersKeepSeats
    <2>3. PICK u \in Users, p \in Programs :
            /\ seat' = [seat EXCEPT ![u] = p]
            /\ seat[u] # NoProgram => seat[u] \in Programs /\ Price[seat[u]] < Price[p]
            /\ Cardinality(Holders(p)) < Total[p]
      BY <2>1, <2>2, CommitMovesUp
    <2>4. Sale!HasRoom(p)
      <3>1. Sale!HoldersOf(p) = Holders(p)
        BY DEF Sale!HoldersOf, Holders
      <3>2. QED
        BY <2>3, <3>1 DEF Sale!HasRoom, Sale!Cardinality, Cardinality
    <2>5. Sale!Sell(u, p) \/ Sale!Exchange(u, p)
      BY <2>3, <2>4 DEF Sale!Sell, Sale!Exchange
    <2>6. QED
      BY <2>5 DEF Sale!SaleNext
  <1>3. QED
    BY <1>1, <1>2, SpecIInv, PTL DEF Spec, ImplementsSale, Sale!SaleSpec

-------------------------------------------------------------------------------
\* The events: badges equal seats, and what is announced stays true.
EventsInv == badge = seat /\ AnnouncedIsTrue

LEMMA NextEventsInv == IInv /\ EventsInv /\ [Next]_vars => EventsInv'
  <1> SUFFICES ASSUME IInv, EventsInv, [Next]_vars PROVE EventsInv'
    OBVIOUS
  <1>1. ASSUME NEW c \in Clients, Commit(c) PROVE EventsInv'
    <2>1. PICK u \in Users, p \in Programs :
            seat' = [seat EXCEPT ![u] = p] /\ badge' = [badge EXCEPT ![u] = p]
      BY <1>1, CommitMovesUp
    <2>2. outbox' = outbox /\ closed \subseteq closed'
      BY <1>1 DEF Commit
    <2>3. \A v \in Users : seat[v] # NoProgram => seat'[v] # NoProgram
      BY <2>1, FounderAssumption DEF IInv, TypeOK
    <2>4. QED
      BY <2>1, <2>2, <2>3 DEF EventsInv, AnnouncedIsTrue
  <1>2. ASSUME \A c \in Clients : ~Commit(c) PROVE EventsInv'
    <2>1. seat' = seat /\ badge' = badge /\ closed \subseteq closed'
      <3>1. closed \subseteq closed'
        BY <1>2 DEF Next, Begin, BeginClaim, BeginUpgrade, Progress, ReadProgram, ReadSeat,
           RemoveSeat, LeaveProgram, TakePlace, CreateSeat, Announce, Fail, CloseProgram,
           tables, vars
      <3>2. QED
        BY <1>2, <3>1, OthersKeepSeats
    <2>2. CASE outbox' = outbox
      BY <2>1, <2>2 DEF EventsInv, AnnouncedIsTrue
    <2>3. CASE \E p \in Programs : CloseProgram(p)
      BY <2>1, <2>3 DEF CloseProgram, EventsInv, AnnouncedIsTrue
    <2>4. ASSUME NEW c \in Clients, Announce(c) PROVE EventsInv'
      <3>1. /\ tx[c].user \in Users /\ tx[c].to \in Programs
            /\ seat[tx[c].user] # NoProgram
        BY <2>4 DEF Announce, IInv, TypeOK, Call, CallInv, InPhase
      <3>2. used[tx[c].to] >= Total[tx[c].to] => tx[c].to \in closed
        BY <3>1, FounderAssumption DEF IInv, TypeOK, Bounded, FullIsClosed
      <3>3. outbox' \subseteq outbox \cup Announcements(c)
        BY <2>4 DEF Announce
      <3>4. /\ \A v \in Users : <<"seat_claimed", v>> \in Announcements(c) => v = tx[c].user
            /\ \A p \in Programs : <<"program_closed", p>> \in Announcements(c) =>
                 p = tx[c].to /\ used[p] >= Total[p]
        BY DEF Announcements
      <3>5. QED
        BY <2>1, <3>1, <3>2, <3>3, <3>4 DEF EventsInv, AnnouncedIsTrue
    <2>5. QED
      BY <1>2, <2>2, <2>3, <2>4 DEF Next, Begin, BeginClaim, BeginUpgrade, Progress,
         ReadProgram, ReadSeat, RemoveSeat, LeaveProgram, TakePlace, CreateSeat, Fail,
         tables, vars
  <1>3. QED
    BY <1>1, <1>2

\* No event announces a seat or a closing that did not happen.
THEOREM FounderAnnouncedIsTrue == Spec => []AnnouncedIsTrue
  <1>1. Init => EventsInv
    BY DEF Init, EventsInv, AnnouncedIsTrue
  <1>2. EventsInv => AnnouncedIsTrue
    BY DEF EventsInv
  <1>3. QED
    BY <1>1, <1>2, SpecIInv, NextEventsInv, PTL DEF Spec
===============================================================================
