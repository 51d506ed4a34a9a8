------------------------------- MODULE SeatSale -------------------------------
(***************************************************************************)
(* What the founder programs promise: a limited number of seats, at most   *)
(* one per user, sold or exchanged for a dearer one in one indivisible     *)
(* step, never beyond the number of seats and never taken back.            *)
(***************************************************************************)
EXTENDS Integers, FiniteSets

CONSTANTS Users, Programs, NoProgram, Price, Total

VARIABLE holder  \* [Users -> Programs \cup {NoProgram}]

HoldersOf(p) == {u \in Users : holder[u] = p}
HasRoom(p) == Cardinality(HoldersOf(p)) < Total[p]

SaleInit == holder = [u \in Users |-> NoProgram]

Sell(u, p) ==
  /\ holder[u] = NoProgram
  /\ HasRoom(p)
  /\ holder' = [holder EXCEPT ![u] = p]

Exchange(u, p) ==
  /\ holder[u] \in Programs
  /\ Price[holder[u]] < Price[p]
  /\ HasRoom(p)
  /\ holder' = [holder EXCEPT ![u] = p]

SaleNext == \E u \in Users, p \in Programs : Sell(u, p) \/ Exchange(u, p)

SaleSpec == SaleInit /\ [][SaleNext]_holder
===============================================================================
