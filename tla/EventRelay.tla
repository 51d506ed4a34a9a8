------------------------------- MODULE EventRelay -------------------------------
(***************************************************************************)
(* What the outbox promises: an event that has been accepted is handed to  *)
(* the subscribers at least once before it counts as done, and is dropped  *)
(* only after more than MaxRetries attempts at it went wrong.              *)
(***************************************************************************)
EXTENDS Naturals

CONSTANTS Events, MaxRetries

VARIABLES
  state,      \* [Events -> {"none", "waiting", "done", "dropped"}]
  delivered,  \* events handed to the subscribers
  refused     \* [Events -> Nat], attempts that went wrong

vars == <<state, delivered, refused>>

Init ==
  /\ state = [e \in Events |-> "none"]
  /\ delivered = {}
  /\ refused = [e \in Events |-> 0]

Accept(e) ==
  /\ state[e] = "none"
  /\ state' = [state EXCEPT ![e] = "waiting"]
  /\ UNCHANGED <<delivered, refused>>

Deliver(e) ==
  /\ state[e] # "none"
  /\ delivered' = delivered \cup {e}
  /\ UNCHANGED <<state, refused>>

Finish(e) ==
  /\ state[e] # "none" /\ e \in delivered
  /\ state' = [state EXCEPT ![e] = "done"]
  /\ UNCHANGED <<delivered, refused>>

\* An attempt went wrong: the event waits again, or is dropped.
Refuse(e) ==
  /\ state[e] # "none"
  /\ refused' = [refused EXCEPT ![e] = @ + 1]
  /\ \/ state' = [state EXCEPT ![e] = "waiting"]
     \/ refused[e] + 1 > MaxRetries /\ state' = [state EXCEPT ![e] = "dropped"]
  /\ UNCHANGED delivered

Next == \E e \in Events : Accept(e) \/ Deliver(e) \/ Finish(e) \/ Refuse(e)

Spec == Init /\ [][Next]_vars
===============================================================================
