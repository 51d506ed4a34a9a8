---------------------------- MODULE MCSubscriptions ----------------------------
(* Model-checking instances of Subscriptions.                              *)
EXTENDS Subscriptions, TLC

Symmetry == Permutations(Clients)
===============================================================================
