------------------------------ MODULE MCPromotions ------------------------------
(* Model-checking instances of Promotions.                                 *)
EXTENDS Promotions, TLC

OneOwner == [kind \in Kinds |-> CHOOSE u \in Users : TRUE]
Symmetry == Permutations(Clients) \cup Permutations(Kinds) \cup Permutations(Campaigns)
===============================================================================
