-------------------------------- MODULE MCAuth --------------------------------
(* A model-checking instance of Auth.                                      *)
EXTENDS Auth, TLC

Symmetry == Permutations(Users) \cup Permutations(Callers) \cup Permutations(SessionIds)
            \cup Permutations(ResetIds) \cup Permutations(AttemptIds)
===============================================================================
