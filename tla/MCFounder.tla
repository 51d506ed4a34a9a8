------------------------------- MODULE MCFounder -------------------------------
(* Model-checking instances of Founder: the two seeded programs, the dearer *)
(* one with fewer seats.                                                    *)
EXTENDS Founder, TLC

CONSTANTS Pro, Master

MCPrograms == {Pro, Master}
MCPrice == Pro :> 1 @@ Master :> 2
MCTotal == Pro :> 2 @@ Master :> 1
Single == Pro :> 1 @@ Master :> 1

\* Clients are interchangeable; users and programs are not (NoCall chooses one).
Symmetry == Permutations(Clients)
===============================================================================
