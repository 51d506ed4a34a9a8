------------------------------- MODULE MCWallet -------------------------------
(* Model-checking instances of Wallet.                                     *)
EXTENDS Wallet, TLC

\* Clients are interchangeable; users are not (NoCall chooses one).
Symmetry == Permutations(Clients)
===============================================================================
