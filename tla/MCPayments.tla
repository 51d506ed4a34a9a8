------------------------------ MODULE MCPayments ------------------------------
(* Model-checking instances of Payments.                                   *)
EXTENDS Payments
===============================================================================
