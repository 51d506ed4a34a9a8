----------------------------- MODULE CreditLedger -----------------------------
(***************************************************************************)
(* What the wallet promises its callers (promotions, payments, the admin): *)
(* a per-user statement of signed amounts, each posted in one indivisible  *)
(* step against the balance the previous posting left, an idempotency key  *)
(* posted at most once, and a balance that never goes below zero.  There   *)
(* are no rows, versions, locks or transactions here: Wallet has those,    *)
(* and is shown to implement this module.                                  *)
(***************************************************************************)
EXTENDS Integers, Sequences

CONSTANTS Users, Keys, NoKey, Deltas  \* Deltas: the signed amounts posted

VARIABLES
  balance,    \* [Users -> Int], the credits a user can spend
  statement,  \* [Users -> Seq(Int)], the signed amounts posted so far
  posted      \* the idempotency keys already spent

ledgerVars == <<balance, statement, posted>>

LedgerInit ==
  /\ balance = [u \in Users |-> 0]
  /\ statement = [u \in Users |-> << >>]
  /\ posted = {}

Post(u, delta, key) ==
  /\ balance[u] + delta >= 0
  /\ key \notin posted
  /\ balance' = [balance EXCEPT ![u] = @ + delta]
  /\ statement' = [statement EXCEPT ![u] = Append(@, delta)]
  /\ posted' = IF key = NoKey THEN posted ELSE posted \cup {key}

LedgerNext ==
  \E u \in Users, delta \in Deltas, key \in Keys \cup {NoKey} : Post(u, delta, key)

LedgerSpec == LedgerInit /\ [][LedgerNext]_ledgerVars
===============================================================================
