-------------------------------- MODULE Wallet --------------------------------
(***************************************************************************)
(* The credit wallet (src/src/wallet): one row per user holding purchased  *)
(* and bonus credits and a version, an append-only ledger of wallet        *)
(* transactions, and the service calls that change them.                   *)
(*                                                                         *)
(* Every call is an interactive database transaction of several awaited    *)
(* statements run at READ COMMITTED, so calls of different clients         *)
(* interleave between statements.  A client runs one call at a time:       *)
(*                                                                         *)
(*   idle -Begin-> begun -Lookup-> keyed -ReadWallet-> read                *)
(*        -WriteRow-> written -PublishEvent-> published -Commit-> idle     *)
(*                                                                         *)
(* and may fail anywhere.  From WriteRow to the end the client holds the   *)
(* row lock of the wallet; what it wrote is invisible until Commit.        *)
(***************************************************************************)
EXTENDS Integers, Sequences

CONSTANTS
  Users,
  Clients,      \* concurrent service calls
  Keys, NoKey,  \* idempotency keys; NoKey: the caller passed none
  Amounts,      \* positive credit amounts callers ask for
  MaxLedger,    \* bound: no call starts on a ledger this long
  MaxOutbox     \* bound: outbox rows kept per wallet

ASSUME WalletAssumption ==
  /\ Users # {}
  /\ Amounts \subseteq Nat \ {0}
  /\ NoKey \notin Keys
  /\ MaxLedger \in Nat
  /\ MaxOutbox \in Nat

VARIABLES
  wallet,   \* [Users -> Row], the wallets table; version 0: no row yet
  ledger,   \* [Users -> Seq(Entry)], the wallet_transactions of each wallet
  outbox,   \* [Users -> Nat], wallet events in outbox_events, per wallet
  tx        \* [Clients -> Call], the call each client is running

vars == <<wallet, ledger, outbox, tx>>

\* "bonus" is a credit whose source is 'bonus' or 'admin_adjustment'.
Ops == {"credit", "bonus", "debit", "hold", "release", "refund", "adjustment"}
Phases == {"idle", "begun", "keyed", "read", "written", "published"}

Signed == Amounts \cup {-a : a \in Amounts}

Row == [purchased : Int, bonus : Int, total : Int, version : Nat]

\* ref is the position, in the same ledger, of the entry a release or refund undoes.
Entry == [type : Ops, amount : Signed, before : Int, after : Int,
          key : Keys \cup {NoKey}, ref : Nat]

Call == [phase : Phases, op : Ops, user : Users, amount : Int,
         key : Keys \cup {NoKey}, ref : Nat, snap : Row]

Balances(purchased, bonus, version) ==
  [purchased |-> purchased, bonus |-> bonus, total |-> purchased + bonus,
   version |-> version]

NoWallet == Balances(0, 0, 0)
NewWallet == Balances(0, 0, 1)

Abs(n) == IF n < 0 THEN -n ELSE n
Lesser(m, n) == IF m < n THEN m ELSE n

KeysIn(u) == {ledger[u][i].key : i \in DOMAIN ledger[u]} \ {NoKey}
UsedKeys == UNION {KeysIn(u) : u \in Users}

-------------------------------------------------------------------------------
(* The new row each call computes from the row it read.                    *)

CreditedRow(op, row, amount) ==
  IF op = "bonus"
  THEN Balances(row.purchased, row.bonus + amount, row.version + 1)
  ELSE Balances(row.purchased + amount, row.bonus, row.version + 1)

\* Mutant: the split forgets to stop at what the purchased side holds.
MSpentPurchasedOnly(row, amount) ==
  Balances(row.purchased - amount, row.bonus, row.version + 1)

\* Mutant: bonus credits pay first, without a limit.
MSpentBonusOnly(row, amount) ==
  Balances(row.purchased, row.bonus - amount, row.version + 1)

\* Spend purchased credits first, bonus credits for the rest.
SpentRow(row, amount) ==
  LET fromPurchased == Lesser(amount, row.purchased)
  IN  Balances(row.purchased - fromPurchased,
               row.bonus - (amount - fromPurchased), row.version + 1)

\* Both undo calls put the whole amount back on the purchased side.
RestoredRow(row, amount) ==
  Balances(row.purchased + amount, row.bonus, row.version + 1)

\* An admin adds to purchased credits and takes from bonus credits.
AdjustedRow(row, amount) ==
  IF amount > 0
  THEN Balances(row.purchased + amount, row.bonus, row.version + 1)
  ELSE Balances(row.purchased, row.bonus + amount, row.version + 1)

NewRow(op, row, amount) ==
  CASE op \in {"credit", "bonus"}   -> CreditedRow(op, row, amount)
    [] op \in {"debit", "hold"}     -> SpentRow(row, amount)
    [] op \in {"release", "refund"} -> RestoredRow(row, amount)
    [] op = "adjustment"            -> AdjustedRow(row, amount)

\* Mutant: hold() forgets its balance check.
MAffordableHold(op, row, amount) ==
  /\ op = "debit" => row.total >= amount
  /\ op = "adjustment" => AdjustedRow(row, amount).total >= 0

\* The balance checks made on the row that was read.
Affordable(op, row, amount) ==
  /\ op \in {"debit", "hold"} => row.total >= amount
  /\ op = "adjustment" => AdjustedRow(row, amount).total >= 0

\* The signed amount the ledger entry records.
Delta(op, amount) == IF op \in {"debit", "hold"} THEN -amount ELSE amount

-------------------------------------------------------------------------------
(* Starting a call.                                                        *)

Idle(c) == tx[c].phase = "idle"

Enter(c, call) ==
  /\ Idle(c)
  /\ Len(ledger[call.user]) < MaxLedger
  /\ tx' = [tx EXCEPT ![c] = call]
  /\ UNCHANGED <<wallet, ledger, outbox>>

Request(phase, op, u, amount, key, ref, snap) ==
  [phase |-> phase, op |-> op, user |-> u, amount |-> amount, key |-> key,
   ref |-> ref, snap |-> snap]

NoCall == Request("idle", "credit", CHOOSE u \in Users : TRUE, 0, NoKey, 0, NoWallet)

BeginCredit(c, u) ==
  \E op \in {"credit", "bonus"}, amount \in Amounts, key \in Keys \cup {NoKey} :
    Enter(c, Request("begun", op, u, amount, key, 0, NoWallet))

BeginDebit(c, u) ==
  \E amount \in Amounts, key \in Keys \cup {NoKey} :
    Enter(c, Request("begun", "debit", u, amount, key, 0, NoWallet))

BeginHold(c, u) ==
  \E amount \in Amounts :
    Enter(c, Request("keyed", "hold", u, amount, NoKey, 0, NoWallet))

BeginAdjustment(c, u) ==
  \E amount \in Signed :
    Enter(c, Request("keyed", "adjustment", u, amount, NoKey, 0, NoWallet))

\* Mutant: the held amount is used with the sign the ledger gives it.
MBeginReleaseSigned(c, u) ==
  \E i \in DOMAIN ledger[u] :
    /\ ledger[u][i].type = "hold"
    /\ Enter(c, Request("keyed", "release", u, ledger[u][i].amount, NoKey, i, wallet[u]))

\* release() and refund() read the entry together with its wallet before the
\* transaction opens, and later insist on that wallet's version.
BeginRelease(c, u) ==
  \E i \in DOMAIN ledger[u] :
    /\ ledger[u][i].type = "hold"
    /\ Enter(c, Request("keyed", "release", u, Abs(ledger[u][i].amount), NoKey, i,
                        wallet[u]))

BeginRefund(c, u) ==
  \E i \in DOMAIN ledger[u] :
    /\ ledger[u][i].type # "refund"
    /\ Enter(c, Request("keyed", "refund", u, Abs(ledger[u][i].amount), NoKey, i,
                        wallet[u]))

-------------------------------------------------------------------------------
(* The statements of the transaction.                                      *)

Finish(c) == tx' = [tx EXCEPT ![c] = NoCall]
Advance(c, phase) == tx' = [tx EXCEPT ![c].phase = phase]

\* A key already in the ledger replays the recorded transaction: no effect.
Lookup(c) ==
  /\ tx[c].phase = "begun"
  /\ IF tx[c].key \in UsedKeys THEN Finish(c) ELSE Advance(c, "keyed")
  /\ UNCHANGED <<wallet, ledger, outbox>>

\* Reads the row, or rejects the call: no wallet, another version than the one
\* release() or refund() saw, or a balance too low.
ReadWallet(c) ==
  LET call == tx[c]
      row  == wallet[call.user]
      found == /\ row.version # 0
               /\ call.op \in {"release", "refund"} => row.version = call.snap.version
  IN /\ call.phase = "keyed"
     /\ IF found /\ Affordable(call.op, row, call.amount)
        THEN tx' = [tx EXCEPT ![c].phase = "read", ![c].snap = row]
        ELSE Finish(c)
     /\ UNCHANGED <<wallet, ledger, outbox>>

HoldsRow(d) == tx[d].phase \in {"written", "published"}

RowFree(c) ==
  \A d \in Clients \ {c} : HoldsRow(d) =>
    /\ tx[d].user # tx[c].user
    /\ tx[c].key = NoKey \/ tx[d].key # tx[c].key

\* Mutant: the UPDATE does not compare the version.
MWriteUnversioned(c) ==
  /\ tx[c].phase = "read"
  /\ RowFree(c)
  /\ IF tx[c].key \notin UsedKeys THEN Advance(c, "written") ELSE Finish(c)
  /\ UNCHANGED <<wallet, ledger, outbox>>

\* The versioned UPDATE and the INSERT of the ledger entry.  The update waits for
\* the row lock, the insert for a pending insert of the same key; a version that
\* moved (P2025) or a key that was taken (P2002) rolls the call back.
WriteRow(c) ==
  LET call == tx[c]
  IN /\ call.phase = "read"
     /\ RowFree(c)
     /\ IF wallet[call.user].version = call.snap.version /\ call.key \notin UsedKeys
        THEN Advance(c, "written")
        ELSE Finish(c)
     /\ UNCHANGED <<wallet, ledger, outbox>>

\* The outbox row is written on a connection of its own, before this transaction
\* commits, and a failure to write it is only logged.
PublishEvent(c) ==
  /\ tx[c].phase = "written"
  /\ Advance(c, "published")
  /\ \/ /\ outbox[tx[c].user] < MaxOutbox
        /\ outbox' = [outbox EXCEPT ![tx[c].user] = @ + 1]
     \/ outbox' = outbox
  /\ UNCHANGED <<wallet, ledger>>

NewEntry(call) ==
  [type |-> call.op, amount |-> Delta(call.op, call.amount),
   before |-> call.snap.total,
   after |-> NewRow(call.op, call.snap, call.amount).total,
   key |-> call.key, ref |-> call.ref]

Commit(c) ==
  LET call == tx[c]
  IN /\ call.phase = "published"
     /\ wallet' = [wallet EXCEPT ![call.user] = NewRow(call.op, call.snap, call.amount)]
     /\ ledger' = [ledger EXCEPT ![call.user] = Append(@, NewEntry(call))]
     /\ Finish(c)
     /\ UNCHANGED outbox

\* A crash, a lost connection or the transaction timeout: everything rolls back,
\* except the outbox row.
Fail(c) ==
  /\ ~Idle(c)
  /\ Finish(c)
  /\ UNCHANGED <<wallet, ledger, outbox>>

\* getOrCreateWallet: of two racing creations the unique user_id lets one through.
CreateWallet(u) ==
  /\ wallet[u].version = 0
  /\ wallet' = [wallet EXCEPT ![u] = NewWallet]
  /\ UNCHANGED <<ledger, outbox, tx>>

-------------------------------------------------------------------------------
Init ==
  /\ wallet = [u \in Users |-> NoWallet]
  /\ ledger = [u \in Users |-> << >>]
  /\ outbox = [u \in Users |-> 0]
  /\ tx = [c \in Clients |-> NoCall]

Begin(c) ==
  \E u \in Users :
    \/ BeginCredit(c, u)
    \/ BeginDebit(c, u)
    \/ BeginHold(c, u)
    \/ BeginAdjustment(c, u)
    \/ BeginRelease(c, u)
    \/ BeginRefund(c, u)

Progress(c) ==
  Lookup(c) \/ ReadWallet(c) \/ WriteRow(c) \/ PublishEvent(c) \/ Commit(c)

Next ==
  \/ \E c \in Clients : Begin(c) \/ Progress(c) \/ Fail(c)
  \/ \E u \in Users : CreateWallet(u)

Spec == Init /\ [][Next]_vars
-------------------------------------------------------------------------------
(* Properties.                                                             *)

\* Types, and that every running call carries an amount its caller or the ledger
\* gave it, positive unless it is an adjustment.
TypeOK ==
  /\ wallet \in [Users -> Row]
  /\ ledger \in [Users -> Seq(Entry)]
  /\ outbox \in [Users -> Nat]
  /\ tx \in [Clients -> Call]
  /\ \A c \in Clients : ~Idle(c) =>
       tx[c].amount \in IF tx[c].op = "adjustment" THEN Signed ELSE Amounts

\* Each entry starts at the balance the previous one left.
EntriesChain(u) ==
  \A i \in 1..Len(ledger[u]) :
    /\ ledger[u][i].after = ledger[u][i].before + ledger[u][i].amount
    /\ ledger[u][i].before = IF i = 1 THEN 0 ELSE ledger[u][i - 1].after

LastBalance(u) ==
  IF Len(ledger[u]) = 0 THEN 0 ELSE ledger[u][Len(ledger[u])].after

\* The ledger replays to the wallet row, whatever calls raced on it: the entries
\* chain, the last one ends at the row's total, and the version counts them.  A
\* lost update breaks it.
LedgerExplainsRow ==
  \A u \in Users :
    /\ EntriesChain(u)
    /\ wallet[u].total = LastBalance(u)
    /\ wallet[u].version = 0 => Len(ledger[u]) = 0
    /\ wallet[u].version # 0 => wallet[u].version = Len(ledger[u]) + 1

\* A balance check made on one read of the row and applied after another call's
\* commit never overdraws: the total is the sum of its two sides, and neither it
\* nor the purchased side goes below zero.
NeverOverdrawn ==
  \A u \in Users :
    /\ wallet[u].total = wallet[u].purchased + wallet[u].bonus
    /\ wallet[u].total >= 0
    /\ wallet[u].purchased >= 0

\* Retries and duplicates of a keyed call, of one user or of several, racing or
\* not, leave at most one ledger entry.
KeyPostedOnce ==
  \A u, v \in Users : \A i \in DOMAIN ledger[u], j \in DOMAIN ledger[v] :
    ledger[u][i].key # NoKey /\ ledger[u][i].key = ledger[v][j].key
      => u = v /\ i = j

\* Only an administrator can push the bonus side below zero: no sequence of
\* debits, holds, releases and refunds does.
BonusDebtOnlyByAdmin ==
  \A u \in Users : wallet[u].bonus < 0 =>
    \E i \in DOMAIN ledger[u] :
      ledger[u][i].type = "adjustment" /\ ledger[u][i].amount < 0

\* The wallet implements the abstract credit ledger: the totals are the balances,
\* the amounts of the entries the statements.
Totals == [u \in Users |-> wallet[u].total]
Statements == [u \in Users |-> [i \in 1..Len(ledger[u]) |-> ledger[u][i].amount]]

Abstract == INSTANCE CreditLedger WITH
  balance <- Totals,
  statement <- Statements,
  posted <- UsedKeys,
  Deltas <- Signed

ImplementsLedger == Abstract!LedgerSpec
===============================================================================
