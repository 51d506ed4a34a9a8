----------------------------- MODULE CreditProofs -----------------------------
(***************************************************************************)
(* What holds of the credits, of how they are kept (Wallet) and of how     *)
(* they are bought (Payments), for any number of users, calls, keys,       *)
(* purchases and deliveries.  Each half has an inductive invariant:        *)
(*                                                                         *)
(* IInv, of the wallet: beside the properties themselves it says what a    *)
(* call that has read a row still knows about that row (CallInv): an equal *)
(* version means an equal row, a call that holds the row lock holds the    *)
(* current version, and two holders never share a wallet or a key.         *)
(*                                                                         *)
(* PaymentsIInv, of the payments, in layers.  Located: a delivery is of an *)
(* event Stripe has created.  HandledOnce and AckedIsRecorded are then     *)
(* inductive.  Knows adds what a worker has already done for its event,    *)
(* and gives CreditsMatchEvents.  Counted relates the number of events     *)
(* published of a payment to the recorded events that are past publishing, *)
(* and gives PublishedOncePerEvent.                                        *)
(*                                                                         *)
(* Two facts go beyond the runs: what a release or refund puts back was    *)
(* taken (UndoIsBacked), and only a failure can lose a payment             *)
(* (CreditedUnlessFailed).                                                 *)
(***************************************************************************)
EXTENDS Wallet, Payments, TLAPS, SequenceTheorems, FiniteSetTheorems

RowOK(row) ==
  /\ row.total = row.purchased + row.bonus
  /\ row.total >= 0
  /\ row.purchased >= 0

HasRead(c) == tx[c].phase \in {"read", "written", "published"}

CallInv(c) ==
  LET call == tx[c]
      row  == wallet[call.user]
  IN  /\ HasRead(c) =>
           /\ RowOK(call.snap)
           /\ call.snap.version # 0
           /\ call.snap.version <= row.version
           /\ call.snap.version = row.version => call.snap = row
           /\ Affordable(call.op, call.snap, call.amount)
      /\ HoldsRow(c) =>
           /\ call.snap.version = row.version
           /\ call.key \notin UsedKeys
           /\ RowFree(c)

IInv ==
  /\ TypeOK
  /\ LedgerExplainsRow
  /\ NeverOverdrawn
  /\ KeyPostedOnce
  /\ \A c \in Clients : CallInv(c)

-------------------------------------------------------------------------------
\* The keys in use are the keys of the entries.
LEMMA UsedKeysMember ==
  ASSUME NEW k
  PROVE  k \in UsedKeys <=>
           k # NoKey /\ \E u \in Users : \E i \in DOMAIN ledger[u] : ledger[u][i].key = k
  BY DEF UsedKeys, KeysIn

\* Every amount a call can carry is an integer, and none is zero.
LEMMA AmountTypes ==
  /\ \A a \in Amounts : a \in Int /\ a > 0 /\ a \in Signed
  /\ \A a \in Signed : a \in Int /\ a # 0 /\ -a \in Signed
  /\ \A a \in Signed : Abs(a) \in Amounts
  BY WalletAssumption DEF Signed, Abs

\* No call is running in the idle record.
LEMMA NoCallType == NoCall \in Call /\ NoCall.phase = "idle"
  <1>1. (CHOOSE u \in Users : TRUE) \in Users
    BY WalletAssumption
  <1>2. QED
    BY <1>1 DEF NoCall, Request, Call, NoWallet, Balances, Row, Ops, Phases

\* Each call turns a sound, affordable row into a sound row whose total moved by
\* exactly the amount the ledger records, one version up.
LEMMA NewRowSound ==
  ASSUME NEW op \in Ops, NEW row \in Row, NEW amount \in Int,
         RowOK(row), Affordable(op, row, amount),
         op # "adjustment" => amount > 0
  PROVE  LET r == NewRow(op, row, amount)
         IN  /\ r \in Row
             /\ RowOK(r)
             /\ r.total = row.total + Delta(op, amount)
             /\ r.version = row.version + 1
  <1>2. /\ row.purchased \in Int /\ row.bonus \in Int
        /\ row.total \in Int /\ row.version \in Nat
    BY DEF Row
  <1>. DEFINE Sides(p, b) ==
         /\ NewRow(op, row, amount) = Balances(p, b, row.version + 1)
         /\ p + b = row.total + Delta(op, amount)
         /\ p >= 0 /\ p + b >= 0
  <1>3. ASSUME op \in {"credit", "bonus"} PROVE \E p, b \in Int : Sides(p, b)
    <2>1. NewRow(op, row, amount) = CreditedRow(op, row, amount)
      BY <1>3 DEF NewRow
    <2>2. amount > 0 /\ Delta(op, amount) = amount
      BY <1>3 DEF Delta
    <2>3. CASE op = "bonus"
      <3>1. Sides(row.purchased, row.bonus + amount)
        BY <1>2, <2>1, <2>2, <2>3 DEF CreditedRow, RowOK
      <3>2. QED BY <1>2, <3>1
    <2>4. CASE op # "bonus"
      <3>1. Sides(row.purchased + amount, row.bonus)
        BY <1>2, <2>1, <2>2, <2>4 DEF CreditedRow, RowOK
      <3>2. QED BY <1>2, <3>1
    <2>5. QED BY <2>3, <2>4
  <1>4. ASSUME op \in {"debit", "hold"} PROVE \E p, b \in Int : Sides(p, b)
    <2>1. NewRow(op, row, amount) = SpentRow(row, amount)
      BY <1>4 DEF NewRow
    <2>2. amount > 0 /\ Delta(op, amount) = -amount /\ row.total >= amount
      BY <1>4 DEF Delta, Affordable
    <2>3. PICK f \in Int : f = Lesser(amount, row.purchased)
      BY <1>2 DEF Lesser
    <2>4. f <= row.purchased
      BY <1>2, <2>3 DEF Lesser
    <2>5. Sides(row.purchased - f, row.bonus - (amount - f))
      BY <1>2, <2>1, <2>2, <2>3, <2>4 DEF SpentRow, RowOK
    <2>6. QED BY <1>2, <2>5
  <1>5. ASSUME op \in {"release", "refund"} PROVE \E p, b \in Int : Sides(p, b)
    <2>1. NewRow(op, row, amount) = RestoredRow(row, amount)
      BY <1>5 DEF NewRow
    <2>2. amount > 0 /\ Delta(op, amount) = amount
      BY <1>5 DEF Delta
    <2>3. Sides(row.purchased + amount, row.bonus)
      BY <1>2, <2>1, <2>2 DEF RestoredRow, RowOK
    <2>4. QED BY <1>2, <2>3
  <1>6. ASSUME op = "adjustment" PROVE \E p, b \in Int : Sides(p, b)
    <2>1. NewRow(op, row, amount) = AdjustedRow(row, amount)
      BY <1>6 DEF NewRow
    <2>2. Delta(op, amount) = amount /\ AdjustedRow(row, amount).total >= 0
      BY <1>6 DEF Delta, Affordable
    <2>3. CASE amount > 0
      <3>1. Sides(row.purchased + amount, row.bonus)
        BY <1>2, <2>1, <2>2, <2>3 DEF AdjustedRow, RowOK
      <3>2. QED BY <1>2, <3>1
    <2>4. CASE ~(amount > 0)
      <3>1. AdjustedRow(row, amount) = Balances(row.purchased, row.bonus + amount, row.version + 1)
        BY <2>4 DEF AdjustedRow
      <3>2. row.purchased + (row.bonus + amount) >= 0
        BY <1>2, <2>2, <3>1 DEF Balances
      <3>3. Sides(row.purchased, row.bonus + amount)
        BY <1>2, <2>1, <2>2, <3>1, <3>2 DEF RowOK
      <3>4. QED BY <1>2, <3>3
    <2>5. QED BY <2>3, <2>4
  <1>7. PICK p \in Int, b \in Int : Sides(p, b)
    BY <1>3, <1>4, <1>5, <1>6 DEF Ops
  <1>8. row.version + 1 \in Nat
    BY <1>2
  <1>9. /\ Balances(p, b, row.version + 1) \in Row
        /\ Balances(p, b, row.version + 1).purchased = p
        /\ Balances(p, b, row.version + 1).bonus = b
        /\ Balances(p, b, row.version + 1).total = p + b
        /\ Balances(p, b, row.version + 1).version = row.version + 1
    BY <1>8 DEF Balances, Row
  <1>10. QED
    BY <1>7, <1>9 DEF RowOK
-------------------------------------------------------------------------------
\* A step that touches only the record of one call preserves the invariant when
\* the new record is well formed and knows what CallInv asks.
LEMMA CallStep ==
  ASSUME IInv, NEW c \in Clients, NEW call \in Call,
         wallet' = wallet, ledger' = ledger, outbox' \in [Users -> Nat],
         tx' = [tx EXCEPT ![c] = call],
         call.phase # "idle" =>
           call.amount \in IF call.op = "adjustment" THEN Signed ELSE Amounts,
         CallInv(c)'
  PROVE  IInv'
  <1>1. UsedKeys' = UsedKeys
    BY DEF UsedKeys, KeysIn
  <1>2. /\ tx \in [Clients -> Call]
        /\ tx'[c] = call
        /\ \A d \in Clients \ {c} : tx'[d] = tx[d]
    BY DEF IInv, TypeOK
  <1>3. TypeOK'
    BY <1>2 DEF IInv, TypeOK, Idle
  <1>4. LedgerExplainsRow' /\ NeverOverdrawn' /\ KeyPostedOnce'
    BY DEF IInv, LedgerExplainsRow, EntriesChain, LastBalance, NeverOverdrawn, KeyPostedOnce
  <1>5. ASSUME NEW d \in Clients \ {c} PROVE CallInv(d)'
    <2>1. CallInv(d)
      BY DEF IInv
    <2>2. tx'[d] = tx[d]
      BY <1>2
    <2>3. HoldsRow(d) => RowFree(d)'
      <3>1. SUFFICES ASSUME HoldsRow(d), NEW e \in Clients \ {d}, HoldsRow(e)'
                     PROVE  /\ tx'[e].user # tx'[d].user
                            /\ tx'[d].key = NoKey \/ tx'[e].key # tx'[d].key
        BY DEF RowFree
      <3>2. CASE e = c
        <4>1. RowFree(c)' /\ HoldsRow(d)'
          BY <2>2, <3>1, <3>2 DEF CallInv, HoldsRow
        <4>2. QED
          BY <3>2, <4>1 DEF RowFree
      <3>3. CASE e # c
        BY <1>2, <2>1, <2>2, <3>1, <3>3 DEF CallInv, RowFree, HoldsRow
      <3>4. QED BY <3>2, <3>3
    <2>4. QED
      BY <1>1, <2>1, <2>2, <2>3 DEF CallInv, HoldsRow, HasRead
  <1>6. QED
    BY <1>3, <1>4, <1>5 DEF IInv

\* Ending a call without effect is such a step.
LEMMA FinishStep ==
  ASSUME IInv, NEW c \in Clients, Finish(c),
         wallet' = wallet, ledger' = ledger, outbox' \in [Users -> Nat]
  PROVE  IInv'
  <1>1. tx' = [tx EXCEPT ![c] = NoCall]
    BY DEF Finish
  <1>2. tx'[c] = NoCall
    BY <1>1 DEF IInv, TypeOK
  <1>3. CallInv(c)'
    BY <1>2, NoCallType DEF CallInv, HasRead, HoldsRow
  <1>4. QED
    BY <1>1, <1>3, NoCallType, CallStep
\* A call that has not read the row yet knows nothing about it.
LEMMA EnterStep ==
  ASSUME IInv, NEW c \in Clients, NEW call \in Call,
         call.phase \in {"begun", "keyed"},
         call.amount \in IF call.op = "adjustment" THEN Signed ELSE Amounts,
         Enter(c, call)
  PROVE  IInv'
  <1>1. /\ tx' = [tx EXCEPT ![c] = call]
        /\ wallet' = wallet /\ ledger' = ledger /\ outbox' = outbox
    BY DEF Enter
  <1>2. tx'[c] = call /\ outbox' \in [Users -> Nat]
    BY <1>1 DEF IInv, TypeOK
  <1>3. CallInv(c)'
    BY <1>2 DEF CallInv, HasRead, HoldsRow
  <1>4. QED
    BY <1>1, <1>2, <1>3, CallStep

LEMMA BeginStep ==
  ASSUME IInv, NEW c \in Clients, Begin(c)
  PROVE  IInv'
  <1>1. PICK u \in Users :
          \/ BeginCredit(c, u) \/ BeginDebit(c, u) \/ BeginHold(c, u)
          \/ BeginAdjustment(c, u) \/ BeginRelease(c, u) \/ BeginRefund(c, u)
    BY DEF Begin
  <1>2. /\ NoWallet \in Row /\ wallet[u] \in Row
        /\ ledger[u] \in Seq(Entry)
    BY DEF NoWallet, Balances, Row, IInv, TypeOK
  <1>3. \A phase \in {"begun", "keyed"}, op \in Ops, key \in Keys \cup {NoKey} :
          \A amount \in IF op = "adjustment" THEN Signed ELSE Amounts :
            \A ref \in Nat, snap \in Row :
              Enter(c, Request(phase, op, u, amount, key, ref, snap)) => IInv'
    <2>1. SUFFICES ASSUME NEW phase \in {"begun", "keyed"}, NEW op \in Ops,
                          NEW key \in Keys \cup {NoKey},
                          NEW amount \in IF op = "adjustment" THEN Signed ELSE Amounts,
                          NEW ref \in Nat, NEW snap \in Row,
                          Enter(c, Request(phase, op, u, amount, key, ref, snap))
                   PROVE  IInv'
      OBVIOUS
    <2>2. amount \in Int
      BY AmountTypes
    <2>. DEFINE call == Request(phase, op, u, amount, key, ref, snap)
    <2>3. call \in Call
      BY <2>2 DEF Request, Call, Phases
    <2>4. call.phase = phase /\ call.op = op /\ call.amount = amount
      BY DEF Request
    <2>5. Enter(c, call)
      BY <2>1
    <2>. HIDE DEF call
    <2>6. QED
      BY <2>3, <2>4, <2>5, EnterStep
  <1>4. CASE BeginCredit(c, u)
    BY <1>2, <1>3, <1>4, AmountTypes DEF BeginCredit, Ops
  <1>5. CASE BeginDebit(c, u)
    BY <1>2, <1>3, <1>5, AmountTypes DEF BeginDebit, Ops
  <1>6. CASE BeginHold(c, u)
    BY <1>2, <1>3, <1>6, AmountTypes DEF BeginHold, Ops
  <1>7. CASE BeginAdjustment(c, u)
    BY <1>2, <1>3, <1>7, AmountTypes DEF BeginAdjustment, Ops
  <1>8. \A i \in DOMAIN ledger[u] : i \in Nat /\ Abs(ledger[u][i].amount) \in Amounts
    <2>1. TAKE i \in DOMAIN ledger[u]
    <2>2. i \in Nat /\ ledger[u][i] \in Entry
      BY <1>2
    <2>3. QED
      BY <2>2, AmountTypes DEF Entry
  <1>9. CASE BeginRelease(c, u)
    BY <1>2, <1>3, <1>8, <1>9 DEF BeginRelease, Ops
  <1>10. CASE BeginRefund(c, u)
    BY <1>2, <1>3, <1>8, <1>10 DEF BeginRefund, Ops
  <1>11. QED
    BY <1>1, <1>4, <1>5, <1>6, <1>7, <1>9, <1>10
\* Moving a call to another phase keeps the rest of its record.
LEMMA AdvanceRecord ==
  ASSUME IInv, NEW c \in Clients, NEW phase \in Phases, Advance(c, phase)
  PROVE  /\ tx' = [tx EXCEPT ![c] = [tx[c] EXCEPT !.phase = phase]]
         /\ [tx[c] EXCEPT !.phase = phase] \in Call
         /\ tx'[c] = [tx[c] EXCEPT !.phase = phase]
         /\ tx'[c].phase = phase /\ tx'[c].op = tx[c].op /\ tx'[c].user = tx[c].user
         /\ tx'[c].amount = tx[c].amount /\ tx'[c].key = tx[c].key
         /\ tx'[c].snap = tx[c].snap
         /\ \A d \in Clients \ {c} : tx'[d] = tx[d]
  BY DEF Advance, IInv, TypeOK, Call

LEMMA AdvanceStep ==
  ASSUME IInv, NEW c \in Clients, NEW phase \in Phases, Advance(c, phase), ~Idle(c),
         wallet' = wallet, ledger' = ledger, outbox' \in [Users -> Nat], CallInv(c)'
  PROVE  IInv'
  <1>1. tx[c].amount \in IF tx[c].op = "adjustment" THEN Signed ELSE Amounts
    BY DEF IInv, TypeOK
  <1>. DEFINE call == [tx[c] EXCEPT !.phase = phase]
  <1>2. /\ tx' = [tx EXCEPT ![c] = call] /\ call \in Call
        /\ call.op = tx[c].op /\ call.amount = tx[c].amount
    BY AdvanceRecord DEF IInv, TypeOK, Call
  <1>. HIDE DEF call
  <1>3. QED
    BY <1>1, <1>2, CallStep

LEMMA LookupStep ==
  ASSUME IInv, NEW c \in Clients, Lookup(c)
  PROVE  IInv'
  <1>1. /\ wallet' = wallet /\ ledger' = ledger /\ outbox' \in [Users -> Nat]
        /\ ~Idle(c)
    BY DEF Lookup, Idle, IInv, TypeOK
  <1>2. CASE Finish(c)
    BY <1>1, <1>2, FinishStep
  <1>3. CASE Advance(c, "keyed")
    <2>1. tx'[c].phase = "keyed"
      BY <1>3, AdvanceRecord DEF Phases
    <2>2. CallInv(c)'
      BY <2>1 DEF CallInv, HasRead, HoldsRow
    <2>3. QED
      BY <1>1, <1>3, <2>2, AdvanceStep DEF Phases
  <1>4. QED
    BY <1>2, <1>3 DEF Lookup

LEMMA ReadWalletStep ==
  ASSUME IInv, NEW c \in Clients, ReadWallet(c)
  PROVE  IInv'
  <1>. DEFINE row == wallet[tx[c].user]
              call == [tx[c] EXCEPT !.phase = "read", !.snap = row]
  <1>1. /\ wallet' = wallet /\ ledger' = ledger /\ outbox' \in [Users -> Nat]
        /\ ~Idle(c)
    BY DEF ReadWallet, Idle, IInv, TypeOK
  <1>2. CASE Finish(c)
    BY <1>1, <1>2, FinishStep
  <1>3. CASE /\ row.version # 0 /\ Affordable(tx[c].op, row, tx[c].amount)
             /\ tx' = [tx EXCEPT ![c].phase = "read", ![c].snap = row]
    <2>1. tx[c] \in Call /\ row \in Row /\ tx \in [Clients -> Call]
      BY DEF IInv, TypeOK, Call
    <2>2. call \in Call /\ tx' = [tx EXCEPT ![c] = call]
      BY <1>3, <2>1 DEF Call, Phases
    <2>3. /\ call.phase = "read" /\ call.op = tx[c].op /\ call.user = tx[c].user
          /\ call.amount = tx[c].amount /\ call.snap = row
      BY <2>1 DEF Call
    <2>4. call.amount \in IF call.op = "adjustment" THEN Signed ELSE Amounts
      BY <1>1, <2>3 DEF IInv, TypeOK
    <2>5. RowOK(row) /\ row.version \in Nat
      BY <2>1 DEF IInv, NeverOverdrawn, RowOK, Row, TypeOK, Call
    <2>6. tx'[c] = call
      BY <2>1, <2>2
    <2>. HIDE DEF call
    <2>7. CallInv(c)'
      BY <1>1, <1>3, <2>3, <2>5, <2>6 DEF CallInv, HasRead, HoldsRow
    <2>8. QED
      BY <1>1, <2>2, <2>4, <2>7, CallStep
  <1>4. QED
    BY <1>2, <1>3 DEF ReadWallet

LEMMA WriteRowStep ==
  ASSUME IInv, NEW c \in Clients, WriteRow(c)
  PROVE  IInv'
  <1>1. /\ wallet' = wallet /\ ledger' = ledger /\ outbox' \in [Users -> Nat]
        /\ ~Idle(c) /\ HasRead(c) /\ RowFree(c) /\ CallInv(c)
    BY DEF WriteRow, Idle, HasRead, IInv, TypeOK
  <1>2. CASE Finish(c)
    BY <1>1, <1>2, FinishStep
  <1>3. CASE /\ Advance(c, "written")
             /\ wallet[tx[c].user].version = tx[c].snap.version
             /\ tx[c].key \notin UsedKeys
    <2>1. /\ tx'[c].phase = "written" /\ tx'[c].op = tx[c].op
          /\ tx'[c].user = tx[c].user /\ tx'[c].amount = tx[c].amount
          /\ tx'[c].key = tx[c].key /\ tx'[c].snap = tx[c].snap
          /\ \A d \in Clients \ {c} : tx'[d] = tx[d]
      BY <1>3, AdvanceRecord DEF Phases
    <2>2. UsedKeys' = UsedKeys
      BY <1>1 DEF UsedKeys, KeysIn
    <2>3. RowFree(c)'
      BY <1>1, <2>1 DEF RowFree, HoldsRow
    <2>4. CallInv(c)'
      BY <1>1, <1>3, <2>1, <2>2, <2>3 DEF CallInv, HasRead, HoldsRow
    <2>5. QED
      BY <1>1, <1>3, <2>4, AdvanceStep DEF Phases
  <1>4. QED
    BY <1>2, <1>3 DEF WriteRow

LEMMA PublishEventStep ==
  ASSUME IInv, NEW c \in Clients, PublishEvent(c)
  PROVE  IInv'
  <1>1. /\ wallet' = wallet /\ ledger' = ledger
        /\ ~Idle(c) /\ HoldsRow(c) /\ HasRead(c) /\ CallInv(c)
        /\ tx[c].user \in Users /\ Advance(c, "published")
    BY DEF PublishEvent, Idle, HasRead, HoldsRow, IInv, TypeOK, Call
  <1>2. outbox' \in [Users -> Nat]
    <2>1. outbox \in [Users -> Nat]
      BY DEF IInv, TypeOK
    <2>2. CASE outbox' = [outbox EXCEPT ![tx[c].user] = @ + 1]
      BY <1>1, <2>1, <2>2
    <2>3. CASE outbox' = outbox
      BY <2>1, <2>3
    <2>4. QED
      BY <2>2, <2>3 DEF PublishEvent
  <1>3. /\ tx'[c].phase = "published" /\ tx'[c].op = tx[c].op
        /\ tx'[c].user = tx[c].user /\ tx'[c].amount = tx[c].amount
        /\ tx'[c].key = tx[c].key /\ tx'[c].snap = tx[c].snap
        /\ \A d \in Clients \ {c} : tx'[d] = tx[d]
    BY <1>1, AdvanceRecord DEF Phases
  <1>4. UsedKeys' = UsedKeys
    BY <1>1 DEF UsedKeys, KeysIn
  <1>5. RowFree(c)'
    BY <1>1, <1>3 DEF RowFree, HoldsRow, CallInv
  <1>6. CallInv(c)'
    BY <1>1, <1>3, <1>4, <1>5 DEF CallInv, HasRead, HoldsRow
  <1>7. QED
    BY <1>1, <1>2, <1>6, AdvanceStep DEF Phases

LEMMA CreateWalletStep ==
  ASSUME IInv, NEW u \in Users, CreateWallet(u)
  PROVE  IInv'
  <1>1. /\ NewWallet \in Row /\ RowOK(NewWallet)
        /\ NewWallet.total = 0 /\ NewWallet.version = 1
    BY DEF NewWallet, Balances, Row, RowOK
  <1>2. /\ wallet \in [Users -> Row] /\ wallet[u].version = 0
        /\ wallet'[u] = NewWallet /\ \A v \in Users \ {u} : wallet'[v] = wallet[v]
        /\ ledger' = ledger /\ tx' = tx /\ outbox' = outbox
        /\ wallet' \in [Users -> Row]
    BY <1>1 DEF CreateWallet, IInv, TypeOK
  <1>3. TypeOK' /\ KeyPostedOnce'
    BY <1>2 DEF IInv, TypeOK, KeyPostedOnce, Idle
  <1>4. NeverOverdrawn'
    BY <1>1, <1>2 DEF IInv, NeverOverdrawn, RowOK
  <1>5. Len(ledger[u]) = 0
    BY <1>2 DEF IInv, LedgerExplainsRow
  <1>6. LedgerExplainsRow'
    BY <1>1, <1>2, <1>5 DEF IInv, LedgerExplainsRow, EntriesChain, LastBalance
  <1>7. UsedKeys' = UsedKeys
    BY <1>2 DEF UsedKeys, KeysIn
  <1>8. ASSUME NEW c \in Clients PROVE CallInv(c)'
    <2>1. CallInv(c) /\ tx[c] \in Call
      BY DEF IInv, TypeOK
    <2>2. HoldsRow(c) => HasRead(c)
      BY DEF HoldsRow, HasRead
    <2>3. HasRead(c) => tx[c].user # u
      BY <1>2, <2>1 DEF CallInv, Call, Row
    <2>4. QED
      BY <1>2, <1>7, <2>1, <2>2, <2>3 DEF CallInv, HasRead, HoldsRow, RowFree, Call
  <1>9. QED
    BY <1>3, <1>4, <1>6, <1>8 DEF IInv
\* What a committing call does: the row it read is still the row, and the ledger
\* grows by one entry that leads from the old total to the new one.
LEMMA CommitFacts ==
  ASSUME IInv, NEW c \in Clients, Commit(c)
  PROVE  \E u \in Users, n \in Nat, e \in Entry, r \in Row, k \in Keys \cup {NoKey} :
        /\ u = tx[c].user /\ k = tx[c].key /\ n = Len(ledger[u])
        /\ wallet[u].version = n + 1 /\ wallet[u] = tx[c].snap
        /\ RowOK(r) /\ r.version = n + 2
        /\ e.key = k /\ e.after = r.total /\ e.amount = Delta(tx[c].op, tx[c].amount)
        /\ e.before = wallet[u].total /\ e.after = e.before + e.amount
        /\ wallet'[u] = r /\ wallet' \in [Users -> Row]
        /\ \A v \in Users \ {u} : wallet'[v] = wallet[v] /\ ledger'[v] = ledger[v]
        /\ ledger' \in [Users -> Seq(Entry)] /\ ledger'[u] = Append(ledger[u], e)
        /\ Len(ledger'[u]) = n + 1 /\ ledger'[u][n + 1] = e
        /\ \A i \in 1..n : ledger'[u][i] = ledger[u][i]
        /\ tx' = [tx EXCEPT ![c] = NoCall] /\ outbox' = outbox
        /\ HoldsRow(c) /\ k \notin UsedKeys /\ RowFree(c)
  <1>. DEFINE call == tx[c]
              u == call.user
              e == NewEntry(call)
              r == NewRow(call.op, call.snap, call.amount)
              n == Len(ledger[u])
  <1>1. /\ call \in Call /\ u \in Users /\ call.op \in Ops /\ call.snap \in Row
        /\ call.amount \in Int /\ call.key \in Keys \cup {NoKey} /\ call.ref \in Nat
        /\ wallet \in [Users -> Row] /\ ledger \in [Users -> Seq(Entry)]
    BY DEF IInv, TypeOK, Call
  <1>2. HasRead(c) /\ HoldsRow(c) /\ CallInv(c) /\ ~Idle(c)
    BY DEF Commit, HasRead, HoldsRow, Idle, IInv
  <1>3. /\ RowOK(call.snap) /\ wallet[u] = call.snap /\ call.snap.version # 0
        /\ Affordable(call.op, call.snap, call.amount)
        /\ call.key \notin UsedKeys /\ RowFree(c)
    BY <1>2 DEF CallInv
  <1>4. call.amount \in IF call.op = "adjustment" THEN Signed ELSE Amounts
    BY <1>2 DEF IInv, TypeOK
  <1>5. call.op # "adjustment" => call.amount > 0
    BY <1>4, AmountTypes
  <1>6. /\ r \in Row /\ RowOK(r) /\ r.version = call.snap.version + 1
        /\ r.total = call.snap.total + Delta(call.op, call.amount)
    BY <1>1, <1>3, <1>5, NewRowSound
  <1>7. Delta(call.op, call.amount) \in Signed
    BY <1>4, AmountTypes DEF Delta
  <1>8. call.snap.total \in Int /\ r.total \in Int /\ Delta(call.op, call.amount) \in Int
    BY <1>1, <1>6, <1>7, AmountTypes DEF Row
  <1>9. /\ e.type = call.op /\ e.amount = Delta(call.op, call.amount)
        /\ e.before = call.snap.total /\ e.after = r.total
        /\ e.key = call.key /\ e.ref = call.ref
    BY DEF NewEntry
  <1>10. e \in Entry
    BY <1>1, <1>7, <1>8 DEF NewEntry, Entry
  <1>11. wallet[u].version = n + 1 /\ n \in Nat
    BY <1>1, <1>3 DEF IInv, LedgerExplainsRow
  <1>12. /\ wallet' = [wallet EXCEPT ![u] = r]
         /\ ledger' = [ledger EXCEPT ![u] = Append(@, e)]
         /\ tx' = [tx EXCEPT ![c] = NoCall] /\ outbox' = outbox
    BY DEF Commit, Finish
  <1>. HIDE DEF e, r
  <1>13. /\ wallet'[u] = r /\ wallet' \in [Users -> Row]
         /\ \A v \in Users \ {u} : wallet'[v] = wallet[v]
    BY <1>1, <1>6, <1>12
  <1>14. ledger[u] \in Seq(Entry)
    BY <1>1
  <1>15. /\ Append(ledger[u], e) \in Seq(Entry)
         /\ Len(Append(ledger[u], e)) = n + 1
         /\ \A i \in 1..n : Append(ledger[u], e)[i] = ledger[u][i]
         /\ Append(ledger[u], e)[n + 1] = e
    BY <1>10, <1>14, AppendProperties
  <1>16. /\ ledger'[u] = Append(ledger[u], e) /\ ledger' \in [Users -> Seq(Entry)]
         /\ \A v \in Users \ {u} : ledger'[v] = ledger[v]
    BY <1>1, <1>12, <1>15
  <1>17. /\ Len(ledger'[u]) = n + 1 /\ ledger'[u][n + 1] = e
         /\ \A i \in 1..n : ledger'[u][i] = ledger[u][i]
    BY <1>15, <1>16
  <1>18. /\ wallet[u] = call.snap /\ r.version = n + 2
         /\ e.before = wallet[u].total /\ e.after = e.before + e.amount
    BY <1>3, <1>6, <1>8, <1>9, <1>11
  <1>19. u \in Users /\ n \in Nat /\ e \in Entry /\ r \in Row /\ call.key \in Keys \cup {NoKey}
    BY <1>1, <1>6, <1>10, <1>11
  <1>. USE <1>19
  <1>20. WITNESS u \in Users, n \in Nat, e \in Entry, r \in Row, call.key \in Keys \cup {NoKey}
  <1>21. QED
    BY <1>2, <1>3, <1>6, <1>9, <1>11, <1>12, <1>13, <1>16, <1>17, <1>18

LEMMA CommitStep ==
  ASSUME IInv, NEW c \in Clients, Commit(c)
  PROVE  IInv'
  <1>1. PICK u \in Users, n \in Nat, e \in Entry, r \in Row, k \in Keys \cup {NoKey} :
        /\ u = tx[c].user /\ k = tx[c].key /\ n = Len(ledger[u])
        /\ wallet[u].version = n + 1 /\ wallet[u] = tx[c].snap
        /\ RowOK(r) /\ r.version = n + 2
        /\ e.key = k /\ e.after = r.total /\ e.amount = Delta(tx[c].op, tx[c].amount)
        /\ e.before = wallet[u].total /\ e.after = e.before + e.amount
        /\ wallet'[u] = r /\ wallet' \in [Users -> Row]
        /\ \A v \in Users \ {u} : wallet'[v] = wallet[v] /\ ledger'[v] = ledger[v]
        /\ ledger' \in [Users -> Seq(Entry)] /\ ledger'[u] = Append(ledger[u], e)
        /\ Len(ledger'[u]) = n + 1 /\ ledger'[u][n + 1] = e
        /\ \A i \in 1..n : ledger'[u][i] = ledger[u][i]
        /\ tx' = [tx EXCEPT ![c] = NoCall] /\ outbox' = outbox
        /\ HoldsRow(c) /\ k \notin UsedKeys /\ RowFree(c)
    BY CommitFacts
  <1>2. /\ tx \in [Clients -> Call] /\ tx'[c] = NoCall
        /\ \A d \in Clients \ {c} : tx'[d] = tx[d]
        /\ ledger \in [Users -> Seq(Entry)] /\ wallet \in [Users -> Row]
    BY <1>1 DEF IInv, TypeOK
  <1>3. /\ \A v \in Users : DOMAIN ledger[v] = 1..Len(ledger[v])
        /\ \A v \in Users : DOMAIN ledger'[v] = 1..Len(ledger'[v])
        /\ DOMAIN ledger'[u] = 1..(n + 1)
    BY <1>1, <1>2
  <1>4. TypeOK'
    BY <1>1, <1>2, NoCallType DEF IInv, TypeOK, Idle
  <1>5. ASSUME NEW v \in Users
        PROVE  /\ EntriesChain(v)'
               /\ wallet'[v].total = LastBalance(v)'
               /\ wallet'[v].version = 0 => Len(ledger'[v]) = 0
               /\ wallet'[v].version # 0 => wallet'[v].version = Len(ledger'[v]) + 1
    <2>1. /\ EntriesChain(v) /\ wallet[v].total = LastBalance(v)
          /\ wallet[v].version = 0 => Len(ledger[v]) = 0
          /\ wallet[v].version # 0 => wallet[v].version = Len(ledger[v]) + 1
      BY DEF IInv, LedgerExplainsRow
    <2>2. CASE v # u
      BY <1>1, <2>1, <2>2 DEF EntriesChain, LastBalance
    <2>3. CASE v = u
      <3>1. ASSUME NEW i \in 1..(n + 1)
            PROVE  /\ ledger'[u][i].after = ledger'[u][i].before + ledger'[u][i].amount
                   /\ ledger'[u][i].before = IF i = 1 THEN 0 ELSE ledger'[u][i - 1].after
        <4>1. CASE i = n + 1
          <5>1. e.before = IF n = 0 THEN 0 ELSE ledger[u][n].after
            BY <1>1, <2>1, <2>3 DEF LastBalance
          <5>2. CASE n = 0
            BY <1>1, <4>1, <5>1, <5>2
          <5>3. CASE n # 0
            <6>1. ledger'[u][n] = ledger[u][n] /\ i - 1 = n /\ i # 1
              BY <1>1, <4>1, <5>3
            <6>2. QED
              BY <1>1, <4>1, <5>1, <5>3, <6>1
          <5>4. QED BY <5>2, <5>3
        <4>2. CASE i # n + 1
          <5>1. i \in 1..n /\ (i # 1 => i - 1 \in 1..n)
            BY <4>2
          <5>2. ledger'[u][i] = ledger[u][i] /\ (i # 1 => ledger'[u][i - 1] = ledger[u][i - 1])
            BY <1>1, <5>1
          <5>3. /\ ledger[u][i].after = ledger[u][i].before + ledger[u][i].amount
                /\ ledger[u][i].before = IF i = 1 THEN 0 ELSE ledger[u][i - 1].after
            BY <1>1, <2>1, <2>3, <5>1 DEF EntriesChain
          <5>4. QED
            BY <5>2, <5>3
        <4>3. QED BY <4>1, <4>2
      <3>2. EntriesChain(v)'
        BY <1>1, <2>3, <3>1 DEF EntriesChain
      <3>3. wallet'[v].total = LastBalance(v)'
        <4>1. Len(ledger'[u]) = n + 1 /\ n + 1 # 0 /\ ledger'[u][n + 1].after = r.total
          BY <1>1
        <4>2. wallet'[u].total = r.total
          BY <1>1
        <4>3. QED
          BY <2>3, <4>1, <4>2 DEF LastBalance
      <3>4. wallet'[v].version = n + 2 /\ Len(ledger'[v]) = n + 1 /\ n \in Nat
        BY <1>1, <2>3
      <3>5. QED
        BY <3>2, <3>3, <3>4
    <2>4. QED BY <2>2, <2>3
  <1>6. LedgerExplainsRow' /\ NeverOverdrawn'
    <2>1. LedgerExplainsRow'
      BY <1>5 DEF LedgerExplainsRow
    <2>2. ASSUME NEW v \in Users PROVE RowOK(wallet'[v])
      BY <1>1 DEF IInv, NeverOverdrawn, RowOK
    <2>3. QED
      BY <2>1, <2>2 DEF NeverOverdrawn, RowOK
  <1>7. ASSUME NEW v \in Users, NEW i \in DOMAIN ledger[v], ledger[v][i].key # NoKey
        PROVE  ledger[v][i].key # k
    BY <1>1, <1>7, UsedKeysMember
  <1>8. ASSUME NEW v \in Users, NEW i \in DOMAIN ledger'[v]
        PROVE  \/ i \in DOMAIN ledger[v] /\ ledger'[v][i] = ledger[v][i]
               \/ v = u /\ i = n + 1 /\ ledger'[v][i] = e
    <2>1. CASE v # u
      BY <1>1, <2>1
    <2>2. CASE v = u /\ i = n + 1
      BY <1>1, <2>2
    <2>3. CASE v = u /\ i # n + 1
      <3>1. i \in 1..n
        BY <1>3, <2>3
      <3>2. i \in DOMAIN ledger[u]
        BY <1>1, <1>3, <3>1
      <3>3. QED
        BY <1>1, <2>3, <3>1, <3>2
    <2>4. QED BY <2>1, <2>2, <2>3
  <1>9. KeyPostedOnce'
    <2>1. SUFFICES ASSUME NEW v \in Users, NEW w \in Users,
                          NEW i \in DOMAIN ledger'[v], NEW j \in DOMAIN ledger'[w],
                          ledger'[v][i].key # NoKey, ledger'[v][i].key = ledger'[w][j].key
                   PROVE  v = w /\ i = j
      BY DEF KeyPostedOnce
    <2>2. QED
      BY <1>1, <1>7, <1>8, <2>1 DEF IInv, KeyPostedOnce
  <1>10. ASSUME NEW x, x \in UsedKeys' PROVE x \in UsedKeys \/ (x = k /\ x # NoKey)
    <2>1. x # NoKey /\ \E v \in Users : \E i \in DOMAIN ledger'[v] : ledger'[v][i].key = x
      BY <1>10 DEF UsedKeys, KeysIn
    <2>2. QED
      BY <1>1, <1>8, <2>1, UsedKeysMember
  <1>11. ASSUME NEW d \in Clients PROVE CallInv(d)'
    <2>1. CASE d = c
      BY <1>2, <2>1, NoCallType DEF CallInv, HasRead, HoldsRow
    <2>2. CASE d # c
      <3>1. CallInv(d) /\ tx'[d] = tx[d] /\ tx[d] \in Call
        BY <1>2, <2>2 DEF IInv
      <3>2. tx[d].snap.version \in Nat /\ tx[d].user \in Users
        BY <3>1 DEF Call, Row
      <3>3. HoldsRow(d) => HasRead(d)
        BY DEF HoldsRow, HasRead
      <3>4. HoldsRow(d) => tx[d].user # u /\ (tx[d].key = NoKey \/ tx[d].key # k)
        BY <1>1, <2>2, <3>1 DEF CallInv, RowFree
      <3>5. CASE tx[d].user = u
        <4>1. ~HoldsRow(d) /\ ~HoldsRow(d)'
          BY <3>1, <3>4, <3>5 DEF HoldsRow
        <4>2. HasRead(d) => /\ RowOK(tx[d].snap) /\ tx[d].snap.version # 0
                           /\ tx[d].snap.version <= wallet[tx[d].user].version
                           /\ Affordable(tx[d].op, tx[d].snap, tx[d].amount)
          BY <3>1 DEF CallInv
        <4>3. wallet[tx[d].user].version = n + 1
          BY <1>1, <3>5
        <4>4. wallet'[tx[d].user] = r /\ r.version = n + 2
          BY <1>1, <3>5
        <4>5. HasRead(d) => tx[d].snap.version < r.version /\ tx[d].snap.version <= r.version
          BY <3>2, <4>2, <4>3, <4>4
        <4>6. HasRead(d) => tx[d].snap.version # r.version
          BY <3>2, <4>2, <4>3, <4>4
        <4>7. HasRead(d)' = HasRead(d)
          BY <3>1 DEF HasRead
        <4>8. QED
          BY <3>1, <4>1, <4>2, <4>4, <4>5, <4>6, <4>7 DEF CallInv
      <3>6. CASE tx[d].user # u
        <4>1. wallet'[tx[d].user] = wallet[tx[d].user]
          BY <1>1, <3>2, <3>6
        <4>2. HoldsRow(d) => tx[d].key \notin UsedKeys'
          BY <1>10, <3>1, <3>4 DEF CallInv
        <4>3. HoldsRow(d) => RowFree(d)'
          <5>1. ASSUME NEW f \in Clients, HoldsRow(f)' PROVE f # c /\ HoldsRow(f) /\ tx'[f] = tx[f]
            BY <1>2, <5>1, NoCallType DEF HoldsRow
          <5>2. QED
            BY <3>1, <5>1 DEF CallInv, RowFree
        <4>4. QED
          BY <3>1, <4>1, <4>2, <4>3 DEF CallInv, HasRead, HoldsRow
      <3>7. QED BY <3>5, <3>6
    <2>3. QED BY <2>1, <2>2
  <1>12. QED
    BY <1>4, <1>6, <1>9, <1>11 DEF IInv

-------------------------------------------------------------------------------
LEMMA InitIInv == Init => IInv
  <1> SUFFICES ASSUME Init PROVE IInv
    OBVIOUS
  <1>1. NoWallet \in Row /\ NoWallet.total = 0 /\ NoWallet.purchased = 0
        /\ NoWallet.bonus = 0 /\ NoWallet.version = 0
    BY DEF NoWallet, Balances, Row
  <1>2. /\ \A u \in Users : wallet[u] = NoWallet /\ ledger[u] = << >>
        /\ \A c \in Clients : tx[c] = NoCall
    BY DEF Init
  <1>3. /\ << >> \in Seq(Entry) /\ Len(<< >>) = 0
    OBVIOUS
  <1>4. TypeOK
    BY <1>1, <1>2, <1>3, NoCallType DEF Init, TypeOK, Idle
  <1>5. LedgerExplainsRow /\ NeverOverdrawn /\ KeyPostedOnce
    BY <1>1, <1>2, <1>3
       DEF LedgerExplainsRow, EntriesChain, LastBalance, NeverOverdrawn, KeyPostedOnce
  <1>6. ASSUME NEW c \in Clients PROVE CallInv(c)
    BY <1>2, NoCallType DEF CallInv, HasRead, HoldsRow
  <1>7. QED
    BY <1>4, <1>5, <1>6 DEF IInv

LEMMA NextIInv == IInv /\ [Next]_vars => IInv'
  <1> SUFFICES ASSUME IInv, [Next]_vars PROVE IInv'
    OBVIOUS
  <1>1. ASSUME NEW c \in Clients, Begin(c) PROVE IInv'
    BY <1>1, BeginStep
  <1>2. ASSUME NEW c \in Clients, Progress(c) PROVE IInv'
    BY <1>2, LookupStep, ReadWalletStep, WriteRowStep, PublishEventStep, CommitStep
       DEF Progress
  <1>3. ASSUME NEW c \in Clients, Fail(c) PROVE IInv'
    <2>1. outbox' \in [Users -> Nat]
      BY <1>3 DEF Fail, IInv, TypeOK
    <2>2. QED
      BY <1>3, <2>1, FinishStep DEF Fail
  <1>4. ASSUME NEW u \in Users, CreateWallet(u) PROVE IInv'
    BY <1>4, CreateWalletStep
  <1>5. CASE UNCHANGED vars
    BY <1>5 DEF vars, IInv, TypeOK, LedgerExplainsRow, EntriesChain, LastBalance,
       NeverOverdrawn, KeyPostedOnce, CallInv, HasRead, HoldsRow, RowFree, UsedKeys,
       KeysIn, Idle
  <1>6. QED
    BY <1>1, <1>2, <1>3, <1>4, <1>5 DEF Next

LEMMA SpecIInv == Spec => []IInv
  BY InitIInv, NextIInv, PTL DEF Spec

\* Type correctness, with the sign of every running call's amount.
THEOREM WalletTypeCorrect == Spec => []TypeOK
  <1>1. IInv => TypeOK
    BY DEF IInv
  <1>2. QED
    BY <1>1, SpecIInv, PTL

\* No lost update: whatever calls interleave, the ledger replays to the row and the
\* version counts the ledger.
THEOREM WalletLedgerExplainsRow == Spec => []LedgerExplainsRow
  <1>1. IInv => LedgerExplainsRow
    BY DEF IInv
  <1>2. QED
    BY <1>1, SpecIInv, PTL

\* No overdraft: a balance checked on a stale read never pays for a debit, a hold or
\* a negative adjustment.
THEOREM WalletNeverOverdrawn == Spec => []NeverOverdrawn
  <1>1. IInv => NeverOverdrawn
    BY DEF IInv
  <1>2. QED
    BY <1>1, SpecIInv, PTL

\* Idempotency: a key labels at most one ledger entry, over all wallets.
THEOREM WalletKeyPostedOnce == Spec => []KeyPostedOnce
  <1>1. IInv => KeyPostedOnce
    BY DEF IInv
  <1>2. QED
    BY <1>1, SpecIInv, PTL

-------------------------------------------------------------------------------
\* A committing call is one posting of the abstract ledger.
LEMMA CommitPosts ==
  ASSUME IInv, NEW c \in Clients, Commit(c)
  PROVE  Abstract!LedgerNext
  <1>1. PICK u \in Users, n \in Nat, e \in Entry, r \in Row, k \in Keys \cup {NoKey} :
        /\ u = tx[c].user /\ k = tx[c].key /\ n = Len(ledger[u])
        /\ wallet[u].version = n + 1 /\ wallet[u] = tx[c].snap
        /\ RowOK(r) /\ r.version = n + 2
        /\ e.key = k /\ e.after = r.total /\ e.amount = Delta(tx[c].op, tx[c].amount)
        /\ e.before = wallet[u].total /\ e.after = e.before + e.amount
        /\ wallet'[u] = r /\ wallet' \in [Users -> Row]
        /\ \A v \in Users \ {u} : wallet'[v] = wallet[v] /\ ledger'[v] = ledger[v]
        /\ ledger' \in [Users -> Seq(Entry)] /\ ledger'[u] = Append(ledger[u], e)
        /\ Len(ledger'[u]) = n + 1 /\ ledger'[u][n + 1] = e
        /\ \A i \in 1..n : ledger'[u][i] = ledger[u][i]
        /\ tx' = [tx EXCEPT ![c] = NoCall] /\ outbox' = outbox
        /\ HoldsRow(c) /\ k \notin UsedKeys /\ RowFree(c)
    BY CommitFacts
  <1>2. e.amount \in Signed /\ e.amount \in Int
    BY AmountTypes DEF Entry
  <1>3. Totals[u] + e.amount >= 0
    BY <1>1 DEF Totals, RowOK
  <1>4. Totals' = [Totals EXCEPT ![u] = @ + e.amount]
    BY <1>1 DEF Totals
  <1>5. Statements' = [Statements EXCEPT ![u] = Append(@, e.amount)]
    <2>. DEFINE before == [i \in 1..n |-> ledger[u][i].amount]
                after == [i \in 1..(n + 1) |-> ledger'[u][i].amount]
    <2>1. ledger[u] \in Seq(Entry)
      BY DEF IInv, TypeOK
    <2>2. ASSUME NEW i \in 1..n PROVE ledger[u][i].amount \in Signed
      <3>1. ledger[u][i] \in Entry
        BY <1>1, <2>1
      <3>2. QED BY <3>1 DEF Entry
    <2>3. before \in Seq(Signed) /\ Len(before) = n
      BY <2>2
    <2>4. /\ Append(before, e.amount) \in Seq(Signed)
          /\ Len(Append(before, e.amount)) = n + 1
          /\ \A i \in 1..n : Append(before, e.amount)[i] = before[i]
          /\ Append(before, e.amount)[n + 1] = e.amount
      BY <1>2, <2>3, AppendProperties
    <2>5. \A i \in 1..(n + 1) : after[i] = Append(before, e.amount)[i] /\ after[i] \in Signed
      <3>1. TAKE i \in 1..(n + 1)
      <3>2. after[i] = ledger'[u][i].amount
        OBVIOUS
      <3>3. CASE i \in 1..n
        <4>1. ledger'[u][i] = ledger[u][i]
          BY <1>1, <3>3
        <4>2. Append(before, e.amount)[i] = ledger[u][i].amount
          BY <2>4, <3>3
        <4>3. ledger[u][i].amount \in Signed
          BY <2>2, <3>3
        <4>. HIDE DEF before, after
        <4>4. QED BY <3>2, <4>1, <4>2, <4>3
      <3>4. CASE i = n + 1
        <4>1. ledger'[u][i] = e
          BY <1>1, <3>4
        <4>. HIDE DEF before, after
        <4>2. QED BY <1>2, <2>4, <3>2, <3>4, <4>1
      <3>5. i \in 1..n \/ i = n + 1
        OBVIOUS
      <3>6. QED BY <3>3, <3>4, <3>5
    <2>6. after \in Seq(Signed) /\ Len(after) = n + 1
      BY <2>5
    <2>7. after = Append(before, e.amount)
      <3>. HIDE DEF before, after
      <3>1. QED
        BY <2>4, <2>5, <2>6, SeqEqual
    <2>8. Statements[u] = before /\ Statements'[u] = after
      BY <1>1 DEF Statements
    <2>9. \A v \in Users \ {u} : Statements'[v] = Statements[v]
      BY <1>1 DEF Statements
    <2>10. /\ Statements = [v \in Users |-> Statements[v]]
           /\ Statements' = [v \in Users |-> Statements'[v]]
      BY DEF Statements
    <2>. HIDE DEF before, after
    <2>11. QED
      BY <2>7, <2>8, <2>9, <2>10
  <1>6. UsedKeys' = IF k = NoKey THEN UsedKeys ELSE UsedKeys \cup {k}
    <2>1. /\ DOMAIN ledger[u] = 1..n /\ DOMAIN ledger'[u] = 1..(n + 1)
      <3>1. ledger[u] \in Seq(Entry)
        BY DEF IInv, TypeOK
      <3>2. Append(ledger[u], e) \in Seq(Entry)
        BY <3>1, AppendProperties
      <3>3. QED
        BY <1>1, <3>1, <3>2
    <2>2. KeysIn(u)' = KeysIn(u) \cup ({k} \ {NoKey})
      <3>1. \A i \in 1..n : ledger'[u][i].key = ledger[u][i].key
        BY <1>1
      <3>2. ledger'[u][n + 1].key = k
        BY <1>1
      <3>3. KeysIn(u)' = {ledger'[u][i].key : i \in 1..(n + 1)} \ {NoKey}
        BY <2>1 DEF KeysIn
      <3>4. 1..(n + 1) = (1..n) \cup {n + 1}
        OBVIOUS
      <3>5. KeysIn(u) = {ledger[u][i].key : i \in 1..n} \ {NoKey}
        BY <2>1 DEF KeysIn
      <3>6. QED
        BY <3>1, <3>2, <3>3, <3>4, <3>5
    <2>3. \A v \in Users \ {u} : KeysIn(v)' = KeysIn(v)
      BY <1>1 DEF KeysIn
    <2>4. UsedKeys' = UsedKeys \cup ({k} \ {NoKey})
      BY <2>2, <2>3 DEF UsedKeys
    <2>5. QED
      BY <2>4
  <1>7. Abstract!Post(u, e.amount, k)
    BY <1>1, <1>3, <1>4, <1>5, <1>6 DEF Abstract!Post
  <1>8. QED
    BY <1>2, <1>7 DEF Abstract!LedgerNext

\* Every step of the wallet is a posting or is invisible to its callers.
LEMMA StepRefines == IInv /\ [Next]_vars => [Abstract!LedgerNext]_(Abstract!ledgerVars)
  <1> SUFFICES ASSUME IInv, [Next]_vars PROVE [Abstract!LedgerNext]_(Abstract!ledgerVars)
    OBVIOUS
  <1>1. CASE ledger' = ledger /\ wallet' = wallet
    BY <1>1 DEF Abstract!ledgerVars, Totals, Statements, UsedKeys, KeysIn
  <1>2. ASSUME NEW u \in Users, CreateWallet(u)
        PROVE  UNCHANGED Abstract!ledgerVars
    <2>1. ledger' = ledger /\ wallet'[u].total = 0
          /\ \A v \in Users \ {u} : wallet'[v] = wallet[v]
      BY <1>2 DEF CreateWallet, NewWallet, Balances, IInv, TypeOK
    <2>2. wallet[u].total = 0
      BY <1>2 DEF CreateWallet, IInv, LedgerExplainsRow, LastBalance
    <2>3. Totals' = Totals
      BY <2>1, <2>2 DEF Totals
    <2>4. QED
      BY <2>1, <2>3 DEF Abstract!ledgerVars, Statements, UsedKeys, KeysIn
  <1>3. ASSUME NEW c \in Clients, Commit(c)
        PROVE  Abstract!LedgerNext
    BY <1>3, CommitPosts
  <1>4. ASSUME NEW c \in Clients, Begin(c) \/ Fail(c) \/ (Progress(c) /\ ~Commit(c))
        PROVE  ledger' = ledger /\ wallet' = wallet
    BY <1>4 DEF Begin, BeginCredit, BeginDebit, BeginHold, BeginAdjustment, BeginRelease,
       BeginRefund, Enter, Fail, Progress, Lookup, ReadWallet, WriteRow, PublishEvent
  <1>5. CASE UNCHANGED vars
    BY <1>1, <1>5 DEF vars
  <1>6. QED
    BY <1>1, <1>2, <1>3, <1>4, <1>5 DEF Next

\* Versioned rows, keyed entries and interactive transactions implement an atomic
\* credit ledger: each call takes effect in one step, against the current balance.
THEOREM WalletImplementsLedger == Spec => ImplementsLedger
  <1>1. Init => Abstract!LedgerInit
    <2> SUFFICES ASSUME Init PROVE Abstract!LedgerInit
      OBVIOUS
    <2>1. Totals = [u \in Users |-> 0]
      BY DEF Init, Totals, NoWallet, Balances
    <2>2. \A u \in Users : ledger[u] = << >> /\ Len(ledger[u]) = 0
      BY DEF Init
    <2>3. \A u \in Users : [i \in 1..Len(ledger[u]) |-> ledger[u][i].amount] = << >>
      <3>1. TAKE u \in Users
      <3>. DEFINE amounts == [i \in 1..0 |-> ledger[u][i].amount]
      <3>2. 1..0 = {}
        OBVIOUS
      <3>3. amounts \in Seq(Int) /\ Len(amounts) = 0
        BY <3>2
      <3>. HIDE DEF amounts
      <3>4. amounts = << >>
        BY <3>3, EmptySeq
      <3>5. Len(ledger[u]) = 0
        BY <2>2
      <3>6. QED
        BY <3>4, <3>5 DEF amounts
    <2>4. Statements = [u \in Users |-> << >>]
      BY <2>3 DEF Statements
    <2>5. UsedKeys = {}
      BY <2>2 DEF UsedKeys, KeysIn
    <2>6. QED
      BY <2>1, <2>4, <2>5 DEF Abstract!LedgerInit
  <1>2. QED
    BY <1>1, SpecIInv, StepRefines, PTL DEF Spec, ImplementsLedger, Abstract!LedgerSpec

-------------------------------------------------------------------------------
\* Only a negative adjustment takes the bonus side below zero.
LEMMA BonusOfNewRow ==
  ASSUME NEW op \in Ops, NEW row \in Row, NEW amount \in Int,
         RowOK(row), Affordable(op, row, amount),
         op # "adjustment" => amount > 0,
         NewRow(op, row, amount).bonus < 0, ~(row.bonus < 0)
  PROVE  op = "adjustment" /\ amount < 0
  <1>1. row.purchased \in Int /\ row.bonus \in Int /\ row.total \in Int
    BY DEF Row
  <1>2. CASE op \in {"credit", "bonus"}
    <2>1. NewRow(op, row, amount) = CreditedRow(op, row, amount) /\ amount > 0
      BY <1>2 DEF NewRow
    <2>2. QED
      BY <1>1, <2>1 DEF CreditedRow, Balances
  <1>3. CASE op \in {"debit", "hold"}
    <2>1. NewRow(op, row, amount) = SpentRow(row, amount) /\ row.total >= amount
      BY <1>3 DEF NewRow, Affordable
    <2>2. PICK f \in Int : f = Lesser(amount, row.purchased)
      BY <1>1 DEF Lesser
    <2>3. SpentRow(row, amount).bonus = row.bonus - (amount - f)
      BY <2>2 DEF SpentRow, Balances
    <2>4. f = amount \/ f = row.purchased
      BY <2>2 DEF Lesser
    <2>5. QED
      BY <1>1, <2>1, <2>3, <2>4 DEF RowOK
  <1>4. CASE op \in {"release", "refund"}
    <2>1. NewRow(op, row, amount) = RestoredRow(row, amount)
      BY <1>4 DEF NewRow
    <2>2. QED
      BY <2>1 DEF RestoredRow, Balances
  <1>5. CASE op = "adjustment"
    <2>1. NewRow(op, row, amount) = AdjustedRow(row, amount)
      BY <1>5 DEF NewRow
    <2>2. QED
      BY <1>1, <1>5, <2>1 DEF AdjustedRow, Balances
  <1>6. QED
    BY <1>2, <1>3, <1>4, <1>5 DEF Ops

LEMMA CommitBonus ==
  ASSUME IInv, BonusDebtOnlyByAdmin, NEW c \in Clients, Commit(c)
  PROVE  BonusDebtOnlyByAdmin'
  <1>1. PICK call : call = tx[c]
    OBVIOUS
  <1>2. PICK u : u = call.user
    OBVIOUS
  <1>3. /\ call \in Call /\ u \in Users /\ call.op \in Ops /\ call.snap \in Row
        /\ call.amount \in Int /\ wallet \in [Users -> Row] /\ ledger \in [Users -> Seq(Entry)]
    BY <1>1, <1>2 DEF IInv, TypeOK, Call
  <1>4. HasRead(c) /\ HoldsRow(c) /\ CallInv(c) /\ ~Idle(c)
    BY DEF Commit, HasRead, HoldsRow, Idle, IInv
  <1>5. /\ RowOK(call.snap) /\ wallet[u] = call.snap
        /\ Affordable(call.op, call.snap, call.amount)
    BY <1>1, <1>2, <1>4 DEF CallInv
  <1>6. call.amount \in IF call.op = "adjustment" THEN Signed ELSE Amounts
    BY <1>1, <1>4 DEF IInv, TypeOK
  <1>7. call.op # "adjustment" => call.amount > 0
    BY <1>6, AmountTypes
  <1>8. PICK e : e = NewEntry(call)
    OBVIOUS
  <1>9. e.type = call.op /\ e.amount = Delta(call.op, call.amount)
    BY <1>8 DEF NewEntry
  <1>10. PICK n : n = Len(ledger[u])
    OBVIOUS
  <1>11. /\ \A v \in Users \ {u} : wallet'[v] = wallet[v] /\ ledger'[v] = ledger[v]
         /\ wallet'[u] = NewRow(call.op, call.snap, call.amount)
         /\ ledger'[u] = Append(ledger[u], e)
    BY <1>1, <1>2, <1>3, <1>8 DEF Commit
  <1>12. ledger[u] \in Seq(Entry) /\ n \in Nat /\ DOMAIN ledger[u] = 1..n
    BY <1>3, <1>10
  <1>13. e \in Entry
    <2>1. PICK k \in Users, m \in Nat, d \in Entry :
            k = tx[c].user /\ m = Len(ledger[k]) /\ ledger'[k] = Append(ledger[k], d)
            /\ ledger'[k][m + 1] = d
      BY CommitFacts
    <2>2. Append(ledger[u], e)[n + 1] = e
      BY <1>10, <1>12
    <2>3. QED
      BY <1>1, <1>2, <1>10, <1>11, <2>1, <2>2
  <1>14. /\ DOMAIN Append(ledger[u], e) = 1..(n + 1) /\ Append(ledger[u], e)[n + 1] = e
         /\ \A i \in 1..n : Append(ledger[u], e)[i] = ledger[u][i]
    BY <1>10, <1>12, <1>13, AppendProperties
  <1>15. ASSUME NEW v \in Users, wallet'[v].bonus < 0
         PROVE  \E i \in DOMAIN ledger'[v] :
                  ledger'[v][i].type = "adjustment" /\ ledger'[v][i].amount < 0
    <2>1. CASE v # u
      BY <1>11, <1>15, <2>1 DEF BonusDebtOnlyByAdmin
    <2>2. CASE v = u /\ wallet[u].bonus < 0
      <3>1. PICK i \in DOMAIN ledger[u] :
              ledger[u][i].type = "adjustment" /\ ledger[u][i].amount < 0
        BY <1>3, <2>2 DEF BonusDebtOnlyByAdmin
      <3>2. i \in 1..(n + 1) /\ Append(ledger[u], e)[i] = ledger[u][i]
        BY <1>12, <1>14, <3>1
      <3>3. QED
        BY <1>11, <1>14, <2>2, <3>1, <3>2
    <2>3. CASE v = u /\ ~(wallet[u].bonus < 0)
      <3>1. call.op = "adjustment" /\ call.amount < 0
        BY <1>3, <1>5, <1>7, <1>11, <1>15, <2>3, BonusOfNewRow
      <3>2. e.type = "adjustment" /\ e.amount < 0
        BY <1>9, <3>1 DEF Delta
      <3>3. n + 1 \in 1..(n + 1)
        BY <1>12
      <3>4. QED
        BY <1>11, <1>14, <2>3, <3>2, <3>3
    <2>4. QED BY <2>1, <2>2, <2>3
  <1>16. QED
    BY <1>15 DEF BonusDebtOnlyByAdmin

\* Only an administrator can leave the bonus side of a wallet below zero, for any sequence
\* and interleaving of calls.
THEOREM WalletBonusDebtOnlyByAdmin == Spec => []BonusDebtOnlyByAdmin
  <1>1. Init => BonusDebtOnlyByAdmin
    BY DEF Init, BonusDebtOnlyByAdmin, NoWallet, Balances
  <1>2. IInv /\ BonusDebtOnlyByAdmin /\ [Next]_vars => BonusDebtOnlyByAdmin'
    <2>1. SUFFICES ASSUME IInv, BonusDebtOnlyByAdmin, [Next]_vars PROVE BonusDebtOnlyByAdmin'
      OBVIOUS
    <2>2. CASE wallet' = wallet /\ ledger' = ledger
      BY <2>1, <2>2 DEF BonusDebtOnlyByAdmin
    <2>3. ASSUME NEW c \in Clients, Begin(c) \/ Progress(c) \/ Fail(c)
          PROVE  Commit(c) \/ (wallet' = wallet /\ ledger' = ledger)
      BY <2>3 DEF Begin, BeginCredit, BeginDebit, BeginHold, BeginAdjustment, BeginRelease,
                  BeginRefund, Enter, Progress, Lookup, ReadWallet, WriteRow, PublishEvent, Fail
    <2>4. ASSUME NEW u \in Users, CreateWallet(u) PROVE BonusDebtOnlyByAdmin'
      <3>1. ~(NewWallet.bonus < 0)
        BY DEF NewWallet, Balances
      <3>2. /\ wallet' = [wallet EXCEPT ![u] = NewWallet] /\ ledger' = ledger
            /\ wallet \in [Users -> Row]
        BY <2>1, <2>4 DEF CreateWallet, IInv, TypeOK
      <3>3. QED
        BY <2>1, <3>1, <3>2 DEF BonusDebtOnlyByAdmin
    <2>5. QED
      BY <2>1, <2>2, <2>3, <2>4, CommitBonus DEF Next, vars
  <1>3. QED
    BY <1>1, <1>2, SpecIInv, PTL DEF Spec

-------------------------------------------------------------------------------
(* The ledger only grows, and what release() and refund() undo is in it.   *)

\* The transaction's new entry, and the position it gets.
LEMMA CommitAppends ==
  ASSUME IInv, NEW c \in Clients, Commit(c)
  PROVE  \E u \in Users, n \in Nat, e \in Entry :
           /\ u = tx[c].user /\ e = NewEntry(tx[c])
           /\ \A v \in Users \ {u} : ledger'[v] = ledger[v]
           /\ ledger'[u] = Append(ledger[u], e)
           /\ DOMAIN ledger[u] = 1..n /\ DOMAIN ledger'[u] = 1..(n + 1)
           /\ ledger'[u][n + 1] = e /\ \A i \in 1..n : ledger'[u][i] = ledger[u][i]
           /\ e.before = wallet[u].total /\ e.after = wallet'[u].total
<1>1. PICK u \in Users, n \in Nat, e \in Entry, r \in Row, k \in Keys \cup {NoKey} :
        /\ u = tx[c].user /\ k = tx[c].key /\ n = Len(ledger[u])
        /\ wallet[u].version = n + 1 /\ wallet[u] = tx[c].snap
        /\ RowOK(r) /\ r.version = n + 2
        /\ e.key = k /\ e.after = r.total /\ e.amount = Delta(tx[c].op, tx[c].amount)
        /\ e.before = wallet[u].total /\ e.after = e.before + e.amount
        /\ wallet'[u] = r /\ wallet' \in [Users -> Row]
        /\ \A v \in Users \ {u} : wallet'[v] = wallet[v] /\ ledger'[v] = ledger[v]
        /\ ledger' \in [Users -> Seq(Entry)] /\ ledger'[u] = Append(ledger[u], e)
        /\ Len(ledger'[u]) = n + 1 /\ ledger'[u][n + 1] = e
        /\ \A i \in 1..n : ledger'[u][i] = ledger[u][i]
        /\ tx' = [tx EXCEPT ![c] = NoCall] /\ outbox' = outbox
        /\ HoldsRow(c) /\ k \notin UsedKeys /\ RowFree(c)
  BY CommitFacts, Zenon
<1>2. ledger \in [Users -> Seq(Entry)]
  BY DEF IInv, TypeOK
<1>3. DOMAIN ledger[u] = 1..n /\ DOMAIN ledger'[u] = 1..(n + 1)
  BY <1>1, <1>2
<1>4. ledger'[u] = Append(ledger[u], NewEntry(tx[c]))
  BY <1>1, <1>2 DEF Commit
<1>5. Append(ledger[u], NewEntry(tx[c]))[n + 1] = NewEntry(tx[c])
  BY <1>1, <1>2
<1>6. e = NewEntry(tx[c])
  BY <1>1, <1>4, <1>5
<1> QED BY <1>1, <1>3, <1>6

LEMMA LedgerStep ==
  ASSUME IInv, [Next]_vars
  PROVE  ledger' = ledger \/ \E c \in Clients : Commit(c)
<1>1. ASSUME NEW c \in Clients, Begin(c) PROVE ledger' = ledger
  <2>1. ASSUME NEW call, Enter(c, call) PROVE ledger' = ledger
    BY <2>1 DEF Enter
  <2> QED BY <1>1, <2>1 DEF Begin, BeginCredit, BeginDebit, BeginHold, BeginAdjustment,
                            BeginRelease, BeginRefund
<1>2. ASSUME NEW c \in Clients, Progress(c) PROVE ledger' = ledger \/ Commit(c)
  BY <1>2 DEF Progress, Lookup, ReadWallet, WriteRow, PublishEvent
<1>3. ASSUME NEW c \in Clients, Fail(c) PROVE ledger' = ledger
  BY <1>3 DEF Fail
<1>4. ASSUME NEW u \in Users, CreateWallet(u) PROVE ledger' = ledger
  BY <1>4 DEF CreateWallet
<1>5. CASE UNCHANGED vars
  BY <1>5 DEF vars
<1> QED BY <1>1, <1>2, <1>3, <1>4, <1>5 DEF Next

\* A ledger is left as it is, or gets one entry that leads from the row's total to the next.
AppendOnly ==
  [][\A u \in Users :
       \/ ledger'[u] = ledger[u]
       \/ \E e \in Entry : /\ ledger'[u] = Append(ledger[u], e)
                           /\ e.before = wallet[u].total /\ e.after = wallet'[u].total]_vars

\* No call changes or removes an entry of the ledger, and the row and its entry are committed
\* together: wallet_transactions is append-only.
THEOREM WalletAppendOnly == Spec => AppendOnly
<1>1. IInv /\ [Next]_vars =>
        [\A u \in Users :
           \/ ledger'[u] = ledger[u]
           \/ \E e \in Entry : /\ ledger'[u] = Append(ledger[u], e)
                               /\ e.before = wallet[u].total /\ e.after = wallet'[u].total]_vars
  BY LedgerStep, CommitAppends
<1> QED BY <1>1, SpecIInv, PTL DEF Spec, AppendOnly

\* Entry i of a ledger is what a release or refund of this amount may undo.
Undoes(entries, i, op, amount) ==
  /\ i \in DOMAIN entries
  /\ amount = Abs(entries[i].amount)
  /\ op = "release" => entries[i].type = "hold"
  /\ op = "refund" => entries[i].type # "refund"

UndoOps == {"release", "refund"}

\* What a release or refund puts back was taken by an earlier entry of the same ledger.
UndoIsBacked ==
  \A u \in Users : \A i \in DOMAIN ledger[u] :
    LET e == ledger[u][i]
    IN  e.type \in UndoOps => e.ref < i /\ Undoes(ledger[u], e.ref, e.type, e.amount)

\* So is what a running release or refund was asked for.
UndoCall(c) ==
  ~Idle(c) /\ tx[c].op \in UndoOps =>
    Undoes(ledger[tx[c].user], tx[c].ref, tx[c].op, tx[c].amount)

LEMMA UndoesKept ==
  ASSUME IInv, [Next]_vars, NEW u \in Users, NEW i, NEW op, NEW amount,
         Undoes(ledger[u], i, op, amount)
  PROVE  Undoes(ledger'[u], i, op, amount)
<1>1. CASE ledger' = ledger
  BY <1>1
<1>2. ASSUME NEW c \in Clients, Commit(c) PROVE Undoes(ledger'[u], i, op, amount)
  <2>1. PICK v \in Users, n \in Nat :
          /\ \A z \in Users \ {v} : ledger'[z] = ledger[z]
          /\ DOMAIN ledger[v] = 1..n /\ DOMAIN ledger'[v] = 1..(n + 1)
          /\ \A j \in 1..n : ledger'[v][j] = ledger[v][j]
    BY <1>2, CommitAppends
  <2>2. CASE u = v
    <3>1. i \in 1..n
      BY <2>1, <2>2 DEF Undoes
    <3>2. i \in DOMAIN ledger'[u] /\ ledger'[u][i] = ledger[u][i]
      BY <2>1, <2>2, <3>1
    <3> QED BY <3>2 DEF Undoes
  <2>3. CASE u # v
    BY <2>1, <2>3
  <2> QED BY <2>2, <2>3
<1> QED BY <1>1, <1>2, LedgerStep

\* A running call keeps what it was asked for; a call that begins a release or refund has just
\* read the entry.
LEMMA CallsKept ==
  ASSUME IInv, [Next]_vars, NEW d \in Clients, ~Idle(d)', tx'[d].op \in UndoOps
  PROVE  \/ /\ ~Idle(d) /\ tx'[d].op = tx[d].op /\ tx'[d].user = tx[d].user
            /\ tx'[d].ref = tx[d].ref /\ tx'[d].amount = tx[d].amount
         \/ ledger' = ledger /\ Undoes(ledger[tx'[d].user], tx'[d].ref, tx'[d].op, tx'[d].amount)
<1>1. tx \in [Clients -> Call]
  BY DEF IInv, TypeOK
<1>2. CASE tx'[d] = tx[d]
  BY <1>2 DEF Idle
<1>3. ASSUME NEW c \in Clients, Finish(c) PROVE c # d /\ tx'[d] = tx[d]
  BY <1>1, <1>3, NoCallType DEF Finish, Idle
<1>4. ASSUME NEW c \in Clients, NEW phase, Advance(c, phase), ~Idle(c)
      PROVE  /\ ~Idle(d) /\ tx'[d].op = tx[d].op /\ tx'[d].user = tx[d].user
             /\ tx'[d].ref = tx[d].ref /\ tx'[d].amount = tx[d].amount
  <2>1. CASE c = d
    BY <1>1, <1>4, <2>1 DEF Advance, Call
  <2>2. CASE c # d
    <3>1. tx'[d] = tx[d]
      BY <1>1, <1>4, <2>2 DEF Advance
    <3> QED BY <3>1 DEF Idle
  <2> QED BY <2>1, <2>2
<1>5. ASSUME NEW c \in Clients, NEW call, Enter(c, call), c # d PROVE tx'[d] = tx[d]
  BY <1>1, <1>5 DEF Enter
<1>6. ASSUME NEW c \in Clients, Begin(c) PROVE tx'[d] = tx[d] \/
        (ledger' = ledger /\ Undoes(ledger[tx'[d].user], tx'[d].ref, tx'[d].op, tx'[d].amount))
  <2>1. PICK u \in Users :
          \/ BeginCredit(c, u) \/ BeginDebit(c, u) \/ BeginHold(c, u)
          \/ BeginAdjustment(c, u) \/ BeginRelease(c, u) \/ BeginRefund(c, u)
    BY <1>6 DEF Begin
  <2>2. CASE c # d
    BY <1>5, <2>1, <2>2 DEF BeginCredit, BeginDebit, BeginHold, BeginAdjustment, BeginRelease,
                            BeginRefund
  <2>3. CASE c = d
    <3>1. ASSUME NEW phase, NEW op, NEW amount, NEW key, NEW ref, NEW snap,
                 Enter(d, Request(phase, op, u, amount, key, ref, snap))
          PROVE  /\ tx'[d].op = op /\ tx'[d].user = u /\ tx'[d].ref = ref /\ tx'[d].amount = amount
                 /\ ledger' = ledger
      <4>1. PICK call : call = Request(phase, op, u, amount, key, ref, snap)
        OBVIOUS
      <4>2. tx'[d] = call /\ ledger' = ledger
        BY <1>1, <3>1, <4>1 DEF Enter
      <4> QED BY <4>1, <4>2 DEF Request
    <3>2. CASE BeginRelease(c, u)
      <4>1. PICK i \in DOMAIN ledger[u] :
              /\ ledger[u][i].type = "hold"
              /\ Enter(d, Request("keyed", "release", u, Abs(ledger[u][i].amount), NoKey, i,
                                  wallet[u]))
        BY <2>3, <3>2 DEF BeginRelease
      <4> QED BY <3>1, <4>1 DEF Undoes
    <3>3. CASE BeginRefund(c, u)
      <4>1. PICK i \in DOMAIN ledger[u] :
              /\ ledger[u][i].type # "refund"
              /\ Enter(d, Request("keyed", "refund", u, Abs(ledger[u][i].amount), NoKey, i,
                                  wallet[u]))
        BY <2>3, <3>3 DEF BeginRefund
      <4> QED BY <3>1, <4>1 DEF Undoes
    <3>4. ASSUME BeginCredit(d, u) \/ BeginDebit(d, u) \/ BeginHold(d, u) \/ BeginAdjustment(d, u)
          PROVE  tx'[d].op \notin UndoOps
      <4>1. PICK phase, op, amount, key :
              /\ op \in {"credit", "bonus", "debit", "hold", "adjustment"}
              /\ Enter(d, Request(phase, op, u, amount, key, 0, NoWallet))
        <5>1. CASE BeginCredit(d, u)
          BY <5>1 DEF BeginCredit
        <5>2. CASE BeginDebit(d, u)
          BY <5>2 DEF BeginDebit
        <5>3. CASE BeginHold(d, u)
          BY <5>3 DEF BeginHold
        <5>4. CASE BeginAdjustment(d, u)
          BY <5>4 DEF BeginAdjustment
        <5> QED BY <3>4, <5>1, <5>2, <5>3, <5>4
      <4> QED BY <3>1, <4>1 DEF UndoOps
    <3> QED BY <2>1, <2>3, <3>2, <3>3, <3>4
  <2> QED BY <2>2, <2>3
<1>7. ASSUME NEW c \in Clients, ReadWallet(c)
      PROVE  /\ ~Idle(d) /\ tx'[d].op = tx[d].op /\ tx'[d].user = tx[d].user
             /\ tx'[d].ref = tx[d].ref /\ tx'[d].amount = tx[d].amount
  <2>1. CASE Finish(c)
    BY <1>3, <2>1 DEF Idle
  <2>2. ASSUME NEW row, tx' = [tx EXCEPT ![c].phase = "read", ![c].snap = row]
        PROVE  /\ ~Idle(d) /\ tx'[d].op = tx[d].op /\ tx'[d].user = tx[d].user
               /\ tx'[d].ref = tx[d].ref /\ tx'[d].amount = tx[d].amount
    <3>1. tx[c].phase = "keyed"
      BY <1>7 DEF ReadWallet
    <3>2. CASE c = d
      BY <1>1, <2>2, <3>1, <3>2 DEF Call, Idle
    <3>3. CASE c # d
      BY <1>1, <2>2, <3>3 DEF Idle
    <3> QED BY <3>2, <3>3
  <2> QED BY <1>7, <2>1, <2>2 DEF ReadWallet
<1>8. ASSUME NEW c \in Clients, Progress(c) \/ Fail(c)
      PROVE  \/ Finish(c) \/ ReadWallet(c)
             \/ ~Idle(c) /\ \E phase \in Phases : Advance(c, phase)
  BY <1>8 DEF Progress, Fail, Lookup, WriteRow, PublishEvent, Commit, Idle, Phases
<1>9. ASSUME NEW u \in Users, CreateWallet(u) PROVE tx'[d] = tx[d]
  BY <1>9 DEF CreateWallet
<1>10. CASE UNCHANGED vars
  BY <1>2, <1>10 DEF vars
<1> QED BY <1>2, <1>3, <1>4, <1>6, <1>7, <1>8, <1>9, <1>10 DEF Next

LEMMA UndoStep ==
  ASSUME IInv, UndoIsBacked, \A c \in Clients : UndoCall(c), [Next]_vars
  PROVE  UndoIsBacked' /\ \A c \in Clients : UndoCall(c)'
<1>1. ASSUME NEW d \in Clients, ~Idle(d)', tx'[d].op \in UndoOps
      PROVE  Undoes(ledger'[tx'[d].user], tx'[d].ref, tx'[d].op, tx'[d].amount)
  <2>1. CASE /\ ~Idle(d) /\ tx'[d].op = tx[d].op /\ tx'[d].user = tx[d].user
             /\ tx'[d].ref = tx[d].ref /\ tx'[d].amount = tx[d].amount
    <3>1. Undoes(ledger[tx[d].user], tx[d].ref, tx[d].op, tx[d].amount)
      BY <1>1, <2>1 DEF UndoCall
    <3>2. tx[d].user \in Users
      BY DEF IInv, TypeOK, Call
    <3>3. PICK u, i, op, amount :
            /\ u \in Users /\ u = tx[d].user
            /\ i = tx[d].ref /\ op = tx[d].op /\ amount = tx[d].amount
      BY <3>2
    <3>4. Undoes(ledger'[u], i, op, amount)
      BY <3>1, <3>3, UndoesKept
    <3> QED BY <2>1, <3>3, <3>4
  <2>2. CASE ledger' = ledger /\ Undoes(ledger[tx'[d].user], tx'[d].ref, tx'[d].op, tx'[d].amount)
    BY <2>2
  <2> QED BY <1>1, <2>1, <2>2, CallsKept
<1>2. ASSUME NEW u \in Users, NEW i \in DOMAIN ledger'[u], ledger'[u][i].type \in UndoOps
      PROVE  /\ ledger'[u][i].ref < i
             /\ Undoes(ledger'[u], ledger'[u][i].ref, ledger'[u][i].type, ledger'[u][i].amount)
  <2>1. ASSUME i \in DOMAIN ledger[u], ledger'[u][i] = ledger[u][i]
        PROVE  /\ ledger'[u][i].ref < i
               /\ Undoes(ledger'[u], ledger'[u][i].ref, ledger'[u][i].type, ledger'[u][i].amount)
    <3>1. PICK j, op, amount :
            j = ledger[u][i].ref /\ op = ledger[u][i].type /\ amount = ledger[u][i].amount
      OBVIOUS
    <3>2. j < i /\ Undoes(ledger[u], j, op, amount)
      BY <1>2, <2>1, <3>1 DEF UndoIsBacked
    <3>3. Undoes(ledger'[u], j, op, amount)
      BY <3>2, UndoesKept
    <3> QED BY <2>1, <3>1, <3>2, <3>3
  <2>2. CASE ledger' = ledger
    BY <1>2, <2>1, <2>2
  <2>3. ASSUME NEW c \in Clients, Commit(c)
        PROVE  /\ ledger'[u][i].ref < i
               /\ Undoes(ledger'[u], ledger'[u][i].ref, ledger'[u][i].type, ledger'[u][i].amount)
    <3>1. PICK v \in Users, n \in Nat, e \in Entry :
            /\ v = tx[c].user /\ e = NewEntry(tx[c])
            /\ \A z \in Users \ {v} : ledger'[z] = ledger[z]
            /\ DOMAIN ledger[v] = 1..n /\ DOMAIN ledger'[v] = 1..(n + 1)
            /\ ledger'[v][n + 1] = e /\ \A j \in 1..n : ledger'[v][j] = ledger[v][j]
      BY <2>3, CommitAppends
    <3>2. CASE u # v
      BY <1>2, <2>1, <3>1, <3>2
    <3>3. CASE u = v /\ i # n + 1
      <4>1. i \in 1..n
        BY <1>2, <3>1, <3>3
      <4> QED BY <2>1, <3>1, <3>3, <4>1
    <3>4. CASE u = v /\ i = n + 1
      <4>1. ~Idle(c) /\ e.type = tx[c].op /\ e.ref = tx[c].ref
            /\ e.amount = Delta(tx[c].op, tx[c].amount)
        BY <2>3, <3>1 DEF Commit, Idle, NewEntry
      <4>2. e.amount = tx[c].amount /\ tx[c].op \in UndoOps
        BY <1>2, <3>1, <3>4, <4>1 DEF Delta, UndoOps
      <4>3. PICK j, op, amount : j = tx[c].ref /\ op = tx[c].op /\ amount = tx[c].amount
        OBVIOUS
      <4>4. Undoes(ledger[u], j, op, amount)
        BY <3>1, <3>4, <4>1, <4>2, <4>3 DEF UndoCall
      <4>5. j < i
        BY <3>1, <3>4, <4>4 DEF Undoes
      <4>6. Undoes(ledger'[u], j, op, amount)
        BY <4>4, UndoesKept
      <4> QED BY <3>1, <3>4, <4>1, <4>2, <4>3, <4>5, <4>6
    <3> QED BY <3>2, <3>3, <3>4
  <2> QED BY <2>2, <2>3, LedgerStep
<1>3. UndoIsBacked'
  BY <1>2 DEF UndoIsBacked
<1>4. ASSUME NEW d \in Clients PROVE UndoCall(d)'
  BY <1>1 DEF UndoCall
<1> QED BY <1>3, <1>4

\* release() and refund() put back exactly what the entry they name has taken, although they
\* read that entry before their transaction opens.
THEOREM WalletUndoIsBacked == Spec => []UndoIsBacked
<1>1. Init => UndoIsBacked /\ \A c \in Clients : UndoCall(c)
  BY NoCallType DEF Init, UndoIsBacked, UndoCall, Idle
<1>2. IInv /\ (UndoIsBacked /\ \A c \in Clients : UndoCall(c)) /\ [Next]_vars =>
        (UndoIsBacked /\ \A c \in Clients : UndoCall(c))'
  BY UndoStep
<1> QED BY <1>1, <1>2, SpecIInv, PTL DEF Spec

-------------------------------------------------------------------------------
(* The payments.                                                           *)

Success == {"succeeded", "session"}

Located == \A w \in Workers : ~At(w, "idle") => work[w].event \in emitted

\* A success was created by a payment.
Backed == \A e \in emitted : e[2] \in Success => charge[e[1]] \in {"paid", "refunded"}

Knows(w) ==
  /\ At(w, "updated") => Type(w) \in Success
  /\ work[w].phase \in {"credited", "subscribed"} => Type(w) = "session"
  /\ work[w].phase \in {"credited", "subscribed", "publishing", "handled"} =>
       (Type(w) \in Success => Key(w) \in credits)

BeforePublish == {"saved", "found", "updated", "credited", "subscribed", "publishing"}
ToPublish ==
  {e \in Events : \E w \in Workers : work[w].phase \in BeforePublish /\ work[w].event = e}
Recorded(x) == saved \cap ({x} \X Success)
Counted == \A x \in Purchases : published[x] <= Cardinality(Recorded(x) \ ToPublish)

\* What is answered as handled has been.
AnswersDone == \A w \in Workers : At(w, "answering") => work[w].event \in processed

Inv1 == PaymentsTypeOK /\ Located /\ HandledOnce /\ AckedIsRecorded /\ AnswersDone
Inv2 == Inv1 /\ Backed /\ CreditsMatchEvents /\ \A w \in Workers : Knows(w)
PaymentsIInv == Inv2 /\ Counted

-------------------------------------------------------------------------------
(* Types, and one handling of each event.                                  *)

LEMMA TypeInit == PaymentsInit => Inv1
  BY PaymentsAssumption
     DEF PaymentsInit, Inv1, PaymentsTypeOK, Located, HandledOnce, Handling, AckedIsRecorded,
         AnswersDone, At, Statuses,
         DeliveryPhases, NoEvent, Events, Types

\* What a worker's delivery is made of.
LEMMA DeliveryType ==
  ASSUME Inv1, NEW w \in Workers, ~At(w, "idle")
  PROVE  /\ work[w].event \in emitted /\ work[w].event \in Events
         /\ work[w].phase \in DeliveryPhases
         /\ Of(w) \in Purchases /\ Type(w) \in Types
         /\ work[w].event = <<Of(w), Type(w)>>
  <1>1. work[w].event \in emitted /\ work[w].event \in Events /\ work[w].phase \in DeliveryPhases
    BY DEF Inv1, PaymentsTypeOK, Located
  <1>2. QED
    BY <1>1 DEF Events, Of, Type

LEMMA BuyerTypes ==
  ASSUME Inv1, NEW x \in Purchases, Buyer(x)
  PROVE  Inv1'
  <1>1. /\ UNCHANGED <<work, saved, processed, acked, failures>> /\ emitted \subseteq emitted'
        /\ UNCHANGED <<credits, subscription, published>>
    BY DEF Buyer, CreatePaymentIntent, CreateCheckoutSession, Decline, Pay, Refund, tables
  <1>2. emitted' \subseteq Events
    BY DEF Buyer, CreatePaymentIntent, CreateCheckoutSession, Decline, Pay, Refund, Inv1,
           PaymentsTypeOK, Events, Types
  <1>3. /\ charge' \in [Purchases -> {"none", "open", "paid", "refunded"}]
        /\ payment' \in [Purchases -> [status : Statuses, linked : BOOLEAN]]
    <2>1. CASE CreatePaymentIntent(x)
      BY <2>1 DEF CreatePaymentIntent, Inv1, PaymentsTypeOK, Statuses
    <2>2. CASE CreateCheckoutSession(x)
      BY <2>2 DEF CreateCheckoutSession, Inv1, PaymentsTypeOK, Statuses
    <2>3. CASE Decline(x) \/ Pay(x) \/ Refund(x)
      BY <2>3 DEF Decline, Pay, Refund, Inv1, PaymentsTypeOK, tables
    <2>4. QED
      BY <2>1, <2>2, <2>3 DEF Buyer
  <1>4. PaymentsTypeOK'
    BY <1>1, <1>2, <1>3 DEF Inv1, PaymentsTypeOK
  <1>5. Located' /\ HandledOnce' /\ AckedIsRecorded' /\ AnswersDone'
    BY <1>1 DEF Inv1, Located, At, HandledOnce, Handling, AckedIsRecorded, AnswersDone
  <1>6. QED
    BY <1>4, <1>5 DEF Inv1

\* A step of a handling leaves Stripe's side alone, but for the answer, and moves its
\* worker on or ends its delivery.
LEMMA HandleStep ==
  ASSUME Inv1, NEW w \in Workers, Handle(w) \/ SwallowError(w) \/ FailDelivery(w)
  PROVE  /\ ~At(w, "idle") /\ UNCHANGED <<charge, emitted>>
         /\ Answer(w) \/ \E phase \in DeliveryPhases \ {"idle", "received"} : Go(w, phase)
         /\ work' \in [Workers -> [phase : DeliveryPhases, event : Events \cup {NoEvent}]]
         /\ \A v \in Workers \ {w} : work'[v] = work[v]
         /\ work'[w].phase # "idle" => work'[w].event = work[w].event
  <1>1. ~At(w, "idle") /\ UNCHANGED <<charge, emitted>>
    BY DEF Handle, Deduplicate, SaveEvent, FindPayment, UpdatePayment, CreditWallet,
           CreateSubscription, ActivateSubscription, Publish, MarkProcessed, Acknowledge,
           SwallowError, FailDelivery, At, stripe
  <1>2. Answer(w) \/ \E phase \in DeliveryPhases \ {"idle", "received"} : Go(w, phase)
    BY DEF Handle, Deduplicate, SaveEvent, FindPayment, UpdatePayment, CreditWallet,
           CreateSubscription, ActivateSubscription, Publish, MarkProcessed, Acknowledge,
           SwallowError, FailDelivery, DeliveryPhases
  <1>3. CASE Answer(w)
    BY <1>1, <1>2, <1>3 DEF Answer, Inv1, PaymentsTypeOK, DeliveryPhases
  <1>4. CASE \E phase \in DeliveryPhases \ {"idle", "received"} : Go(w, phase)
    BY <1>1, <1>2, <1>4 DEF Go, Inv1, PaymentsTypeOK
  <1>5. QED
    BY <1>2, <1>3, <1>4

\* The tables keep their types.
LEMMA HandleTypes ==
  ASSUME Inv1, NEW w \in Workers, Handle(w) \/ SwallowError(w) \/ FailDelivery(w)
  PROVE  PaymentsTypeOK'
  <1>1. /\ ~At(w, "idle") /\ UNCHANGED <<charge, emitted>>
        /\ work' \in [Workers -> [phase : DeliveryPhases, event : Events \cup {NoEvent}]]
    BY HandleStep
  <1>2. work[w].event \in emitted /\ Of(w) \in Purchases /\ Type(w) \in Types
    BY <1>1, DeliveryType
  <1>3. payment' \in [Purchases -> [status : Statuses, linked : BOOLEAN]]
    <2>1. StatusAfter(Type(w)) \in Statuses
      BY <1>2 DEF StatusAfter, Types, Statuses
    <2>2. CASE UpdatePayment(w)
      BY <2>1, <2>2 DEF UpdatePayment, Inv1, PaymentsTypeOK
    <2>3. CASE UNCHANGED payment
      BY <2>3 DEF Inv1, PaymentsTypeOK
    <2>4. QED
      BY <2>2, <2>3 DEF Handle, Deduplicate, SaveEvent, FindPayment, CreditWallet,
        CreateSubscription, ActivateSubscription, Publish, MarkProcessed, Acknowledge,
        SwallowError, FailDelivery,
        tables
  <1>4. credits' \subseteq Purchases \X {"intent", "session"}
    <2>1. Key(w) \in Purchases \X {"intent", "session"}
      BY <1>2 DEF Key
    <2>2. credits' \subseteq credits \cup {Key(w)}
      BY DEF Handle, Deduplicate, SaveEvent, FindPayment, UpdatePayment, CreditWallet,
        CreateSubscription, ActivateSubscription, Publish, MarkProcessed, Acknowledge,
        SwallowError, FailDelivery,
        tables
    <2>3. QED
      BY <2>1, <2>2 DEF Inv1, PaymentsTypeOK
  <1>5. subscription' \in [Checkouts -> {"none", "pending", "active"}]
    BY DEF Handle, Deduplicate, SaveEvent, FindPayment, UpdatePayment, CreditWallet,
      CreateSubscription, ActivateSubscription, Publish, MarkProcessed, Acknowledge,
      SwallowError, FailDelivery,
      tables, Inv1, PaymentsTypeOK
  <1>6. published' \in [Purchases -> Nat]
    BY <1>2 DEF Handle, Deduplicate, SaveEvent, FindPayment, UpdatePayment, CreditWallet,
      CreateSubscription, ActivateSubscription, Publish, MarkProcessed, Acknowledge,
      SwallowError, FailDelivery,
      tables, Inv1, PaymentsTypeOK
  <1>7. /\ saved' \subseteq saved \cup {work[w].event}
        /\ \/ processed' = processed
           \/ At(w, "handled") /\ processed' = processed \cup {work[w].event}
        /\ saved \subseteq saved'
        /\ acked' \subseteq acked \cup {work[w].event}
    BY DEF Handle, Deduplicate, SaveEvent, FindPayment, UpdatePayment, CreditWallet,
      CreateSubscription, ActivateSubscription, Publish, MarkProcessed, Acknowledge,
      SwallowError, FailDelivery,
      tables, stripe
  <1>8. /\ saved' \subseteq emitted' /\ acked' \subseteq emitted'
        /\ processed' \subseteq saved'
    BY <1>1, <1>2, <1>7 DEF Inv1, PaymentsTypeOK, HandledOnce, Handling, At, DeliveryPhases
  <1>9. failures' \in 0..MaxFailures
    BY PaymentsAssumption DEF Handle, Deduplicate, SaveEvent, FindPayment, UpdatePayment,
      CreditWallet,
      CreateSubscription, ActivateSubscription, Publish, MarkProcessed, Acknowledge,
      SwallowError, FailDelivery,
      Inv1, PaymentsTypeOK
  <1>10. QED
    BY <1>1, <1>3, <1>4, <1>5, <1>6, <1>8, <1>9 DEF Inv1, PaymentsTypeOK

LEMMA HandleOnceStep ==
  ASSUME Inv1, NEW w \in Workers, Handle(w) \/ SwallowError(w) \/ FailDelivery(w)
  PROVE  Inv1'
  <1>1. /\ ~At(w, "idle") /\ UNCHANGED <<charge, emitted>>
        /\ \A v \in Workers \ {w} : work'[v] = work[v]
        /\ work'[w].phase # "idle" => work'[w].event = work[w].event
    BY HandleStep
  <1>2. work[w].event \in emitted
    BY <1>1, DeliveryType
  <1>3. /\ saved \subseteq saved'
        /\ processed' = processed \/ (Handling(w) /\ processed' = processed \cup {work[w].event})
        /\ acked' = acked \/ (work[w].event \in saved /\ acked' = acked \cup {work[w].event})
    BY DEF Handle, Deduplicate, SaveEvent, FindPayment, UpdatePayment, CreditWallet,
      CreateSubscription, ActivateSubscription, Publish, MarkProcessed, Acknowledge,
      SwallowError, FailDelivery,
      tables, stripe, Inv1, PaymentsTypeOK, AnswersDone, HandledOnce, Handling, At,
      DeliveryPhases
  <1>4. Handling(w)' => /\ Handling(w) \/ work[w].event \notin saved
                        /\ work[w].event \in saved' /\ processed' = processed
    <2>1. Handling(w)' => ~Answer(w)
      BY DEF Answer, Handling, Inv1, PaymentsTypeOK
    <2>2. CASE SaveEvent(w)
      BY <2>1, <2>2 DEF SaveEvent
    <2>3. CASE ~SaveEvent(w)
      <3>1. Handling(w)' => Handling(w) /\ processed' = processed
        BY <2>1, <2>3 DEF Handle, Deduplicate, FindPayment, UpdatePayment, CreditWallet,
          CreateSubscription, ActivateSubscription, Publish, MarkProcessed, Acknowledge,
          SwallowError, FailDelivery,
          tables, Go, Handling, At, DeliveryPhases, Inv1, PaymentsTypeOK
      <3>2. QED
        BY <1>3, <3>1 DEF Inv1, HandledOnce
    <2>4. QED BY <2>2, <2>3
  <1>5. \A v \in Workers \ {w} : Handling(v)' => Handling(v) /\ work'[v].event = work[v].event
    BY <1>1 DEF Handling
  <1>6. Handling(w)' => work'[w].event = work[w].event
    BY <1>1 DEF Handling
  <1>7. HandledOnce'
    <2>1. ASSUME NEW v \in Workers, NEW z \in Workers, v # z, Handling(v)', Handling(z)'
          PROVE  work'[v].event # work'[z].event
      BY <1>4, <1>5, <1>6, <2>1 DEF Inv1, HandledOnce
    <2>2. ASSUME NEW v \in Workers, Handling(v)'
          PROVE  work'[v].event \in saved' \ processed'
      <3>1. CASE v = w
        BY <1>4, <1>6, <2>2, <3>1 DEF Inv1, HandledOnce, PaymentsTypeOK
      <3>2. CASE v # w
        BY <1>3, <1>5, <2>2, <3>2 DEF Inv1, HandledOnce
      <3>3. QED BY <3>1, <3>2
    <2>3. QED
      BY <2>1, <2>2 DEF HandledOnce
  <1>8. AckedIsRecorded'
    BY <1>3 DEF Inv1, AckedIsRecorded
  <1>9. Located'
    BY <1>1, <1>2 DEF Inv1, Located, At
  <1>10. AnswersDone'
    <2>1. ASSUME NEW v \in Workers \ {w}, At(v, "answering")' PROVE work'[v].event \in processed'
      BY <1>1, <1>3, <2>1 DEF Inv1, AnswersDone, At
    <2>2. ASSUME At(w, "answering")' PROVE work'[w].event \in processed'
      <3>1. ~Answer(w)
        BY <2>2 DEF Answer, At, Inv1, PaymentsTypeOK
      <3>2. MarkProcessed(w)
        BY <2>2, <3>1 DEF Handle, Deduplicate, SaveEvent, FindPayment, UpdatePayment, CreditWallet,
          CreateSubscription, ActivateSubscription, Publish, Acknowledge, SwallowError,
          FailDelivery, Go, At, Inv1, PaymentsTypeOK
      <3>3. work'[w].phase # "idle"
        BY <2>2 DEF At
      <3>4. QED
        BY <1>1, <3>2, <3>3 DEF MarkProcessed
    <2>3. QED
      BY <2>1, <2>2 DEF AnswersDone
  <1>11. QED
    BY <1>7, <1>8, <1>9, <1>10, HandleTypes DEF Inv1

LEMMA DeliverStep ==
  ASSUME Inv1, NEW w \in Workers, Deliver(w)
  PROVE  Inv1'
  <1>1. PaymentsTypeOK' /\ Located'
    BY DEF Deliver, Inv1, PaymentsTypeOK, Located, At, stripe, tables, DeliveryPhases
  <1>2. \A v \in Workers : Handling(v)' => Handling(v) /\ work'[v] = work[v]
    BY DEF Deliver, Handling, Inv1, PaymentsTypeOK
  <1>3. HandledOnce' /\ AckedIsRecorded'
    BY <1>2 DEF Deliver, Inv1, HandledOnce, AckedIsRecorded, stripe, tables
  <1>4. AnswersDone'
    <2>1. \A v \in Workers : At(v, "answering")' => At(v, "answering") /\ work'[v] = work[v]
      BY DEF Deliver, At, Inv1, PaymentsTypeOK
    <2>2. QED
      BY <2>1 DEF Deliver, Inv1, AnswersDone, tables
  <1>5. QED
    BY <1>1, <1>3, <1>4 DEF Inv1

LEMMA Step1 ==
  ASSUME Inv1, [PaymentsNext]_paymentsVars
  PROVE  Inv1'
  <1>1. CASE UNCHANGED paymentsVars
    BY <1>1 DEF paymentsVars, stripe, tables, Inv1, PaymentsTypeOK, Located, At, HandledOnce,
      Handling, AckedIsRecorded, AnswersDone
  <1>2. QED
    BY <1>1, BuyerTypes, DeliverStep, HandleOnceStep DEF PaymentsNext

-------------------------------------------------------------------------------
(* Credits and events.                                                     *)

LEMMA BuyerCredits ==
  ASSUME Inv2, NEW x \in Purchases, Buyer(x)
  PROVE  Inv2'
  <1>1. /\ UNCHANGED <<work, saved, processed, credits, published>>
        /\ \A y \in Purchases :
             charge[y] \in {"paid", "refunded"} => charge'[y] \in {"paid", "refunded"}
    BY DEF Buyer, CreatePaymentIntent, CreateCheckoutSession, Decline, Pay, Refund, tables,
           Opened,
           Inv2, Inv1, PaymentsTypeOK
  <1>2. Inv1'
    BY BuyerTypes DEF Inv2
  <1>3. \A e \in emitted' : e \in emitted \/ e[2] \notin Success
                            \/ (e[1] = x /\ charge'[x] \in {"paid", "refunded"})
    BY DEF Buyer, CreatePaymentIntent, CreateCheckoutSession, Decline, Pay, Refund, Success,
           Inv2, Inv1, PaymentsTypeOK
  <1>4. Backed'
    BY <1>1, <1>3 DEF Backed, Inv2, Inv1, PaymentsTypeOK, Events
  <1>5. CreditsMatchEvents'
    BY <1>1 DEF Inv2, CreditsMatchEvents
  <1>6. \A w \in Workers : Knows(w)'
    BY <1>1 DEF Inv2, Knows, At, Type, Of, Key
  <1>7. QED
    BY <1>2, <1>4, <1>5, <1>6 DEF Inv2

LEMMA DeliverCredits ==
  ASSUME Inv2, NEW w \in Workers, Deliver(w)
  PROVE  Inv2'
  <1>1. Inv1'
    BY DeliverStep DEF Inv2
  <1>2. \A v \in Workers : work'[v] = work[v] \/ work'[v].phase = "received"
    BY DEF Deliver, Inv2, Inv1, PaymentsTypeOK
  <1>3. UNCHANGED <<charge, emitted, processed, credits>>
    BY DEF Deliver, stripe, tables
  <1>4. \A v \in Workers : Knows(v)'
    BY <1>2, <1>3 DEF Inv2, Knows, At, Type, Of, Key
  <1>5. QED
    BY <1>1, <1>3, <1>4 DEF Inv2, Backed, CreditsMatchEvents

LEMMA HandleCredits ==
  ASSUME Inv2, NEW w \in Workers, Handle(w) \/ SwallowError(w) \/ FailDelivery(w)
  PROVE  Inv2'
  <1>1. Inv1 /\ Inv1' /\ Knows(w)
    BY HandleOnceStep DEF Inv2
  <1>2. /\ ~At(w, "idle") /\ UNCHANGED <<charge, emitted>>
        /\ \A v \in Workers \ {w} : work'[v] = work[v]
        /\ work'[w].phase # "idle" => work'[w].event = work[w].event
    BY <1>1, HandleStep
  <1>3. /\ work[w].event \in emitted /\ work[w].event = <<Of(w), Type(w)>>
        /\ Of(w) \in Purchases /\ Type(w) \in Types
    BY <1>1, <1>2, DeliveryType
  <1>4. /\ credits \subseteq credits'
        /\ credits' = credits \/ (At(w, "updated") /\ credits' = credits \cup {Key(w)})
        /\ \/ processed' = processed
           \/ At(w, "handled") /\ processed' = processed \cup {work[w].event}
    BY DEF Handle, Deduplicate, SaveEvent, FindPayment, UpdatePayment, CreditWallet,
      CreateSubscription, ActivateSubscription, Publish, MarkProcessed, Acknowledge,
      SwallowError, FailDelivery,
      tables
  <1>5. Backed'
    BY <1>2 DEF Inv2, Backed
  <1>6. CreditsMatchEvents'
    <2>. DEFINE Posted(type) == IF type = "session" THEN "session" ELSE "intent"
    <2>1. ASSUME NEW x \in Purchases, NEW type \in Success, <<x, type>> \in processed'
          PROVE  <<x, Posted(type)>> \in credits'
      <3>1. CASE <<x, type>> \in processed
        BY <1>4, <3>1 DEF Inv2, CreditsMatchEvents, Success
      <3>2. CASE At(w, "handled") /\ <<x, type>> = work[w].event
        <4>1. x = Of(w) /\ type = Type(w)
          BY <1>3, <3>2
        <4>2. Key(w) \in credits
          BY <1>1, <3>2, <4>1 DEF Knows, At
        <4>3. QED
          BY <1>4, <4>1, <4>2 DEF Key
      <3>3. QED
        BY <1>4, <2>1, <3>1, <3>2
    <2>2. ASSUME NEW x \in Purchases
          PROVE  /\ <<x, "succeeded">> \in processed' => <<x, "intent">> \in credits'
                 /\ <<x, "session">> \in processed' => <<x, "session">> \in credits'
      BY <2>1 DEF Success
    <2>3. ASSUME NEW x \in Purchases, NEW kind \in {"intent", "session"}, <<x, kind>> \in credits'
          PROVE  charge'[x] \in {"paid", "refunded"}
      <3>1. CASE <<x, kind>> \in credits
        BY <1>2, <3>1 DEF Inv2, CreditsMatchEvents
      <3>2. CASE <<x, kind>> = Key(w) /\ At(w, "updated")
        <4>1. x = Of(w) /\ Type(w) \in Success
          BY <1>1, <3>2 DEF Key, Knows
        <4>2. charge[Of(w)] \in {"paid", "refunded"}
          BY <1>3, <4>1 DEF Inv2, Backed
        <4>3. QED
          BY <1>2, <4>1, <4>2
      <3>3. QED
        BY <1>4, <2>3, <3>1, <3>2
    <2>4. QED
      BY <2>2, <2>3 DEF CreditsMatchEvents
  <1>7. ASSUME NEW v \in Workers \ {w} PROVE Knows(v)'
    BY <1>2, <1>4 DEF Inv2, Knows, At, Type, Of, Key
  <1>8. Knows(w)'
    <2>1. CASE Answer(w)
      BY <2>1 DEF Answer, Knows, At, Inv2, Inv1, PaymentsTypeOK
    <2>2. CASE ~Answer(w)
      <3>1. /\ work'[w].phase = "updated" => At(w, "found") /\ Type(w) \in Success
            /\ work'[w].phase = "credited" =>
                 At(w, "updated") /\ Type(w) = "session" /\ Key(w) \in credits'
            /\ work'[w].phase = "subscribed" => At(w, "credited")
            /\ work'[w].phase = "publishing" =>
                 \/ Type(w) \notin Success
                 \/ At(w, "updated") /\ Key(w) \in credits'
                 \/ work[w].phase \in {"credited", "subscribed"}
            /\ work'[w].phase = "handled" => Type(w) \notin Success \/ At(w, "publishing")
        BY <2>2 DEF Handle, Deduplicate, SaveEvent, FindPayment, UpdatePayment, CreditWallet,
          CreateSubscription, ActivateSubscription, Publish, MarkProcessed, Acknowledge,
          SwallowError, FailDelivery,
          Go, Success, At, Inv2, Inv1, PaymentsTypeOK
      <3>2. work'[w].phase # "idle"
        BY <2>2 DEF Handle, Deduplicate, SaveEvent, FindPayment, UpdatePayment, CreditWallet,
          CreateSubscription, ActivateSubscription, Publish, MarkProcessed, Acknowledge,
          SwallowError, FailDelivery,
          Go, Inv2, Inv1, PaymentsTypeOK
      <3>3. Type(w)' = Type(w) /\ Of(w)' = Of(w) /\ Key(w)' = Key(w)
        BY <1>2, <3>2 DEF Type, Of, Key
      <3>4. QED
        BY <1>1, <1>4, <3>1, <3>3 DEF Knows, At, Success
    <2>3. QED BY <2>1, <2>2
  <1>9. QED
    BY <1>1, <1>5, <1>6, <1>7, <1>8 DEF Inv2

LEMMA Step2 ==
  ASSUME Inv2, [PaymentsNext]_paymentsVars
  PROVE  Inv2'
  <1>1. CASE UNCHANGED paymentsVars
    <2>1. Inv1'
      BY Step1 DEF Inv2
    <2>2. QED
      BY <1>1, <2>1 DEF paymentsVars, stripe, tables, Inv2, Backed, CreditsMatchEvents, Knows, At,
                        Type, Of, Key
  <1>2. QED
    BY <1>1, BuyerCredits, DeliverCredits, HandleCredits DEF PaymentsNext

-------------------------------------------------------------------------------
(* What is published.                                                      *)

LEMMA RecordedFinite ==
  ASSUME NEW x, NEW S
  PROVE  IsFiniteSet(S \cap ({x} \X Success))
  <1>1. IsFiniteSet({<<x, "succeeded">>})
    BY FS_Singleton
  <1>2. IsFiniteSet({<<x, "succeeded">>} \cup {<<x, "session">>})
    BY <1>1, FS_AddElement
  <1>3. S \cap ({x} \X Success) \subseteq {<<x, "succeeded">>} \cup {<<x, "session">>}
    BY DEF Success
  <1>4. QED
    BY <1>2, <1>3, FS_Subset

\* Steps that publish nothing and bring no recorded event back before its publishing.
LEMMA CountedStep ==
  ASSUME Inv2, Counted, NEW x \in Purchases,
         published'[x] = published[x], saved \subseteq saved',
         (ToPublish \cap saved)' \cap saved \subseteq ToPublish
  PROVE  published'[x] <= Cardinality(Recorded(x) \ ToPublish)'
  <1>. DEFINE A == Recorded(x) \ ToPublish
  <1>. DEFINE B == Recorded(x)' \ ToPublish'
  <1>1. A \subseteq B
    BY DEF Recorded
  <1>2. IsFiniteSet(B)
    <2>1. IsFiniteSet(Recorded(x)')
      BY RecordedFinite DEF Recorded
    <2>2. QED BY <2>1, FS_Subset
  <1>3. Cardinality(A) <= Cardinality(B) /\ Cardinality(A) \in Nat /\ Cardinality(B) \in Nat
    BY <1>1, <1>2, FS_Subset, FS_CardinalityType
  <1>4. published[x] <= Cardinality(A) /\ published[x] \in Nat
    BY DEF Counted, Inv2, Inv1, PaymentsTypeOK
  <1>. HIDE DEF A, B
  <1>5. published'[x] <= Cardinality(B)
    BY <1>3, <1>4
  <1>6. QED
    BY <1>5 DEF B

\* A success that is published leaves ToPublish: the room for one more event.
LEMMA PublishStep ==
  ASSUME Inv2, Counted, NEW w \in Workers, Publish(w), Type(w) \in Success
  PROVE  Counted'
  <1>1. /\ At(w, "publishing") /\ Inv1 /\ Handling(w)
        /\ published' = [published EXCEPT ![Of(w)] = @ + 1] /\ saved' = saved
        /\ Go(w, "handled")
    BY DEF Publish, Success, Inv2, Handling, At, DeliveryPhases
  <1>2. /\ Of(w) \in Purchases /\ work[w].event = <<Of(w), Type(w)>> /\ work[w].event \in Events
    BY <1>1, DeliveryType DEF At
  <1>3. ToPublish' = ToPublish \ {work[w].event} /\ work[w].event \in ToPublish
    <2>1. work[w].event \in ToPublish
      BY <1>1, <1>2 DEF ToPublish, BeforePublish, At
    <2>2. /\ \A v \in Workers \ {w} : work'[v] = work[v]
          /\ work'[w].phase = "handled"
      BY <1>1 DEF Go, Inv1, PaymentsTypeOK
    <2>3. \A v \in Workers \ {w} :
            work[v].phase \in BeforePublish => work[v].event # work[w].event
      BY <1>1 DEF Inv1, HandledOnce, Handling, BeforePublish, DeliveryPhases
    <2>4. QED
      BY <2>1, <2>2, <2>3 DEF ToPublish, BeforePublish
  <1>4. work[w].event \in saved
    BY <1>1 DEF Inv1, HandledOnce
  <1>5. ASSUME NEW x \in Purchases, x # Of(w)
        PROVE  published'[x] <= Cardinality(Recorded(x) \ ToPublish)'
    BY <1>1, <1>3, <1>5, CountedStep DEF Inv1, PaymentsTypeOK
  <1>6. ASSUME NEW x \in Purchases, x = Of(w)
        PROVE  published'[x] <= Cardinality(Recorded(x) \ ToPublish)'
    <2>. DEFINE A == Recorded(x) \ ToPublish
    <2>. DEFINE B == Recorded(x)' \ ToPublish'
    <2>1. IsFiniteSet(A) /\ IsFiniteSet(B)
      BY RecordedFinite, FS_Subset DEF Recorded
    <2>2. Cardinality(A \cup {work[w].event}) = Cardinality(A) + 1 /\ Cardinality(A) \in Nat
      BY <1>3, <2>1, FS_AddElement, FS_CardinalityType
    <2>3. published[x] <= Cardinality(A) /\ published[x] \in Nat
      BY DEF Counted, Inv2, Inv1, PaymentsTypeOK
    <2>4. A \cup {work[w].event} \subseteq B
      BY <1>1, <1>2, <1>3, <1>4, <1>6 DEF Recorded
    <2>5. Cardinality(A \cup {work[w].event}) <= Cardinality(B) /\ Cardinality(B) \in Nat
      BY <2>1, <2>4, FS_Subset, FS_CardinalityType
    <2>6. published'[x] = published[x] + 1
      BY <1>1, <1>6 DEF Inv1, PaymentsTypeOK
    <2>. HIDE DEF A, B
    <2>7. published'[x] <= Cardinality(B)
      BY <2>2, <2>3, <2>5, <2>6
    <2>8. QED
      BY <2>7 DEF B
  <1>7. QED
    BY <1>5, <1>6 DEF Counted

LEMMA HandleCounted ==
  ASSUME Inv2, Counted, NEW w \in Workers, Handle(w) \/ SwallowError(w) \/ FailDelivery(w),
         ~(Publish(w) /\ Type(w) \in Success)
  PROVE  Counted'
  <1>1. Inv1 /\ ~At(w, "idle")
    BY HandleStep DEF Inv2
  <1>2. /\ \A v \in Workers \ {w} : work'[v] = work[v]
        /\ work'[w].phase # "idle" => work'[w].event = work[w].event
    BY <1>1, HandleStep
  <1>3. published' = published /\ saved \subseteq saved'
    BY DEF Handle, Deduplicate, SaveEvent, FindPayment, UpdatePayment, CreditWallet,
      CreateSubscription, ActivateSubscription, Publish, MarkProcessed, Acknowledge,
      SwallowError, FailDelivery,
      tables, Success
  <1>4. work'[w].phase \in BeforePublish =>
          work[w].phase \in BeforePublish \/ work[w].event \notin saved
    <2>1. CASE Answer(w)
      BY <2>1 DEF Answer, BeforePublish, Inv2, Inv1, PaymentsTypeOK
    <2>2. CASE ~Answer(w)
      BY <2>2 DEF Handle, Deduplicate, SaveEvent, FindPayment, UpdatePayment, CreditWallet,
        CreateSubscription, ActivateSubscription, Publish, MarkProcessed, Acknowledge,
        SwallowError, FailDelivery,
        Go, At, BeforePublish, Inv2, Inv1, PaymentsTypeOK
    <2>3. QED BY <2>1, <2>2
  <1>5. (ToPublish \cap saved)' \cap saved \subseteq ToPublish
    <2>1. SUFFICES ASSUME NEW e \in ToPublish', e \in saved PROVE e \in ToPublish
      OBVIOUS
    <2>2. PICK v \in Workers : work'[v].phase \in BeforePublish /\ work'[v].event = e
      BY <2>1 DEF ToPublish
    <2>3. work[v].phase \in BeforePublish /\ work[v].event = e
      <3>1. CASE v = w
        <4>1. work'[w].phase # "idle"
          BY <2>2, <3>1 DEF BeforePublish
        <4>2. QED
          BY <1>2, <1>4, <2>1, <2>2, <3>1, <4>1
      <3>2. CASE v # w
        BY <1>2, <2>2, <3>2
      <3>3. QED BY <3>1, <3>2
    <2>4. e \in Events
      BY <2>1 DEF ToPublish, Events, Purchases, Types
    <2>5. QED
      BY <2>3, <2>4 DEF ToPublish
  <1>6. QED
    BY <1>3, <1>5, CountedStep DEF Counted

LEMMA IdleCounted ==
  ASSUME Inv2, Counted,
         \/ \E x \in Purchases : Buyer(x)
         \/ \E w \in Workers : Deliver(w)
         \/ UNCHANGED paymentsVars
  PROVE  Counted'
  <1>1. UNCHANGED <<published, saved>>
    BY DEF Buyer, CreatePaymentIntent, CreateCheckoutSession, Decline, Pay, Refund, Deliver,
           tables, paymentsVars
  <1>2. \A v \in Workers : work'[v].phase \in BeforePublish => work'[v] = work[v]
    <2>1. CASE \E x \in Purchases : Buyer(x)
      BY <2>1 DEF Buyer, CreatePaymentIntent, CreateCheckoutSession, Decline, Pay, Refund
    <2>2. ASSUME NEW w \in Workers, Deliver(w)
          PROVE  \A v \in Workers : work'[v] = work[v] \/ work'[v].phase = "received"
      BY <2>2 DEF Deliver, Inv2, Inv1, PaymentsTypeOK
    <2>3. CASE \E w \in Workers : Deliver(w)
      BY <2>2, <2>3 DEF BeforePublish
    <2>4. CASE UNCHANGED paymentsVars
      BY <2>4 DEF paymentsVars
    <2>5. QED
      BY <2>1, <2>3, <2>4
  <1>3. (ToPublish \cap saved)' \cap saved \subseteq ToPublish
    BY <1>2 DEF ToPublish, Events, Purchases, Types
  <1>4. QED
    BY <1>1, <1>3, CountedStep DEF Counted

-------------------------------------------------------------------------------
(* The theorems.                                                           *)

LEMMA PaymentsInitIInv == PaymentsInit => PaymentsIInv
  <1>1. PaymentsInit => Inv1
    BY TypeInit
  <1>2. PaymentsInit => Inv2
    <2>1. PaymentsInit => Backed /\ CreditsMatchEvents
      BY DEF PaymentsInit, Backed, CreditsMatchEvents
    <2>2. PaymentsInit => \A w \in Workers : Knows(w)
      BY DEF PaymentsInit, Knows, At
    <2>3. QED
      BY <1>1, <2>1, <2>2 DEF Inv2
  <1>3. ASSUME PaymentsInit PROVE Counted
    <2>1. ASSUME NEW x \in Purchases PROVE 0 <= Cardinality(Recorded(x) \ ToPublish)
      <3>1. IsFiniteSet(Recorded(x) \ ToPublish)
        BY RecordedFinite, FS_Subset DEF Recorded
      <3>2. QED
        BY <3>1, FS_CardinalityType
    <2>2. QED
      BY <1>3, <2>1 DEF PaymentsInit, Counted
  <1>4. QED
    BY <1>2, <1>3 DEF PaymentsIInv

LEMMA PaymentsStepIInv == PaymentsIInv /\ [PaymentsNext]_paymentsVars => PaymentsIInv'
  <1>1. SUFFICES ASSUME Inv2, Counted, [PaymentsNext]_paymentsVars PROVE Inv2' /\ Counted'
    BY DEF PaymentsIInv
  <1>2. Inv2'
    BY <1>1, Step2
  <1>3. Counted'
    BY <1>1, IdleCounted, HandleCounted, PublishStep DEF PaymentsNext
  <1>4. QED
    BY <1>2, <1>3

LEMMA PaymentsInvariant == PaymentsSpec => []PaymentsIInv
  BY PaymentsInitIInv, PaymentsStepIInv, PTL DEF PaymentsSpec

\* Tables, deliveries and Stripe's side always have their types; what is answered or
\* recorded is an event Stripe has created.
THEOREM PaymentsTypeCorrect == PaymentsSpec => []PaymentsTypeOK
  <1>1. PaymentsIInv => PaymentsTypeOK
    BY DEF PaymentsIInv, Inv2, Inv1
  <1>2. QED
    BY <1>1, PaymentsInvariant, PTL

\* Of the deliveries of an event one is handled, for any number of workers.
THEOREM PaymentsHandledOnce == PaymentsSpec => []HandledOnce
  <1>1. PaymentsIInv => HandledOnce
    BY DEF PaymentsIInv, Inv2, Inv1
  <1>2. QED
    BY <1>1, PaymentsInvariant, PTL

\* No event is answered with success before it is recorded.
THEOREM PaymentsAckedIsRecorded == PaymentsSpec => []AckedIsRecorded
  <1>1. PaymentsIInv => AckedIsRecorded
    BY DEF PaymentsIInv, Inv2, Inv1
  <1>2. QED
    BY <1>1, PaymentsInvariant, PTL

\* A processed success has its credit, and a credit has its payment at Stripe.
THEOREM PaymentsCreditsMatchEvents == PaymentsSpec => []CreditsMatchEvents
  <1>1. PaymentsIInv => CreditsMatchEvents
    BY DEF PaymentsIInv, Inv2
  <1>2. QED
    BY <1>1, PaymentsInvariant, PTL

\* No payment is announced as completed more often than success events of it are
\* recorded.
THEOREM PaymentsPublishedOncePerEvent == PaymentsSpec => []PublishedOncePerEvent
  <1>1. ASSUME PaymentsIInv PROVE PublishedOncePerEvent
    <2>1. ASSUME NEW x \in Purchases
          PROVE  published[x] <= Cardinality(Recorded(x))
      <3>. DEFINE A == Recorded(x) \ ToPublish
      <3>1. IsFiniteSet(Recorded(x)) /\ IsFiniteSet(A)
        BY RecordedFinite, FS_Subset DEF Recorded
      <3>2. /\ Cardinality(A) <= Cardinality(Recorded(x))
            /\ Cardinality(A) \in Nat /\ Cardinality(Recorded(x)) \in Nat
        BY <3>1, FS_Subset, FS_CardinalityType
      <3>3. published[x] <= Cardinality(A) /\ published[x] \in Nat
        BY <1>1 DEF PaymentsIInv, Counted, Inv2, Inv1, PaymentsTypeOK
      <3>. HIDE DEF A
      <3>4. QED
        BY <3>2, <3>3
    <2>2. QED
      BY <2>1 DEF PublishedOncePerEvent, Recorded, Success
  <1>2. QED
    BY <1>1, PaymentsInvariant, PTL

\* The record of events is right: the three facts about it, together.
THEOREM PaymentsEventsOnRecord == PaymentsSpec => []EventsOnRecord
  <1>1. HandledOnce /\ AckedIsRecorded /\ PublishedOncePerEvent => EventsOnRecord
    BY DEF EventsOnRecord
  <1>2. QED
    BY <1>1, PaymentsHandledOnce, PaymentsAckedIsRecorded, PaymentsPublishedOncePerEvent, PTL

-------------------------------------------------------------------------------
(* What is lost only by a failure.                                         *)

\* The success event of a checkout that comes before its session finds no payment.
Unmatched == Checkouts \X {"succeeded"}

\* A payment that was charged is linked to its intent.
Linked == \A x \in Intents : charge[x] # "none" => payment[x].linked

\* A worker has the event and has not answered it.
InHand(e) == \E w \in Workers : Handling(w) /\ work[w].event = e

\* While nothing has failed, what is recorded is processed or in a worker's hands.
NothingForgotten == failures = 0 => \A e \in saved \ processed : e \in Unmatched \/ InHand(e)

LEMMA LinkedStep ==
  ASSUME Inv2, Linked, [PaymentsNext]_paymentsVars
  PROVE  Linked'
<1>1. /\ payment \in [Purchases -> [status : Statuses, linked : BOOLEAN]]
      /\ Intents \subseteq Purchases
  BY DEF Inv2, Inv1, PaymentsTypeOK, Purchases
<1>2. ASSUME NEW x \in Purchases, Buyer(x) PROVE Linked'
  <2>1. charge \in [Purchases -> {"none", "open", "paid", "refunded"}]
    BY DEF Inv2, Inv1, PaymentsTypeOK
  <2>2. CASE CreatePaymentIntent(x)
    BY <1>1, <2>1, <2>2 DEF CreatePaymentIntent, Linked
  <2>3. CASE CreateCheckoutSession(x)
    <3>1. x \notin Intents
      BY <2>3, PaymentsAssumption DEF CreateCheckoutSession
    <3> QED BY <1>1, <2>1, <2>3, <3>1 DEF CreateCheckoutSession, Linked
  <2>4. CASE Decline(x) \/ Pay(x) \/ Refund(x)
    BY <1>1, <2>1, <2>4 DEF Decline, Pay, Refund, Linked, tables
  <2> QED BY <1>2, <2>2, <2>3, <2>4 DEF Buyer
<1>3. ASSUME NEW w \in Workers, UpdatePayment(w) PROVE Linked'
  <2>1. ~At(w, "idle") /\ Inv1
    BY <1>3 DEF UpdatePayment, At, Inv2
  <2>2. Of(w) \in Purchases
    BY <2>1, DeliveryType
  <2> QED BY <1>1, <1>3, <2>2 DEF UpdatePayment, Linked, stripe
<1>4. CASE UNCHANGED <<charge, payment>>
  BY <1>4 DEF Linked
<1>5. ASSUME NEW w \in Workers, Deliver(w) \/ Handle(w) \/ SwallowError(w) \/ FailDelivery(w)
      PROVE  Linked'
  BY <1>3, <1>4, <1>5 DEF Deliver, Handle, Deduplicate, SaveEvent, FindPayment, CreditWallet,
     CreateSubscription, ActivateSubscription, Publish, MarkProcessed, Acknowledge,
           SwallowError, FailDelivery, stripe, tables
<1>6. CASE UNCHANGED paymentsVars
  BY <1>4, <1>6 DEF paymentsVars, stripe, tables
<1> QED BY <1>2, <1>5, <1>6 DEF PaymentsNext

\* A delivery lets go of an event when it is processed, when it could not be recorded, or when
\* it found no payment.
LEMMA LetGo ==
  ASSUME Inv2, Linked, NEW w \in Workers, Handle(w)
  PROVE  \/ Handling(w)' /\ work'[w].event = work[w].event
         \/ work[w].event \in processed'
         \/ work[w].event \in Unmatched
         \/ ~Handling(w) /\ saved' = saved
<1>1. Inv1 /\ ~At(w, "idle")
  BY HandleStep DEF Inv2
<1>2. /\ Of(w) \in Purchases /\ Type(w) \in Types /\ work[w].event = <<Of(w), Type(w)>>
      /\ work[w].event \in emitted /\ work \in [Workers -> [phase : DeliveryPhases,
                                                           event : Events \cup {NoEvent}]]
  BY <1>1, DeliveryType DEF Inv1, PaymentsTypeOK
<1>3. ASSUME NEW phase \in DeliveryPhases \ {"idle", "received", "fresh", "answering"}, Go(w, phase)
      PROVE  Handling(w)' /\ work'[w].event = work[w].event
  BY <1>2, <1>3 DEF Go, Handling
<1>4. CASE Deduplicate(w)
  BY <1>4 DEF Deduplicate, At, Handling, tables
<1>5. CASE SaveEvent(w)
  <2>1. CASE work[w].event \in saved
    BY <1>5, <2>1 DEF SaveEvent, At, Handling
  <2>2. CASE work[w].event \notin saved
    BY <1>3, <1>5, <2>2 DEF SaveEvent, DeliveryPhases
  <2> QED BY <2>1, <2>2
<1>6. CASE FindPayment(w)
  <2>1. CASE ~payment[Of(w)].linked /\ Type(w) = "succeeded"
    <3>1. charge[Of(w)] # "none"
      BY <1>2, <2>1 DEF Inv2, Backed, Success
    <3>2. Of(w) \in Checkouts
      BY <1>2, <2>1, <3>1 DEF Linked, Purchases
    <3> QED BY <1>2, <2>1, <3>2 DEF Unmatched
  <2>2. CASE Go(w, "found") \/ Go(w, "publishing") \/ Go(w, "handled")
    BY <1>3, <2>2 DEF DeliveryPhases
  <2> QED BY <1>6, <2>1, <2>2 DEF FindPayment
<1>7. CASE UpdatePayment(w)
  BY <1>3, <1>7 DEF UpdatePayment, DeliveryPhases
<1>8. CASE CreditWallet(w) \/ CreateSubscription(w) \/ ActivateSubscription(w) \/ Publish(w)
  BY <1>3, <1>8 DEF CreditWallet, CreateSubscription, ActivateSubscription, Publish,
                    DeliveryPhases
<1>9. CASE MarkProcessed(w)
  BY <1>9 DEF MarkProcessed
<1>10. CASE Acknowledge(w)
  BY <1>10 DEF Acknowledge, At, Handling, tables
<1> QED BY <1>4, <1>5, <1>6, <1>7, <1>8, <1>9, <1>10 DEF Handle

LEMMA NothingForgottenStep ==
  ASSUME Inv2, Linked, NothingForgotten, [PaymentsNext]_paymentsVars
  PROVE  NothingForgotten'
<1>1. work \in [Workers -> [phase : DeliveryPhases, event : Events \cup {NoEvent}]]
      /\ failures \in Nat
  BY PaymentsAssumption DEF Inv2, Inv1, PaymentsTypeOK
<1>2. CASE UNCHANGED <<saved, processed, work, failures>>
  BY <1>2 DEF NothingForgotten, InHand, Handling
<1>3. ASSUME NEW x \in Purchases, Buyer(x) PROVE UNCHANGED <<saved, processed, work, failures>>
  BY <1>3 DEF Buyer, CreatePaymentIntent, CreateCheckoutSession, Decline, Pay, Refund, tables
<1>4. ASSUME NEW w \in Workers, SwallowError(w) \/ FailDelivery(w) PROVE NothingForgotten'
  <2>1. failures' # 0
    BY <1>1, <1>4 DEF SwallowError, FailDelivery
  <2> QED BY <2>1 DEF NothingForgotten
<1>5. ASSUME NEW w \in Workers, Deliver(w) PROVE NothingForgotten'
  <2>1. UNCHANGED <<saved, processed, failures>> /\ ~Handling(w)
        /\ \A v \in Workers \ {w} : work'[v] = work[v]
    BY <1>1, <1>5 DEF Deliver, tables, Handling, At
  <2>2. ASSUME NEW e, InHand(e) PROVE InHand(e)'
    BY <2>1, <2>2 DEF InHand, Handling
  <2> QED BY <2>1, <2>2 DEF NothingForgotten
<1>6. ASSUME NEW w \in Workers, Handle(w) PROVE NothingForgotten'
  <2>1. /\ \A v \in Workers \ {w} : work'[v] = work[v]
        /\ saved' \subseteq saved \cup {work[w].event} /\ processed \subseteq processed'
        /\ failures' = failures
    <3>1. Answer(w) \/ \E phase \in DeliveryPhases : Go(w, phase)
      BY <1>6 DEF Handle, Deduplicate, SaveEvent, FindPayment, UpdatePayment, CreditWallet,
         CreateSubscription, ActivateSubscription, Publish, MarkProcessed, Acknowledge, DeliveryPhases
    <3>2. \A v \in Workers \ {w} : work'[v] = work[v]
      BY <1>1, <3>1 DEF Answer, Go
    <3>3. /\ saved' \subseteq saved \cup {work[w].event} /\ processed \subseteq processed'
          /\ failures' = failures
      BY <1>6 DEF Handle, Deduplicate, SaveEvent, FindPayment, UpdatePayment, CreditWallet,
         CreateSubscription, ActivateSubscription, Publish, MarkProcessed, Acknowledge, tables
    <3> QED BY <3>2, <3>3
  <2>2. SUFFICES ASSUME failures = 0, NEW e \in saved' \ processed', e \notin Unmatched
                 PROVE  InHand(e)'
    BY <2>1 DEF NothingForgotten
  <2>3. CASE e = work[w].event /\ Handling(w)' /\ work'[w].event = work[w].event
    BY <2>3 DEF InHand
  <2>4. CASE ~(e = work[w].event /\ Handling(w)' /\ work'[w].event = work[w].event)
    <3>1. e \in saved \ processed
      BY <1>6, <2>1, <2>2, <2>4, LetGo
    <3>2. PICK v \in Workers : Handling(v) /\ work[v].event = e
      BY <2>2, <3>1 DEF NothingForgotten, InHand
    <3>3. v # w
      BY <1>6, <2>2, <2>4, <3>2, LetGo
    <3> QED BY <2>1, <3>2, <3>3 DEF InHand, Handling
  <2> QED BY <2>3, <2>4
<1>7. CASE UNCHANGED paymentsVars
  BY <1>2, <1>7 DEF paymentsVars, tables
<1> QED BY <1>2, <1>3, <1>4, <1>5, <1>6, <1>7 DEF PaymentsNext

\* The early return for a duplicate event of handleWebhook loses a payment only when something
\* failed: as long as nothing has, what is on record is processed or in a worker's hands,
\* except a checkout's success event that was ahead of its session.
THEOREM PaymentsNothingForgotten == PaymentsSpec => []NothingForgotten
<1>1. PaymentsInit => Linked /\ NothingForgotten
  <2>1. PaymentsInit => Linked
    BY DEF PaymentsInit, Linked, Purchases
  <2>2. PaymentsInit => NothingForgotten
    BY DEF PaymentsInit, NothingForgotten
  <2> QED BY <2>1, <2>2
<1>2. PaymentsIInv /\ Linked /\ NothingForgotten /\ [PaymentsNext]_paymentsVars =>
        Linked' /\ NothingForgotten'
  BY LinkedStep, NothingForgottenStep DEF PaymentsIInv
<1> QED BY <1>1, <1>2, PaymentsInvariant, PTL DEF PaymentsSpec

\* The credit that event e brings.
Posted(e) == <<e[1], IF e[2] = "session" THEN "session" ELSE "intent">> \in credits

\* While nothing has failed, a success answered is a credit posted or about to be.
CreditedUnlessFailed ==
  failures = 0 =>
    \A e \in Purchases \X Success : e \in acked \ Unmatched => Posted(e) \/ InHand(e)

\* Without a failure, an answer to Stripe means that the credits are posted or about to be.
THEOREM PaymentsCreditedUnlessFailed == PaymentsSpec => []CreditedUnlessFailed
<1>1. ASSUME AckedIsRecorded, CreditsMatchEvents, NothingForgotten
      PROVE  CreditedUnlessFailed
  <2>1. ASSUME failures = 0, NEW x \in Purchases, NEW type \in Success,
               <<x, type>> \in acked \ Unmatched
        PROVE  Posted(<<x, type>>) \/ InHand(<<x, type>>)
    <3>1. CASE <<x, type>> \in processed
      BY <1>1, <3>1 DEF CreditsMatchEvents, Posted, Success
    <3>2. CASE <<x, type>> \notin processed
      BY <1>1, <2>1, <3>2 DEF AckedIsRecorded, NothingForgotten
    <3> QED BY <3>1, <3>2
  <2> QED BY <2>1 DEF CreditedUnlessFailed
<1> QED BY <1>1, PaymentsAckedIsRecorded, PaymentsCreditsMatchEvents, PaymentsNothingForgotten, PTL
===============================================================================
