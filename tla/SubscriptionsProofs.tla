-------------------------- MODULE SubscriptionsProofs --------------------------
(***************************************************************************)
(* Theorems about Subscriptions.  What a request or a job knows of its     *)
(* row is little, since any other may change it; but a row that has been   *)
(* activated never becomes pending again, times only grow, and every       *)
(* renewal under way has its order or its intent.                          *)
(***************************************************************************)
EXTENDS Subscriptions, FiniteSetTheorems, TLAPS

\* The row has been activated or ended: it may be billed.
Touched(s) == sub[s].status \notin {"none", "pending"}

CallInv(c) ==
  LET k == call[c] IN
  /\ k.phase = "idle" => k = NoCall
  /\ k.phase # "idle" => k.on \in Subs /\ k.op # "none" /\ k.at <= now
  /\ k.phase = "finding" => k.op \in {"renew", "grace"}
  /\ k.phase = "invoicing" => k.op = "renew"
  /\ k.op \in {"renew", "grace", "expire"} => Touched(k.on)
  /\ k.op = "create" => sub[k.on].status = "none" /\ \A d \in Clients \ {c} : call[d].on # k.on
  /\ k.op = "extend" => k.end <= now + Period + granted[k.on]

\* What is found on a row is bounded, whatever its status.
RowInv(s) ==
  /\ sub[s].status \in {"none", "pending"} => intents[s] = 0 /\ invoices[s] = 0
  /\ sub[s].status = "grace_period" => sub[s].grace <= now + Grace
  /\ sub[s].end <= now + Period + granted[s]

Inv1 ==
  /\ TypeOK
  /\ \A c \in Clients : CallInv(c) /\ \A s \in job[c].todo : Touched(s)
  /\ \A s \in Subs : RowInv(s)

\* The renewals of a row that may still write an invoice.
Renewing(s) == {c \in Clients : call[c].op = "renew" /\ call[c].on = s}
Backed == \A s \in Subs : invoices[s] + Cardinality(Renewing(s)) <= intents[s] + orders[s]

IInv == Inv1 /\ Backed
-------------------------------------------------------------------------------
(* Types.                                                                  *)

LEMMA FindTypes ==
  ASSUME TypeOK, NEW c \in Clients, NEW op \in Ops, NEW s \in Subs, NEW days \in Nat,
         Find(c, op, s, days)
  PROVE  /\ call' \in [Clients -> Calls]
         /\ \A d \in Clients \ {c} : call'[d] = call[d]
         /\ \/ call'[c] = NoCall
            \/ /\ Accepts(op, sub[s].status)
               /\ call'[c] = [op |-> op, phase |-> "writing", on |-> s, at |-> now,
                              end |-> sub[s].end + days,
                              revive |-> sub[s].status \in {"expired", "cancelled"}]
  <1>1. sub[s].end + days \in Nat /\ now \in Nat
    BY DEF TypeOK
  <1>2. QED
    BY <1>1 DEF Find, TypeOK, NoCall, Calls

LEMMA ReturnTypes ==
  ASSUME TypeOK, NEW c \in Clients, Return(c)
  PROVE  /\ call' \in [Clients -> Calls]
         /\ call'[c] = NoCall /\ \A d \in Clients \ {c} : call'[d] = call[d]
  BY DEF Return, TypeOK, NoCall, Calls

\* What an update may write into its row.
GoodRow(c, row) ==
  LET on == call[c].on IN
  /\ row \in [status : Statuses, end : Nat, grace : Nat]
  /\ row.status = "none" => sub[on].status = "none"
  /\ row.status = "pending" => sub[on].status = "pending" \/ call[c].op = "create"
  /\ row.status = "grace_period" => row.grace <= now + Grace
  /\ row.end <= now + Period + granted[on]

LEMMA WrittenRow ==
  ASSUME Inv1, NEW c \in Clients, Write(c)
  PROVE  /\ call[c].phase = "writing" /\ call[c].on \in Subs
         /\ \E row : GoodRow(c, row) /\ Update(c, row)
         /\ Return(c) \/ (call[c].op = "renew" /\ call' = [call EXCEPT ![c].phase = "invoicing"])
  <1>. DEFINE on == call[c].on
  <1>1. call[c].phase = "writing"
    BY DEF Write, Create, Activate, Renew, Cancel, Suspend, Extend, Expire, EnterGrace, Writing, At
  <1>2. /\ on \in Subs /\ call[c].at <= now /\ call[c].at \in Nat /\ call[c].end \in Nat
        /\ now \in Nat /\ Period \in Nat /\ Grace \in Nat /\ granted[on] \in Nat
        /\ call[c].op = "extend" => call[c].end <= now + Period + granted[on]
    BY <1>1, SubscriptionsAssumption DEF Inv1, CallInv, TypeOK, Calls
  <1>0. /\ call[c].at + Period \in Nat /\ call[c].at + Grace \in Nat
        /\ call[c].at + Period + Grace \in Nat
        /\ call[c].at + Period <= now + Period + granted[on] /\ call[c].at + Grace <= now + Grace
    BY <1>2
  <1>3. /\ sub[on] \in [status : Statuses, end : Nat, grace : Nat]
        /\ sub[on].status = "grace_period" => sub[on].grace <= now + Grace
        /\ sub[on].end <= now + Period + granted[on]
    BY <1>2 DEF Inv1, RowInv, TypeOK
  <1>. HIDE DEF on
  <1>. DEFINE Writes(row) == GoodRow(c, row) /\ Update(c, row)
  <1>4. CASE Create(c)
    <2>. DEFINE row == [status |-> "pending", end |-> call[c].at + Period,
                        grace |-> call[c].at + Period + Grace]
    <2>1. Update(c, row) /\ call[c].op = "create" /\ Return(c)
      BY <1>4 DEF Create, Writing
    <2>2. /\ row \in [status : Statuses, end : Nat, grace : Nat]
          /\ row.status = "pending" /\ row.end = call[c].at + Period
      BY <1>0 DEF Statuses, Rows
    <2>. HIDE DEF row
    <2>3. GoodRow(c, row)
      BY <1>0, <2>1, <2>2 DEF GoodRow, on
    <2>4. QED BY <1>1, <1>2, <2>1, <2>3 DEF on
  <1>5. CASE Activate(c)
    <2>1. Writes([sub[on] EXCEPT !.status = "active", !.end = call[c].at + Period])
      BY <1>0, <1>2, <1>3, <1>5 DEF Activate, Row, GoodRow, on, Statuses, Rows
    <2>2. QED BY <1>1, <1>2, <1>5, <2>1 DEF Activate, on
  <1>6. CASE Renew(c)
    <2>1. Writes([status |-> "active", end |-> call[c].at + Period, grace |-> call[c].at + Period + Grace])
      BY <1>0, <1>6 DEF Renew, GoodRow, on, Statuses, Rows
    <2>2. QED BY <1>1, <1>2, <1>6, <2>1 DEF Renew, Writing, on
  <1>7. CASE Cancel(c)
    <2>1. Writes([sub[on] EXCEPT !.status = "cancelled"])
      BY <1>0, <1>2, <1>3, <1>7 DEF Cancel, Row, GoodRow, on, Statuses, Rows
    <2>2. QED BY <1>1, <1>2, <1>7, <2>1 DEF Cancel, on
  <1>8. CASE Suspend(c)
    <2>1. Writes([sub[on] EXCEPT !.status = "suspended"])
      BY <1>0, <1>2, <1>3, <1>8 DEF Suspend, Row, GoodRow, on, Statuses, Rows
    <2>2. QED BY <1>1, <1>2, <1>8, <2>1 DEF Suspend, on
  <1>9. CASE Extend(c)
    <2>1. Writes([sub[on] EXCEPT !.end = call[c].end, !.status = IF call[c].revive THEN "active" ELSE @])
      BY <1>0, <1>2, <1>3, <1>9 DEF Extend, Writing, Row, GoodRow, on, Statuses, Rows
    <2>2. QED BY <1>1, <1>2, <1>9, <2>1 DEF Extend, on
  <1>10. CASE Expire(c)
    <2>1. Writes([sub[on] EXCEPT !.status = "expired"])
      BY <1>0, <1>2, <1>3, <1>10 DEF Expire, Row, GoodRow, on, Statuses, Rows
    <2>2. QED BY <1>1, <1>2, <1>10, <2>1 DEF Expire, on
  <1>11. CASE EnterGrace(c)
    <2>1. Writes([sub[on] EXCEPT !.status = "grace_period", !.grace = call[c].at + Grace])
      BY <1>0, <1>2, <1>3, <1>11 DEF EnterGrace, Row, GoodRow, on, Statuses, Rows
    <2>2. QED BY <1>1, <1>2, <1>11, <2>1 DEF EnterGrace, on
  <1>12. QED
    BY <1>4, <1>5, <1>6, <1>7, <1>8, <1>9, <1>10, <1>11 DEF Write
LEMMA WriteInv1 ==
  ASSUME Inv1, NEW c \in Clients, Write(c)
  PROVE  Inv1'
  <1>. DEFINE on == call[c].on
  <1>1. /\ call[c].phase = "writing" /\ on \in Subs /\ TypeOK
        /\ Return(c) \/ (call[c].op = "renew" /\ call' = [call EXCEPT ![c].phase = "invoicing"])
    BY WrittenRow DEF Inv1
  <1>2. PICK row : GoodRow(c, row) /\ Update(c, row)
    BY WrittenRow
  <1>3. /\ UNCHANGED <<now, intents, invoices, orders, granted, job, requests>>
        /\ sub' \in [Subs -> [status : Statuses, end : Nat, grace : Nat]]
        /\ sub'[on] = row /\ \A s \in Subs \ {on} : sub'[s] = sub[s]
    BY <1>1, <1>2 DEF Update, GoodRow, TypeOK
  <1>4. TypeOK'
    <2>1. CASE Return(c)
      BY <1>1, <1>3, <2>1, ReturnTypes DEF TypeOK
    <2>2. CASE call' = [call EXCEPT ![c].phase = "invoicing"]
      <3>1. call[c] \in Calls /\ [call[c] EXCEPT !.phase = "invoicing"] \in Calls
        BY DEF Inv1, TypeOK, Calls
      <3>2. call' = [call EXCEPT ![c] = [call[c] EXCEPT !.phase = "invoicing"]]
        BY <2>2
      <3>3. QED
        BY <1>1, <1>3, <3>1, <3>2 DEF TypeOK
    <2>3. QED BY <1>1, <2>1, <2>2
  <1>5. /\ \A d \in Clients \ {c} : call'[d] = call[d]
        /\ \/ call'[c] = NoCall
           \/ call[c].op = "renew" /\ call'[c] = [call[c] EXCEPT !.phase = "invoicing"]
    BY <1>1, ReturnTypes DEF TypeOK, Calls
  <1>6. /\ call[c].op = "create" => sub[on].status = "none"
        /\ call[c].op = "renew" => Touched(on)
        /\ row.status = "none" => sub[on].status = "none"
        /\ row.status = "pending" => sub[on].status = "pending" \/ call[c].op = "create"
    BY <1>2 DEF Inv1, CallInv, GoodRow
  <1>7. \A s \in Subs : Touched(s) => Touched(s)'
    BY <1>3, <1>6 DEF Touched
  <1>8. ASSUME NEW s \in Subs PROVE RowInv(s)'
    <2>1. CASE s = on
      BY <1>2, <1>3, <1>6, <2>1 DEF RowInv, GoodRow, Inv1
    <2>2. CASE s # on
      BY <1>3, <2>2 DEF RowInv, Inv1
    <2>3. QED BY <2>1, <2>2
  <1>9. CallInv(c)'
    <2>1. CASE call'[c] = NoCall
      BY <2>1 DEF CallInv, NoCall
    <2>2. CASE call[c].op = "renew" /\ call'[c] = [call[c] EXCEPT !.phase = "invoicing"]
      <3>1. /\ call'[c].phase = "invoicing" /\ call'[c].op = "renew" /\ call'[c].on = on
            /\ call'[c].at = call[c].at
        BY <1>1, <2>2 DEF TypeOK, Calls
      <3>2. call[c].at <= now
        BY <1>1 DEF Inv1, CallInv
      <3>3. sub'[on].status \notin {"none", "pending"}
        BY <1>1, <1>6, <1>7, <2>2 DEF Touched
      <3>4. CallInv(c)' <=> call'[c].on \in Subs /\ call'[c].at <= now' /\ Touched(call[c].on)'
        BY <3>1 DEF CallInv
      <3>5. QED
        BY <1>1, <1>3, <3>1, <3>2, <3>3, <3>4 DEF Touched
    <2>3. QED BY <1>5, <2>1, <2>2
  <1>10. ASSUME NEW d \in Clients \ {c} PROVE CallInv(d)'
    <2>1. CallInv(d) /\ call'[d] = call[d]
      BY <1>5 DEF Inv1
    <2>2. ASSUME call[d].op = "create"
          PROVE  sub'[call[d].on].status = "none" /\ \A e \in Clients \ {d} : call'[e].on # call[d].on
      <3>1. call[d].phase # "idle" /\ call[d].on \in Subs
        BY <2>1, <2>2 DEF CallInv, NoCall
      <3>2. \A e \in Clients \ {d} : call[e].on # call[d].on
        BY <2>1, <2>2 DEF CallInv
      <3>3. call'[c].on = NoSub \/ call'[c].on = on
        BY <1>1, <1>5 DEF NoCall, TypeOK, Calls
      <3>4. sub[call[d].on].status = "none"
        BY <2>1, <2>2 DEF CallInv
      <3>5. QED
        BY <1>3, <1>5, <3>1, <3>2, <3>3, <3>4, SubscriptionsAssumption
    <2>3. call[d].op \in {"renew", "grace", "expire"} => Touched(call[d].on)'
      <3>1. call[d].op \in {"renew", "grace", "expire"} => call[d].on \in Subs /\ Touched(call[d].on)
        BY <2>1 DEF CallInv, NoCall
      <3>2. QED BY <1>7, <2>1, <3>1 DEF Touched
    <2>4. QED
      BY <1>3, <2>1, <2>2, <2>3 DEF CallInv, Touched
  <1>11. QED
    BY <1>3, <1>4, <1>7, <1>8, <1>9, <1>10 DEF Inv1, TypeOK

\* What a call may be after a step that changes no row.
GoodCall(c) ==
  LET k == call'[c] IN
  /\ k.phase \in {"finding", "writing"} /\ k.on \in Subs /\ k.op # "none" /\ k.at <= now'
  /\ k.phase = "finding" => k.op \in {"renew", "grace"}
  /\ k.op \in {"renew", "grace", "expire"} => Touched(k.on)
  /\ IF k.op = "create" THEN sub[k.on].status = "none" /\ \A d \in Clients \ {c} : call[d].on # k.on
     ELSE sub[k.on].status # "none"
  /\ k.op = "extend" => k.end <= now' + Period + granted'[k.on]

LEMMA KeepInv1 ==
  ASSUME Inv1, TypeOK', sub' = sub, now <= now', \A s \in Subs : granted[s] <= granted'[s],
         \A s \in Subs : Touched(s) \/ (intents'[s] = intents[s] /\ invoices'[s] = invoices[s]),
         \A d \in Clients : \A s \in job'[d].todo : s \in job[d].todo \/ Touched(s),
         NEW c \in Clients, \A d \in Clients \ {c} : call'[d] = call[d],
         call'[c] = call[c] \/ call'[c] = NoCall \/ GoodCall(c)
  PROVE  Inv1'
  <1>1. \A s \in Subs \cup {NoSub} : Touched(s)' = Touched(s)
    BY DEF Touched
  <1>2. /\ \A s \in Subs : granted[s] \in Nat /\ granted'[s] \in Nat /\ sub[s].end \in Nat
                          /\ sub[s].grace \in Nat
        /\ now \in Nat /\ now' \in Nat /\ Period \in Nat /\ Grace \in Nat
    BY SubscriptionsAssumption DEF Inv1, TypeOK
  <1>3. ASSUME NEW s \in Subs PROVE RowInv(s)'
    <2>1. RowInv(s) /\ granted[s] <= granted'[s]
      BY DEF Inv1
    <2>2. sub[s].status \in {"none", "pending"} => intents'[s] = 0 /\ invoices'[s] = 0
      BY <2>1 DEF RowInv, Touched
    <2>3. sub[s].end <= now' + Period + granted'[s]
      BY <1>2, <2>1 DEF RowInv
    <2>4. sub[s].status = "grace_period" => sub[s].grace <= now' + Grace
      BY <1>2, <2>1 DEF RowInv
    <2>5. QED BY <2>2, <2>3, <2>4 DEF RowInv
  <1>4. ASSUME NEW d \in Clients, call'[d] = call[d] PROVE CallInv(d)'
    <2>1. CallInv(d) /\ call[d].at \in Nat /\ call[d].end \in Nat
      BY DEF Inv1, TypeOK, Calls
    <2>2. call[d].op = "create" => \A e \in Clients \ {d} : call'[e].on # call[d].on
      <3>1. SUFFICES ASSUME call[d].op = "create", NEW e \in Clients \ {d} PROVE call'[e].on # call[d].on
        OBVIOUS
      <3>2. call[d].on \in Subs /\ sub[call[d].on].status = "none" /\ call[e].on # call[d].on
        BY <2>1, <3>1 DEF CallInv, NoCall
      <3>3. CASE call'[e] = call[e]
        BY <3>2, <3>3
      <3>4. CASE call'[e] = NoCall
        BY <3>2, <3>4, SubscriptionsAssumption DEF NoCall
      <3>5. CASE e = c /\ GoodCall(c)
        BY <1>4, <3>2, <3>5 DEF GoodCall
      <3>6. QED BY <3>3, <3>4, <3>5
    <2>3. call[d].phase # "idle" => call[d].at <= now'
      BY <1>2, <2>1 DEF CallInv
    <2>4. call[d].op = "extend" => call[d].end <= now' + Period + granted'[call[d].on]
      BY <1>2, <2>1 DEF CallInv, NoCall
    <2>5. QED
      BY <1>4, <2>1, <2>2, <2>3, <2>4 DEF CallInv, Touched
  <1>5. CallInv(c)'
    <2>1. CASE call'[c] = NoCall
      BY <2>1 DEF CallInv, NoCall
    <2>2. CASE GoodCall(c)
      BY <2>2 DEF GoodCall, CallInv, Touched
    <2>3. QED BY <1>4, <2>1, <2>2
  <1>6. \A d \in Clients : \A s \in job'[d].todo : Touched(s)'
    BY DEF Touched, Inv1
  <1>7. QED
    BY <1>3, <1>4, <1>5, <1>6 DEF Inv1
LEMMA FindInv1 ==
  ASSUME Inv1, NEW c \in Clients, NEW op \in Ops, NEW s \in Subs, NEW days \in Nat,
         Find(c, op, s, days), sub' = sub, now' = now,
         \A t \in Subs : granted[t] <= granted'[t],
         op = "extend" => granted'[s] = granted[s] + days,
         op \in {"renew", "grace", "expire"} => Touched(s)
  PROVE  /\ call' \in [Clients -> Calls] /\ \A d \in Clients \ {c} : call'[d] = call[d]
         /\ call'[c] = NoCall \/ GoodCall(c)
  <1>1. TypeOK /\ RowInv(s)
    BY DEF Inv1
  <1>2. /\ call' \in [Clients -> Calls] /\ \A d \in Clients \ {c} : call'[d] = call[d]
        /\ \/ call'[c] = NoCall
           \/ /\ Accepts(op, sub[s].status)
              /\ call'[c] = [op |-> op, phase |-> "writing", on |-> s, at |-> now,
                             end |-> sub[s].end + days,
                             revive |-> sub[s].status \in {"expired", "cancelled"}]
    BY <1>1, FindTypes
  <1>3. CASE Accepts(op, sub[s].status) /\ call'[c] = [op |-> op, phase |-> "writing", on |-> s,
                at |-> now, end |-> sub[s].end + days,
                revive |-> sub[s].status \in {"expired", "cancelled"}]
    <2>1. /\ call'[c].op = op /\ call'[c].phase = "writing" /\ call'[c].on = s
          /\ call'[c].at = now /\ call'[c].end = sub[s].end + days
      BY <1>3
    <2>2. sub[s].status # "none" /\ op \notin {"none", "create"}
      BY <1>3 DEF Accepts, Rows, Ops
    <2>3. op = "extend" => sub[s].end + days <= now + Period + granted'[s]
      BY <1>1, SubscriptionsAssumption DEF RowInv, TypeOK
    <2>4. now <= now
      BY <1>1 DEF TypeOK
    <2>5. GoodCall(c)
      BY <2>1, <2>2, <2>3, <2>4 DEF GoodCall
    <2>6. QED BY <1>2, <2>5
  <1>4. QED
    BY <1>2, <1>3

LEMMA BeginInv1 ==
  ASSUME Inv1, NEW c \in Clients, Begin(c)
  PROVE  Inv1'
  <1>1. TypeOK /\ now <= now /\ \A t \in Subs : granted[t] \in Nat /\ granted[t] <= granted[t]
    BY DEF Inv1, TypeOK
  <1>2. ASSUME NEW s \in Subs, BeginCreate(c, s) PROVE Inv1'
    <2>. DEFINE k == [NoCall EXCEPT !.op = "create", !.phase = "writing", !.on = s, !.at = now]
    <2>1. k \in Calls /\ k.op = "create" /\ k.phase = "writing" /\ k.on = s /\ k.at = now
      BY <1>1 DEF NoCall, Calls, TypeOK
    <2>. HIDE DEF k
    <2>2. call' = [call EXCEPT ![c] = k]
      BY <1>2 DEF BeginCreate, k
    <2>3. TypeOK'
      BY <1>1, <1>2, <2>1, <2>2 DEF BeginCreate, TypeOK
    <2>4. call'[c] = k /\ \A d \in Clients \ {c} : call'[d] = call[d]
      BY <1>1, <2>2 DEF TypeOK
    <2>5. GoodCall(c)
      BY <1>1, <1>2, <2>1, <2>4 DEF BeginCreate, GoodCall
    <2>6. QED
      BY <1>1, <1>2, <2>3, <2>4, <2>5, KeepInv1 DEF BeginCreate
  <1>3. ASSUME NEW s \in Subs, NEW op \in Ops, Request(c, op, s) PROVE Inv1'
    <2>1. op \in {"renew", "grace", "expire"} => Touched(s)
      BY <1>3 DEF Request, Accepts, Touched
    <2>2. /\ call' \in [Clients -> Calls] /\ \A d \in Clients \ {c} : call'[d] = call[d]
          /\ call'[c] = NoCall \/ GoodCall(c)
      BY <1>1, <1>3, <2>1, FindInv1 DEF Request
    <2>3. TypeOK'
      BY <1>1, <1>3, <2>2 DEF Request, TypeOK
    <2>4. QED
      BY <1>1, <1>3, <2>2, <2>3, KeepInv1 DEF Request
  <1>4. ASSUME NEW s \in Subs, NEW days \in Extensions, RequestExtension(c, s, days) PROVE Inv1'
    <2>1. /\ days \in Nat /\ granted' \in [Subs -> Nat] /\ granted'[s] = granted[s] + days
          /\ \A t \in Subs : granted[t] <= granted'[t]
      BY <1>1, <1>4, SubscriptionsAssumption DEF RequestExtension, TypeOK
    <2>2. /\ call' \in [Clients -> Calls] /\ \A d \in Clients \ {c} : call'[d] = call[d]
          /\ call'[c] = NoCall \/ GoodCall(c)
      BY <1>1, <1>4, <2>1, FindInv1 DEF RequestExtension, Ops
    <2>3. TypeOK'
      BY <1>1, <1>4, <2>1, <2>2 DEF RequestExtension, TypeOK
    <2>4. QED
      BY <1>1, <1>4, <2>1, <2>2, <2>3, KeepInv1 DEF RequestExtension
  <1>5. QED
    BY <1>2, <1>3, <1>4 DEF Begin

LEMMA JobInv1 ==
  ASSUME Inv1, NEW c \in Clients,
         StartJob(c) \/ FindGraceExpired(c) \/ EndJob(c) \/ Throw(c) \/ Crash(c) \/ CreateInvoice(c)
  PROVE  Inv1'
  <1>1. TypeOK /\ now <= now /\ \A t \in Subs : granted[t] \in Nat /\ granted[t] <= granted[t]
    BY DEF Inv1, TypeOK
  <1>2. \A s \in Expiring \cup GraceExpired(job[c].asOf) : s \in Subs /\ Touched(s)
    BY DEF Expiring, GraceExpired, Touched
  <1>3. CASE StartJob(c)
    <2>1. job' \in [Clients -> [stage : {"none", "renewing", "expiring"}, todo : SUBSET Subs, asOf : Nat]]
      BY <1>1, <1>3 DEF StartJob, Expiring, TypeOK
    <2>2. TypeOK'
      BY <1>1, <1>3, <2>1 DEF StartJob, TypeOK
    <2>3. \A d \in Clients : \A s \in job'[d].todo : s \in job[d].todo \/ Touched(s)
      BY <1>1, <1>2, <1>3 DEF StartJob, TypeOK
    <2>4. QED
      BY <1>1, <1>3, <2>2, <2>3, KeepInv1 DEF StartJob
  <1>4. CASE FindGraceExpired(c)
    <2>1. job' \in [Clients -> [stage : {"none", "renewing", "expiring"}, todo : SUBSET Subs, asOf : Nat]]
      BY <1>1, <1>2, <1>4 DEF FindGraceExpired, TypeOK
    <2>2. TypeOK'
      BY <1>1, <1>4, <2>1 DEF FindGraceExpired, TypeOK
    <2>3. \A d \in Clients : \A s \in job'[d].todo : s \in job[d].todo \/ Touched(s)
      BY <1>1, <1>2, <1>4 DEF FindGraceExpired, TypeOK
    <2>4. QED
      BY <1>1, <1>4, <2>2, <2>3, KeepInv1 DEF FindGraceExpired
  <1>5. ASSUME job' = [job EXCEPT ![c] = NoJob]
        PROVE  /\ job' \in [Clients -> [stage : {"none", "renewing", "expiring"}, todo : SUBSET Subs, asOf : Nat]]
               /\ \A d \in Clients : \A s \in job'[d].todo : s \in job[d].todo \/ Touched(s)
    BY <1>1, <1>5 DEF NoJob, TypeOK
  <1>6. CASE EndJob(c)
    <2>1. TypeOK'
      BY <1>1, <1>5, <1>6 DEF EndJob, TypeOK
    <2>2. QED
      BY <1>1, <1>5, <1>6, <2>1, KeepInv1 DEF EndJob
  <1>7. CASE Throw(c)
    <2>1. TypeOK'
      BY <1>1, <1>7, ReturnTypes DEF Throw, TypeOK
    <2>2. QED
      BY <1>1, <1>7, <2>1, ReturnTypes, KeepInv1 DEF Throw
  <1>8. CASE Crash(c)
    <2>1. TypeOK'
      BY <1>1, <1>5, <1>8, ReturnTypes DEF Crash, TypeOK
    <2>2. QED
      BY <1>1, <1>5, <1>8, <2>1, ReturnTypes, KeepInv1 DEF Crash
  <1>9. CASE CreateInvoice(c)
    <2>1. call[c].on \in Subs /\ Touched(call[c].on)
      BY <1>9 DEF CreateInvoice, At, Inv1, CallInv
    <2>2. TypeOK'
      BY <1>1, <1>9, <2>1, ReturnTypes DEF CreateInvoice, TypeOK
    <2>3. \A s \in Subs : Touched(s) \/ invoices'[s] = invoices[s]
      BY <1>1, <1>9, <2>1 DEF CreateInvoice, TypeOK
    <2>4. QED
      BY <1>1, <1>9, <2>2, <2>3, ReturnTypes, KeepInv1 DEF CreateInvoice
  <1>10. QED
    BY <1>3, <1>4, <1>6, <1>7, <1>8, <1>9
LEMMA ContinueInv1 ==
  ASSUME Inv1, NEW c \in Clients, Continue(c)
  PROVE  Inv1'
  <1>1. TypeOK /\ now <= now /\ \A t \in Subs : granted[t] \in Nat /\ granted[t] <= granted[t]
    BY DEF Inv1, TypeOK
  <1>2. CASE FindAgain(c)
    <2>1. call[c].on \in Subs /\ call[c].op \in {"renew", "grace"} /\ Touched(call[c].on)
      BY <1>2 DEF FindAgain, At, Inv1, CallInv
    <2>2. /\ call' \in [Clients -> Calls] /\ \A d \in Clients \ {c} : call'[d] = call[d]
          /\ call'[c] = NoCall \/ GoodCall(c)
      BY <1>1, <1>2, <2>1, FindInv1 DEF FindAgain, Ops
    <2>3. TypeOK'
      BY <1>1, <1>2, <2>2 DEF FindAgain, TypeOK
    <2>4. QED
      BY <1>1, <1>2, <2>2, <2>3, KeepInv1 DEF FindAgain
  <1>3. ASSUME NEW s \in Subs, job' = [job EXCEPT ![c].todo = @ \ {s}]
        PROVE  /\ job' \in [Clients -> [stage : {"none", "renewing", "expiring"}, todo : SUBSET Subs, asOf : Nat]]
               /\ \A d \in Clients : \A t \in job'[d].todo : t \in job[d].todo \/ Touched(t)
    BY <1>1, <1>3 DEF TypeOK
  <1>4. ASSUME NEW s \in Subs, ExpireNext(c, s) PROVE Inv1'
    <2>1. Touched(s)
      BY <1>4 DEF ExpireNext, Inv1
    <2>2. /\ call' \in [Clients -> Calls] /\ \A d \in Clients \ {c} : call'[d] = call[d]
          /\ call'[c] = NoCall \/ GoodCall(c)
      BY <1>1, <1>4, <2>1, FindInv1 DEF ExpireNext, Ops
    <2>3. TypeOK'
      BY <1>1, <1>3, <1>4, <2>2 DEF ExpireNext, TypeOK
    <2>4. QED
      BY <1>1, <1>3, <1>4, <2>2, <2>3, KeepInv1 DEF ExpireNext
  <1>5. ASSUME NEW s \in Subs, AttemptRenewalPayment(c, s) PROVE Inv1'
    <2>1. PICK op \in {"renew", "grace"} :
            call' = [call EXCEPT ![c] = [NoCall EXCEPT !.op = op, !.phase = "finding", !.on = s]]
      BY <1>5 DEF AttemptRenewalPayment
    <2>. DEFINE k == [NoCall EXCEPT !.op = op, !.phase = "finding", !.on = s]
    <2>2. k \in Calls /\ k.op = op /\ k.phase = "finding" /\ k.on = s /\ k.at = 0
      BY DEF NoCall, Calls, Ops
    <2>3. call' = [call EXCEPT ![c] = k]
      BY <2>1
    <2>. HIDE DEF k
    <2>4. call' \in [Clients -> Calls] /\ call'[c] = k /\ \A d \in Clients \ {c} : call'[d] = call[d]
      BY <1>1, <2>2, <2>3 DEF TypeOK
    <2>5. /\ intents' \in [Subs -> Nat] /\ \A t \in Subs \ {s} : intents'[t] = intents[t]
      BY <1>1, <1>5 DEF AttemptRenewalPayment, TypeOK
    <2>6. TypeOK'
      BY <1>1, <1>3, <1>5, <2>4, <2>5 DEF AttemptRenewalPayment, TypeOK
    <2>7. Touched(s) /\ sub[s].status # "none"
      BY <1>5 DEF AttemptRenewalPayment, Inv1, Touched
    <2>8. GoodCall(c)
      <3>1. 0 <= now'
        BY <1>1, <1>5 DEF AttemptRenewalPayment, TypeOK
      <3>2. /\ call'[c].op \in {"renew", "grace"} /\ call'[c].phase = "finding"
            /\ call'[c].on = s /\ call'[c].at = 0
        BY <2>2, <2>4
      <3>3. QED
        BY <2>7, <3>1, <3>2 DEF GoodCall
    <2>9. QED
      BY <1>1, <1>3, <1>5, <2>4, <2>5, <2>6, <2>7, <2>8, KeepInv1 DEF AttemptRenewalPayment
  <1>6. QED
    BY <1>2, <1>4, <1>5, WriteInv1, JobInv1 DEF Continue

LEMMA IdleInv1 ==
  ASSUME Inv1, Tick \/ UNCHANGED vars
  PROVE  Inv1'
  <1>1. TypeOK' /\ now <= now'
    BY DEF Tick, vars, Inv1, TypeOK
  <1>2. /\ UNCHANGED <<sub, intents, invoices, granted, call, job>>
    BY DEF Tick, vars
  <1>3. \A c \in Clients : call[c].at \in Nat /\ call[c].end \in Nat
    BY DEF Inv1, TypeOK, Calls
  <1>4. /\ now \in Nat /\ now' \in Nat /\ Period \in Nat /\ Grace \in Nat
        /\ \A s \in Subs : granted[s] \in Nat /\ sub[s].end \in Nat /\ sub[s].grace \in Nat
    BY <1>1, SubscriptionsAssumption DEF Inv1, TypeOK
  <1>5. ASSUME NEW s \in Subs PROVE RowInv(s)'
    BY <1>1, <1>2, <1>4 DEF Inv1, RowInv
  <1>6. ASSUME NEW c \in Clients PROVE CallInv(c)'
    <2>1. CallInv(c)
      BY DEF Inv1
    <2>2. call[c].phase # "idle" => call[c].at <= now'
      BY <1>1, <1>3, <1>4, <2>1 DEF CallInv
    <2>3. call[c].op = "extend" => call[c].end <= now' + Period + granted[call[c].on]
      BY <1>1, <1>3, <1>4, <2>1 DEF CallInv, NoCall
    <2>4. QED
      BY <1>2, <2>1, <2>2, <2>3 DEF CallInv, Touched
  <1>7. QED
    BY <1>1, <1>2, <1>5, <1>6 DEF Inv1, Touched

LEMMA StepInv1 == Inv1 /\ [Next]_vars => Inv1'
  BY BeginInv1, ContinueInv1, JobInv1, IdleInv1 DEF Next

LEMMA InitInv1 == Init => Inv1
  <1>. SUFFICES ASSUME Init PROVE Inv1
    OBVIOUS
  <1>1. NoCall \in Calls /\ NoCall.phase = "idle" /\ NoCall.op = "none"
    BY DEF NoCall, Calls
  <1>2. NoJob \in [stage : {"none", "renewing", "expiring"}, todo : SUBSET Subs, asOf : Nat]
        /\ NoJob.todo = {}
    BY DEF NoJob
  <1>3. TypeOK
    BY <1>1, <1>2 DEF Init, TypeOK, Statuses
  <1>4. \A c \in Clients : CallInv(c) /\ \A s \in job[c].todo : Touched(s)
    BY <1>1, <1>2 DEF Init, CallInv
  <1>5. \A s \in Subs : RowInv(s)
    BY SubscriptionsAssumption DEF Init, RowInv
  <1>6. QED
    BY <1>3, <1>4, <1>5 DEF Inv1
-------------------------------------------------------------------------------
(* Invoices.                                                               *)

LEMMA RenewingFinite ==
  ASSUME NEW s
  PROVE  IsFiniteSet(Renewing(s)) /\ Cardinality(Renewing(s)) \in Nat
  BY SubscriptionsAssumption, FS_Subset, FS_CardinalityType DEF Renewing

LEMMA RenewingFiniteNext ==
  ASSUME NEW s
  PROVE  IsFiniteSet(Renewing(s)') /\ Cardinality(Renewing(s)') \in Nat
  BY SubscriptionsAssumption, FS_Subset, FS_CardinalityType DEF Renewing

\* A step of one caller changes at most its own membership.
LEMMA RenewingStep ==
  ASSUME NEW c \in Clients, \A d \in Clients \ {c} : call'[d] = call[d], NEW s \in Subs
  PROVE  /\ Cardinality(Renewing(s)') <= Cardinality(Renewing(s)) + 1
         /\ c \notin Renewing(s)' \/ c \in Renewing(s) =>
              Cardinality(Renewing(s)') <= Cardinality(Renewing(s))
         /\ c \notin Renewing(s)' /\ c \in Renewing(s) =>
              Cardinality(Renewing(s)') + 1 <= Cardinality(Renewing(s))
  <1>. DEFINE A == Renewing(s)
  <1>. DEFINE B == Renewing(s)'
  <1>1. \A d : d # c => (d \in A <=> d \in B)
    BY DEF Renewing
  <1>2. /\ IsFiniteSet(A) /\ IsFiniteSet(B) /\ Cardinality(A) \in Nat /\ Cardinality(B) \in Nat
    BY RenewingFinite, RenewingFiniteNext
  <1>. HIDE DEF A, B
  <1>3. CASE c \in A <=> c \in B
    <2>1. A = B
      BY <1>1, <1>3
    <2>2. QED BY <1>2, <1>3, <2>1 DEF A, B
  <1>4. CASE c \notin A /\ c \in B
    <2>1. B = A \cup {c}
      BY <1>1, <1>4
    <2>2. Cardinality(B) = Cardinality(A) + 1
      BY <1>2, <1>4, <2>1, FS_AddElement
    <2>3. QED BY <1>2, <1>4, <2>2 DEF A, B
  <1>5. CASE c \in A /\ c \notin B
    <2>1. B = A \ {c}
      BY <1>1, <1>5
    <2>2. Cardinality(B) = Cardinality(A) - 1
      BY <1>2, <1>5, <2>1, FS_RemoveElement
    <2>3. QED BY <1>2, <1>5, <2>2 DEF A, B
  <1>6. QED
    BY <1>3, <1>4, <1>5

\* A renewal that begins has an order or an intent of its own.
LEMMA KeepBacked ==
  ASSUME IInv, TypeOK', NEW c \in Clients, \A d \in Clients \ {c} : call'[d] = call[d],
         invoices' = invoices,
         \A s \in Subs : intents[s] <= intents'[s] /\ orders[s] <= orders'[s],
         \A s \in Subs : c \in Renewing(s)' =>
           c \in Renewing(s) \/ intents[s] + orders[s] + 1 <= intents'[s] + orders'[s]
  PROVE  Backed'
  <1>1. ASSUME NEW s \in Subs
        PROVE  invoices'[s] + Cardinality(Renewing(s)') <= intents'[s] + orders'[s]
    <2>1. /\ intents[s] \in Nat /\ orders[s] \in Nat /\ invoices[s] \in Nat
          /\ intents'[s] \in Nat /\ orders'[s] \in Nat
          /\ Cardinality(Renewing(s)) \in Nat /\ Cardinality(Renewing(s)') \in Nat
      BY RenewingFinite, RenewingFiniteNext DEF IInv, Inv1, TypeOK
    <2>2. invoices[s] + Cardinality(Renewing(s)) <= intents[s] + orders[s]
      BY DEF IInv, Backed
    <2>3. CASE c \notin Renewing(s)' \/ c \in Renewing(s)
      BY <2>1, <2>2, <2>3, RenewingStep
    <2>4. CASE intents[s] + orders[s] + 1 <= intents'[s] + orders'[s]
      BY <2>1, <2>2, <2>4, RenewingStep
    <2>5. QED BY <2>3, <2>4
  <1>2. QED
    BY <1>1 DEF Backed

LEMMA InvoiceBacked ==
  ASSUME IInv, NEW c \in Clients, CreateInvoice(c)
  PROVE  Backed'
  <1>1. /\ TypeOK /\ call[c].on \in Subs /\ c \in Renewing(call[c].on)
    BY DEF CreateInvoice, At, IInv, Inv1, CallInv, Renewing
  <1>2. /\ call'[c] = NoCall /\ \A d \in Clients \ {c} : call'[d] = call[d]
    BY <1>1, ReturnTypes DEF CreateInvoice
  <1>3. ASSUME NEW s \in Subs
        PROVE  invoices'[s] + Cardinality(Renewing(s)') <= intents'[s] + orders'[s]
    <2>1. /\ intents[s] \in Nat /\ orders[s] \in Nat /\ invoices[s] \in Nat
          /\ intents' = intents /\ orders' = orders
          /\ Cardinality(Renewing(s)) \in Nat /\ Cardinality(Renewing(s)') \in Nat
      BY <1>1, RenewingFinite, RenewingFiniteNext DEF CreateInvoice, TypeOK
    <2>2. invoices[s] + Cardinality(Renewing(s)) <= intents[s] + orders[s]
      BY DEF IInv, Backed
    <2>3. c \notin Renewing(s)'
      BY <1>2 DEF Renewing, NoCall
    <2>4. CASE s = call[c].on
      <3>1. invoices'[s] = invoices[s] + 1
        BY <1>1, <2>4 DEF CreateInvoice, TypeOK
      <3>2. QED
        BY <1>1, <1>2, <2>1, <2>2, <2>3, <2>4, <3>1, RenewingStep
    <2>5. CASE s # call[c].on
      <3>1. invoices'[s] = invoices[s]
        BY <1>1, <2>5 DEF CreateInvoice, TypeOK
      <3>2. QED
        BY <1>2, <2>1, <2>2, <2>3, <3>1, RenewingStep
    <2>6. QED BY <2>4, <2>5
  <1>4. QED
    BY <1>3 DEF Backed
\* Finding a row begins at most the renewal that was asked for.
LEMMA FindRenewing ==
  ASSUME TypeOK, NEW c \in Clients, NEW op \in Ops, NEW s \in Subs, NEW days \in Nat,
         Find(c, op, s, days)
  PROVE  /\ \A d \in Clients \ {c} : call'[d] = call[d]
         /\ \A t \in Subs : c \in Renewing(t)' => op = "renew" /\ t = s
  <1>1. /\ \A d \in Clients \ {c} : call'[d] = call[d]
        /\ \/ call'[c] = NoCall
           \/ call'[c] = [op |-> op, phase |-> "writing", on |-> s, at |-> now,
                          end |-> sub[s].end + days,
                          revive |-> sub[s].status \in {"expired", "cancelled"}]
    BY FindTypes
  <1>2. call'[c].op = "renew" => op = "renew" /\ call'[c].on = s
    BY <1>1 DEF NoCall
  <1>3. QED
    BY <1>1, <1>2 DEF Renewing

LEMMA StepBacked ==
  ASSUME IInv, NEW c \in Clients, Begin(c) \/ StartJob(c) \/ Continue(c) \/ Throw(c) \/ Crash(c)
  PROVE  Backed'
  <1>1. /\ Inv1 /\ TypeOK /\ TypeOK'
        /\ \A s \in Subs : intents[s] \in Nat /\ orders[s] \in Nat
    BY BeginInv1, ContinueInv1, JobInv1 DEF IInv, Inv1, TypeOK
  <1>2. ASSUME invoices' = invoices, intents' = intents, orders' = orders,
               \A d \in Clients \ {c} : call'[d] = call[d],
               \A s \in Subs : c \in Renewing(s)' => c \in Renewing(s)
        PROVE  Backed'
    BY <1>1, <1>2, KeepBacked
  <1>3. ASSUME Return(c), invoices' = invoices, intents' = intents, orders' = orders
        PROVE  Backed'
    <2>1. \A s \in Subs : c \notin Renewing(s)'
      BY <1>1, <1>3, ReturnTypes DEF Renewing, NoCall
    <2>2. QED
      BY <1>1, <1>2, <1>3, <2>1, ReturnTypes
  <1>4. ASSUME UNCHANGED <<call, invoices, intents, orders>>
        PROVE  Backed'
    BY <1>2, <1>4 DEF Renewing
  <1>5. CASE Begin(c)
    <2>1. ASSUME NEW s \in Subs, BeginCreate(c, s) PROVE Backed'
      <3>1. /\ \A d \in Clients \ {c} : call'[d] = call[d] /\ call'[c].op = "create"
            /\ UNCHANGED <<invoices, intents, orders>>
        BY <1>1, <2>1 DEF BeginCreate, NoCall, TypeOK
      <3>2. \A t \in Subs : c \notin Renewing(t)'
        BY <1>1, <2>1 DEF BeginCreate, NoCall, Renewing, TypeOK
      <3>3. QED
        BY <1>2, <3>1, <3>2
    <2>2. ASSUME NEW s \in Subs, NEW op \in Ops, Request(c, op, s) PROVE Backed'
      <3>1. /\ \A d \in Clients \ {c} : call'[d] = call[d]
            /\ \A t \in Subs : c \in Renewing(t)' => op = "renew" /\ t = s
        BY <1>1, <2>2, FindRenewing DEF Request
      <3>2. /\ intents' = intents /\ invoices' = invoices
            /\ \A t \in Subs : orders[t] <= orders'[t]
            /\ op = "renew" => orders'[s] = orders[s] + 1
        BY <1>1, <2>2 DEF Request, TypeOK
      <3>3. \A t \in Subs : c \in Renewing(t)' => intents[t] + orders[t] + 1 <= intents'[t] + orders'[t]
        BY <1>1, <3>1, <3>2
      <3>4. QED
        BY <1>1, <3>1, <3>2, <3>3, KeepBacked
    <2>3. ASSUME NEW s \in Subs, NEW days \in Extensions, RequestExtension(c, s, days) PROVE Backed'
      <3>1. days \in Nat
        BY SubscriptionsAssumption
      <3>2. /\ \A d \in Clients \ {c} : call'[d] = call[d]
            /\ \A t \in Subs : c \notin Renewing(t)'
        BY <1>1, <2>3, <3>1, FindRenewing DEF RequestExtension, Ops
      <3>3. QED
        BY <1>2, <2>3, <3>2 DEF RequestExtension
    <2>4. QED
      BY <1>5, <2>1, <2>2, <2>3 DEF Begin
  <1>6. CASE Write(c)
    <2>1. UNCHANGED <<invoices, intents, orders>>
      BY <1>1, <1>6, WrittenRow DEF Update
    <2>2. CASE Return(c)
      BY <1>3, <2>1, <2>2
    <2>3. CASE call[c].op = "renew" /\ call' = [call EXCEPT ![c].phase = "invoicing"]
      <3>1. /\ \A d \in Clients \ {c} : call'[d] = call[d]
            /\ call'[c].op = call[c].op /\ call'[c].on = call[c].on
        BY <1>1, <2>3 DEF TypeOK, Calls
      <3>2. QED
        BY <1>2, <2>1, <3>1 DEF Renewing
    <2>4. QED
      BY <1>1, <1>6, <2>2, <2>3, WrittenRow
  <1>7. CASE FindAgain(c)
    <2>1. call[c].on \in Subs /\ call[c].op \in {"renew", "grace"}
      BY <1>1, <1>7 DEF FindAgain, At, Inv1, CallInv
    <2>2. /\ \A d \in Clients \ {c} : call'[d] = call[d]
          /\ \A t \in Subs : c \in Renewing(t)' => call[c].op = "renew" /\ t = call[c].on
      BY <1>1, <1>7, <2>1, FindRenewing DEF FindAgain, Ops
    <2>3. QED
      BY <1>2, <1>7, <2>2 DEF FindAgain, Renewing
  <1>8. ASSUME NEW s \in Subs, ExpireNext(c, s) PROVE Backed'
    <2>1. /\ \A d \in Clients \ {c} : call'[d] = call[d]
          /\ \A t \in Subs : c \notin Renewing(t)'
      BY <1>1, <1>8, FindRenewing DEF ExpireNext, Ops
    <2>2. QED
      BY <1>2, <1>8, <2>1 DEF ExpireNext
  <1>9. ASSUME NEW s \in Subs, AttemptRenewalPayment(c, s) PROVE Backed'
    <2>1. PICK op \in {"renew", "grace"}, created \in BOOLEAN :
            /\ op = "renew" => created
            /\ intents' = IF created THEN [intents EXCEPT ![s] = @ + 1] ELSE intents
            /\ call' = [call EXCEPT ![c] = [NoCall EXCEPT !.op = op, !.phase = "finding", !.on = s]]
      BY <1>9 DEF AttemptRenewalPayment
    <2>2. /\ \A d \in Clients \ {c} : call'[d] = call[d]
          /\ call'[c].op = op /\ call'[c].on = s
      BY <1>1, <2>1 DEF NoCall, TypeOK
    <2>3. /\ \A t \in Subs : intents[t] <= intents'[t]
          /\ op = "renew" => intents'[s] = intents[s] + 1
      BY <1>1, <2>1 DEF TypeOK
    <2>4. invoices' = invoices /\ orders' = orders
      BY <1>9 DEF AttemptRenewalPayment
    <2>5. \A t \in Subs : c \in Renewing(t)' => intents[t] + orders[t] + 1 <= intents'[t] + orders'[t]
      BY <1>1, <2>2, <2>3, <2>4 DEF Renewing
    <2>6. QED
      BY <1>1, <2>2, <2>3, <2>4, <2>5, KeepBacked
  <1>10. CASE StartJob(c) \/ FindGraceExpired(c) \/ EndJob(c)
    BY <1>4, <1>10 DEF StartJob, FindGraceExpired, EndJob
  <1>11. CASE Throw(c) \/ Crash(c)
    BY <1>3, <1>11 DEF Throw, Crash
  <1>12. QED
    BY <1>5, <1>6, <1>7, <1>8, <1>9, <1>10, <1>11, InvoiceBacked DEF Continue

-------------------------------------------------------------------------------
(* The theorems.                                                           *)

LEMMA InitIInv == Init => IInv
  <1>. SUFFICES ASSUME Init PROVE IInv
    OBVIOUS
  <1>1. ASSUME NEW s \in Subs PROVE invoices[s] + Cardinality(Renewing(s)) <= intents[s] + orders[s]
    <2>1. Renewing(s) = {}
      BY DEF Init, Renewing, NoCall
    <2>2. QED
      BY <2>1, FS_EmptySet DEF Init
  <1>2. QED
    BY <1>1, InitInv1 DEF IInv, Backed

LEMMA StepIInv == IInv /\ [Next]_vars => IInv'
  <1>. SUFFICES ASSUME IInv, [Next]_vars PROVE IInv'
    OBVIOUS
  <1>1. Inv1'
    BY StepInv1 DEF IInv
  <1>2. CASE Tick \/ UNCHANGED vars
    <2>1. UNCHANGED <<call, invoices, intents, orders>>
      BY <1>2 DEF Tick, vars
    <2>2. \A s \in Subs : Renewing(s)' = Renewing(s)
      BY <2>1 DEF Renewing
    <2>3. Backed'
      BY <2>1, <2>2 DEF IInv, Backed
    <2>4. QED
      BY <1>1, <2>3 DEF IInv
  <1>3. QED
    BY <1>1, <1>2, StepBacked DEF Next, IInv

LEMMA SubscriptionsInvariant == Spec => []IInv
  BY InitIInv, StepIInv, PTL DEF Spec

\* Rows, calls and jobs always have their types, for any numbers of them.
THEOREM SubscriptionsTypeCorrect == Spec => []TypeOK
  <1>1. IInv => TypeOK
    BY DEF IInv, Inv1
  <1>2. QED
    BY <1>1, SubscriptionsInvariant, PTL

\* However stale the lists of jobs are, what nobody activated is never billed.
THEOREM SubscriptionsPendingIsNotBilled == Spec => []PendingIsNotBilled
  <1>1. IInv => PendingIsNotBilled
    BY DEF IInv, Inv1, RowInv, PendingIsNotBilled
  <1>2. QED
    BY <1>1, SubscriptionsInvariant, PTL

\* Every invoice has an intent or an order of its own, whatever overlaps or fails.
THEOREM SubscriptionsInvoicesAreBacked == Spec => []InvoicesAreBacked
  <1>1. ASSUME IInv, NEW s \in Subs PROVE invoices[s] <= intents[s] + orders[s]
    <2>1. /\ invoices[s] + Cardinality(Renewing(s)) <= intents[s] + orders[s]
          /\ invoices[s] \in Nat /\ intents[s] \in Nat /\ orders[s] \in Nat
      BY <1>1 DEF IInv, Inv1, TypeOK, Backed
    <2>2. QED
      BY <2>1, RenewingFinite
  <1>2. IInv => InvoicesAreBacked
    BY <1>1 DEF InvoicesAreBacked
  <1>3. QED
    BY <1>2, SubscriptionsInvariant, PTL

\* No race makes a grace period longer than gracePeriodDays.
THEOREM SubscriptionsGraceIsBounded == Spec => []GraceIsBounded
  <1>1. IInv => GraceIsBounded
    BY DEF IInv, Inv1, RowInv, GraceIsBounded
  <1>2. QED
    BY <1>1, SubscriptionsInvariant, PTL

\* No race of renewals and extensions serves longer than a period and what was granted.
THEOREM SubscriptionsServiceIsBounded == Spec => []ServiceIsBounded
  <1>1. IInv => ServiceIsBounded
    BY DEF IInv, Inv1, RowInv, ServiceIsBounded
  <1>2. QED
    BY <1>1, SubscriptionsInvariant, PTL
===============================================================================
