--------------------------- MODULE PromotionsProofs ---------------------------
(***************************************************************************)
(* For any number of users, kinds, campaigns and concurrent requests: the  *)
(* types of Promotions, that every campaign was paid for, when one is not  *)
(* charged, and that a campaign's counter agrees with its analytics rows.  *)
(***************************************************************************)
EXTENDS Promotions, FiniteSetTheorems, TLAPS

USE PromotionsAssumption

\* A request that is under way, given the campaigns that exist and the keys posted.
GoodCall(q, created, paid) ==
  /\ q \in Calls
  /\ q.phase \in {"finding", "writing", "recording"} => q.on \in created
  /\ q.phase \in {"checking", "paying", "debiting", "creating"} => q.kind \in Kinds
  /\ q.phase = "creating" => q.kind \in paid
  /\ q.phase \in {"finding", "writing"} => q.change \in Changes
  /\ q.todo \subseteq created

\* A campaign that exists: paid for, and with an end when it runs.
GoodRow(r, paid) ==
  /\ r \in Rows
  /\ r.kind \in paid
  /\ r.status = "active" => r.end # "none"

WalletOK ==
  /\ balance \in [Users -> Nat]
  /\ statement \in [Users -> Seq(Int)] /\ posted \subseteq Kinds
  /\ \A u \in Users : Len(statement[u]) = Cardinality(posted \cap KindsOf(u))

CampaignsOK ==
  /\ campaign \in [Campaigns -> Rows \cup {NoCampaign}]
  /\ \A i \in Created : GoodRow(campaign[i], posted)

CallsOK ==
  /\ call \in [Clients -> Calls]
  /\ \A c \in Clients : GoodCall(call[c], Created, posted)

CountsOK == views \in [Campaigns -> Nat] /\ requests \in Nat /\ failures \in Nat

IInv == WalletOK /\ CampaignsOK /\ CallsOK /\ CountsOK

LEMMA IInvShows == IInv => TypeOK /\ CampaignsPaid
BY DEF IInv, WalletOK, CampaignsOK, CallsOK, CountsOK, TypeOK, CampaignsPaid, GoodCall, GoodRow,
       Created, Active

-------------------------------------------------------------------------------
(* Lemmas on the parts of a step.                                          *)

LEMMA GoodCallStays ==
  ASSUME NEW q, NEW created, NEW more, NEW paid, NEW paidMore,
         created \subseteq more, paid \subseteq paidMore, GoodCall(q, created, paid)
  PROVE  GoodCall(q, more, paidMore)
BY DEF GoodCall

LEMMA NoCallGood ==
  ASSUME NEW created, NEW paid
  PROVE  GoodCall(NoCall, created, paid)
BY DEF GoodCall, NoCall, Calls, Ends

\* One request goes on, campaigns and keys are only added.
LEMMA CallStep ==
  ASSUME CallsOK, NEW c \in Clients, NEW q, GoodCall(q, Created', posted'),
         Created \subseteq Created', posted \subseteq posted',
         call' = [call EXCEPT ![c] = q]
  PROVE  CallsOK'
<1>1. call' \in [Clients -> Calls]
  BY DEF CallsOK, GoodCall
<1>2. ASSUME NEW d \in Clients PROVE GoodCall(call'[d], Created', posted')
  <2>1. CASE d = c
    BY <2>1 DEF CallsOK
  <2>2. CASE d # c
    <3>1. call'[d] = call[d] /\ GoodCall(call[d], Created, posted)
      BY <2>2 DEF CallsOK
    <3> QED BY <3>1, GoodCallStays
  <2> QED BY <2>1, <2>2
<1> QED BY <1>1, <1>2 DEF CallsOK

\* One campaign is written.
LEMMA RowStep ==
  ASSUME CampaignsOK, NEW i \in Campaigns, NEW r, GoodRow(r, posted), posted' = posted,
         campaign' = [campaign EXCEPT ![i] = r]
  PROVE  CampaignsOK' /\ Created' = Created \cup {i}
<1>1. r \in Rows /\ r # NoCampaign
  BY DEF GoodRow
<1>2. campaign' \in [Campaigns -> Rows \cup {NoCampaign}]
  BY <1>1 DEF CampaignsOK
<1>3. Created' = Created \cup {i}
  BY <1>1 DEF CampaignsOK, Created
<1>4. ASSUME NEW j \in Created' PROVE GoodRow(campaign'[j], posted')
  BY <1>3 DEF CampaignsOK, Created
<1> QED BY <1>2, <1>3, <1>4 DEF CampaignsOK

\* One request goes on, and nothing else changes but the counters.
LEMMA KeepCampaigns ==
  ASSUME IInv, NEW c \in Clients, NEW q, GoodCall(q, Created, posted),
         call' = [call EXCEPT ![c] = q], UNCHANGED <<wallet, campaign>>, CountsOK'
  PROVE  IInv'
<1>1. Created' = Created /\ posted' = posted
  BY DEF Created, wallet
<1>2. CallsOK'
  BY <1>1, CallStep DEF IInv
<1>3. WalletOK'
  BY DEF IInv, WalletOK, wallet
<1>4. CampaignsOK'
  BY <1>1 DEF IInv, CampaignsOK, wallet
<1> QED BY <1>2, <1>3, <1>4 DEF IInv

\* One request goes on and writes a campaign.
LEMMA WritesCampaign ==
  ASSUME IInv, NEW c \in Clients, NEW q, NEW i \in Campaigns, NEW r,
         GoodCall(q, Created, posted), GoodRow(r, posted),
         call' = [call EXCEPT ![c] = q], campaign' = [campaign EXCEPT ![i] = r],
         UNCHANGED wallet, CountsOK'
  PROVE  IInv' /\ Created' = Created \cup {i}
<1>1. posted' = posted
  BY DEF wallet
<1>2. CampaignsOK' /\ Created' = Created \cup {i}
  BY <1>1, RowStep DEF IInv
<1>3. GoodCall(q, Created', posted')
  BY <1>1, <1>2, GoodCallStays
<1>4. CallsOK'
  BY <1>1, <1>2, <1>3, CallStep DEF IInv
<1>5. WalletOK'
  BY DEF IInv, WalletOK, wallet
<1> QED BY <1>2, <1>4, <1>5 DEF IInv
-------------------------------------------------------------------------------
(* Every action keeps the invariant.                                       *)

LEMMA InitIInv == Init => IInv
<1> SUFFICES ASSUME Init PROVE IInv
  OBVIOUS
<1>1. Created = {}
  BY DEF Init, Created
<1>2. WalletOK
  <2>1. \A u \in Users : Cardinality(posted \cap KindsOf(u)) = 0
    <3>1. \A u \in Users : posted \cap KindsOf(u) = {}
      BY DEF Init
    <3> QED BY <3>1, FS_EmptySet
  <2> QED BY <2>1 DEF Init, WalletOK
<1>3. CallsOK
  <2>1. \A c \in Clients : GoodCall(call[c], Created, posted) /\ call[c] = NoCall
    BY NoCallGood DEF Init
  <2>2. NoCall \in Calls
    BY DEF NoCall, Calls, Ends
  <2> QED BY <2>1, <2>2 DEF Init, CallsOK
<1> QED BY <1>1, <1>2, <1>3 DEF Init, IInv, CampaignsOK, CountsOK

\* A client's call, and what a step of it may be built from.
LEMMA CallOf ==
  ASSUME IInv, NEW c \in Clients
  PROVE  /\ call[c] \in Calls /\ GoodCall(call[c], Created, posted)
         /\ \A ph : call' = [call EXCEPT ![c].phase = ph]
              <=> call' = [call EXCEPT ![c] = [call[c] EXCEPT !.phase = ph]]
BY DEF IInv, CallsOK

LEMMA EndKeeps ==
  ASSUME IInv, NEW c \in Clients, End(c), UNCHANGED <<wallet, campaign>>, CountsOK'
  PROVE  IInv'
BY NoCallGood, KeepCampaigns DEF End

LEMMA RequestKeeps ==
  ASSUME IInv, NEW c \in Clients, Request(c)
  PROVE  IInv'
<1>1. ASSUME NEW q, GoodCall(q, Created, posted), Ask(c, q) PROVE IInv'
  <2>1. CountsOK'
    BY <1>1 DEF Ask, IInv, CountsOK
  <2> QED BY <1>1, <2>1, KeepCampaigns DEF Ask
<1>2. ASSUME NEW kind \in Kinds, NEW budget \in Budgets, CreateCampaign(c, kind, budget)
      PROVE  IInv'
  <2> DEFINE q == [NoCall EXCEPT !.phase = "checking", !.kind = kind, !.budget = budget]
  <2>1. GoodCall(q, Created, posted)
    BY DEF NoCall, GoodCall, Calls, Ends
  <2> QED BY <1>1, <1>2, <2>1 DEF CreateCampaign
<1>3. ASSUME NEW i \in Campaigns, NEW change \in Changes, ChangeCampaign(c, i, change)
      PROVE  IInv'
  <2> DEFINE q == [NoCall EXCEPT !.phase = "finding", !.change = change, !.on = i]
  <2>1. GoodCall(q, Created, posted)
    BY <1>3 DEF ChangeCampaign, NoCall, GoodCall, Calls, Ends
  <2> QED BY <1>1, <1>3, <2>1 DEF ChangeCampaign
<1>4. ASSUME NEW i \in Campaigns, RecordView(c, i) PROVE IInv'
  <2> DEFINE q == [NoCall EXCEPT !.phase = "recording", !.on = i, !.parts = {"row", "count"}]
  <2>1. GoodCall(q, Created, posted)
    BY <1>4 DEF RecordView, NoCall, GoodCall, Calls, Ends
  <2> QED BY <1>1, <1>4, <2>1 DEF RecordView
<1>5. ASSUME ExpireCampaigns(c) PROVE IInv'
  <2> DEFINE q == [NoCall EXCEPT !.phase = "listing"]
  <2>1. GoodCall(q, Created, posted)
    BY DEF NoCall, GoodCall, Calls, Ends
  <2> QED BY <1>1, <1>5, <2>1 DEF ExpireCampaigns
<1> QED BY <1>2, <1>3, <1>4, <1>5 DEF Request

\* The steps that only read, and go on or end.
LEMMA GoKeeps ==
  ASSUME IInv, NEW c \in Clients, NEW ph, Go(c, ph), UNCHANGED <<wallet, campaign>>, CountsOK',
         GoodCall([call[c] EXCEPT !.phase = ph], Created, posted)
  PROVE  IInv'
BY KeepCampaigns DEF Go, IInv, CallsOK

LEMMA ReadsKeep ==
  ASSUME IInv, NEW c \in Clients, CheckAccess(c) \/ CheckBalance(c)
  PROVE  IInv'
<1>1. UNCHANGED <<wallet, campaign>> /\ CountsOK'
  BY DEF CheckAccess, CheckBalance, IInv, CountsOK
<1>2. PICK ph \in {"paying", "debiting"} :
        (Go(c, ph) \/ End(c)) /\ (At(c, "checking") \/ At(c, "paying"))
  BY DEF CheckAccess, CheckBalance
<1>3. GoodCall([call[c] EXCEPT !.phase = ph], Created, posted)
  BY <1>2, CallOf DEF GoodCall, Calls, At
<1> QED BY <1>1, <1>2, <1>3, GoKeeps, EndKeeps

\* What becomes of a request to change a campaign: it ends, or keeps the end it found.
LEMMA FindCampaignCall ==
  ASSUME IInv, NEW c \in Clients, FindCampaign(c)
  PROVE  \E q : /\ GoodCall(q, Created, posted) /\ q.phase # "recording"
               /\ call' = [call EXCEPT ![c] = q]
<1>1. CASE End(c)
  <2>1. NoCall.phase # "recording"
    BY DEF NoCall
  <2> QED BY <1>1, <2>1, NoCallGood DEF End
<1>2. CASE ~End(c)
  <2>1. PICK i \in Created : i = call[c].on
    BY CallOf DEF FindCampaign, At, GoodCall
  <2>2. campaign[i].end \in Ends
    BY DEF IInv, CampaignsOK, GoodRow, Rows
  <2>3. PICK end \in Ends :
          call' = [call EXCEPT ![c].phase = "writing", ![c].end = end]
    <3>1. call[c].end \in Ends
      BY CallOf DEF Calls
    <3>2. CASE call[c].change = "activate"
      BY <1>2, <2>1, <2>2, <3>2 DEF FindCampaign
    <3>3. CASE call[c].change # "activate"
      <4>1. call' = [call EXCEPT ![c].phase = "writing", ![c].end = @]
        BY <1>2, <3>3 DEF FindCampaign
      <4>2. call' = [call EXCEPT ![c].phase = "writing", ![c].end = call[c].end]
        BY <4>1 DEF IInv, CallsOK
      <4> QED BY <3>1, <4>2
    <3> QED BY <3>2, <3>3
  <2> DEFINE q == [call[c] EXCEPT !.phase = "writing", !.end = end]
  <2>4. call' = [call EXCEPT ![c] = q]
    BY <2>3 DEF IInv, CallsOK
  <2>5. GoodCall(q, Created, posted) /\ q.phase # "recording"
    <3>1. At(c, "finding") /\ GoodCall(call[c], Created, posted)
      BY CallOf DEF FindCampaign
    <3> QED BY <3>1 DEF GoodCall, Calls, At
  <2> HIDE DEF q
  <2> QED BY <2>4, <2>5
<1> QED BY <1>1, <1>2

LEMMA FindCampaignKeeps ==
  ASSUME IInv, NEW c \in Clients, FindCampaign(c)
  PROVE  IInv'
<1>1. PICK q : GoodCall(q, Created, posted) /\ call' = [call EXCEPT ![c] = q]
  BY FindCampaignCall
<1>2. UNCHANGED <<wallet, campaign>> /\ CountsOK'
  BY DEF FindCampaign, IInv, CountsOK
<1> QED BY <1>1, <1>2, KeepCampaigns

\* The ledger posts a key: its user's statement grows with the keys of its kinds.
LEMMA PostKeeps ==
  ASSUME IInv, NEW kind \in Kinds, NEW b \in Nat, Ledger!Post(Owner[kind], -b, kind)
  PROVE  WalletOK' /\ posted' = posted \cup {kind}
<1> DEFINE u == Owner[kind]
<1>1. /\ u \in Users /\ kind \notin posted /\ posted \subseteq Kinds
      /\ balance \in [Users -> Nat] /\ statement \in [Users -> Seq(Int)]
      /\ balance[u] + (-b) >= 0
      /\ balance' = [balance EXCEPT ![u] = @ + (-b)]
      /\ statement' = [statement EXCEPT ![u] = Append(@, -b)]
      /\ posted' = posted \cup {kind}
  BY DEF Ledger!Post, IInv, WalletOK
<1> HIDE DEF u
<1>2. balance' \in [Users -> Nat]
  <2>1. balance[u] + (-b) \in Nat
    BY <1>1
  <2> QED BY <1>1, <2>1
<1>3. statement' \in [Users -> Seq(Int)]
  <2>1. Append(statement[u], -b) \in Seq(Int)
    BY <1>1
  <2> QED BY <1>1, <2>1
<1>4. ASSUME NEW v \in Users PROVE Len(statement'[v]) = Cardinality(posted' \cap KindsOf(v))
  <2>1. IsFiniteSet(posted \cap KindsOf(v))
    BY <1>1, FS_Subset
  <2>2. Len(statement[v]) = Cardinality(posted \cap KindsOf(v))
    BY DEF IInv, WalletOK
  <2>3. CASE v = u
    <3>1. posted' \cap KindsOf(v) = (posted \cap KindsOf(v)) \cup {kind}
      BY <1>1, <2>3 DEF KindsOf, u
    <3>2. Cardinality(posted' \cap KindsOf(v)) = Cardinality(posted \cap KindsOf(v)) + 1
      BY <1>1, <2>1, <3>1, FS_AddElement
    <3>3. Len(statement'[v]) = Len(statement[v]) + 1
      BY <1>1, <2>3
    <3> QED BY <2>2, <3>2, <3>3
  <2>4. CASE v # u
    <3>1. posted' \cap KindsOf(v) = posted \cap KindsOf(v)
      BY <1>1, <2>4 DEF KindsOf, u
    <3>2. statement'[v] = statement[v]
      BY <1>1, <2>4
    <3> QED BY <2>2, <3>1, <3>2
  <2> QED BY <2>3, <2>4
<1> QED BY <1>1, <1>2, <1>3, <1>4 DEF WalletOK

LEMMA DebitKeeps ==
  ASSUME IInv, NEW c \in Clients, Debit(c)
  PROVE  IInv'
<1> DEFINE kind == call[c].kind
<1>1. kind \in Kinds /\ call[c].budget \in Nat
  BY CallOf DEF Debit, At, GoodCall, Calls
<1>2. CountsOK' /\ campaign' = campaign
  BY DEF Debit, IInv, CountsOK
<1>3. CASE Ledger!Post(Owner[kind], -call[c].budget, kind) /\ Go(c, "creating")
  <2>1. WalletOK' /\ posted' = posted \cup {kind}
    BY <1>1, <1>3, PostKeeps
  <2>2. Created' = Created
    BY <1>2 DEF Created
  <2>3. GoodCall([call[c] EXCEPT !.phase = "creating"], Created', posted')
    <3>1. call[c] \in Calls /\ call[c].todo \subseteq Created
      BY CallOf DEF GoodCall
    <3> QED BY <1>1, <2>1, <2>2, <3>1 DEF GoodCall, Calls
  <2>4. call' = [call EXCEPT ![c] = [call[c] EXCEPT !.phase = "creating"]]
    BY <1>3 DEF Go, IInv, CallsOK
  <2>5. CallsOK'
    BY <2>1, <2>2, <2>3, <2>4, CallStep DEF IInv
  <2>6. CampaignsOK'
    BY <1>2, <2>1, <2>2 DEF IInv, CampaignsOK, GoodRow
  <2> QED BY <1>2, <2>1, <2>5, <2>6 DEF IInv
<1>4. CASE kind \in posted /\ UNCHANGED wallet /\ Go(c, "creating")
  <2>1. GoodCall([call[c] EXCEPT !.phase = "creating"], Created, posted)
    <3>1. call[c] \in Calls /\ call[c].todo \subseteq Created
      BY CallOf DEF GoodCall
    <3> QED BY <1>1, <1>4, <3>1 DEF GoodCall, Calls
  <2> QED BY <1>2, <1>4, <2>1, GoKeeps
<1>5. CASE UNCHANGED wallet /\ End(c)
  BY <1>2, <1>5, EndKeeps
<1> QED BY <1>3, <1>4, <1>5 DEF Debit
LEMMA InsertKeeps ==
  ASSUME IInv, NEW c \in Clients, InsertCampaign(c)
  PROVE  IInv'
<1>1. PICK i \in Campaigns \ Created, end \in Ends :
        campaign' = [campaign EXCEPT ![i] =
          [kind |-> call[c].kind, status |-> "draft", end |-> end, spent |-> 0,
           at |-> Cardinality(Created) + 1]]
  BY DEF InsertCampaign
<1> DEFINE r == [kind |-> call[c].kind, status |-> "draft", end |-> end, spent |-> 0,
                 at |-> Cardinality(Created) + 1]
<1>2. Cardinality(Created) + 1 \in Nat
  BY FS_Subset, FS_CardinalityType DEF Created
<1>3. call[c].kind \in Kinds /\ call[c].kind \in posted
  BY CallOf DEF InsertCampaign, At, GoodCall
<1>4. GoodRow(r, posted)
  BY <1>2, <1>3 DEF GoodRow, Rows, Statuses
<1>5. UNCHANGED wallet /\ CountsOK' /\ End(c)
  BY DEF InsertCampaign, IInv, CountsOK
<1>6. campaign' = [campaign EXCEPT ![i] = r]
  BY <1>1
<1> HIDE DEF r
<1> QED BY <1>4, <1>5, <1>6, NoCallGood, WritesCampaign DEF End

LEMMA Targets ==
  ASSUME NEW change \in Changes
  PROVE  To(change) \in Statuses /\ (To(change) = "active" => change = "activate")
BY DEF To, Changes, Statuses

LEMMA WriteKeeps ==
  ASSUME IInv, NEW c \in Clients, WriteCampaign(c)
  PROVE  IInv' /\ Created' = Created
<1>1. PICK i \in Created, change \in Changes : i = call[c].on /\ change = call[c].change
  BY CallOf DEF WriteCampaign, At, GoodCall
<1>2. GoodRow(campaign[i], posted) /\ i \in Campaigns
  BY DEF IInv, CampaignsOK, Created
<1>3. PICK end \in Ends :
        /\ change = "activate" => end # "none"
        /\ campaign' = [campaign EXCEPT ![i].status = To(change), ![i].end = end]
  <2>1. call[c].end \in Ends /\ campaign[i].end \in Ends
    BY <1>2, CallOf DEF Calls, GoodRow, Rows
  <2>2. CASE change # "activate"
    <3>1. campaign' = [campaign EXCEPT ![i].status = To(change), ![i].end = campaign[i].end]
      BY <1>1, <2>2 DEF WriteCampaign
    <3> QED BY <2>1, <2>2, <3>1
  <2>3. CASE change = "activate" /\ call[c].end = "none"
    BY <1>1, <2>3 DEF WriteCampaign, Ends
  <2>4. CASE change = "activate" /\ call[c].end # "none"
    BY <1>1, <2>1, <2>4 DEF WriteCampaign
  <2> QED BY <2>2, <2>3, <2>4
<1> DEFINE r == [campaign[i] EXCEPT !.status = To(change), !.end = end]
<1>4. campaign' = [campaign EXCEPT ![i] = r]
  BY <1>2, <1>3 DEF IInv, CampaignsOK
<1>5. GoodRow(r, posted)
  BY <1>2, <1>3, Targets DEF GoodRow, Rows
<1>6. UNCHANGED wallet /\ CountsOK' /\ End(c)
  BY DEF WriteCampaign, IInv, CountsOK
<1> HIDE DEF r
<1>7. IInv' /\ Created' = Created \cup {i}
  BY <1>2, <1>4, <1>5, <1>6, NoCallGood, WritesCampaign DEF End
<1> QED BY <1>7

LEMMA ListActiveKeeps ==
  ASSUME IInv, NEW c \in Clients, ListActive(c)
  PROVE  IInv'
<1>1. PICK page \in SUBSET Campaigns :
        /\ IsPage(page)
        /\ call' = [call EXCEPT ![c].phase = "expiring",
                                ![c].todo = {i \in page : campaign[i].end = "past"}]
  BY DEF ListActive
<1> DEFINE todo == {i \in page : campaign[i].end = "past"}
           q == [call[c] EXCEPT !.phase = "expiring", !.todo = todo]
<1>2. todo \subseteq Created /\ todo \subseteq Campaigns
  BY <1>1 DEF IsPage, Active, Created
<1>3. call' = [call EXCEPT ![c] = q]
  BY <1>1 DEF IInv, CallsOK
<1> HIDE DEF todo
<1>4. GoodCall(q, Created, posted)
  BY <1>2, CallOf DEF GoodCall, Calls
<1>5. UNCHANGED <<wallet, campaign>> /\ CountsOK'
  BY DEF ListActive, IInv, CountsOK
<1> HIDE DEF q
<1> QED BY <1>3, <1>4, <1>5, KeepCampaigns

LEMMA ExpireNextKeeps ==
  ASSUME IInv, NEW c \in Clients, ExpireNext(c)
  PROVE  IInv' /\ Created' = Created
<1>1. PICK i \in call[c].todo :
        /\ campaign' = [campaign EXCEPT ![i].status = "expired"]
        /\ call' = [call EXCEPT ![c].todo = @ \ {i}]
  BY DEF ExpireNext
<1>2. i \in Created /\ i \in Campaigns /\ GoodRow(campaign[i], posted)
  BY CallOf DEF GoodCall, IInv, CampaignsOK, Created
<1> DEFINE r == [campaign[i] EXCEPT !.status = "expired"]
           q == [call[c] EXCEPT !.todo = @ \ {i}]
<1>3. campaign' = [campaign EXCEPT ![i] = r] /\ call' = [call EXCEPT ![c] = q]
  BY <1>1 DEF IInv, CampaignsOK, CallsOK
<1>4. GoodRow(r, posted)
  BY <1>2 DEF GoodRow, Rows, Statuses
<1>5. GoodCall(q, Created, posted)
  BY CallOf DEF GoodCall, Calls
<1>6. UNCHANGED wallet /\ CountsOK'
  BY DEF ExpireNext, IInv, CountsOK
<1> HIDE DEF r, q
<1>7. IInv' /\ Created' = Created \cup {i}
  BY <1>2, <1>3, <1>4, <1>5, <1>6, WritesCampaign
<1> QED BY <1>2, <1>7

\* What is left of a recording after one of its statements.
LEMMA ThroughCall ==
  ASSUME IInv, NEW c \in Clients, NEW part, Through(c, part)
  PROVE  \E q : /\ GoodCall(q, Created, posted) /\ call' = [call EXCEPT ![c] = q]
               /\ \/ q = NoCall /\ call[c].parts = {part}
                  \/ q = [call[c] EXCEPT !.parts = @ \ {part}]
<1>1. CASE call[c].parts = {part}
  BY <1>1, NoCallGood DEF Through, End
<1>2. CASE call[c].parts # {part}
  <2> DEFINE q == [call[c] EXCEPT !.parts = @ \ {part}]
  <2>1. GoodCall(q, Created, posted)
    BY CallOf DEF GoodCall, Calls
  <2>2. call' = [call EXCEPT ![c] = q]
    BY <1>2 DEF Through, IInv, CallsOK
  <2> QED BY <2>1, <2>2
<1> QED BY <1>1, <1>2

LEMMA AddViewKeeps ==
  ASSUME IInv, NEW c \in Clients, AddView(c)
  PROVE  IInv'
<1>1. PICK q : GoodCall(q, Created, posted) /\ call' = [call EXCEPT ![c] = q]
  BY ThroughCall DEF AddView
<1>2. call[c].on \in Campaigns
  BY CallOf DEF AddView, At, GoodCall, Created
<1>3. UNCHANGED <<wallet, campaign>> /\ CountsOK'
  BY <1>2 DEF AddView, IInv, CountsOK
<1> QED BY <1>1, <1>3, KeepCampaigns

LEMMA CountViewKeeps ==
  ASSUME IInv, NEW c \in Clients, CountView(c)
  PROVE  IInv' /\ Created' = Created
<1>1. PICK q : GoodCall(q, Created, posted) /\ call' = [call EXCEPT ![c] = q]
  BY ThroughCall DEF CountView
<1>2. PICK i \in Campaigns : i = call[c].on /\ i \in Created /\ GoodRow(campaign[i], posted)
  BY CallOf DEF CountView, At, GoodCall, IInv, CampaignsOK, Created
<1> DEFINE r == [campaign[i] EXCEPT !.spent = @ + 1]
<1>3. campaign' = [campaign EXCEPT ![i] = r]
  BY <1>2 DEF CountView, IInv, CampaignsOK
<1>4. GoodRow(r, posted)
  BY <1>2 DEF GoodRow, Rows
<1>5. UNCHANGED wallet /\ CountsOK'
  BY DEF CountView, IInv, CountsOK
<1> HIDE DEF r
<1>6. IInv' /\ Created' = Created \cup {i}
  BY <1>1, <1>3, <1>4, <1>5, WritesCampaign
<1> QED BY <1>2, <1>6

LEMMA FailKeeps ==
  ASSUME IInv, NEW c \in Clients, Fail(c)
  PROVE  IInv'
<1>1. PICK q : GoodCall(q, Created, posted) /\ call' = [call EXCEPT ![c] = q]
  BY ThroughCall, NoCallGood DEF Fail, End
<1>2. UNCHANGED <<wallet, campaign>> /\ CountsOK'
  BY DEF Fail, IInv, CountsOK
<1> QED BY <1>1, <1>2, KeepCampaigns

LEMMA PassKeeps ==
  ASSUME IInv, NEW i \in Campaigns, Pass(i)
  PROVE  IInv' /\ Created' = Created
<1>1. i \in Created /\ GoodRow(campaign[i], posted)
  BY DEF Pass, IInv, CampaignsOK
<1> DEFINE r == [campaign[i] EXCEPT !.end = "past"]
<1>2. campaign' = [campaign EXCEPT ![i] = r] /\ UNCHANGED wallet /\ CountsOK'
  BY DEF Pass, IInv, CampaignsOK, CountsOK
<1>3. GoodRow(r, posted)
  BY <1>1 DEF GoodRow, Rows, Ends
<1> HIDE DEF r
<1>4. CampaignsOK' /\ Created' = Created
  <2>1. posted' = posted
    BY <1>2 DEF wallet
  <2>2. CampaignsOK' /\ Created' = Created \cup {i}
    BY <1>2, <1>3, <2>1, RowStep DEF IInv
  <2> QED BY <1>1, <2>2
<1>5. \A c \in Clients : GoodCall(call'[c], Created, posted)
  <2> SUFFICES ASSUME NEW c \in Clients PROVE GoodCall(call'[c], Created, posted)
    OBVIOUS
  <2>1. GoodCall(call[c], Created, posted)
    BY CallOf
  <2>2. call'[c] = call[c] \/ call'[c] = [call[c] EXCEPT !.end = "past"]
    BY DEF Pass
  <2>3. GoodCall([call[c] EXCEPT !.end = "past"], Created, posted)
    BY <2>1 DEF GoodCall, Calls, Ends
  <2> QED BY <2>1, <2>2, <2>3
<1>6. CallsOK'
  <2>1. posted' = posted
    BY <1>2 DEF wallet
  <2>2. call' = [c \in Clients |-> call'[c]]
    BY DEF Pass
  <2>3. call' \in [Clients -> Calls]
    BY <1>5, <2>2 DEF GoodCall
  <2> QED BY <1>4, <1>5, <2>1, <2>3 DEF CallsOK
<1>7. WalletOK'
  BY <1>2 DEF IInv, WalletOK, wallet
<1> QED BY <1>2, <1>4, <1>6, <1>7 DEF IInv

LEMMA NextIInv == IInv /\ [Next]_vars => IInv'
<1> SUFFICES ASSUME IInv, [Next]_vars PROVE IInv'
  OBVIOUS
<1>1. ASSUME NEW c \in Clients, Request(c) \/ Fail(c) PROVE IInv'
  BY <1>1, RequestKeeps, FailKeeps
<1>2. ASSUME NEW c \in Clients, EndExpiry(c) PROVE IInv'
  BY <1>2, EndKeeps DEF EndExpiry, IInv, CountsOK
<1>3. ASSUME NEW c \in Clients, Continue(c) PROVE IInv'
  BY <1>2, <1>3, ReadsKeep, FindCampaignKeeps, DebitKeeps, InsertKeeps, WriteKeeps, ListActiveKeeps,
     ExpireNextKeeps, AddViewKeeps, CountViewKeeps DEF Continue
<1>4. ASSUME NEW i \in Campaigns, Pass(i) PROVE IInv'
  BY <1>4, PassKeeps
<1>5. CASE UNCHANGED vars
  BY <1>5 DEF vars, wallet, IInv, WalletOK, CampaignsOK, CallsOK, CountsOK, Created
<1> QED BY <1>1, <1>3, <1>4, <1>5 DEF Next

LEMMA Invariance == Spec => []IInv
<1> QED BY InitIInv, NextIInv, PTL DEF Spec

\* Calls work on campaigns that exist, and a campaign that runs has an end.
THEOREM PromotionsTypeCorrect == Spec => []TypeOK
<1> QED BY IInvShows, Invariance, PTL

\* Over requests that race, fail and are repeated, no campaign exists whose key is not in
\* the ledger, and a user is debited once for each kind.
THEOREM PromotionsCampaignsPaid == Spec => []CampaignsPaid
<1> QED BY IInvShows, Invariance, PTL
-------------------------------------------------------------------------------
(* The counters.                                                           *)

\* The call of client c becomes q.
Becomes(c, q) == call' = [call EXCEPT ![c] = q]

\* What a request will still record.
Owed(q, i) == IF q.phase = "recording" /\ q.on = i THEN q.parts ELSE {}

\* The agreement of SpentMatchesViews, for one campaign.
Agree(i) ==
  /\ campaign[i].spent + Recording(i, "count") <= views[i] + Recording(i, "row") + failures
  /\ views[i] + Recording(i, "row") <= campaign[i].spent + Recording(i, "count") + failures

CountersAgree ==
  /\ \A i \in Created : Agree(i)
  /\ \A i \in Campaigns \ Created : views[i] = 0

LEMMA RecordingIsNat ==
  ASSUME NEW i, NEW part
  PROVE  IsFiniteSet(Recorders(i, part)) /\ Recording(i, part) \in Nat
BY FS_Subset, FS_CardinalityType DEF Recorders, Recording

LEMMA RecordingNextIsNat ==
  ASSUME NEW i, NEW part
  PROVE  Recording(i, part)' \in Nat
BY FS_Subset, FS_CardinalityType DEF Recorders, Recording

\* How the recorders change with one call.
LEMMA RecordersStep ==
  ASSUME CallsOK, NEW c \in Clients, NEW q, Becomes(c, q), NEW i, NEW part
  PROVE  Recorders(i, part)' =
           IF part \in Owed(q, i) THEN Recorders(i, part) \cup {c} ELSE Recorders(i, part) \ {c}
<1>1. call'[c] = q /\ \A d \in Clients \ {c} : call'[d] = call[d]
  BY DEF CallsOK, Becomes
<1> QED BY <1>1 DEF Recorders, At, Owed

LEMMA OwesSame ==
  ASSUME CallsOK, NEW c \in Clients, NEW q, Becomes(c, q), NEW i, NEW part,
         part \in Owed(q, i) <=> part \in Owed(call[c], i)
  PROVE  Recording(i, part)' = Recording(i, part)
<1>1. c \in Recorders(i, part) <=> part \in Owed(q, i)
  BY DEF Recorders, At, Owed
<1>2. Recorders(i, part)' = Recorders(i, part)
  <2>1. Recorders(i, part)' =
          IF part \in Owed(q, i) THEN Recorders(i, part) \cup {c} ELSE Recorders(i, part) \ {c}
    BY RecordersStep
  <2> QED BY <1>1, <2>1
<1> QED BY <1>2 DEF Recording

LEMMA OwesMore ==
  ASSUME CallsOK, NEW c \in Clients, NEW q, Becomes(c, q), NEW i, NEW part,
         part \in Owed(q, i), part \notin Owed(call[c], i)
  PROVE  Recording(i, part)' = Recording(i, part) + 1
<1>1. c \notin Recorders(i, part)
  BY DEF Recorders, At, Owed
<1>2. Recorders(i, part)' = Recorders(i, part) \cup {c}
  BY RecordersStep
<1>3. Cardinality(Recorders(i, part) \cup {c}) = Cardinality(Recorders(i, part)) + 1
  BY <1>1, RecordingIsNat, FS_AddElement
<1> QED BY <1>2, <1>3 DEF Recording

LEMMA OwesLess ==
  ASSUME CallsOK, NEW c \in Clients, NEW q, Becomes(c, q), NEW i, NEW part,
         part \notin Owed(q, i), part \in Owed(call[c], i)
  PROVE  Recording(i, part)' = Recording(i, part) - 1
<1>1. c \in Recorders(i, part)
  BY DEF Recorders, At, Owed
<1>2. Recorders(i, part)' = Recorders(i, part) \ {c}
  BY RecordersStep
<1>3. Cardinality(Recorders(i, part) \ {c}) = Cardinality(Recorders(i, part)) - 1
  BY <1>1, RecordingIsNat, FS_RemoveElement
<1> QED BY <1>2, <1>3 DEF Recording

\* A step after which nobody owes more or less.
LEMMA SameOwed ==
  ASSUME IInv, IInv', CountersAgree,
         \A i \in Campaigns : \A part \in {"row", "count"} : Recording(i, part)' = Recording(i, part),
         views' = views, failures <= failures', Created' = Created,
         \A i \in Created : campaign'[i].spent = campaign[i].spent
  PROVE  CountersAgree'
<1>1. ASSUME NEW i \in Created PROVE Agree(i)'
  <2>1. Agree(i) /\ i \in Campaigns /\ campaign[i].spent \in Nat
    BY DEF CountersAgree, Created, IInv, CampaignsOK, GoodRow, Rows
  <2>2. views[i] \in Nat /\ failures \in Nat /\ failures' \in Nat
    BY <2>1 DEF IInv, CountsOK
  <2>3. Recording(i, "row") \in Nat /\ Recording(i, "count") \in Nat
    BY RecordingIsNat
  <2>4. /\ Recording(i, "row")' = Recording(i, "row")
        /\ Recording(i, "count")' = Recording(i, "count")
    BY <2>1
  <2> QED BY <2>1, <2>2, <2>3, <2>4 DEF Agree
<1> QED BY <1>1 DEF CountersAgree
\* A call that was not recording and is not recording after the step.
LEMMA NotRecording ==
  ASSUME IInv, IInv', CountersAgree, NEW c \in Clients, NEW q,
         Becomes(c, q), q.phase # "recording", ~At(c, "recording"),
         views' = views, failures <= failures', Created' = Created,
         \A i \in Created : campaign'[i].spent = campaign[i].spent
  PROVE  CountersAgree'
<1>1. ASSUME NEW i \in Campaigns, NEW part \in {"row", "count"}
      PROVE  Recording(i, part)' = Recording(i, part)
  <2>1. CallsOK /\ (part \in Owed(q, i) <=> part \in Owed(call[c], i))
    BY DEF Owed, At, IInv
  <2> QED BY <2>1, OwesSame
<1> QED BY <1>1, SameOwed

LEMMA AskAgrees ==
  ASSUME IInv, IInv', CountersAgree, NEW c \in Clients, Request(c)
  PROVE  CountersAgree'
<1>1. ASSUME NEW q, Ask(c, q), q.phase # "recording" PROVE CountersAgree'
  <2>1. /\ Becomes(c, q) /\ ~At(c, "recording") /\ views' = views
        /\ campaign' = campaign /\ failures' = failures /\ failures \in Nat
    BY <1>1 DEF Ask, Becomes, At, IInv, CountsOK
  <2>2. failures <= failures' /\ Created' = Created
    BY <2>1 DEF Created
  <2> QED BY <1>1, <2>1, <2>2, NotRecording
<1>2. ASSUME NEW i \in Campaigns, RecordView(c, i) PROVE CountersAgree'
  <2> DEFINE q == [NoCall EXCEPT !.phase = "recording", !.on = i, !.parts = {"row", "count"}]
  <2>1. /\ Becomes(c, q) /\ ~At(c, "recording") /\ views' = views
        /\ campaign' = campaign /\ failures' = failures
    BY <1>2 DEF RecordView, Becomes, Ask, At
  <2>2. /\ q.phase = "recording" /\ q.on = i /\ q.parts = {"row", "count"}
    BY DEF NoCall
  <2> HIDE DEF q
  <2>3. ASSUME NEW j \in Created PROVE Agree(j)'
    <3>1. /\ Recording(j, "row")' = Recording(j, "row") + (IF j = i THEN 1 ELSE 0)
          /\ Recording(j, "count")' = Recording(j, "count") + (IF j = i THEN 1 ELSE 0)
      <4>1. ASSUME NEW part \in {"row", "count"}
            PROVE  Recording(j, part)' = Recording(j, part) + (IF j = i THEN 1 ELSE 0)
        <5>1. CallsOK /\ (part \in Owed(q, j) <=> j = i) /\ part \notin Owed(call[c], j)
          BY <2>1, <2>2 DEF Owed, At, IInv
        <5>2. CASE j = i
          BY <2>1, <5>1, <5>2, OwesMore
        <5>3. CASE j # i
          <6>1. Recording(j, part)' = Recording(j, part)
            BY <2>1, <5>1, <5>3, OwesSame
          <6> QED BY <5>3, <6>1, RecordingIsNat
        <5> QED BY <5>2, <5>3
      <4> QED BY <4>1
    <3>2. Agree(j) /\ j \in Campaigns /\ campaign[j].spent \in Nat
      BY DEF CountersAgree, Created, IInv, CampaignsOK, GoodRow, Rows
    <3>3. views[j] \in Nat /\ failures \in Nat
      BY <3>2 DEF IInv, CountsOK
    <3>4. Recording(j, "row") \in Nat /\ Recording(j, "count") \in Nat
      BY RecordingIsNat
    <3> QED BY <2>1, <3>1, <3>2, <3>3, <3>4 DEF Agree
  <2> QED BY <2>1, <2>3 DEF CountersAgree, Created
<1>3. ASSUME NEW kind, NEW budget, CreateCampaign(c, kind, budget) PROVE CountersAgree'
  BY <1>1, <1>3 DEF CreateCampaign, NoCall
<1>4. ASSUME NEW i, NEW change, ChangeCampaign(c, i, change) PROVE CountersAgree'
  BY <1>1, <1>4 DEF ChangeCampaign, NoCall
<1>5. ASSUME ExpireCampaigns(c) PROVE CountersAgree'
  BY <1>1, <1>5 DEF ExpireCampaigns, NoCall
<1> QED BY <1>2, <1>3, <1>4, <1>5 DEF Request

\* The steps of a request that do not record.
LEMMA WorkAgrees ==
  ASSUME IInv, IInv', CountersAgree, NEW c \in Clients,
         CheckAccess(c) \/ CheckBalance(c) \/ Debit(c) \/ FindCampaign(c)
           \/ ListActive(c) \/ EndExpiry(c)
  PROVE  CountersAgree'
<1>1. \E q : Becomes(c, q) /\ q.phase # "recording"
  <2>1. NoCall.phase = "idle"
    BY DEF NoCall
  <2>2. ASSUME NEW ph, Go(c, ph) PROVE \E q : Becomes(c, q) /\ q.phase = ph
    <3>1. Becomes(c, [call[c] EXCEPT !.phase = ph])
      BY <2>2 DEF Becomes, Go, IInv, CallsOK
    <3>2. [call[c] EXCEPT !.phase = ph].phase = ph
      BY CallOf DEF Calls
    <3> QED BY <3>1, <3>2
  <2>3. ASSUME ListActive(c) PROVE \E q : Becomes(c, q) /\ q.phase = "expiring"
    <3>1. PICK todo : call' = [call EXCEPT ![c].phase = "expiring", ![c].todo = todo]
      BY <2>3 DEF ListActive
    <3>2. Becomes(c, [call[c] EXCEPT !.phase = "expiring", !.todo = todo])
      BY <3>1 DEF Becomes, IInv, CallsOK
    <3>3. [call[c] EXCEPT !.phase = "expiring", !.todo = todo].phase = "expiring"
      BY CallOf DEF Calls
    <3> QED BY <3>2, <3>3
  <2>4. ASSUME End(c) PROVE \E q : Becomes(c, q) /\ q.phase = "idle"
    BY <2>1, <2>4 DEF End, Becomes
  <2>5. ASSUME FindCampaign(c) PROVE \E q : Becomes(c, q) /\ q.phase # "recording"
    BY <2>5, FindCampaignCall DEF Becomes
  <2> QED BY <2>2, <2>3, <2>4, <2>5 DEF CheckAccess, CheckBalance, Debit, EndExpiry
<1>2. ~At(c, "recording") /\ views' = views /\ campaign' = campaign /\ failures' = failures
  BY DEF CheckAccess, CheckBalance, Debit, FindCampaign, ListActive, EndExpiry, At
<1>3. failures <= failures'
  BY <1>2 DEF IInv, CountsOK
<1> QED BY <1>1, <1>2, <1>3, NotRecording DEF Created

LEMMA InsertAgrees ==
  ASSUME IInv, IInv', CountersAgree, NEW c \in Clients, InsertCampaign(c)
  PROVE  CountersAgree'
<1>1. PICK i \in Campaigns \ Created :
        \E r : r.spent = 0 /\ campaign' = [campaign EXCEPT ![i] = r]
  BY DEF InsertCampaign
<1>2. /\ Becomes(c, NoCall) /\ NoCall.phase = "idle" /\ ~At(c, "recording")
      /\ views' = views /\ failures' = failures
  BY DEF InsertCampaign, End, Becomes, NoCall, At
<1>3. ASSUME NEW j, NEW part PROVE Recording(j, part)' = Recording(j, part)
  <2>1. CallsOK /\ (part \in Owed(NoCall, j) <=> part \in Owed(call[c], j))
    BY <1>2 DEF Owed, At, IInv
  <2> QED BY <1>2, <2>1, OwesSame
<1>4. campaign'[i].spent = 0 /\ \A j \in Campaigns \ {i} : campaign'[j] = campaign[j]
  BY <1>1 DEF IInv, CampaignsOK
<1>5. \A j \in Created : j # i /\ j \in Campaigns
  BY DEF Created
<1>6. Created' \subseteq Created \cup {i} /\ Created \subseteq Created'
  BY <1>4, <1>5 DEF Created
<1>7. ASSUME NEW j \in Created PROVE Agree(j)'
  BY <1>2, <1>3, <1>4, <1>5 DEF CountersAgree, Agree
<1>8. Agree(i)'
  <2>1. \A part \in {"row", "count"} : Recorders(i, part) = {}
    BY DEF Recorders, IInv, CallsOK, GoodCall, At
  <2>2. Recording(i, "row") = 0 /\ Recording(i, "count") = 0
    BY <2>1, FS_EmptySet DEF Recording
  <2>3. views[i] = 0 /\ failures \in Nat
    BY DEF CountersAgree, IInv, CountsOK
  <2>4. /\ campaign'[i].spent = 0 /\ Recording(i, "count")' = 0 /\ Recording(i, "row")' = 0
        /\ views'[i] = 0 /\ failures' \in Nat
    BY <1>2, <1>3, <1>4, <2>2, <2>3
  <2> QED BY <2>4 DEF Agree
<1> QED BY <1>2, <1>6, <1>7, <1>8 DEF CountersAgree
\* The writes that leave the counter alone.
LEMMA WriteAgrees ==
  ASSUME IInv, IInv', CountersAgree, NEW c \in Clients, WriteCampaign(c) \/ ExpireNext(c)
  PROVE  CountersAgree'
<1>1. \A i \in Created : i \in Campaigns /\ campaign[i] \in Rows
  BY DEF Created, IInv, CampaignsOK, GoodRow
<1>2. \A i \in Created : campaign'[i].spent = campaign[i].spent
  BY <1>1 DEF WriteCampaign, ExpireNext, IInv, CampaignsOK, Rows
<1>3. Created' = Created
  BY WriteKeeps, ExpireNextKeeps
<1>4. ~At(c, "recording") /\ views' = views /\ failures' = failures /\ failures <= failures'
  BY DEF WriteCampaign, ExpireNext, At, IInv, CountsOK
<1>5. \E q : Becomes(c, q) /\ q.phase # "recording"
  <2>1. CASE WriteCampaign(c)
    <3>1. NoCall.phase # "recording"
      BY DEF NoCall
    <3> QED BY <2>1, <3>1 DEF WriteCampaign, End, Becomes
  <2>2. CASE ExpireNext(c)
    <3>1. PICK i : call' = [call EXCEPT ![c].todo = @ \ {i}]
      BY <2>2 DEF ExpireNext
    <3>2. Becomes(c, [call[c] EXCEPT !.todo = @ \ {i}])
      BY <3>1 DEF Becomes, IInv, CallsOK
    <3>3. [call[c] EXCEPT !.todo = @ \ {i}].phase # "recording"
      BY <2>2, CallOf DEF ExpireNext, At, Calls
    <3> QED BY <3>2, <3>3
  <2> QED BY <2>1, <2>2
<1> QED BY <1>2, <1>3, <1>4, <1>5, NotRecording

\* One statement of a recording is through: its client owes it no more, and all else as before.
LEMMA ThroughOwes ==
  ASSUME IInv, NEW c \in Clients, NEW on, on = call[c].on, NEW part,
         At(c, "recording"), part \in call[c].parts, Through(c, part)
  PROVE  /\ Recording(on, part)' = Recording(on, part) - 1
         /\ \A i : i # on => Recording(i, part)' = Recording(i, part)
         /\ \A i, other : other # part => Recording(i, other)' = Recording(i, other)
<1>1. PICK q : /\ Becomes(c, q)
              /\ \/ q = NoCall /\ call[c].parts = {part}
                 \/ q = [call[c] EXCEPT !.parts = @ \ {part}]
  BY ThroughCall DEF Becomes
<1>2. \A i : Owed(q, i) = Owed(call[c], i) \ {part}
  <2>1. CASE q = NoCall /\ call[c].parts = {part}
    BY <2>1 DEF Owed, NoCall
  <2>2. CASE q = [call[c] EXCEPT !.parts = @ \ {part}]
    BY <2>2, CallOf DEF Owed, Calls
  <2> QED BY <1>1, <2>1, <2>2
<1>3. /\ part \in Owed(call[c], on)
      /\ \A i : i # on => part \notin Owed(call[c], i)
  BY DEF Owed, At
<1>4. Recording(on, part)' = Recording(on, part) - 1
  BY <1>1, <1>2, <1>3, OwesLess DEF IInv
<1>5. ASSUME NEW i, i # on PROVE Recording(i, part)' = Recording(i, part)
  BY <1>1, <1>2, <1>3, <1>5, OwesSame DEF IInv
<1>6. ASSUME NEW i, NEW other, other # part PROVE Recording(i, other)' = Recording(i, other)
  BY <1>1, <1>2, <1>6, OwesSame DEF IInv
<1> QED BY <1>4, <1>5, <1>6
\* What the inequalities of one campaign are about.
LEMMA AgreeTypes ==
  ASSUME IInv, CountersAgree, NEW i \in Created
  PROVE  /\ i \in Campaigns /\ Agree(i) /\ campaign[i] \in Rows
         /\ campaign[i].spent \in Nat /\ views[i] \in Nat /\ failures \in Nat
         /\ Recording(i, "row") \in Nat /\ Recording(i, "count") \in Nat
<1>1. i \in Campaigns /\ campaign[i] \in Rows
  BY DEF IInv, CampaignsOK, Created, GoodRow
<1> QED BY <1>1, RecordingIsNat DEF CountersAgree, IInv, CountsOK, Rows

LEMMA AddViewAgrees ==
  ASSUME IInv, CountersAgree, NEW c \in Clients, AddView(c)
  PROVE  CountersAgree'
<1>1. PICK on \in Created : on = call[c].on
  BY CallOf DEF AddView, At, GoodCall
<1>2. /\ campaign' = campaign /\ failures' = failures /\ Created' = Created
      /\ views' = [views EXCEPT ![on] = @ + 1] /\ on \in Campaigns
  BY <1>1 DEF AddView, Created
<1>3. /\ Recording(on, "row")' = Recording(on, "row") - 1
      /\ \A i : i # on => Recording(i, "row")' = Recording(i, "row")
      /\ \A i : Recording(i, "count")' = Recording(i, "count")
  BY <1>1, ThroughOwes DEF AddView
<1>4. ASSUME NEW i \in Created PROVE Agree(i)'
  <2>1. views'[i] = views[i] + (IF i = on THEN 1 ELSE 0)
    BY <1>2, AgreeTypes DEF IInv, CountsOK
  <2>2. /\ Recording(i, "row")' = Recording(i, "row") - (IF i = on THEN 1 ELSE 0)
        /\ Recording(i, "count")' = Recording(i, "count")
    BY <1>3, RecordingIsNat
  <2> QED BY <1>2, <2>1, <2>2, AgreeTypes DEF Agree
<1>5. \A i \in Campaigns \ Created : views'[i] = 0
  BY <1>2 DEF CountersAgree, IInv, CountsOK
<1> QED BY <1>2, <1>4, <1>5 DEF CountersAgree

LEMMA CountViewAgrees ==
  ASSUME IInv, CountersAgree, NEW c \in Clients, CountView(c)
  PROVE  CountersAgree'
<1>1. PICK on \in Created : on = call[c].on
  BY CallOf DEF CountView, At, GoodCall
<1>2. /\ views' = views /\ failures' = failures /\ Created' = Created
      /\ campaign' = [campaign EXCEPT ![on].spent = @ + 1] /\ on \in Campaigns
  BY <1>1, CountViewKeeps DEF CountView, Created
<1>3. /\ Recording(on, "count")' = Recording(on, "count") - 1
      /\ \A i : i # on => Recording(i, "count")' = Recording(i, "count")
      /\ \A i : Recording(i, "row")' = Recording(i, "row")
  BY <1>1, ThroughOwes DEF CountView
<1>4. ASSUME NEW i \in Created PROVE Agree(i)'
  <2>1. campaign'[i].spent = campaign[i].spent + (IF i = on THEN 1 ELSE 0)
    <3>1. CASE i = on
      BY <1>2, <3>1, AgreeTypes DEF IInv, CampaignsOK, Rows
    <3>2. CASE i # on
      <4>1. campaign'[i] = campaign[i]
        BY <1>2, <3>2, AgreeTypes DEF IInv, CampaignsOK
      <4> QED BY <3>2, <4>1, AgreeTypes
    <3> QED BY <3>1, <3>2
  <2>2. /\ Recording(i, "count")' = Recording(i, "count") - (IF i = on THEN 1 ELSE 0)
        /\ Recording(i, "row")' = Recording(i, "row")
    BY <1>3, RecordingIsNat
  <2> QED BY <1>2, <2>1, <2>2, AgreeTypes DEF Agree
<1> QED BY <1>2, <1>4 DEF CountersAgree

LEMMA FailAgrees ==
  ASSUME IInv, IInv', CountersAgree, NEW c \in Clients, Fail(c)
  PROVE  CountersAgree'
<1>1. /\ campaign' = campaign /\ views' = views /\ failures' = failures + 1
      /\ Created' = Created
  BY DEF Fail, Created
<1>2. CASE ~At(c, "recording")
  <2>1. Becomes(c, NoCall) /\ NoCall.phase # "recording"
    BY <1>2 DEF Fail, End, Becomes, NoCall
  <2>2. failures <= failures'
    BY <1>1 DEF IInv, CountsOK
  <2> QED BY <1>1, <1>2, <2>1, <2>2, NotRecording
<1>3. CASE At(c, "recording")
  <2>1. PICK part \in call[c].parts : Through(c, part)
    BY <1>3 DEF Fail
  <2>2. part \in {"row", "count"}
    BY CallOf DEF Calls
  <2>3. PICK on \in Created : on = call[c].on
    BY <1>3, CallOf DEF At, GoodCall
  <2>4. ASSUME NEW i \in Created, NEW other \in {"row", "count"}
        PROVE  Recording(i, other)' = Recording(i, other)
                 - (IF i = on /\ other = part THEN 1 ELSE 0)
    BY <1>3, <2>1, <2>3, ThroughOwes, RecordingIsNat
  <2>5. ASSUME NEW i \in Created PROVE Agree(i)'
    <3>1. /\ Recording(i, "row")' \in {Recording(i, "row"), Recording(i, "row") - 1}
          /\ Recording(i, "count")' = Recording(i, "count")
             \/ (Recording(i, "count")' = Recording(i, "count") - 1
                 /\ Recording(i, "row")' = Recording(i, "row"))
      <4>1. Recording(i, "row")' = Recording(i, "row") - (IF i = on /\ "row" = part THEN 1 ELSE 0)
        BY <2>4
      <4>2. Recording(i, "count")' = Recording(i, "count") - (IF i = on /\ "count" = part THEN 1 ELSE 0)
        BY <2>4
      <4> QED BY <4>1, <4>2, AgreeTypes
    <3> QED BY <1>1, <3>1, AgreeTypes DEF Agree
  <2> QED BY <1>1, <2>5 DEF CountersAgree
<1> QED BY <1>2, <1>3

LEMMA PassAgrees ==
  ASSUME IInv, IInv', CountersAgree, NEW i \in Campaigns, Pass(i)
  PROVE  CountersAgree'
<1>1. views' = views /\ failures' = failures /\ Created' = Created
  BY PassKeeps DEF Pass
<1>2. \A j \in Created : campaign'[j].spent = campaign[j].spent
  BY AgreeTypes DEF Pass, IInv, CampaignsOK, Rows
<1>3. \A j, part : Recording(j, part)' = Recording(j, part)
  <2>1. ASSUME NEW c \in Clients
        PROVE  /\ call'[c].phase = call[c].phase /\ call'[c].on = call[c].on
               /\ call'[c].parts = call[c].parts
    BY CallOf DEF Pass, Calls
  <2>2. ASSUME NEW j, NEW part PROVE Recorders(j, part)' = Recorders(j, part)
    BY <2>1 DEF Recorders, At
  <2> QED BY <2>2 DEF Recording
<1>4. failures <= failures'
  BY <1>1 DEF IInv, CountsOK
<1> QED BY <1>1, <1>2, <1>3, <1>4, SameOwed

LEMMA NextAgrees == IInv /\ IInv' /\ CountersAgree /\ [Next]_vars => CountersAgree'
<1> SUFFICES ASSUME IInv, IInv', CountersAgree, [Next]_vars PROVE CountersAgree'
  OBVIOUS
<1>1. ASSUME NEW c \in Clients, Request(c) \/ Fail(c) PROVE CountersAgree'
  BY <1>1, AskAgrees, FailAgrees
<1>2. ASSUME NEW c \in Clients, Continue(c) PROVE CountersAgree'
  BY <1>2, WorkAgrees, InsertAgrees, WriteAgrees, AddViewAgrees, CountViewAgrees DEF Continue
<1>3. ASSUME NEW i \in Campaigns, Pass(i) PROVE CountersAgree'
  BY <1>3, PassAgrees
<1>4. CASE UNCHANGED vars
  BY <1>4 DEF vars, wallet, CountersAgree, Created, Agree, Recording, Recorders, At
<1> QED BY <1>1, <1>2, <1>3, <1>4 DEF Next

LEMMA InitAgrees == Init => CountersAgree
BY DEF Init, CountersAgree, Created

\* A campaign's counter is off by the statements under way and those that failed, at most.
THEOREM PromotionsSpentMatchesViews == Spec => []SpentMatchesViews
<1>1. IInv /\ CountersAgree => SpentMatchesViews
  <2> SUFFICES ASSUME IInv, CountersAgree, NEW i \in Created
      PROVE  /\ campaign[i].spent + Recording(i, "count") <= views[i] + Recording(i, "row") + failures
             /\ views[i] + Recording(i, "row") <= campaign[i].spent + Recording(i, "count") + failures
    BY DEF SpentMatchesViews
  <2> QED BY DEF CountersAgree, Agree
<1> QED BY <1>1, InitAgrees, NextAgrees, Invariance, PTL DEF Spec

-------------------------------------------------------------------------------
(* Why a campaign can be free: the key it shares with an earlier one.      *)

\* Campaigns are charged one by one, but for those of one user, package and type.
ChargedUnlessKeyReused ==
  (\A i, j \in Created : campaign[i].kind = campaign[j].kind => i = j) => EveryCampaignCharged

\* The debit's key, without the campaign's name, is the only way to a free campaign: no
\* failure, retry or race makes another.
THEOREM PromotionsChargedUnlessKeyReused == Spec => []ChargedUnlessKeyReused
<1>1. IInv => ChargedUnlessKeyReused
  <2> SUFFICES ASSUME IInv, NEW u \in Users,
                      \A i, j \in Created : campaign[i].kind = campaign[j].kind => i = j
               PROVE  Cardinality({i \in Created : Owner[campaign[i].kind] = u})
                        <= Len(statement[u])
    BY DEF ChargedUnlessKeyReused, EveryCampaignCharged
  <2> DEFINE Mine == {i \in Created : Owner[campaign[i].kind] = u}
             Keys == posted \cap KindsOf(u)
             f == [i \in Mine |-> campaign[i].kind]
  <2>1. \A i \in Mine : campaign[i].kind \in Keys
    BY DEF IInv, CampaignsOK, GoodRow, WalletOK, KindsOf
  <2>2. f \in Injection(Mine, Keys)
    BY <2>1 DEF Injection, IsInjective
  <2>3. IsFiniteSet(Keys)
    BY FS_Subset DEF KindsOf
  <2>4. Cardinality(Mine) <= Cardinality(Keys)
    BY <2>2, <2>3, FS_Injection
  <2> QED BY <2>4 DEF IInv, WalletOK
<1> QED BY <1>1, Invariance, PTL
===============================================================================
