------------------------------- MODULE Promotions -------------------------------
(***************************************************************************)
(* Promotion campaigns (src/src/promotions), paid from the wallet.         *)
(*                                                                         *)
(* The wallet is CreditLedger, which Wallet implements: wallet.debit is    *)
(* one posting of the ledger.  Everything else is a statement of its own:  *)
(*                                                                         *)
(*   create    checking -> paying -> debiting -> creating                  *)
(*   activate, pause, complete, cancel    finding -> writing               *)
(*   expire    listing -> expiring*                                        *)
(*   record    recording, two statements in either order                   *)
(*                                                                         *)
(* A kind of campaign is what the idempotency key is made of: user,        *)
(* package and type.  Packages and the caller's plan only decide whether   *)
(* a request is refused; dates are reduced to whether the end is past.     *)
(***************************************************************************)
EXTENDS Integers, Sequences, FiniteSets

CONSTANTS
  Users, Kinds, NoKey,
  Owner,         \* [Kinds -> Users]
  Campaigns, NoCampaign,
  Clients,       \* concurrent requests
  Budgets,       \* credits a request may ask for
  PageSize,      \* campaigns one expiry looks at (20)
  Grant,         \* bound: credits a user has at the start
  MaxRequests,   \* bound: requests made
  MaxFailures    \* bound: statements that fail

Statuses == {"draft", "active", "paused", "completed", "cancelled", "expired"}
Ends == {"none", "ahead", "past"}
Rows == [kind : Kinds, status : Statuses, end : Ends, spent : Nat, at : Nat]

ASSUME PromotionsAssumption ==
  /\ IsFiniteSet(Kinds) /\ IsFiniteSet(Campaigns) /\ IsFiniteSet(Clients)
  /\ Owner \in [Kinds -> Users] /\ NoKey \notin Kinds
  /\ NoCampaign \notin Campaigns /\ NoCampaign \notin Rows
  /\ Budgets \subseteq Nat \ {0} /\ PageSize \in Nat \ {0}
  /\ {Grant, MaxRequests, MaxFailures} \subseteq Nat

Changes == {"activate", "pause", "complete", "cancel"}

VARIABLES
  balance, statement, posted,  \* the wallet, see CreditLedger
  campaign,  \* [Campaigns -> NoCampaign or [kind, status, end, spent, at]]; at: the place in
             \* the order of creation; spent: creditsSpent
  views,     \* [Campaigns -> Nat], the promotion_analytics rows
  call,      \* [Clients -> [phase, change, kind, budget, on, end, todo, parts]]; end: the one found
  requests, failures

wallet == <<balance, statement, posted>>
vars == <<wallet, campaign, views, call, requests, failures>>

Ledger == INSTANCE CreditLedger WITH Keys <- Kinds, Deltas <- {-b : b \in Budgets}

At(c, phase) == call[c].phase = phase
Go(c, phase) == call' = [call EXCEPT ![c].phase = phase]
NoCall == [phase |-> "idle", change |-> "none", kind |-> NoKey, budget |-> 0,
           on |-> NoCampaign, end |-> "none", todo |-> {}, parts |-> {}]
End(c) == call' = [call EXCEPT ![c] = NoCall]
Created == {i \in Campaigns : campaign[i] # NoCampaign}

\* A request starts: it may do so while the bound allows.
Ask(c, request) ==
  /\ At(c, "idle") /\ requests < MaxRequests
  /\ requests' = requests + 1
  /\ call' = [call EXCEPT ![c] = request]
  /\ UNCHANGED <<wallet, campaign, views, failures>>

-------------------------------------------------------------------------------
(* Creating a campaign.                                                    *)

CreateCampaign(c, kind, budget) ==
  Ask(c, [NoCall EXCEPT !.phase = "checking", !.kind = kind, !.budget = budget])

\* The package must be active and the plan include promotions.
CheckAccess(c) ==
  /\ At(c, "checking")
  /\ Go(c, "paying") \/ End(c)
  /\ UNCHANGED <<wallet, campaign, views, requests, failures>>

\* consumeCredits looks at the balance ...
CheckBalance(c) ==
  /\ At(c, "paying")
  /\ IF balance[Owner[call[c].kind]] < call[c].budget THEN End(c) ELSE Go(c, "debiting")
  /\ UNCHANGED <<wallet, campaign, views, requests, failures>>

\* Mutant: the campaign is created when the wallet refuses, too.
MDebitErrorIgnored(c) ==
  LET kind == call[c].kind  u == Owner[kind] IN
  /\ At(c, "debiting")
  /\ \/ Ledger!Post(u, -call[c].budget, kind)
     \/ kind \in posted /\ UNCHANGED wallet
     \/ kind \notin posted /\ balance[u] < call[c].budget /\ UNCHANGED wallet
  /\ Go(c, "creating")
  /\ UNCHANGED <<campaign, views, requests, failures>>

\* ... and debits the wallet, which checks again; a key that was posted before is answered
\* with the old transaction.
Debit(c) ==
  LET kind == call[c].kind  u == Owner[kind] IN
  /\ At(c, "debiting")
  /\ \/ Ledger!Post(u, -call[c].budget, kind) /\ Go(c, "creating")
     \/ kind \in posted /\ UNCHANGED wallet /\ Go(c, "creating")
     \/ kind \notin posted /\ balance[u] < call[c].budget /\ UNCHANGED wallet /\ End(c)
  /\ UNCHANGED <<campaign, views, requests, failures>>

\* A caller may set both dates: the end may be in the past.
InsertCampaign(c) ==
  /\ At(c, "creating")
  /\ \E i \in Campaigns \ Created, end \in Ends :
       campaign' = [campaign EXCEPT ![i] =
         [kind |-> call[c].kind, status |-> "draft", end |-> end, spent |-> 0,
          at |-> Cardinality(Created) + 1]]
  /\ End(c)
  /\ UNCHANGED <<wallet, views, requests, failures>>

-------------------------------------------------------------------------------
(* Changing a campaign.                                                    *)

ChangeCampaign(c, i, change) ==
  /\ i \in Created
  /\ Ask(c, [NoCall EXCEPT !.phase = "finding", !.change = change, !.on = i])

From(change) ==
  [activate |-> {"draft", "paused"}, pause |-> {"active"},
   complete |-> Statuses, cancel |-> Statuses][change]

To(change) ==
  [activate |-> "active", pause |-> "paused",
   complete |-> "completed", cancel |-> "cancelled"][change]

\* An activation keeps the end it finds.
FindCampaign(c) ==
  LET i == call[c].on  change == call[c].change IN
  /\ At(c, "finding")
  /\ \/ /\ campaign[i].status \in From(change)
        /\ call' = [call EXCEPT ![c].phase = "writing",
                                ![c].end = IF change = "activate" THEN campaign[i].end ELSE @]
     \/ campaign[i].status \notin From(change) /\ End(c)
  /\ UNCHANGED <<wallet, campaign, views, requests, failures>>

\* Mutant: an activation leaves the end open.
MWriteCampaignNoEnd(c) ==
  /\ At(c, "writing")
  /\ campaign' = [campaign EXCEPT ![call[c].on].status = To(call[c].change)]
  /\ End(c)
  /\ UNCHANGED <<wallet, views, requests, failures>>

\* The write looks at nothing again.  An activation writes the end it found, or one from now
\* when there was none.
WriteCampaign(c) ==
  LET i == call[c].on  change == call[c].change
      end == IF change # "activate" THEN campaign[i].end
             ELSE IF call[c].end = "none" THEN "ahead" ELSE call[c].end IN
  /\ At(c, "writing")
  /\ campaign' = [campaign EXCEPT ![i].status = To(change), ![i].end = end]
  /\ End(c)
  /\ UNCHANGED <<wallet, views, requests, failures>>

-------------------------------------------------------------------------------
(* Expiry.                                                                 *)

Active == {i \in Created : campaign[i].status = "active"}

\* The first page of the active campaigns, newest first.
IsPage(page) ==
  /\ page \subseteq Active
  /\ Cardinality(page) = PageSize \/ (Cardinality(page) < PageSize /\ page = Active)
  /\ \A i \in page, j \in Active \ page : campaign[j].at < campaign[i].at

ExpireCampaigns(c) == Ask(c, [NoCall EXCEPT !.phase = "listing"])

ListActive(c) ==
  /\ At(c, "listing")
  /\ \E page \in SUBSET Campaigns :
       /\ IsPage(page)
       /\ call' = [call EXCEPT ![c].phase = "expiring",
                               ![c].todo = {i \in page : campaign[i].end = "past"}]
  /\ UNCHANGED <<wallet, campaign, views, requests, failures>>

ExpireNext(c) ==
  /\ At(c, "expiring")
  /\ \E i \in call[c].todo :
       /\ campaign' = [campaign EXCEPT ![i].status = "expired"]
       /\ call' = [call EXCEPT ![c].todo = @ \ {i}]
  /\ UNCHANGED <<wallet, views, requests, failures>>

EndExpiry(c) ==
  /\ At(c, "expiring") /\ call[c].todo = {}
  /\ End(c)
  /\ UNCHANGED <<wallet, campaign, views, requests, failures>>

-------------------------------------------------------------------------------
(* Impressions and clicks.                                                 *)

RecordView(c, i) ==
  /\ i \in Created
  /\ Ask(c, [NoCall EXCEPT !.phase = "recording", !.on = i, !.parts = {"row", "count"}])

\* One of the two statements of recordAnalytics is through.
Through(c, part) ==
  IF call[c].parts = {part} THEN End(c) ELSE call' = [call EXCEPT ![c].parts = @ \ {part}]

AddView(c) ==
  /\ At(c, "recording") /\ "row" \in call[c].parts
  /\ views' = [views EXCEPT ![call[c].on] = @ + 1]
  /\ Through(c, "row")
  /\ UNCHANGED <<wallet, campaign, requests, failures>>

\* Mutant: the counter is computed from the rows there are, not incremented.
MCountFromRows(c) ==
  LET i == call[c].on IN
  /\ At(c, "recording") /\ "count" \in call[c].parts
  /\ campaign' = [campaign EXCEPT ![i].spent = views[i] + 1]
  /\ Through(c, "count")
  /\ UNCHANGED <<wallet, views, requests, failures>>

CountView(c) ==
  LET i == call[c].on IN
  /\ At(c, "recording") /\ "count" \in call[c].parts
  /\ campaign' = [campaign EXCEPT ![i].spent = @ + 1]
  /\ Through(c, "count")
  /\ UNCHANGED <<wallet, views, requests, failures>>

-------------------------------------------------------------------------------
\* A statement fails, or the process dies in it.  Of the two statements of a recording the
\* other one is executed all the same, or was.
Fail(c) ==
  /\ ~At(c, "idle") /\ failures < MaxFailures
  /\ failures' = failures + 1
  /\ IF At(c, "recording") THEN \E part \in call[c].parts : Through(c, part) ELSE End(c)
  /\ UNCHANGED <<wallet, campaign, views, requests>>

\* The end of a campaign passes, in its row and in the hands of those who have read it.
Pass(i) ==
  /\ i \in Created /\ campaign[i].end = "ahead"
  /\ campaign' = [campaign EXCEPT ![i].end = "past"]
  /\ call' = [c \in Clients |-> IF call[c].on = i /\ call[c].end = "ahead"
                               THEN [call[c] EXCEPT !.end = "past"] ELSE call[c]]
  /\ UNCHANGED <<wallet, views, requests, failures>>

-------------------------------------------------------------------------------
Init ==
  /\ balance = [u \in Users |-> Grant]
  /\ statement = [u \in Users |-> << >>] /\ posted = {}
  /\ campaign = [i \in Campaigns |-> NoCampaign]
  /\ views = [i \in Campaigns |-> 0]
  /\ call = [c \in Clients |-> NoCall]
  /\ requests = 0 /\ failures = 0

Request(c) ==
  \/ \E kind \in Kinds, budget \in Budgets : CreateCampaign(c, kind, budget)
  \/ \E i \in Campaigns : RecordView(c, i) \/ \E change \in Changes : ChangeCampaign(c, i, change)
  \/ ExpireCampaigns(c)

Continue(c) ==
  \/ CheckAccess(c) \/ CheckBalance(c) \/ Debit(c) \/ InsertCampaign(c)
  \/ FindCampaign(c) \/ WriteCampaign(c)
  \/ ListActive(c) \/ ExpireNext(c) \/ EndExpiry(c)
  \/ AddView(c) \/ CountView(c)

Next ==
  \/ \E c \in Clients : Request(c) \/ Continue(c) \/ Fail(c)
  \/ \E i \in Campaigns : Pass(i)

Spec == Init /\ [][Next]_vars

-------------------------------------------------------------------------------
(* Properties.                                                             *)

Calls ==
  [phase : {"idle", "checking", "paying", "debiting", "creating", "finding", "writing",
            "listing", "expiring", "recording"},
   change : Changes \cup {"none"}, kind : Kinds \cup {NoKey}, budget : Budgets \cup {0},
   on : Campaigns \cup {NoCampaign}, end : Ends, todo : SUBSET Campaigns,
   parts : SUBSET {"row", "count"}]

\* The types of the variables; a call works on a campaign that exists, and a campaign that
\* runs has an end.
TypeOK ==
  /\ balance \in [Users -> Nat]
  /\ statement \in [Users -> Seq(Int)] /\ posted \subseteq Kinds
  /\ campaign \in [Campaigns -> Rows \cup {NoCampaign}]
  /\ views \in [Campaigns -> Nat]
  /\ call \in [Clients -> Calls]
  /\ requests \in Nat /\ failures \in Nat
  /\ \A i \in Active : campaign[i].end # "none"
  /\ \A c \in Clients :
       /\ call[c].phase \in {"finding", "writing", "recording"} => call[c].on \in Created
       /\ call[c].phase \in {"checking", "paying", "debiting", "creating"} => call[c].kind \in Kinds
       /\ call[c].todo \subseteq Created

KindsOf(u) == {kind \in Kinds : Owner[kind] = u}

\* Nobody runs a campaign that was not paid for, and nobody pays twice for one kind: each
\* campaign's key is in the ledger, and a user's statement has one debit for each key, over
\* checks of an old balance, retries after a failure and requests that race.
CampaignsPaid ==
  /\ \A i \in Created : campaign[i].kind \in posted
  /\ \A u \in Users : Len(statement[u]) = Cardinality(posted \cap KindsOf(u))

Recorders(i, part) ==
  {c \in Clients : At(c, "recording") /\ call[c].on = i /\ part \in call[c].parts}
Recording(i, part) == Cardinality(Recorders(i, part))

\* A campaign's creditsSpent agrees with its analytics rows, but for the statements still
\* under way and those that failed.
SpentMatchesViews ==
  \A i \in Created :
    LET spent == campaign[i].spent + Recording(i, "count")
        rows == views[i] + Recording(i, "row") IN
    spent <= rows + failures /\ rows <= spent + failures

\* docs/PROMOTIONS.md:41: credits are debited "at campaign creation": there are no more
\* campaigns than debits.
EveryCampaignCharged ==
  \A u \in Users :
    Cardinality({i \in Created : Owner[campaign[i].kind] = u}) <= Len(statement[u])
===============================================================================
