--------------------------------- MODULE Blogs ---------------------------------
(***************************************************************************)
(* Blogs (src/src/blogs) and their verification (src/src/verification).    *)
(*                                                                         *)
(* A request is a chain of statements, each committed by itself:           *)
(*                                                                         *)
(*   create     inserting                                                  *)
(*   delete, restore, transfer    finding -> writing                       *)
(*   admin      finding -> writing -> announcing                           *)
(*   initiate   finding -> looking -> issuing                              *)
(*   check      matching -> fetching -> marking -> announcing -> confirming*)
(*   assess     finding -> assessing -> deciding -> grading -> announcing  *)
(*                                                                         *)
(* and nothing in a later statement looks again at what an earlier one     *)
(* read.  The owner's changes of a blog's name, address, languages and     *)
(* categories write no column the model has.  The blogger's site and the   *)
(* four scores of an assessment are inputs.                                *)
(***************************************************************************)
EXTENDS Integers, Sequences, FiniteSets

CONSTANTS
  Users, NoUser,
  Blogs, NoBlog,
  Methods,        \* of proving ownership: meta_tag, dns_txt, html_file
  Clients,        \* concurrent requests
  AdminStatuses,  \* statuses an administrator sets
  AdminTrusts,    \* trust levels an administrator sets
  MaxRequests,    \* bound: requests made
  MaxFailures     \* bound: statements that fail

Statuses == {"draft", "pending_verification", "verified", "rejected", "suspended", "archived"}
Trusts == {"new", "verified", "trusted", "featured"}
Kept == "kept"  \* a column an administrator's request leaves alone

ASSUME BlogsAssumption ==
  /\ IsFiniteSet(Clients) /\ NoUser \notin Users /\ NoBlog \notin Blogs
  /\ AdminStatuses \subseteq Statuses /\ AdminTrusts \subseteq Trusts
  /\ MaxRequests \in Nat /\ MaxFailures \in Nat

Assessment == "quality_assessment"

VARIABLES
  blog,          \* [Blogs -> [owner, status, trust, deleted]]; owner is NoUser until it is created
  verification,  \* the blog_verifications in the order of creation: [blog, method, status]
  announced,     \* blogs whose verification was announced, by either event
  ordered,       \* <<blog, column>>: an administrator set the column to 'verified'
  call,          \* [Clients -> [phase, op, blog, user, method, status, trust, row, passed]]
  requests, failures

vars == <<blog, verification, announced, ordered, call, requests, failures>>

At(c, phase) == call[c].phase = phase
Is(c, op) == call[c].op = op
On(c) == call[c].blog
Go(c, phase) == call' = [call EXCEPT ![c].phase = phase]
NoCall == [phase |-> "idle", op |-> "none", blog |-> NoBlog, user |-> NoUser, method |-> Assessment,
           status |-> Kept, trust |-> Kept, row |-> 0, passed |-> FALSE]
End(c) == call' = [call EXCEPT ![c] = NoCall]

Created == {b \in Blogs : blog[b].owner # NoUser}
Visible(b) == ~blog[b].deleted

\* A request starts: it may do so while the bound allows.
Ask(c, request) ==
  /\ At(c, "idle") /\ requests < MaxRequests
  /\ requests' = requests + 1
  /\ call' = [call EXCEPT ![c] = request]
  /\ UNCHANGED <<blog, verification, announced, ordered, failures>>

-------------------------------------------------------------------------------
(* Requests for a blog.                                                    *)

CreateBlog(c, u) == Ask(c, [NoCall EXCEPT !.phase = "inserting", !.op = "create", !.user = u])

\* The address or the slug may be taken; a deleted blog keeps both.
InsertBlog(c) ==
  /\ At(c, "inserting")
  /\ \/ \E b \in Blogs \ Created :
          blog' = [blog EXCEPT ![b] = [owner |-> call[c].user, status |-> "draft",
                                       trust |-> "new", deleted |-> FALSE]]
     \/ UNCHANGED blog
  /\ End(c)
  /\ UNCHANGED <<verification, announced, ordered, requests, failures>>

SoftDelete(c, b, u) ==
  Ask(c, [NoCall EXCEPT !.phase = "finding", !.op = "delete", !.blog = b, !.user = u])

AdminUpdate(c, b, status, trust) ==
  Ask(c, [NoCall EXCEPT !.phase = "finding", !.op = "admin", !.blog = b,
                        !.status = status, !.trust = trust])

AdminRestore(c, b) == Ask(c, [NoCall EXCEPT !.phase = "finding", !.op = "restore", !.blog = b])

TransferOwnership(c, b, u) ==
  Ask(c, [NoCall EXCEPT !.phase = "finding", !.op = "transfer", !.blog = b, !.user = u])

\* Every request for a blog finds one that is not deleted; only its owner may delete it.
FindBlog(c) ==
  /\ At(c, "finding")
  /\ IF Visible(On(c)) /\ (Is(c, "delete") => blog[On(c)].owner = call[c].user)
     THEN Go(c, CASE Is(c, "initiate") -> "looking" [] Is(c, "assess") -> "assessing"
                  [] OTHER -> "writing")
     ELSE End(c)
  /\ UNCHANGED <<blog, verification, announced, ordered, requests, failures>>

Or(new, old) == IF new = Kept THEN old ELSE new

\* What a request writes, whatever the row holds by now.
Rewritten(op, row, request) ==
  CASE op = "delete"   -> [row EXCEPT !.deleted = TRUE, !.status = "archived"]
    [] op = "restore"  -> [row EXCEPT !.deleted = FALSE, !.status = "draft"]
    [] op = "transfer" -> [row EXCEPT !.owner = request.user]
    [] OTHER           -> [row EXCEPT !.status = Or(request.status, @), !.trust = Or(request.trust, @)]

WriteBlog(c) ==
  /\ At(c, "writing")
  /\ blog' = [blog EXCEPT ![On(c)] = Rewritten(call[c].op, @, call[c])]
  /\ ordered' = ordered \cup {<<On(c), column>> : column \in
                                {k \in {"status", "trust"} : call[c][k] = "verified"}}
  /\ IF call[c].status = "verified" THEN Go(c, "announcing") ELSE End(c)
  /\ UNCHANGED <<verification, announced, requests, failures>>

-------------------------------------------------------------------------------
(* Proving ownership.                                                      *)

Initiate(c, b, method) ==
  Ask(c, [NoCall EXCEPT !.phase = "finding", !.op = "initiate", !.blog = b, !.method = method])

Pending(b, method) ==
  {i \in DOMAIN verification : verification[i] = [blog |-> b, method |-> method, status |-> "pending"]}

\* Mutant: the pending rows are not looked at.
MLookAnyway(c) ==
  /\ At(c, "looking")
  /\ Go(c, "issuing")
  /\ UNCHANGED <<blog, verification, announced, ordered, requests, failures>>

\* A second pending row is refused, if it is there by now.
LookForPending(c) ==
  /\ At(c, "looking")
  /\ IF Pending(On(c), call[c].method) = {} THEN Go(c, "issuing") ELSE End(c)
  /\ UNCHANGED <<blog, verification, announced, ordered, requests, failures>>

Decide(c, status) ==
  verification' = Append(verification, [blog |-> On(c), method |-> call[c].method, status |-> status])

IssueToken(c) ==
  /\ At(c, "issuing")
  /\ Decide(c, "pending")
  /\ End(c)
  /\ UNCHANGED <<blog, announced, ordered, requests, failures>>

CheckOwnership(c, b, method) ==
  Ask(c, [NoCall EXCEPT !.phase = "matching", !.op = "check", !.blog = b, !.method = method])

\* Mutant: without a pending row the check goes on, with no row to mark.
MFindTokenAnyway(c) ==
  LET pending == Pending(On(c), call[c].method) IN
  /\ At(c, "matching")
  /\ IF pending = {} THEN Go(c, "fetching")
     ELSE \E i \in pending : /\ \A j \in pending : j <= i
                             /\ call' = [call EXCEPT ![c].phase = "fetching", ![c].row = i]
  /\ UNCHANGED <<blog, verification, announced, ordered, requests, failures>>

\* The newest pending row.
FindToken(c) ==
  LET pending == Pending(On(c), call[c].method) IN
  /\ At(c, "matching")
  /\ IF pending = {} THEN End(c)
     ELSE \E i \in pending : /\ \A j \in pending : j <= i
                             /\ call' = [call EXCEPT ![c].phase = "fetching", ![c].row = i]
  /\ UNCHANGED <<blog, verification, announced, ordered, requests, failures>>

\* The blog must not be deleted, and its site show the token.
FetchSite(c) ==
  /\ At(c, "fetching")
  /\ (Visible(On(c)) /\ Go(c, "marking")) \/ End(c)
  /\ UNCHANGED <<blog, verification, announced, ordered, requests, failures>>

MarkVerified(c) ==
  /\ At(c, "marking")
  /\ verification' = [verification EXCEPT ![call[c].row].status = "verified"]
  /\ Go(c, "announcing")
  /\ UNCHANGED <<blog, announced, ordered, requests, failures>>

\* The last statement of a request, but for a check, which has the blog still to update.
Announce(c) ==
  /\ At(c, "announcing")
  /\ announced' = announced \cup {On(c)}
  /\ IF Is(c, "check") THEN Go(c, "confirming") ELSE End(c)
  /\ UNCHANGED <<blog, verification, ordered, requests, failures>>

ConfirmBlog(c) ==
  /\ At(c, "confirming")
  /\ blog' = [blog EXCEPT ![On(c)].status = "verified"]
  /\ End(c)
  /\ UNCHANGED <<verification, announced, ordered, requests, failures>>

-------------------------------------------------------------------------------
(* Assessing quality.                                                      *)

VerifyBlog(c, b) == Ask(c, [NoCall EXCEPT !.phase = "finding", !.op = "assess", !.blog = b])

\* Each strategy finds the blog again and scores 0 without it.
Assess(c) ==
  /\ At(c, "assessing")
  /\ \E passed \in BOOLEAN :
       /\ passed => Visible(On(c))
       /\ call' = [call EXCEPT ![c].phase = "deciding", ![c].passed = passed]
  /\ UNCHANGED <<blog, verification, announced, ordered, requests, failures>>

RecordDecision(c) ==
  /\ At(c, "deciding")
  /\ Decide(c, IF call[c].passed THEN "approved" ELSE "rejected")
  /\ Go(c, "grading")
  /\ UNCHANGED <<blog, announced, ordered, requests, failures>>

GradeBlog(c) ==
  /\ At(c, "grading")
  /\ blog' = [blog EXCEPT ![On(c)].status = IF call[c].passed THEN "verified" ELSE "rejected",
                          ![On(c)].trust = IF call[c].passed THEN "verified" ELSE "new"]
  /\ IF call[c].passed THEN Go(c, "announcing") ELSE End(c)
  /\ UNCHANGED <<verification, announced, ordered, requests, failures>>

\* A statement throws or the process dies: what was written stays.  The event publisher
\* logs its errors and goes on.
Fail(c) ==
  /\ ~At(c, "idle") /\ failures < MaxFailures
  /\ failures' = failures + 1
  /\ End(c) \/ (At(c, "announcing") /\ Is(c, "check") /\ Go(c, "confirming"))
  /\ UNCHANGED <<blog, verification, announced, ordered, requests>>

-------------------------------------------------------------------------------
Init ==
  /\ blog = [b \in Blogs |-> [owner |-> NoUser, status |-> "draft", trust |-> "new",
                              deleted |-> FALSE]]
  /\ verification = << >> /\ announced = {} /\ ordered = {}
  /\ call = [c \in Clients |-> NoCall]
  /\ requests = 0 /\ failures = 0

Request(c) ==
  \/ \E u \in Users : CreateBlog(c, u)
  \/ \E b \in Created :
       \/ \E u \in Users : SoftDelete(c, b, u) \/ TransferOwnership(c, b, u)
       \/ \E status \in AdminStatuses \cup {Kept}, trust \in AdminTrusts \cup {Kept} :
            AdminUpdate(c, b, status, trust)
       \/ \E method \in Methods : Initiate(c, b, method) \/ CheckOwnership(c, b, method)
       \/ AdminRestore(c, b) \/ VerifyBlog(c, b)

Continue(c) ==
  \/ InsertBlog(c) \/ FindBlog(c) \/ WriteBlog(c)
  \/ LookForPending(c) \/ IssueToken(c)
  \/ FindToken(c) \/ FetchSite(c) \/ MarkVerified(c) \/ Announce(c) \/ ConfirmBlog(c)
  \/ Assess(c) \/ RecordDecision(c) \/ GradeBlog(c)

Next == \E c \in Clients : Request(c) \/ Continue(c) \/ Fail(c)

Spec == Init /\ [][Next]_vars

-------------------------------------------------------------------------------
(* Properties.                                                             *)

Phases == {"idle", "inserting", "finding", "writing", "announcing", "looking", "issuing",
           "matching", "fetching", "marking", "confirming", "assessing", "deciding", "grading"}
Ops == {"none", "create", "delete", "restore", "transfer", "admin", "initiate", "check", "assess"}
BlogRows ==
  [owner : Users \cup {NoUser}, status : Statuses, trust : Trusts, deleted : BOOLEAN]
VerificationRows ==
  [blog : Blogs, method : Methods \cup {Assessment},
   status : {"pending", "verified", "approved", "rejected"}]
Calls ==
  [phase : Phases, op : Ops, blog : Blogs \cup {NoBlog}, user : Users \cup {NoUser},
   method : Methods \cup {Assessment}, status : AdminStatuses \cup {Kept},
   trust : AdminTrusts \cup {Kept}, row : Nat, passed : BOOLEAN]

\* The types of the variables; a request is for a blog that exists, and a check marks a
\* row that exists.
TypeOK ==
  /\ blog \in [Blogs -> BlogRows]
  /\ verification \in Seq(VerificationRows)
  /\ announced \subseteq Created
  /\ ordered \subseteq Created \X {"status", "trust"}
  /\ call \in [Clients -> Calls]
  /\ requests \in Nat /\ failures \in Nat
  /\ \A c \in Clients :
       /\ ~At(c, "idle") /\ ~At(c, "inserting") => On(c) \in Created
       /\ At(c, "marking") => call[c].row \in DOMAIN verification

Decided(b, how) ==
  \E i \in DOMAIN verification : verification[i].blog = b /\ verification[i].status \in how

\* Nothing calls a blog verified, neither its row nor an event, without a proof of ownership,
\* a passed assessment or an administrator's order on record, whatever the requests that run
\* beside it delete, restore, assess or change; nor is one trusted as 'verified' without
\* an assessment or an order.
VerifiedIsBacked ==
  \A b \in Created :
    /\ blog[b].status = "verified" \/ b \in announced =>
         Decided(b, {"verified", "approved"}) \/ <<b, "status">> \in ordered
    /\ blog[b].trust = "verified" => Decided(b, {"approved"}) \/ <<b, "trust">> \in ordered

\* A blog that was deleted can be restored: a request that restores one on record ends with
\* the blog back, unless a statement of it fails (API_PLAN.md:185 'Restore blog',
\* SERVICE_CONTRACTS.md:661 'restoreBlog'; the repository's restore() clears deletedAt).  The code does
\* not: adminRestore() looks the blog up among those that are not deleted.
RestoreHonoured ==
  [][\A c \in Clients :
       Is(c, "restore") /\ At(c, "idle")' /\ failures' = failures => ~blog'[On(c)].deleted]_vars

Issuing(b, method) ==
  {c \in Clients : At(c, "issuing") /\ On(c) = b /\ call[c].method = method}

\* The check for a pending row and its insertion are apart: as many rows of one method can be
\* pending as requests raced, and never more, however long the service runs.
PendingBounded ==
  \A b \in Blogs, method \in Methods :
    Cardinality(Pending(b, method)) + Cardinality(Issuing(b, method)) <= Cardinality(Clients)
===============================================================================
