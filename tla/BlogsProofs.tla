------------------------------ MODULE BlogsProofs ------------------------------
(***************************************************************************)
(* For any users, blogs, methods and racing requests, a blog that is       *)
(* called verified has been verified, and no more tokens are pending than  *)
(* requests raced.                                                         *)
(***************************************************************************)
EXTENDS Blogs, FiniteSetTheorems, SequenceTheorems, TLAPS

USE BlogsAssumption

Passed == {"verified", "approved"}

\* What a request knows at each of its statements.
Fits(k) ==
  /\ k \in Calls
  /\ k.phase \notin {"idle", "inserting"} => k.blog \in Created
  /\ k.phase = "inserting" \/ k.op = "transfer" => k.user \in Users
  /\ k.op # "admin" => k.status = Kept /\ k.trust = Kept
  /\ k.phase \in {"fetching", "marking"} =>
       /\ k.row \in DOMAIN verification
       /\ verification[k.row].blog = k.blog
       /\ verification[k.row].status \in {"pending", "verified"}
  /\ k.phase = "announcing" => Decided(k.blog, Passed) \/ <<k.blog, "status">> \in ordered
  /\ k.phase = "announcing" /\ k.op = "check" => Decided(k.blog, Passed)
  /\ k.phase = "confirming" => Decided(k.blog, Passed)
  /\ k.phase = "grading" /\ k.passed => Decided(k.blog, {"approved"})

CallsFit == call \in [Clients -> Calls] /\ \A c \in Clients : Fits(call[c])

\* The tables: their types, and that a row without an owner was never deleted.
TablesOK ==
  /\ blog \in [Blogs -> BlogRows]
  /\ verification \in Seq(VerificationRows)
  /\ announced \subseteq Created
  /\ ordered \subseteq Created \X {"status", "trust"}
  /\ requests \in Nat /\ failures \in Nat
  /\ \A b \in Blogs \ Created : Visible(b)

IInv == TablesOK /\ CallsFit /\ VerifiedIsBacked

\* Every step only adds to what is on record: a blog keeps an owner, a verification its blog,
\* and only a proof of ownership changes its status.
Grows ==
  /\ Created \subseteq Created'
  /\ ordered \subseteq ordered'
  /\ \A i \in DOMAIN verification :
       /\ i \in DOMAIN verification'
       /\ verification'[i].blog = verification[i].blog
       /\ \/ verification'[i].status = verification[i].status
          \/ /\ verification[i].status \in {"pending", "verified"}
             /\ verification'[i].status = "verified"

LEMMA DecidedStays ==
  ASSUME Grows, NEW b, NEW how \in {Passed, {"approved"}}, Decided(b, how)
  PROVE  Decided(b, how)'
BY DEF Grows, Decided, Passed

LEMMA FitsStays ==
  ASSUME Grows, NEW k, Fits(k)
  PROVE  Fits(k)'
<1>1. k.phase \in {"fetching", "marking"} =>
        /\ k.row \in DOMAIN verification'
        /\ verification'[k.row].blog = k.blog
        /\ verification'[k.row].status \in {"pending", "verified"}
  BY DEF Grows, Fits
<1>2. Decided(k.blog, Passed) => Decided(k.blog, Passed)'
  BY DecidedStays
<1>3. Decided(k.blog, {"approved"}) => Decided(k.blog, {"approved"})'
  BY DecidedStays
<1>4. Created \subseteq Created' /\ ordered \subseteq ordered'
  BY DEF Grows
<1> QED BY <1>1, <1>2, <1>3, <1>4 DEF Fits

\* A step of one request leaves the knowledge of the others true.
LEMMA OthersFit ==
  ASSUME IInv, Grows, NEW c \in Clients, NEW k, call' = [call EXCEPT ![c] = k], Fits(k)'
  PROVE  CallsFit'
<1>1. k \in Calls /\ call' \in [Clients -> Calls]
  BY DEF IInv, CallsFit, Fits
<1>2. ASSUME NEW d \in Clients
      PROVE  Fits(call[d])'
  <2>1. CASE d = c
    <3>1. PICK j : j = call'[d]
      OBVIOUS
    <3>2. j = k
      BY <2>1, <3>1 DEF IInv, CallsFit
    <3>3. Fits(j)'
      BY <3>2
    <3> QED BY <3>1, <3>3 DEF Fits
  <2>2. CASE d # c
    <3>1. PICK j : j = call[d]
      OBVIOUS
    <3>2. Fits(j)
      BY <3>1 DEF IInv, CallsFit
    <3>3. Fits(j)'
      BY <3>2, FitsStays
    <3>4. call'[d] = j
      BY <2>2, <3>1 DEF IInv, CallsFit
    <3> QED BY <3>3, <3>4 DEF Fits
  <2> QED BY <2>1, <2>2
<1> QED BY <1>1, <1>2 DEF CallsFit

-------------------------------------------------------------------------------
(* Steps that change no table but the counters.                            *)

LEMMA NoCallFits == NoCall \in Calls /\ Fits(NoCall) /\ Fits(NoCall)'
BY DEF NoCall, Fits, Calls, Phases, Ops

LEMMA QuietStep ==
  ASSUME IInv, NEW c \in Clients, NEW k, Fits(k), call' = [call EXCEPT ![c] = k],
         UNCHANGED <<blog, verification, announced, ordered>>,
         requests' \in Nat, failures' \in Nat
  PROVE  IInv' /\ Grows
<1>1. Created' = Created /\ Grows
  BY DEF Created, Grows
<1>2. TablesOK'
  BY <1>1 DEF IInv, TablesOK, Visible
<1>3. VerifiedIsBacked'
  BY <1>1 DEF IInv, VerifiedIsBacked, Decided
<1>4. CallsFit'
  BY <1>1, FitsStays, OthersFit
<1> QED BY <1>1, <1>2, <1>3, <1>4 DEF IInv

LEMMA EndSteps ==
  ASSUME IInv, NEW c \in Clients, End(c), UNCHANGED <<blog, verification, announced, ordered>>,
         requests' \in Nat, failures' \in Nat
  PROVE  IInv'
<1>1. PICK k : k = NoCall
  OBVIOUS
<1>2. Fits(k)
  BY <1>1, NoCallFits
<1> QED BY <1>1, <1>2, QuietStep DEF End

LEMMA RequestSteps ==
  ASSUME IInv, NEW c \in Clients, Request(c)
  PROVE  IInv'
<1> DEFINE Asked(k) == /\ k \in Calls
                       /\ k.phase \in {"inserting", "finding", "matching"}
                       /\ k.phase # "inserting" => k.blog \in Created
                       /\ k.phase = "inserting" \/ k.op = "transfer" => k.user \in Users
                       /\ k.op # "admin" => k.status = Kept /\ k.trust = Kept
<1>1. ASSUME NEW k, Asked(k), Ask(c, k) PROVE IInv'
  <2>1. Fits(k)
    BY <1>1 DEF Fits
  <2>2. requests' \in Nat /\ failures' \in Nat
    BY <1>1 DEF Ask, IInv, TablesOK
  <2> QED BY <1>1, <2>1, <2>2, QuietStep DEF Ask
<1> USE DEF Calls, Phases, Ops, NoCall
<1>2. ASSUME NEW u \in Users, CreateBlog(c, u) PROVE IInv'
  BY <1>1, <1>2 DEF CreateBlog
<1>3. ASSUME NEW b \in Created, NEW u \in Users, SoftDelete(c, b, u) PROVE IInv'
  BY <1>1, <1>3 DEF SoftDelete, Created
<1>4. ASSUME NEW b \in Created, NEW u \in Users, TransferOwnership(c, b, u) PROVE IInv'
  BY <1>1, <1>4 DEF TransferOwnership, Created
<1>5. ASSUME NEW b \in Created, NEW status \in AdminStatuses \cup {Kept},
             NEW trust \in AdminTrusts \cup {Kept}, AdminUpdate(c, b, status, trust)
      PROVE  IInv'
  BY <1>1, <1>5 DEF AdminUpdate, Created
<1>6. ASSUME NEW b \in Created, NEW method \in Methods, Initiate(c, b, method) PROVE IInv'
  BY <1>1, <1>6 DEF Initiate, Created
<1>7. ASSUME NEW b \in Created, NEW method \in Methods, CheckOwnership(c, b, method) PROVE IInv'
  BY <1>1, <1>7 DEF CheckOwnership, Created
<1>8. ASSUME NEW b \in Created, AdminRestore(c, b) PROVE IInv'
  BY <1>1, <1>8 DEF AdminRestore, Created
<1>9. ASSUME NEW b \in Created, VerifyBlog(c, b) PROVE IInv'
  BY <1>1, <1>9 DEF VerifyBlog, Created
<1> QED BY <1>2, <1>3, <1>4, <1>5, <1>6, <1>7, <1>8, <1>9 DEF Request

LEMMA LookingSteps ==
  ASSUME IInv, NEW c \in Clients, FindBlog(c) \/ LookForPending(c) \/ FindToken(c) \/ FetchSite(c) \/ Assess(c)
  PROVE  IInv'
<1>1. Fits(call[c]) /\ call[c] \in Calls
  BY DEF IInv, CallsFit, Fits
<1>2. requests' \in Nat /\ failures' \in Nat
  BY DEF IInv, TablesOK, FindBlog, LookForPending, FindToken, FetchSite, Assess
<1>3. UNCHANGED <<blog, verification, announced, ordered>>
  BY DEF FindBlog, LookForPending, FindToken, FetchSite, Assess
<1>4. ASSUME NEW phase \in {"looking", "assessing", "writing", "issuing", "marking"}, Go(c, phase),
             phase = "marking" => At(c, "fetching"), call[c].phase \notin {"idle", "inserting"}
      PROVE  IInv'
  <2>1. PICK k : k = [call[c] EXCEPT !.phase = phase]
    OBVIOUS
  <2>2. call' = [call EXCEPT ![c] = k]
    BY <1>4, <2>1 DEF Go
  <2>3. Fits(k)
    BY <1>1, <1>4, <2>1 DEF Fits, At, Calls, Phases
  <2> QED BY <1>2, <1>3, <2>2, <2>3, QuietStep
<1>5. CASE End(c)
  BY <1>2, <1>3, <1>5, EndSteps
<1>6. CASE FindBlog(c)
  BY <1>4, <1>5, <1>6 DEF FindBlog, At
<1>7. CASE LookForPending(c)
  BY <1>4, <1>5, <1>7 DEF LookForPending, At
<1>8. CASE FetchSite(c)
  BY <1>4, <1>5, <1>8 DEF FetchSite, At
<1>9. CASE FindToken(c) /\ ~End(c)
  <2>1. PICK i \in Pending(On(c), call[c].method) :
          call' = [call EXCEPT ![c].phase = "fetching", ![c].row = i]
    BY <1>9 DEF FindToken
  <2>2. PICK k : k = [call[c] EXCEPT !.phase = "fetching", !.row = i]
    OBVIOUS
  <2>3. call' = [call EXCEPT ![c] = k]
    BY <2>1, <2>2 DEF IInv, CallsFit
  <2>4. /\ i \in DOMAIN verification /\ i \in Nat
        /\ verification[i].blog = On(c) /\ verification[i].status = "pending"
    BY DEF Pending, IInv, TablesOK
  <2>5. Fits(k)
    BY <1>1, <1>9, <2>2, <2>4 DEF Fits, FindToken, At, On, Calls, Phases
  <2> QED BY <1>2, <1>3, <2>3, <2>5, QuietStep
<1>10. CASE Assess(c)
  <2>1. PICK passed \in BOOLEAN :
          call' = [call EXCEPT ![c].phase = "deciding", ![c].passed = passed]
    BY <1>10 DEF Assess
  <2>2. PICK k : k = [call[c] EXCEPT !.phase = "deciding", !.passed = passed]
    OBVIOUS
  <2>3. call' = [call EXCEPT ![c] = k]
    BY <2>1, <2>2 DEF IInv, CallsFit
  <2>4. Fits(k)
    BY <1>1, <1>10, <2>2 DEF Fits, Assess, At, Calls, Phases
  <2> QED BY <1>2, <1>3, <2>3, <2>4, QuietStep
<1> QED BY <1>5, <1>6, <1>7, <1>8, <1>9, <1>10

LEMMA FailSteps ==
  ASSUME IInv, NEW c \in Clients, Fail(c)
  PROVE  IInv'
<1>1. requests' \in Nat /\ failures' \in Nat /\ UNCHANGED <<blog, verification, announced, ordered>>
  BY DEF Fail, IInv, TablesOK
<1>2. CASE End(c)
  BY <1>1, <1>2, EndSteps
<1>3. CASE At(c, "announcing") /\ Is(c, "check") /\ Go(c, "confirming")
  <2>1. Fits(call[c])
    BY DEF IInv, CallsFit
  <2>2. PICK k : k = [call[c] EXCEPT !.phase = "confirming"]
    OBVIOUS
  <2>3. call' = [call EXCEPT ![c] = k]
    BY <1>3, <2>2 DEF Go
  <2>4. Fits(k)
    BY <1>3, <2>1, <2>2 DEF Fits, At, Is, Calls, Phases
  <2> QED BY <1>1, <2>3, <2>4, QuietStep
<1> QED BY <1>2, <1>3 DEF Fail

-------------------------------------------------------------------------------
(* Steps that write a table.                                               *)

\* One blog is written; what the row calls verified is on record.
LEMMA BlogStep ==
  ASSUME IInv, NEW c \in Clients, NEW k, NEW b \in Blogs, NEW r \in BlogRows,
         r.owner # NoUser, blog' = [blog EXCEPT ![b] = r], call' = [call EXCEPT ![c] = k],
         UNCHANGED <<verification, announced, requests, failures>>,
         ordered \subseteq ordered', ordered' \subseteq ordered \cup {b} \X {"status", "trust"},
         r.status = "verified" =>
           \/ b \in Created /\ blog[b].status = "verified"
           \/ Decided(b, Passed)
           \/ <<b, "status">> \in ordered',
         r.trust = "verified" =>
           \/ b \in Created /\ blog[b].trust = "verified"
           \/ Decided(b, {"approved"})
           \/ <<b, "trust">> \in ordered',
         Grows => Fits(k)'
  PROVE  IInv'
<1>1. blog' \in [Blogs -> BlogRows] /\ blog'[b] = r /\ Created' = Created \cup {b}
  BY DEF IInv, TablesOK, Created
<1>2. \A a \in Blogs \ {b} : blog'[a] = blog[a]
  BY DEF IInv, TablesOK
<1>3. Grows
  BY <1>1 DEF Grows
<1>4. TablesOK'
  <2>1. ordered' \subseteq Created' \X {"status", "trust"} /\ announced' \subseteq Created'
    BY <1>1 DEF IInv, TablesOK
  <2>2. \A a \in Blogs \ Created' : ~blog'[a].deleted
    BY <1>1, <1>2 DEF IInv, TablesOK, Visible
  <2> QED BY <1>1, <2>1, <2>2 DEF IInv, TablesOK, Visible
<1>5. VerifiedIsBacked'
  <2>1. ASSUME NEW a \in Created'
        PROVE  /\ blog'[a].status = "verified" \/ a \in announced =>
                    Decided(a, Passed) \/ <<a, "status">> \in ordered'
               /\ blog'[a].trust = "verified" =>
                    Decided(a, {"approved"}) \/ <<a, "trust">> \in ordered'
    <3>1. CASE a = b
      BY <1>1, <3>1 DEF IInv, VerifiedIsBacked, Passed, TablesOK
    <3>2. CASE a # b
      BY <1>1, <1>2, <3>2 DEF IInv, VerifiedIsBacked, Passed, Created
    <3> QED BY <3>1, <3>2
  <2> QED BY <2>1 DEF VerifiedIsBacked, Decided, Passed
<1>6. CallsFit'
  BY <1>3, OthersFit
<1> QED BY <1>4, <1>5, <1>6 DEF IInv

LEMMA InsertSteps ==
  ASSUME IInv, NEW c \in Clients, InsertBlog(c)
  PROVE  IInv'
<1>1. CASE UNCHANGED blog
  BY <1>1, EndSteps DEF InsertBlog, IInv, TablesOK
<1>2. CASE ~UNCHANGED blog
  <2>1. PICK b \in Blogs \ Created :
          blog' = [blog EXCEPT ![b] = [owner |-> call[c].user, status |-> "draft",
                                       trust |-> "new", deleted |-> FALSE]]
    BY <1>2 DEF InsertBlog
  <2>2. call[c].user \in Users
    BY DEF InsertBlog, At, IInv, CallsFit, Fits
  <2>3. PICK r : r = [owner |-> call[c].user, status |-> "draft", trust |-> "new",
                      deleted |-> FALSE]
    OBVIOUS
  <2>4. r \in BlogRows /\ r.owner # NoUser
    BY <2>2, <2>3 DEF BlogRows, Statuses, Trusts
  <2>5. PICK k : k = NoCall
    OBVIOUS
  <2> QED BY <2>1, <2>3, <2>4, <2>5, NoCallFits, BlogStep DEF InsertBlog, End
<1> QED BY <1>1, <1>2

LEMMA WriteSteps ==
  ASSUME IInv, NEW c \in Clients, WriteBlog(c)
  PROVE  IInv'
<1> DEFINE columns == {<<On(c), column>> : column \in
                         {j \in {"status", "trust"} : call[c][j] = "verified"}}
<1>1. Fits(call[c]) /\ call[c] \in Calls /\ On(c) \in Created
  BY DEF IInv, CallsFit, Fits, WriteBlog, At, On
<1>2. blog[On(c)] \in BlogRows /\ blog[On(c)].owner # NoUser
  BY <1>1 DEF IInv, TablesOK, Created
<1>3. call[c].status # Kept => call[c].status \in Statuses
  BY <1>1 DEF Calls
<1>4. call[c].trust # Kept => call[c].trust \in Trusts
  BY <1>1 DEF Calls
<1>5. PICK r : r = Rewritten(call[c].op, blog[On(c)], call[c])
  OBVIOUS
<1>6. r \in BlogRows /\ r.owner # NoUser
  <2>1. CASE call[c].op = "transfer"
    BY <1>1, <1>2, <1>5, <2>1 DEF Rewritten, BlogRows, Fits
  <2>2. CASE call[c].op \in {"delete", "restore"}
    BY <1>2, <1>5, <2>2 DEF Rewritten, BlogRows, Statuses
  <2>3. CASE call[c].op \notin {"delete", "restore", "transfer"}
    BY <1>2, <1>3, <1>4, <1>5, <2>3 DEF Rewritten, BlogRows, Or
  <2> QED BY <2>1, <2>2, <2>3
<1>7. /\ r.status = "verified" =>
           blog[On(c)].status = "verified" \/ <<On(c), "status">> \in columns
      /\ r.trust = "verified" =>
           blog[On(c)].trust = "verified" \/ <<On(c), "trust">> \in columns
  <2>1. CASE call[c].op \in {"delete", "restore", "transfer"}
    BY <1>2, <1>5, <2>1 DEF Rewritten, BlogRows
  <2>2. CASE call[c].op \notin {"delete", "restore", "transfer"}
    <3>1. /\ r.status = Or(call[c].status, blog[On(c)].status)
          /\ r.trust = Or(call[c].trust, blog[On(c)].trust)
      BY <1>2, <1>5, <2>2 DEF Rewritten, BlogRows
    <3> QED BY <3>1 DEF Or
  <2> QED BY <2>1, <2>2
<1>8. /\ blog' = [blog EXCEPT ![On(c)] = r]
      /\ ordered' = ordered \cup columns
  BY <1>5 DEF WriteBlog
<1>9. columns \subseteq {On(c)} \X {"status", "trust"}
  OBVIOUS
<1>10. PICK b : b = On(c)
  OBVIOUS
<1>11. b \in Blogs /\ b \in Created
  BY <1>1, <1>10 DEF Created
<1>12. /\ r.status = "verified" =>
            (b \in Created /\ blog[b].status = "verified") \/ <<b, "status">> \in ordered'
       /\ r.trust = "verified" =>
            (b \in Created /\ blog[b].trust = "verified") \/ <<b, "trust">> \in ordered'
  BY <1>7, <1>8, <1>10, <1>11
<1>13. ordered \subseteq ordered' /\ ordered' \subseteq ordered \cup {b} \X {"status", "trust"}
  BY <1>8, <1>9, <1>10
<1> HIDE DEF columns
<1>14. CASE call[c].status = "verified"
  <2>1. PICK k : k = [call[c] EXCEPT !.phase = "announcing"]
    OBVIOUS
  <2>2. call' = [call EXCEPT ![c] = k]
    BY <1>14, <2>1 DEF WriteBlog, Go
  <2>3. <<b, "status">> \in ordered'
    BY <1>8, <1>10, <1>14 DEF columns
  <2>4. k \in Calls /\ k.op = "admin" /\ k.blog = b
    BY <1>1, <1>10, <1>14, <2>1 DEF Fits, Calls, Phases, On, Kept
  <2>5. Grows => Fits(k)'
    BY <1>11, <2>1, <2>3, <2>4, <1>1 DEF Fits, Grows
  <2> QED BY <1>6, <1>8, <1>10, <1>11, <1>12, <1>13, <2>2, <2>5, BlogStep DEF WriteBlog
<1>15. CASE call[c].status # "verified"
  <2>1. PICK k : k = NoCall
    OBVIOUS
  <2>2. call' = [call EXCEPT ![c] = k]
    BY <1>15, <2>1 DEF WriteBlog, End
  <2>3. Fits(k)'
    BY <2>1, NoCallFits
  <2> QED BY <1>6, <1>8, <1>10, <1>11, <1>12, <1>13, <2>2, <2>3, BlogStep DEF WriteBlog
<1> QED BY <1>14, <1>15

LEMMA VerdictSteps ==
  ASSUME IInv, NEW c \in Clients, GradeBlog(c) \/ ConfirmBlog(c)
  PROVE  IInv'
<1>1. Fits(call[c]) /\ call[c] \in Calls /\ On(c) \in Created
  BY DEF IInv, CallsFit, Fits, GradeBlog, ConfirmBlog, At, On
<1>2. PICK b : b = On(c)
  OBVIOUS
<1>3. b \in Blogs /\ b \in Created /\ blog[b] \in BlogRows /\ blog[b].owner # NoUser
  BY <1>1, <1>2 DEF IInv, TablesOK, Created
<1>4. PICK n : n = NoCall
  OBVIOUS
<1>5. Fits(n)'
  BY <1>4, NoCallFits
<1>6. CASE ConfirmBlog(c)
  <2>1. PICK r : r = [blog[b] EXCEPT !.status = "verified"]
    OBVIOUS
  <2>2. blog' = [blog EXCEPT ![b] = r] /\ call' = [call EXCEPT ![c] = n]
    BY <1>2, <1>4, <1>6, <2>1 DEF ConfirmBlog, End
  <2>3. r \in BlogRows /\ r.owner # NoUser /\ r.trust = blog[b].trust
    BY <1>3, <2>1 DEF BlogRows, Statuses
  <2>4. Decided(b, Passed)
    BY <1>1, <1>2, <1>6 DEF Fits, ConfirmBlog, At, On
  <2> QED BY <1>3, <1>5, <1>6, <2>2, <2>3, <2>4, BlogStep DEF ConfirmBlog
<1>7. CASE GradeBlog(c)
  <2>1. PICK r : r = [blog[b] EXCEPT !.status = IF call[c].passed THEN "verified" ELSE "rejected",
                                     !.trust = IF call[c].passed THEN "verified" ELSE "new"]
    OBVIOUS
  <2>2. blog' = [blog EXCEPT ![b] = r]
    BY <1>2, <1>3, <1>7, <2>1 DEF GradeBlog, IInv, TablesOK
  <2>3. r \in BlogRows /\ r.owner # NoUser
    BY <1>3, <2>1 DEF BlogRows, Statuses, Trusts
  <2>4. r.status = "verified" \/ r.trust = "verified" => call[c].passed
    BY <1>3, <2>1 DEF BlogRows
  <2>5. call[c].passed => Decided(b, {"approved"}) /\ Decided(b, Passed)
    BY <1>1, <1>2, <1>7 DEF Fits, GradeBlog, At, On, Decided, Passed
  <2>6. CASE call[c].passed
    <3>1. PICK k : k = [call[c] EXCEPT !.phase = "announcing"]
      OBVIOUS
    <3>2. call' = [call EXCEPT ![c] = k]
      BY <1>7, <2>6, <3>1 DEF GradeBlog, Go
    <3>3. k \in Calls /\ k.blog = b /\ k.phase = "announcing"
      BY <1>1, <1>2, <3>1 DEF Calls, Phases, On
    <3>4. Decided(b, Passed)'
      BY <1>7, <2>5, <2>6 DEF GradeBlog, Decided
    <3>5. Grows => Fits(k)'
      BY <1>1, <1>3, <3>1, <3>3, <3>4 DEF Fits, Grows
    <3> QED BY <1>3, <1>7, <2>2, <2>3, <2>4, <2>5, <3>2, <3>5, BlogStep DEF GradeBlog
  <2>7. CASE ~call[c].passed
    <3>1. call' = [call EXCEPT ![c] = n]
      BY <1>4, <1>7, <2>7 DEF GradeBlog, End
    <3> QED BY <1>3, <1>5, <1>7, <2>2, <2>3, <2>4, <2>5, <3>1, BlogStep DEF GradeBlog
  <2> QED BY <2>6, <2>7
<1> QED BY <1>6, <1>7

\* The verification rows change; no blog does.
LEMMA RecordStep ==
  ASSUME IInv, NEW c \in Clients, NEW k, Grows, verification' \in Seq(VerificationRows),
         call' = [call EXCEPT ![c] = k], Fits(k)',
         UNCHANGED <<blog, announced, ordered, requests, failures>>
  PROVE  IInv'
<1>1. Created' = Created
  BY DEF Created
<1>2. TablesOK'
  BY <1>1 DEF IInv, TablesOK, Visible
<1>3. VerifiedIsBacked'
  <2>1. ASSUME NEW b \in Created
        PROVE  /\ Decided(b, Passed) => Decided(b, Passed)'
               /\ Decided(b, {"approved"}) => Decided(b, {"approved"})'
    BY DecidedStays
  <2>2. ASSUME NEW b \in Created
        PROVE  /\ blog'[b].status = "verified" \/ b \in announced' =>
                    Decided(b, Passed)' \/ <<b, "status">> \in ordered'
               /\ blog'[b].trust = "verified" =>
                    Decided(b, {"approved"})' \/ <<b, "trust">> \in ordered'
    BY <2>1 DEF IInv, VerifiedIsBacked, Passed
  <2> QED BY <1>1, <2>2 DEF VerifiedIsBacked, Passed
<1>4. CallsFit'
  BY OthersFit
<1> QED BY <1>2, <1>3, <1>4 DEF IInv

LEMMA AppendRow ==
  ASSUME IInv, NEW row \in VerificationRows, verification' = Append(verification, row),
         UNCHANGED <<blog, ordered>>
  PROVE  /\ Grows /\ verification' \in Seq(VerificationRows)
         /\ Len(verification) + 1 \in DOMAIN verification'
         /\ verification'[Len(verification) + 1] = row
<1>1. verification \in Seq(VerificationRows)
  BY DEF IInv, TablesOK
<1>2. /\ verification' \in Seq(VerificationRows)
      /\ Len(verification') = Len(verification) + 1
      /\ \A i \in 1..Len(verification) : verification'[i] = verification[i]
      /\ verification'[Len(verification) + 1] = row
  BY <1>1, AppendProperties
<1>3. /\ DOMAIN verification = 1..Len(verification)
      /\ DOMAIN verification' = 1..(Len(verification) + 1)
      /\ Len(verification) \in Nat
  BY <1>1, <1>2, LenProperties
<1>4. \A i \in DOMAIN verification :
        i \in DOMAIN verification' /\ verification'[i] = verification[i]
  BY <1>2, <1>3
<1>5. Created' = Created
  BY DEF Created
<1> QED BY <1>2, <1>3, <1>4, <1>5 DEF Grows

LEMMA DecideSteps ==
  ASSUME IInv, NEW c \in Clients, IssueToken(c) \/ RecordDecision(c)
  PROVE  IInv'
<1>1. Fits(call[c]) /\ call[c] \in Calls /\ On(c) \in Created
  BY DEF IInv, CallsFit, Fits, IssueToken, RecordDecision, At, On
<1>2. On(c) \in Blogs
  BY <1>1 DEF Created
<1>3. CASE IssueToken(c)
  <2>1. PICK row : row = [blog |-> On(c), method |-> call[c].method, status |-> "pending"]
    OBVIOUS
  <2>2. row \in VerificationRows
    BY <1>1, <1>2, <2>1 DEF VerificationRows, Calls
  <2>3. Grows /\ verification' \in Seq(VerificationRows)
    BY <1>3, <2>1, <2>2, AppendRow DEF IssueToken, Decide
  <2>4. PICK n : n = NoCall
    OBVIOUS
  <2> QED BY <1>3, <2>3, <2>4, NoCallFits, RecordStep DEF IssueToken, End
<1>4. CASE RecordDecision(c)
  <2>1. PICK row : row = [blog |-> On(c), method |-> call[c].method,
                          status |-> IF call[c].passed THEN "approved" ELSE "rejected"]
    OBVIOUS
  <2>2. row \in VerificationRows
    BY <1>1, <1>2, <2>1 DEF VerificationRows, Calls
  <2>3. /\ Grows /\ verification' \in Seq(VerificationRows)
        /\ Len(verification) + 1 \in DOMAIN verification'
        /\ verification'[Len(verification) + 1] = row
    BY <1>4, <2>1, <2>2, AppendRow DEF RecordDecision, Decide
  <2>4. PICK k : k = [call[c] EXCEPT !.phase = "grading"]
    OBVIOUS
  <2>5. call' = [call EXCEPT ![c] = k]
    BY <1>4, <2>4 DEF RecordDecision, Go
  <2>6. call[c].passed => row.blog = k.blog /\ row.status = "approved"
    BY <1>1, <2>1, <2>4 DEF On, Calls
  <2>7. k.passed = call[c].passed /\ k.phase = "grading"
    BY <1>1, <2>4 DEF Calls
  <2>8. call[c].passed => Decided(k.blog, {"approved"})'
    BY <2>3, <2>6 DEF Decided
  <2>9. k \in Calls /\ k.blog \in Created
    BY <1>1, <2>4 DEF Calls, Phases, On
  <2>10. Fits(k)'
    BY <1>1, <2>3, <2>4, <2>7, <2>8, <2>9 DEF Fits, Grows
  <2> QED BY <1>4, <2>3, <2>5, <2>10, RecordStep DEF RecordDecision
<1> QED BY <1>3, <1>4

LEMMA MarkSteps ==
  ASSUME IInv, NEW c \in Clients, MarkVerified(c)
  PROVE  IInv'
<1>1. Fits(call[c]) /\ call[c] \in Calls /\ On(c) \in Created
  BY DEF IInv, CallsFit, Fits, MarkVerified, At, On
<1>2. PICK i : i = call[c].row
  OBVIOUS
<1>3. /\ i \in DOMAIN verification
      /\ verification[i].blog = On(c) /\ verification[i].status \in {"pending", "verified"}
      /\ verification' = [verification EXCEPT ![i].status = "verified"]
  BY <1>1, <1>2 DEF Fits, MarkVerified, At, On
<1>4. verification \in Seq(VerificationRows) /\ verification[i] \in VerificationRows
  BY <1>3 DEF IInv, TablesOK
<1>5. PICK row : row = [verification[i] EXCEPT !.status = "verified"]
  OBVIOUS
<1>6. row \in VerificationRows /\ row.blog = On(c) /\ row.status = "verified"
  BY <1>3, <1>4, <1>5 DEF VerificationRows
<1>7. verification' = [verification EXCEPT ![i] = row]
  BY <1>3, <1>4, <1>5
<1>8. verification' \in Seq(VerificationRows)
  BY <1>3, <1>4, <1>6, <1>7
<1>9. /\ DOMAIN verification' = DOMAIN verification /\ verification'[i] = row
      /\ \A j \in DOMAIN verification : j # i => verification'[j] = verification[j]
  BY <1>3, <1>4, <1>7
<1>10. Grows
  <2>1. Created' = Created /\ ordered' = ordered
    BY DEF MarkVerified, Created
  <2> QED BY <1>3, <1>6, <1>9, <2>1 DEF Grows
<1>11. PICK k : k = [call[c] EXCEPT !.phase = "announcing"]
  OBVIOUS
<1>12. call' = [call EXCEPT ![c] = k]
  BY <1>11 DEF MarkVerified, Go
<1>13. k \in Calls /\ k.blog = On(c) /\ k.phase = "announcing"
  BY <1>1, <1>11 DEF Calls, Phases, On
<1>14. Decided(k.blog, Passed)'
  BY <1>3, <1>6, <1>9, <1>13 DEF Decided, Passed
<1>15. Fits(k)'
  BY <1>1, <1>10, <1>11, <1>13, <1>14 DEF Fits, Grows
<1> QED BY <1>8, <1>10, <1>12, <1>15, RecordStep DEF MarkVerified

LEMMA AnnounceSteps ==
  ASSUME IInv, NEW c \in Clients, Announce(c)
  PROVE  IInv'
<1>1. Fits(call[c]) /\ call[c] \in Calls /\ On(c) \in Created /\ At(c, "announcing")
  BY DEF IInv, CallsFit, Fits, Announce, At, On
<1>2. Created' = Created /\ Grows /\ announced' = announced \cup {On(c)}
  BY DEF Announce, Created, Grows
<1>3. TablesOK'
  BY <1>1, <1>2 DEF Announce, IInv, TablesOK, Visible
<1>4. Decided(On(c), Passed) \/ <<On(c), "status">> \in ordered
  BY <1>1 DEF Fits, At, On
<1>5. VerifiedIsBacked'
  BY <1>2, <1>4 DEF Announce, IInv, VerifiedIsBacked, Decided, Passed
<1>6. CallsFit'
  <2>1. CASE Is(c, "check")
    <3>1. PICK k : k = [call[c] EXCEPT !.phase = "confirming"]
      OBVIOUS
    <3>2. call' = [call EXCEPT ![c] = k]
      BY <2>1, <3>1 DEF Announce, Go
    <3>3. Fits(k)
      BY <1>1, <2>1, <3>1 DEF Fits, At, Is, Calls, Phases
    <3> QED BY <1>2, <3>2, <3>3, FitsStays, OthersFit
  <2>2. CASE ~Is(c, "check")
    <3>1. PICK n : n = NoCall
      OBVIOUS
    <3>2. call' = [call EXCEPT ![c] = n]
      BY <2>2, <3>1 DEF Announce, End
    <3> QED BY <1>2, <3>1, <3>2, NoCallFits, OthersFit
  <2> QED BY <2>1, <2>2
<1> QED BY <1>3, <1>5, <1>6 DEF IInv

-------------------------------------------------------------------------------
(* The theorems.                                                           *)

LEMMA InitIInv == Init => IInv
<1> SUFFICES ASSUME Init PROVE IInv
  OBVIOUS
<1>1. Created = {}
  BY DEF Init, Created
<1>2. TablesOK
  BY <1>1 DEF Init, TablesOK, BlogRows, Statuses, Trusts, Visible
<1>3. CallsFit
  BY NoCallFits DEF Init, CallsFit
<1> QED BY <1>1, <1>2, <1>3 DEF IInv, VerifiedIsBacked

LEMMA NextIInv == IInv /\ [Next]_vars => IInv'
<1> SUFFICES ASSUME IInv, [Next]_vars PROVE IInv'
  OBVIOUS
<1>1. CASE UNCHANGED vars
  BY <1>1 DEF vars, IInv, TablesOK, CallsFit, Fits, VerifiedIsBacked, Decided, Created, Visible
<1>2. ASSUME NEW c \in Clients, Request(c) \/ Continue(c) \/ Fail(c) PROVE IInv'
  BY <1>2, RequestSteps, LookingSteps, FailSteps, InsertSteps, WriteSteps, VerdictSteps,
     DecideSteps, MarkSteps, AnnounceSteps DEF Continue
<1> QED BY <1>1, <1>2 DEF Next

\* Rows, verifications and running requests have their types; a request is for a blog that
\* exists, and the token a check marks is on record.
THEOREM BlogsTypeCorrect == Spec => []TypeOK
<1>1. IInv => TypeOK
  BY DEF IInv, TablesOK, CallsFit, Fits, TypeOK, At, On
<1> QED BY <1>1, InitIInv, NextIInv, PTL DEF Spec

\* Whatever requests race, fail or come late, no blog is verified, announced as verified or
\* trusted as verified without the decision that says so.
THEOREM BlogsVerifiedIsBacked == Spec => []VerifiedIsBacked
<1>1. IInv => VerifiedIsBacked
  BY DEF IInv
<1> QED BY <1>1, InitIInv, NextIInv, PTL DEF Spec

-------------------------------------------------------------------------------
(* The pending tokens.                                                     *)

LEMMA FiniteParts ==
  ASSUME IInv, NEW b, NEW method
  PROVE  /\ IsFiniteSet(Pending(b, method)) /\ Cardinality(Pending(b, method)) \in Nat
         /\ IsFiniteSet(Issuing(b, method)) /\ Cardinality(Issuing(b, method)) \in Nat
         /\ Cardinality(Issuing(b, method)) <= Cardinality(Clients)
         /\ Cardinality(Clients) \in Nat
<1>1. verification \in Seq(VerificationRows)
  BY DEF IInv, TablesOK
<1>2. DOMAIN verification = 1..Len(verification) /\ Len(verification) \in Nat
  BY <1>1, LenProperties
<1>3. IsFiniteSet(DOMAIN verification)
  BY <1>2, FS_Interval
<1>4. Pending(b, method) \subseteq DOMAIN verification
  BY DEF Pending
<1>5. Issuing(b, method) \subseteq Clients
  BY DEF Issuing
<1> QED BY <1>3, <1>4, <1>5, FS_Subset, FS_CardinalityType

\* A step that adds neither a pending row nor a request about to add one.
LEMMA NoMore ==
  ASSUME IInv, IInv', PendingBounded, NEW b \in Blogs, NEW method \in Methods,
         Pending(b, method)' \subseteq Pending(b, method),
         Issuing(b, method)' \subseteq Issuing(b, method)
  PROVE  Cardinality(Pending(b, method)') + Cardinality(Issuing(b, method)') <= Cardinality(Clients)
<1>1. Cardinality(Pending(b, method)) + Cardinality(Issuing(b, method)) <= Cardinality(Clients)
  BY DEF PendingBounded
<1>2. /\ Cardinality(Pending(b, method)') \in Nat
      /\ Cardinality(Pending(b, method)') <= Cardinality(Pending(b, method))
  BY FiniteParts, FS_Subset, FS_CardinalityType
<1>3. /\ Cardinality(Issuing(b, method)') \in Nat
      /\ Cardinality(Issuing(b, method)') <= Cardinality(Issuing(b, method))
  BY FiniteParts, FS_Subset, FS_CardinalityType
<1>4. Cardinality(Clients) \in Nat /\ Cardinality(Pending(b, method)) \in Nat
      /\ Cardinality(Issuing(b, method)) \in Nat
  BY FiniteParts
<1> QED BY <1>1, <1>2, <1>3, <1>4

\* A step that does not decide, mark or issue anything leaves the rows as they are, and only
\* LookForPending begins to issue.
LEMMA PendingStays ==
  ASSUME IInv, NEW c \in Clients, NEW b \in Blogs, NEW method \in Methods,
         Request(c) \/ Continue(c) \/ Fail(c), ~IssueToken(c)
  PROVE  Pending(b, method)' \subseteq Pending(b, method)
<1>1. CASE verification' = verification
  BY <1>1 DEF Pending
<1>2. CASE RecordDecision(c)
  <2>1. PICK row : row = [blog |-> On(c), method |-> call[c].method,
                          status |-> IF call[c].passed THEN "approved" ELSE "rejected"]
    OBVIOUS
  <2>2. verification' = Append(verification, row) /\ row.status # "pending"
    BY <1>2, <2>1 DEF RecordDecision, Decide
  <2>3. verification \in Seq(VerificationRows)
    BY DEF IInv, TablesOK
  <2>4. ASSUME NEW i \in DOMAIN verification',
               verification'[i] = [blog |-> b, method |-> method, status |-> "pending"]
        PROVE  i \in DOMAIN verification /\ verification[i] = verification'[i]
    BY <2>2, <2>3, <2>4
  <2> QED BY <2>4 DEF Pending
<1>3. CASE MarkVerified(c)
  <2>1. PICK r : r = call[c].row
    OBVIOUS
  <2>2. verification' = [verification EXCEPT ![r].status = "verified"] /\ r \in DOMAIN verification
    BY <1>3, <2>1 DEF MarkVerified, IInv, CallsFit, Fits, At
  <2>3. verification \in Seq(VerificationRows)
    BY DEF IInv, TablesOK
  <2>4. verification[r] \in VerificationRows
    BY <2>2, <2>3
  <2>5. verification'[r].status = "verified"
    BY <2>2, <2>4 DEF VerificationRows
  <2>6. \A i \in DOMAIN verification : i # r => verification'[i] = verification[i]
    BY <2>2
  <2>7. DOMAIN verification' = DOMAIN verification
    BY <2>2
  <2> QED BY <2>5, <2>6, <2>7 DEF Pending
<1> QED BY <1>1, <1>2, <1>3 DEF Request, Continue, Fail, CreateBlog, SoftDelete, TransferOwnership,
       AdminUpdate, Initiate, CheckOwnership, AdminRestore, VerifyBlog, Ask, FindBlog, InsertBlog,
       WriteBlog, LookForPending, FindToken, FetchSite, Announce, ConfirmBlog, Assess, GradeBlog

LEMMA IssuingStays ==
  ASSUME IInv, NEW c \in Clients, NEW b \in Blogs, NEW method \in Methods,
         Request(c) \/ Continue(c) \/ Fail(c), ~LookForPending(c)
  PROVE  Issuing(b, method)' \subseteq Issuing(b, method)
<1>1. call \in [Clients -> Calls]
  BY DEF IInv, CallsFit
<1>2. \A d \in Clients \ {c} : call'[d] = call[d]
  BY <1>1 DEF Request, Continue, Fail, CreateBlog, SoftDelete, TransferOwnership, AdminUpdate,
        Initiate, CheckOwnership, AdminRestore, VerifyBlog, Ask, InsertBlog, FindBlog, WriteBlog,
        LookForPending, IssueToken, FindToken, FetchSite, MarkVerified, Announce, ConfirmBlog,
        Assess, RecordDecision, GradeBlog, Go, End
<1>3. call'[c].phase # "issuing"
  <2>1. CASE Request(c)
    <3>1. ASSUME NEW k, Ask(c, k), k.phase # "issuing" PROVE call'[c].phase # "issuing"
      BY <1>1, <3>1 DEF Ask
    <3>2. ASSUME NEW u \in Users, CreateBlog(c, u) PROVE call'[c].phase # "issuing"
      BY <3>1, <3>2 DEF CreateBlog, NoCall
    <3>3. ASSUME NEW a \in Created, NEW u \in Users, SoftDelete(c, a, u) \/ TransferOwnership(c, a, u)
          PROVE  call'[c].phase # "issuing"
      BY <3>1, <3>3 DEF SoftDelete, TransferOwnership, NoCall
    <3>4. ASSUME NEW a \in Created, NEW status, NEW trust, AdminUpdate(c, a, status, trust)
          PROVE  call'[c].phase # "issuing"
      BY <3>1, <3>4 DEF AdminUpdate, NoCall
    <3>5. ASSUME NEW a \in Created, NEW way, Initiate(c, a, way) \/ CheckOwnership(c, a, way)
          PROVE  call'[c].phase # "issuing"
      BY <3>1, <3>5 DEF Initiate, CheckOwnership, NoCall
    <3>6. ASSUME NEW a \in Created, AdminRestore(c, a) \/ VerifyBlog(c, a)
          PROVE  call'[c].phase # "issuing"
      BY <3>1, <3>6 DEF AdminRestore, VerifyBlog, NoCall
    <3> QED BY <2>1, <3>2, <3>3, <3>4, <3>5, <3>6 DEF Request
  <2>2. CASE Continue(c) \/ Fail(c)
    BY <1>1, <2>2 DEF Continue, Fail, InsertBlog, FindBlog, WriteBlog, LookForPending, IssueToken,
          FindToken, FetchSite, MarkVerified, Announce, ConfirmBlog, Assess, RecordDecision,
          GradeBlog, Go, End, NoCall, Calls
  <2> QED BY <2>1, <2>2
<1> QED BY <1>2, <1>3 DEF Issuing, At, On

LEMMA PendingStep ==
  ASSUME IInv, IInv', PendingBounded, Next, NEW b \in Blogs, NEW method \in Methods
  PROVE  Cardinality(Pending(b, method)') + Cardinality(Issuing(b, method)') <= Cardinality(Clients)
<1>1. PICK c \in Clients : Request(c) \/ Continue(c) \/ Fail(c)
  BY DEF Next
<1>2. /\ Cardinality(Pending(b, method)) \in Nat /\ Cardinality(Issuing(b, method)) \in Nat
      /\ Cardinality(Clients) \in Nat
      /\ IsFiniteSet(Pending(b, method)) /\ IsFiniteSet(Issuing(b, method))
  BY FiniteParts
<1>3. /\ Cardinality(Issuing(b, method)') \in Nat
      /\ Cardinality(Issuing(b, method)') <= Cardinality(Clients)
  <2>1. Issuing(b, method)' \subseteq Clients
    BY DEF Issuing
  <2> QED BY <2>1, FS_Subset, FS_CardinalityType
<1>4. Cardinality(Pending(b, method)) + Cardinality(Issuing(b, method)) <= Cardinality(Clients)
  BY DEF PendingBounded
<1>5. CASE ~IssueToken(c) /\ ~LookForPending(c)
  BY <1>1, <1>5, PendingStays, IssuingStays, NoMore
<1>6. CASE LookForPending(c)
  <2>1. Pending(b, method)' = Pending(b, method) /\ ~IssueToken(c)
    BY <1>6 DEF LookForPending, IssueToken, At, Pending
  <2>2. CASE Pending(b, method) = {}
    <3>1. Cardinality(Pending(b, method)') = 0
      BY <2>1, <2>2, FS_EmptySet
    <3> QED BY <1>3, <3>1
  <2>3. CASE Pending(b, method) # {}
    <3>1. Issuing(b, method)' \subseteq Issuing(b, method)
      BY <1>6, <2>3 DEF LookForPending, Issuing, At, On, Go, End, NoCall, IInv, CallsFit, Calls
    <3> QED BY <2>1, <3>1, NoMore
  <2> QED BY <2>2, <2>3
<1>7. CASE IssueToken(c)
  <2>1. PICK row : row = [blog |-> On(c), method |-> call[c].method, status |-> "pending"]
    OBVIOUS
  <2>2. verification' = Append(verification, row) /\ verification \in Seq(VerificationRows)
    BY <1>7, <2>1 DEF IssueToken, Decide, IInv, TablesOK
  <2>3. PICK n \in Nat : n = Len(verification) + 1
    BY <2>2, LenProperties
  <2>4. Pending(b, method)' \subseteq Pending(b, method) \cup {n}
    BY <2>2, <2>3 DEF Pending
  <2>5. ~LookForPending(c)
    BY <1>7 DEF IssueToken, LookForPending, At
  <2>6. Issuing(b, method)' \subseteq Issuing(b, method)
    BY <1>1, <2>5, IssuingStays
  <2>7. CASE c \in Issuing(b, method)
    <3>1. Issuing(b, method)' \subseteq Issuing(b, method) \ {c}
      BY <1>7, <2>6 DEF IssueToken, End, NoCall, Issuing, At, IInv, CallsFit
    <3>2. Cardinality(Issuing(b, method) \ {c}) = Cardinality(Issuing(b, method)) - 1
      BY <1>2, <2>7, FS_RemoveElement
    <3>3. Cardinality(Issuing(b, method)') <= Cardinality(Issuing(b, method)) - 1
      BY <1>2, <3>1, <3>2, FS_Subset, FS_RemoveElement
    <3>4. /\ IsFiniteSet(Pending(b, method) \cup {n})
          /\ Cardinality(Pending(b, method) \cup {n}) <= Cardinality(Pending(b, method)) + 1
      <4>1. /\ IsFiniteSet(Pending(b, method) \cup {n})
            /\ \/ Cardinality(Pending(b, method) \cup {n}) = Cardinality(Pending(b, method))
               \/ Cardinality(Pending(b, method) \cup {n}) = Cardinality(Pending(b, method)) + 1
        BY <1>2, FS_AddElement
      <4> QED BY <1>2, <4>1
    <3>5. /\ Cardinality(Pending(b, method)') \in Nat
          /\ Cardinality(Pending(b, method)') <= Cardinality(Pending(b, method) \cup {n})
          /\ Cardinality(Pending(b, method) \cup {n}) \in Nat
      BY <2>4, <3>4, FS_Subset, FS_CardinalityType
    <3> QED BY <1>2, <1>4, <1>3, <3>3, <3>4, <3>5
  <2>8. CASE c \notin Issuing(b, method)
    <3>1. row # [blog |-> b, method |-> method, status |-> "pending"]
      BY <1>7, <2>1, <2>8 DEF IssueToken, Issuing, At, On
    <3>2. Pending(b, method)' \subseteq Pending(b, method)
      BY <2>2, <3>1 DEF Pending
    <3> QED BY <2>6, <3>2, NoMore
  <2> QED BY <2>7, <2>8
<1> QED BY <1>5, <1>6, <1>7

\* The check for a pending token and its insertion are apart, yet no more tokens of a method
\* are ever pending than requests can run at a time.
THEOREM BlogsPendingBounded == Spec => []PendingBounded
<1>1. Init => PendingBounded
  <2> SUFFICES ASSUME Init, NEW b \in Blogs, NEW method \in Methods
               PROVE  Cardinality(Pending(b, method)) + Cardinality(Issuing(b, method))
                        <= Cardinality(Clients)
    BY DEF PendingBounded
  <2>1. Pending(b, method) = {} /\ Issuing(b, method) = {}
    BY DEF Init, Pending, Issuing, NoCall, At
  <2> QED BY <2>1, FS_EmptySet, FS_CardinalityType
<1>2. IInv /\ IInv' /\ PendingBounded /\ [Next]_vars => PendingBounded'
  <2>1. IInv /\ IInv' /\ PendingBounded /\ Next => PendingBounded'
    BY PendingStep DEF PendingBounded
  <2>2. PendingBounded /\ UNCHANGED vars => PendingBounded'
    BY DEF vars, PendingBounded, Pending, Issuing, At, On
  <2> QED BY <2>1, <2>2
<1> QED BY <1>1, <1>2, InitIInv, NextIInv, PTL DEF Spec
===============================================================================
