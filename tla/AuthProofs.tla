------------------------------ MODULE AuthProofs ------------------------------
(***************************************************************************)
(* For any number of users, sessions and concurrent requests: the types of *)
(* Auth, that an exchanged session is dead, that nobody is blocked too     *)
(* early, and that a password change ends the older sessions.              *)
(***************************************************************************)
EXTENDS Auth, TLAPS

USE AuthAssumption

\* A request's session token, given the sessions and the passwords.
TokenOK(w, ses, pw) ==
  /\ w.phase \in {"exchanging", "spending", "leaving", "ending", "keeping"} =>
       w.token \in SessionIds /\ ses[w.token] # None
  /\ w.phase \in {"exchanging", "spending"} => ses[w.token].user = w.user
  /\ w.phase \in {"registering", "blocking", "comparing", "clearing", "recording", "counting"} =>
       w.token = None
  /\ w.phase = "revoking" => w.token = None \/ (w.token \in SessionIds /\ ses[w.token] # None)
  /\ w.phase = "creating" =>
       \/ w.token = None
       \/ /\ w.token \in SessionIds /\ ses[w.token] # None
          /\ ses[w.token].revoked /\ ses[w.token].user = w.user

\* A request's reset token.
ResetOK(w, rst) ==
  w.phase \in {"redeeming", "changing", "marking"} =>
    w.token \in ResetIds /\ rst[w.token] # None

\* The attempt row a request has read: its own user's, and no more than was recorded.
CountOK(w, att, rec) ==
  w.row # None /\ att[w.row] # None =>
    att[w.row].user = w.user /\ w.count <= rec[w.user]

\* Sessions are exchanged for one of the same user, and dead then.
SessionsOK ==
  /\ password \in [Users -> Nat]
  /\ session \in [SessionIds -> Sessions \cup {None}]
  /\ \A s \in Created : LET p == session[s].parent IN
       p # None => p \in Created /\ session[p].revoked /\ session[p].user = session[s].user

ResetsOK == reset \in [ResetIds -> Resets \cup {None}]

\* A counter is never ahead of the failed logins.
AttemptsOK ==
  /\ recorded \in [Users -> Nat]
  /\ attempt \in [AttemptIds -> Attempts \cup {None}]
  /\ \A r \in AttemptIds : attempt[r] # None =>
       /\ attempt[r].count <= recorded[attempt[r].user]
       /\ attempt[r].blocked = "yes" => attempt[r].count >= MaxAttempts

WorkOK ==
  /\ work \in [Callers -> Works]
  /\ \A c \in Callers :
       /\ TokenOK(work[c], session, password)
       /\ ResetOK(work[c], reset)
       /\ CountOK(work[c], attempt, recorded)

BoundsOK == requests \in Nat /\ failures \in Nat

IInv == SessionsOK /\ ResetsOK /\ AttemptsOK /\ WorkOK /\ BoundsOK

LEMMA IInvShows == IInv => TypeOK /\ ExchangedIsDead /\ BlockedIsDeserved
<1> SUFFICES ASSUME IInv PROVE TypeOK /\ ExchangedIsDead /\ BlockedIsDeserved
  OBVIOUS
<1>1. TypeOK
  BY DEF IInv, SessionsOK, ResetsOK, AttemptsOK, WorkOK, BoundsOK, TypeOK, TokenOK, ResetOK,
         Created, Token
<1>2. ExchangedIsDead
  BY DEF IInv, SessionsOK, ExchangedIsDead
<1>3. ASSUME NEW r \in AttemptIds, attempt[r] # None, attempt[r].blocked = "yes"
      PROVE  recorded[attempt[r].user] >= MaxAttempts
  <2>1. attempt[r] \in Attempts
    BY <1>3 DEF IInv, AttemptsOK
  <2>2. attempt[r].count \in Nat /\ recorded[attempt[r].user] \in Nat
    BY <2>1 DEF IInv, AttemptsOK, Attempts
  <2>3. attempt[r].count <= recorded[attempt[r].user] /\ attempt[r].count >= MaxAttempts
    BY <1>3 DEF IInv, AttemptsOK
  <2> QED BY <2>2, <2>3
<1> QED BY <1>1, <1>2, <1>3 DEF BlockedIsDeserved

-------------------------------------------------------------------------------
(* Lemmas on the parts of a step.                                          *)

\* Sessions stay, with their user, and stay dead; resets stay; what a request has read of
\* an attempt stays true of the row.
SessionsStay ==
  \A s \in SessionIds : session[s] # None =>
    /\ session'[s] # None /\ session'[s].user = session[s].user
    /\ session[s].revoked => session'[s].revoked

ResetsStay == \A r \in ResetIds : reset[r] # None => reset'[r] # None

LEMMA TokenStays ==
  ASSUME NEW w, TokenOK(w, session, password), SessionsStay
  PROVE  TokenOK(w, session', password')
BY DEF TokenOK, SessionsStay

LEMMA ResetStays ==
  ASSUME NEW w, ResetOK(w, reset), ResetsStay
  PROVE  ResetOK(w, reset')
BY DEF ResetOK, ResetsStay

\* One request goes on.
Becomes(c, w) == work' = [work EXCEPT ![c] = w]

LEMMA WorkStep ==
  ASSUME WorkOK, NEW c \in Callers, NEW w \in Works, Becomes(c, w),
         SessionsStay, ResetsStay,
         \A d \in Callers : CountOK(work[d], attempt', recorded'),
         TokenOK(w, session', password'), ResetOK(w, reset'), CountOK(w, attempt', recorded')
  PROVE  WorkOK'
<1>1. work' \in [Callers -> Works] /\ work'[c] = w
  BY DEF WorkOK, Becomes
<1>2. ASSUME NEW d \in Callers
      PROVE  /\ TokenOK(work'[d], session', password')
             /\ ResetOK(work'[d], reset')
             /\ CountOK(work'[d], attempt', recorded')
  <2>1. CASE d = c
    BY <1>1, <2>1
  <2>2. CASE d # c
    <3>1. work'[d] = work[d]
      BY <2>2 DEF WorkOK, Becomes
    <3>2. TokenOK(work[d], session', password') /\ ResetOK(work[d], reset')
      BY TokenStays, ResetStays DEF WorkOK
    <3> QED BY <3>1, <3>2
  <2> QED BY <2>1, <2>2
<1> QED BY <1>1, <1>2 DEF WorkOK

\* A request goes on and the tables stay.
LEMMA KeepTables ==
  ASSUME IInv, NEW c \in Callers, NEW w \in Works, Becomes(c, w), UNCHANGED tables, BoundsOK',
         TokenOK(w, session, password), ResetOK(w, reset), CountOK(w, attempt, recorded)
  PROVE  IInv'
<1>1. /\ session' = session /\ password' = password /\ reset' = reset /\ attempt' = attempt
      /\ recorded' = recorded
  BY DEF tables
<1>2. SessionsStay /\ ResetsStay
  BY <1>1 DEF SessionsStay, ResetsStay
<1>3. WorkOK'
  <2>1. \A d \in Callers : CountOK(work[d], attempt', recorded')
    BY <1>1 DEF IInv, WorkOK
  <2> QED BY <1>1, <1>2, <2>1, WorkStep DEF IInv
<1> QED BY <1>1, <1>3 DEF IInv, SessionsOK, ResetsOK, AttemptsOK, Created

\* A request goes on and writes sessions or passwords.
LEMMA WritesSessions ==
  ASSUME IInv, NEW c \in Callers, NEW w \in Works, Becomes(c, w), SessionsOK', SessionsStay,
         UNCHANGED <<reset, attempt, recorded>>, BoundsOK',
         TokenOK(w, session', password'), ResetOK(w, reset), CountOK(w, attempt, recorded)
  PROVE  IInv'
<1>1. ResetsStay /\ \A d \in Callers : CountOK(work[d], attempt', recorded')
  BY DEF ResetsStay, IInv, WorkOK
<1>2. WorkOK'
  BY <1>1, WorkStep DEF IInv
<1> QED BY <1>2 DEF IInv, ResetsOK, AttemptsOK

\* A request that is through.
Through(c) == Begin("idle", User(c), None, 0)

LEMMA ThroughOK ==
  ASSUME IInv, NEW c \in Callers
  PROVE  /\ Through(c) \in Works /\ (End(c) => Becomes(c, Through(c)))
         /\ \A ses, pw : TokenOK(Through(c), ses, pw)
         /\ \A rst : ResetOK(Through(c), rst)
         /\ \A att, rec : CountOK(Through(c), att, rec)
<1>1. work[c].user \in Users
  BY DEF IInv, WorkOK, Works
<1>2. Through(c) = [phase |-> "idle", user |-> work[c].user, token |-> None, given |-> 0,
                    row |-> None, count |-> 0]
  BY DEF Through, Begin, User
<1>3. Through(c) \in Works
  BY <1>1, <1>2 DEF Works, Phases
<1>4. End(c) => Becomes(c, Through(c))
  BY DEF End, Becomes, Through, User, IInv, WorkOK
<1> QED BY <1>2, <1>3, <1>4 DEF TokenOK, ResetOK, CountOK
\* A request that goes on with the same token and row, or with another token.
Next1(c, phase, token) == [work[c] EXCEPT !.phase = phase, !.token = token]

LEMMA WorkOf ==
  ASSUME IInv, NEW c \in Callers
  PROVE  /\ work[c] \in Works /\ TokenOK(work[c], session, password)
         /\ ResetOK(work[c], reset) /\ CountOK(work[c], attempt, recorded)
BY DEF IInv, WorkOK

LEMMA Next1OK ==
  ASSUME IInv, NEW c \in Callers, NEW phase \in Phases,
         NEW token \in SessionIds \cup ResetIds \cup {None}
  PROVE  /\ Next1(c, phase, token) \in Works
         /\ Next1(c, phase, token).phase = phase /\ Next1(c, phase, token).token = token
         /\ Next1(c, phase, token).user = User(c) /\ Next1(c, phase, token).row = work[c].row
         /\ Next1(c, phase, token).count = work[c].count
         /\ work' = [work EXCEPT ![c].phase = phase, ![c].token = token]
              => Becomes(c, Next1(c, phase, token))
         /\ Go(c, phase) /\ token = Token(c) => Becomes(c, Next1(c, phase, token))
<1>1. work[c] \in Works
  BY WorkOf
<1>2. /\ Next1(c, phase, token) \in Works
      /\ Next1(c, phase, token).phase = phase /\ Next1(c, phase, token).token = token
      /\ Next1(c, phase, token).user = User(c) /\ Next1(c, phase, token).row = work[c].row
      /\ Next1(c, phase, token).count = work[c].count
  BY <1>1 DEF Next1, Works, User
<1>3. work' = [work EXCEPT ![c].phase = phase, ![c].token = token]
        => Becomes(c, Next1(c, phase, token))
  BY DEF Becomes, Next1, IInv, WorkOK
<1>4. Go(c, phase) /\ token = Token(c) => Becomes(c, Next1(c, phase, token))
  BY <1>1 DEF Go, Becomes, Next1, Token, IInv, WorkOK, Works
<1> QED BY <1>2, <1>3, <1>4

LEMMA Next1Count ==
  ASSUME IInv, NEW c \in Callers, NEW phase, NEW token, NEW att, NEW rec, CountOK(work[c], att, rec)
  PROVE  CountOK(Next1(c, phase, token), att, rec)
BY WorkOf DEF CountOK, Next1, Works

-------------------------------------------------------------------------------
(* The steps that leave the tables as they are.                            *)

LEMMA InitIInv == Init => IInv
<1> SUFFICES ASSUME Init PROVE IInv
  OBVIOUS
<1>1. PICK u \in Users : work = [c \in Callers |-> Begin("idle", u, None, 0)]
  BY DEF Init
<1>2. WorkOK
  BY <1>1 DEF WorkOK, Begin, Works, Phases, TokenOK, ResetOK, CountOK
<1> QED BY <1>2 DEF Init, IInv, SessionsOK, ResetsOK, AttemptsOK, BoundsOK, Created

LEMMA EndKeeps ==
  ASSUME IInv, NEW c \in Callers, End(c), UNCHANGED tables, BoundsOK'
  PROVE  IInv'
BY ThroughOK, KeepTables

LEMMA AskKeeps ==
  ASSUME IInv, NEW c \in Callers, NEW phase \in Phases, NEW u \in Users,
         NEW token \in SessionIds \cup ResetIds \cup {None}, NEW given \in Nat,
         Ask(c, phase, u, token, given),
         TokenOK(Begin(phase, u, token, given), session, password),
         ResetOK(Begin(phase, u, token, given), reset)
  PROVE  IInv'
<1>1. Begin(phase, u, token, given) \in Works
  BY DEF Begin, Works
<1>2. CountOK(Begin(phase, u, token, given), attempt, recorded)
  BY DEF Begin, CountOK
<1>3. Becomes(c, Begin(phase, u, token, given)) /\ UNCHANGED tables /\ BoundsOK'
  BY DEF Ask, Becomes, IInv, BoundsOK
<1> QED BY <1>1, <1>2, <1>3, KeepTables

LEMMA RequestKeeps ==
  ASSUME IInv, NEW c \in Callers, Request(c)
  PROVE  IInv'
<1>1. ASSUME NEW u \in Users, NEW phase \in {"registering", "blocking", "asking"},
             NEW given \in Nat, Ask(c, phase, u, None, given)
      PROVE  IInv'
  <2>1. TokenOK(Begin(phase, u, None, given), session, password)
    BY DEF Begin, TokenOK
  <2>2. ResetOK(Begin(phase, u, None, given), reset)
    BY DEF Begin, ResetOK
  <2>3. phase \in Phases
    BY DEF Phases
  <2> QED BY <1>1, <2>1, <2>2, <2>3, AskKeeps
<1>2. ASSUME NEW s \in SessionIds, s \in Created,
             NEW phase \in {"exchanging", "leaving", "keeping"},
             Ask(c, phase, session[s].user, s, 0)
      PROVE  IInv'
  <2>1. session[s].user \in Users /\ session[s] # None
    BY <1>2 DEF Created, IInv, SessionsOK, Sessions
  <2>2. PICK u \in Users : u = session[s].user
    BY <2>1
  <2>3. TokenOK(Begin(phase, u, s, 0), session, password)
    BY <2>1, <2>2 DEF Begin, TokenOK
  <2>4. ResetOK(Begin(phase, u, s, 0), reset)
    BY DEF Begin, ResetOK
  <2>5. phase \in Phases
    BY DEF Phases
  <2> QED BY <1>2, <2>2, <2>3, <2>4, <2>5, AskKeeps
<1>3. ASSUME NEW r \in ResetIds, ResetPassword(c, r) PROVE IInv'
  <2>1. PICK u \in Users : u = reset[r].user
    BY <1>3 DEF ResetPassword, IInv, ResetsOK, Resets
  <2>2. TokenOK(Begin("redeeming", u, r, 0), session, password)
    BY DEF Begin, TokenOK
  <2>3. ResetOK(Begin("redeeming", u, r, 0), reset)
    BY <1>3 DEF Begin, ResetOK, ResetPassword
  <2>4. "redeeming" \in Phases
    BY DEF Phases
  <2> QED BY <1>3, <2>1, <2>2, <2>3, <2>4, AskKeeps DEF ResetPassword
<1>4. ASSUME NEW u \in Users, NEW given \in 0..password[u], Login(c, u, given) PROVE IInv'
  <2>1. given \in Nat
    BY DEF IInv, SessionsOK
  <2> QED BY <1>1, <1>4, <2>1 DEF Login
<1>5. ASSUME NEW u \in Users, Register(c, u) \/ ForgotPassword(c, u) PROVE IInv'
  BY <1>1, <1>5 DEF Register, ForgotPassword
<1>6. ASSUME NEW s \in SessionIds, Refresh(c, s) \/ Logout(c, s) \/ LogoutAll(c, s) PROVE IInv'
  BY <1>2, <1>6 DEF Refresh, Logout, LogoutAll
<1> QED BY <1>3, <1>4, <1>5, <1>6 DEF Request

\* A request that only reads goes on to a phase its token allows.
LEMMA GoKeeps ==
  ASSUME IInv, NEW c \in Callers, NEW phase \in Phases,
         NEW token \in SessionIds \cup ResetIds \cup {None},
         Becomes(c, Next1(c, phase, token)), UNCHANGED tables, BoundsOK',
         TokenOK(Next1(c, phase, token), session, password),
         ResetOK(Next1(c, phase, token), reset)
  PROVE  IInv'
BY WorkOf, Next1OK, Next1Count, KeepTables
\* Every phase a request can reach by reading, from the one it is in.
LEMMA ReadsGo ==
  ASSUME IInv, NEW c \in Callers, NEW phase \in Phases,
         NEW token \in SessionIds \cup ResetIds \cup {None},
         Becomes(c, Next1(c, phase, token)), UNCHANGED tables, BoundsOK',
         \/ At(c, "comparing") /\ phase \in {"clearing", "recording"} /\ token = Token(c)
         \/ At(c, "recording") /\ phase = "counting" /\ token = Token(c)
         \/ At(c, "exchanging") /\ phase = "spending" /\ token = Token(c)
         \/ At(c, "leaving") /\ phase = "ending" /\ token = Token(c)
         \/ At(c, "keeping") /\ phase = "revoking" /\ token \in {Token(c), None}
         \/ phase = "revoking" /\ token = None
         \/ phase = "issuing"
         \/ At(c, "redeeming") /\ phase = "changing" /\ token = Token(c)
  PROVE  IInv'
<1> DEFINE w == Next1(c, phase, token)
<1>1. w.phase = phase /\ w.token = token /\ w.user = work[c].user
  BY WorkOf DEF Next1, Works
<1>2. TokenOK(work[c], session, password) /\ ResetOK(work[c], reset)
  BY WorkOf
<1> HIDE DEF w
<1>3. TokenOK(w, session, password)
  BY <1>1, <1>2 DEF TokenOK, At, Token
<1>4. ResetOK(w, reset)
  BY <1>1, <1>2 DEF ResetOK, At, Token
<1> QED BY <1>3, <1>4, GoKeeps DEF w

LEMMA ReadsKeep ==
  ASSUME IInv, NEW c \in Callers,
         Compare(c) \/ FindSession(c) \/ FindOwn(c) \/ FindKept(c) \/ FindRecent(c) \/ FindReset(c)
  PROVE  IInv'
<1>1. UNCHANGED tables /\ BoundsOK'
  BY DEF Compare, FindSession, FindOwn, FindKept, FindRecent, FindReset, IInv, BoundsOK
<1>2. Token(c) \in SessionIds \cup ResetIds \cup {None}
  BY WorkOf DEF Token, Works
<1>3. ASSUME NEW phase \in {"clearing", "recording", "spending", "ending", "changing", "issuing"},
             Go(c, phase),
             \/ At(c, "comparing") /\ phase \in {"clearing", "recording"}
             \/ At(c, "exchanging") /\ phase = "spending"
             \/ At(c, "leaving") /\ phase = "ending"
             \/ phase = "issuing"
             \/ At(c, "redeeming") /\ phase = "changing"
      PROVE  IInv'
  <2>1. phase \in Phases
    BY DEF Phases
  <2>2. Becomes(c, Next1(c, phase, Token(c)))
    BY <1>2, <1>3, <2>1, Next1OK
  <2> QED BY <1>1, <1>2, <1>3, <2>1, <2>2, ReadsGo
<1>4. ASSUME NEW token \in {Token(c), None},
             work' = [work EXCEPT ![c].phase = "revoking", ![c].token = token],
             token = None \/ At(c, "keeping")
      PROVE  IInv'
  <2>1. "revoking" \in Phases
    BY DEF Phases
  <2>2. Becomes(c, Next1(c, "revoking", token))
    BY <1>2, <1>4, <2>1, Next1OK
  <2> QED BY <1>1, <1>2, <1>4, <2>1, <2>2, ReadsGo
<1>5. CASE Compare(c)
  BY <1>3, <1>5 DEF Compare
<1>6. CASE FindSession(c)
  <2>1. CASE Live(Token(c))
    <3>1. Go(c, "spending")
      BY <1>6, <2>1 DEF FindSession, Go
    <3> QED BY <1>3, <1>6, <3>1 DEF FindSession
  <2>2. CASE ~Live(Token(c))
    <3>1. work' = [work EXCEPT ![c].phase = "revoking", ![c].token = None]
      BY <1>6, <2>2 DEF FindSession, IInv, WorkOK
    <3> QED BY <1>4, <3>1
  <2> QED BY <2>1, <2>2
<1>7. CASE FindOwn(c)
  BY <1>1, <1>3, <1>7, EndKeeps DEF FindOwn
<1>8. CASE FindKept(c)
  <2>1. PICK token \in {Token(c), None} :
          work' = [work EXCEPT ![c].phase = "revoking", ![c].token = token]
    <3>1. work' = [work EXCEPT ![c].phase = "revoking",
                               ![c].token = IF Live(Token(c)) THEN Token(c) ELSE None]
      BY <1>8, WorkOf DEF FindKept, Token, IInv, WorkOK, Works
    <3> QED BY <3>1
  <2> QED BY <1>4, <1>8, <2>1 DEF FindKept
<1>9. CASE FindRecent(c)
  BY <1>1, <1>3, <1>9, EndKeeps DEF FindRecent
<1>10. CASE FindReset(c)
  BY <1>1, <1>3, <1>10, EndKeeps DEF FindReset
<1> QED BY <1>5, <1>6, <1>7, <1>8, <1>9, <1>10

LEMMA FindAttemptKeeps ==
  ASSUME IInv, NEW c \in Callers, FindAttempt(c)
  PROVE  IInv'
<1>1. UNCHANGED tables /\ BoundsOK' /\ At(c, "recording")
  BY DEF FindAttempt, IInv, BoundsOK
<1>2. "counting" \in Phases /\ Token(c) \in SessionIds \cup ResetIds \cup {None}
  BY WorkOf DEF Phases, Token, Works
<1>3. CASE Go(c, "counting")
  <2>1. Becomes(c, Next1(c, "counting", Token(c)))
    BY <1>2, <1>3, Next1OK
  <2> QED BY <1>1, <1>2, <2>1, ReadsGo
<1>4. ASSUME NEW r \in RowsOf(User(c)),
             work' = [work EXCEPT ![c].phase = "counting", ![c].row = r, ![c].count = attempt[r].count]
      PROVE  IInv'
  <2>1. /\ r \in AttemptIds /\ attempt[r] # None /\ attempt[r].user = work[c].user
        /\ attempt[r].count \in Nat /\ attempt[r].count <= recorded[work[c].user]
    BY <1>4 DEF RowsOf, User, IInv, AttemptsOK, Attempts
  <2> DEFINE w == [work[c] EXCEPT !.phase = "counting", !.row = r, !.count = attempt[r].count]
  <2>2. work[c] \in Works
    BY WorkOf
  <2>3. /\ w \in Works /\ w.phase = "counting" /\ w.token = work[c].token
        /\ w.user = work[c].user /\ w.row = r /\ w.count = attempt[r].count
    BY <1>2, <2>1, <2>2 DEF Works
  <2>4. Becomes(c, w)
    BY <1>4 DEF Becomes, IInv, WorkOK
  <2> HIDE DEF w
  <2>5. TokenOK(w, session, password) /\ ResetOK(w, reset) /\ CountOK(w, attempt, recorded)
    BY <1>1, <2>1, <2>3, WorkOf DEF TokenOK, ResetOK, CountOK, At
  <2> QED BY <1>1, <2>3, <2>4, <2>5, KeepTables
<1> QED BY <1>3, <1>4 DEF FindAttempt
-------------------------------------------------------------------------------
(* The steps that write sessions and passwords.                            *)

\* One session is written: it stays, with its user, and dead if it was.
LEMMA SessionStep ==
  ASSUME SessionsOK, NEW s \in SessionIds, NEW r \in Sessions, r # None,
         session[s] # None =>
           /\ r.user = session[s].user /\ r.parent = session[s].parent
           /\ session[s].revoked => r.revoked,
         session[s] = None => LET p == r.parent IN
           p # None => p \in Created /\ session[p].revoked /\ session[p].user = r.user,
         session' = [session EXCEPT ![s] = r], password' \in [Users -> Nat]
  PROVE  SessionsOK' /\ SessionsStay
<1>1. session' \in [SessionIds -> Sessions \cup {None}] /\ session'[s] = r
      /\ \A t \in SessionIds : t # s => session'[t] = session[t]
  BY DEF SessionsOK
<1>2. SessionsStay
  BY <1>1 DEF SessionsStay
<1>3. Created \subseteq Created'
  BY <1>2 DEF SessionsStay, Created
<1>4. ASSUME NEW t \in Created'
      PROVE  LET p == session'[t].parent IN
               p # None => p \in Created' /\ session'[p].revoked /\ session'[p].user = session'[t].user
  <2> DEFINE p == session'[t].parent
  <2>1. SUFFICES ASSUME p # None
        PROVE  p \in Created' /\ session'[p].revoked /\ session'[p].user = session'[t].user
    OBVIOUS
  <2>2. p \in Created /\ session[p].revoked /\ session[p].user = session'[t].user
    <3>1. CASE t # s
      BY <1>1, <2>1, <3>1 DEF SessionsOK, Created
    <3>2. CASE t = s /\ session[s] # None
      BY <1>1, <2>1, <3>2 DEF SessionsOK, Created
    <3>3. CASE t = s /\ session[s] = None
      BY <1>1, <2>1, <3>3
    <3> QED BY <3>1, <3>2, <3>3
  <2> HIDE DEF p
  <2>3. p \in SessionIds /\ session[p] # None
    BY <2>2 DEF Created
  <2> QED BY <1>2, <1>3, <2>2, <2>3 DEF SessionsStay
<1> QED BY <1>1, <1>2, <1>4 DEF SessionsOK

LEMMA RevokeStep ==
  ASSUME IInv, NEW s \in Created, Revoke(s), password' = password
  PROVE  SessionsOK' /\ SessionsStay /\ session'[s].revoked
<1>1. s \in SessionIds /\ session[s] \in Sessions
  BY DEF Created, IInv, SessionsOK
<1> DEFINE r == [session[s] EXCEPT !.revoked = TRUE]
<1>2. r \in Sessions /\ r.user = session[s].user /\ r.parent = session[s].parent /\ r.revoked
  BY <1>1 DEF Sessions
<1>3. session' = [session EXCEPT ![s] = r]
  BY <1>1 DEF Revoke, IInv, SessionsOK
<1>4. session[s] # None /\ SessionsOK /\ password' \in [Users -> Nat] /\ r # None
  BY <1>1, <1>2 DEF IInv, SessionsOK
<1>5. session'[s] = r
  BY <1>1, <1>3 DEF IInv, SessionsOK
<1> HIDE DEF r
<1> QED BY <1>1, <1>2, <1>3, <1>4, <1>5, SessionStep

\* A password is written, and no session.
LEMMA PasswordStep ==
  ASSUME IInv, session' = session, password' \in [Users -> Nat]
  PROVE  SessionsOK' /\ SessionsStay
BY DEF IInv, SessionsOK, SessionsStay, Created

LEMMA CreateSessionKeeps ==
  ASSUME IInv, NEW c \in Callers, CreateSession(c)
  PROVE  IInv'
<1>1. PICK s \in SessionIds \ Created :
        session' = [session EXCEPT ![s] =
          [user |-> User(c), parent |-> Token(c), revoked |-> FALSE, expired |-> FALSE,
           made |-> password[User(c)]]]
  BY DEF CreateSession
<1>2. /\ At(c, "creating") /\ End(c) /\ password' = password
      /\ UNCHANGED <<reset, attempt, recorded>> /\ BoundsOK'
  BY DEF CreateSession, IInv, BoundsOK
<1> DEFINE r == [user |-> User(c), parent |-> Token(c), revoked |-> FALSE, expired |-> FALSE,
                 made |-> password[User(c)]]
<1>3. \/ Token(c) = None
      \/ /\ Token(c) \in Created /\ session[Token(c)].revoked
         /\ session[Token(c)].user = User(c)
  BY <1>2, WorkOf DEF TokenOK, At, Token, User, Created
<1>4. User(c) \in Users /\ password[User(c)] \in Nat
  BY WorkOf DEF User, Works, IInv, SessionsOK
<1>5. r \in Sessions /\ r.parent = Token(c) /\ r.user = User(c)
  BY <1>3, <1>4 DEF Sessions, Created
<1>6. session[s] = None /\ r # None /\ SessionsOK /\ password' \in [Users -> Nat]
  BY <1>2, <1>5 DEF Created, IInv, SessionsOK
<1>7. session' = [session EXCEPT ![s] = r]
  BY <1>1
<1> HIDE DEF r
<1>8. SessionsOK' /\ SessionsStay
  BY <1>3, <1>5, <1>6, <1>7, SessionStep
<1> QED BY <1>2, <1>8, ThroughOK, WritesSessions

LEMMA SpendKeeps ==
  ASSUME IInv, NEW c \in Callers, Spend(c)
  PROVE  IInv'
<1>1. /\ At(c, "spending") /\ Revoke(Token(c)) /\ Go(c, "creating") /\ password' = password
      /\ UNCHANGED <<reset, attempt, recorded>> /\ BoundsOK'
  BY DEF Spend, IInv, BoundsOK
<1>2. PICK s \in Created : s = Token(c) /\ session[s].user = User(c) /\ s \in SessionIds
  BY <1>1, WorkOf DEF TokenOK, At, Token, User, Created
<1>3. SessionsOK' /\ SessionsStay /\ session'[s].revoked
  BY <1>1, <1>2, RevokeStep
<1> DEFINE w == Next1(c, "creating", s)
<1>4. "creating" \in Phases
  BY DEF Phases
<1>5. /\ Becomes(c, w) /\ w \in Works /\ w.phase = "creating" /\ w.token = s /\ w.user = User(c)
      /\ CountOK(w, attempt, recorded)
  <2>1. s \in SessionIds \cup ResetIds \cup {None} /\ Go(c, "creating") /\ s = Token(c)
    BY <1>1, <1>2
  <2>2. CountOK(work[c], attempt, recorded)
    BY WorkOf
  <2>3. Becomes(c, w)
    BY <1>4, <2>1, Next1OK
  <2>4. CountOK(w, attempt, recorded)
    BY <2>2, Next1Count
  <2>5. w \in Works /\ w.phase = "creating" /\ w.token = s /\ w.user = User(c)
    BY <1>4, <2>1, WorkOf DEF Next1, Works, User
  <2> QED BY <2>3, <2>4, <2>5
<1> HIDE DEF w
<1>6. session'[s] # None /\ session'[s].user = User(c)
  BY <1>2, <1>3 DEF SessionsStay, Created
<1>7. TokenOK(w, session', password') /\ ResetOK(w, reset)
  BY <1>2, <1>3, <1>5, <1>6 DEF TokenOK, ResetOK
<1> QED BY <1>1, <1>3, <1>5, <1>7, WritesSessions

LEMMA EndSessionKeeps ==
  ASSUME IInv, NEW c \in Callers, EndSession(c)
  PROVE  IInv'
<1>1. /\ At(c, "ending") /\ Revoke(Token(c)) /\ End(c) /\ password' = password
      /\ UNCHANGED <<reset, attempt, recorded>> /\ BoundsOK'
  BY DEF EndSession, IInv, BoundsOK
<1>2. PICK s \in Created : s = Token(c)
  BY <1>1, WorkOf DEF TokenOK, At, Token, Created
<1>3. SessionsOK' /\ SessionsStay
  BY <1>1, <1>2, RevokeStep
<1> QED BY <1>1, <1>3, ThroughOK, WritesSessions
LEMMA InsertUserKeeps ==
  ASSUME IInv, NEW c \in Callers, InsertUser(c)
  PROVE  IInv'
<1>1. /\ At(c, "registering") /\ session' = session /\ UNCHANGED <<reset, attempt, recorded>>
      /\ BoundsOK'
  BY DEF InsertUser, IInv, BoundsOK
<1>2. CASE password[User(c)] = 0
  <2>1. password' \in [Users -> Nat] /\ Go(c, "creating")
    BY <1>2 DEF InsertUser, IInv, SessionsOK
  <2>2. SessionsOK' /\ SessionsStay
    BY <1>1, <2>1, PasswordStep
  <2>3. Token(c) = None /\ "creating" \in Phases
    BY <1>1, WorkOf DEF TokenOK, At, Token, Phases
  <2> DEFINE w == Next1(c, "creating", None)
  <2>4. Becomes(c, w)
    BY <2>1, <2>3, Next1OK
  <2>5. w \in Works /\ w.phase = "creating" /\ w.token = None
    BY <2>3, WorkOf DEF Next1, Works
  <2>6. CountOK(w, attempt, recorded)
    BY WorkOf, Next1Count
  <2> HIDE DEF w
  <2>7. TokenOK(w, session', password') /\ ResetOK(w, reset)
    BY <2>5 DEF TokenOK, ResetOK
  <2> QED BY <1>1, <2>2, <2>4, <2>5, <2>6, <2>7, WritesSessions
<1>3. CASE password[User(c)] # 0
  <2>1. End(c) /\ UNCHANGED tables
    BY <1>1, <1>3 DEF InsertUser, tables
  <2> QED BY <1>1, <2>1, EndKeeps
<1> QED BY <1>2, <1>3

LEMMA UpdatePasswordKeeps ==
  ASSUME IInv, NEW c \in Callers, UpdatePassword(c)
  PROVE  IInv'
<1>1. /\ At(c, "changing") /\ session' = session /\ UNCHANGED <<reset, attempt, recorded>>
      /\ BoundsOK' /\ Go(c, "marking") /\ password' \in [Users -> Nat]
  <2>1. password \in [Users -> Nat] /\ User(c) \in Users
    BY WorkOf DEF User, Works, IInv, SessionsOK
  <2> QED BY <2>1 DEF UpdatePassword, IInv, BoundsOK
<1>2. SessionsOK' /\ SessionsStay
  BY <1>1, PasswordStep
<1>3. PICK token \in SessionIds \cup ResetIds \cup {None} : token = Token(c)
  BY WorkOf DEF Token, Works
<1>4. "marking" \in Phases
  BY DEF Phases
<1> DEFINE w == Next1(c, "marking", token)
<1>5. Becomes(c, w)
  BY <1>1, <1>3, <1>4, Next1OK
<1>6. w \in Works /\ w.phase = "marking" /\ w.token = token
  BY <1>4, WorkOf DEF Next1, Works
<1>7. CountOK(w, attempt, recorded)
  BY WorkOf, Next1Count
<1> HIDE DEF w
<1>8. TokenOK(w, session', password') /\ ResetOK(w, reset)
  BY <1>1, <1>3, <1>6, WorkOf DEF TokenOK, ResetOK, At, Token
<1> QED BY <1>1, <1>2, <1>5, <1>6, <1>7, <1>8, WritesSessions

\* Every session but one of a user is revoked.
LEMMA RevokeAllStep ==
  ASSUME IInv, NEW u, NEW kept, RevokeAllBut(u, kept), password' = password
  PROVE  SessionsOK' /\ SessionsStay
<1>1. ASSUME NEW s \in SessionIds
      PROVE  /\ session'[s] = None <=> session[s] = None
             /\ session[s] # None =>
                  /\ session'[s] \in Sessions /\ session'[s].user = session[s].user
                  /\ session'[s].parent = session[s].parent
                  /\ session[s].revoked => session'[s].revoked
  <2>1. CASE session[s] = None
    BY <2>1 DEF RevokeAllBut, Created
  <2>2. CASE session[s] # None
    <3>1. session[s] \in Sessions
      BY <2>2 DEF IInv, SessionsOK
    <3>2. session'[s] \in {session[s], [session[s] EXCEPT !.revoked = TRUE]}
      BY DEF RevokeAllBut
    <3>3. /\ session'[s] \in Sessions /\ session'[s].user = session[s].user
          /\ session'[s].parent = session[s].parent
          /\ session[s].revoked => session'[s].revoked
      BY <3>1, <3>2 DEF Sessions
    <3> QED BY <2>2, <3>3
  <2> QED BY <2>1, <2>2
<1>2. session' \in [SessionIds -> Sessions \cup {None}]
  <2>1. \A s \in SessionIds : session'[s] \in Sessions \cup {None}
    BY <1>1
  <2>2. session' = [s \in SessionIds |-> session'[s]]
    BY DEF RevokeAllBut
  <2> QED BY <2>1, <2>2
<1>3. SessionsStay /\ Created' = Created
  BY <1>1 DEF SessionsStay, Created
<1>4. ASSUME NEW s \in Created'
      PROVE  LET p == session'[s].parent IN
               p # None => p \in Created' /\ session'[p].revoked /\ session'[p].user = session'[s].user
  <2>1. s \in Created /\ s \in SessionIds
    BY <1>3 DEF Created
  <2> DEFINE p == session[s].parent
  <2>2. session'[s].parent = p /\ session'[s].user = session[s].user
    BY <1>1, <2>1 DEF Created
  <2>3. p # None => p \in Created /\ session[p].revoked /\ session[p].user = session[s].user
    BY <2>1 DEF IInv, SessionsOK
  <2> HIDE DEF p
  <2>4. p # None => p \in SessionIds /\ session[p] # None
    BY <2>3 DEF Created
  <2> QED BY <1>3, <2>2, <2>3, <2>4 DEF SessionsStay
<1> QED BY <1>2, <1>3, <1>4 DEF SessionsOK, IInv

LEMMA RevokeAllKeeps ==
  ASSUME IInv, NEW c \in Callers, RevokeAll(c)
  PROVE  IInv'
<1>1. /\ RevokeAllBut(User(c), Token(c)) /\ End(c) /\ password' = password
      /\ UNCHANGED <<reset, attempt, recorded>> /\ BoundsOK'
  BY DEF RevokeAll, IInv, BoundsOK
<1>2. SessionsOK' /\ SessionsStay
  BY <1>1, RevokeAllStep
<1> QED BY <1>1, <1>2, ThroughOK, WritesSessions

-------------------------------------------------------------------------------
(* The steps that write resets and attempts.                               *)

LEMMA WritesResets ==
  ASSUME IInv, NEW c \in Callers, NEW w \in Works, Becomes(c, w), ResetsOK', ResetsStay,
         UNCHANGED <<password, session, attempt, recorded>>, BoundsOK',
         TokenOK(w, session, password), ResetOK(w, reset'), CountOK(w, attempt, recorded)
  PROVE  IInv'
<1>1. SessionsStay /\ \A d \in Callers : CountOK(work[d], attempt', recorded')
  BY DEF SessionsStay, IInv, WorkOK
<1>2. WorkOK'
  BY <1>1, WorkStep DEF IInv
<1> QED BY <1>2 DEF IInv, SessionsOK, Created, AttemptsOK

LEMMA CreateResetKeeps ==
  ASSUME IInv, NEW c \in Callers, CreateReset(c)
  PROVE  IInv'
<1>1. PICK r \in ResetIds : /\ reset[r] = None
        /\ reset' = [reset EXCEPT ![r] = [user |-> User(c), used |-> FALSE, age |-> "recent"]]
  BY DEF CreateReset
<1>2. [user |-> User(c), used |-> FALSE, age |-> "recent"] \in Resets
  BY WorkOf DEF User, Works, Resets
<1>3. ResetsOK' /\ ResetsStay
  BY <1>1, <1>2 DEF ResetsOK, ResetsStay, IInv
<1>4. End(c) /\ UNCHANGED <<password, session, attempt, recorded>> /\ BoundsOK'
  BY DEF CreateReset, IInv, BoundsOK
<1> QED BY <1>3, <1>4, ThroughOK, WritesResets

LEMMA MarkUsedKeeps ==
  ASSUME IInv, NEW c \in Callers, MarkUsed(c)
  PROVE  IInv'
<1>1. PICK r \in ResetIds : r = Token(c) /\ reset[r] # None
  BY WorkOf DEF MarkUsed, At, ResetOK, Token
<1>2. reset[r] \in Resets /\ [reset[r] EXCEPT !.used = TRUE] \in Resets
  BY <1>1 DEF IInv, ResetsOK, Resets
<1>3. reset' = [reset EXCEPT ![r] = [reset[r] EXCEPT !.used = TRUE]]
  BY <1>1 DEF MarkUsed, IInv, ResetsOK
<1>4. ResetsOK' /\ ResetsStay
  BY <1>2, <1>3 DEF ResetsOK, ResetsStay, IInv
<1>5. UNCHANGED <<password, session, attempt, recorded>> /\ BoundsOK'
  BY DEF MarkUsed, IInv, BoundsOK
<1> DEFINE w == Next1(c, "revoking", None)
<1>6. Becomes(c, w)
  <2>1. "revoking" \in Phases /\ work' = [work EXCEPT ![c].phase = "revoking", ![c].token = None]
    BY DEF MarkUsed, Phases
  <2> QED BY <2>1, Next1OK
<1>7. w \in Works /\ w.phase = "revoking" /\ w.token = None
  BY WorkOf DEF Next1, Works, Phases
<1>8. CountOK(w, attempt, recorded)
  BY WorkOf, Next1Count
<1> HIDE DEF w
<1>9. TokenOK(w, session, password) /\ ResetOK(w, reset')
  BY <1>7 DEF TokenOK, ResetOK
<1> QED BY <1>4, <1>5, <1>6, <1>7, <1>8, <1>9, WritesResets

LEMMA WritesAttempts ==
  ASSUME IInv, NEW c \in Callers, NEW w \in Works, Becomes(c, w), AttemptsOK',
         \A d \in Callers : CountOK(work[d], attempt', recorded'),
         UNCHANGED <<password, session, reset>>, BoundsOK',
         TokenOK(w, session, password), ResetOK(w, reset), CountOK(w, attempt', recorded')
  PROVE  IInv'
<1>1. SessionsStay /\ ResetsStay
  BY DEF SessionsStay, ResetsStay
<1>2. WorkOK'
  BY <1>1, WorkStep DEF IInv
<1> QED BY <1>2 DEF IInv, SessionsOK, Created, ResetsOK

\* Rows are deleted, and with them those that count more than is recorded now.
LEMMA DeleteStep ==
  ASSUME IInv, NEW rows, Delete(rows), recorded' \in [Users -> Nat],
         \A u \in Users : recorded'[u] = recorded[u] \/ RowsOf(u) \subseteq rows
  PROVE  AttemptsOK' /\ \A d \in Callers : CountOK(work[d], attempt', recorded')
<1>1. ASSUME NEW r \in AttemptIds, attempt'[r] # None
      PROVE  /\ attempt'[r] = attempt[r] /\ attempt[r] \in Attempts
             /\ recorded'[attempt[r].user] = recorded[attempt[r].user]
  <2>1. attempt'[r] = attempt[r] /\ r \notin rows
    BY <1>1 DEF Delete
  <2>2. attempt[r] \in Attempts
    BY <1>1, <2>1 DEF IInv, AttemptsOK
  <2>3. attempt[r].user \in Users /\ r \in RowsOf(attempt[r].user)
    BY <1>1, <2>1, <2>2 DEF RowsOf, Attempts
  <2> QED BY <2>1, <2>2, <2>3
<1>2. attempt' \in [AttemptIds -> Attempts \cup {None}]
  <2>1. \A r \in AttemptIds : attempt'[r] \in Attempts \cup {None}
    BY <1>1
  <2>2. attempt' = [r \in AttemptIds |-> attempt'[r]]
    BY DEF Delete
  <2> QED BY <2>1, <2>2
<1>3. AttemptsOK'
  BY <1>1, <1>2 DEF IInv, AttemptsOK
<1>4. ASSUME NEW d \in Callers PROVE CountOK(work[d], attempt', recorded')
  <2>1. work[d].row \in AttemptIds \cup {None} /\ CountOK(work[d], attempt, recorded)
    BY WorkOf DEF Works
  <2> QED BY <1>1, <2>1 DEF CountOK
<1> QED BY <1>3, <1>4

LEMMA IsBlockedKeeps ==
  ASSUME IInv, NEW c \in Callers, IsBlocked(c)
  PROVE  IInv'
<1>1. At(c, "blocking") /\ UNCHANGED <<password, session, reset, recorded>> /\ BoundsOK'
  BY DEF IsBlocked, IInv, BoundsOK
<1>2. CASE End(c) /\ UNCHANGED attempt
  BY <1>1, <1>2, EndKeeps DEF tables
<1>3. CASE /\ Go(c, "comparing")
           /\ Delete({r \in RowsOf(User(c)) : attempt[r].blocked = "over"})
  <2>1. AttemptsOK' /\ \A d \in Callers : CountOK(work[d], attempt', recorded')
    <3>1. recorded' \in [Users -> Nat] /\ recorded' = recorded
      BY <1>1 DEF IInv, AttemptsOK
    <3> QED BY <1>3, <3>1, DeleteStep
  <2>2. Token(c) = None /\ "comparing" \in Phases
    BY <1>1, WorkOf DEF TokenOK, At, Token, Phases
  <2> DEFINE w == Next1(c, "comparing", None)
  <2>3. Becomes(c, w)
    BY <1>3, <2>2, Next1OK
  <2>4. w \in Works /\ w.phase = "comparing" /\ w.token = None
    BY <2>2, WorkOf DEF Next1, Works
  <2>5. CountOK(w, attempt', recorded')
    BY <2>1, Next1Count
  <2> HIDE DEF w
  <2>6. TokenOK(w, session, password) /\ ResetOK(w, reset)
    BY <2>4 DEF TokenOK, ResetOK
  <2> QED BY <1>1, <2>1, <2>3, <2>4, <2>5, <2>6, WritesAttempts
<1> QED BY <1>2, <1>3 DEF IsBlocked

LEMMA ClearAttemptsKeeps ==
  ASSUME IInv, NEW c \in Callers, ClearAttempts(c)
  PROVE  IInv'
<1>1. /\ At(c, "clearing") /\ UNCHANGED <<password, session, reset>> /\ BoundsOK'
      /\ Delete(RowsOf(User(c))) /\ Go(c, "creating")
  BY DEF ClearAttempts, IInv, BoundsOK
<1>2. /\ recorded' \in [Users -> Nat]
      /\ \A u \in Users : recorded'[u] = recorded[u] \/ u = User(c)
  BY DEF ClearAttempts, IInv, AttemptsOK
<1>3. AttemptsOK' /\ \A d \in Callers : CountOK(work[d], attempt', recorded')
  BY <1>1, <1>2, DeleteStep
<1>4. Token(c) = None /\ "creating" \in Phases
  BY <1>1, WorkOf DEF TokenOK, At, Token, Phases
<1> DEFINE w == Next1(c, "creating", None)
<1>5. Becomes(c, w)
  BY <1>1, <1>4, Next1OK
<1>6. w \in Works /\ w.phase = "creating" /\ w.token = None
  BY <1>4, WorkOf DEF Next1, Works
<1>7. CountOK(w, attempt', recorded')
  BY <1>3, Next1Count
<1> HIDE DEF w
<1>8. TokenOK(w, session, password) /\ ResetOK(w, reset)
  BY <1>6 DEF TokenOK, ResetOK
<1> QED BY <1>1, <1>3, <1>5, <1>6, <1>7, <1>8, WritesAttempts
\* A failed login of u is written in row r.
Writes(r, row, u) ==
  attempt' = [attempt EXCEPT ![r] = row] /\ recorded' = [recorded EXCEPT ![u] = @ + 1]

LEMMA WriteAttemptKeeps ==
  ASSUME IInv, NEW c \in Callers, WriteAttempt(c)
  PROVE  IInv'
<1> DEFINE count == work[c].count + 1
<1>1. UNCHANGED <<password, session, reset>> /\ BoundsOK' /\ End(c)
  BY DEF WriteAttempt, IInv, BoundsOK
<1>2. PICK u \in Users : u = User(c)
  BY WorkOf DEF User, Works
<1>3. recorded[u] \in Nat /\ count \in Nat
  BY WorkOf DEF Works, IInv, AttemptsOK
<1>4. ASSUME NEW d \in Callers
      PROVE  work[d].row \in AttemptIds \cup {None} /\ work[d].user \in Users /\ work[d].count \in Nat
             /\ CountOK(work[d], attempt, recorded)
  BY WorkOf DEF Works
<1>5. SUFFICES AttemptsOK' /\ \A d \in Callers : CountOK(work[d], attempt', recorded')
  BY <1>1, ThroughOK, WritesAttempts
<1>6. ASSUME NEW r \in AttemptIds, NEW row \in Attempts,
             Writes(r, row, u), row.user = u, row.count <= recorded[u] + 1,
             row.blocked = "yes" => row.count >= MaxAttempts,
             \/ attempt[r] # None /\ attempt[r].user = u
             \/ \A d \in Callers : work[d].row # r
      PROVE  AttemptsOK' /\ \A d \in Callers : CountOK(work[d], attempt', recorded')
  <2>1. /\ attempt' \in [AttemptIds -> Attempts \cup {None}] /\ attempt'[r] = row
        /\ \A q \in AttemptIds : q # r => attempt'[q] = attempt[q]
        /\ recorded' \in [Users -> Nat] /\ recorded'[u] = recorded[u] + 1
        /\ \A v \in Users : v # u => recorded'[v] = recorded[v]
    BY <1>6, <1>3 DEF Writes, IInv, AttemptsOK
  <2>2. \A v \in Users : recorded[v] \in Nat /\ recorded'[v] \in Nat /\ recorded[v] <= recorded'[v]
    BY <2>1, <1>3 DEF IInv, AttemptsOK
  <2>3. ASSUME NEW q \in AttemptIds, attempt'[q] # None
        PROVE  /\ attempt'[q].count <= recorded'[attempt'[q].user]
               /\ attempt'[q].blocked = "yes" => attempt'[q].count >= MaxAttempts
    <3>1. CASE q = r
      BY <1>6, <2>1, <3>1
    <3>2. CASE q # r
      <4>1. attempt[q] # None /\ attempt'[q] = attempt[q] /\ attempt[q] \in Attempts
        BY <2>1, <2>3, <3>2 DEF IInv, AttemptsOK
      <4>2. /\ attempt[q].count <= recorded[attempt[q].user]
            /\ attempt[q].blocked = "yes" => attempt[q].count >= MaxAttempts
        BY <4>1 DEF IInv, AttemptsOK
      <4>3. attempt[q].user \in Users /\ attempt[q].count \in Nat
        BY <4>1 DEF Attempts
      <4> QED BY <2>2, <4>1, <4>2, <4>3
    <3> QED BY <3>1, <3>2
  <2>4. ASSUME NEW d \in Callers, work[d].row # None, attempt'[work[d].row] # None
        PROVE  /\ attempt'[work[d].row].user = work[d].user
               /\ work[d].count <= recorded'[work[d].user]
    <3>1. attempt[work[d].row] # None /\ attempt'[work[d].row].user = attempt[work[d].row].user
      BY <1>4, <1>6, <2>1, <2>4
    <3>2. attempt[work[d].row].user = work[d].user /\ work[d].count <= recorded[work[d].user]
      BY <1>4, <2>4, <3>1 DEF CountOK
    <3> QED BY <1>4, <2>2, <3>1, <3>2
  <2> QED BY <2>1, <2>3, <2>4 DEF AttemptsOK, CountOK
<1>7. CASE /\ work[c].row # None /\ attempt[work[c].row] # None
           /\ attempt' = [attempt EXCEPT
                ![work[c].row].count = count,
                ![work[c].row].blocked = IF count >= MaxAttempts THEN "yes" ELSE "no"]
           /\ recorded' = [recorded EXCEPT ![User(c)] = @ + 1]
  <2>1. PICK r \in AttemptIds : r = work[c].row /\ attempt[r] # None /\ attempt[r] \in Attempts
    BY <1>4, <1>7 DEF IInv, AttemptsOK
  <2>2. attempt[r].user = u /\ count <= recorded[u] + 1
    BY <1>2, <1>3, <1>4, <1>7, <2>1 DEF CountOK, User
  <2>3. PICK blocked \in {"yes", "no"} :
          /\ blocked = IF count >= MaxAttempts THEN "yes" ELSE "no"
          /\ blocked = "yes" => count >= MaxAttempts
    OBVIOUS
  <2> DEFINE row == [attempt[r] EXCEPT !.count = count, !.blocked = blocked]
  <2>4. /\ row \in Attempts /\ row.user = u /\ row.count = count /\ row.blocked = blocked
    BY <1>3, <2>1, <2>2 DEF Attempts
  <2>5. Writes(r, row, u)
    BY <1>2, <1>7, <2>1, <2>3 DEF Writes, IInv, AttemptsOK
  <2> HIDE DEF row, count
  <2> QED BY <1>6, <2>1, <2>2, <2>3, <2>4, <2>5
<1>8. CASE UNCHANGED <<attempt, recorded>>
  BY <1>4, <1>8 DEF IInv, AttemptsOK
<1>9. ASSUME NEW r \in AttemptIds, attempt[r] = None, \A d \in Callers : work[d].row # r,
             attempt' = [attempt EXCEPT ![r] =
                           [user |-> u, count |-> 1, blocked |-> "no", young |-> TRUE]],
             recorded' = [recorded EXCEPT ![u] = @ + 1]
      PROVE  AttemptsOK' /\ \A d \in Callers : CountOK(work[d], attempt', recorded')
  <2> DEFINE row == [user |-> u, count |-> 1, blocked |-> "no", young |-> TRUE]
  <2>1. row \in Attempts /\ row.user = u /\ row.count = 1 /\ row.blocked = "no"
    BY DEF Attempts
  <2>2. Writes(r, row, u)
    BY <1>9 DEF Writes
  <2>3. row.count <= recorded[u] + 1 /\ row.blocked # "yes"
    BY <1>3, <2>1
  <2> HIDE DEF row
  <2> QED BY <1>6, <1>9, <2>1, <2>2, <2>3
<1>10. \/ work[c].row # None /\ attempt[work[c].row] # None
             /\ attempt' = [attempt EXCEPT
                  ![work[c].row].count = count,
                  ![work[c].row].blocked = IF count >= MaxAttempts THEN "yes" ELSE "no"]
             /\ recorded' = [recorded EXCEPT ![User(c)] = @ + 1]
       \/ UNCHANGED <<attempt, recorded>>
       \/ \E r \in AttemptIds :
            /\ attempt[r] = None /\ \A d \in Callers : work[d].row # r
            /\ attempt' = [attempt EXCEPT ![r] =
                            [user |-> User(c), count |-> 1, blocked |-> "no", young |-> TRUE]]
            /\ recorded' = [recorded EXCEPT ![User(c)] = @ + 1]
  BY DEF WriteAttempt
<1> QED BY <1>2, <1>7, <1>8, <1>9, <1>10
\* A request that fails, or whose process dies.
LEMMA FailKeeps ==
  ASSUME IInv, NEW c \in Callers, Fail(c)
  PROVE  IInv'
BY EndKeeps DEF Fail, IInv, BoundsOK

\* Time passes: no request goes on.
LEMMA StayOK ==
  ASSUME IInv, UNCHANGED work, SessionsStay, ResetsStay,
         \A c \in Callers : CountOK(work[c], attempt', recorded')
  PROVE  WorkOK'
<1>1. ASSUME NEW c \in Callers
      PROVE  /\ TokenOK(work[c], session', password') /\ ResetOK(work[c], reset')
             /\ CountOK(work[c], attempt', recorded')
  <2>1. TokenOK(work[c], session, password) /\ ResetOK(work[c], reset)
    BY WorkOf
  <2> QED BY <2>1, TokenStays, ResetStays
<1> QED BY <1>1 DEF WorkOK, IInv

LEMMA ExpireKeeps ==
  ASSUME IInv, Expire
  PROVE  IInv'
<1>1. UNCHANGED <<password, recorded, work>> /\ BoundsOK'
  BY DEF Expire, IInv, BoundsOK
<1>2. UNCHANGED attempt => \A c \in Callers : CountOK(work[c], attempt', recorded')
  BY <1>1 DEF IInv, WorkOK
<1>3. ASSUME NEW s \in Created, session' = [session EXCEPT ![s].expired = TRUE],
             UNCHANGED <<reset, attempt>>
      PROVE  IInv'
  <2>1. s \in SessionIds /\ session[s] \in Sessions /\ session[s] # None
    BY DEF Created, IInv, SessionsOK
  <2> DEFINE r == [session[s] EXCEPT !.expired = TRUE]
  <2>2. /\ r \in Sessions /\ r.user = session[s].user /\ r.parent = session[s].parent
        /\ r.revoked = session[s].revoked
    BY <2>1 DEF Sessions
  <2>3. session' = [session EXCEPT ![s] = r]
    BY <1>3, <2>1 DEF IInv, SessionsOK
  <2>4. SessionsOK /\ password' \in [Users -> Nat] /\ r # None
    BY <1>1, <2>2 DEF IInv, SessionsOK
  <2> HIDE DEF r
  <2>5. SessionsOK' /\ SessionsStay
    BY <2>1, <2>2, <2>3, <2>4, SessionStep
  <2>6. ResetsStay
    BY <1>3 DEF ResetsStay
  <2>7. WorkOK'
    BY <1>1, <1>2, <1>3, <2>5, <2>6, StayOK
  <2> QED BY <1>1, <1>3, <2>5, <2>7 DEF IInv, ResetsOK, AttemptsOK
<1>4. ASSUME NEW r \in ResetIds, reset[r] # None, UNCHANGED <<session, attempt>>,
             reset' = [reset EXCEPT ![r].age = IF @ = "recent" THEN "valid" ELSE "expired"]
      PROVE  IInv'
  <2>1. reset[r] \in Resets
    BY <1>4 DEF IInv, ResetsOK
  <2>2. PICK age \in {"valid", "expired"} : reset' = [reset EXCEPT ![r].age = age]
    BY <1>4 DEF IInv, ResetsOK
  <2>3. [reset[r] EXCEPT !.age = age] \in Resets
    BY <2>1, <2>2 DEF Resets
  <2>4. ResetsOK' /\ ResetsStay
    BY <2>2, <2>3 DEF IInv, ResetsOK, ResetsStay
  <2>5. SessionsStay
    BY <1>4 DEF SessionsStay
  <2>6. WorkOK'
    BY <1>1, <1>2, <1>4, <2>4, <2>5, StayOK
  <2> QED BY <1>1, <1>4, <2>4, <2>6 DEF IInv, SessionsOK, Created, AttemptsOK
<1>5. ASSUME NEW r \in AttemptIds, attempt[r] # None, UNCHANGED <<session, reset>>,
             attempt' = [attempt EXCEPT ![r].young = FALSE,
                                        ![r].blocked = IF @ = "yes" THEN "over" ELSE @]
      PROVE  IInv'
  <2>1. attempt[r] \in Attempts
    BY <1>5 DEF IInv, AttemptsOK
  <2>2. PICK blocked \in {"no", "over"} :
          attempt' = [attempt EXCEPT ![r].young = FALSE, ![r].blocked = blocked]
    <3>1. CASE attempt[r].blocked = "yes"
      BY <1>5, <2>1, <3>1 DEF IInv, AttemptsOK, Attempts
    <3>2. CASE attempt[r].blocked # "yes"
      BY <1>5, <2>1, <3>2 DEF IInv, AttemptsOK, Attempts
    <3> QED BY <3>1, <3>2
  <2> DEFINE row == [attempt[r] EXCEPT !.young = FALSE, !.blocked = blocked]
  <2>3. /\ row \in Attempts /\ row.user = attempt[r].user /\ row.count = attempt[r].count
        /\ row.blocked # "yes"
    BY <2>1, <2>2 DEF Attempts
  <2>4. attempt' = [attempt EXCEPT ![r] = row]
    BY <2>2 DEF IInv, AttemptsOK
  <2> HIDE DEF row
  <2>5. /\ attempt' \in [AttemptIds -> Attempts \cup {None}] /\ attempt'[r] = row
        /\ \A q \in AttemptIds : q # r => attempt'[q] = attempt[q]
    BY <2>3, <2>4 DEF IInv, AttemptsOK
  <2>6. AttemptsOK'
    BY <1>1, <1>5, <2>3, <2>5 DEF IInv, AttemptsOK
  <2>7. ASSUME NEW c \in Callers PROVE CountOK(work[c], attempt', recorded')
    <3>1. CountOK(work[c], attempt, recorded) /\ work[c].row \in AttemptIds \cup {None}
      BY WorkOf DEF Works
    <3> QED BY <1>1, <1>5, <2>3, <2>5, <3>1 DEF CountOK
  <2>8. SessionsStay /\ ResetsStay
    BY <1>5 DEF SessionsStay, ResetsStay
  <2>9. WorkOK'
    BY <1>1, <2>7, <2>8, StayOK
  <2> QED BY <1>1, <1>5, <2>6, <2>9 DEF IInv, SessionsOK, Created, ResetsOK
<1> QED BY <1>3, <1>4, <1>5 DEF Expire

-------------------------------------------------------------------------------
(* The theorems.                                                           *)

LEMMA ContinueKeeps ==
  ASSUME IInv, NEW c \in Callers, Continue(c)
  PROVE  IInv'
BY InsertUserKeeps, IsBlockedKeeps, ReadsKeep, ClearAttemptsKeeps, CreateSessionKeeps,
   FindAttemptKeeps, WriteAttemptKeeps, SpendKeeps, RevokeAllKeeps, EndSessionKeeps,
   CreateResetKeeps, UpdatePasswordKeeps, MarkUsedKeeps DEF Continue

LEMMA NextIInv == IInv /\ [Next]_vars => IInv'
<1> SUFFICES ASSUME IInv, [Next]_vars PROVE IInv'
  OBVIOUS
<1>1. CASE Expire
  BY <1>1, ExpireKeeps
<1>2. ASSUME NEW c \in Callers, Request(c) \/ Continue(c) \/ Fail(c) PROVE IInv'
  BY <1>2, RequestKeeps, ContinueKeeps, FailKeeps
<1>3. CASE UNCHANGED vars
  <2>1. UNCHANGED <<password, session, reset, attempt, recorded, work, requests, failures>>
    BY <1>3 DEF vars, tables
  <2> QED BY <2>1 DEF IInv, SessionsOK, ResetsOK, AttemptsOK, WorkOK, BoundsOK, Created
<1> QED BY <1>1, <1>2, <1>3 DEF Next

LEMMA Invariance == Spec => []IInv
BY InitIInv, NextIInv, PTL DEF Spec

\* The types of the tables and of the requests, and that a request which goes by a token
\* holds the id of a row that exists.
THEOREM AuthTypeCorrect == Spec => []TypeOK
BY Invariance, IInvShows, PTL

\* Rotation: a session that was exchanged for another is revoked, whatever other refreshes,
\* logouts, resets, failures and crashes run between the two statements.
THEOREM AuthExchangedIsDead == Spec => []ExchangedIsDead
BY Invariance, IInvShows, PTL

\* No account is blocked before MaxAttempts failed logins since the last successful one.
THEOREM AuthBlockedIsDeserved == Spec => []BlockedIsDeserved
BY Invariance, IInvShows, PTL
-------------------------------------------------------------------------------
(* That a password change ends what was opened before it.                  *)

\* Nobody opens a session without a password, and before one is set there is none to outlive.
PasswordsSet ==
  /\ \A s \in Created : password[session[s].user] > 0
  /\ \A c \in Callers : work[c].phase \in {"clearing", "creating"} => password[work[c].user] > 0

RInv == IInv /\ PasswordsSet /\ ResetRevokes

\* Sessions only end.
Fewer ==
  \A s \in SessionIds : session'[s] # None =>
    /\ session[s] # None
    /\ session'[s].user = session[s].user /\ session'[s].made = session[s].made
    /\ session[s].revoked => session'[s].revoked
    /\ session[s].expired => session'[s].expired

\* The resets under way of the users with a live session stay under way.
ChangingStays(u) ==
  Changing(u) => Changing(u)' \/ \A s \in SessionIds : session'[s] # None =>
                                    session'[s].user # u \/ session'[s].revoked

LEMMA FewerKeeps ==
  ASSUME RInv, IInv', Fewer, password' = password, failures' = failures,
         \A u \in Users : ChangingStays(u),
         \A c \in Callers : work'[c].phase \in {"clearing", "creating"} =>
           password[work'[c].user] > 0
  PROVE  RInv'
<1>1. \A s \in Created' : s \in Created /\ session'[s].user = session[s].user
  BY DEF Fewer, Created
<1>2. PasswordsSet'
  BY <1>1 DEF RInv, PasswordsSet
<1>3. ASSUME NEW s \in Created', failures' = 0, Live(s)'
      PROVE  session'[s].made = password'[session'[s].user] \/ Changing(session[s].user)'
  <2>1. s \in SessionIds /\ session[s] # None /\ session'[s] # None
    BY <1>1 DEF Created
  <2>2. Live(s)
    BY <1>1, <1>3, <2>1 DEF Live, Fewer
  <2>3. PICK u \in Users : u = session[s].user
    BY <2>1 DEF RInv, IInv, SessionsOK, Sessions
  <2>4. session[s].made = password[u] \/ Changing(u)
    BY <1>1, <1>3, <2>2, <2>3 DEF RInv, ResetRevokes
  <2>5. Changing(u) => Changing(u)'
    BY <1>1, <1>3, <2>1, <2>3 DEF ChangingStays, Live
  <2>6. session'[s].made = session[s].made /\ session'[s].user = u
    BY <2>1, <2>3 DEF Fewer
  <2> QED BY <2>3, <2>4, <2>5, <2>6 DEF Changing, User, At, Token
<1> QED BY <1>2, <1>3 DEF RInv, ResetRevokes

\* What the step of one request means for the others, and for the resets under way.
Undergoes(w) == w.phase = "marking" \/ (w.phase = "revoking" /\ w.token = None)

Steps(c, w) ==
  /\ work'[c] = w /\ \A d \in Callers : d # c => work'[d] = work[d]
  /\ w.user \in Users
  /\ w.phase \in {"clearing", "creating"} => password'[w.user] > 0

LEMMA StepChanges ==
  ASSUME RInv, NEW c \in Callers, NEW w, Steps(c, w),
         Undergoes(work[c]) => Undergoes(w) /\ w.user = work[c].user,
         \A u \in Users : password[u] > 0 => password'[u] > 0
  PROVE  /\ \A u \in Users : ChangingStays(u)
         /\ \A d \in Callers : work'[d].phase \in {"clearing", "creating"} =>
              password'[work'[d].user] > 0
<1>1. ASSUME NEW u \in Users, Changing(u) PROVE Changing(u)'
  <2>1. PICK d \in Callers : work[d].user = u /\ Undergoes(work[d])
    BY <1>1 DEF Changing, Undergoes, At, Token, User
  <2>2. work'[d].user = u /\ Undergoes(work'[d])
    BY <2>1 DEF Steps
  <2> QED BY <2>2 DEF Changing, Undergoes, At, Token, User
<1>2. ASSUME NEW d \in Callers, work'[d].phase \in {"clearing", "creating"}
      PROVE  password'[work'[d].user] > 0
  <2>1. CASE d = c
    BY <1>2, <2>1 DEF Steps
  <2>2. CASE d # c
    <3>1. work'[d] = work[d] /\ work[d].user \in Users
      BY <2>2, WorkOf DEF Steps, RInv, Works
    <3> QED BY <1>2, <3>1 DEF RInv, PasswordsSet
  <2> QED BY <2>1, <2>2
<1> QED BY <1>1, <1>2 DEF ChangingStays

\* A step that leaves sessions and passwords alone.
LEMMA QuietKeeps ==
  ASSUME RInv, IInv', NEW c \in Callers, NEW w, Steps(c, w),
         Undergoes(work[c]) => Undergoes(w) /\ w.user = work[c].user,
         UNCHANGED <<session, password, failures>>
  PROVE  RInv'
<1>1. Fewer
  BY DEF Fewer
<1> QED BY <1>1, StepChanges, FewerKeeps

LEMMA StepsOK ==
  ASSUME RInv, NEW c \in Callers
  PROVE  /\ End(c) => Steps(c, Through(c)) /\ ~Undergoes(Through(c))
         /\ \A phase \in Phases : Go(c, phase) /\ phase \notin {"clearing", "creating"} =>
              Steps(c, [work[c] EXCEPT !.phase = phase])
         /\ \A phase \in Phases : Go(c, phase) /\ password'[work[c].user] > 0 =>
              Steps(c, [work[c] EXCEPT !.phase = phase])
<1>1. work \in [Callers -> Works] /\ work[c] \in Works /\ work[c].user \in Users
  BY WorkOf DEF RInv, IInv, WorkOK, Works
<1>2. End(c) => Steps(c, Through(c)) /\ ~Undergoes(Through(c))
  BY <1>1 DEF End, Steps, Through, Begin, User, Undergoes
<1>3. ASSUME NEW phase \in Phases, Go(c, phase),
             phase \notin {"clearing", "creating"} \/ password'[work[c].user] > 0
      PROVE  Steps(c, [work[c] EXCEPT !.phase = phase])
  BY <1>1, <1>3 DEF Go, Steps, Works
<1> QED BY <1>2, <1>3

LEMMA RequestSteps ==
  ASSUME RInv, IInv', NEW c \in Callers, Request(c)
  PROVE  RInv'
<1>1. ASSUME NEW phase \in {"registering", "blocking", "asking", "exchanging", "leaving",
                            "keeping", "redeeming"},
             NEW u \in Users, NEW token, NEW given, Ask(c, phase, u, token, given)
      PROVE  RInv'
  <2>1. Steps(c, Begin(phase, u, token, given)) /\ ~Undergoes(work[c])
    BY <1>1 DEF Ask, Begin, Steps, At, Undergoes, RInv, IInv, WorkOK
  <2> QED BY <1>1, <2>1, QuietKeeps DEF Ask, tables
<1>2. \A s \in Created : session[s].user \in Users
  BY DEF Created, RInv, IInv, SessionsOK, Sessions
<1>3. \A r \in ResetIds : reset[r] # None => reset[r].user \in Users
  BY DEF RInv, IInv, ResetsOK, Resets
<1>4. ASSUME NEW u \in Users,
             Register(c, u) \/ ForgotPassword(c, u) \/ \E given \in 0..password[u] : Login(c, u, given)
      PROVE  RInv'
  BY <1>1, <1>4 DEF Register, ForgotPassword, Login
<1>5. ASSUME NEW s \in SessionIds, Refresh(c, s) \/ Logout(c, s) \/ LogoutAll(c, s) PROVE RInv'
  BY <1>1, <1>2, <1>5 DEF Refresh, Logout, LogoutAll
<1>6. ASSUME NEW r \in ResetIds, ResetPassword(c, r) PROVE RInv'
  BY <1>1, <1>3, <1>6 DEF ResetPassword
<1> QED BY <1>4, <1>5, <1>6 DEF Request

LEMMA QuietStepsKeep ==
  ASSUME RInv, IInv', NEW c \in Callers,
         \/ IsBlocked(c) \/ Compare(c) \/ ClearAttempts(c) \/ FindAttempt(c) \/ WriteAttempt(c)
         \/ FindSession(c) \/ FindOwn(c) \/ FindKept(c) \/ FindRecent(c) \/ CreateReset(c)
         \/ FindReset(c) \/ MarkUsed(c)
  PROVE  RInv'
<1>1. UNCHANGED <<session, password, failures>>
  BY DEF IsBlocked, Compare, ClearAttempts, FindAttempt, WriteAttempt, FindSession, FindOwn,
         FindKept, FindRecent, CreateReset, FindReset, MarkUsed, tables
<1>2. work \in [Callers -> Works] /\ work[c] \in Works /\ work[c].user \in Users
  BY WorkOf DEF RInv, IInv, WorkOK, Works
<1>3. CASE End(c) /\ ~Undergoes(work[c])
  BY <1>1, <1>3, StepsOK, QuietKeeps
<1>4. ASSUME NEW phase \in Phases, Go(c, phase), ~Undergoes(work[c]),
             phase \notin {"clearing", "creating"} \/ password[work[c].user] > 0
      PROVE  RInv'
  BY <1>1, <1>4, StepsOK, QuietKeeps
<1>5. CASE IsBlocked(c)
  BY <1>3, <1>4, <1>5 DEF IsBlocked, At, Undergoes, Phases
<1>6. CASE Compare(c)
  <2>1. PICK phase \in {"clearing", "recording"} :
          Go(c, phase) /\ (phase = "clearing" => password[work[c].user] > 0)
    BY <1>6 DEF Compare, User
  <2> QED BY <1>4, <1>6, <2>1 DEF Compare, At, Undergoes, Phases
<1>7. CASE ClearAttempts(c)
  <2>1. password[work[c].user] > 0
    BY <1>7 DEF ClearAttempts, At, RInv, PasswordsSet
  <2> QED BY <1>4, <1>7, <2>1 DEF ClearAttempts, At, Undergoes, Phases
<1>8. CASE FindAttempt(c)
  <2>1. CASE Go(c, "counting")
    BY <1>4, <1>8, <2>1 DEF FindAttempt, At, Undergoes, Phases
  <2>2. ASSUME NEW r,
               work' = [work EXCEPT ![c].phase = "counting", ![c].row = r,
                                    ![c].count = attempt[r].count]
        PROVE  RInv'
    <3> DEFINE w == [work[c] EXCEPT !.phase = "counting", !.row = r, !.count = attempt[r].count]
    <3>1. Steps(c, w)
      BY <1>2, <2>2 DEF Steps, Works
    <3>2. ~Undergoes(work[c])
      BY <1>8 DEF FindAttempt, At, Undergoes
    <3> HIDE DEF w
    <3> QED BY <1>1, <3>1, <3>2, QuietKeeps
  <2> QED BY <1>8, <2>1, <2>2 DEF FindAttempt
<1>9. CASE WriteAttempt(c)
  BY <1>3, <1>9 DEF WriteAttempt, At, Undergoes
<1>10. CASE FindSession(c)
  <2>1. CASE Live(Token(c))
    <3>1. Go(c, "spending")
      BY <1>10, <2>1 DEF FindSession, Go
    <3> QED BY <1>4, <1>10, <3>1 DEF FindSession, At, Undergoes, Phases
  <2>2. CASE ~Live(Token(c))
    <3> DEFINE w == [work[c] EXCEPT !.phase = "revoking", !.token = None]
    <3>1. Steps(c, w)
      BY <1>2, <1>10, <2>2 DEF FindSession, Steps, Works
    <3>2. ~Undergoes(work[c])
      BY <1>10 DEF FindSession, At, Undergoes
    <3> HIDE DEF w
    <3> QED BY <1>1, <3>1, <3>2, QuietKeeps
  <2> QED BY <2>1, <2>2
<1>11. CASE FindOwn(c)
  BY <1>3, <1>4, <1>11 DEF FindOwn, At, Undergoes, Phases
<1>12. CASE FindKept(c)
  <2>1. PICK token : token = IF Live(Token(c)) THEN Token(c) ELSE None
    OBVIOUS
  <2> DEFINE w == [work[c] EXCEPT !.phase = "revoking", !.token = token]
  <2>2. work' = [work EXCEPT ![c].phase = "revoking", ![c].token = token]
    BY <1>2, <1>12, <2>1 DEF FindKept, Token, Works
  <2>3. Steps(c, w)
    BY <1>2, <2>2 DEF Steps, Works
  <2>4. ~Undergoes(work[c])
    BY <1>12 DEF FindKept, At, Undergoes
  <2> HIDE DEF w
  <2> QED BY <1>1, <2>3, <2>4, QuietKeeps
<1>13. CASE FindRecent(c)
  BY <1>3, <1>4, <1>13 DEF FindRecent, At, Undergoes, Phases
<1>14. CASE CreateReset(c)
  BY <1>3, <1>14 DEF CreateReset, At, Undergoes
<1>15. CASE FindReset(c)
  BY <1>3, <1>4, <1>15 DEF FindReset, At, Undergoes, Phases
<1>16. CASE MarkUsed(c)
  <2> DEFINE w == [work[c] EXCEPT !.phase = "revoking", !.token = None]
  <2>1. Steps(c, w) /\ w.user = work[c].user /\ Undergoes(w)
    BY <1>2, <1>16 DEF MarkUsed, Steps, Works, Undergoes
  <2> HIDE DEF w
  <2> QED BY <1>1, <2>1, QuietKeeps
<1> QED BY <1>5, <1>6, <1>7, <1>8, <1>9, <1>10, <1>11, <1>12, <1>13, <1>14, <1>15, <1>16

\* The steps that end sessions.
LEMMA EndingStepsKeep ==
  ASSUME RInv, IInv', NEW c \in Callers, Spend(c) \/ EndSession(c) \/ RevokeAll(c)
  PROVE  RInv'
<1>1. UNCHANGED <<password, failures>>
  BY DEF Spend, EndSession, RevokeAll
<1>2. work \in [Callers -> Works] /\ work[c] \in Works /\ work[c].user \in Users
  BY WorkOf DEF RInv, IInv, WorkOK, Works
<1>3. ASSUME NEW s \in Created, Revoke(s) PROVE Fewer
  <2>1. s \in SessionIds /\ session[s] \in Sessions
    BY DEF Created, RInv, IInv, SessionsOK
  <2> QED BY <1>3, <2>1 DEF Revoke, Fewer, RInv, IInv, SessionsOK, Sessions
<1>4. CASE Spend(c)
  <2>1. Token(c) \in Created /\ session[Token(c)].user = work[c].user
    BY <1>4, WorkOf DEF Spend, At, Token, TokenOK, Created, RInv
  <2>2. password[work[c].user] > 0
    BY <2>1 DEF RInv, PasswordsSet
  <2>3. Steps(c, [work[c] EXCEPT !.phase = "creating"]) /\ ~Undergoes(work[c])
    BY <1>1, <1>4, <2>2, StepsOK DEF Spend, Phases, At, Undergoes
  <2>4. Fewer
    BY <1>3, <1>4, <2>1 DEF Spend
  <2> QED BY <1>1, <2>3, <2>4, StepChanges, FewerKeeps
<1>5. CASE EndSession(c)
  <2>1. Token(c) \in Created
    BY <1>5, WorkOf DEF EndSession, At, Token, TokenOK, Created, RInv
  <2>2. Steps(c, Through(c)) /\ ~Undergoes(work[c])
    BY <1>5, StepsOK DEF EndSession, At, Undergoes
  <2>3. Fewer
    BY <1>3, <1>5, <2>1 DEF EndSession
  <2> QED BY <1>1, <2>2, <2>3, StepChanges, FewerKeeps
<1>6. CASE RevokeAll(c)
  <2>1. Steps(c, Through(c)) /\ ~Undergoes(Through(c))
    BY <1>6, StepsOK DEF RevokeAll
  <2>2. ASSUME NEW s \in SessionIds, session'[s] # None
        PROVE  /\ session[s] # None
               /\ session'[s].user = session[s].user /\ session'[s].made = session[s].made
               /\ session[s].revoked => session'[s].revoked
               /\ session[s].expired => session'[s].expired
               /\ session[s].user = work[c].user /\ s # work[c].token => session'[s].revoked
    <3>1. session'[s] = IF s \in Created /\ session[s].user = work[c].user /\ s # work[c].token
                        THEN [session[s] EXCEPT !.revoked = TRUE] ELSE session[s]
      BY <1>6 DEF RevokeAll, RevokeAllBut, User, Token
    <3>2. s \in Created /\ session[s] \in Sessions /\ session[s] # None
      BY <2>2, <3>1 DEF Created, RInv, IInv, SessionsOK
    <3> QED BY <3>1, <3>2 DEF Sessions
  <2>3. Fewer
    BY <2>2 DEF Fewer
  <2>4. ASSUME NEW u \in Users, Changing(u), ~Changing(u)', NEW s \in SessionIds,
               session'[s] # None, session'[s].user = u
        PROVE  session'[s].revoked
    <3>1. PICK d \in Callers : work[d].user = u /\ Undergoes(work[d])
      BY <2>4 DEF Changing, Undergoes, At, Token, User
    <3>2. d = c
      <4>1. CASE d # c
        <5>1. work'[d] = work[d]
          BY <2>1, <4>1 DEF Steps
        <5> QED BY <2>4, <3>1, <5>1 DEF Changing, Undergoes, At, Token, User
      <4> QED BY <4>1
    <3>3. work[c].user = u /\ work[c].token = None
      BY <1>6, <3>1, <3>2 DEF Undergoes, RevokeAll, At
    <3> QED BY <2>2, <2>4, <3>3
  <2>5. \A u \in Users : ChangingStays(u)
    BY <2>4 DEF ChangingStays
  <2>6. \A d \in Callers : work'[d].phase \in {"clearing", "creating"} =>
          password[work'[d].user] > 0
    <3>1. ~(Through(c).phase \in {"clearing", "creating"})
      BY DEF Through, Begin
    <3> QED BY <2>1, <3>1 DEF Steps, RInv, PasswordsSet
  <2> QED BY <1>1, <2>3, <2>5, <2>6, FewerKeeps
<1> QED BY <1>4, <1>5, <1>6

\* The steps that open a session, and that set a password.
LEMMA CreateSessionFollows ==
  ASSUME RInv, IInv', NEW c \in Callers, CreateSession(c)
  PROVE  RInv'
<1>1. work[c].user \in Users /\ password \in [Users -> Nat] /\ password' = password
      /\ failures' = failures /\ password[work[c].user] > 0
  BY WorkOf DEF CreateSession, RInv, IInv, SessionsOK, Works, PasswordsSet, At
<1>2. Steps(c, Through(c)) /\ ~Undergoes(work[c])
  BY StepsOK DEF CreateSession, At, Undergoes
<1>3. /\ \A u \in Users : ChangingStays(u)
      /\ \A d \in Callers : work'[d].phase \in {"clearing", "creating"} =>
           password[work'[d].user] > 0
  BY <1>1, <1>2, StepChanges
<1>4. PICK s, r :
        /\ s \in SessionIds \ Created
        /\ r = [user |-> User(c), parent |-> Token(c), revoked |-> FALSE, expired |-> FALSE,
                made |-> password[User(c)]]
        /\ session' = [session EXCEPT ![s] = r]
  BY DEF CreateSession
<1>5. /\ session'[s] = r /\ r.user = work[c].user /\ r.made = password[work[c].user]
      /\ \A t \in SessionIds : t # s => session'[t] = session[t]
      /\ session[s] = None
  BY <1>4 DEF RInv, IInv, SessionsOK, User, Created
<1>6. PasswordsSet'
  BY <1>1, <1>3, <1>5 DEF PasswordsSet, RInv, Created
<1>7. ASSUME NEW t \in Created', failures' = 0, Live(t)'
      PROVE  session'[t].made = password'[session'[t].user] \/ Changing(session[t].user)'
  <2>1. CASE t = s
    BY <1>1, <1>5, <2>1
  <2>2. CASE t # s
    <3>1. t \in SessionIds /\ session'[t] = session[t] /\ session[t] # None
      BY <1>5, <2>2 DEF Created
    <3>2. Live(t)
      BY <1>7, <3>1 DEF Live, Created
    <3>3. PICK u \in Users : u = session[t].user
      BY <3>1 DEF RInv, IInv, SessionsOK, Sessions
    <3>4. session[t].made = password[u] \/ Changing(u)
      BY <1>1, <1>7, <3>1, <3>2, <3>3 DEF RInv, ResetRevokes, Created
    <3>5. ~Undergoes(Through(c))
      BY StepsOK DEF CreateSession
    <3>6. Changing(u) => Changing(u)'
      <4>1. ASSUME NEW d \in Callers, work[d].user = u, Undergoes(work[d])
            PROVE  work'[d] = work[d]
        BY <1>2, <4>1 DEF Steps
      <4> QED BY <4>1 DEF Changing, Undergoes, At, Token, User
    <3> QED BY <1>1, <3>1, <3>3, <3>4, <3>6 DEF Changing, User, At, Token
  <2> QED BY <2>1, <2>2
<1> QED BY <1>6, <1>7 DEF RInv, ResetRevokes

\* A new password of u: nobody has a session yet, or the resets of u are under way.
LEMMA NewPassword ==
  ASSUME RInv, IInv', NEW c \in Callers, NEW w, Steps(c, w),
         Undergoes(work[c]) => Undergoes(w) /\ w.user = work[c].user,
         password' = [password EXCEPT ![work[c].user] = @ + 1], w.user = work[c].user,
         password[work[c].user] = 0 \/ w.phase = "marking",
         UNCHANGED <<session, failures>>
  PROVE  RInv'
<1>1. work[c].user \in Users /\ password \in [Users -> Nat]
  BY WorkOf DEF RInv, IInv, SessionsOK, Works
<1>2. \A u \in Users : /\ password[u] > 0 => password'[u] > 0
                       /\ u # work[c].user => password'[u] = password[u]
  BY <1>1
<1>3. /\ \A u \in Users : ChangingStays(u)
      /\ \A d \in Callers : work'[d].phase \in {"clearing", "creating"} =>
           password'[work'[d].user] > 0
  BY <1>2, StepChanges
<1>4. \A s \in Created : session[s].user \in Users /\ password[session[s].user] > 0
  BY DEF Created, RInv, IInv, SessionsOK, Sessions, PasswordsSet
<1>5. PasswordsSet'
  BY <1>2, <1>3, <1>4 DEF PasswordsSet, Created
<1>6. ASSUME NEW s \in Created', failures' = 0, Live(s)'
      PROVE  session'[s].made = password'[session'[s].user] \/ Changing(session[s].user)'
  <2>1. s \in Created /\ Live(s) /\ session' = session /\ failures = 0
    BY <1>6 DEF Created, Live
  <2>2. PICK u \in Users : u = session[s].user
    BY <1>4, <2>1
  <2>3. CASE u = work[c].user
    <3>1. w.phase = "marking" /\ work'[c] = w /\ w.user = u
      <4>1. password[u] > 0 /\ password[u] # 0
        BY <1>1, <1>4, <2>1, <2>2
      <4>2. w.phase = "marking" /\ w.user = u
        BY <2>3, <4>1
      <4> QED BY <4>2 DEF Steps
    <3>2. work'[c].user = session'[s].user /\ work'[c].phase = "marking"
      BY <2>1, <2>2, <3>1
    <3>3. Changing(session[s].user)'
      BY <3>2 DEF Changing, User, At
    <3> QED BY <3>3
  <2>4. CASE u # work[c].user
    <3>1. session[s].made = password[u] \/ Changing(u)
      BY <2>1, <2>2 DEF RInv, ResetRevokes
    <3>2. CASE session[s].made = password[u]
      BY <1>2, <2>1, <2>2, <2>4, <3>2
    <3>3. CASE Changing(u)
      <4>1. PICK d \in Callers : work[d].user = u /\ Undergoes(work[d])
        BY <3>3 DEF Changing, Undergoes, At, Token, User
      <4>2. work'[d] = work[d]
        BY <2>4, <4>1 DEF Steps
      <4> QED BY <2>1, <2>2, <4>1, <4>2 DEF Changing, Undergoes, User, At, Token
    <3> QED BY <3>1, <3>2, <3>3
  <2> QED BY <2>3, <2>4
<1> QED BY <1>5, <1>6 DEF RInv, ResetRevokes

LEMMA PasswordStepsKeep ==
  ASSUME RInv, IInv', NEW c \in Callers, InsertUser(c) \/ UpdatePassword(c)
  PROVE  RInv'
<1>1. work[c].user \in Users /\ work[c] \in Works /\ password \in [Users -> Nat]
  BY WorkOf DEF RInv, IInv, SessionsOK, Works
<1>2. CASE InsertUser(c) /\ password[work[c].user] = 0
  <2>1. password' = [password EXCEPT ![work[c].user] = @ + 1] /\ Go(c, "creating")
        /\ UNCHANGED <<session, failures>>
    BY <1>2 DEF InsertUser, User
  <2>2. password'[work[c].user] > 0
    BY <1>1, <2>1
  <2> DEFINE w == [work[c] EXCEPT !.phase = "creating"]
  <2>3. Steps(c, w)
    BY <2>1, <2>2, StepsOK DEF Phases
  <2>4. w.user = work[c].user /\ ~Undergoes(work[c])
    BY <1>1, <1>2 DEF Works, InsertUser, At, Undergoes
  <2> HIDE DEF w
  <2> QED BY <1>2, <2>1, <2>3, <2>4, NewPassword
<1>3. CASE InsertUser(c) /\ password[work[c].user] # 0
  <2>1. Steps(c, Through(c)) /\ ~Undergoes(work[c])
    BY <1>3, StepsOK DEF InsertUser, At, Undergoes, User
  <2> QED BY <1>3, <2>1, QuietKeeps DEF InsertUser, User
<1>4. CASE UpdatePassword(c)
  <2> DEFINE w == [work[c] EXCEPT !.phase = "marking"]
  <2>1. Steps(c, w)
    BY <1>4, StepsOK DEF UpdatePassword, Phases
  <2>2. w.user = work[c].user /\ ~Undergoes(work[c]) /\ w.phase = "marking"
    BY <1>1, <1>4 DEF Works, UpdatePassword, At, Undergoes
  <2> HIDE DEF w
  <2> QED BY <1>4, <2>1, <2>2, NewPassword DEF UpdatePassword, User
<1> QED BY <1>2, <1>3, <1>4

LEMMA ExpireFollows ==
  ASSUME RInv, IInv', Expire
  PROVE  RInv'
<1>1. UNCHANGED <<password, work, failures>>
  BY DEF Expire
<1>2. ASSUME NEW s \in Created, session' = [session EXCEPT ![s].expired = TRUE] PROVE Fewer
  <2>1. s \in SessionIds /\ session[s] \in Sessions
    BY DEF Created, RInv, IInv, SessionsOK
  <2> QED BY <1>2, <2>1 DEF Fewer, RInv, IInv, SessionsOK, Sessions
<1>3. Fewer
  BY <1>2 DEF Expire, Fewer
<1>4. \A u \in Users : ChangingStays(u)
  BY <1>1 DEF ChangingStays, Changing, User, At, Token
<1>5. \A d \in Callers : work'[d].phase \in {"clearing", "creating"} =>
        password[work'[d].user] > 0
  BY <1>1 DEF RInv, PasswordsSet
<1> QED BY <1>1, <1>3, <1>4, <1>5, FewerKeeps

LEMMA FailFollows ==
  ASSUME RInv, IInv', NEW c \in Callers, Fail(c)
  PROVE  RInv'
<1>1. UNCHANGED <<session, password>> /\ failures' # 0 /\ End(c)
  BY DEF Fail, tables, RInv, IInv, BoundsOK
<1>2. Steps(c, Through(c)) /\ ~(Through(c).phase \in {"clearing", "creating"})
  BY <1>1, StepsOK DEF Through, Begin
<1>3. PasswordsSet'
  BY <1>1, <1>2 DEF PasswordsSet, Steps, RInv, Created
<1> QED BY <1>1, <1>3 DEF RInv, ResetRevokes

LEMMA NextRInv == RInv /\ [Next]_vars => RInv'
<1> SUFFICES ASSUME RInv, [Next]_vars PROVE RInv'
  OBVIOUS
<1>1. IInv'
  BY NextIInv DEF RInv
<1>2. CASE Expire
  BY <1>1, <1>2, ExpireFollows
<1>3. ASSUME NEW c \in Callers, Request(c) \/ Continue(c) \/ Fail(c) PROVE RInv'
  BY <1>1, <1>3, RequestSteps, QuietStepsKeep, EndingStepsKeep, CreateSessionFollows,
     PasswordStepsKeep, FailFollows DEF Continue
<1>4. CASE UNCHANGED vars
  <2>1. UNCHANGED <<password, session, work, failures>>
    BY <1>4 DEF vars, tables
  <2> QED BY <1>1, <2>1 DEF RInv, PasswordsSet, ResetRevokes, Created, Live, Changing, User, At,
             Token
<1> QED BY <1>2, <1>3, <1>4 DEF Next

LEMMA InitRInv == Init => RInv
<1> SUFFICES ASSUME Init PROVE RInv
  OBVIOUS
<1>1. PICK u \in Users : work = [c \in Callers |-> Begin("idle", u, None, 0)]
  BY DEF Init
<1>2. Created = {} /\ \A c \in Callers : work[c].phase = "idle"
  BY <1>1 DEF Init, Created, Begin
<1> QED BY <1>2, InitIInv DEF RInv, PasswordsSet, ResetRevokes

\* A reset password ends every session that was opened under an older one, but for those of
\* the resets still under way, as long as no statement fails.
THEOREM AuthResetRevokes == Spec => []ResetRevokes
<1>1. RInv => ResetRevokes
  BY DEF RInv
<1> QED BY <1>1, InitRInv, NextRInv, PTL DEF Spec
===============================================================================
