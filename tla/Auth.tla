---------------------------------- MODULE Auth ----------------------------------
(***************************************************************************)
(* Registration, login, refresh-token rotation, logout and password reset  *)
(* (src/src/auth), the sessions they create and revoke (src/src/sessions), *)
(* and the counting of failed logins                                       *)
(* (src/src/common/security/brute-force.service.ts).                       *)
(*                                                                         *)
(* Every request is a chain of awaited statements, none of them in a       *)
(* transaction:                                                            *)
(*                                                                         *)
(*   register  registering -> creating                                     *)
(*   login     blocking -> comparing -> clearing -> creating               *)
(*                      or -> recording -> counting                        *)
(*   refresh   exchanging -> spending -> creating,  or -> revoking         *)
(*   logout    leaving -> ending                                           *)
(*   logoutAll keeping -> revoking                                         *)
(*   forgot    asking -> issuing                                           *)
(*   reset     redeeming -> changing -> marking -> revoking                *)
(*                                                                         *)
(* A session stands for its refresh token, a password for its version.     *)
(* Times are flags that only ever go one way: a session or a reset token   *)
(* expires, an attempt leaves its window, a block ends.                    *)
(***************************************************************************)
EXTENDS Integers, FiniteSets

CONSTANTS
  Users, SessionIds, ResetIds, AttemptIds, None,
  Callers,       \* concurrent requests
  MaxAttempts,   \* failed logins that block an account (5)
  MaxRequests,   \* bound: requests made
  MaxFailures    \* bound: statements that fail, and processes that crash

Sessions == [user : Users, parent : SessionIds \cup {None}, revoked : BOOLEAN,
             expired : BOOLEAN, made : Nat]
Resets == [user : Users, used : BOOLEAN, age : {"recent", "valid", "expired"}]
Attempts == [user : Users, count : Nat, blocked : {"no", "yes", "over"}, young : BOOLEAN]

ASSUME AuthAssumption ==
  /\ None \notin SessionIds \cup ResetIds \cup AttemptIds
  /\ None \notin Sessions /\ None \notin Resets /\ None \notin Attempts
  /\ MaxAttempts \in Nat /\ MaxAttempts >= 2
  /\ {MaxRequests, MaxFailures} \subseteq Nat

Phases == {"idle", "registering", "blocking", "comparing", "clearing", "creating",
           "recording", "counting", "exchanging", "spending", "revoking", "leaving",
           "ending", "keeping", "asking", "issuing", "redeeming", "changing", "marking"}

VARIABLES
  password,  \* [Users -> Nat]: the version of the password, 0 before registration
  session,   \* [SessionIds -> None or [user, parent, revoked, expired, made]]; parent: the
             \* session it was exchanged for; made: the password when it was created
  reset,     \* [ResetIds -> None or [user, used, age]]
  attempt,   \* [AttemptIds -> None or [user, count, blocked, young]]
  recorded,  \* [Users -> Nat]: failed logins written since the last successful one
  work,      \* [Callers -> [phase, user, token, given, row, count]]
  requests, failures

tables == <<password, session, reset, attempt, recorded>>
vars == <<tables, work, requests, failures>>

At(c, phase) == work[c].phase = phase
User(c) == work[c].user
Token(c) == work[c].token
Begin(phase, u, token, given) ==
  [phase |-> phase, user |-> u, token |-> token, given |-> given, row |-> None, count |-> 0]
Go(c, phase) == work' = [work EXCEPT ![c].phase = phase]
End(c) == work' = [work EXCEPT ![c] = Begin("idle", @.user, None, 0)]

\* A request arrives: it may do so while the bound allows.
Ask(c, phase, u, token, given) ==
  /\ At(c, "idle") /\ requests < MaxRequests
  /\ requests' = requests + 1
  /\ work' = [work EXCEPT ![c] = Begin(phase, u, token, given)]
  /\ UNCHANGED <<tables, failures>>

-------------------------------------------------------------------------------
(* Sessions.                                                               *)

Created == {s \in SessionIds : session[s] # None}
Live(s) == s \in Created /\ ~session[s].revoked /\ ~session[s].expired

\* createSession, the last statement of register, login and refresh.
CreateSession(c) ==
  /\ At(c, "creating")
  /\ \E s \in SessionIds \ Created :
       session' = [session EXCEPT ![s] =
         [user |-> User(c), parent |-> Token(c), revoked |-> FALSE, expired |-> FALSE,
          made |-> password[User(c)]]]
  /\ End(c)
  /\ UNCHANGED <<password, reset, attempt, recorded, requests, failures>>

RevokeAllBut(u, kept) ==
  session' = [s \in SessionIds |->
    IF s \in Created /\ session[s].user = u /\ s # kept
    THEN [session[s] EXCEPT !.revoked = TRUE] ELSE session[s]]

\* revokeAllByUserId: the last statement of a reset, of logoutAll, and of a refresh whose
\* token is not live.
RevokeAll(c) ==
  /\ At(c, "revoking")
  /\ RevokeAllBut(User(c), Token(c))
  /\ End(c)
  /\ UNCHANGED <<password, reset, attempt, recorded, requests, failures>>

Revoke(s) == session' = [session EXCEPT ![s].revoked = TRUE]

-------------------------------------------------------------------------------
(* Register and login.                                                     *)

Register(c, u) == Ask(c, "registering", u, None, 0)

\* The address is unique in the table: of two registrations one is refused.
InsertUser(c) ==
  LET u == User(c) IN
  /\ At(c, "registering")
  /\ IF password[u] = 0
     THEN password' = [password EXCEPT ![u] = 1] /\ Go(c, "creating")
     ELSE End(c) /\ UNCHANGED password
  /\ UNCHANGED <<session, reset, attempt, recorded, requests, failures>>

Login(c, u, given) == given \in 0..password[u] /\ Ask(c, "blocking", u, None, given)

RowsOf(u) == {r \in AttemptIds : attempt[r] # None /\ attempt[r].user = u}

\* Mutant: a success forgets the failures but leaves their rows.
MDeleteNothing(rows) == attempt' = attempt

Delete(rows) == attempt' = [r \in AttemptIds |-> IF r \in rows THEN None ELSE attempt[r]]

\* isBlocked; it also deletes the blocks that are over.
IsBlocked(c) ==
  /\ At(c, "blocking")
  /\ IF \E r \in RowsOf(User(c)) : attempt[r].blocked = "yes"
     THEN End(c) /\ UNCHANGED attempt
     ELSE Go(c, "comparing") /\ Delete({r \in RowsOf(User(c)) : attempt[r].blocked = "over"})
  /\ UNCHANGED <<password, session, reset, recorded, requests, failures>>

Compare(c) ==
  LET right == password[User(c)] > 0 /\ work[c].given = password[User(c)] IN
  /\ At(c, "comparing")
  /\ Go(c, IF right THEN "clearing" ELSE "recording")
  /\ UNCHANGED <<tables, requests, failures>>

\* bruteForce.reset after a right password.
ClearAttempts(c) ==
  /\ At(c, "clearing")
  /\ Delete(RowsOf(User(c)))
  /\ recorded' = [recorded EXCEPT ![User(c)] = 0]
  /\ Go(c, "creating")
  /\ UNCHANGED <<password, session, reset, requests, failures>>

\* recordAttempt reads the open row of the window ...
FindAttempt(c) ==
  LET open == {r \in RowsOf(User(c)) : attempt[r].blocked = "no" /\ attempt[r].young} IN
  /\ At(c, "recording")
  /\ \/ \E r \in open :
          work' = [work EXCEPT ![c].phase = "counting", ![c].row = r, ![c].count = attempt[r].count]
     \/ open = {} /\ Go(c, "counting")
  /\ UNCHANGED <<tables, requests, failures>>

\* ... and writes the number it computed from it, or a new row.  A row deleted meanwhile
\* makes the update fail.
WriteAttempt(c) ==
  LET r == work[c].row  count == work[c].count + 1  u == User(c) IN
  /\ At(c, "counting")
  /\ \/ /\ r # None /\ attempt[r] # None
        /\ attempt' = [attempt EXCEPT ![r].count = count,
                                      ![r].blocked = IF count >= MaxAttempts THEN "yes" ELSE "no"]
        /\ recorded' = [recorded EXCEPT ![u] = @ + 1]
     \/ r # None /\ attempt[r] = None /\ UNCHANGED <<attempt, recorded>>
     \/ /\ r = None
        /\ \E new \in AttemptIds :
             /\ attempt[new] = None /\ \A d \in Callers : work[d].row # new
             /\ attempt' = [attempt EXCEPT ![new] =
                              [user |-> u, count |-> 1, blocked |-> "no", young |-> TRUE]]
        /\ recorded' = [recorded EXCEPT ![u] = @ + 1]
  /\ End(c)
  /\ UNCHANGED <<password, session, reset, requests, failures>>

-------------------------------------------------------------------------------
(* Refresh and logout.                                                     *)

Refresh(c, s) == s \in Created /\ Ask(c, "exchanging", session[s].user, s, 0)

\* A token that is not live but known ends all sessions of its user.
FindSession(c) ==
  /\ At(c, "exchanging")
  /\ work' = [work EXCEPT ![c] = IF Live(Token(c)) THEN [@ EXCEPT !.phase = "spending"]
                                 ELSE [@ EXCEPT !.phase = "revoking", !.token = None]]
  /\ UNCHANGED <<tables, requests, failures>>

\* Mutant: the token stays valid after it was exchanged.
MSpendKeepsToken(c) ==
  /\ At(c, "spending")
  /\ Go(c, "creating")
  /\ UNCHANGED <<tables, requests, failures>>

Spend(c) ==
  /\ At(c, "spending")
  /\ Revoke(Token(c))
  /\ Go(c, "creating")
  /\ UNCHANGED <<password, reset, attempt, recorded, requests, failures>>

\* logout by token, and revokeSession by id: both look for a live session first.
Logout(c, s) == s \in Created /\ Ask(c, "leaving", session[s].user, s, 0)

FindOwn(c) ==
  /\ At(c, "leaving")
  /\ IF Live(Token(c)) THEN Go(c, "ending") ELSE End(c)
  /\ UNCHANGED <<tables, requests, failures>>

EndSession(c) ==
  /\ At(c, "ending")
  /\ Revoke(Token(c))
  /\ End(c)
  /\ UNCHANGED <<password, reset, attempt, recorded, requests, failures>>

\* logoutAll keeps the session of the token it is given, if that is live.
LogoutAll(c, s) == s \in Created /\ Ask(c, "keeping", session[s].user, s, 0)

FindKept(c) ==
  /\ At(c, "keeping")
  /\ work' = [work EXCEPT ![c].phase = "revoking", ![c].token = IF Live(@) THEN @ ELSE None]
  /\ UNCHANGED <<tables, requests, failures>>

-------------------------------------------------------------------------------
(* Password reset.                                                         *)

ForgotPassword(c, u) == password[u] > 0 /\ Ask(c, "asking", u, None, 0)

FindRecent(c) ==
  LET recent == {r \in ResetIds : reset[r] # None /\ reset[r].user = User(c)
                                  /\ reset[r].age = "recent" /\ ~reset[r].used} IN
  /\ At(c, "asking")
  /\ IF recent = {} THEN Go(c, "issuing") ELSE End(c)
  /\ UNCHANGED <<tables, requests, failures>>

CreateReset(c) ==
  /\ At(c, "issuing")
  /\ \E r \in ResetIds :
       /\ reset[r] = None
       /\ reset' = [reset EXCEPT ![r] = [user |-> User(c), used |-> FALSE, age |-> "recent"]]
  /\ End(c)
  /\ UNCHANGED <<password, session, attempt, recorded, requests, failures>>

ResetPassword(c, r) == reset[r] # None /\ Ask(c, "redeeming", reset[r].user, r, 0)

FindReset(c) ==
  LET row == reset[Token(c)] IN
  /\ At(c, "redeeming")
  /\ IF row.used \/ row.age = "expired" THEN End(c) ELSE Go(c, "changing")
  /\ UNCHANGED <<tables, requests, failures>>

\* Mutant: the request ends with the new password.
MUpdatePasswordEnds(c) ==
  /\ At(c, "changing")
  /\ password' = [password EXCEPT ![User(c)] = @ + 1]
  /\ End(c)
  /\ UNCHANGED <<session, reset, attempt, recorded, requests, failures>>

UpdatePassword(c) ==
  /\ At(c, "changing")
  /\ password' = [password EXCEPT ![User(c)] = @ + 1]
  /\ Go(c, "marking")
  /\ UNCHANGED <<session, reset, attempt, recorded, requests, failures>>

\* Mutant: the id of the reset is passed as the session to keep.
MMarkUsedPassesToken(c) ==
  /\ At(c, "marking")
  /\ reset' = [reset EXCEPT ![Token(c)].used = TRUE]
  /\ Go(c, "revoking")
  /\ UNCHANGED <<password, session, attempt, recorded, requests, failures>>

MarkUsed(c) ==
  /\ At(c, "marking")
  /\ reset' = [reset EXCEPT ![Token(c)].used = TRUE]
  /\ work' = [work EXCEPT ![c].phase = "revoking", ![c].token = None]
  /\ UNCHANGED <<password, session, attempt, recorded, requests, failures>>

-------------------------------------------------------------------------------
(* Failures and time.                                                      *)

\* A statement of a request fails, or the process dies in it: what was committed stays.
Fail(c) ==
  /\ ~At(c, "idle") /\ failures < MaxFailures
  /\ failures' = failures + 1
  /\ End(c)
  /\ UNCHANGED <<tables, requests>>

Expire ==
  /\ \/ \E s \in Created :
          session' = [session EXCEPT ![s].expired = TRUE] /\ UNCHANGED <<reset, attempt>>
     \/ \E r \in ResetIds :
          /\ reset[r] # None
          /\ reset' = [reset EXCEPT ![r].age = IF @ = "recent" THEN "valid" ELSE "expired"]
          /\ UNCHANGED <<session, attempt>>
     \/ \E r \in AttemptIds :
          /\ attempt[r] # None
          /\ attempt' = [attempt EXCEPT ![r].young = FALSE,
                                        ![r].blocked = IF @ = "yes" THEN "over" ELSE @]
          /\ UNCHANGED <<session, reset>>
  /\ UNCHANGED <<password, recorded, work, requests, failures>>

-------------------------------------------------------------------------------
Init ==
  /\ password = [u \in Users |-> 0]
  /\ session = [s \in SessionIds |-> None]
  /\ reset = [r \in ResetIds |-> None]
  /\ attempt = [r \in AttemptIds |-> None]
  /\ recorded = [u \in Users |-> 0]
  /\ \E u \in Users : work = [c \in Callers |-> Begin("idle", u, None, 0)]
  /\ requests = 0 /\ failures = 0

Request(c) ==
  \/ \E u \in Users : \/ Register(c, u) \/ ForgotPassword(c, u)
                      \/ \E given \in 0..password[u] : Login(c, u, given)
  \/ \E s \in SessionIds : Refresh(c, s) \/ Logout(c, s) \/ LogoutAll(c, s)
  \/ \E r \in ResetIds : ResetPassword(c, r)

Continue(c) ==
  \/ InsertUser(c) \/ IsBlocked(c) \/ Compare(c) \/ ClearAttempts(c) \/ CreateSession(c)
  \/ FindAttempt(c) \/ WriteAttempt(c)
  \/ FindSession(c) \/ Spend(c) \/ RevokeAll(c)
  \/ FindOwn(c) \/ EndSession(c) \/ FindKept(c)
  \/ FindRecent(c) \/ CreateReset(c) \/ FindReset(c) \/ UpdatePassword(c) \/ MarkUsed(c)

Next == Expire \/ \E c \in Callers : Request(c) \/ Continue(c) \/ Fail(c)

Spec == Init /\ [][Next]_vars

-------------------------------------------------------------------------------
(* Properties.                                                             *)

Works == [phase : Phases, user : Users, token : SessionIds \cup ResetIds \cup {None},
          given : Nat, row : AttemptIds \cup {None}, count : Nat]

\* The types of the variables; a request that goes by a token holds an existing one.
TypeOK ==
  /\ password \in [Users -> Nat] /\ recorded \in [Users -> Nat]
  /\ session \in [SessionIds -> Sessions \cup {None}]
  /\ reset \in [ResetIds -> Resets \cup {None}]
  /\ attempt \in [AttemptIds -> Attempts \cup {None}]
  /\ work \in [Callers -> Works]
  /\ \A c \in Callers :
       /\ work[c].phase \in {"exchanging", "spending", "leaving", "ending", "keeping"}
            => Token(c) \in Created
       /\ work[c].phase \in {"redeeming", "changing", "marking"}
            => Token(c) \in ResetIds /\ reset[Token(c)] # None
       /\ work[c].phase \in {"creating", "revoking"} => Token(c) \in Created \cup {None}
  /\ requests \in Nat /\ failures \in Nat

\* Rotation: once a session has been exchanged for another, its own token is dead, whatever
\* else runs and wherever a refresh stops; and it was exchanged for one of the same user.
ExchangedIsDead ==
  \A s \in Created :
    LET p == session[s].parent IN
    p # None => /\ p \in Created
                /\ session[p].revoked /\ session[p].user = session[s].user

Changing(u) ==
  \E c \in Callers :
    User(c) = u /\ (At(c, "marking") \/ (At(c, "revoking") /\ Token(c) = None))

\* A password change ends what was opened before it: once the resets under way are through,
\* every live session was created after the last change.
ResetRevokes ==
  failures = 0 =>
    \A s \in Created :
      Live(s) => session[s].made = password[session[s].user] \/ Changing(session[s].user)

\* Nobody is locked out too early: an account is blocked only after MaxAttempts failed logins
\* since the last successful one, although the counter is read and written in two steps.
BlockedIsDeserved ==
  \A r \in AttemptIds :
    attempt[r] # None /\ attempt[r].blocked = "yes" => recorded[attempt[r].user] >= MaxAttempts
===============================================================================
