--------------------------- MODULE RefreshTokens ---------------------------
(* The identity service: registration, login, refresh and logout as the      *)
(* database transactions they run in (IdentityService, RefreshTokenService,  *)
(* RefreshTokenRepository).  A request is a thread with one transaction.     *)
(* Postgres runs it at READ COMMITTED: a statement sees committed rows only, *)
(* an UPDATE waits for a transaction that has written the row and then looks *)
(* at the row again, an INSERT waits for a transaction that has inserted the *)
(* same unique key.  What a transaction has written and not committed is in  *)
(* claimed (revoked flags), fresh (the inserted token) and joining (the      *)
(* inserted account); a row is locked while it is in one of them.            *)
EXTENDS Integers, FiniteSets, TokenSessions

CONSTANTS Request,     \* request threads of the service
          Email,       \* normalised e-mail addresses
          NoEmail,
          Lifetime,    \* refresh-expiration-seconds
          MaxClock     \* bound: the last value of the clock

ASSUME RequestAssumption == NoEmail \notin Email
ASSUME ClockAssumption == Lifetime \in Nat \ {0} /\ MaxClock \in Nat

VARIABLES now,         \* the clock of service and database
          accounts,    \* how many rows of identity_accounts carry an e-mail
          owner,       \* account of a stored token
          expiresAt,   \* expires_at of a stored token
          pc,          \* the statement each request is at
          op,          \* the endpoint it serves
          presented,   \* the refresh token it was called with
          email,       \* the account it works for
          clock,       \* the instant it passed to revokeIfActive
          claimed, fresh, until, joining,
          delivered    \* tokens a client has received

requestVars == <<pc, op, presented, email, clock, claimed, fresh, until, joining>>
rowVars == <<accounts, owner, expiresAt>>
vars == <<sessionVars, now, rowVars, requestVars, delivered>>

Endpoint == {"none", "register", "login", "refresh", "logout"}
Statement == {"idle", "exists", "save", "authenticate", "find", "clock", "claim",
              "issue", "findForRevoke", "write", "commit", "reply"}

TypeOK ==
    /\ SessionTypeOK
    /\ now \in 0..MaxClock
    /\ accounts \in [Email -> Nat]
    /\ owner \in [Token -> Email \cup {NoEmail}]
    /\ expiresAt \in [Token -> Nat]
    /\ pc \in [Request -> Statement]
    /\ op \in [Request -> Endpoint]
    /\ presented \in [Request -> Token \cup {NoToken}]
    /\ email \in [Request -> Email \cup {NoEmail}]
    /\ clock \in [Request -> 0..MaxClock]
    /\ claimed \in [Request -> SUBSET Token]
    /\ fresh \in [Request -> Token \cup {NoToken}]
    /\ until \in [Request -> Nat]
    /\ joining \in [Request -> BOOLEAN]
    /\ delivered \in SUBSET Token

Init ==
    /\ SessionInit
    /\ now = 0
    /\ accounts = [e \in Email |-> 0]
    /\ owner = [t \in Token |-> NoEmail]
    /\ expiresAt = [t \in Token |-> 0]
    /\ pc = [r \in Request |-> "idle"]
    /\ op = [r \in Request |-> "none"]
    /\ presented = [r \in Request |-> NoToken]
    /\ email = [r \in Request |-> NoEmail]
    /\ clock = [r \in Request |-> 0]
    /\ claimed = [r \in Request |-> {}]
    /\ fresh = [r \in Request |-> NoToken]
    /\ until = [r \in Request |-> 0]
    /\ joining = [r \in Request |-> FALSE]
    /\ delivered = {}
-----------------------------------------------------------------------------
(* Rows another transaction has written and not yet committed.               *)
Writing(q) == pc[q] \in {"issue", "commit"}

TokenLocked(r, t) == \E q \in Request \ {r} : Writing(q) /\ t \in claimed[q]
EmailLocked(r, e) ==
    \E q \in Request \ {r} : Writing(q) /\ joining[q] /\ email[q] = e

(* SecureRandom never repeats: the drawn value is in no row and no request.  *)
Undrawn == Token \ (stored \cup {fresh[q] : q \in Request})

(* Bound: a request that may need a token starts only while the pool Token   *)
(* has one left for it.                                                      *)
MayIssue == {q \in Request : pc[q] \in {"exists", "save", "authenticate", "find",
                                        "clock", "claim", "issue"}}
PoolHasRoom == Cardinality(Undrawn) > Cardinality(MayIssue)

At(r, s) == pc[r] = s
Goto(r, s) == pc' = [pc EXCEPT ![r] = s]

(* The transaction ends without an effect and the request with an error.     *)
Fail(r) ==
    /\ pc' = [pc EXCEPT ![r] = "idle"]
    /\ op' = [op EXCEPT ![r] = "none"]
    /\ presented' = [presented EXCEPT ![r] = NoToken]
    /\ email' = [email EXCEPT ![r] = NoEmail]
    /\ clock' = [clock EXCEPT ![r] = 0]
    /\ claimed' = [claimed EXCEPT ![r] = {}]
    /\ fresh' = [fresh EXCEPT ![r] = NoToken]
    /\ until' = [until EXCEPT ![r] = 0]
    /\ joining' = [joining EXCEPT ![r] = FALSE]

NoRowChange == UNCHANGED <<sessionVars, now, rowVars, delivered>>

(* AuthController: the four endpoints.  A client presents a token it has     *)
(* received, or something that was never issued.                             *)
Begin(r, o, s, t, e) ==
    /\ At(r, "idle")
    /\ Goto(r, s)
    /\ op' = [op EXCEPT ![r] = o]
    /\ presented' = [presented EXCEPT ![r] = t]
    /\ email' = [email EXCEPT ![r] = e]
    /\ UNCHANGED <<clock, claimed, fresh, until, joining>>
    /\ NoRowChange

BeginRegister(r) ==
    PoolHasRoom /\ \E e \in Email : Begin(r, "register", "exists", NoToken, e)
BeginLogin(r) ==
    PoolHasRoom /\ \E e \in Email : Begin(r, "login", "authenticate", NoToken, e)
BeginRefresh(r) ==
    /\ PoolHasRoom
    /\ \E t \in delivered \cup {NoToken} : Begin(r, "refresh", "find", t, NoEmail)
BeginLogout(r) ==
    \E t \in delivered \cup {NoToken} :
        Begin(r, "logout", "findForRevoke", t, NoEmail)

(* IdentityService.register: existsByEmailIgnoreCase, then the INSERT, which *)
(* the unique constraint on email refuses if another registration won.       *)
CheckEmail(r) ==
    /\ At(r, "exists")
    /\ IF accounts[email[r]] > 0
       THEN Fail(r)
       ELSE /\ Goto(r, "save")
            /\ UNCHANGED <<op, presented, email, clock, claimed, fresh, until, joining>>
    /\ NoRowChange

EmailTaken(e) == accounts[e] > 0

SaveAccount(r) ==
    /\ At(r, "save")
    /\ ~EmailLocked(r, email[r])
    /\ IF EmailTaken(email[r])
       THEN Fail(r)
       ELSE /\ Goto(r, "issue")
            /\ joining' = [joining EXCEPT ![r] = TRUE]
            /\ UNCHANGED <<op, presented, email, clock, claimed, fresh, until>>
    /\ NoRowChange

(* IdentityService.authenticate: unknown account or wrong password fails.    *)
Authenticate(r) ==
    /\ At(r, "authenticate")
    /\ \/ Fail(r)
       \/ /\ accounts[email[r]] > 0
          /\ Goto(r, "issue")
          /\ UNCHANGED <<op, presented, email, clock, claimed, fresh, until, joining>>
    /\ NoRowChange

(* RefreshTokenService.rotate, lines 39 to 44: the row as last committed.    *)
Expired(t, at) == expiresAt[t] <= at

FindActive(r) ==
    LET t == presented[r] IN
    /\ At(r, "find")
    /\ IF t \in Active /\ ~Expired(t, now)
       THEN /\ Goto(r, "clock")
            /\ email' = [email EXCEPT ![r] = owner[t]]
            /\ UNCHANGED <<op, presented, clock, claimed, fresh, until, joining>>
       ELSE Fail(r)
    /\ NoRowChange

(* Line 46: the argument Instant.now() is read before the UPDATE waits.      *)
ReadClock(r) ==
    /\ At(r, "clock")
    /\ Goto(r, "claim")
    /\ clock' = [clock EXCEPT ![r] = now]
    /\ UNCHANGED <<op, presented, email, claimed, fresh, until, joining>>
    /\ NoRowChange

(* The WHERE clause of revokeIfActive, on the row as it is once unlocked.    *)
\* Mutants: the clause without token.revoked = false; without expiresAt > :now.
StoredAndUnexpired(r, t) == t \in stored /\ ~Expired(t, clock[r])
ActiveWhenever(r, t) == t \in Active

StillActive(r, t) == t \in Active /\ ~Expired(t, clock[r])

\* Mutant: the claim commits at once, outside the transaction of the rotation.
RevokeAtOnce(r) ==
    LET t == presented[r] IN
    /\ At(r, "claim")
    /\ IF StillActive(r, t)
       THEN /\ Goto(r, "issue")
            /\ revoked' = revoked \cup {t}
            /\ UNCHANGED <<op, presented, email, clock, claimed, fresh, until, joining>>
       ELSE Fail(r) /\ UNCHANGED revoked
    /\ UNCHANGED <<stored, parent, session, ended, now, rowVars, delivered>>

\* Mutant: a refused claim is tried again instead of failing the request.
RevokeOrRetry(r) ==
    LET t == presented[r] IN
    /\ At(r, "claim")
    /\ ~TokenLocked(r, t)
    /\ StillActive(r, t)
    /\ Goto(r, "issue")
    /\ claimed' = [claimed EXCEPT ![r] = {t}]
    /\ UNCHANGED <<op, presented, email, clock, fresh, until, joining>>
    /\ NoRowChange

RevokeIfActive(r) ==
    LET t == presented[r] IN
    /\ At(r, "claim")
    /\ ~TokenLocked(r, t)
    /\ IF StillActive(r, t)
       THEN /\ Goto(r, "issue")
            /\ claimed' = [claimed EXCEPT ![r] = {t}]
            /\ UNCHANGED <<op, presented, email, clock, fresh, until, joining>>
       ELSE Fail(r)
    /\ NoRowChange

(* RefreshTokenService.issue: the row of a new token, valid for Lifetime.    *)
Issue(r) ==
    /\ At(r, "issue")
    /\ Goto(r, "commit")
    /\ \E n \in Undrawn : fresh' = [fresh EXCEPT ![r] = n]
    /\ until' = [until EXCEPT ![r] = now + Lifetime]
    /\ UNCHANGED <<op, presented, email, clock, claimed, joining>>
    /\ NoRowChange

(* RefreshTokenService.revoke: nothing is written for an unknown token or    *)
(* one the entity read already shows as revoked (it is not dirty).           *)
FindForRevoke(r) ==
    /\ At(r, "findForRevoke")
    /\ Goto(r, IF presented[r] \in Active THEN "write" ELSE "commit")
    /\ UNCHANGED <<op, presented, email, clock, claimed, fresh, until, joining>>
    /\ NoRowChange

(* The UPDATE that Hibernate flushes: it waits for the row, then sets        *)
(* revoked whatever the row says by now.                                     *)
WriteRevoked(r) ==
    /\ At(r, "write")
    /\ ~TokenLocked(r, presented[r])
    /\ Goto(r, "commit")
    /\ claimed' = [claimed EXCEPT ![r] = {presented[r]}]
    /\ UNCHANGED <<op, presented, email, clock, fresh, until, joining>>
    /\ NoRowChange

(* COMMIT: everything the transaction has written appears at once.           *)
Inserted(r) == {fresh[r]} \ {NoToken}
LoggedOut(r) == IF op[r] = "logout" THEN {presented[r]} \ {NoToken} ELSE {}

Commit(r) ==
    /\ At(r, "commit")
    /\ stored' = stored \cup Inserted(r)
    /\ revoked' = revoked \cup claimed[r]
    /\ accounts' = [e \in Email |->
                       IF joining[r] /\ e = email[r] THEN accounts[e] + 1 ELSE accounts[e]]
    /\ owner' = [t \in Token |-> IF t \in Inserted(r) THEN email[r] ELSE owner[t]]
    /\ expiresAt' = [t \in Token |-> IF t \in Inserted(r) THEN until[r] ELSE expiresAt[t]]
    \* history: which token each row replaced, which login it descends from
    /\ parent' = [t \in Token |-> IF t \in Inserted(r) THEN presented[r] ELSE parent[t]]
    /\ session' = [t \in Token |->
                      IF t \notin Inserted(r) THEN session[t]
                      ELSE IF op[r] = "refresh" THEN session[presented[r]] ELSE t]
    /\ ended' = ended \cup LoggedOut(r)
    /\ Goto(r, "reply")
    /\ claimed' = [claimed EXCEPT ![r] = {}]
    /\ joining' = [joining EXCEPT ![r] = FALSE]
    /\ UNCHANGED <<op, presented, email, clock, fresh, until, now, delivered>>

(* The response reaches the client, or the connection is lost after the      *)
(* transaction has committed: then nobody has the new token.                 *)
Reply(r) ==
    /\ At(r, "reply")
    /\ \/ delivered' = delivered \cup Inserted(r)
       \/ UNCHANGED delivered
    /\ Fail(r)
    /\ UNCHANGED <<sessionVars, now, rowVars>>

(* A statement or the COMMIT fails, the connection breaks: rollback.         *)
Abort(r) ==
    /\ pc[r] \notin {"idle", "reply"}
    /\ Fail(r)
    /\ NoRowChange

(* The service process dies: every open transaction is rolled back and every *)
(* pending response is lost; the tables survive.                             *)
Crash ==
    /\ \E r \in Request : pc[r] # "idle"
    /\ pc' = [r \in Request |-> "idle"]
    /\ op' = [r \in Request |-> "none"]
    /\ presented' = [r \in Request |-> NoToken]
    /\ email' = [r \in Request |-> NoEmail]
    /\ clock' = [r \in Request |-> 0]
    /\ claimed' = [r \in Request |-> {}]
    /\ fresh' = [r \in Request |-> NoToken]
    /\ until' = [r \in Request |-> 0]
    /\ joining' = [r \in Request |-> FALSE]
    /\ NoRowChange

Tick ==
    /\ now < MaxClock
    /\ now' = now + 1
    /\ UNCHANGED <<sessionVars, rowVars, requestVars, delivered>>

Execute(r) ==
    \/ CheckEmail(r) \/ Authenticate(r) \/ FindActive(r) \/ ReadClock(r)
    \/ Issue(r) \/ FindForRevoke(r) \/ Commit(r) \/ Reply(r)
Acquire(r) == SaveAccount(r) \/ RevokeIfActive(r) \/ WriteRevoked(r)

Next ==
    \/ \E r \in Request :
          \/ BeginRegister(r) \/ BeginLogin(r) \/ BeginRefresh(r) \/ BeginLogout(r)
          \/ CheckEmail(r) \/ SaveAccount(r) \/ Authenticate(r)
          \/ FindActive(r) \/ ReadClock(r) \/ RevokeIfActive(r) \/ Issue(r)
          \/ FindForRevoke(r) \/ WriteRevoked(r)
          \/ Commit(r) \/ Reply(r) \/ Abort(r)
    \/ Crash
    \/ Tick

Spec == Init /\ [][Next]_vars

(* A request thread keeps executing.  Postgres queues the waiters of a row,  *)
(* so a statement that finds the row free again and again gets it.           *)
Fairness == \A r \in Request : WF_vars(Execute(r)) /\ SF_vars(Acquire(r))
FairSpec == Spec /\ Fairness
-----------------------------------------------------------------------------
(* Two registrations of one e-mail race between existsByEmailIgnoreCase and  *)
(* the INSERT: the account exists once all the same.                         *)
OneAccountPerEmail == \A e \in Email : accounts[e] <= 1

(* A client never holds a token that the store does not know: the response   *)
(* is sent after the commit, and no rollback takes a delivered token back.   *)
DeliveredIsStored == delivered \subseteq stored

(* A session has lapsed when it cannot go on: each of its tokens is revoked  *)
(* or has expired, and no refresh under way outruns that with an instant     *)
(* from before the expiry of a token that is not revoked.  A lapsed session  *)
(* stays lapsed, whether a logout or the time has ended it and whoever waits *)
(* for its rows meanwhile (rotate, revokeIfActive, revoke).                  *)
TokensOf(s) == {t \in stored : session[t] = s}
Alive(s) == \E t \in TokensOf(s) \cap Active : ~Expired(t, now)
InTime(r) ==
    /\ op[r] = "refresh" /\ pc[r] \in {"claim", "issue", "commit"}
    /\ presented[r] \in Active
    /\ ~Expired(presented[r], clock[r])
Lapsed(s) ==
    /\ s \in stored
    /\ ~Alive(s)
    /\ \A r \in Request : InTime(r) => presented[r] \notin TokensOf(s)

LapsedForGood == [][\A s \in Token : Lapsed(s) => Lapsed(s)']_vars

(* Every request comes to an end: no transaction waits for a row for ever.   *)
EveryRequestEnds == \A r \in Request : pc[r] # "idle" ~> pc[r] = "idle"
=============================================================================
