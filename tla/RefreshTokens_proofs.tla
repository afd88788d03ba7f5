----------------------- MODULE RefreshTokens_proofs ------------------------
(* Theorems about the identity service, for every set of requests, tokens    *)
(* and e-mails.  The abstract sessions keep their invariant; the             *)
(* transactions implement them, so they inherit it.                          *)
EXTENDS RefreshTokens, TLAPS

(* What makes the promises of TokenSessions inductive: a token that has been *)
(* replaced is revoked, and the login of a stored token is stored.           *)
SessionInv ==
    /\ SessionTypeOK
    /\ NoFork
    /\ OneActivePerSession
    /\ NoLostSession
    /\ \A n \in stored : parent[n] # NoToken => parent[n] \in revoked
    /\ \A n \in stored : session[n] \in stored

(* What each statement may rely on when its transaction reaches it.          *)
RefreshShape(r) ==
    op[r] = "refresh" =>
        /\ pc[r] \in {"find", "clock", "claim", "issue", "commit", "reply"}
        /\ pc[r] \in {"find", "clock", "claim", "issue"} => fresh[r] = NoToken
        /\ pc[r] \in {"find", "clock", "claim", "reply"} => claimed[r] = {}
        /\ pc[r] \in {"clock", "claim", "issue", "commit"} => presented[r] \in Token
        /\ pc[r] \in {"issue", "commit"} =>
              /\ claimed[r] = {presented[r]}
              /\ presented[r] \in Active
              /\ clock[r] < expiresAt[presented[r]]
        /\ ~joining[r]

LogoutShape(r) ==
    op[r] = "logout" =>
        /\ pc[r] \in {"findForRevoke", "write", "commit", "reply"}
        /\ fresh[r] = NoToken
        /\ ~joining[r]
        /\ pc[r] # "commit" => claimed[r] = {}
        /\ pc[r] = "write" => presented[r] \in stored
        /\ pc[r] = "commit" => /\ claimed[r] \subseteq {presented[r]} \cap stored
                               /\ presented[r] # NoToken =>
                                     presented[r] \in revoked \cup claimed[r]

OpenShape(r) ==
    op[r] \in {"register", "login"} =>
        /\ pc[r] \in {"exists", "save", "authenticate", "issue", "commit", "reply"}
        /\ presented[r] = NoToken
        /\ claimed[r] = {}
        /\ pc[r] \notin {"commit", "reply"} => fresh[r] = NoToken
        /\ email[r] \in Email
        /\ joining[r] => pc[r] \in {"issue", "commit"} /\ accounts[email[r]] = 0

IdleShape(r) ==
    /\ op[r] = "none" <=> pc[r] = "idle"
    /\ op[r] = "none" => claimed[r] = {} /\ fresh[r] = NoToken /\ ~joining[r]
    /\ presented[r] # NoToken => presented[r] \in stored
    /\ pc[r] = "commit" /\ op[r] # "logout" => fresh[r] \in Token \ stored
    /\ pc[r] = "reply" /\ fresh[r] # NoToken => fresh[r] \in stored

Shape(r) == RefreshShape(r) /\ LogoutShape(r) /\ OpenShape(r) /\ IdleShape(r)

(* Row locks: no two transactions write one token, draw one value, or insert *)
(* one e-mail.                                                               *)
Exclusive(q, r) ==
    /\ claimed[q] \cap claimed[r] = {}
    /\ fresh[q] = fresh[r] => fresh[r] = NoToken
    /\ joining[q] /\ joining[r] => email[q] # email[r]

IInv ==
    /\ TypeOK
    /\ \A r \in Request : Shape(r)
    /\ \A q, r \in Request : q # r => Exclusive(q, r)
    /\ DeliveredIsStored
    /\ OneAccountPerEmail
-----------------------------------------------------------------------------
(* The abstract sessions keep SessionInv.                                    *)
THEOREM SessionsSafe == SessionSpec => []SessionInv
<1> USE NoTokenAssumption
<1>1. SessionInit => SessionInv
  BY DEF SessionInit, SessionInv, SessionTypeOK, NoFork, OneActivePerSession,
         NoLostSession, Active
<1>2. SessionInv /\ [SessionNext]_sessionVars => SessionInv'
  <2> SUFFICES ASSUME SessionInv, [SessionNext]_sessionVars PROVE SessionInv'
    OBVIOUS
  <2> USE DEF SessionInv, SessionTypeOK
  <2>1. ASSUME NEW n \in Token, Open(n) PROVE SessionInv'
    BY <2>1 DEF Open, NoFork, OneActivePerSession, NoLostSession, Active
  <2>2. ASSUME NEW t \in Token, Close(t) PROVE SessionInv'
    BY <2>2 DEF Close, NoFork, OneActivePerSession, NoLostSession, Active
  <2>3. ASSUME NEW t \in Token, NEW n \in Token, Replace(t, n) PROVE SessionInv'
    <3>1. SessionTypeOK'
      BY <2>3 DEF Replace, Active
    <3>2. NoFork'
      BY <2>3 DEF Replace, Active, NoFork
    <3>3. OneActivePerSession'
      BY <2>3 DEF Replace, Active, OneActivePerSession
    <3>4. NoLostSession'
      BY <2>3 DEF Replace, Active, NoLostSession
    <3>5. /\ \A m \in stored' : parent'[m] # NoToken => parent'[m] \in revoked'
          /\ \A m \in stored' : session'[m] \in stored'
      BY <2>3 DEF Replace, Active
    <3> QED
      BY <3>1, <3>2, <3>3, <3>4, <3>5
  <2>4. CASE UNCHANGED sessionVars
    BY <2>4 DEF sessionVars, NoFork, OneActivePerSession, NoLostSession, Active
  <2> QED
    BY <2>1, <2>2, <2>3, <2>4 DEF SessionNext
<1> QED
  BY <1>1, <1>2, PTL DEF SessionSpec
-----------------------------------------------------------------------------
(* Initially nothing is stored and every request is idle.                    *)
LEMMA InitInv == Init => IInv
<1> SUFFICES ASSUME Init PROVE IInv
  OBVIOUS
<1> USE RequestAssumption, ClockAssumption, NoTokenAssumption DEF Init, SessionInit
<1>1. TypeOK
  BY DEF TypeOK, SessionTypeOK, Statement, Endpoint
<1>2. \A r \in Request : Shape(r)
  BY DEF Shape, RefreshShape, LogoutShape, OpenShape, IdleShape
<1>3. \A q, r \in Request : q # r => Exclusive(q, r)
  BY DEF Exclusive
<1>4. DeliveredIsStored /\ OneAccountPerEmail
  BY DEF DeliveredIsStored, OneAccountPerEmail
<1> QED
  BY <1>1, <1>2, <1>3, <1>4 DEF IInv

(* A step of request r leaves the columns of every other request alone.      *)
OnlyRequest(r) ==
    \A q \in Request \ {r} :
        /\ pc'[q] = pc[q] /\ op'[q] = op[q] /\ presented'[q] = presented[q]
        /\ email'[q] = email[q] /\ clock'[q] = clock[q] /\ claimed'[q] = claimed[q]
        /\ fresh'[q] = fresh[q] /\ until'[q] = until[q] /\ joining'[q] = joining[q]

(* A step that touches no row and one request keeps IInv if that request     *)
(* keeps its shape and stays apart from the others.                          *)
LEMMA LocalStep ==
    ASSUME IInv, NEW r \in Request, NoRowChange, OnlyRequest(r), TypeOK', Shape(r)',
           \A q \in Request \ {r} : Exclusive(q, r)'
    PROVE  IInv'
<1> USE DEF IInv
<1>1. \A q \in Request : Shape(q)'
  <2> SUFFICES ASSUME NEW q \in Request \ {r} PROVE Shape(q)'
    OBVIOUS
  <2>1. Shape(q)
    OBVIOUS
  <2> QED
    BY <2>1 DEF OnlyRequest, NoRowChange, sessionVars, rowVars, Shape, RefreshShape,
                LogoutShape, OpenShape, IdleShape, Active
<1>2. \A q, s \in Request : q # s => Exclusive(q, s)'
  <2> SUFFICES ASSUME NEW q \in Request, NEW s \in Request, q # s
               PROVE  Exclusive(q, s)'
    OBVIOUS
  <2>1. CASE s = r
    BY <2>1
  <2>2. CASE q = r
    BY <2>2 DEF Exclusive
  <2>3. CASE q # r /\ s # r
    BY <2>3 DEF OnlyRequest, Exclusive
  <2> QED
    BY <2>1, <2>2, <2>3
<1>3. DeliveredIsStored' /\ OneAccountPerEmail'
  BY DEF NoRowChange, sessionVars, rowVars, DeliveredIsStored, OneAccountPerEmail
<1> QED
  BY <1>1, <1>2, <1>3

(* A request that ends gives up everything it holds.                         *)
LEMMA FailShape ==
    ASSUME IInv, NEW r \in Request, Fail(r)
    PROVE  /\ OnlyRequest(r)
           /\ Shape(r)'
           /\ \A q \in Request \ {r} : Exclusive(q, r)'
<1> USE NoTokenAssumption, ClockAssumption DEF IInv, TypeOK
<1>1. OnlyRequest(r)
  BY DEF Fail, OnlyRequest
<1>2. Shape(r)'
  BY DEF Fail, Shape, RefreshShape, LogoutShape, OpenShape, IdleShape, Endpoint
<1>3. \A q \in Request \ {r} : Exclusive(q, r)'
  BY DEF Fail, Exclusive
<1> QED
  BY <1>1, <1>2, <1>3

LEMMA FailType ==
    ASSUME IInv, NEW r \in Request, Fail(r), NoRowChange
    PROVE  TypeOK'
BY ClockAssumption, NoTokenAssumption
   DEF IInv, TypeOK, SessionTypeOK, Fail, NoRowChange, sessionVars, rowVars, Statement,
       Endpoint

(* A failed statement rolls the transaction back.                            *)
LEMMA FailInv ==
    ASSUME IInv, NEW r \in Request, Fail(r), NoRowChange
    PROVE  IInv'
BY FailShape, FailType, LocalStep

(* Every statement of a transaction that is not its COMMIT is a local step.  *)
LEMMA BeginInv ==
    ASSUME IInv, NEW r \in Request,
           BeginRegister(r) \/ BeginLogin(r) \/ BeginRefresh(r) \/ BeginLogout(r)
    PROVE  IInv'
<1> USE NoTokenAssumption, RequestAssumption DEF IInv
<1> DEFINE Called(o, s, t, e) ==
       \/ o = "register" /\ s = "exists" /\ t = NoToken /\ e \in Email
       \/ o = "login" /\ s = "authenticate" /\ t = NoToken /\ e \in Email
       \/ o = "refresh" /\ s = "find" /\ t \in delivered \cup {NoToken} /\ e = NoEmail
       \/ o = "logout" /\ s = "findForRevoke" /\ t \in delivered \cup {NoToken}
          /\ e = NoEmail
<1>1. PICK o \in Endpoint, s \in Statement, t \in Token \cup {NoToken},
           e \in Email \cup {NoEmail} : Called(o, s, t, e) /\ Begin(r, o, s, t, e)
  BY DEF BeginRegister, BeginLogin, BeginRefresh, BeginLogout, TypeOK, Endpoint,
         Statement
<1>2. NoRowChange /\ OnlyRequest(r)
  BY <1>1 DEF Begin, Goto, OnlyRequest, TypeOK
<1>3. TypeOK'
  BY <1>1 DEF Begin, Goto, NoRowChange, sessionVars, rowVars, TypeOK, SessionTypeOK
<1>4. Shape(r)'
  BY <1>1, <1>3 DEF Begin, Goto, At, NoRowChange, sessionVars, rowVars, TypeOK, Shape,
         RefreshShape, LogoutShape, OpenShape, IdleShape, DeliveredIsStored
<1>5. \A q \in Request \ {r} : Exclusive(q, r)'
  BY <1>1 DEF Begin, Goto, At, TypeOK, Shape, IdleShape, Exclusive
<1> QED
  BY <1>2, <1>3, <1>4, <1>5, LocalStep

LEMMA CheckEmailInv ==
    ASSUME IInv, NEW r \in Request, CheckEmail(r) PROVE IInv'
<1>1. CASE Fail(r)
  BY <1>1, FailInv DEF CheckEmail
<1>2. CASE ~Fail(r)
  <2> USE <1>2 DEF IInv, CheckEmail, Goto, At
  <2>1. NoRowChange /\ OnlyRequest(r)
    BY DEF OnlyRequest, TypeOK
  <2>2. TypeOK'
    BY DEF NoRowChange, sessionVars, rowVars, TypeOK, SessionTypeOK, Statement
  <2>3. Shape(r)'
    BY DEF NoRowChange, sessionVars, rowVars, TypeOK, Shape, RefreshShape, LogoutShape,
           OpenShape, IdleShape, Active, Endpoint
  <2>4. \A q \in Request \ {r} : Exclusive(q, r)'
    BY DEF Exclusive, TypeOK
  <2> QED
    BY <2>1, <2>2, <2>3, <2>4, LocalStep
<1> QED
  BY <1>1, <1>2

LEMMA SaveAccountInv ==
    ASSUME IInv, NEW r \in Request, SaveAccount(r) PROVE IInv'
<1>1. CASE Fail(r)
  BY <1>1, FailInv DEF SaveAccount
<1>2. CASE ~Fail(r)
  <2> USE <1>2 DEF IInv, SaveAccount, Goto, At
  <2>1. NoRowChange /\ OnlyRequest(r)
    BY DEF OnlyRequest, TypeOK
  <2>2. TypeOK'
    BY DEF NoRowChange, sessionVars, rowVars, TypeOK, SessionTypeOK, Statement
  <2>3. op[r] \in {"register", "login"}
    BY DEF TypeOK, Endpoint, Shape, RefreshShape, LogoutShape, IdleShape
  <2>4. accounts[email[r]] = 0
    BY <2>3 DEF EmailTaken, TypeOK, Shape, OpenShape
  <2>5. Shape(r)'
    BY <2>3, <2>4 DEF NoRowChange, sessionVars, rowVars, TypeOK, Shape, RefreshShape,
           LogoutShape, OpenShape, IdleShape, Active, Endpoint
  <2>6. \A q \in Request : joining[q] => Writing(q)
    BY DEF Writing, TypeOK, Endpoint, Shape, RefreshShape, LogoutShape, OpenShape,
           IdleShape
  <2>7. \A q \in Request \ {r} : Exclusive(q, r)'
    BY <2>6 DEF Exclusive, TypeOK, EmailLocked
  <2> QED
    BY <2>1, <2>2, <2>5, <2>7, LocalStep
<1> QED
  BY <1>1, <1>2

LEMMA AuthenticateInv ==
    ASSUME IInv, NEW r \in Request, Authenticate(r) PROVE IInv'
<1>1. CASE Fail(r)
  BY <1>1, FailInv DEF Authenticate
<1>2. CASE ~Fail(r)
  <2> USE <1>2 DEF IInv, Authenticate, Goto, At
  <2>1. NoRowChange /\ OnlyRequest(r)
    BY DEF OnlyRequest, TypeOK
  <2>2. TypeOK'
    BY DEF NoRowChange, sessionVars, rowVars, TypeOK, SessionTypeOK, Statement
  <2>3. Shape(r)'
    BY DEF NoRowChange, sessionVars, rowVars, TypeOK, Shape, RefreshShape, LogoutShape,
           OpenShape, IdleShape, Active, Endpoint
  <2>4. \A q \in Request \ {r} : Exclusive(q, r)'
    BY DEF Exclusive, TypeOK
  <2> QED
    BY <2>1, <2>2, <2>3, <2>4, LocalStep
<1> QED
  BY <1>1, <1>2

LEMMA FindActiveInv ==
    ASSUME IInv, NEW r \in Request, FindActive(r) PROVE IInv'
<1>1. CASE Fail(r)
  BY <1>1, FailInv DEF FindActive
<1>2. CASE ~Fail(r)
  <2> USE <1>2, NoTokenAssumption, ClockAssumption DEF IInv, FindActive, Goto, At
  <2>1. NoRowChange /\ OnlyRequest(r)
    BY DEF OnlyRequest, TypeOK
  <2>2. TypeOK'
    BY DEF NoRowChange, sessionVars, rowVars, TypeOK, SessionTypeOK, Statement, Active
  <2>3. Shape(r)'
    BY DEF NoRowChange, sessionVars, rowVars, TypeOK, SessionTypeOK, Shape, RefreshShape,
           LogoutShape, OpenShape, IdleShape, Active, Endpoint
  <2>4. \A q \in Request \ {r} : Exclusive(q, r)'
    BY DEF Exclusive, TypeOK, Endpoint, Shape, LogoutShape, OpenShape, RefreshShape,
           IdleShape
  <2> QED
    BY <2>1, <2>2, <2>3, <2>4, LocalStep
<1> QED
  BY <1>1, <1>2

LEMMA ReadClockInv ==
    ASSUME IInv, NEW r \in Request, ReadClock(r) PROVE IInv'
<1> USE NoTokenAssumption, ClockAssumption DEF IInv, ReadClock, Goto, At
<1>1. NoRowChange /\ OnlyRequest(r)
  BY DEF OnlyRequest, TypeOK
<1>2. TypeOK'
  BY DEF NoRowChange, sessionVars, rowVars, TypeOK, SessionTypeOK, Statement
<1>3. Shape(r)'
  BY DEF NoRowChange, sessionVars, rowVars, TypeOK, SessionTypeOK, Shape, RefreshShape,
         LogoutShape, OpenShape, IdleShape, Active, Endpoint
<1>4. \A q \in Request \ {r} : Exclusive(q, r)'
  BY DEF Exclusive, TypeOK
<1> QED
  BY <1>1, <1>2, <1>3, <1>4, LocalStep

LEMMA RevokeIfActiveInv ==
    ASSUME IInv, NEW r \in Request, RevokeIfActive(r) PROVE IInv'
<1>1. CASE Fail(r)
  BY <1>1, FailInv DEF RevokeIfActive
<1>2. CASE ~Fail(r)
  <2> USE <1>2, NoTokenAssumption, ClockAssumption DEF IInv, RevokeIfActive, Goto, At
  <2>1. NoRowChange /\ OnlyRequest(r)
    BY DEF OnlyRequest, TypeOK
  <2>2. TypeOK'
    BY DEF NoRowChange, sessionVars, rowVars, TypeOK, SessionTypeOK, Statement, Active, StillActive
  <2>3. Shape(r)'
    BY DEF NoRowChange, sessionVars, rowVars, TypeOK, SessionTypeOK, Shape, RefreshShape,
           LogoutShape, OpenShape, IdleShape, Active, Endpoint, StillActive, Expired
  <2>4. \A q \in Request : claimed[q] # {} => Writing(q)
    BY DEF Writing, TypeOK, Endpoint, Shape, RefreshShape, LogoutShape, OpenShape,
           IdleShape
  <2>5. \A q \in Request \ {r} : Exclusive(q, r)'
    BY <2>4 DEF Exclusive, TypeOK, TokenLocked
  <2> QED
    BY <2>1, <2>2, <2>3, <2>5, LocalStep
<1> QED
  BY <1>1, <1>2

LEMMA IssueInv ==
    ASSUME IInv, NEW r \in Request, Issue(r) PROVE IInv'
<1> USE NoTokenAssumption, ClockAssumption DEF IInv, Issue, Goto, At
<1>1. NoRowChange /\ OnlyRequest(r)
  BY DEF OnlyRequest, TypeOK
<1>2. TypeOK'
  BY DEF NoRowChange, sessionVars, rowVars, TypeOK, SessionTypeOK, Statement, Undrawn
<1>3. Shape(r)'
  BY DEF NoRowChange, sessionVars, rowVars, TypeOK, SessionTypeOK, Shape, RefreshShape,
         LogoutShape, OpenShape, IdleShape, Active, Endpoint, Undrawn
<1>4. \A q \in Request \ {r} : Exclusive(q, r)'
  BY DEF Exclusive, TypeOK, Undrawn
<1> QED
  BY <1>1, <1>2, <1>3, <1>4, LocalStep

LEMMA FindForRevokeInv ==
    ASSUME IInv, NEW r \in Request, FindForRevoke(r) PROVE IInv'
<1> USE NoTokenAssumption, ClockAssumption DEF IInv, FindForRevoke, Goto, At
<1>1. NoRowChange /\ OnlyRequest(r)
  BY DEF OnlyRequest, TypeOK
<1>2. TypeOK'
  BY DEF NoRowChange, sessionVars, rowVars, TypeOK, SessionTypeOK, Statement
<1>3. Shape(r)'
  BY DEF NoRowChange, sessionVars, rowVars, TypeOK, SessionTypeOK, Shape, RefreshShape,
         LogoutShape, OpenShape, IdleShape, Active, Endpoint
<1>4. \A q \in Request \ {r} : Exclusive(q, r)'
  BY DEF Exclusive, TypeOK
<1> QED
  BY <1>1, <1>2, <1>3, <1>4, LocalStep

LEMMA WriteRevokedInv ==
    ASSUME IInv, NEW r \in Request, WriteRevoked(r) PROVE IInv'
<1> USE NoTokenAssumption, ClockAssumption DEF IInv, WriteRevoked, Goto, At
<1>1. NoRowChange /\ OnlyRequest(r)
  BY DEF OnlyRequest, TypeOK
<1>2. TypeOK'
  BY DEF NoRowChange, sessionVars, rowVars, TypeOK, SessionTypeOK, Statement, Shape,
         LogoutShape, OpenShape, RefreshShape, IdleShape, Endpoint
<1>3. Shape(r)'
  BY DEF NoRowChange, sessionVars, rowVars, TypeOK, SessionTypeOK, Shape, RefreshShape,
         LogoutShape, OpenShape, IdleShape, Active, Endpoint
<1>4. \A q \in Request : claimed[q] # {} => Writing(q)
  BY DEF Writing, TypeOK, Endpoint, Shape, RefreshShape, LogoutShape, OpenShape,
         IdleShape
<1>5. \A q \in Request \ {r} : Exclusive(q, r)'
  BY <1>4 DEF Exclusive, TypeOK, TokenLocked
<1> QED
  BY <1>1, <1>2, <1>3, <1>5, LocalStep

(* COMMIT: the locks make every effect of the transaction still legal.       *)
LEMMA CommitInv ==
    ASSUME IInv, NEW r \in Request, Commit(r) PROVE IInv'
<1> USE NoTokenAssumption, ClockAssumption DEF IInv, Commit, Goto, At
<1>1. OnlyRequest(r)
  BY DEF OnlyRequest, TypeOK
<1>2. Shape(r) /\ op[r] \in {"register", "login", "refresh", "logout"}
  BY DEF TypeOK, Endpoint, Shape, IdleShape
<1>3. /\ claimed[r] \subseteq stored
      /\ Inserted(r) \subseteq Token \ stored
      /\ LoggedOut(r) \subseteq revoked \cup claimed[r]
  BY <1>2 DEF TypeOK, SessionTypeOK, Shape, RefreshShape, LogoutShape, OpenShape,
              IdleShape, Active, Inserted, LoggedOut
<1>4. TypeOK'
  <2>1. SessionTypeOK'
    <3>1. presented[r] \in Token \cup {NoToken}
      BY DEF TypeOK
    <3>2. parent' \in [Token -> Token \cup {NoToken}]
      BY <3>1 DEF TypeOK, SessionTypeOK
    <3>3. op[r] = "refresh" => presented[r] \in Token
      BY <1>2 DEF Shape, RefreshShape
    <3>4. session' \in [Token -> Token \cup {NoToken}]
      BY <3>3 DEF TypeOK, SessionTypeOK
    <3> QED
      BY <1>3, <3>2, <3>4 DEF TypeOK, SessionTypeOK
  <2>2. accounts' \in [Email -> Nat] /\ owner' \in [Token -> Email \cup {NoEmail}]
    BY DEF TypeOK
  <2>3. expiresAt' \in [Token -> Nat]
    BY DEF TypeOK
  <2> QED
    BY <2>1, <2>2, <2>3 DEF TypeOK, Statement
<1>5. Shape(r)'
  BY <1>2, <1>3 DEF TypeOK, SessionTypeOK, Shape, RefreshShape, LogoutShape, OpenShape,
     IdleShape, Active, Inserted
<1>6. ASSUME NEW q \in Request \ {r} PROVE Shape(q)'
  <2>1. Shape(q) /\ Exclusive(q, r)
    OBVIOUS
  <2>2. /\ pc'[q] = pc[q] /\ op'[q] = op[q] /\ presented'[q] = presented[q]
        /\ email'[q] = email[q] /\ clock'[q] = clock[q] /\ claimed'[q] = claimed[q]
        /\ fresh'[q] = fresh[q] /\ joining'[q] = joining[q]
    BY <1>1 DEF OnlyRequest
  <2>3. stored \subseteq stored' /\ revoked \subseteq revoked'
    OBVIOUS
  <2>4. RefreshShape(q)'
    <3>1. ASSUME op[q] = "refresh", pc[q] \in {"issue", "commit"}
          PROVE  /\ presented[q] \in Active'
                 /\ expiresAt'[presented[q]] = expiresAt[presented[q]]
      <4>1. claimed[q] = {presented[q]} /\ presented[q] \in Active
        BY <2>1, <3>1 DEF Shape, RefreshShape
      <4> QED
        BY <1>3, <2>1, <4>1 DEF Exclusive, Active, TypeOK, SessionTypeOK
    <3> QED
      BY <2>1, <2>2, <3>1 DEF Shape, RefreshShape
  <2>5. LogoutShape(q)'
    BY <2>1, <2>2, <2>3 DEF Shape, LogoutShape
  <2>6. OpenShape(q)'
    <3>1. ASSUME joining[q], email[q] \in Email PROVE accounts'[email[q]] = accounts[email[q]]
      BY <2>1, <3>1 DEF Exclusive, TypeOK
    <3> QED
      BY <2>1, <2>2, <3>1 DEF Shape, OpenShape
  <2>7. IdleShape(q)'
    BY <2>1, <2>2, <2>3 DEF Shape, IdleShape, Inserted, Exclusive
  <2> QED
    BY <2>4, <2>5, <2>6, <2>7 DEF Shape
<1>7. \A q, s \in Request : q # s => Exclusive(q, s)'
  BY DEF Exclusive, TypeOK
<1>8. DeliveredIsStored'
  BY DEF DeliveredIsStored
<1>9. OneAccountPerEmail'
  BY <1>2 DEF OneAccountPerEmail, TypeOK, Shape, RefreshShape, LogoutShape, OpenShape
<1> QED
  BY <1>4, <1>5, <1>6, <1>7, <1>8, <1>9

LEMMA ReplyInv ==
    ASSUME IInv, NEW r \in Request, Reply(r) PROVE IInv'
<1> USE NoTokenAssumption, ClockAssumption DEF IInv, Reply, At
<1>1. OnlyRequest(r) /\ Shape(r)' /\ \A q \in Request \ {r} : Exclusive(q, r)'
  BY FailShape
<1>2. DeliveredIsStored'
  BY DEF DeliveredIsStored, Inserted, Shape, IdleShape, sessionVars
<1>3. TypeOK'
  BY DEF Inserted, TypeOK, SessionTypeOK, Fail, sessionVars, rowVars, Statement, Endpoint
<1>4. \A q \in Request \ {r} : Shape(q)'
  BY <1>1 DEF OnlyRequest, sessionVars, rowVars, Shape, RefreshShape, LogoutShape,
              OpenShape, IdleShape, Active
<1>5. \A q, s \in Request : q # s => Exclusive(q, s)'
  BY <1>1 DEF OnlyRequest, Exclusive
<1>6. OneAccountPerEmail'
  BY DEF OneAccountPerEmail, rowVars
<1> QED
  BY <1>1, <1>2, <1>3, <1>4, <1>5, <1>6

(* A crash leaves every request idle over the committed tables.              *)
LEMMA CrashInv ==
    ASSUME IInv, Crash PROVE IInv'
<1> USE NoTokenAssumption, RequestAssumption, ClockAssumption
    DEF IInv, Crash, NoRowChange, sessionVars, rowVars
<1>1. TypeOK'
  BY DEF TypeOK, SessionTypeOK, Statement, Endpoint
<1>2. \A q \in Request : Shape(q)'
  BY DEF Shape, RefreshShape, LogoutShape, OpenShape, IdleShape
<1>3. \A q, s \in Request : q # s => Exclusive(q, s)'
  BY DEF Exclusive
<1>4. DeliveredIsStored' /\ OneAccountPerEmail'
  BY DEF DeliveredIsStored, OneAccountPerEmail
<1> QED
  BY <1>1, <1>2, <1>3, <1>4

LEMMA TickInv ==
    ASSUME IInv, Tick \/ UNCHANGED vars PROVE IInv'
<1> USE ClockAssumption DEF IInv, Tick, vars, sessionVars, rowVars, requestVars
<1>1. TypeOK'
  BY DEF TypeOK, SessionTypeOK
<1>2. \A q \in Request : Shape(q)'
  BY DEF Shape, RefreshShape, LogoutShape, OpenShape, IdleShape, Active
<1>3. \A q, s \in Request : q # s => Exclusive(q, s)'
  BY DEF Exclusive
<1>4. DeliveredIsStored' /\ OneAccountPerEmail'
  BY DEF DeliveredIsStored, OneAccountPerEmail
<1> QED
  BY <1>1, <1>2, <1>3, <1>4

LEMMA StepInv == IInv /\ [Next]_vars => IInv'
<1> SUFFICES ASSUME IInv, [Next]_vars PROVE IInv'
  OBVIOUS
<1>1. ASSUME NEW r \in Request, Abort(r) PROVE IInv'
  BY <1>1, FailInv DEF Abort
<1> QED
  BY <1>1, BeginInv, CheckEmailInv, SaveAccountInv, AuthenticateInv, FindActiveInv,
     ReadClockInv, RevokeIfActiveInv, IssueInv, FindForRevokeInv, WriteRevokedInv,
     CommitInv, ReplyInv, CrashInv, TickInv DEF Next

(* The inductive invariant: locks, requests and tables fit together.         *)
THEOREM InductiveInvariant == Spec => []IInv
BY InitInv, StepInv, PTL DEF Spec

(* Every variable keeps its type, whatever the requests and the clock do.    *)
THEOREM TypeCorrect == Spec => []TypeOK
<1>1. IInv => TypeOK
  BY DEF IInv
<1> QED
  BY <1>1, InductiveInvariant, PTL

(* No race of registrations stores one e-mail twice.                         *)
THEOREM AccountsUnique == Spec => []OneAccountPerEmail
<1>1. IInv => OneAccountPerEmail
  BY DEF IInv
<1> QED
  BY <1>1, InductiveInvariant, PTL

(* A client holds only tokens the store knows, across crashes too.           *)
THEOREM DeliveredStored == Spec => []DeliveredIsStored
<1>1. IInv => DeliveredIsStored
  BY DEF IInv
<1> QED
  BY <1>1, InductiveInvariant, PTL

-----------------------------------------------------------------------------
(* LapsedForGood, step by step.  A refresh that has been granted was in time *)
(* (RefreshShape), so that the replacement it commits cannot belong to a     *)
(* session that has lapsed; and now never falls.                             *)

(* A step that changes no row keeps a session lapsed if the request that     *)
(* moves gains no instant in time for it.                                    *)
LEMMA LapsedLocal ==
    ASSUME NEW s \in Token, Lapsed(s), NoRowChange \/ UNCHANGED <<sessionVars, now, rowVars>>,
           NEW r \in Request, OnlyRequest(r), InTime(r)' => presented'[r] \notin TokensOf(s)
    PROVE  Lapsed(s)'
<1> USE DEF NoRowChange, sessionVars, rowVars
<1>1. TokensOf(s)' = TokensOf(s) /\ Active' = Active /\ Alive(s)' = Alive(s)
  BY DEF TokensOf, Active, Alive, Expired
<1>2. ASSUME NEW q \in Request, InTime(q)' PROVE presented'[q] \notin TokensOf(s)
  <2>1. CASE q = r
    BY <1>2, <2>1
  <2>2. CASE q # r
    <3>1. InTime(q) /\ presented'[q] = presented[q]
      BY <1>1, <1>2, <2>2 DEF InTime, OnlyRequest, Expired
    <3> QED
      BY <3>1 DEF Lapsed
  <2> QED
    BY <2>1, <2>2
<1> QED
  BY <1>1, <1>2 DEF Lapsed

(* The one step that adds a token adds none to a session that has lapsed:    *)
(* the token a rotation replaces was claimed in time.                        *)
LEMMA LapsedCommit ==
    ASSUME IInv, NEW s \in Token, Lapsed(s), NEW r \in Request, Commit(r) PROVE Lapsed(s)'
<1> USE NoTokenAssumption DEF IInv
<1>1. Shape(r) /\ pc[r] = "commit" /\ op[r] \in {"register", "login", "refresh", "logout"}
  BY DEF Commit, At, TypeOK, Endpoint, Shape, IdleShape
<1>2. OnlyRequest(r) /\ pc'[r] = "reply" /\ now' = now
  BY DEF Commit, Goto, OnlyRequest, TypeOK
<1>3. Inserted(r) \subseteq Token \ stored
  BY <1>1 DEF Shape, LogoutShape, IdleShape, Inserted
<1>4. ASSUME NEW n \in Inserted(r) PROVE session'[n] # s
  <2>1. n \in Token \ stored /\ s \in stored
    BY <1>3, <1>4 DEF Lapsed
  <2>2. CASE op[r] = "refresh"
    <3>1. presented[r] \in stored /\ InTime(r)
      BY <1>1, <2>2 DEF Shape, RefreshShape, Active, InTime, Expired, TypeOK, SessionTypeOK
    <3>2. session[presented[r]] # s
      BY <3>1 DEF Lapsed, TokensOf
    <3> QED
      BY <1>4, <2>1, <2>2, <3>2 DEF Commit
  <2>3. CASE op[r] # "refresh"
    BY <1>4, <2>1, <2>3 DEF Commit
  <2> QED
    BY <2>2, <2>3
<1>5. ASSUME NEW t \in stored
      PROVE  session'[t] = session[t] /\ expiresAt'[t] = expiresAt[t]
  BY <1>3, <1>5 DEF Commit, TypeOK, SessionTypeOK
<1>6. TokensOf(s)' = TokensOf(s)
  <2>1. stored' = stored \cup Inserted(r)
    BY DEF Commit
  <2> QED
    BY <1>4, <1>5, <2>1 DEF TokensOf
<1>7. stored \cap Active' \subseteq Active
  BY DEF Active, Commit
<1>8. ~Alive(s)'
  BY <1>2, <1>5, <1>6, <1>7 DEF Lapsed, Alive, Expired, TokensOf
<1>9. ASSUME NEW q \in Request, InTime(q)' PROVE presented'[q] \notin TokensOf(s)'
  <2>1. q # r
    BY <1>2, <1>9 DEF InTime
  <2>2. /\ pc'[q] = pc[q] /\ op'[q] = op[q] /\ presented'[q] = presented[q]
        /\ clock'[q] = clock[q]
    BY <1>2, <2>1 DEF OnlyRequest
  <2>3. presented[q] \in stored \cup {NoToken}
    BY DEF Shape, IdleShape
  <2>4. presented[q] # NoToken => InTime(q)
    BY <1>5, <1>7, <1>9, <2>2, <2>3 DEF InTime, Expired
  <2>5. NoToken \notin TokensOf(s)
    BY DEF TokensOf, TypeOK, SessionTypeOK
  <2> QED
    BY <1>6, <2>2, <2>4, <2>5 DEF Lapsed
<1> QED
  BY <1>6, <1>8, <1>9 DEF Lapsed, Commit

LEMMA LapsedStays ==
    ASSUME IInv, [Next]_vars, NEW s \in Token, Lapsed(s) PROVE Lapsed(s)'
<1> USE DEF IInv
<1>1. ASSUME NEW r \in Request, Fail(r), UNCHANGED <<sessionVars, now, rowVars>> PROVE Lapsed(s)'
  <2>1. OnlyRequest(r) /\ op'[r] = "none"
    BY <1>1 DEF Fail, OnlyRequest, TypeOK
  <2> QED
    BY <1>1, <2>1, LapsedLocal DEF InTime
<1>2. ASSUME NEW r \in Request,
             BeginRegister(r) \/ BeginLogin(r) \/ BeginRefresh(r) \/ BeginLogout(r)
      PROVE Lapsed(s)'
  <2>1. OnlyRequest(r) /\ pc'[r] \notin {"claim", "issue", "commit"} /\ NoRowChange
    BY <1>2 DEF BeginRegister, BeginLogin, BeginRefresh, BeginLogout, Begin, Goto,
                OnlyRequest, TypeOK
  <2> QED
    BY <2>1, LapsedLocal DEF InTime
<1>3. ASSUME NEW r \in Request, ~Fail(r), CheckEmail(r) \/ SaveAccount(r) \/ Authenticate(r)
      PROVE Lapsed(s)'
  <2>1. OnlyRequest(r) /\ op'[r] = op[r] /\ NoRowChange
    BY <1>3 DEF CheckEmail, SaveAccount, Authenticate, Goto, OnlyRequest, TypeOK
  <2>2. op[r] # "refresh"
    BY <1>3 DEF CheckEmail, SaveAccount, Authenticate, At, Shape, RefreshShape
  <2> QED
    BY <2>1, <2>2, LapsedLocal DEF InTime
<1>4. ASSUME NEW r \in Request, ~Fail(r), FindActive(r) PROVE Lapsed(s)'
  <2>1. OnlyRequest(r) /\ pc'[r] = "clock" /\ NoRowChange
    BY <1>4 DEF FindActive, Goto, OnlyRequest, TypeOK
  <2> QED
    BY <2>1, LapsedLocal DEF InTime
<1>5. ASSUME NEW r \in Request, ReadClock(r) PROVE Lapsed(s)'
  <2>1. /\ OnlyRequest(r) /\ pc'[r] = "claim" /\ clock'[r] = now
        /\ presented' = presented /\ NoRowChange
    BY <1>5 DEF ReadClock, Goto, OnlyRequest, TypeOK
  <2>2. InTime(r)' => presented'[r] \in Active /\ ~Expired(presented[r], now)
    BY <2>1 DEF InTime, Expired, Active, NoRowChange, sessionVars, rowVars
  <2> QED
    BY <2>1, <2>2, LapsedLocal DEF Lapsed, Alive
<1>6. ASSUME NEW r \in Request, ~Fail(r), RevokeIfActive(r) PROVE Lapsed(s)'
  <2>1. OnlyRequest(r) /\ presented' = presented /\ op' = op /\ NoRowChange
    BY <1>6 DEF RevokeIfActive, Goto, OnlyRequest, TypeOK
  <2>2. op[r] = "refresh" => InTime(r)
    BY <1>6 DEF RevokeIfActive, StillActive, InTime, At
  <2> QED
    BY <2>1, <2>2, LapsedLocal DEF Lapsed, InTime
<1>7. ASSUME NEW r \in Request, Issue(r) PROVE Lapsed(s)'
  <2>1. OnlyRequest(r) /\ presented' = presented /\ op' = op /\ NoRowChange
    BY <1>7 DEF Issue, Goto, OnlyRequest, TypeOK
  <2>2. op[r] = "refresh" => InTime(r)
    BY <1>7 DEF Issue, InTime, At, Shape, RefreshShape, Expired, TypeOK, SessionTypeOK
  <2> QED
    BY <2>1, <2>2, LapsedLocal DEF Lapsed, InTime
<1>8. ASSUME NEW r \in Request, FindForRevoke(r) \/ WriteRevoked(r) PROVE Lapsed(s)'
  <2>1. OnlyRequest(r) /\ op'[r] = op[r] /\ NoRowChange
    BY <1>8 DEF FindForRevoke, WriteRevoked, Goto, OnlyRequest, TypeOK
  <2>2. op[r] # "refresh"
    BY <1>8 DEF FindForRevoke, WriteRevoked, At, Shape, RefreshShape
  <2> QED
    BY <2>1, <2>2, LapsedLocal DEF InTime
<1>9. CASE Crash
  <2>1. Alive(s)' = Alive(s) /\ s \in stored'
    BY <1>9 DEF Crash, NoRowChange, sessionVars, rowVars, Alive, TokensOf, Active, Expired, Lapsed
  <2>2. \A r \in Request : ~InTime(r)'
    BY <1>9 DEF Crash, InTime
  <2> QED
    BY <2>1, <2>2 DEF Lapsed
<1>10. CASE Tick \/ UNCHANGED vars
  <2>1. /\ UNCHANGED <<sessionVars, rowVars, requestVars>>
        /\ now' \in {now, now + 1} /\ now \in Nat /\ expiresAt \in [Token -> Nat]
    BY <1>10, ClockAssumption DEF Tick, vars, TypeOK
  <2>2. TokensOf(s)' = TokensOf(s) /\ Active' = Active /\ TokensOf(s) \subseteq Token
    BY <2>1 DEF TokensOf, Active, sessionVars, TypeOK, SessionTypeOK
  <2>3. \A t \in Token : Expired(t, now) => Expired(t, now)'
    BY <2>1 DEF Expired, rowVars
  <2>4. \A r \in Request : InTime(r)' = InTime(r) /\ presented'[r] = presented[r]
    BY <2>1, <2>2 DEF InTime, Expired, requestVars, rowVars
  <2> QED
    BY <2>1, <2>2, <2>3, <2>4 DEF Lapsed, Alive, sessionVars
<1>11. ASSUME NEW r \in Request, Abort(r) \/ Reply(r) PROVE Lapsed(s)'
  BY <1>1, <1>11 DEF Abort, Reply, NoRowChange
<1>12. ASSUME NEW r \in Request, Fail(r),
              \/ CheckEmail(r) \/ SaveAccount(r) \/ Authenticate(r)
              \/ FindActive(r) \/ RevokeIfActive(r)
       PROVE Lapsed(s)'
  BY <1>1, <1>12 DEF CheckEmail, SaveAccount, Authenticate, FindActive, RevokeIfActive, NoRowChange
<1> QED
  BY <1>2, <1>3, <1>4, <1>5, <1>6, <1>7, <1>8, <1>9, <1>10, <1>11, <1>12, LapsedCommit DEF Next

(* A session that has lapsed is never continued, for every number of         *)
(* requests and tokens and every wait for a row.                             *)
THEOREM LapsedTheorem == Spec => LapsedForGood
<1>1. IInv /\ [Next]_vars => [\A s \in Token : Lapsed(s) => Lapsed(s)']_vars
  BY LapsedStays
<1> QED
  BY <1>1, InductiveInvariant, PTL DEF Spec, LapsedForGood
-----------------------------------------------------------------------------
(* The transactions implement the atomic sessions: COMMIT is the one step    *)
(* that shows, and it is an Open, a Replace or a Close.                      *)
LEMMA CommitRefines ==
    ASSUME IInv, NEW r \in Request, Commit(r)
    PROVE  SessionNext \/ UNCHANGED sessionVars
<1> USE NoTokenAssumption DEF IInv, Commit
<1>1. Shape(r) /\ op[r] \in {"register", "login", "refresh", "logout"} /\ pc[r] = "commit"
  BY DEF TypeOK, Endpoint, Shape, IdleShape, At
<1>2. CASE op[r] \in {"register", "login"}
  <2>1. fresh[r] \in Token \ stored /\ presented[r] = NoToken /\ claimed[r] = {}
    BY <1>1, <1>2 DEF Shape, OpenShape, IdleShape
  <2>2. Open(fresh[r])
    BY <1>2, <2>1 DEF Open, Inserted, LoggedOut, TypeOK, SessionTypeOK
  <2> QED
    BY <2>1, <2>2 DEF SessionNext
<1>3. CASE op[r] = "refresh"
  <2>1. /\ fresh[r] \in Token \ stored
        /\ presented[r] \in Active
        /\ presented[r] \in Token
        /\ claimed[r] = {presented[r]}
    BY <1>1, <1>3 DEF Shape, RefreshShape, IdleShape
  <2>2. Replace(presented[r], fresh[r])
    BY <1>3, <2>1 DEF Replace, Inserted, LoggedOut, TypeOK, SessionTypeOK
  <2> QED
    BY <2>1, <2>2 DEF SessionNext
<1>4. CASE op[r] = "logout"
  <2>1. Inserted(r) = {}
    BY <1>1, <1>4 DEF Inserted, Shape, LogoutShape
  <2>2. parent' = parent /\ session' = session /\ stored' = stored
    BY <2>1 DEF TypeOK, SessionTypeOK
  <2>3. CASE presented[r] = NoToken
    <3>1. claimed[r] = {}
      BY <1>1, <1>4, <2>3 DEF Shape, LogoutShape, TypeOK, SessionTypeOK
    <3> QED
      BY <2>2, <2>3, <3>1 DEF LoggedOut, sessionVars
  <2>4. CASE presented[r] # NoToken
    <3>1. presented[r] \in stored /\ presented[r] \in Token
      BY <1>1, <2>4 DEF Shape, IdleShape, TypeOK
    <3>2. revoked' = revoked \cup {presented[r]}
      BY <1>1, <1>4, <2>4 DEF Shape, LogoutShape
    <3>3. Close(presented[r])
      BY <1>4, <2>2, <2>4, <3>1, <3>2 DEF Close, LoggedOut
    <3> QED
      BY <3>1, <3>3 DEF SessionNext
  <2> QED
    BY <2>3, <2>4
<1> QED
  BY <1>1, <1>2, <1>3, <1>4

(* The service implements the atomic sessions.                               *)
THEOREM ImplementsSessions == Spec => SessionSpec
<1>1. Init => SessionInit
  BY DEF Init
<1>2. IInv /\ [Next]_vars => [SessionNext]_sessionVars
  <2> SUFFICES ASSUME IInv, [Next]_vars, sessionVars' # sessionVars PROVE SessionNext
    OBVIOUS
  <2>1. ASSUME NEW r \in Request, NoRowChange \/ Reply(r) PROVE FALSE
    BY <2>1 DEF NoRowChange, Reply
  <2>2. PICK r \in Request : Commit(r)
    BY <2>1 DEF Next, vars, Crash, Tick, BeginRegister, BeginLogin, BeginRefresh,
       BeginLogout, Begin, CheckEmail, SaveAccount, Authenticate, FindActive, ReadClock,
       RevokeIfActive, Issue, FindForRevoke, WriteRevoked, Abort, NoRowChange
  <2> QED
    BY <2>2, CommitRefines
<1> QED
  BY <1>1, <1>2, InductiveInvariant, PTL DEF Spec, SessionSpec

(* So no interleaving of refreshes forks a chain of tokens, ...              *)
THEOREM RotationNeverForks == Spec => []NoFork
<1>1. SessionInv => NoFork
  BY DEF SessionInv
<1> QED
  BY <1>1, ImplementsSessions, SessionsSafe, PTL

(* ... at most one token of a login can still be used, ...                   *)
THEOREM SessionsStaySingle == Spec => []OneActivePerSession
<1>1. SessionInv => OneActivePerSession
  BY DEF SessionInv
<1> QED
  BY <1>1, ImplementsSessions, SessionsSafe, PTL

(* ... a failed refresh never costs the session, ...                         *)
THEOREM SessionsSurvive == Spec => []NoLostSession
<1>1. SessionInv => NoLostSession
  BY DEF SessionInv
<1> QED
  BY <1>1, ImplementsSessions, SessionsSafe, PTL

(* ... and a token that was logged out gets no successor any more.           *)
THEOREM LogoutStays == Spec => LogoutIsFinal
<1>1. SessionInv /\ [SessionNext]_sessionVars =>
        [\A t \in ended : \A n \in stored' \ stored : parent'[n] # t]_sessionVars
  <2> SUFFICES ASSUME SessionInv, SessionNext,
                      NEW t \in ended, NEW n \in stored' \ stored
               PROVE  parent'[n] # t
    OBVIOUS
  <2> USE NoTokenAssumption DEF SessionInv, SessionTypeOK
  <2>1. ASSUME NEW m \in Token, Open(m) PROVE parent'[n] # t
    BY <2>1 DEF Open
  <2>2. ASSUME NEW s \in Token, NEW m \in Token, Replace(s, m) PROVE parent'[n] # t
    BY <2>2 DEF Replace, Active
  <2>3. ASSUME NEW s \in Token, Close(s) PROVE parent'[n] # t
    BY <2>3 DEF Close
  <2> QED
    BY <2>1, <2>2, <2>3 DEF SessionNext
<1> QED
  BY <1>1, ImplementsSessions, SessionsSafe, PTL DEF SessionSpec, LogoutIsFinal
=============================================================================
