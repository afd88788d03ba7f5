----------------------- MODULE DashboardSession_proofs -----------------------
(* Theorems about the sign-in of a dashboard page, for every number of calls *)
(* under way, of tokens and of requests the page no longer waits for.        *)
EXTENDS DashboardSession, TLAPS

Place == {"idle", "called", "send", "server", "answered", "resume", "done"}
Kind == {"fetch", "login", "logout"}

(* Tokens the page, the browser or a request can hold: those with a row.     *)
Known == stored \cup {NoToken}

StoreOK ==
    /\ SessionTypeOK
    /\ \A t \in stored : session[t] \in stored
    /\ lapsed \subseteq expired /\ expired \subseteq stored
BrowserOK ==
    /\ {cookie, page, notice} \subseteq Known
    /\ storage = page
    /\ lost \subseteq {cookie}
CallsOK ==
    /\ pc \in [Call -> Place]
    /\ op \in [Call -> Kind]
    /\ held \in [Call -> Known]
    /\ presented \in [Call -> Known]
    /\ ok \in [Call -> BOOLEAN]
    /\ reply \in [Call -> Known]
    /\ stray \subseteq Kind \X Known
SwitchesOK == reliable \in BOOLEAN /\ serial \in BOOLEAN /\ signedOut \in BOOLEAN
KnownInv == StoreOK /\ BrowserOK /\ CallsOK /\ SwitchesOK

(* A token on its way to the browser is nowhere else yet, and active.        *)
Delivers(c) == At(c, "answered") /\ ok[c]
Fresh(c) ==
    Delivers(c) /\ reply[c] # NoToken =>
      /\ reply[c] \notin revoked /\ reply[c] # cookie
      /\ \A d \in Call : presented[d] # reply[c]
      /\ \A s \in stray : s[2] # reply[c]
      /\ \A d \in Call \ {c} : Delivers(d) => reply[d] # reply[c]
Replaced ==
    cookie \in revoked =>
      cookie \in lost \/ \E c \in Call : Delivers(c) /\ presented[c] = cookie
FreshInv == Replaced /\ \A c \in Call : Fresh(c)

(* The conditions of the serial properties: then at most one call is under   *)
(* way, and the token of the page's session is the one in the cookie, or the *)
(* one that call brings.                                                     *)
Calm == reliable /\ serial
Busy(c) == ~At(c, "idle")
Live == Active \ lapsed
OwnedBy(x, keeper) == \A t \in Live : session[t] = session[x] => t = keeper
Mine(c) == {page, cookie, held[c], reply[c]} \ {NoToken}

Shape(c) ==
    /\ At(c, "idle") => op[c] = "fetch" /\ held[c] = NoToken /\ reply[c] = NoToken
    /\ pc[c] \in {"called", "send", "done"} => op[c] = "fetch"
    /\ op[c] = "login" => page = NoToken /\ held[c] = NoToken
Owned(c) == ~Delivers(c) => \A x \in Mine(c) : OwnedBy(x, cookie)
Brings(c) ==
    Delivers(c) =>
      IF op[c] = "login" THEN OwnedBy(reply[c], reply[c])
      ELSE \A x \in Mine(c) : OwnedBy(x, reply[c])
Presents(c) ==
    At(c, "server") /\ op[c] # "login" =>
        presented[c] = cookie \/ (cookie = NoToken /\ presented[c] \notin Live)
Refused(c) == op[c] = "fetch" /\ pc[c] \in {"answered", "resume"} /\ ~ok[c] => cookie \notin Live
SignsOut(c) ==
    /\ op[c] = "logout" /\ At(c, "answered") => ok[c] /\ reply[c] = NoToken
    /\ signedOut /\ Busy(c) =>
         \/ op[c] = "logout" /\ At(c, "resume")
         \/ op[c] = "login" /\ ~(At(c, "resume") /\ ok[c])
Left(c) ==
    signedOut => cookie = NoToken /\ (page = NoToken \/ (op[c] = "logout" /\ At(c, "resume")))
CallOK(c) == Shape(c) /\ Owned(c) /\ Brings(c) /\ Presents(c) /\ Refused(c) /\ SignsOut(c) /\ Left(c)

(* A state with no call under way but c.                                     *)
Resting(c) == At(c, "idle") /\ op[c] = "fetch" /\ held[c] = NoToken /\ reply[c] = NoToken
Sole(c) == (\A d \in Call \ {c} : Resting(d)) /\ CallOK(c)
SerialInv ==
    reliable =>
      /\ stray = {}
      /\ serial => NoticeIsTrue /\ CookieExpires /\ (Call = {} \/ \E c \in Call : Sole(c))
-----------------------------------------------------------------------------
LEMMA InitKnown == Init => KnownInv
<1> SUFFICES ASSUME Init PROVE KnownInv
  OBVIOUS
<1>1. StoreOK /\ BrowserOK
  BY NoTokenAssumption DEF Init, SessionInit, SessionTypeOK, StoreOK, BrowserOK, Known
<1>2. CallsOK
  BY DEF Init, CallsOK, Known, Place, Kind
<1>3. SwitchesOK
  BY Zenon DEF Init, SwitchesOK
<1> QED  BY <1>1, <1>2, <1>3 DEF KnownInv

(* What the server does to the table, whatever it was asked.                 *)
Served(t, status, n) ==
    /\ SessionTypeOK' /\ \A x \in stored' : session'[x] \in stored'
    /\ stored \subseteq stored' /\ n \in stored' \cup {NoToken}
    /\ n = NoToken => stored' = stored
    /\ n # NoToken => status = TRUE /\ n \in Token \ stored /\ stored' = stored \cup {n}
    /\ revoked \subseteq revoked' /\ revoked' \subseteq revoked \cup {t}
    /\ t \in revoked' \ revoked => status = TRUE
    /\ \A x \in stored : session'[x] = session[x]

LEMMA ServeEffect ==
    ASSUME StoreOK, NEW o \in Kind, NEW t \in Known, NEW status \in BOOLEAN, NEW n \in Held,
           Serve(o, t, status, n)
    PROVE  Served(t, status, n)
<1> USE NoTokenAssumption DEF StoreOK, SessionTypeOK, Known, Held, Served
<1>1. CASE Open(n) /\ status = TRUE
  BY <1>1 DEF Open
<1>2. CASE Replace(t, n) /\ status = TRUE
  BY <1>2 DEF Replace, Active
<1>3. CASE Close(t) /\ status = TRUE /\ n = NoToken
  BY <1>3 DEF Close
<1>4. CASE UNCHANGED sessionVars /\ n = NoToken
  BY <1>4 DEF sessionVars
<1> QED
  BY <1>1, <1>2, <1>3, <1>4 DEF Serve, Refresh, RevokeCookie, Authenticate

(* The rows only grow, and with them what may be held.                       *)
LEMMA CallsKnown ==
    ASSUME CallsOK, stored \subseteq stored', UNCHANGED <<callVars, stray>>
    PROVE  CallsOK'
BY DEF CallsOK, callVars, Known

LEMMA FinishKnown ==
    ASSUME CallsOK, stored \subseteq stored', NEW c \in Call, Finish(c), UNCHANGED stray
    PROVE  CallsOK'
BY DEF Finish, Goto, CallsOK, Known, Place, Kind

LEMMA StoreStays ==
    ASSUME StoreOK, UNCHANGED <<sessionVars, expired, lapsed>>
    PROVE  StoreOK' /\ Known' = Known
BY DEF StoreOK, SessionTypeOK, sessionVars, Known

LEMMA LocalKnown ==
    ASSUME KnownInv, NEW c \in Call,
           Fetch(c) \/ Answered(c) \/ Proceed(c) \/ RotateSession(c) \/ Login(c) \/ Logout(c)
    PROVE  KnownInv'
<1>1. UNCHANGED <<sessionVars, timeVars, stray, historyVars, cookie, storage, page>>
  BY DEF Fetch, Answered, Proceed, RotateSession, Login, Logout, Start, browserVars
<1>2. StoreOK' /\ Known' = Known
  BY <1>1, StoreStays DEF KnownInv, timeVars
<1>3. notice' \in {notice, NoToken}
  BY DEF Fetch, Answered, Proceed, RotateSession, Login, Logout, browserVars
<1>4. BrowserOK'
  BY <1>1, <1>2, <1>3 DEF KnownInv, BrowserOK, historyVars, Known
<1>5. CallsOK'
  <2>1. CASE Fetch(c) \/ Login(c) \/ Logout(c)
    <3>1. PICK o \in Kind, h \in Known, s \in Place : Start(c, o, h, s)
      BY <2>1 DEF Fetch, Login, Logout, KnownInv, BrowserOK, Kind, Place, Known
    <3> QED  BY <1>2, <3>1 DEF Start, Goto, KnownInv, CallsOK, BrowserOK, Known
  <2>2. CASE Answered(c)
    BY <1>2, <2>2 DEF Answered, Goto, KnownInv, CallsOK, Place
  <2>3. CASE Proceed(c)
    <3>1. CASE Finish(c)
      BY <1>1, <3>1, FinishKnown DEF KnownInv, sessionVars
    <3>2. CASE Goto(c, "called") /\ UNCHANGED <<op, held, presented, ok, reply>>
      BY <1>1, <1>2, <3>2 DEF Goto, KnownInv, CallsOK, Place
    <3> QED  BY <2>3, <3>1, <3>2 DEF Proceed
  <2>4. CASE RotateSession(c)
    BY <1>2, <2>4 DEF RotateSession, Goto, KnownInv, CallsOK, BrowserOK, Place
  <2> QED  BY <2>1, <2>2, <2>3, <2>4
<1>6. SwitchesOK'
  BY <1>1 DEF KnownInv, SwitchesOK, timeVars, conditionVars, historyVars
<1> QED  BY <1>2, <1>4, <1>5, <1>6 DEF KnownInv

LEMMA AnswerKnown ==
    ASSUME CallsOK, stored \subseteq stored', NEW c \in Call, NEW status \in BOOLEAN,
           NEW n \in stored' \cup {NoToken}, Answer(c, status, n)
    PROVE  CallsOK'
BY DEF Answer, Goto, CallsOK, Known, Place

LEMMA AnswerIsQuiet ==
    ASSUME NEW c, NEW status, NEW n, Answer(c, status, n)
    PROVE  UNCHANGED <<timeVars, browserVars, stray>>
BY DEF Answer

(* The request as the server sees it.                                        *)
LEMMA ServedRequest ==
    ASSUME KnownInv, NEW c \in Call, AtServer(c)
    PROVE  \E o \in Kind, t \in Known, status \in BOOLEAN, n \in Held :
              o = op[c] /\ t = presented[c] /\ Serve(o, t, status, n) /\ Answer(c, status, n)
<1>1. op[c] \in Kind /\ presented[c] \in Known
  BY DEF KnownInv, CallsOK
<1> QED  BY <1>1 DEF AtServer, Serve, Refresh, RevokeCookie, Authenticate

LEMMA ServerKnown ==
    ASSUME KnownInv, NEW c \in Call, AtServer(c) \/ Unavailable(c) \/ TimedOut(c)
    PROVE  KnownInv'
<1>1. PICK status \in BOOLEAN, n \in Held : Answer(c, status, n)
  BY DEF AtServer, Unavailable, TimedOut, Held
<1>2. UNCHANGED <<timeVars, browserVars, stray, signedOut>>
  BY <1>1, AnswerIsQuiet DEF AtServer, Unavailable, TimedOut, historyVars
<1>3. lost' \subseteq {cookie'}
  BY <1>2 DEF AtServer, Unavailable, TimedOut, historyVars, KnownInv, BrowserOK, browserVars
<1>4. SwitchesOK'
  BY <1>2 DEF KnownInv, SwitchesOK, timeVars, conditionVars
<1>5. CASE AtServer(c)
  <2>1. PICK o \in Kind, t \in Known, st \in BOOLEAN, m \in Held :
          o = op[c] /\ t = presented[c] /\ Serve(o, t, st, m) /\ Answer(c, st, m)
    BY <1>5, ServedRequest
  <2>2. /\ SessionTypeOK' /\ \A x \in stored' : session'[x] \in stored'
        /\ stored \subseteq stored' /\ m \in stored' \cup {NoToken}
    <3>1. Served(t, st, m)
      BY <2>1, ServeEffect DEF KnownInv
    <3> QED  BY <3>1 DEF Served
  <2>3. StoreOK'
    BY <1>2, <2>2 DEF KnownInv, StoreOK, timeVars
  <2>4. CallsOK'
    BY <2>1, <2>2, AnswerKnown DEF KnownInv
  <2>5. BrowserOK'
    BY <1>2, <1>3, <2>2 DEF KnownInv, BrowserOK, browserVars, Known
  <2> QED  BY <1>4, <2>3, <2>4, <2>5 DEF KnownInv
<1>6. CASE Unavailable(c) \/ TimedOut(c)
  <2>1. UNCHANGED sessionVars /\ Answer(c, FALSE, NoToken)
    BY <1>6 DEF Unavailable, TimedOut
  <2>2. StoreOK' /\ Known' = Known
    BY <1>2, <2>1, StoreStays DEF KnownInv, timeVars
  <2>3. CallsOK'
    BY <2>1, AnswerKnown DEF KnownInv, sessionVars
  <2>4. BrowserOK'
    BY <1>2, <1>3, <2>2 DEF KnownInv, BrowserOK, browserVars
  <2> QED  BY <1>4, <2>2, <2>3, <2>4 DEF KnownInv
<1> QED  BY <1>5, <1>6

LEMMA ReceiveKnown ==
    ASSUME KnownInv, NEW c \in Call, Receive(c)
    PROVE  KnownInv'
<1>1. UNCHANGED <<sessionVars, timeVars, storage, page, notice, stray>>
  BY DEF Receive
<1>2. StoreOK' /\ Known' = Known
  BY <1>1, StoreStays DEF KnownInv, timeVars
<1>3. CallsOK'
  BY <1>2 DEF Receive, Goto, KnownInv, CallsOK, Place
<1>4. cookie' \in Known /\ lost' \subseteq {cookie'}
  BY DEF Receive, KnownInv, CallsOK, BrowserOK
<1>5. BrowserOK'
  BY <1>1, <1>2, <1>4 DEF KnownInv, BrowserOK
<1>6. signedOut' \in BOOLEAN
  <2>1. signedOut' = (op[c] = "logout") \/ signedOut' = signedOut
    BY DEF Receive
  <2>2. (op[c] = "logout") \in BOOLEAN /\ signedOut \in BOOLEAN
    BY DEF KnownInv, SwitchesOK
  <2> QED  BY <2>1, <2>2, Zenon
<1>7. SwitchesOK'
  BY <1>1, <1>6 DEF KnownInv, SwitchesOK, timeVars, conditionVars
<1> QED  BY <1>2, <1>3, <1>5, <1>7 DEF KnownInv

LEMMA ResumeKnown ==
    ASSUME KnownInv, NEW c \in Call, Resume(c)
    PROVE  KnownInv'
<1>1. UNCHANGED <<sessionVars, timeVars, stray, historyVars>>
  BY DEF Resume
<1>2. StoreOK' /\ Known' = Known
  BY <1>1, StoreStays DEF KnownInv, timeVars
<1>3. CallsOK'
  <2>1. CASE Finish(c)
    BY <1>1, <2>1, FinishKnown DEF KnownInv, sessionVars
  <2>2. CASE Goto(c, "done") /\ UNCHANGED <<op, held, presented, ok, reply>>
    BY <1>1, <1>2, <2>2 DEF Goto, KnownInv, CallsOK, Place
  <2> QED  BY <2>1, <2>2 DEF Resume, ResumeFetch, ResumeLogin, ResumeLogout
<1>4. /\ cookie' = cookie /\ storage' = page' /\ page' \in Known
      /\ notice' \in Known
  BY DEF Resume, ResumeFetch, ResumeLogin, ResumeLogout, SetSession, KnownInv, BrowserOK, CallsOK,
         Known
<1>5. BrowserOK'
  BY <1>1, <1>2, <1>4 DEF KnownInv, BrowserOK, historyVars
<1>6. SwitchesOK'
  BY <1>1 DEF KnownInv, SwitchesOK, timeVars, conditionVars, historyVars
<1> QED  BY <1>2, <1>3, <1>5, <1>6 DEF KnownInv

LEMMA DisconnectKnown ==
    ASSUME KnownInv, NEW c \in Call, Disconnect(c)
    PROVE  KnownInv'
<1>1. UNCHANGED <<sessionVars, timeVars, browserVars, signedOut>>
  BY DEF Disconnect
<1>2. StoreOK' /\ Known' = Known
  BY <1>1, StoreStays DEF KnownInv, timeVars
<1>3. stray' \subseteq Kind \X Known
  BY DEF Disconnect, Unanswered, KnownInv, CallsOK
<1>4. CallsOK'
  <2>1. CASE Finish(c)
    BY <1>2, <1>3, <2>1 DEF Finish, Goto, KnownInv, CallsOK, Known, Place, Kind
  <2>2. CASE /\ Goto(c, "resume") /\ ok' = [ok EXCEPT ![c] = FALSE]
             /\ UNCHANGED <<op, held, presented, reply>>
    BY <1>2, <1>3, <2>2 DEF Goto, KnownInv, CallsOK, Place
  <2> QED  BY <2>1, <2>2 DEF Disconnect
<1>5. lost' \subseteq {cookie}
  BY DEF Disconnect, Dropped, KnownInv, BrowserOK
<1>6. BrowserOK'
  BY <1>1, <1>2, <1>5 DEF KnownInv, BrowserOK, browserVars
<1>7. SwitchesOK'
  BY <1>1 DEF KnownInv, SwitchesOK, timeVars, conditionVars
<1> QED  BY <1>2, <1>4, <1>6, <1>7 DEF KnownInv

LEMMA StrayKnown ==
    ASSUME KnownInv, ServeStray \/ DropStray
    PROVE  KnownInv'
<1>1. UNCHANGED <<timeVars, browserVars, callVars, signedOut>> /\ stray' \subseteq stray
  BY DEF ServeStray, DropStray, historyVars
<1>2. lost' \subseteq {cookie}
  BY DEF ServeStray, DropStray, historyVars, KnownInv, BrowserOK
<1>3. SwitchesOK'
  BY <1>1 DEF KnownInv, SwitchesOK, timeVars, conditionVars
<1>4. /\ SessionTypeOK' /\ \A x \in stored' : session'[x] \in stored'
      /\ stored \subseteq stored'
  <2>1. CASE ServeStray
    <3>1. PICK s \in stray, status \in BOOLEAN, n \in Held : Serve(s[1], s[2], status, n)
      BY <2>1 DEF ServeStray
    <3>2. s[1] \in Kind /\ s[2] \in Known
      BY DEF KnownInv, CallsOK
    <3>3. Served(s[2], status, n)
      BY <3>1, <3>2, ServeEffect DEF KnownInv
    <3> QED  BY <3>3 DEF Served
  <2>2. CASE DropStray
    BY <2>2, StoreStays DEF DropStray, timeVars, KnownInv, StoreOK, sessionVars
  <2> QED  BY <2>1, <2>2
<1>5. StoreOK' /\ BrowserOK'
  BY <1>1, <1>2, <1>4 DEF KnownInv, StoreOK, BrowserOK, Known, timeVars, browserVars
<1>6. CallsOK'
  BY <1>1, <1>4 DEF KnownInv, CallsOK, Known, callVars
<1> QED  BY <1>3, <1>5, <1>6 DEF KnownInv

LEMMA ReloadKnown ==
    ASSUME KnownInv, Reload
    PROVE  KnownInv'
<1>1. UNCHANGED <<sessionVars, timeVars, cookie, storage, signedOut>>
      /\ page' = storage /\ notice' = NoToken
  BY DEF Reload
<1>2. StoreOK' /\ Known' = Known
  BY <1>1, StoreStays DEF KnownInv, timeVars
<1>3. CallsOK'
  <2>1. stray' \subseteq Kind \X Known
    BY DEF Reload, Unanswered, KnownInv, CallsOK
  <2> QED  BY <1>2, <2>1 DEF Reload, CallsOK, Place, Kind, Known
<1>4. lost' \subseteq {cookie}
  BY DEF Reload, Dropped, KnownInv, BrowserOK
<1>5. BrowserOK'
  BY <1>1, <1>2, <1>4 DEF KnownInv, BrowserOK, Known
<1>6. SwitchesOK'
  BY <1>1 DEF KnownInv, SwitchesOK, timeVars, conditionVars
<1> QED  BY <1>2, <1>3, <1>5, <1>6 DEF KnownInv

LEMMA ClockKnown ==
    ASSUME KnownInv, NEW t \in Token, ExpireAccess(t) \/ Lapse(t)
    PROVE  KnownInv'
<1>1. UNCHANGED <<conditionVars, sessionVars, storage, page, notice, callVars, stray, signedOut>>
  BY DEF ExpireAccess, Lapse, browserVars, historyVars
<1>2. StoreOK'
  BY <1>1 DEF ExpireAccess, Lapse, KnownInv, StoreOK, SessionTypeOK, sessionVars, Active
<1>3. BrowserOK'
  BY <1>1 DEF ExpireAccess, Lapse, KnownInv, BrowserOK, Known, sessionVars, browserVars, historyVars
<1>4. CallsOK'
  BY <1>1, CallsKnown DEF KnownInv, sessionVars
<1>5. SwitchesOK'
  BY <1>1 DEF KnownInv, SwitchesOK, conditionVars
<1> QED  BY <1>2, <1>3, <1>4, <1>5 DEF KnownInv

LEMMA KnownOfSpec == Spec => []KnownInv
<1>1. KnownInv /\ [Next]_vars => KnownInv'
  <2> SUFFICES ASSUME KnownInv, [Next]_vars PROVE KnownInv'
    OBVIOUS
  <2>1. CASE UNCHANGED vars
    BY <2>1 DEF vars, sessionVars, timeVars, conditionVars, browserVars, callVars, historyVars, KnownInv,
                StoreOK, SessionTypeOK, BrowserOK, CallsOK, SwitchesOK, Known
  <2> QED
    BY <2>1, LocalKnown, ServerKnown, ReceiveKnown, ResumeKnown, DisconnectKnown, StrayKnown,
       ReloadKnown, ClockKnown
    DEF Next
<1> QED  BY <1>1, InitKnown, PTL DEF Spec

(* Every variable keeps its type, and nobody holds a token without a row.    *)
THEOREM DashboardTyped == Spec => []DashboardTypeOK
<1>1. KnownInv => DashboardTypeOK
  <2> SUFFICES ASSUME KnownInv PROVE DashboardTypeOK
    OBVIOUS
  <2>1. reliable \in BOOLEAN /\ serial \in BOOLEAN /\ signedOut \in BOOLEAN
    BY DEF KnownInv, SwitchesOK
  <2>2. Known \subseteq Held
    BY DEF KnownInv, StoreOK, SessionTypeOK, Known, Held
  <2>3. /\ held \in [Call -> Held] /\ presented \in [Call -> Held] /\ reply \in [Call -> Held]
        /\ stray \subseteq Kind \X Held
    BY <2>2 DEF KnownInv, CallsOK
  <2> QED
    BY <2>1, <2>3 DEF KnownInv, StoreOK, BrowserOK, CallsOK, DashboardTypeOK, Place, Kind, Known
<1> QED  BY <1>1, KnownOfSpec, PTL
-----------------------------------------------------------------------------
(* Steps in which no token is revoked and the cookie stays: an answer may    *)
(* get lost, and a request may leave with the cookie.                        *)
LEMMA FreshStays ==
    ASSUME FreshInv, UNCHANGED <<revoked, cookie>>, lost \subseteq lost',
           \A d \in Call : Delivers(d)' => Delivers(d) /\ reply'[d] = reply[d],
           \A d \in Call : presented'[d] \in {presented[d], cookie, NoToken},
           \A d \in Call : Delivers(d) =>
              \/ Delivers(d)' /\ presented'[d] = presented[d]
              \/ presented[d] = cookie => cookie \in lost',
           \A s \in stray' : s \in stray \/ \E d \in Call : s[2] = presented[d]
    PROVE  FreshInv'
<1>1. Replaced'
  BY DEF FreshInv, Replaced
<1>2. ASSUME NEW c \in Call, Delivers(c)', reply'[c] # NoToken PROVE Fresh(c)'
  <2>1. Delivers(c) /\ reply'[c] = reply[c] /\ Fresh(c)
    BY <1>2 DEF FreshInv
  <2>2. /\ reply[c] \notin revoked /\ reply[c] # cookie
        /\ \A d \in Call : presented[d] # reply[c]
        /\ \A s \in stray : s[2] # reply[c]
        /\ \A d \in Call \ {c} : Delivers(d) => reply[d] # reply[c]
    BY <1>2, <2>1 DEF Fresh
  <2>3. \A d \in Call : presented'[d] # reply[c]
    BY <1>2, <2>1, <2>2
  <2>4. \A s \in stray' : s[2] # reply[c]
    BY <2>2
  <2>5. \A d \in Call \ {c} : Delivers(d)' => reply'[d] # reply[c]
    BY <2>2
  <2> QED  BY <2>1, <2>2, <2>3, <2>4, <2>5 DEF Fresh
<1>3. \A c \in Call : Fresh(c)'
  BY <1>2 DEF Fresh
<1> QED  BY <1>1, <1>3 DEF FreshInv

LEMMA LocalFresh ==
    ASSUME KnownInv, FreshInv, NEW c \in Call,
           Fetch(c) \/ Answered(c) \/ Proceed(c) \/ RotateSession(c) \/ Login(c) \/ Logout(c)
    PROVE  FreshInv'
<1>1. UNCHANGED <<revoked, cookie, lost, stray>>
  BY DEF Fetch, Answered, Proceed, RotateSession, Login, Logout, Start, browserVars, sessionVars,
         historyVars
<1>2. pc[c] # "answered" /\ pc'[c] # "answered" /\ presented'[c] \in {presented[c], cookie, NoToken}
  BY DEF Fetch, Answered, Proceed, RotateSession, Login, Logout, Start, At, Goto, Finish,
         KnownInv, CallsOK
<1>3. \A d \in Call \ {c} : pc'[d] = pc[d] /\ ok'[d] = ok[d] /\ reply'[d] = reply[d]
                               /\ presented'[d] = presented[d]
  BY DEF Fetch, Answered, Proceed, RotateSession, Login, Logout, Start, Goto, Finish,
         KnownInv, CallsOK
<1>4. /\ \A d \in Call : Delivers(d)' => Delivers(d) /\ reply'[d] = reply[d]
      /\ \A d \in Call : Delivers(d) => Delivers(d)' /\ presented'[d] = presented[d]
  BY <1>2, <1>3 DEF Delivers, At
<1>5. \A d \in Call : presented'[d] \in {presented[d], cookie, NoToken}
  BY <1>2, <1>3
<1> QED  BY <1>1, <1>4, <1>5, FreshStays

LEMMA ServerFresh ==
    ASSUME KnownInv, FreshInv, NEW c \in Call, AtServer(c)
    PROVE  FreshInv'
<1>1. PICK o \in Kind, t \in Known, st \in BOOLEAN, n \in Held :
        o = op[c] /\ t = presented[c] /\ Serve(o, t, st, n) /\ Answer(c, st, n)
  BY ServedRequest
<1>2. Served(t, st, n)
  BY <1>1, ServeEffect DEF KnownInv
<1>3. /\ revoked' \subseteq revoked \cup {t} /\ (t \in revoked' \ revoked => st = TRUE)
      /\ n # NoToken => st = TRUE /\ n \in Token \ stored
  BY <1>2 DEF Served
<1>4. /\ UNCHANGED <<cookie, lost, stray, presented>>
      /\ pc[c] = "server" /\ pc' = [pc EXCEPT ![c] = "answered"]
      /\ ok' = [ok EXCEPT ![c] = st] /\ reply' = [reply EXCEPT ![c] = n]
  BY <1>1 DEF AtServer, Answer, At, Goto, browserVars, historyVars
<1>5. /\ ~Delivers(c)
      /\ pc'[c] = "answered" /\ ok'[c] = st /\ reply'[c] = n
      /\ \A d \in Call \ {c} : pc'[d] = pc[d] /\ ok'[d] = ok[d] /\ reply'[d] = reply[d]
  BY <1>4 DEF KnownInv, CallsOK, Delivers, At
<1>6. Delivers(c)' = (st = TRUE) /\ \A d \in Call \ {c} : Delivers(d)' = Delivers(d)
  BY <1>5 DEF Delivers, At
<1>7. Replaced'
  <2> SUFFICES ASSUME cookie \in revoked', cookie \notin lost
               PROVE  \E d \in Call : Delivers(d)' /\ presented[d] = cookie
    BY <1>4 DEF Replaced
  <2>1. CASE cookie \in revoked
    <3>1. PICK d \in Call : Delivers(d) /\ presented[d] = cookie
      BY <2>1 DEF FreshInv, Replaced
    <3> QED  BY <1>5, <1>6, <3>1
  <2>2. CASE cookie \notin revoked
    BY <1>1, <1>3, <1>6, <2>2
  <2> QED  BY <2>1, <2>2
<1>8. ASSUME NEW d \in Call \ {c}, Delivers(d)', reply'[d] # NoToken PROVE Fresh(d)'
  <2>1. /\ reply[d] \notin revoked /\ reply[d] # cookie
        /\ \A e \in Call : presented[e] # reply[d]
        /\ \A s \in stray : s[2] # reply[d]
        /\ \A e \in Call \ {d} : Delivers(e) => reply[e] # reply[d]
    BY <1>5, <1>6, <1>8 DEF FreshInv, Fresh
  <2>2. reply[d] # n
    BY <1>3, <1>5, <1>8 DEF KnownInv, CallsOK, Known
  <2>3. reply'[d] \notin revoked'
    BY <1>1, <1>3, <1>5, <2>1
  <2>4. \A e \in Call \ {d} : Delivers(e)' => reply'[e] # reply'[d]
    BY <1>5, <1>6, <2>1, <2>2
  <2> QED  BY <1>4, <1>5, <2>1, <2>3, <2>4 DEF Fresh
<1>9. ASSUME n # NoToken PROVE Fresh(c)'
  <2>1. n \notin Known
    BY <1>3, <1>9 DEF Known
  <2>2. n \notin revoked' /\ n # cookie
    BY <1>3, <2>1 DEF KnownInv, StoreOK, SessionTypeOK, BrowserOK, Known
  <2>3. (\A d \in Call : presented[d] # n) /\ (\A s \in stray : s[2] # n)
    BY <2>1 DEF KnownInv, CallsOK
  <2>4. \A d \in Call \ {c} : reply'[d] # n
    BY <1>5, <2>1 DEF KnownInv, CallsOK
  <2> QED  BY <1>4, <1>5, <2>2, <2>3, <2>4 DEF Fresh
<1>10. \A d \in Call : Fresh(d)'
  BY <1>5, <1>8, <1>9 DEF Fresh
<1> QED  BY <1>7, <1>10 DEF FreshInv

LEMMA RefusedFresh ==
    ASSUME KnownInv, FreshInv, NEW c \in Call, Unavailable(c) \/ TimedOut(c) \/ Disconnect(c)
    PROVE  FreshInv'
<1>1. UNCHANGED <<revoked, cookie>> /\ lost \subseteq lost'
  BY DEF Unavailable, TimedOut, Disconnect, Answer, browserVars, sessionVars, historyVars
<1>2. /\ ~Delivers(c)' /\ presented'[c] \in {presented[c], NoToken}
      /\ Delivers(c) /\ presented[c] = cookie => cookie \in lost'
  BY DEF Unavailable, TimedOut, Disconnect, Answer, Goto, Finish, Dropped, Delivers, At,
         KnownInv, CallsOK
<1>3. \A d \in Call \ {c} : pc'[d] = pc[d] /\ ok'[d] = ok[d] /\ reply'[d] = reply[d]
                               /\ presented'[d] = presented[d]
  BY DEF Unavailable, TimedOut, Disconnect, Answer, Goto, Finish, KnownInv, CallsOK
<1>4. /\ \A d \in Call : Delivers(d)' => Delivers(d) /\ reply'[d] = reply[d]
      /\ \A d \in Call : Delivers(d) =>
            \/ Delivers(d)' /\ presented'[d] = presented[d]
            \/ presented[d] = cookie => cookie \in lost'
  BY <1>2, <1>3 DEF Delivers, At
<1>5. \A s \in stray' : s \in stray \/ \E d \in Call : s[2] = presented[d]
  BY DEF Unavailable, TimedOut, Disconnect, Answer, Unanswered
<1>6. \A d \in Call : presented'[d] \in {presented[d], cookie, NoToken}
  BY <1>2, <1>3
<1> QED  BY <1>1, <1>4, <1>5, <1>6, FreshStays

LEMMA ReceiveFresh ==
    ASSUME KnownInv, FreshInv, NEW c \in Call, Receive(c)
    PROVE  FreshInv'
<1>1. UNCHANGED <<revoked, presented, ok, reply, stray>> /\ At(c, "answered")
  BY DEF Receive, sessionVars
<1>2. ~Delivers(c)' /\ \A d \in Call \ {c} : Delivers(d)' = Delivers(d)
  BY DEF Receive, Goto, Delivers, At, KnownInv, CallsOK
<1>3. CASE ok[c]
  <2>1. cookie' = reply[c] /\ Delivers(c)
    BY <1>1, <1>3 DEF Receive, Delivers
  <2>2. cookie' \notin revoked'
    BY <1>1, <2>1, NoTokenAssumption DEF FreshInv, Fresh, KnownInv, StoreOK, SessionTypeOK
  <2>3. \A d \in Call : Fresh(d)'
    BY <1>1, <1>2, <2>1 DEF FreshInv, Fresh
  <2> QED  BY <2>2, <2>3 DEF FreshInv, Replaced
<1>4. CASE ~ok[c]
  <2>1. cookie' = cookie /\ lost' = lost
    BY <1>4 DEF Receive, KnownInv, BrowserOK
  <2>2. ~Delivers(c)
    BY <1>4 DEF Delivers
  <2> QED  BY <1>1, <1>2, <2>1, <2>2, FreshStays
<1> QED  BY <1>3, <1>4

LEMMA ResumeFresh ==
    ASSUME KnownInv, FreshInv, NEW c \in Call, Resume(c)
    PROVE  FreshInv'
<1>1. UNCHANGED <<revoked, cookie, lost, stray>>
  BY DEF Resume, ResumeFetch, ResumeLogin, ResumeLogout, SetSession, sessionVars, historyVars
<1>2. pc[c] # "answered" /\ pc'[c] # "answered" /\ presented'[c] \in {presented[c], NoToken}
  BY DEF Resume, ResumeFetch, ResumeLogin, ResumeLogout, At, Goto, Finish, KnownInv, CallsOK
<1>3. \A d \in Call \ {c} : pc'[d] = pc[d] /\ ok'[d] = ok[d] /\ reply'[d] = reply[d]
                               /\ presented'[d] = presented[d]
  BY DEF Resume, ResumeFetch, ResumeLogin, ResumeLogout, Goto, Finish, KnownInv, CallsOK
<1>4. /\ \A d \in Call : Delivers(d)' => Delivers(d) /\ reply'[d] = reply[d]
      /\ \A d \in Call : Delivers(d) => Delivers(d)' /\ presented'[d] = presented[d]
  BY <1>2, <1>3 DEF Delivers, At
<1>5. \A d \in Call : presented'[d] \in {presented[d], cookie, NoToken}
  BY <1>2, <1>3
<1> QED  BY <1>1, <1>4, <1>5, FreshStays

LEMMA StrayFresh ==
    ASSUME KnownInv, FreshInv, ServeStray \/ DropStray
    PROVE  FreshInv'
<1>1. UNCHANGED <<browserVars, callVars>> /\ stray' \subseteq stray
  BY DEF ServeStray, DropStray
<1>2. CASE ServeStray
  <2>1. PICK s \in stray, status \in BOOLEAN, n \in Held :
          Serve(s[1], s[2], status, n) /\ lost' = lost \cup ({s[2]} \cap {cookie})
    BY <1>2 DEF ServeStray
  <2>2. s[1] \in Kind /\ s[2] \in Known
    BY DEF KnownInv, CallsOK
  <2>3. Served(s[2], status, n)
    BY <2>1, <2>2, ServeEffect DEF KnownInv
  <2>4. revoked' \subseteq revoked \cup {s[2]}
    BY <2>3 DEF Served
  <2>5. Replaced'
    BY <1>1, <2>1, <2>4 DEF FreshInv, Replaced, Delivers, At, browserVars, callVars
  <2>6. \A d \in Call : Fresh(d)'
    BY <1>1, <2>4 DEF FreshInv, Fresh, Delivers, At, browserVars, callVars
  <2> QED  BY <2>5, <2>6 DEF FreshInv
<1>3. CASE DropStray
  BY <1>1, <1>3, FreshStays DEF DropStray, sessionVars, historyVars, browserVars, callVars, Delivers, At
<1> QED  BY <1>2, <1>3

LEMMA ReloadFresh ==
    ASSUME KnownInv, FreshInv, Reload
    PROVE  FreshInv'
<1>1. UNCHANGED <<revoked, cookie>> /\ lost \subseteq lost'
  BY DEF Reload, sessionVars
<1>2. \A d \in Call : ~Delivers(d)' /\ presented'[d] = NoToken
  BY DEF Reload, Delivers, At
<1>3. \A d \in Call : Delivers(d) => (presented[d] = cookie => cookie \in lost')
  BY DEF Reload, Delivers, Dropped
<1>4. \A s \in stray' : s \in stray \/ \E d \in Call : s[2] = presented[d]
  BY DEF Reload, Unanswered
<1> QED  BY <1>1, <1>2, <1>3, <1>4, FreshStays

LEMMA ClockFresh ==
    ASSUME KnownInv, FreshInv, NEW t \in Token, ExpireAccess(t) \/ Lapse(t)
    PROVE  FreshInv'
<1>1. UNCHANGED <<revoked, callVars, stray>> /\ cookie' \in {cookie, NoToken}
      /\ (cookie' = cookie => lost' = lost)
  BY DEF ExpireAccess, Lapse, sessionVars, browserVars, historyVars, KnownInv, BrowserOK
<1>2. Replaced'
  BY <1>1, NoTokenAssumption
  DEF FreshInv, Replaced, Delivers, At, callVars, KnownInv, StoreOK, SessionTypeOK
<1>3. \A d \in Call : Fresh(d)'
  BY <1>1 DEF FreshInv, Fresh, Delivers, At, callVars
<1> QED  BY <1>2, <1>3 DEF FreshInv

(* The browser never sits on a dead cookie (CookieIsCurrent): the answer     *)
(* that replaces or clears it is on its way, unless it got lost.             *)
THEOREM CookieStaysCurrent == Spec => []CookieIsCurrent
<1>1. Init => FreshInv
  BY DEF Init, SessionInit, FreshInv, Replaced, Fresh, Delivers, At
<1>2. KnownInv /\ FreshInv /\ [Next]_vars => FreshInv'
  <2> SUFFICES ASSUME KnownInv, FreshInv, [Next]_vars PROVE FreshInv'
    OBVIOUS
  <2>1. CASE UNCHANGED vars
    BY <2>1 DEF vars, sessionVars, browserVars, callVars, historyVars, FreshInv, Replaced, Fresh,
                Delivers, At
  <2> QED
    BY <2>1, LocalFresh, ServerFresh, RefusedFresh, ReceiveFresh, ResumeFresh, StrayFresh,
       ReloadFresh, ClockFresh
    DEF Next
<1>3. FreshInv => CookieIsCurrent
  BY DEF FreshInv, Replaced, Delivers, CookieIsCurrent
<1> QED  BY <1>1, <1>2, <1>3, KnownOfSpec, PTL DEF Spec
-----------------------------------------------------------------------------
(* From here on one page makes one call at a time and the network loses      *)
(* nothing: c is the call under way, or any call when there is none.         *)
LEMMA SoleIsBusy ==
    ASSUME NEW c \in Call, NEW d \in Call, Sole(d), Busy(c) \/ \A e \in Call : At(e, "idle")
    PROVE  Sole(c)
<1>1. CASE c = d
  BY <1>1
<1>2. CASE c # d
  <2>1. At(c, "idle") /\ Resting(c) /\ At(d, "idle")
    BY <1>2 DEF Sole, Resting, Busy
  <2>2. Resting(d)
    BY <2>1 DEF Sole, CallOK, Shape, Resting
  <2>3. \A e \in Call : Resting(e)
    BY <2>2 DEF Sole
  <2>4. \A x \in Mine(c) : OwnedBy(x, cookie)
    BY <2>1, <2>2 DEF Sole, CallOK, Owned, Delivers, At, Mine, Resting
  <2>5. Left(c)
    BY <2>1 DEF Sole, CallOK, Left, At
  <2> QED
    BY <2>1, <2>3, <2>4, <2>5
    DEF Sole, CallOK, Shape, Owned, Brings, Presents, Refused, SignsOut, Delivers, At, Busy, Resting
<1> QED  BY <1>1, <1>2

LEMMA SoleStarts ==
    ASSUME KnownInv, SerialInv, Calm, NEW c \in Call,
           Fetch(c) \/ Answered(c) \/ Proceed(c) \/ RotateSession(c) \/ Login(c) \/ Logout(c)
    PROVE  SerialInv'
<1>1. PICK d \in Call : Sole(d)
  BY DEF SerialInv, Calm
<1>2. Busy(c) \/ \A e \in Call : At(e, "idle")
  BY DEF Fetch, Answered, Proceed, RotateSession, Login, Logout, Start, Calm, Busy, At
<1>3. Sole(c)
  BY <1>1, <1>2, SoleIsBusy
<1>4. /\ UNCHANGED <<sessionVars, timeVars, stray, historyVars, cookie, page>>
      /\ notice' \in {notice, NoToken}
  BY DEF Fetch, Answered, Proceed, RotateSession, Login, Logout, Start, browserVars
<1>5. Live' = Live /\ session' = session
  BY <1>4 DEF Live, Active, sessionVars, timeVars
<1>6. \A e \in Call \ {c} : Resting(e)'
  BY <1>3 DEF Sole, Resting, At, KnownInv, CallsOK, Fetch, Answered, Proceed, RotateSession, Login,
              Logout, Start, Goto, Finish
<1>7. NoticeIsTrue'
  BY <1>4, <1>5 DEF NoticeIsTrue, SerialInv, Calm, Live
<1>8. ~Delivers(c) /\ ~Delivers(c)' /\ pc'[c] \notin {"answered", "resume"}
  BY DEF Fetch, Answered, Proceed, RotateSession, Login, Logout, Start, Delivers, At, Goto, Finish,
         KnownInv, CallsOK
<1>9. Mine(c)' \subseteq Mine(c)
  BY <1>4 DEF Mine, KnownInv, CallsOK, Fetch, Answered, Proceed, RotateSession, Login, Logout, Start,
              Finish
<1>10. Owned(c)'
  <2>1. \A x \in Mine(c) : OwnedBy(x, cookie)
    BY <1>3, <1>8 DEF Sole, CallOK, Owned
  <2> QED  BY <1>4, <1>5, <1>9, <2>1 DEF Owned, OwnedBy
<1>11. Shape(c)'
  BY <1>3, <1>4 DEF Sole, CallOK, Shape, At, KnownInv, CallsOK, Fetch, Answered, Proceed,
              RotateSession, Login, Logout, Start, Goto, Finish
<1>12. Presents(c)'
  BY <1>4 DEF Presents, At, KnownInv, CallsOK, Fetch, Answered, Proceed, RotateSession, Login, Logout,
              Start, Goto, Finish
<1>13. Brings(c)' /\ Refused(c)'
  BY <1>8 DEF Brings, Refused, Delivers, At
<1>14. SignsOut(c)' /\ Left(c)'
  <2>1. signedOut => Login(c) \/ pc'[c] = "idle"
    BY <1>3 DEF Sole, CallOK, Shape, SignsOut, Left, Busy, At, Fetch, Answered, Proceed,
                RotateSession, Logout, Start
  <2>2. ~signedOut \/ Login(c)
    BY <1>3, <2>1 DEF Sole, CallOK, Shape, SignsOut, Left, Busy, At, Fetch, Answered, Proceed,
                RotateSession, Logout, Start
  <2>3. Login(c) => op'[c] = "login" /\ page = NoToken /\ (signedOut => cookie = NoToken)
    BY <1>3 DEF Sole, CallOK, Left, Login, Start, KnownInv, CallsOK
  <2> QED  BY <1>4, <1>8, <2>2, <2>3 DEF SignsOut, Left, Busy, At, historyVars
<1>15. Sole(c)'
  BY <1>6, <1>10, <1>11, <1>12, <1>13, <1>14 DEF Sole, CallOK
<1>16. CookieExpires'
  BY <1>14 DEF Left, CookieExpires
<1>17. stray' = {}
  BY <1>4 DEF SerialInv, Calm
<1> QED  BY <1>7, <1>15, <1>16, <1>17 DEF SerialInv

(* The server answers: what it leaves alive of the page's session is in the  *)
(* answer.                                                                   *)
LEMMA SoleServed ==
    ASSUME KnownInv, SerialInv, Calm, NEW c \in Call, AtServer(c)
    PROVE  SerialInv'
<1>1. At(c, "server") /\ Busy(c)
  BY DEF AtServer, At, Busy
<1>2. Sole(c)
  BY <1>1, SoleIsBusy DEF SerialInv, Calm
<1>3. PICK o \in Kind, t \in Known, st \in BOOLEAN, n \in Held :
        o = op[c] /\ t = presented[c] /\ Serve(o, t, st, n) /\ Answer(c, st, n)
  BY ServedRequest
<1>4. /\ UNCHANGED <<op, held, timeVars, cookie, page, notice, stray, signedOut>>
      /\ pc' = [pc EXCEPT ![c] = "answered"]
      /\ ok' = [ok EXCEPT ![c] = st] /\ reply' = [reply EXCEPT ![c] = n]
  BY <1>3 DEF AtServer, Answer, Goto, browserVars, historyVars
<1>5. pc'[c] = "answered" /\ ok'[c] = st /\ reply'[c] = n /\ Delivers(c)' = st
  BY <1>4 DEF KnownInv, CallsOK, Delivers, At
<1>6. \A d \in Call \ {c} : Resting(d)'
  BY <1>2, <1>4 DEF Sole, Resting, At, KnownInv, CallsOK
<1>7. ~Delivers(c) /\ \A x \in Mine(c) : OwnedBy(x, cookie)
  BY <1>1, <1>2 DEF Sole, CallOK, Owned, Delivers, At
<1>8. {cookie, page, held[c], notice} \subseteq stored \cup {NoToken} /\ NoToken \notin stored
  BY NoTokenAssumption DEF KnownInv, BrowserOK, CallsOK, Known, StoreOK, SessionTypeOK
<1>9. \A x \in {page, cookie, held[c]} \ {NoToken} : x \in stored /\ OwnedBy(x, cookie)
  BY <1>7, <1>8 DEF Mine
<1>10. Mine(c)' = {page, cookie, held[c], n} \ {NoToken}
  BY <1>4, <1>5 DEF Mine
<1>11. /\ lapsed' = lapsed /\ lapsed \subseteq stored /\ revoked \subseteq stored
       /\ Live = (stored \ revoked) \ lapsed /\ Live' = (stored' \ revoked') \ lapsed
       /\ \A x \in stored : session[x] \in stored
       /\ stored \subseteq Token /\ session \in [Token -> Token \cup {NoToken}]
  BY <1>4 DEF Live, Active, timeVars, KnownInv, StoreOK, SessionTypeOK
<1>12. ~signedOut \/ op[c] = "login"
  BY <1>1, <1>2 DEF Sole, CallOK, SignsOut, At
<1>13. notice # NoToken => \A u \in Live : session[u] # session[notice]
  BY DEF SerialInv, Calm, NoticeIsTrue, Live
\* What each of the services makes true of the answer.
<1>14. /\ Owned(c)' /\ Brings(c)' /\ Refused(c)' /\ NoticeIsTrue'
       /\ op[c] = "logout" => st = TRUE /\ n = NoToken
  <2>1. CASE o = "fetch" /\ t \in Live /\ Replace(t, n) /\ st = TRUE
    <3>1. t = cookie
      BY <1>1, <1>2, <1>3, <2>1 DEF Sole, CallOK, Presents
    <3>2. /\ Live' = (Live \ {t}) \cup {n} /\ n \notin stored
          /\ session'[n] = session[t] /\ \A x \in stored : session'[x] = session[x]
      BY <1>11, <2>1 DEF Replace, Active
    <3>3. t \in stored /\ OwnedBy(t, t)
      BY <1>9, <1>11, <1>8, <2>1, <3>1
    <3>4. \A x \in Mine(c)' : \A u \in Live' : session'[u] = session'[x] => u = n
      BY <1>9, <1>10, <1>11, <3>1, <3>2, <3>3 DEF OwnedBy
    <3>5. \A u \in Live' : notice # NoToken => session'[u] # session'[notice]
      BY <1>8, <1>11, <1>13, <2>1, <3>2
    <3>6. Brings(c)'
      BY <1>3, <1>4, <1>5, <2>1, <3>4 DEF Brings, OwnedBy
    <3>7. Owned(c)' /\ Refused(c)'
      BY <1>5, <2>1 DEF Owned, Refused
    <3>8. NoticeIsTrue'
      BY <1>4, <3>5 DEF NoticeIsTrue, Live
    <3> QED  BY <1>3, <2>1, <3>6, <3>7, <3>8
  <2>2. CASE o = "logout" /\ (t # NoToken => Close(t)) /\ (t = NoToken => UNCHANGED sessionVars)
             /\ st = TRUE /\ n = NoToken
    <3>1. t = cookie \/ (cookie = NoToken /\ t \notin Live)
      BY <1>1, <1>2, <1>3, <2>2 DEF Sole, CallOK, Presents
    <3>2. Live' = Live \ {t} /\ session' = session
      BY <1>8, <1>11, <2>2 DEF Close, sessionVars
    <3>3. \A x \in Mine(c)' : \A u \in Live' : session'[u] # session'[x]
      BY <1>8, <1>9, <1>10, <1>11, <2>2, <3>1, <3>2 DEF OwnedBy
    <3>4. Brings(c)'
      BY <1>3, <1>4, <2>2, <3>3 DEF Brings, OwnedBy
    <3>5. Owned(c)' /\ Refused(c)'
      BY <1>5, <2>2 DEF Owned, Refused
    <3>6. NoticeIsTrue'
      BY <1>4, <1>13, <3>2 DEF NoticeIsTrue, Live
    <3> QED  BY <2>2, <3>4, <3>5, <3>6
  <2>3. CASE o = "login" /\ Open(n) /\ st = TRUE
    <3>1. /\ Live' = Live \cup {n} /\ n \notin stored /\ n # NoToken
          /\ session'[n] = n /\ \A x \in stored : session'[x] = session[x]
      BY <1>11, <2>3, NoTokenAssumption DEF Open
    <3>2. \A u \in Live' : session'[u] = session'[n] => u = n
      BY <1>11, <3>1
    <3>3. \A u \in Live' : notice # NoToken => session'[u] # session'[notice]
      BY <1>8, <1>11, <1>13, <3>1
    <3>4. Brings(c)'
      BY <1>3, <1>4, <1>5, <2>3, <3>2 DEF Brings, OwnedBy
    <3>5. Owned(c)' /\ Refused(c)'
      BY <1>5, <2>3 DEF Owned, Refused
    <3>6. NoticeIsTrue'
      BY <1>4, <3>3 DEF NoticeIsTrue, Live
    <3> QED  BY <1>3, <2>3, <3>4, <3>5, <3>6
  <2>4. CASE UNCHANGED sessionVars /\ st = FALSE /\ n = NoToken /\ o # "logout"
             /\ (o = "fetch" => t \notin Live)
    <3>1. Live' = Live /\ session' = session
      BY <1>11, <2>4 DEF sessionVars
    <3>2. Owned(c)' /\ Brings(c)'
      BY <1>4, <1>5, <1>9, <1>10, <2>4, <3>1 DEF Owned, Brings, OwnedBy
    <3>3. o = "fetch" => cookie \notin Live
      BY <1>1, <1>2, <1>3, <1>8, <1>11, <2>4 DEF Sole, CallOK, Presents
    <3>4. Refused(c)'
      BY <1>3, <1>4, <3>1, <3>3 DEF Refused
    <3>5. NoticeIsTrue'
      BY <1>4, <1>13, <3>1 DEF NoticeIsTrue, Live
    <3> QED  BY <1>3, <2>4, <3>2, <3>4, <3>5
  <2> QED
    BY <1>3, <2>1, <2>2, <2>3, <2>4
    DEF Serve, Refresh, RevokeCookie, Authenticate, Live, Kind
<1>15. Shape(c)' /\ Presents(c)'
  BY <1>1, <1>2, <1>4, <1>5 DEF Sole, CallOK, Shape, Presents, At
<1>16. SignsOut(c)'
  BY <1>4, <1>5, <1>12, <1>14 DEF SignsOut, At
<1>17. Left(c)'
  BY <1>1, <1>2, <1>4, <1>12 DEF Sole, CallOK, Shape, Left, At
<1>18. Sole(c)' /\ CookieExpires'
  BY <1>6, <1>14, <1>15, <1>16, <1>17 DEF Sole, CallOK, Left, CookieExpires
<1> QED  BY <1>4, <1>14, <1>18 DEF SerialInv, Calm

LEMMA SoleReceives ==
    ASSUME KnownInv, SerialInv, Calm, NEW c \in Call, Receive(c)
    PROVE  SerialInv'
<1>1. At(c, "answered") /\ Busy(c)
  BY DEF Receive, At, Busy
<1>2. Sole(c)
  BY <1>1, SoleIsBusy DEF SerialInv, Calm
<1>3. /\ UNCHANGED <<op, held, presented, ok, reply, sessionVars, timeVars, page, notice, stray>>
      /\ pc' = [pc EXCEPT ![c] = "resume"]
      /\ cookie' = IF ok[c] THEN reply[c] ELSE cookie
  BY DEF Receive, Goto
<1>4. pc'[c] = "resume" /\ ~Delivers(c)'
  BY <1>3 DEF KnownInv, CallsOK, Delivers, At
<1>5. Live' = Live /\ session' = session
  BY <1>3 DEF Live, Active, sessionVars, timeVars
<1>6. \A d \in Call \ {c} : Resting(d)'
  BY <1>2, <1>3 DEF Sole, Resting, At, KnownInv, CallsOK
<1>7. NoticeIsTrue'
  BY <1>3, <1>5 DEF NoticeIsTrue, SerialInv, Calm, Live
<1>8. ok[c] \in BOOLEAN /\ op[c] \in Kind
  BY DEF KnownInv, CallsOK
<1>9. \A x \in Mine(c)' : OwnedBy(x, cookie')
  <2>1. CASE ok[c] /\ op[c] = "login"
    BY <1>1, <1>2, <1>3, <2>1 DEF Sole, CallOK, Shape, Brings, Delivers, Mine
  <2>2. CASE ok[c] /\ op[c] # "login"
    BY <1>1, <1>2, <1>3, <2>2 DEF Sole, CallOK, Brings, Delivers, Mine
  <2>3. CASE ~ok[c]
    BY <1>2, <1>3, <2>3 DEF Sole, CallOK, Owned, Delivers, Mine
  <2> QED  BY <2>1, <2>2, <2>3
<1>10. Owned(c)' /\ Brings(c)' /\ Presents(c)'
  BY <1>4, <1>5, <1>9 DEF Owned, Brings, Presents, OwnedBy, At
<1>11. Shape(c)' /\ Refused(c)'
  BY <1>1, <1>2, <1>3, <1>4, <1>5 DEF Sole, CallOK, Shape, Refused, At
<1>12. SignsOut(c)' /\ Left(c)'
  <2>1. CASE op[c] = "fetch"
    <3>1. signedOut' = signedOut /\ ~signedOut
      BY <1>1, <1>2, <2>1 DEF Receive, Sole, CallOK, SignsOut
    <3> QED  BY <1>3, <1>4, <2>1, <3>1 DEF SignsOut, Left, At
  <2>2. CASE op[c] = "logout"
    <3>1. ok[c] /\ reply[c] = NoToken
      BY <1>1, <1>2, <2>2 DEF Sole, CallOK, SignsOut
    <3> QED  BY <1>3, <1>4, <2>2, <3>1 DEF SignsOut, Left, At
  <2>3. CASE op[c] = "login" /\ ok[c]
    <3>1. ~signedOut'
      BY <2>3 DEF Receive
    <3> QED  BY <1>3, <1>4, <2>3, <3>1 DEF SignsOut, Left, At
  <2>4. CASE op[c] = "login" /\ ~ok[c]
    <3>1. signedOut' = signedOut /\ cookie' = cookie
      BY <2>4 DEF Receive
    <3> QED  BY <1>2, <1>3, <1>4, <2>4, <3>1 DEF Sole, CallOK, Left, SignsOut, At
  <2> QED  BY <1>8, <2>1, <2>2, <2>3, <2>4 DEF Kind
<1>13. Sole(c)' /\ CookieExpires'
  BY <1>6, <1>10, <1>11, <1>12 DEF Sole, CallOK, Left, CookieExpires
<1> QED  BY <1>3, <1>7, <1>13 DEF SerialInv, Calm

(* The page goes on: a refusal it reports is the end of its session, because *)
(* no other call can have taken the cookie's token.                          *)
LEMMA SoleResumes ==
    ASSUME KnownInv, SerialInv, Calm, NEW c \in Call, Resume(c)
    PROVE  SerialInv'
<1>1. At(c, "resume") /\ Busy(c)
  BY DEF Resume, At, Busy
<1>2. Sole(c)
  BY <1>1, SoleIsBusy DEF SerialInv, Calm
<1>3. UNCHANGED <<sessionVars, timeVars, cookie, stray, signedOut>>
  BY DEF Resume, ResumeFetch, ResumeLogin, ResumeLogout, SetSession, historyVars
<1>4. Live' = Live /\ session' = session
  BY <1>3 DEF Live, Active, sessionVars, timeVars
<1>5. \A d \in Call \ {c} : Resting(d)'
  BY <1>2 DEF Sole, Resting, At, KnownInv, CallsOK, Resume, ResumeFetch, ResumeLogin, ResumeLogout,
              Goto, Finish
<1>6. pc'[c] \in {"idle", "done"} /\ ~Delivers(c)'
  BY DEF Resume, ResumeFetch, ResumeLogin, ResumeLogout, Goto, Finish, KnownInv, CallsOK, Delivers, At
<1>7. \A x \in Mine(c) : OwnedBy(x, cookie)
  BY <1>1, <1>2 DEF Sole, CallOK, Owned, Delivers, At
<1>8. page' \in {page, reply[c], NoToken}
  BY DEF Resume, ResumeFetch, ResumeLogin, ResumeLogout, SetSession
<1>9. Mine(c)' \subseteq Mine(c)
  BY <1>3, <1>8 DEF Mine, Resume, ResumeFetch, ResumeLogin, ResumeLogout, Finish, KnownInv, CallsOK
<1>10. Owned(c)'
  BY <1>3, <1>4, <1>7, <1>9 DEF Owned, OwnedBy
<1>11. Shape(c)' /\ Presents(c)' /\ Brings(c)' /\ Refused(c)'
  BY <1>6 DEF Shape, Presents, Brings, Refused, Delivers, At, Resume, ResumeFetch, ResumeLogin,
              ResumeLogout, Goto, Finish, KnownInv, CallsOK
<1>12. signedOut => cookie = NoToken /\ page' = NoToken /\ pc'[c] = "idle"
  BY <1>1, <1>2 DEF Sole, CallOK, Shape, SignsOut, Left, Busy, At, Resume, ResumeFetch, ResumeLogin,
              ResumeLogout, SetSession, Finish, Goto, KnownInv, CallsOK
<1>13. SignsOut(c)' /\ Left(c)'
  BY <1>3, <1>6, <1>12 DEF SignsOut, Left, Busy, At
<1>14. NoticeIsTrue'
  <2>1. CASE UNCHANGED notice
    BY <1>4, <2>1 DEF NoticeIsTrue, SerialInv, Calm, Live
  <2>2. CASE notice' = held[c] /\ op[c] = "fetch" /\ ~ok[c]
    <3>1. cookie \notin Live
      BY <1>1, <1>2, <2>2 DEF Sole, CallOK, Refused, At
    <3>2. held[c] # NoToken => \A t \in Live : session[t] # session[held[c]]
      BY <1>7, <3>1 DEF Mine, OwnedBy
    <3> QED  BY <1>4, <2>2, <3>2 DEF NoticeIsTrue, Live
  <2> QED  BY <2>1, <2>2 DEF Resume, ResumeFetch, ResumeLogin, ResumeLogout
<1>15. Sole(c)' /\ CookieExpires'
  BY <1>5, <1>10, <1>11, <1>13 DEF Sole, CallOK, Left, CookieExpires
<1> QED  BY <1>3, <1>14, <1>15 DEF SerialInv, Calm

LEMMA SoleReloads ==
    ASSUME KnownInv, SerialInv, Calm, Reload
    PROVE  SerialInv'
<1>1. \A c \in Call : pc[c] \notin {"server", "answered", "resume"}
  BY DEF Reload, Calm
<1>2. /\ UNCHANGED <<sessionVars, timeVars, cookie, signedOut>>
      /\ page' = page /\ notice' = NoToken
      /\ \A c \in Call : pc'[c] = "idle" /\ op'[c] = "fetch" /\ held'[c] = NoToken
                          /\ reply'[c] = NoToken
  BY DEF Reload, KnownInv, BrowserOK
<1>3. stray' = {}
  BY <1>1 DEF Reload, Unanswered, At, SerialInv, Calm
<1>4. Live' = Live /\ session' = session
  BY <1>2 DEF Live, Active, sessionVars, timeVars
<1>5. NoticeIsTrue'
  BY <1>2 DEF NoticeIsTrue
<1>6. ASSUME NEW c \in Call, Sole(c) PROVE Sole(c)'
  <2>1. \A d \in Call : Resting(d)'
    BY <1>2 DEF Resting, At
  <2>2. \A x \in Mine(c) : OwnedBy(x, cookie)
    BY <1>1, <1>6 DEF Sole, CallOK, Owned, Delivers, At
  <2>3. Owned(c)'
    BY <1>2, <1>4, <2>2 DEF Owned, OwnedBy, Mine
  <2>4. Left(c)'
    BY <1>1, <1>2, <1>6 DEF Sole, CallOK, Left, At
  <2> QED
    BY <1>2, <2>1, <2>3, <2>4
    DEF Sole, CallOK, Shape, Brings, Presents, Refused, SignsOut, Delivers, At, Busy
<1>7. CookieExpires'
  BY <1>2 DEF CookieExpires, SerialInv, Calm
<1> QED  BY <1>3, <1>5, <1>6, <1>7, <1>2 DEF SerialInv, Calm

LEMMA SoleExpires ==
    ASSUME KnownInv, SerialInv, Calm, NEW t \in Token, ExpireAccess(t) \/ Lapse(t)
    PROVE  SerialInv'
<1>1. /\ UNCHANGED <<conditionVars, sessionVars, page, notice, callVars, stray, signedOut>>
      /\ Live' \subseteq Live
      /\ cookie' = cookie \/ (cookie' = NoToken /\ cookie \notin Live')
  BY DEF ExpireAccess, Lapse, browserVars, historyVars, sessionVars, Live, Active
<1>2. session' = session /\ NoToken \notin Live
  BY <1>1, NoTokenAssumption DEF sessionVars, Live, Active, KnownInv, StoreOK, SessionTypeOK
<1>3. NoticeIsTrue'
  BY <1>1, <1>2 DEF NoticeIsTrue, SerialInv, Calm, Live
<1>4. CookieExpires'
  BY <1>1 DEF CookieExpires, SerialInv, Calm
<1>5. ASSUME NEW c \in Call, Sole(c) PROVE Sole(c)'
  <2>1. \A d \in Call \ {c} : Resting(d)'
    BY <1>1, <1>5 DEF Sole, Resting, At, callVars
  <2>2. Shape(c)' /\ SignsOut(c)' /\ Left(c)'
    BY <1>1, <1>5 DEF Sole, CallOK, Shape, SignsOut, Left, Busy, At, callVars
  <2>3. Mine(c)' \subseteq Mine(c) /\ Delivers(c)' = Delivers(c) /\ UNCHANGED <<op, reply>>
    BY <1>1 DEF Mine, Delivers, At, callVars
  <2>4. Owned(c)'
    BY <1>1, <1>2, <1>5, <2>3 DEF Sole, CallOK, Owned, OwnedBy
  <2>5. Brings(c)'
    BY <1>1, <1>2, <1>5, <2>3 DEF Sole, CallOK, Brings, OwnedBy
  <2>6. Presents(c)' /\ Refused(c)'
    BY <1>1, <1>2, <1>5 DEF Sole, CallOK, Presents, Refused, At, callVars
  <2> QED  BY <2>1, <2>2, <2>4, <2>5, <2>6 DEF Sole, CallOK
<1> QED  BY <1>1, <1>3, <1>4, <1>5 DEF SerialInv, Calm, conditionVars

(* On a network that loses nothing no request is left without its page.      *)
LEMMA NothingStray ==
    ASSUME SerialInv, reliable, [Next]_vars
    PROVE  stray' = {}
<1>1. stray = {}
  BY DEF SerialInv
<1>2. CASE Reload
  BY <1>1, <1>2 DEF Reload, Unanswered, At
<1>3. CASE ~Reload
  BY <1>1, <1>3
  DEF Next, Fetch, Answered, Proceed, RotateSession, Login, Logout, Start, AtServer, Unavailable,
      TimedOut, Answer, Receive, Resume, Disconnect, ServeStray, DropStray, ExpireAccess, Lapse, vars
<1> QED  BY <1>2, <1>3

LEMMA ConditionsStay ==
    ASSUME [Next]_vars
    PROVE  reliable' = reliable /\ serial' = serial
BY DEF Next, Fetch, Answered, Proceed, RotateSession, Login, Logout, Start, AtServer, Unavailable,
       TimedOut, Answer, Receive, Resume, Disconnect, ServeStray, DropStray, Reload, ExpireAccess,
       Lapse, vars, timeVars, conditionVars

LEMMA SerialOfSpec == Spec => []SerialInv
<1>1. Init => SerialInv
  <2> SUFFICES ASSUME Init PROVE SerialInv
    OBVIOUS
  <2>1. stray = {} /\ NoticeIsTrue /\ CookieExpires
    BY DEF Init, NoticeIsTrue, CookieExpires
  <2>2. ASSUME NEW c \in Call PROVE Sole(c)
    BY DEF Init, Sole, Resting, CallOK, Shape, Owned, Brings, Presents, Refused, SignsOut, Left,
           Delivers, At, Busy, Mine
  <2> QED  BY <2>1, <2>2 DEF SerialInv
<1>2. KnownInv /\ SerialInv /\ [Next]_vars => SerialInv'
  <2> SUFFICES ASSUME KnownInv, SerialInv, [Next]_vars PROVE SerialInv'
    OBVIOUS
  <2>1. CASE ~Calm
    BY <2>1, NothingStray, ConditionsStay DEF Calm, SerialInv
  <2>2. CASE Calm
    <3>1. stray = {} /\ reliable
      BY <2>2 DEF Calm, SerialInv
    <3>2. CASE UNCHANGED vars
      BY <3>2 DEF vars, sessionVars, timeVars, conditionVars, browserVars, callVars, historyVars, SerialInv,
                NoticeIsTrue, CookieExpires, Active, Sole, Resting, CallOK, Shape, Owned, Brings,
                Presents, Refused, SignsOut, Left, Delivers, At, Busy, Mine, OwnedBy, Live
    <3>3. ASSUME NEW c \in Call PROVE ~Unavailable(c) /\ ~TimedOut(c) /\ ~Disconnect(c)
      BY <3>1 DEF Unavailable, TimedOut, Disconnect
    <3>4. ~ServeStray /\ ~DropStray
      BY <3>1 DEF ServeStray, DropStray
    <3> QED
      BY <2>2, <3>2, <3>3, <3>4, SoleStarts, SoleServed, SoleReceives, SoleResumes, SoleReloads,
         SoleExpires
      DEF Next
  <2> QED  BY <2>1, <2>2
<1> QED  BY <1>1, <1>2, KnownOfSpec, PTL DEF Spec

(* The page's "Your session ended" is true, as long as the network loses     *)
(* nothing and the page makes one call at a time.                            *)
THEOREM NoticeIsTrueOneByOne == Spec => []SerialNoticeIsTrue
<1>1. SerialInv => SerialNoticeIsTrue
  BY DEF SerialInv, SerialNoticeIsTrue
<1> QED  BY <1>1, SerialOfSpec, PTL

(* Under the same two conditions the browser has no refresh cookie from the  *)
(* answer to a logout until the next login.                                  *)
THEOREM LogoutExpiresCookieOneByOne == Spec => []SerialLogoutExpiresCookie
<1>1. SerialInv => SerialLogoutExpiresCookie
  BY DEF SerialInv, SerialLogoutExpiresCookie
<1> QED  BY <1>1, SerialOfSpec, PTL

(* Whatever the pages, their reloads and the network do, the rows change     *)
(* only as TokenSessions promises: no call, answered or stray, has an effect *)
(* that RefreshTokens, which implements the same promise, does not allow.    *)
THEOREM CallsKeepSessions == Spec => SessionSpec
<1>1. Init => SessionInit
  BY DEF Init
<1>2. KnownInv /\ [Next]_vars => [SessionNext]_sessionVars
  <2> SUFFICES ASSUME KnownInv, [Next]_vars PROVE [SessionNext]_sessionVars
    OBVIOUS
  <2>1. ASSUME NEW o \in Kind, NEW t \in Known, NEW status, NEW n, Serve(o, t, status, n)
        PROVE  [SessionNext]_sessionVars
    <3>1. CASE n \in Token /\ (Open(n) \/ (t \in Token /\ Replace(t, n)))
      BY <3>1 DEF SessionNext
    <3>2. CASE t \in Token /\ Close(t)
      BY <3>2 DEF SessionNext
    <3>3. CASE UNCHANGED sessionVars
      BY <3>3
    <3> QED
      BY <2>1, <3>1, <3>2, <3>3
      DEF Serve, Refresh, RevokeCookie, Authenticate, Open, Replace, Close, Active, KnownInv, StoreOK,
          SessionTypeOK
  <2>2. ASSUME NEW c \in Call, AtServer(c) PROVE [SessionNext]_sessionVars
    BY <2>1, <2>2, ServedRequest
  <2>3. CASE ServeStray
    <3>1. PICK s \in stray, status \in BOOLEAN, n \in Held : Serve(s[1], s[2], status, n)
      BY <2>3 DEF ServeStray
    <3>2. s[1] \in Kind /\ s[2] \in Known
      BY DEF KnownInv, CallsOK
    <3> QED  BY <2>1, <3>1, <3>2
  <2>4. CASE ~ServeStray /\ \A c \in Call : ~AtServer(c)
    <3>1. UNCHANGED sessionVars
      BY <2>4
      DEF Next, vars, Fetch, Answered, Proceed, RotateSession, Login, Logout, Start, Unavailable, TimedOut,
          Receive, Resume, Disconnect, DropStray, Reload, ExpireAccess, Lapse
    <3> QED  BY <3>1
  <2> QED  BY <2>2, <2>3, <2>4
<1> QED  BY <1>1, <1>2, KnownOfSpec, PTL DEF Spec, SessionSpec
=============================================================================
