-------------------------- MODULE DashboardSession --------------------------
(* The sign-in of one dashboard page (App.tsx) over the browser endpoints of *)
(* the identity service (BrowserAuthController, reached through nginx and    *)
(* the gateway).  The refresh token lives in a cookie that the browser sends *)
(* and replaces by itself; the page keeps the access token in React state    *)
(* and in sessionStorage.  An access token is named by the refresh token it  *)
(* was issued with.  The page runs several calls at once, each with the      *)
(* session it was created with, and any of them may rotate the one cookie.   *)
(* The server answers as TokenSessions promises.                             *)
EXTENDS Integers, FiniteSets, TokenSessions

CONSTANTS Call,        \* calls of protectedFetch, login and logout under way at once
          MaxStray     \* bound: abandoned requests still on their way

ASSUME StrayAssumption == MaxStray \in Nat

VARIABLES reliable,    \* no answer is refused, timed out or dropped
          serial,      \* the page makes one call at a time
          expired,     \* access tokens that have expired
          lapsed,      \* refresh tokens that have expired
          cookie,      \* the cookie aetheris_refresh
          storage,     \* sessionStorage
          page,        \* React state: session
          notice,      \* the session the page says has ended
          pc, op,
          held,        \* session captured by the call
          presented,   \* cookie sent with its request
          ok, reply,   \* the answer: status, Set-Cookie
          stray,       \* requests the page no longer waits for
          lost,        \* history: the cookie, if the answer to it got lost
          signedOut    \* history: a logout was answered, and no login since

browserVars == <<cookie, storage, page, notice>>
callVars == <<pc, op, held, presented, ok, reply>>
historyVars == <<lost, signedOut>>
conditionVars == <<reliable, serial>>
timeVars == <<conditionVars, expired, lapsed>>
vars == <<sessionVars, timeVars, browserVars, callVars, stray, historyVars>>

Held == Token \cup {NoToken}

DashboardTypeOK ==
    /\ SessionTypeOK
    /\ reliable \in BOOLEAN /\ serial \in BOOLEAN
    /\ lapsed \subseteq expired
    /\ expired \subseteq stored
    /\ {cookie, storage, page, notice} \subseteq stored \cup {NoToken}
    /\ pc \in [Call -> {"idle", "called", "send", "server", "answered", "resume", "done"}]
    /\ op \in [Call -> {"fetch", "login", "logout"}]
    /\ held \in [Call -> Held]
    /\ presented \in [Call -> Held]
    /\ ok \in [Call -> BOOLEAN]
    /\ reply \in [Call -> Held]
    /\ stray \subseteq {"fetch", "login", "logout"} \X Held
    /\ lost \subseteq {cookie}
    /\ signedOut \in BOOLEAN

Init ==
    /\ SessionInit
    /\ reliable \in BOOLEAN /\ serial \in BOOLEAN
    /\ expired = {} /\ lapsed = {}
    /\ cookie = NoToken /\ storage = NoToken /\ page = NoToken /\ notice = NoToken
    /\ pc = [c \in Call |-> "idle"]
    /\ op = [c \in Call |-> "fetch"]
    /\ held = [c \in Call |-> NoToken]
    /\ presented = [c \in Call |-> NoToken]
    /\ ok = [c \in Call |-> FALSE]
    /\ reply = [c \in Call |-> NoToken]
    /\ stray = {} /\ lost = {} /\ signedOut = FALSE
-----------------------------------------------------------------------------
At(c, s) == pc[c] = s
Goto(c, s) == pc' = [pc EXCEPT ![c] = s]

(* Bound: a request that needs a new token is sent while the pool has one.   *)
Asking == {c \in Call : At(c, "server") /\ op[c] # "logout"}
PoolHasRoom ==
    Cardinality(Token \ stored)
        > Cardinality(Asking) + Cardinality({s \in stray : s[1] # "logout"})

Finish(c) ==
    /\ Goto(c, "idle")
    /\ op' = [op EXCEPT ![c] = "fetch"]
    /\ held' = [held EXCEPT ![c] = NoToken]
    /\ presented' = [presented EXCEPT ![c] = NoToken]
    /\ ok' = [ok EXCEPT ![c] = FALSE]
    /\ reply' = [reply EXCEPT ![c] = NoToken]

Start(c, o, h, s) ==
    /\ At(c, "idle")
    /\ serial => \A d \in Call : At(d, "idle")
    /\ Goto(c, s)
    /\ op' = [op EXCEPT ![c] = o]
    /\ held' = [held EXCEPT ![c] = h]
    /\ presented' = [presented EXCEPT ![c] = IF o = "logout" THEN cookie ELSE NoToken]
    /\ UNCHANGED <<ok, reply, sessionVars, timeVars, stray, historyVars>>

(* protectedFetch: the call is made with the access token of the session the *)
(* callback was created with.                                                *)
Fetch(c) ==
    /\ page # NoToken
    /\ Start(c, "fetch", page, "called")
    /\ UNCHANGED browserVars

Answered(c) ==
    /\ At(c, "called")
    /\ Goto(c, IF held[c] \in expired THEN "send" ELSE "done")
    /\ UNCHANGED <<op, held, presented, ok, reply, sessionVars, timeVars, browserVars,
                   stray, historyVars>>

(* post and createUser end with the refresh of the render they belong to,    *)
(* which calls with the session of that render again.                        *)
Proceed(c) ==
    /\ At(c, "done")
    /\ \/ Finish(c)
       \/ Goto(c, "called") /\ UNCHANGED <<op, held, presented, ok, reply>>
    /\ UNCHANGED <<sessionVars, timeVars, browserVars, stray, historyVars>>

(* rotateSession: the browser adds the cookie it has when the request leaves. *)
RotateSession(c) ==
    /\ At(c, "send")
    /\ PoolHasRoom
    /\ Goto(c, "server")
    /\ presented' = [presented EXCEPT ![c] = cookie]
    /\ UNCHANGED <<op, held, ok, reply, sessionVars, timeVars, browserVars, stray,
                   historyVars>>

Login(c) ==
    /\ page = NoToken
    /\ PoolHasRoom
    /\ Start(c, "login", NoToken, "server")
    /\ notice' = NoToken
    /\ UNCHANGED <<cookie, storage, page>>

Logout(c) ==
    /\ page # NoToken
    /\ Start(c, "logout", page, "server")
    /\ UNCHANGED browserVars

(* BrowserAuthController, with the transactions of the identity service as   *)
(* single steps: the status it answers and the cookie it sets.               *)
\* Mutant: the answer carries a token whose row has been rolled back.
RefreshRolledBack(t, status, n) ==
    \/ t \in Active \ lapsed /\ UNCHANGED sessionVars /\ status = TRUE /\ n \in Token \ stored
    \/ t \notin Active \ lapsed /\ UNCHANGED sessionVars /\ status = FALSE /\ n = NoToken

Refresh(t, status, n) ==
    \/ t \in Active \ lapsed /\ Replace(t, n) /\ status = TRUE
    \/ t \notin Active \ lapsed /\ UNCHANGED sessionVars /\ status = FALSE /\ n = NoToken
RevokeCookie(t, status, n) ==
    /\ IF t = NoToken THEN UNCHANGED sessionVars ELSE Close(t)
    /\ status = TRUE /\ n = NoToken
Authenticate(status, n) ==
    \/ Open(n) /\ status = TRUE
    \/ UNCHANGED sessionVars /\ status = FALSE /\ n = NoToken

Serve(o, t, status, n) ==
    \/ o = "fetch" /\ Refresh(t, status, n)
    \/ o = "logout" /\ RevokeCookie(t, status, n)
    \/ o = "login" /\ Authenticate(status, n)

Answer(c, status, n) ==
    /\ Goto(c, "answered")
    /\ ok' = [ok EXCEPT ![c] = status]
    /\ reply' = [reply EXCEPT ![c] = n]
    /\ UNCHANGED <<op, held, presented, timeVars, browserVars, stray>>

AtServer(c) ==
    /\ At(c, "server")
    /\ \E status \in BOOLEAN, n \in Held :
          Serve(op[c], presented[c], status, n) /\ Answer(c, status, n)
    /\ UNCHANGED historyVars

(* The rate limiter or an open circuit answers in place of the service.      *)
Unavailable(c) ==
    /\ ~reliable
    /\ At(c, "server")
    /\ Answer(c, FALSE, NoToken)
    /\ UNCHANGED <<sessionVars, historyVars>>

(* The service has done its work, and the gateway's time limit has passed.   *)
TimedOut(c) ==
    /\ ~reliable
    /\ At(c, "answered")
    /\ ok[c]
    /\ Answer(c, FALSE, NoToken)
    /\ lost' = lost \cup ({presented[c]} \cap {cookie})
    /\ UNCHANGED <<sessionVars, signedOut>>

(* The answer arrives: the browser obeys Set-Cookie before the page goes on. *)
\* Mutants: the answer to a refresh has no cookie; the one to a logout has none.
ReceiveWithoutRotation(c) ==
    /\ At(c, "answered")
    /\ Goto(c, "resume")
    /\ cookie' = IF ok[c] /\ op[c] # "fetch" THEN reply[c] ELSE cookie
    /\ signedOut' = IF ok[c] /\ op[c] # "fetch" THEN op[c] = "logout" ELSE signedOut
    /\ lost' = lost \cap {cookie'}
    /\ UNCHANGED <<op, held, presented, ok, reply, sessionVars, timeVars, storage, page,
                   notice, stray>>
ReceiveWithoutClearing(c) ==
    /\ At(c, "answered")
    /\ Goto(c, "resume")
    /\ cookie' = IF ok[c] /\ op[c] # "logout" THEN reply[c] ELSE cookie
    /\ signedOut' = IF ok[c] /\ op[c] # "fetch" THEN op[c] = "logout" ELSE signedOut
    /\ lost' = lost \cap {cookie'}
    /\ UNCHANGED <<op, held, presented, ok, reply, sessionVars, timeVars, storage, page,
                   notice, stray>>

Receive(c) ==
    /\ At(c, "answered")
    /\ Goto(c, "resume")
    /\ cookie' = IF ok[c] THEN reply[c] ELSE cookie
    /\ signedOut' = IF ok[c] /\ op[c] # "fetch" THEN op[c] = "logout" ELSE signedOut
    /\ lost' = lost \cap {cookie'}
    /\ UNCHANGED <<op, held, presented, ok, reply, sessionVars, timeVars, storage, page,
                   notice, stray>>

(* writeSession and setSession, and the second call, whose status is only    *)
(* returned; expireSession.                                                  *)
SetSession(s) == storage' = s /\ page' = s /\ UNCHANGED cookie

ResumeFetch(c) ==
    /\ op[c] = "fetch"
    /\ IF ok[c]
       THEN /\ SetSession(reply[c]) /\ UNCHANGED notice
            /\ Goto(c, "done")
            /\ UNCHANGED <<op, held, presented, ok, reply>>
       ELSE SetSession(NoToken) /\ notice' = held[c] /\ Finish(c)

ResumeLogin(c) ==
    /\ op[c] = "login"
    /\ IF ok[c] THEN SetSession(reply[c]) ELSE UNCHANGED <<cookie, storage, page>>
    /\ UNCHANGED notice
    /\ Finish(c)

(* logout does not look at the status, nor at a failure of fetch.            *)
ResumeLogout(c) ==
    /\ op[c] = "logout"
    /\ SetSession(NoToken)
    /\ UNCHANGED notice
    /\ Finish(c)

Resume(c) ==
    /\ At(c, "resume")
    /\ ResumeFetch(c) \/ ResumeLogin(c) \/ ResumeLogout(c)
    /\ UNCHANGED <<sessionVars, timeVars, stray, historyVars>>

(* The connection breaks and fetch throws: a logout goes on, every other     *)
(* call ends there.  The server may still get the request.                   *)
Unanswered(c) == IF At(c, "server") THEN {<<op[c], presented[c]>>} ELSE {}
Dropped(c) == IF At(c, "answered") /\ ok[c] THEN {presented[c]} \cap {cookie} ELSE {}

Disconnect(c) ==
    /\ ~reliable
    /\ pc[c] \in {"called", "server", "answered"}
    /\ stray' = stray \cup Unanswered(c)
    /\ Cardinality(stray') <= MaxStray
    /\ lost' = lost \cup Dropped(c)
    /\ IF op[c] = "logout"
       THEN /\ Goto(c, "resume") /\ ok' = [ok EXCEPT ![c] = FALSE]
            /\ UNCHANGED <<op, held, presented, reply>>
       ELSE Finish(c)
    /\ UNCHANGED <<sessionVars, timeVars, browserVars, signedOut>>

ServeStray ==
    /\ \E s \in stray, status \in BOOLEAN, n \in Held :
          /\ Serve(s[1], s[2], status, n)
          /\ stray' = stray \ {s}
          /\ lost' = lost \cup ({s[2]} \cap {cookie})
    /\ UNCHANGED <<timeVars, browserVars, callVars, signedOut>>

DropStray ==
    /\ \E s \in stray : stray' = stray \ {s}
    /\ UNCHANGED <<sessionVars, timeVars, browserVars, callVars, historyVars>>

(* The page is loaded again: its state comes from sessionStorage.            *)
Reload ==
    /\ reliable => \A c \in Call : pc[c] \notin {"server", "answered", "resume"}
    /\ page' = storage
    /\ notice' = NoToken
    /\ stray' = stray \cup UNION {Unanswered(c) : c \in Call}
    /\ Cardinality(stray') <= MaxStray
    /\ lost' = lost \cup UNION {Dropped(c) : c \in Call}
    /\ pc' = [c \in Call |-> "idle"]
    /\ op' = [c \in Call |-> "fetch"]
    /\ held' = [c \in Call |-> NoToken]
    /\ presented' = [c \in Call |-> NoToken]
    /\ ok' = [c \in Call |-> FALSE]
    /\ reply' = [c \in Call |-> NoToken]
    /\ UNCHANGED <<sessionVars, timeVars, cookie, storage, signedOut>>

(* Access tokens are short-lived; the cookie lives as long as its token.  The *)
(* expiry of a token that is revoked already changes nothing.                *)
ExpireAccess(t) ==
    /\ t \in stored \ expired
    /\ expired' = expired \cup {t}
    /\ UNCHANGED <<conditionVars, sessionVars, lapsed, browserVars, callVars, stray, historyVars>>

Lapse(t) ==
    /\ t \in (expired \cap Active) \ lapsed
    /\ lapsed' = lapsed \cup {t}
    /\ cookie' \in {cookie} \cup (IF cookie = t THEN {NoToken} ELSE {})
    /\ lost' = lost \cap {cookie'}
    /\ UNCHANGED <<conditionVars, sessionVars, expired, storage, page, notice, callVars, stray,
                   signedOut>>

Next ==
    \/ \E c \in Call :
          \/ Fetch(c) \/ Answered(c) \/ Proceed(c) \/ RotateSession(c)
          \/ Login(c) \/ Logout(c)
          \/ AtServer(c) \/ Unavailable(c) \/ TimedOut(c)
          \/ Receive(c) \/ Resume(c) \/ Disconnect(c)
    \/ ServeStray \/ DropStray \/ Reload
    \/ \E t \in Token : ExpireAccess(t) \/ Lapse(t)

Spec == Init /\ [][Next]_vars
-----------------------------------------------------------------------------
(* The browser never sits on a dead cookie: if its token has been revoked,   *)
(* the answer that replaces or clears it is on its way, unless it got lost.  *)
CookieIsCurrent ==
    cookie \in revoked =>
        \/ cookie \in lost
        \/ \E s \in stray : s[2] = cookie
        \/ \E c \in Call : At(c, "answered") /\ presented[c] = cookie

(* "Your session ended" is true: when the page says so, the session it was   *)
(* signed in with has no token left that could be refreshed.                 *)
NoticeIsTrue ==
    notice # NoToken => \A t \in Active \ lapsed : session[t] # session[notice]

(* With two calls at once it is not, although the network loses nothing.     *)
EndedMeansEnded == reliable => NoticeIsTrue

(* It is when the network loses nothing and the page makes one call at a     *)
(* time; the code never sees to the latter.                                  *)
SerialNoticeIsTrue == reliable /\ serial => NoticeIsTrue

(* Once a logout has been answered, and until the next login, the browser    *)
(* has no refresh cookie, under the same two conditions.                     *)
CookieExpires == signedOut => cookie = NoToken
SerialLogoutExpiresCookie == reliable /\ serial => CookieExpires
=============================================================================
