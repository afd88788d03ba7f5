--------------------------- MODULE TokenSessions ---------------------------
(* What the refresh-token store of the identity service promises, with every *)
(* operation a single step: a login or a registration opens a session with   *)
(* one token, a refresh replaces the presented token by a new one, a logout  *)
(* ends the presented token.  RefreshTokens.tla has the transactions the     *)
(* code runs, interleaved statement by statement, and implements this.       *)
EXTENDS Integers

CONSTANTS Token,     \* refresh tokens, named by the hash the table stores
          NoToken    \* no token

ASSUME NoTokenAssumption == NoToken \notin Token

VARIABLES stored,    \* tokens that have a row
          revoked,   \* tokens whose row has revoked = true
          parent,    \* the token a stored token replaced, NoToken at a login
          session,   \* the token the login of this chain handed out
          ended      \* tokens a logout has been carried out for

sessionVars == <<stored, revoked, parent, session, ended>>

Active == stored \ revoked

SessionInit ==
    /\ stored = {}
    /\ revoked = {}
    /\ parent = [t \in Token |-> NoToken]
    /\ session = [t \in Token |-> NoToken]
    /\ ended = {}

(* RefreshTokenService.issue for a registration or a login. *)
Open(n) ==
    /\ n \in Token \ stored
    /\ stored' = stored \cup {n}
    /\ parent' = [parent EXCEPT ![n] = NoToken]
    /\ session' = [session EXCEPT ![n] = n]
    /\ UNCHANGED <<revoked, ended>>

(* RefreshTokenService.rotate: one active token out, one new token in. *)
Replace(t, n) ==
    /\ t \in Active
    /\ n \in Token \ stored
    /\ stored' = stored \cup {n}
    /\ revoked' = revoked \cup {t}
    /\ parent' = [parent EXCEPT ![n] = t]
    /\ session' = [session EXCEPT ![n] = session[t]]
    /\ UNCHANGED ended

(* RefreshTokenService.revoke: idempotent. *)
Close(t) ==
    /\ t \in stored
    /\ revoked' = revoked \cup {t}
    /\ ended' = ended \cup {t}
    /\ UNCHANGED <<stored, parent, session>>

SessionNext ==
    \E t \in Token : Open(t) \/ Close(t) \/ \E n \in Token : Replace(t, n)

SessionSpec == SessionInit /\ [][SessionNext]_sessionVars
-----------------------------------------------------------------------------
SessionTypeOK ==
    /\ stored \subseteq Token
    /\ revoked \subseteq stored
    /\ ended \subseteq revoked
    /\ parent \in [Token -> Token \cup {NoToken}]
    /\ session \in [Token -> Token \cup {NoToken}]

(* Rotation never forks: a token is replaced at most once, however many      *)
(* refresh requests present it and however their transactions interleave.    *)
NoFork ==
    \A m, n \in stored : parent[m] = parent[n] /\ parent[n] # NoToken => m = n

(* Of all the tokens that descend from one login, at most one is active.     *)
OneActivePerSession ==
    \A m, n \in Active : session[m] = session[n] => m = n

(* No refresh destroys a session: a token is revoked only because a logout   *)
(* ended it or because its replacement is stored.                            *)
NoLostSession ==
    \A t \in revoked : t \in ended \/ \E n \in stored : parent[n] = t

(* Once a logout of a token has been carried out, the token is never         *)
(* replaced: no refresh that was under way hands out a successor later.      *)
LogoutIsFinal ==
    [][\A t \in ended : \A n \in stored' \ stored : parent'[n] # t]_sessionVars
=============================================================================
