\* Two requests of any kind and a chain of three tokens, one of which expires on
\* the way: every two-way race, and every wait for a row or an e-mail key.
SPECIFICATION FairSpec
CONSTANTS
    Token = {t1, t2, t3}
    NoToken = NoToken
    Request = {r1, r2}
    Email = {e1}
    NoEmail = NoEmail
    Lifetime = 1
    MaxClock = 1
INVARIANTS
    NoFork
    NoLostSession
PROPERTIES
    SessionSpec
    LapsedForGood
    EveryRequestEnds
