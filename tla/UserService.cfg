\* Two requests of any kind, failing at any statement, over two users of one e-mail.
SPECIFICATION FairSpec
CONSTANTS
    Request = {r1, r2}
    Id = {i1, i2}
    NoId = NoId
    Email = {e1}
    NoEmail = NoEmail
    MaxEvents = 3
INVARIANTS
    UserTypeOK
    EveryChangeIsAnnounced
    EmailsAreUnique
PROPERTIES
    CachesConverge
