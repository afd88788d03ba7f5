SPECIFICATION Spec
CONSTANTS
    Request = {r1, r2}
    Id = {i1, i2}
    NoId = NoId
    Email = {e1}
    NoEmail = NoEmail
    MaxEvents = 3
INVARIANTS AnnouncedDeletionHappened
