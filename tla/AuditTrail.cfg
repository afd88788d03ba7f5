\* Two events and a message no listener can read, two listeners: one may go on
\* without its connection while the other handles the redelivered message.
SPECIFICATION FairSpec
CONSTANTS
    EventId = {e1, e2, poison}
    Malformed = {poison}
    Consumer = {c1, c2}
    NoMessage = NoMessage
INVARIANTS
    RecordedOnce
PROPERTIES
    LogSpec
    RoutedIsRecorded
CHECK_DEADLOCK FALSE
