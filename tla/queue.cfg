CONSTANTS
    Messages = {m1, m2, m3, m4, m5}
    NoMessage = NoMessage
    Close = Close
    Capacity = 2
SPECIFICATION FairSpec
CHECK_DEADLOCK FALSE
INVARIANTS TypeOK NoMissedWakeUp
PROPERTIES ImplementsStream ClosedReaderLeaves
