\* Run log_channel: five messages for a queue of two, and a channel that is closed and
\* opened again.  It stops when the channel is closed and the messages are used up.
SPECIFICATION FairSpec
CHECK_DEADLOCK FALSE
CONSTANTS
    nCapacity = 2
    MaxMessages = 5
    MaxInits = 2
    Senders <- MCSenders
INVARIANTS
    ThreadHasItsQueue
    DropsAreRaces
PROPERTIES
    DinitReturns
