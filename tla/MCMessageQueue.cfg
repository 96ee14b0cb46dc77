\* Run queue: two senders, a timed and a blocking receiver; s1 and t1 are not held back
\* when the queue is destroyed.
SPECIFICATION FairSpec
\* A thread that touched freed memory does no more.
CHECK_DEADLOCK FALSE
CONSTANTS
    m1 = m1
    m2 = m2
    s1 = s1
    s2 = s2
    t1 = t1
    b1 = b1
    NoMessage = NoMessage
    NoThread = NoThread
    Destroyer = Destroyer
    nCapacity = 2
    SpuriousWakeups = TRUE
    Messages <- MCMessages
    Senders <- TwoSenders
    TimedReceivers <- OneTimed
    BlockingReceivers <- OneBlocking
    LateCallers <- OneOfEach
INVARIANTS NoLostWakeup OnlyLateCallersFault
PROPERTIES ImplementsLossyQueue DestroyTerminates
