\* Run session: three connect events on two slots, with every fate of a subscription.
SPECIFICATION FairSpec
\* The network may leave the MQTT thread with nothing to do, and a fault ends
\* the main thread.
CHECK_DEADLOCK FALSE
CONSTANTS
    q1 = q1
    q2 = q2
    q3 = q3
    other = other
    NoQueue = NoQueue
    NoMessage = NoMessage
    MaxSession = 2
    QueueMax = 1
    MaxConnects = 3
    MaxMessages = 2
    EarlyConnect = TRUE
    Queues <- MCQueues
    Others <- MCOthers
    SubscribeOutcomes <- AllOutcomes
INVARIANTS RoutesToLiveQueue SlotsAccounted HeardUnlessOneFailed FaultsNeedReconnect
PROPERTIES ConnectHandled ObeyedUnlessOneFailed
