\* Run mqtt_instance.
SPECIFICATION FairSpec
CONSTANTS
    Contexts = {1, 2, 3, 4, 5, 6}
    PingAt = 2
    WriteErrors = TRUE
    MaxFaults = 3
    MaxPublishes = 2
INVARIANTS
    NeverStuckConnecting
    OneContext
    FaultsExplained
PROPERTIES
    LossNoticed
    Reconnects
