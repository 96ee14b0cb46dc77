\* Run mqtt_connack: a violation.
SPECIFICATION Spec
CONSTANTS
    Contexts = {1, 2, 3, 4, 5, 6}
    PingAt = 2
    WriteErrors = FALSE
    MaxFaults = 1
    MaxPublishes = 0
INVARIANTS
    ConnackMeansAccepted
