\* Run adts_signed: a violation.
SPECIFICATION AdtsSpec
CHECK_DEADLOCK FALSE
CONSTANTS
    Low = 2
    Mid = 4
    High = 2
    SignedChar = TRUE
    HeaderLens <- MCHeaderLens
    MaxBytes = 9
    MaxBack = 3
    StrayLens <- MCStrayLens
    Room = 4
INVARIANTS
    LengthsAreRead
