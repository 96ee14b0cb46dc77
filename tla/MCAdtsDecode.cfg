\* Run adts_decode: both kinds of caller on every file of up to nine bytes, with
\* signed char.  At the end of the file, and at a byte that is no sync word, nothing
\* more happens.
SPECIFICATION AdtsSpec
CHECK_DEADLOCK FALSE
CONSTANTS
    Low = 2
    Mid = 4
    High = 2
    SignedChar = TRUE
    HeaderLens <- MCHeaderLens
    MaxBytes = 9
    MaxBack = 3
    StrayLens <- MCStrayLens
    Room = 4
INVARIANTS
    StaysInside
    FramesFound
PROPERTIES
    PlaysToTheLast
