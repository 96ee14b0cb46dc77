\* Run h264_decode.  The function returns: that is where the behaviours end.
SPECIFICATION Spec
CHECK_DEADLOCK FALSE
CONSTANTS
    Bytes <- MCBytes
    MaxLen = 8
    MaxNalus = 1
INVARIANTS
    FindsEveryUnit
    UnitsAreTiled
    OnlyTheLastOverruns
    OverflowNeedsLongFrame
