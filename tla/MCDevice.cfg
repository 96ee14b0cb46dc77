\* Run device: main, or an owner that makes any calls, with or without a device.  A
\* program that has returned from main or crashed stops.
SPECIFICATION DeviceFairSpec
CHECK_DEADLOCK FALSE
CONSTANTS
    VideoFrames = 2
    AudioFrames = 1
    MaxThreads = 4
    Devices <- MCDevices
    NoDevice = "NULL"
    MaxInits = 1
    MaxTasks = 2
    MaxJpegs = 1
INVARIANTS
    DeviceIsSafe
    AlarmsAlternate
PROPERTIES
    CallsReturn
