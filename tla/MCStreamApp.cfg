\* One video and one audio thread, four faults, three commands.
SPECIFICATION FairSpec
\* After a stop, with no command left, nothing more happens.
CHECK_DEADLOCK FALSE
CONSTANTS
    video = video
    audio = audio
    none = none
    NoThread = none
    MaxFaults = 4
    MaxCommands = 3
    VideoThreads <- MCVideoThreads
    AudioThreads <- MCAudioThreads
    VideoFrames <- MCFrames
INVARIANTS UsesTheOneContext ConfiguredFirst LeaksAreFailedNews OneFrameAfterStop
PROPERTIES StreamRecovers
