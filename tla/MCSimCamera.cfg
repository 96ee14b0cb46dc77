\* Run sim_camera.  A crash ends the program, and so does an owner that waits for
\* a thread beyond MaxThreads.
SPECIFICATION FairSpec
CHECK_DEADLOCK FALSE
CONSTANTS
    VideoFrames = 2
    AudioFrames = 1
    MaxThreads = 5
INVARIANTS
    CapturesAreOwned
PROPERTIES
    VideoPlaysOn
