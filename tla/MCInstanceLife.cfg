\* Run instance_life: one context with three calls or faults, or two, one after the
\* other, with two.  A program whose threads have ended, or that has crashed, stops.
SPECIFICATION FairSpec
CHECK_DEADLOCK FALSE
CONSTANTS
    MaxInstances = 2
    Together = FALSE
    MaxEvents = 4
    Topics <- MCTopics
    Live <- MCLive
INVARIANTS
    CrashesExplained
    ToldTheTruth
PROPERTIES
    ThreadEnds
    HearsUnlessHung
