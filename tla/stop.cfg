SPECIFICATION FairSpec
CONSTANTS
    Slots = {1}
    Workers = {w1, w2}
    WorkerCount = 1
    FreshCloseFlags = {TRUE, FALSE}
    MaxRuns = 2
    MaxSerial = 3
    MaxSent = 2
INVARIANTS QuietStopIsSafe OldJobsMiss NoGhostAcrossRuns
PROPERTIES StopEnds
CHECK_DEADLOCK FALSE
