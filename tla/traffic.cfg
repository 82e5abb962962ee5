CONSTANTS
    Slots = {0}
    Workers = {w1, w2}
    Acceptor = acceptor
    Updater = updater
    Monitor = monitor
    MaxSerial = 1
    ArrayCap = 2
    Kinds = {"chat", "bye"}
    Manner = "polite"
    Closings = {"reset"}
    OptionOn = FALSE
    HeapFlags = {FALSE}
    HeapPackets = {"null"}
    AttachMayFail = FALSE
    MaxSent = 2
    MaxJobs = 2
SPECIFICATION FairSpec
\* The clients, the bounds or a Crash() stop the system.
CHECK_DEADLOCK FALSE
INVARIANTS
    OneSender
    NoStrandedPackets
    NoCrash
PROPERTIES
    ResetIsNoticed
    PacketsLeave
