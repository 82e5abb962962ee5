CONSTANTS
    Slots = {0}
    Workers = {w1, w2}
    Acceptor = acceptor
    Updater = updater
    Monitor = monitor
    MaxSerial = 1
    ArrayCap = 1
    Kinds = {"chat"}
    Manner = "polite"
    Closings = {"reset"}
    OptionOn = FALSE
    HeapFlags = {FALSE}
    HeapPackets = {"null"}
    AttachMayFail = FALSE
    MaxSent = 3
    MaxJobs = 2
SPECIFICATION Spec
SYMMETRY Symmetry
\* The clients, the bounds or a Crash() stop the system.
CHECK_DEADLOCK FALSE
INVARIANTS
    GatherFits
