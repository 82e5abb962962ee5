CONSTANTS
    Slots = {0}
    Workers = {w1}
    Acceptor = acceptor
    Updater = updater
    Monitor = monitor
    MaxSerial = 1
    ArrayCap = 2
    Kinds = {"bye"}
    Manner = "polite"
    Closings = {"reset"}
    OptionOn = FALSE
    HeapFlags = {TRUE}
    HeapPackets = {"heap"}
    AttachMayFail = FALSE
    MaxSent = 1
    MaxJobs = 0
SPECIFICATION Spec
\* The clients, the bounds or a Crash() stop the system.
CHECK_DEADLOCK FALSE
INVARIANTS
    NoHeapPointer
