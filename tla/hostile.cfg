CONSTANTS
    Slots = {0}
    Workers = {w1}
    Acceptor = acceptor
    Updater = updater
    Monitor = monitor
    MaxSerial = 1
    ArrayCap = 2
    Kinds = {"bye", "bad", "garbage"}
    Manner = "rude"
    Closings = {"reset", "fin"}
    OptionOn = TRUE
    HeapFlags = {FALSE, TRUE}
    HeapPackets = {"null", "heap"}
    AttachMayFail = TRUE
    MaxSent = 1
    MaxJobs = 1
SPECIFICATION Spec
\* The clients, the bounds or a Crash() stop the system.
CHECK_DEADLOCK FALSE
INVARIANTS
    NoInternalCrash
    OneOwner
