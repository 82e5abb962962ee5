CONSTANTS
    Slots = {0}
    Workers = {w1}
    Acceptor = acceptor
    Updater = updater
    Monitor = monitor
    MaxSerial = 1
    ArrayCap = 2
    Kinds = {"chat", "bye"}
    Manner = "polite"
    Closings = {"reset"}
    OptionOn = TRUE
    HeapFlags = {FALSE}
    HeapPackets = {"null"}
    AttachMayFail = FALSE
    MaxSent = 1
    MaxJobs = 1
SPECIFICATION Spec
\* The clients, the bounds or a Crash() stop the system.
CHECK_DEADLOCK FALSE
PROPERTIES
    NoIOAfterCancel
