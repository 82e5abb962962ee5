SPECIFICATION WireSpec
CONSTANTS
    RING_BUFFER_SIZE = 25
    Byte <- Bytes
    PAYLOAD_SIZE = 10
    dfPACKET_KEY = 50
    dfPACKET_CODE = 119
    Xor <- XorOf
    MaxLen = 10
    Conversations <- Clients
    MaxSessions = 2
    MaxJobs = 3
    ACCOUNT_SIZE = 1
    NAME_SIZE = 1
    KEY_SIZE = 1
    SECTOR_X_MAX = 2
    SECTOR_Y_MAX = 2
    RandKeys = {255}
INVARIANTS RingHolds NeverStalls NoInternalCrash AnswersRead
PROPERTIES StreamSpec
CHECK_DEADLOCK FALSE
