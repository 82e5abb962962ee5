CONSTANTS
    Sessions = {s1, s2}
    Nobody = nobody
    Workers = {w1}
    Threads = {w1}
    Acceptor = acceptor
    Columns = 3
    Rows = 1
    ObjectCount = 2
    MaxChunks = 3
    Messages <- AllMessages
    MaxRecv = 3
SPECIFICATION Spec
SYMMETRY Symmetry
\* a bound: the last message is a chat
ACTION_CONSTRAINT LastIsChat
\* The clients, the bounds or a Crash() stop the system.
CHECK_DEADLOCK FALSE
INVARIANTS
    SectorsMatch
    RefsExact
    PoolSound
    BodiesKept
    NoInternalCrash
    NoLostWakeUp
PROPERTIES
    RoomsSpec
