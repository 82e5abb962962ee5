CONSTANTS
    Sessions = {s1, s2}
    Nobody = nobody
    Workers = {w1, w2}
    Threads = {w1, w2}
    Acceptor = acceptor
    Columns = 3
    Rows = 1
    ObjectCount = 2
    MaxChunks = 4
    Messages <- FewMessages
    MaxRecv = 2
SPECIFICATION Spec
SYMMETRY Symmetry
\* The clients, the bounds or a Crash() stop the system.
CHECK_DEADLOCK FALSE
INVARIANTS
    AllocIsPrivate
