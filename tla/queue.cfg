CONSTANTS
    Threads = {t1, t2, t3}
    n1 = n1
    n2 = n2
    n3 = n3
    Heap <- ThreeNodes
    MaxQCount = 1
    MaxItems = 4
    Producers = {t2, t3}
    Crews = {{t1}, {t1, t2}}
    Stopped = {t3}
SPECIFICATION FairSpec
\* Nobody has to call.
CHECK_DEADLOCK FALSE
INVARIANTS
    ChainIntact
    NoSelfLink
PROPERTIES
    DeqIsHonest
    QueueSpec
    CallsReturn
