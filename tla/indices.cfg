CONSTANTS
    Threads = {t1, t2, t3}
    Nodes = {n1, n2, n3}
    NULL = NULL
    MaxUser = 3
    Taken = 3
    MaxId = 8
SPECIFICATION Spec
SYMMETRY Symmetry
\* No call begins once MaxId is reached.
CHECK_DEADLOCK FALSE
INVARIANTS
    ListsIntact
    OneHolder
PROPERTIES
    EmptyIsHonest
    StackSpec
