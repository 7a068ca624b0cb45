CONSTANTS
    Callers = {a1, a2, a3}
    MaxConnections = 1
    MinConnections = 0
    Conns = {c1, c2, c3, c4, c5}
    FirstConn = c1
    NoConn = NoConn
SPECIFICATION Spec
\* Either may be left out to see the other one fail.
INVARIANTS
    PoolBound
    DrainComplete
CHECK_DEADLOCK FALSE
