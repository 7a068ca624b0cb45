CONSTANTS
    Callers = {a1, a2, a3}
    MaxConnections = 1
    MinConnections = 0
    Conns = {c1, c2, c3, c4, c5}
    FirstConn = c1
    NoConn = NoConn
SPECIFICATION Spec
INVARIANTS
    PoolSound
PROPERTIES
    FifoHandOver
    AcquireAndDrainReturn
\* The pool may stop: every adapter closed or failed, drain() returned.
CHECK_DEADLOCK FALSE
