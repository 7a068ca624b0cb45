CONSTANTS
    TaskCount = 3
    PoolSize = 2
    MaxRespawns = 2
    MaxTimeouts = 2
SPECIFICATION Spec
INVARIANTS
    PoolInvariant
PROPERTIES
    ResultFromOwner
    RunResolves
\* The pool may stop: run() resolved, the fleet destroyed, no event left.
CHECK_DEADLOCK FALSE
