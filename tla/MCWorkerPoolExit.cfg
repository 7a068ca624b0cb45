CONSTANTS
    TaskCount = 3
    PoolSize = 2
    MaxRespawns = 2
    MaxTimeouts = 2
SPECIFICATION Spec
PROPERTY RetiredExitIgnored
CHECK_DEADLOCK FALSE
