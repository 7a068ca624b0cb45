CONSTANTS
    Clients = {a, b}
    Prefixes = {A, B}
    Pids = {1, 2, 3}
    Nobody = Nobody
    Stale = Stale
    MaxEnsures = 3
    MaxSpawnAttempts = 2
    MaxFaults = 2
SPECIFICATION Spec
INVARIANT OnlyServersTerminated
CHECK_DEADLOCK FALSE
