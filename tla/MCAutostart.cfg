CONSTANTS
    Clients = {a, b}
    Prefixes = {A, B}
    Pids = {1, 2}
    Nobody = Nobody
    Stale = Stale
    MaxEnsures = 2
    MaxSpawnAttempts = 2
    MaxFaults = 1
SPECIFICATION Spec
INVARIANTS
    StartsSound
    ReturnsServed
PROPERTIES
    EnsureEnds
CHECK_DEADLOCK FALSE
