CONSTANTS
    Files = {1, 2}
    Names = {"f", "g"}
    Contents = {"callee", "caller", "broken"}
    Defines <- MCDefines
    Calls <- MCCalls
    Broken = {"broken"}
    Modes = {"incremental", "full", "refresh"}
    Adapters = {"embedded", "remote"}
    MaxEdits = 3
    MaxFaults = 1
SPECIFICATION Spec
INVARIANTS
    Converged
PROPERTIES
    CacheBehindDatabase
\* Every edit made and every fault used up: nothing is left to do.
CHECK_DEADLOCK FALSE
