CONSTANTS
    Files = {1, 2}
    Names = {"f", "g"}
    Contents = {"callee", "caller"}
    Defines <- MCDefines
    Calls <- MCCalls
    Broken = {}
    Modes = {"incremental"}
    Adapters = {"embedded"}
    MaxEdits = 2
    MaxFaults = 1
SPECIFICATION Spec
INVARIANT IncrementalEqualsFull
\* Every edit made and every fault used up: nothing is left to do.
CHECK_DEADLOCK FALSE
