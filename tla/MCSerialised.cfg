CONSTANTS
    Clients = {"indexer", "query"}
    Ops <- MCOps
    MaxCalls <- MCMaxCalls
    MaxSlots = 2
    MaxQueue = 2
    MaxFaults = 1
SPECIFICATION Spec
INVARIANT WritesSerialised
CHECK_DEADLOCK FALSE
