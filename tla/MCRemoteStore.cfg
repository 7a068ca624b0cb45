CONSTANTS
    Clients = {"indexer", "query"}
    Ops <- MCOps
    MaxCalls <- MCMaxCalls
    MaxSlots = 2
    MaxQueue = 2
    MaxFaults = 1
SPECIFICATION Spec
INVARIANTS
    AcknowledgedInForce
    CallerNotForgotten
    BatchIsRows
    StoreConsistent
\* Every client may have made all its calls.
CHECK_DEADLOCK FALSE
