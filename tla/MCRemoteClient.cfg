CONSTANTS
    Callers = {c1, c2}
    MaxCalls = 2
    MaxCrashes = 1
SPECIFICATION AdapterSpec
INVARIANTS
    BundlesSound
    RetriesSound
PROPERTIES
    CallsSettle
\* The adapter may be closed and every caller done.
CHECK_DEADLOCK FALSE
