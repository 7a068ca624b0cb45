CONSTANTS
    Servers = {old, new}
    None = None
    IdleTtl = TRUE
    MaxFaults = 1
SPECIFICATION Spec
INVARIANTS
    LifecycleSound
PROPERTIES
    ShutdownEnds
\* The servers may stop: every one of them has exited.
CHECK_DEADLOCK FALSE
