CONSTANTS
    Servers = {old, new, newer}
    None = None
    IdleTtl = FALSE
    MaxFaults = 0
SPECIFICATION Spec
INVARIANT LockExclusive
CHECK_DEADLOCK FALSE
