CONSTANTS
    admin = admin
    readA = readA
    readB = readB
    write = write
    refused = refused
    grace = grace
    Requests <- MCRequests
    Priority <- MCPriority
    MaxConcurrency = 2
    MaxQueue = 2
    Drains = {grace}
    BoundedDrains = {grace}
SPECIFICATION Spec
INVARIANTS
    TypeOK
    Accounting
    QueueDiscipline
    NoCallLost
PROPERTIES
    AnsweredOnce
    ServedInTurn
    ServiceSpec
\* The server may stop: every call answered, every drain resolved.
CHECK_DEADLOCK FALSE
