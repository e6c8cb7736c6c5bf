\* Two servers share the table; crashes, failures, and a clock of two values. Two
\* operations offline. The queues stop at their bounds.
CONSTANTS
    Servers = {s1, s2}
    MaxTime = 1
    MaxEvents = 2
    MaxFaults = 2

    Items = {"o1", "o2"}
    RetryLimit = 2
    MaxReloads = 1

SPECIFICATION QueuesSpec
CHECK_DEADLOCK FALSE

INVARIANTS
    QueuesTypeOK
    ChainVerifies
    TipWasWritten
    LogsAreKept
    

PROPERTIES
    ImplementsTrail
    QueueDrains
    QueueIsWorkedOff
