\* Two servers share the table and nothing fails: an event is lost.
CONSTANTS
    Servers = {s1, s2}
    MaxTime = 1
    MaxEvents = 2
    MaxFaults = 0
SPECIFICATION Spec
INVARIANT
    EveryEventIsWritten
CHECK_DEADLOCK FALSE
