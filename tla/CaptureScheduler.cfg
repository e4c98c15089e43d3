SPECIFICATION Spec
CONSTANTS
    r1 = r1
    r2 = r2
    r3 = r3
    Request <- MCRequest
    Capacity = 2
    Intervals <- MCIntervals
    Longest = 2
    NoJob = NoJob
INVARIANTS
    TypeOK
    CapturedOnce
    QueueExact
PROPERTIES
    QueueServed
CHECK_DEADLOCK FALSE
