SPECIFICATION Spec
CONSTANTS
    a1 = a1
    a2 = a2
    a3 = a3
    a4 = a4
    q1 = q1
    q2 = q2
    Entry <- MCEntry
    Alert <- MCAlert
    Filter <- MCFilter
    PageSize = 2
    Request <- MCRequest
    Long <- MCLong
    Torn = Torn
    TornLong = TornLong
    MaxCalls = 3
    MaxResets = 1
SYMMETRY Symmetry
INVARIANTS
    CallOrderKept
    TornLineCostsOne
    NewestFirst
    AlertsAllShown
CHECK_DEADLOCK FALSE
