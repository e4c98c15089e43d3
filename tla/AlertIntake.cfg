SPECIFICATION Spec
CONSTANTS
    burst1 = burst1
    burst2 = burst2
    other = other
    debug = debug
    host = host
    broken = broken
    NoKey = NoKey
    Alert <- MCAlert
    Malformed <- MCMalformed
    Key <- MCKey
    KeyOf <- MCKeyOf
    NoContainer = NoKey
    Severity <- MCSeverity
    LowerCase <- MCLowerCase
    MinRank = 3
    NoRank = NoRank
    Window = 2
    EvictFactor = 2
    MaxLag = 2
    MaxTime = 6
    NoTime = NoTime
INVARIANTS
    TypeOK
    WindowRespected
    SuppressedJustified
PROPERTIES
    AlertAnswered
CHECK_DEADLOCK FALSE
