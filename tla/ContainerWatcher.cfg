SPECIFICATION Spec
CONSTANTS
    d1 = d1
    d2 = d2
    own = own
    long = long
    Death <- MCDeath
    Internal <- MCInternal
    Overlong <- MCOverlong
INVARIANTS
    DeathCapturedOnce
    NoLineLeftBehind
PROPERTIES
    StreamComesBack
CHECK_DEADLOCK FALSE
