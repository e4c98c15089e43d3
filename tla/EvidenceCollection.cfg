SPECIFICATION Spec
CONSTANTS
    Form <- MCForm
    Unset = Unset
    Loaded <- MCLoaded
    DefaultTimeout = 2
INVARIANTS
    OptionsInForce
    BestEffort
PROPERTIES
    CollectionEnds
CHECK_DEADLOCK FALSE
