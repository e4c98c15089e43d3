SPECIFICATION Spec
CONSTANTS
    t1 = t1
    t2 = t2
    Tab <- MCTab
    Field <- MCField
    SectionOf <- MCSectionOf
    Value <- MCValue
    Accepted <- MCAccepted
    Default <- MCDefault
    FileRank <- MCFileRank
    InitialFile <- MCInitial
    MaxCrashes = 1
    Nobody = Nobody
    Missing = Missing
INVARIANTS
    TypeOK
    UpdatesKept
    DiskFollowsMemory
PROPERTIES
    UpdateAnswered
CHECK_DEADLOCK FALSE
