SPECIFICATION Spec
CONSTANTS
    c1 = c1
    c2 = c2
    Capture <- MCCapture
    ShortId <- MCShortId
    ShortOf <- MCShortOf
    SourceOf <- MCSourceOf
    Artifact <- MCArtifact
    Manifest = "manifest.json"
    WriteRank <- MCWriteRank
    NameRank <- MCNameRank
    MaxSecond = 1
    Faults <- MCNoFaults
    Absent = Absent
    Empty = Empty
    Garbage = Garbage
    NoDir = NoDir
    Closed = Closed
    Unlinked = Unlinked
INVARIANTS
    PackageOfOneCapture
CHECK_DEADLOCK FALSE
