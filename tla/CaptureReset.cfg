SPECIFICATION Spec
CONSTANTS
    c1 = c1
    c2 = c2
    Capture <- MCCapture
    ShortId <- MCTwoIds
    ShortOf <- MCApart
    SourceOf <- MCSourceOf
    Artifact <- MCOneFile
    Manifest = "manifest.json"
    WriteRank <- MCOneWrite
    NameRank <- MCOneName
    MaxSecond = 0
    Faults <- MCFaults
    Absent = Absent
    Empty = Empty
    Garbage = Garbage
    NoDir = NoDir
    Closed = Closed
    Unlinked = Unlinked
INVARIANTS
    ManifestSound
    ResetSweeps
    OneVerdict
PROPERTIES
    SealedForever
    StoreImplemented
    DockerCaptureEnds
CHECK_DEADLOCK FALSE
