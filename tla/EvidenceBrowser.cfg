SPECIFICATION Spec
CONSTANTS
    p1 = p1
    p2 = p2
    c1 = c1
    c2 = c2
    c3 = c3
    q1 = q1
    q2 = q2
    Capture <- MCCapture
    PackageOf <- MCPackageOf
    Package <- MCPackage
    NameRank <- MCNameRank
    PageSize = 1
    Request <- MCRequest
    Scope <- MCScope
SYMMETRY Symmetry
INVARIANTS
    PackagesAllShown
    DetailComplete
    ViewerBelongs
    LoadingIsAwaited
CHECK_DEADLOCK FALSE
