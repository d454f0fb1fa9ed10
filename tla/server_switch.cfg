\* Switch delay on, two neighbors on one edge, a primary that may refuse to be left.
SPECIFICATION Spec
CONSTANTS
    a = a
    b = b
    b2 = b2
    nP = nP
    nA = nA
    nB = nB
    Primary = primary
    NoScreen = NoScreen
    NoName = NoName
    NameOf <- MCNameOf
    Name = {nP, nA, nB}
    Proxy = {a, b}
    LeaveMayFail = TRUE
    Files <- WaitFiles
    Arrangements <- NoArrangements
INVARIANTS TypeOK PendingTargetConnected
PROPERTIES LockedPointerStays OrphanedOnlyDuringSaver
