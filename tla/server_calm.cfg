\* The screen saver holds the pointer.
SPECIFICATION CalmSpec
CONSTANTS
    a = a
    b = b
    b2 = b2
    nP = nP
    nA = nA
    nB = nB
    Primary = primary
    NoScreen = NoScreen
    NoName = NoName
    NameOf <- MCNameOf
    Name = {nP, nA, nB}
    Proxy = {a, b}
    LeaveMayFail = TRUE
    Files <- RelativeFiles
    Arrangements <- NoArrangements
INVARIANTS ActiveConnected OnlyActiveEntered SaverTargetConnected SaverToldInSync
