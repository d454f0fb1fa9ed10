\* The active screen after a disconnect during the screen saver.
SPECIFICATION Spec
CONSTANTS
    a = a
    b = b
    b2 = b2
    nP = nP
    nA = nA
    nB = nB
    Primary = primary
    NoScreen = NoScreen
    NoName = NoName
    NameOf <- MCNameOf
    Name = {nP, nA, nB}
    Proxy = {a, b}
    LeaveMayFail = FALSE
    Files <- RowFiles
    Arrangements <- NoArrangements
INVARIANTS ActiveConnected
