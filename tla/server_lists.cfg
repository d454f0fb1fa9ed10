\* Connections: two objects that announce the same name, edited files, new arrangements.
SPECIFICATION Spec
CONSTANTS
    a = a
    b = b
    b2 = b2
    nP = nP
    nA = nA
    nB = nB
    Primary = primary
    NoScreen = NoScreen
    NoName = NoName
    NameOf <- MCNameOf
    Name = {nP, nA, nB}
    Proxy = {a, b, b2}
    LeaveMayFail = FALSE
    Files <- EditedFiles
    Arrangements <- RowArrangements
INVARIANTS ListsAgree
