\* Switch delay with two neighbors on one edge.
SPECIFICATION Spec
CONSTANTS
    a = a
    b = b
    b2 = b2
    nP = nP
    nA = nA
    nB = nB
    Primary = primary
    NoScreen = NoScreen
    NoName = NoName
    NameOf <- MCNameOf
    Name = {nP, nA, nB}
    Proxy = {a, b}
    LeaveMayFail = FALSE
    Files <- WaitFiles
    Arrangements <- NoArrangements
INVARIANTS PendingAimsAtOneScreen
