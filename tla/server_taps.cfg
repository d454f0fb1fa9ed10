\* Double tap on, clients on two edges that meet in a corner.
SPECIFICATION Spec
CONSTANTS
    a = a
    b = b
    b2 = b2
    nP = nP
    nA = nA
    nB = nB
    Primary = primary
    NoScreen = NoScreen
    NoName = NoName
    NameOf <- MCNameOf
    Name = {nP, nA, nB}
    Proxy = {a, b}
    LeaveMayFail = FALSE
    Files <- TapFiles
    Arrangements <- NoArrangements
PROPERTIES DoubleTapRequired ArrivesInPlace
