\* Somebody copies on the primary and on one client.
SPECIFICATION Spec
CONSTANTS
    c1 = c1
    c2 = c2
    Primary = primary
    Clients = {c1, c2}
    MaxCopies = 2
    MaxSeq = 2
    Scenarios <- SharedBriefly
INVARIANTS ExpectedSender
CHECK_DEADLOCK FALSE
