\* Somebody copies on the primary and on one client; a second client takes the cursor and
\* shows what is shared, or loses its connection.  Copies and switches are bounded, so the
\* system may stop.
SPECIFICATION Spec
CONSTANTS
    c1 = c1
    c2 = c2
    Primary = primary
    Clients = {c1, c2}
    MaxCopies = 2
    MaxSeq = 3
    Scenarios <- SharedOrSingle
INVARIANTS OwnerSent OwnersAgree UpToDate DataExpected
CHECK_DEADLOCK FALSE
