\* Files, or captures, or the search for a neighbor, or the configuration file, or the event
\* queue, or the application around the server, or one of the parts of input, or the selections
\* of an X screen, or the desktops of Windows.  Users stop, and bounds are reached, so the system may stop.
SPECIFICATION PartsSpec
CONSTANTS
    Chunks = 2
    MaxAttempts = 3
    MaxCopies = 2
    MaxReceives = 2
    MaxFailures = 2
    MaxEdits = 1
    MaxCaptures = 1
    Captures = {k1, k2, k3}
    Producers = {m1, m2}
    MaxPending = 2
    MaxDrops = 1
    MaxEvents = 2
    MaxAdopts = 1
    AppClients = {c1, c2}
    StartMayFail = FALSE
    MaxSuspends = 2
    MaxJoins = 2
    MaxResets = 1
    RelayClients = {c1, c2}
    RelayPrimary = p
    RelayKeys = {k1}
    RelayButton = b
    Refusers = {p, c1}
    Broadcasts = {{c1, c2}}
    MaxRelayed = 3
    MaxPosted = 2
    MaxLosses = 1
    MaxMotions = 5
    TapWindow = 1
    MaxTapTime = 3
    MaxTaps = 3
    MaxTapMessages = 2
    MaxCrossings = 2
    Desktops = {"home", "secure", "saver"}
    Home = "home"
    Saver = "saver"
    Inaccessible = {"secure"}
    Windowless = {}
    Locked = "locked"
    NoDesk = "none"
    MaxSwitches = 4
    Screen = {"p", "a", "b"}
    Primary = "p"
    Shape <- ScreenShapes
    Grid = 4
    Candidates <- Edges
    Directions = {"Left", "Right"}
    Reach = 3
    JumpZone = 1
    BoundKey = f1
    LockKey = scroll
    NoKey = none
    Modifier = ctrl
    Windows = {r1}
    WindowProperties = {p1, p2}
INVARIANTS InputLetGo DoneAsAsked NewestShown FilesWhole CapturesAnswered NeighborsFit EventsKept AsleepStopped
PROPERTIES SourceCopySurvives EverythingEnds
CHECK_DEADLOCK FALSE
