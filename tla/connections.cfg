\* A client's or a server's socket, plain or with TLS; or two clients that are accepted; or
\* packets that come over a socket; or a client's session; or a thread that is started and ended; or
\* a service that keeps a worker; or a daemon that keeps a core.  Each ends in the end, or owner and
\* service thread wait for each other, so the system may stop.
SPECIFICATION PartsSpec
CONSTANTS
    NoJob = NoJob
    NoSocket = NoSocket
    sock = sock
    MaxWrites = 2
    MaxArrivals = 2
    Conns = {c1, c2}
    NoConn = NoConn
    AcceptFails = TRUE
    Stops = TRUE
    Header = 2
    Body = 2
    MaxUnits = 9
    Addresses <- ThreeServers
    Up <- Answering
    MaxLosses = 3
    MaxSuspends = 1
    MaxStarts = 2
    WorkerSessions = {"ann", "bob"}
    NoSession = "nobody"
    Grace = 2
    Silence = 1
    StopWait = 1
    Patience = 1
    Delays <- TwoDelays
    LongRun = 3
    WorkerSwitches = 2
    WorkerFaults = 2
    DogSessions = {"lobby", "ann", "bob"}
    Lobby = "lobby"
    MaxControls = 3
    MaxCommands = 2
    DogFaults = 1
    DogSwitches = 2
INVARIANTS ClosedSafely SocketServed ClientsAccountedFor EndAfterData SessionKept HostKept
PROPERTIES TableUsed EverybodyAnswered
CHECK_DEADLOCK FALSE
