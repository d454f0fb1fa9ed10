\* Two threads that add and remove two sockets from the very start.
SPECIFICATION Spec
CONSTANTS
    main = main
    other = other
    s1 = s1
    s2 = s2
    readable = readable
    Callers = {main, other}
    Service = service
    Sockets = {s1, s2}
    Jobs = {readable}
    NoJob = NoJob
    NoThread = NoThread
    NoSocket = NoSocket
PROPERTIES PollAlwaysBroken
