SPECIFICATION Spec
CONSTANTS
    Hosts <- MCHosts
    Fd <- MCFd
    MaxTries = 3
    CancelAt = {"connect", "done", "write", "read"}
    MaxAge = 1
INVARIANTS
    DescriptorsOwned
    NoForeignClose
    CallersSurvive
PROPERTIES
    EventsEnd
    SilenceEnds
