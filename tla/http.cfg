SPECIFICATION Spec
CONSTANTS
    Length <- MCLength
    MaxTries = 3
    Servers <- AllServers
    Framings = {"length", "chunked", "close"}
    ErrorPages = TRUE
    MaxRequests = 2
INVARIANTS
    WholeOrIncomplete
    ChunksInStep
    TagNamesContent
PROPERTIES
    RequestsEnd
CHECK_DEADLOCK FALSE
