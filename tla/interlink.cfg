SPECIFICATION SpecInterlink
CONSTANTS
    Procs = {p, q, r}
    MaxConnectTries = 3
    MaxBindTries = 3
    Overlap = FALSE
    None = None
    Stale = Stale
INVARIANTS
    Interlinked
PROPERTIES
    WindowsOpen
CHECK_DEADLOCK FALSE
