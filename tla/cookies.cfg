SPECIFICATION Spec
CONSTANTS
    Cookie = {c1, c2}
    Kinds <- MCKinds
    Edits <- DatesOnly
    MaxTime = 1
    MaxAsked = 1
    MaxFaults = 1
    MaxEnds = 1
INVARIANTS
    CleanMeansSaved
    ServersCounted
    DomainsCoverCookies
PROPERTIES
    ChangesSaved
CHECK_DEADLOCK FALSE
