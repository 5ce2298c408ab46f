SPECIFICATION Spec
CONSTANTS
    Records = 2
    MaxVersion = 3
    MaxInode = 5
    MaxFaults = 1
    MaxCrashes = 1
INVARIANTS
    CleanMeansSaved
PROPERTIES
    ImplementsAtomicFile
    EventuallySaved
CHECK_DEADLOCK FALSE
