CONSTANTS
    w1 = w1  w2 = w2
    save = save  t1 = t1
    Works = {w1, w2}
    Timers = {save, t1}
    Periodic = {save}
    Fds = {3}
    MaxDelay = 2
SPECIFICATION FairSpec
INVARIANTS
    NeverLate
    HandlersCurrent
PROPERTIES
    HalvesRun
    TimersRun
