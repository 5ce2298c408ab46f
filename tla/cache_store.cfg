CONSTANTS
    u1 = u1  u2 = u2  c1 = c1  c2 = c2  e1 = e1  e2 = e2  e3 = e3
    NoUri = NoUri  NoEntry = NoEntry
    Uris = {u1, u2}
    Conns = {c1, c2}
    Entries = {e1, e2, e3}
    Sizes = {0, 1}
    OptSize = 2
    ExpiredUris = {u2}
    HttpUris = {u1}
    LargeUris = {u1, u2}
    ManagedUris = {u1, u2}
    UsersWait = TRUE
SPECIFICATION Spec
SYMMETRY Interchangeable
INVARIANTS
    OneValidPerUri
    UsersHaveEntry
    OneWriter
