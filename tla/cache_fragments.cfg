CONSTANTS
    v1 = v1  v2 = v2  NoByte = NoByte
    Bytes = {v1, v2}
    Granule = 2
    MaxChunk = 2
    MaxEnd = 4
    MaxSize = 4
SPECIFICATION SpecFragments
SYMMETRY Versions
INVARIANTS
    EntrySound
PROPERTIES
    LatestHeld
