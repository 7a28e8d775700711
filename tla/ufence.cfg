SPECIFICATION Spec
CONSTANTS
    Threads = {t1, t2}
    Nobody = nobody
    Regions = {1, 2, 3}
    Hash <- MCHash
    Page = 2
    Guard = 2
    MaxAlign = 6
    MemLimit = 12
    HmapSize = 8
    Sizes = {0, 1, 4}
    Aligns = {1}
    Touched = {5, 9}
    MaxFaults = 1
SYMMETRY Symmetry
INVARIANTS LockInv TableInv LimitInv LiveInv Recognised FreeFindsObject
