SPECIFICATION Spec
CONSTANTS
    Threads = {t1, t2}
    Nobody = nobody
    Regions = {1, 2, 3}
    Hash <- MCHash
    Page = 2
    Guard = 2
    MaxAlign = 6
    MemLimit = 12
    HmapSize = 7
    Sizes = {1, 4}
    Aligns = {1, 2}
    Touched = {6}
    MaxFaults = 0
SYMMETRY Symmetry
INVARIANTS MemalignAligned
