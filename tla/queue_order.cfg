SPECIFICATION Spec
CONSTANTS
    N = 2
    Producers = {1}
    Consumers = {2}
    InitialSize = 1
    MaxSub = 3
    MaxSend = 4
    MallocFreeq = {0}
INVARIANTS InOrder
