SPECIFICATION FairSpec
CONSTANTS
    N = 2
    Producers = {1}
    Consumers = {2}
    InitialSize = 4
    MaxSub = 2
    MaxSend = 13
    MallocFreeq = {0, 3}
PROPERTIES CallsReturn
