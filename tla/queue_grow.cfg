SPECIFICATION Spec
CONSTANTS
    N = 3
    Producers = {1, 2}
    Consumers = {3}
    InitialSize = 1
    MaxSub = 3
    MaxSend = 2
    MallocFreeq = {0}
INVARIANTS TypeOK ChainInv Assertions Stored ConsumersSafe
