SPECIFICATION Spec
CONSTANTS
    N = 3
    Producers = {1}
    Consumers = {2, 3}
    InitialSize = 1
    MaxSub = 3
    MaxSend = 3
    MallocFreeq = {0}
INVARIANTS LockInv OldInv AtMostOnce ProducersSafe
