SPECIFICATION ProgramsSpec
CONSTANTS
    NSym = 5
    MaxBits = 4
    Share = 3
    Counts <- MCCounts
    MessageLengths <- MCLengths
    Alignments <- MCAlignments
    Chunk = 128
    CounterLimit = 512
    HistInputs <- MCHistInputs
    Words = 2
    SecdedInputs <- MCPairs
    AlphaInputs <- MCAlphaInputs
    RcuThreads = {t1, t2, t3}
    RcuSlots = 2
    MaxCount = 2
    BufferSize = 1
INVARIANTS
    Sorted ExtentInv CompleteCode OnlyAloneUndefined
    TailFits EachByteOnce
    StoresFit Counted
    Repaired NeverSilent
    ChipRepaired AlphaRepairs AlphaUndone AlphaConsistent
    SlotsInv RcuAsserts GracePeriod
PROPERTIES Ends
CHECK_DEADLOCK FALSE
