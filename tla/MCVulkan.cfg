CONSTANTS
    None = None
    c1 = c1
    c2 = c2
    Callers = {c1, c2}
    Batches <- MCBatches
    MaxId = 1
    MaxGeneration = 3
    MaxPayload = 2
    MinPacketBatch = 2
    MaxPending = 2
    MaxTerminal = 1
    MaxAllocation = 3
SPECIFICATION FairSpec
INVARIANTS
    MemoryIsHeld
    OneVerdict
PROPERTIES
    KeysAreNew
    WaitEnds
CHECK_DEADLOCK FALSE
