CONSTANTS
    o1 = o1
    o2 = o2
    m1 = m1
    c1 = c1
    None = None
    Outputs = {o1, o2}
    Modes = {m1}
    Clients = {c1}
    Start <- MCStart
    Slots = 1
    BufferLimit = 1
    SubDepth = 2
    MaxSubs = 2
    ClientSlots = 3
    MaxChanges = 2
    MaxFaults = 1
SPECIFICATION FairSpec
INVARIANTS
    
    ClientInSync

    
CHECK_DEADLOCK FALSE
