CONSTANTS
    None = None
    o1 = o1
    o2 = o2
    Surfaces = {1, 2}
    Buffers <- MCBuffers
    Patterns <- MCPatterns
    First <- MCFirst
    Requests <- MCRequests
    Outputs = {o1, o2}
    Headless = o1
    Geometries <- MCGeometries
    MaxCoord = 8
    MaxDamageRects = 3
    MaxCommits = 3
    MaxDraws = 1
    MaxFaults = 1
SPECIFICATION Spec
INVARIANTS
    ScreenIsCurrent
    
CHECK_DEADLOCK FALSE
