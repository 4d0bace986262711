CONSTANTS
    c1 = c1
    c2 = c2
    w1 = w1
    w2 = w2
    terminal = terminal
    panel = panel
    NoSurface = NoSurface
    SurfaceClients = {c1, c2}
    SurfaceOf <- MCSurfaceOf
    Loaded <- MCLoaded
    LastScene <- MCLastScene
    MaxBatches = 2
    MaxCrashes = 1
    MaxSaveFaults = 1
SPECIFICATION RegistrySpec
INVARIANTS
    RebuiltFromTheLiving
    
PROPERTIES
    OnlyDeadOwnersReplaced
    
CHECK_DEADLOCK FALSE
