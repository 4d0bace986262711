CONSTANTS
    c1 = c1
    c2 = c2
    None = None
    Clients = {c1, c2}
    Epochs = {1, 2}
    MaxCallbacks = 1
    MaxGen = 2
    MaxFaults = 1
SPECIFICATION FairSpec
INVARIANTS
    PresentedIsShown
PROPERTIES
    KeepsFramePromise
    CommitIsAnswered
CHECK_DEADLOCK FALSE
