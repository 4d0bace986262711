CONSTANTS
    o1 = o1
    o2 = o2
    None = None
    Outputs = {o1, o2}
    Builtin = {o1}
    Cells <- MCCells
    Covers <- MCCovers
    Scenes <- MCScenes
    MaxObligations = 2
    MaxFeedbacks = 1
    MaxCommits = 3
    MaxMishaps = 2
SPECIFICATION Spec
INVARIANTS
    ReadyIsCurrent
    FeedbackIsEarned
    AnsweredIsDurable
    
CHECK_DEADLOCK FALSE
