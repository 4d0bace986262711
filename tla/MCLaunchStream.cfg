SPECIFICATION Spec
CONSTANTS
    Profiles <- MCProfiles
    Components <- MCComponents
    SessionComponents <- MCSessionComponents
    Critical <- MCCritical
    Bound <- MCBound
    DegradedProfile <- MCDegraded
    InitialProfile = "full"
    NoProfile = NoProfile
    None = None
    Outcomes <- AllOutcomes
    RestartLimit = 1
    CrashLoop = 2
    MaxCachedStates = 1
    MaxGeneration = 2
    MaxRequests = 2
    MaxFaults = 1
INVARIANTS
    AuthorityCoversStream
    NewStreamIsUnseen
    AnswersAgree
PROPERTIES
    DegradeIsJustified
    
CHECK_DEADLOCK FALSE
