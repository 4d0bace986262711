SPECIFICATION ResumeSpec
CONSTANTS
    Profiles <- ManyProfiles
    Degraded <- SafeOrCrossed
    Nil = Nil
    MaxResumes = 2
    MaxCrashes = 1
INVARIANTS
    CompletesLocked
    RecoveryAgrees
PROPERTIES
    AcceptedIsExecuted
