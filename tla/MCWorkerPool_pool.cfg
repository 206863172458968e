CONSTANTS
    Workers = {w1, w2}
    Trajectories = {t1, t2}
    Recovery = recovery
    NoOwner = NoOwner
    Former = Former
    NoTrajectory = NoTrajectory
    Load <- EitherPool
    MaxTurns = 1
    MaxAnnounced = 2
    MaxCrashes = 1
    StepRetries = 0
    CorrectiveRetries = 0
    KeepersStall = TRUE
    Outages = {1}
    PidReused = TRUE
SPECIFICATION Spec
SYMMETRY Symmetry
INVARIANTS
    TypeOK
    LoneWorkerSurvives
PROPERTIES
    ImplementsLifecycle
    LoneWorkerIsFenced
    EndedRecordIsClosed
