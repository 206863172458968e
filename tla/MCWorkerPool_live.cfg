CONSTANTS
    Workers = {w1, w2}
    Trajectories = {t1}
    Recovery = recovery
    NoOwner = NoOwner
    Former = Former
    NoTrajectory = NoTrajectory
    Load <- TwoThreads
    MaxTurns = 2
    MaxAnnounced = 2
    MaxCrashes = 1
    StepRetries = 1
    CorrectiveRetries = 1
    KeepersStall = FALSE
    Outages = {}
    PidReused = FALSE
SPECIFICATION FairSpec
INVARIANTS
    OwnerAloneRuns
    ThreadsSurvive
    OneJobAtATime
    NoOrphanJob
PROPERTIES
    QueuedIsTaken
    WorkSettles
    CancelIsHonoured
