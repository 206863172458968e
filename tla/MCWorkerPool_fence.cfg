CONSTANTS
    Workers = {w1, w2}
    Trajectories = {t1}
    Recovery = recovery
    NoOwner = NoOwner
    Former = Former
    NoTrajectory = NoTrajectory
    Load <- TwoThreads
    MaxTurns = 2
    MaxAnnounced = 3
    MaxCrashes = 1
    StepRetries = 0
    CorrectiveRetries = 0
    KeepersStall = TRUE
    Outages = {}
    PidReused = FALSE
SPECIFICATION Spec
SYMMETRY Symmetry
PROPERTIES
    TurnsAreFenced
