CONSTANTS
    Trajectories = {t1, t2}
    WindowWaitMaxDays = 3
    Past = {t2}
    NoTrajectory = NoTrajectory
    Batch = 1
    MaxLate = 1
    MaxRebuilds = 1
    MaxKills = 1
SPECIFICATION FairRecordSpec
INVARIANTS
    ExecutingHasIntent
    ParkedOnItsRequest
    Inductive
    RecordTypeOK
    NothingOutlivesItsScrub
PROPERTIES
    TerminalIsAbsorbing
    RetentionIsHonoured
CHECK_DEADLOCK FALSE
