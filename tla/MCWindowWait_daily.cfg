CONSTANTS
    Trajectories = {t1, t2}
    Workers = {w1}
    NoTrajectory = NoTrajectory
    WindowWaitMaxDays = 3
    Ceiling = 1
    StepCost <- Alike
    WakeCost <- Alike
    DearestTurn = 2
    Steps = 4
    MaxRestarts = 1
SPECIFICATION FairSpec
INVARIANTS
    TypeOK
    NoEdgeCountedTwice
    OverrunIsBounded
PROPERTIES
    ImplementsLifecycle
    WaitEnds
    WorkSettles
