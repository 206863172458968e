CONSTANTS
    Trajectories = {t1}
    Workers = {w1}
    NoTrajectory = NoTrajectory
    WindowWaitMaxDays = 3
    Ceiling = 1
    StepCost <- DearStep
    WakeCost <- Alike
    DearestTurn = 2
    Steps = 2
    MaxRestarts = 0
SPECIFICATION FairSpec
PROPERTIES
    WorkSettles
