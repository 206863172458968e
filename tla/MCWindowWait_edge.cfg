CONSTANTS
    Trajectories = {t1, t2}
    Workers = {w1}
    NoTrajectory = NoTrajectory
    WindowWaitMaxDays = 2
    Ceiling = 1
    StepCost <- Alike
    WakeCost <- Alike
    DearestTurn = 2
    Steps = 2
    MaxRestarts = 0
SPECIFICATION Spec
INVARIANTS
    ThreadsSurvive
