CONSTANTS
    scan = scan
    fetch = fetch
    review = review
    Plan <- MCPlan
    DependsOn <- MCDependsOn
    Remote = {fetch}
    Gateable = {review}
    Limits = {1}
    MaxRemote = 1
    MaxTurns = 2
    StepRetries = 0
    Calls = 2
    Fetching = {}
    MaxAnnounced = 3
    MaxCrashes = 1
SPECIFICATION Spec
CHECK_DEADLOCK FALSE
INVARIANTS
    NoCallLost
