CONSTANTS
    scan = scan
    fetch = fetch
    review = review
    Plan <- MCPlan
    DependsOn <- MCDependsOn
    Remote = {fetch}
    Gateable = {review}
    Limits = {2}
    MaxRemote = 1
    MaxTurns = 2
    StepRetries = 1
    Calls = 1
    Fetching = {}
    MaxAnnounced = 4
    MaxCrashes = 1
SPECIFICATION Spec
CHECK_DEADLOCK FALSE
INVARIANTS
    JobsWithinLimit
PROPERTIES
    ImplementsGovernedPlan
