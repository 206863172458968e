CONSTANTS
    scan = scan
    fetch = fetch
    review = review
    Plan <- MCPlan
    DependsOn <- MCDependsOn
    Remote = {fetch}
    Gateable = {scan, fetch, review}
    Limits = {1}
    MaxRemote = 1
    MaxTurns = 2
    StepRetries = 1
    Calls = 2
    Fetching = {scan}
    MaxAnnounced = 4
    MaxCrashes = 1
SPECIFICATION FairSpec
CHECK_DEADLOCK FALSE
INVARIANTS
    TypeOK
    EnvelopeHolds
    ThreadSurvives
PROPERTIES
    ImplementsGovernedPlan
    CommittedIsOver
    ExecutionSettles
