SPECIFICATION Spec
CONSTANTS
  Tier <- MCTiers
  Remote <- MCRemote
  Ceiling <- MCCeiling
  PricingSource = {"cloud", "edge"}
  Claiming = {"cloud"}
  Order <- MCOrder
  DefaultTier = "fast"
  Context <- MCContext
  StepTokensDefault <- MCStepTokens
  UnitPrice <- MCUnitPrice
  MinSamples = 2
  Step = {"s1", "s2", "loop"}
  Malformed = Malformed
  Overlong = Overlong
  Documents <- MCDocuments
  MaxSteps = 2
  MaxPlanSteps = 2
  CorrectiveRetries = 0
  Tool = {"read", "write", "exec"}
  Submissions <- MCSubmissions
  Policies <- MCPolicies
  Answers <- MCAnswers
  Exchanges <- MCExchanges
  VersionCacheSeconds = 2
  MaxPages = 2
  None = None
  Unsupported = Unsupported
  Raises = {6}
  MaxTurnsPerStep = 2
  Puts <- MCPuts
  Pinned = {}
  Secured <- MCSecured
  LoopbackHosts = {"localhost"}
  AllowedHosts = {"docs.example"}
  FetchCeiling = 1
  NetworkTools = {"fetch"}
  OnExhausted = "approval"
  Strict = FALSE
  MaxCalls = 4
  MaxRevisions = 5
  MaxSummaries = 2
  MaxCrashes = 1
INVARIANTS SummaryNeverAnswers
CHECK_DEADLOCK FALSE
