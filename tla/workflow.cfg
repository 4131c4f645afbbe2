SPECIFICATION FairSpec
CONSTANTS
    first = first
    again = again
    replay = replay
    k1 = k1
    k2 = k2
    NoRun = NoRun
    NoAgent = NoAgent
    Runs = {first, again, replay}
    Key <- MCKey
    Original <- MCOriginal
    After <- MCAfter
    Agents <- MCAgents
    Stages <- MCStages
    Triage = "triage"
    Judge = "judge"
    Pod = "pod"
    PodAgents <- MCPodAgents
    Aggregator = "aggregator"
    MaxTransient <- MCMaxTransient
    MaxValidation <- MCMaxValidation
    Degrades = {"judge"}
    Validated = {"judge"}
    Says <- MCSays
    Usage <- MCUsage
    Projected <- MCProjected
    Guess = 4
    Ceiling = 42
    Unit = 2
    Overrides <- MCOverrides
    FromAgents <- MCFromAgents
    MaxOverlap = 1
    MaxFaults = 1
INVARIANTS
    TypeOK
    KeyRunsOnce
    CostReconciles
    SucceededWithinCeiling
    AttemptsBounded
    PredictionsBacked
    NoAgentLeftRunning
PROPERTIES
    RunsSettle
CHECK_DEADLOCK FALSE
