CONSTANTS
    N = 2
    Modes = {"core", "formal", "smoke"}
    CallsFail = TRUE
    StopsFail = FALSE
    SlowStart = FALSE
    MaxAsked = 3
    MaxCommands = 2
    MaxTrials = 2
    MaxProcesses = 3
    MaxCrashes = 1
    MaxEdits = 1
    MaxPlans = 2
    MaxRuns = 2
    MaxRequests = 1
    MaxFaults = 2
    MaxBreaks = 1
    MaxForeign = 2
    MaxSwaps = 2
    MaxAttempts = 2
    WindowSamples = 2
    IdleSamples = 2
    SettleSamples = 3
    Scripts = {1, 2}
    Frozen = 1
    Identities = {"u1"}
    Users = {"u1", "u2"}
SPECIFICATION ToolsSpec
INVARIANTS
    LoadStaysInHand
    PassedRunIsTrustworthy
    MeasuredAsDeclared
    SamplesAreAnswers
    PlannedIsDelivered
    CaseStartsClean
PROPERTIES
    ToolsCleanUp
    WholeCampaign
    EveryToolEnds
CHECK_DEADLOCK FALSE
