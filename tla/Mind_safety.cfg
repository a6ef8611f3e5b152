SPECIFICATION Spec
CONSTANTS
    Assets <- MCAssets
    Titles <- MCTitles
    Estimates <- MCEstimates
    Terms <- MCTerms
    Receipts <- MCReceipts
    Capabilities <- MCCapabilities
    Declared <- MCCapabilities
    External = {"submit_work"}
    ExternalIO = {"submit_work", "check_resource_ingress"}
    Exempt = {"noop", "stage_deliverable"}
    Situations <- MCSituations
    Decisions <- MCDecisions
    GoalTitles <- MCGoalTitles
    Propositions = {"careful"}
    Topics = {"sky"}
    Answers = {"blue", "grey"}
    Spans = {5}
    Spending = {50, 200}
    NoAsset = NoAsset
    NoWork = NoWork
    Never = Never
    Absent = Absent
    MaxOpportunities = 1
    ContextLimit = 2
    AgingQuantum = 6
    Horizon = 8
    MaxEvents = 4
    MaxActiveGoals = 2
    Slack = 1
    HealthWindow = 3
    SensorWindow = 3
    SensorMinimum = 2
    MemoryWindow = 3
    FailureThreshold = 1
    WorldLimit = 2
    EnergyWindow = 3
    EnergyMinimum = 1
    DefaultSleep = 60
    MaxCycles = 2
    MaxMoves = 2
INVARIANT TypeOK
PROPERTY AlarmHeeded
