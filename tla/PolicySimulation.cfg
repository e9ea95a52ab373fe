\* A policy that has an end of validity, and a simulation that reaches it.
CONSTANTS
    Inputs <- MCInputs
    Scores <- MCScores
    Trusts <- MCTrusts
    Hours <- MCHours
    PolicySets <- MCPolicySets
    HourLength = 2
    FailureWindow = 1
    FailureBurst = 3
    RecentLogs = 5
    CountryLogs = 10
    TransferBurst = 2
    DenyScore = 70
SPECIFICATION Spec
INVARIANT SimulationAnswers
CHECK_DEADLOCK FALSE
