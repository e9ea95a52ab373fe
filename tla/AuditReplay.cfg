\* Three decisions about one right side by side, while policies change and
\* time passes, and what a replay makes of them.
CONSTANTS
    r1 = r1
    r2 = r2
    r3 = r3
    Requests = {r1, r2, r3}
    Inputs <- MCInputs
    Regimes <- MCRegimes
    Owner = "u1"
    HourLength = 2
    FailureWindow = 1
    FailureBurst = 2
    RecentLogs = 1
    CountryLogs = 2
    TransferBurst = 1
    DenyScore = 70
    LatestLimit = 2
    StartTime = 46
    MaxTime = 49
SYMMETRY MCSymmetry
SPECIFICATION Spec
INVARIANTS
    ReplayAgrees
    DecidedByRule
    OneOverlooked
PROPERTIES
    ReplayStable
CHECK_DEADLOCK FALSE
