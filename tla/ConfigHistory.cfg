\* Three changes of one policy and of the workflow configuration at a time,
\* and a decision that is logged and replayed meanwhile.
CONSTANTS
    r1 = r1
    r2 = r2
    r3 = r3
    n1 = n1
    Requests = {r1, r2, r3}
    Decisions = {n1}
    Policies <- MCPolicies
    Workflow = Workflow
    Times <- MCTimes
    Modes <- MCModes
    NewWindows <- MCNewWindows
    Payloads <- MCPayloads
    MaxVersion = 3
SYMMETRY MCSymmetry
SPECIFICATION Spec
INVARIANTS
    ReplayFaithful
    HistoryComplete
    WindowOrdered
    AnswersHonest
CHECK_DEADLOCK FALSE
