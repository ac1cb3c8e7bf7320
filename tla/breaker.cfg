SPECIFICATION FairSpec
CONSTANTS
    Calls = {c1, c2, c3}
    HistorySize = 5
    ConsecutiveLimit = 3
    FailureLimit = 2
    Pause = 2
    ProbesToClose = 2
INVARIANTS
    ProbeAccounted
    CountersAgree
    ClosedBelowLimits
PROPERTY Recovers
