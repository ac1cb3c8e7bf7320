SPECIFICATION Spec
CONSTANTS
    Sources = {"c1", "c2"}
    Proposals = {"p1", "p2"}
    Members = {"ann"}
    Requests = {"r1", "r2"}
    JobIds = {1, 2, 3, 4}
    MaxSources = 1
    MaxDeaths = 1
    Scenes <- SmallScenes
INVARIANTS
    PollChain
    RemindersFit
PROPERTIES
    PendingEnds
    SettledIsListed
CHECK_DEADLOCK FALSE
