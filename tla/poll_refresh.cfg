SPECIFICATION Spec
CONSTANTS
    Sources = {"c1", "c2"}
    Proposals = {"p1"}
    Members = {"ann"}
    Requests = {"r1", "r2"}
    JobIds = {1, 2, 3, 4}
    MaxSources = 1
    MaxDeaths = 0
    Scenes <- SmallScenes
PROPERTY
    RefreshEnqueuesPoll
CHECK_DEADLOCK FALSE
