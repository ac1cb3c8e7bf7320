SPECIFICATION Spec
CONSTANTS
    a = a
    b = b
    Tabs = {a, b}
    Requests = {"get1", "post1", "get2"}
    TabOf <- SenderOf
    Keyed = {"post1"}
    Scenes <- Happening
    MaxFaults = 1
    MaxHours = 1
INVARIANTS
    TypeOK
    HonestTabsStaySignedIn
PROPERTIES
    Settles
CHECK_DEADLOCK FALSE
