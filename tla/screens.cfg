SPECIFICATION Spec
CONSTANTS
    p1 = p1
    p2 = p2
    p3 = p3
    Proposals = {p1, p2, p3}
    WindowOf <- OneWindow
    First = {p1}
    Values = {"yes"}
    Reminding = {"remind"}
    Screens <- Worked
    CallIds = {1, 2}
    MaxVersion = 3
INVARIANTS
    TagVouches
    OncePerKey
PROPERTIES
    PressEnds
CHECK_DEADLOCK FALSE
