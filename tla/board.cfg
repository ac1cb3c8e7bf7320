SPECIFICATION Spec
CONSTANTS
    c1 = c1
    Cells = {c1}
    Windows <- OneCellWindows
    Me = me
    Others = {}
    Answers <- OneCellAnswers
    NoRead = NoRead
    MaxVersion = 3
INVARIANTS
    TagVouches
    
PROPERTIES
    WorkKept
    Converges
CHECK_DEADLOCK FALSE
