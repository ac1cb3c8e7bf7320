SPECIFICATION Spec
CONSTANTS
    Names = {"a", "b"}
    Invalid = {"b"}
    FirstName = "n"
    Links <- ThreeLinks
    OthersMay <- Interfering
    Pages <- Worked
    CallIds = {1, 2}
    MaxVersion <- Versions
    MaxAttempts = 2
INVARIANTS
    TypeOK
    OncePerBody
    RenamesTheNameShown
    LinkShownIsFresh
PROPERTIES
    PressEnds
CHECK_DEADLOCK FALSE
