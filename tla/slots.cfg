SPECIFICATION Spec
CONSTANTS
    DAY = 12
    Zones <- Changing
    Dates = {10, 11, 12}
    Windows <- Offered
    Moves <- Later
    MaxRangeDays = 2
    MinDuration = 2
    MaxDuration = 3
    Members = {"Ada", "Kim"}
    Habits = {"silent", "never", "early", "even_days"}
INVARIANTS
    TypeOK
PROPERTIES
    GridMatchesServer
    FormAgreesWithServer
    SuggestionsHold
CHECK_DEADLOCK FALSE
