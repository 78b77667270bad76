SPECIFICATION SurveySpec
CONSTANTS
    Items = 3
    Limit = 2
    Plans <- MCPlans
INVARIANTS
    NothingPassesUnseen
    GroupsAreWhole
PROPERTIES
    NothingTakenAfterCancel
CHECK_DEADLOCK FALSE
