SPECIFICATION ListSpec
CONSTANTS
    Names = {"a", "b"}
    Unset = "none"
INVARIANTS
    SavedIsListed
CHECK_DEADLOCK FALSE
