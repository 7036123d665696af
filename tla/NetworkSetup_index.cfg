\* Device indexes that are not places in the list.
CONSTANTS
    Interfaces <- OnCards
    None = None
    DisableChecks = TRUE
    Consistency = {TRUE}
    Slots = 4
    MaxCrashes = 0
SPECIFICATION Spec
INVARIANTS ReadyHasPrefixes
