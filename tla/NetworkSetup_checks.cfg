\* A retry after a modification that failed on one interface.
CONSTANTS
    Interfaces <- InOrder
    None = None
    DisableChecks = TRUE
    Consistency = {TRUE}
    Slots = 4
    MaxCrashes = 0
SPECIFICATION Spec
INVARIANTS ReadyHasChecksOff
