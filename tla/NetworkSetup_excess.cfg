\* A retry goes by prefixes that EC2 does not show yet.
CONSTANTS
    Interfaces <- InOrder
    None = None
    DisableChecks = TRUE
    Consistency = {FALSE}
    Slots = 4
    MaxCrashes = 0
SPECIFICATION Spec
INVARIANTS NoExcessPrefixes
