\* Requests fail, answers are lost and the process crashes, whether or not EC2
\* shows the interfaces as they were.
CONSTANTS
    Interfaces <- InOrder
    None = None
    DisableChecks = TRUE
    Consistency = {TRUE, FALSE}
    Slots = 4
    MaxCrashes = 1
SPECIFICATION FairSpec
INVARIANTS
    TypeOK
    NoExcessWhenConsistent
    AsksForTheRest
    ReadyHasPrefixes
    Inv
PROPERTIES
    StatusIsSound
    InitializeIsSound
    EventuallyReady
