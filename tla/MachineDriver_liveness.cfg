\* One machine, two instances, one fault: an orphan beside the instance in
\* use.  No symmetry, which is unsound for liveness.
CONSTANTS
    VM = {v1, v2}
    Machine = {m1}
    NoVM = NoVM
    NoMachine = NoMachine
    Setup = {c0}
    Checks = {c0}
    PrimaryCheck = c0
    Collector = Collector
    MaxFaults = 1
    Repeats = FALSE
    Remembers = FALSE
SPECIFICATION FairSpec
PROPERTIES
    OrphansCollected
    DeletionEnds
