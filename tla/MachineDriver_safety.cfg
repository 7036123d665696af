\* Two machines, two instances: either the instances back one machine each,
\* or both were launched for the same one while the other waits.
CONSTANTS
    VM = {v1, v2}
    Machine = {m1, m2}
    NoVM = NoVM
    NoMachine = NoMachine
    Setup = {c0}
    Checks = {c0}
    PrimaryCheck = c0
    Collector = Collector
    MaxFaults = 1
    Repeats = TRUE
    Remembers = FALSE
SYMMETRY Symmetry
SPECIFICATION Spec
INVARIANTS
    TypeOK
    InUseNeverTerminated
    ProviderIDIsOwn
    Inv
PROPERTIES ImplementsBacking
