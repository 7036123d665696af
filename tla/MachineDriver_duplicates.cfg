\* One machine and two instances, which retries after time-outs, lost answers
\* and crashes launch for it, each with two checks to disable, one of them the
\* instance's own, and a prefix to assign.
CONSTANTS
    VM = {v1, v2}
    Machine = {m1}
    NoVM = NoVM
    NoMachine = NoMachine
    Setup = {c0, c1, p1}
    Checks = {c0, c1}
    PrimaryCheck = c0
    Collector = Collector
    MaxFaults = 2
    Repeats = FALSE
    Remembers = TRUE
SYMMETRY Symmetry
SPECIFICATION Spec
INVARIANTS
    DeleteIsComplete
    NoNeedlessDuplicate
    AmbiguousNotAdopted
    HistoryInv
    AnswerIsTrue
    ReadyIsSetUp
