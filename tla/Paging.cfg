\* Three places, two machines, one of them asked for or none; tokens may be
\* repeated.
CONSTANTS
    VM = {1, 2, 3}
    Last = 3
    Machine = {m1, m2}
    NoVM = NoVM
    NoMachine = NoMachine
    Setup = {}
    Repeats = TRUE
SPECIFICATION Spec
INVARIANTS
    TypeOK
    Inv
    ListingIsBounded
PROPERTIES ImplementsListing
