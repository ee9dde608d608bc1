SPECIFICATION Spec
CONSTANTS
    Orders = {o1, o2}
    Variants = {a, b}
    Runners = {r1}
    MaxUnits = 1
    Stocked = 2
    None = None
SYMMETRY Symmetry
INVARIANT
    AlwaysWaitsForALiveSub
CHECK_DEADLOCK FALSE
