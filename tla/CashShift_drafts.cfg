SPECIFICATION Spec
CONSTANTS
    Shifts = {s1}
    Sales = {x1}
    Returns = {r1}
    Clients = {c1, c2}
    MaxAmount = 2
    MaxCash = 3
    MaxFailures = 2
    None = None

INVARIANT
    NoDraftOnClosedShift
