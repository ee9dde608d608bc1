SPECIFICATION Spec
CONSTANTS
    Orders = {o1}
    Sales = {x1}
    Shifts = {s1}
    Trips = {r1}
    Clients = {c1, c2}
    MaxQty = 1
    Spare = 0
    None = None
SYMMETRY Symmetry
INVARIANTS
    NeverCross
