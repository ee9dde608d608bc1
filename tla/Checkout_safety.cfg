SPECIFICATION Spec
CONSTANTS
    Orders = {o1, o2}
    Sales = {x1, x2}
    Shifts = {s1, s2}
    Trips = {r1}
    Clients = {c1, c2}
    MaxQty = 1
    Spare = 0
    None = None
SYMMETRY Symmetry
INVARIANTS
    ChargedAtMostOnce
    OpenChargeFreezesOrder
    GoodsAddUp
