\* Two sales, two requests, two references, a warehouse and two boxes of the store.
SPECIFICATION MCSpec
CONSTANTS
    b = b
    farBox = 3
    Variants = {a, b}
    StoreBoxes = {2, 3}
    Warehouse = 1
    Docs = {d1, d2}
    Clients = {c1, c2}
    MaxQty = 2
    MaxLine = 2
    None = None
SYMMETRY Symmetry
INVARIANTS
    ReservationsHold
    UnitsConserved
    AlikesNeverEmbrace
