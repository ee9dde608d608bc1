\* One company with two people, two roles and one store; one connection; one
\* warehouse of two boxes; three categories, one product of two variants; one
\* internal order, two keepers, two runners and an administrator.
SPECIFICATION BackOfficeSpec
CONSTANTS
    A = A
    governor = governor
    collector = collector
    p1 = p1
    chat = chat
    v1 = v1
    v2 = v2
    m1 = m1
    shoe = shoe
    Nike = Nike
    nike = nike
    Users = {u1, u2}
    Companies = {A}
    Roles = {governor, collector}
    Stores = {s1}
    Owner <- Owner1
    MaxRegisters = 2
    Clients = {c1, c2}
    None = None
    People = {p1, p2}
    Channels = {chat, list}
    Listeners = {l1}
    Belongs <- OneUser
    Wants <- OnlyChat
    Writers = {c1, c2}
    Devices = {d1, d2}
    MaxStreams = 1
    MaxBuffered = 2
    MaxDevices = 1
    MaxFailures = 2
    MaxChanges = 2
    MaxQueued = 2
    Warehouses = {1}
    BoxesOf <- TwoBoxes
    Sizes = {v1, v2}
    ModelOf <- OneModel
    Orders = {1, 2}
    Bags = {1, 2}
    Charges = {k1}
    Shelf <- OnTheShelf
    Stocked <- InTheBoxes
    MaxSold = 1
    MaxSales = 2
    Minimums = {0, 1}
    Categories = {x, y, z}
    Products = {shoe}
    Variants = {v3, v4}
    ProductOf <- OneProduct
    Spellings = {Nike, nike}
    Fold <- SameName
    Names = {n1, n2}
    Editors = {c1, c2}
    Root = Root
    seller = seller
    packer = packer
    second = second
    carrier = carrier
    courier = courier
    admin = admin
    Hands = {seller, packer, second, carrier, courier, admin}
    Nobody = nobody
    Can <- Granted
    Bosses = {admin}
    Roots = {}
    Store = store
    Depot = depot
    Posts <- Assigned
    Movable <- Moves
SYMMETRY Alike
INVARIANTS
    CompanyKeepsAnAdmin
    OpenShiftIsAttended
    SignalsArrive
    AnnouncedIsCommitted
    SwitchedOffStaysOff
    RestocksAddUp
    CatalogueHolds
    HandsHold
PROPERTIES
    NoGapForgotten
    TouchedRestockGoesOn
\* A request may end with nothing left to do.
CHECK_DEADLOCK FALSE
