\* One order and one write-off of two variants; one sale of two lines, two
\* requests for a discount on it and two returns of it.
SPECIFICATION DocumentsSpec
CONSTANTS
    PurchaseOrders = {o1}
    WriteOffs = {w1}
    Variants = {a, b}
    People = {supplier, keeper}
    Suppliers = {supplier}
    Buyers = {keeper}
    Keepers = {keeper}
    MaxAsked = 1
    MaxCounted = 2
    MaxShipments = 2
    MaxReports = 1
    MaxClosings = 2
    Wasted <- WastedUnits
    Sales = {s1}
    Requests = {d1, d2}
    MaxLines = 2
    MaxUnits = 2
    UnitPrice = 5
    Amounts = {0, 3}
    MaxPercent = 30
    Returns = {r1, r2}
    ReplacementTotals = {2, 20}
    Generic = {2}
SYMMETRY Alike
INVARIANTS
    LinesAndIncidentsAgree
    OverageIsAuthorised
    NoticesAskForALiveStep
    StockIsWhatWasCounted
    ReturnsAddUp
PROPERTIES
    DiscountsHold
\* A document that is finished stays as it is.
CHECK_DEADLOCK FALSE
