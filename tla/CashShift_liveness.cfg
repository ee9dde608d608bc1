SPECIFICATION FairSpec
CONSTANTS
    Shifts = {s1}
    Sales = {x1}
    Returns = {r1}
    Clients = {c1, c2}
    MaxAmount = 1
    MaxCash = 2
    MaxFailures = 1
    None = None
PROPERTIES
    RequestsFinish
    LedgerSpec
