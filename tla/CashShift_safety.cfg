SPECIFICATION Spec
CONSTANTS
    Shifts = {s1}
    Sales = {x1, x2}
    Returns = {r1}
    Clients = {c1, c2, c3}
    MaxAmount = 2
    MaxCash = 3
    MaxFailures = 2
    None = None
SYMMETRY Symmetry
INVARIANTS
    FrozenExpectedMatchesLedger
    CompletedSalePaidInFull
    CreditBackedByReturn
    ReturnSettledExactly
    NoLockCycle
PROPERTIES
    ChargedOnlyInOpenShift
    CashOutNeverOverdraws
    LockedOutUntilRegenerated
    LedgerNeverRefuses
