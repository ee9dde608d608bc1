\* Three requests, a key of each kind, two inputs; a key lives until its day ends.
SPECIFICATION MCSpec
CONSTANTS
    p1 = p1
    p2 = p2
    s1 = s1
    s2 = s2
    r3 = r3
    Requests = {r1, r2, r3}
    WrappedKeys = {w}
    MovementKeys = {m}
    Prints <- MCPrints
    Shifts <- MCShifts
    ShiftOf <- MCShiftOf
    Retention = 0
    MaxDay = 2
    None = None
INVARIANTS
    AtMostOnce
    KeysAnswerForTheirWork
    DoneMovementNotJudged
PROPERTY
    EveryRequestEnds
\* When every request has ended and the calendar is over, nothing is left to do.
CHECK_DEADLOCK FALSE
