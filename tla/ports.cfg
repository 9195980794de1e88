SPECIFICATION MCFairSpec
CONSTANTS
    Plans = {p1, p2}
    p1 = p1
    Empty = Empty
    NoTable = NoTable
    MaxFaults = 4
    Invalid = Invalid
    Pending = Pending
INVARIANTS
    PlanIsExact
PROPERTIES
    ApplyIsTruthful
    Settles
\* A closed manager refuses every call, and a plan is built once.
CHECK_DEADLOCK FALSE
