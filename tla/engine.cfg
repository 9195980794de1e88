SPECIFICATION MCSpec
CONSTANTS
    Tags = {t1, t2}
    Callers = {p, q}
    Configs <- Lifecycle
    NoDns = NoDns
    MaxSlots = 2
    MaxLineages = 2
    MaxGen = 0
    MaxLeases = 0
    Planes = {}
    MaxRev = 1
    r1 = r1
    r2 = r2
    None = None
SYMMETRY Symmetry
INVARIANTS
    ListenersAreKnown
    SharesCurrentState
    IndexesServeUsers
    RemovalIsFinal
\* The bound on contexts ends a run once every user was removed.
CHECK_DEADLOCK FALSE
