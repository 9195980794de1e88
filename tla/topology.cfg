SPECIFICATION Spec
CONSTANTS
    Callers = {lane, remote}
    SessionCallers = {lane}
    Nodes = {n1}
    Users = {u1}
    Creds = {c1, c2}
    NoCred = NoCred
    Revisions = {1, 2}
    Nobody = Nobody
    Closer = Closer
    MaxPublications = 3
INVARIANTS
    NoLostUpdate
    RefreshOverSeenUsers
    RuntimeMatchesPublished
    NoStaleConnections
SYMMETRY Symmetry
\* The bound on publications and a closed manager end a behaviour.
CHECK_DEADLOCK FALSE
