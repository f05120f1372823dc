CONSTANTS
    Tunnels = {t1}
    Launches = {l1, l2}
    SupportUsers = {u1, u2}
    Workers = {w1, w2, w3}
    None = None
SPECIFICATION Spec
SYMMETRY Symmetric
INVARIANTS
    TypeOK
    DetailsFromOneLaunch
    OpenTunnelsAreUsable
    TimedOutOnlyPastExpiry
PROPERTIES
    SealedStaysClosed
    KeepsLifecycle
