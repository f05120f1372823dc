CONSTANTS
    Tunnels = {t1}
    Launches = {l1}
    SupportUsers = {u1, u2}
    Workers = {w1}
    Shells = {s1}
    Collectors = {g1}
    MaxFaults = 1
    MaxLost = 1
    None = None
SPECIFICATION Spec
SYMMETRY Symmetric
CONSTRAINT OneDisturbance
INVARIANTS TypeOK ReportedIsRecorded RunningCanBeConnected
PROPERTY DownStaysDown
