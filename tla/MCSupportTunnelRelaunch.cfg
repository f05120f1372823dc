CONSTANTS
    Tunnels = {t1}
    Launches = {l1, l2}
    SupportUsers = {u1}
    Workers = {w1}
    Shells = {s1}
    Collectors = {}
    MaxFaults = 0
    MaxLost = 0
    None = None
SPECIFICATION Spec
INVARIANT RunningCanBeConnected
