CONSTANTS
    Tunnels = {t1}
    Launches = {l1, l2}
    SupportUsers = {u1, u2}
    Workers = {w1}
    Shells = {s1}
    Collectors = {}
    MaxFaults = 1
    MaxLost = 0
    None = None
SPECIFICATION FairSpec
PROPERTIES ApprovedIsConnected ApprovedIsReported StopIsReported
