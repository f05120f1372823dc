CONSTANTS
    Tunnels = {t1, t2}
    Launches = {l1, l2}
    SupportUsers = {u1, u2, u3}
    Shells = {s1}
    Collectors = {g1}
    MaxFaults = 1
    None = None
SPECIFICATION OrderlySpec
INVARIANT HostMatchesTable
