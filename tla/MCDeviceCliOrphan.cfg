CONSTANTS
    Tunnels = {t1}
    Launches = {l1}
    SupportUsers = {u1}
    Shells = {s1}
    Collectors = {g1}
    MaxFaults = 0
    None = None
SPECIFICATION FairSpec
PROPERTY ExpiredGoDown
