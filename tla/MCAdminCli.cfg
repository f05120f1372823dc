CONSTANTS
    Tunnels = {t1}
    Launches = {l1}
    SupportUsers = {u1}
    Workers = {w1, w2}
    Admins = {a1}
    Collectors = {g1}
    MaxFaults = 1
    None = None
SPECIFICATION FairSpec
INVARIANT TypeOK
PROPERTIES ServersStayDestroyed ExpiredServersGoAway
