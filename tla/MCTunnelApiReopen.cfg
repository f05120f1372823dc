CONSTANTS
    Tunnels = {t1}
    Launches = {l1}
    SupportUsers = {u1}
    Workers = {w1, w2}
    None = None
SPECIFICATION Spec
PROPERTY DetailsOnlyForOpenTunnels
