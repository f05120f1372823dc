CONSTANTS
    Tunnels = {t1}
    Launches = {l1}
    SupportUsers = {u1}
    Shells = {s1, s2}
    Collectors = {g1}
    MaxFaults = 1
    None = None
SPECIFICATION FairSpec
INVARIANTS
    TypeOK
    RunningIsRecorded
PROPERTIES
    GoneStaysGone
    ExpiredAreCleanedUp
