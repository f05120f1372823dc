CONSTANTS
    Tunnels = {t1}
    Launches = {l1}
    SupportUsers = {u1, u2}
    Shells = {s1}
    Collectors = {}
    MaxFaults = 1
    None = None
SPECIFICATION Spec
PROPERTY RecordedUsersStay
