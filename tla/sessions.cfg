SPECIFICATION Spec
SYMMETRY Symmetry
CONSTANTS
    None = None
    Users = {u1}
    Tokens = {t1, t2, t3}
    Links = {l1, l2}
    Requests = {r1, r2}
INVARIANTS
    OneLiveTokenPerDevice
PROPERTIES
    NothingSurvivesAReset
    LinksAreSpent
    DeviceSessionsAreKept
CHECK_DEADLOCK FALSE
