SPECIFICATION BoundedSpec
CONSTANTS
    None = None
    e1 = e1
    m1 = m1
    m2 = m2
    sh1 = sh1
    sh2 = sh2
    k1 = k1
    k2 = k2
    s1 = s1
    s2 = s2
    Events = {e1}
    Sheets = {sh1, sh2}
    Members = {m1, m2}
    Keys = {k1, k2}
    ScanIds = {s1, s2}
    Photos = {p1, p2}
    Sound = {p1}
    Marks = {"present"}
    Requests = {r1, r2}
    EventOf <- MCEventOf
    Manifest <- MCManifest
INVARIANTS
    PhotoKeptUntilDue
    PhotoIsTheScans
    OmrRowsTraceToTheirSheet
    EveryRowIsAudited
PROPERTIES
    CommittedOnce
    OldPhotosArePurged
CHECK_DEADLOCK FALSE
