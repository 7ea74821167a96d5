SPECIFICATION PhotosSpec
CONSTANTS
    Drafts = {d1, d2}
    Existing = {}
    Keys = {k1, k2, k3}
    Calls = {r1, r2, r3}
    Nothing = Nothing
SYMMETRY Symmetry
INVARIANTS KeysAreTheirs PhotosOnFile
CHECK_DEADLOCK FALSE
