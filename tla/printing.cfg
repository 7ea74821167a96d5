SPECIFICATION Spec
CONSTANTS
    Members = {1, 2, 3}
    Houses = {1, 2}
    Built = {1}
    Register <- MCRegister
    EventIds = {e1}
    Runs = {g1, g2}
    Docs = {d1, d2}
    PageRows = 2
    MaxPages = 2
    Requests = {r1, r2}
    Edits <- MCEdits
    Bodies <- MCBodies
    Subjects = {1}
    None = None
SYMMETRY Symmetry
INVARIANTS RowsKeepWhatTheyName PaperIsOnRecord ReprintAddsNobody
PROPERTIES PagesCoverTheRoll
CHECK_DEADLOCK FALSE
