SPECIFICATION Spec
SYMMETRY Symmetry
CONSTANTS
    None = None
    Members = {m1, m2}
    Accounts = {m1, m2}
    Posts = {coordinator, treasurer}
    AdminPosts = {coordinator, treasurer}
    Terms = {t1, t2, t3}
    Requests = {r1, r2}
    MaxTerms = 1
    Days = {1, 2}
INVARIANTS
    OneSittingHolder
PROPERTIES
    ClosedTermsStand
CHECK_DEADLOCK FALSE
