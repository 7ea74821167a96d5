SPECIFICATION Spec
SYMMETRY Symmetry
CONSTANTS
    None = None
    Claims = {c1, c2}
    Members = {m1}
    Kinds = {wedding_gift, sickness_advance}
    Weddings = {wedding_gift}
    Events = {e1}
    Periods = {p1, p2}
    Standings = {in_good_standing, below_threshold}
    Good = in_good_standing
    Requests = {r1, r2}
INVARIANTS
    PaidOncePerEvent
    ApprovalsAreEvidenced
    PaymentsStand
PROPERTIES
    DecidedOnce
CHECK_DEADLOCK FALSE
