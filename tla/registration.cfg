SPECIFICATION Spec
CONSTANTS
    Drafts = {d1, d2}
    Existing = {u}
    Addresses = {a, b, c}
    Mandatory = {name}
    Optional = {}
    Requests = {r1, r2}
    MaxAttempts = 2
    MaxCodes = 2
    None = None
SYMMETRY Symmetry
INVARIANTS EmailsAreProved OneAccountPerAddress CodesAreBounded OneMemberPerDraft
CHECK_DEADLOCK FALSE
