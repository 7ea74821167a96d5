SPECIFICATION BoundedSpec
CONSTANTS
    None = None
    m1 = m1
    m2 = m2
    Members = {m1, m2}
    HasAccount = {m1}
    Timer = timer
    Triggered = {http}
    Limit = 1
    LastMonth = 3
INVARIANTS
    SentWasMailed
    MailedTwiceOnlyWhenUnsure
PROPERTIES
    PendingIsSettled
CHECK_DEADLOCK FALSE
