SPECIFICATION MatrixSpec
CONSTANTS
    FirstYear = 2025
    FirstWeekday = 3
    Horizon = 15
    m1 = m1
    m2 = m2
    MemberIds = {m1, m2}
    Joined <- MCJoined
    Complete = {m1, m2}
    EventIds = {1, 2, 3}
    PaymentIds = {p1, p2, p3}
    Rules = {"mass", "seminars", "novena", "affiliation", "monthly", "weddings", "other"}
    Rule <- MCRule
    Floors <- MCFloors
    Config <- MCConfig
    NovenaItem = "novena"
    Subscription = "subscription"
    Affiliations = {"diocese", "deanery"}
    DateRank = 2
    NewEvents <- MCNewEvents
    Recurrences <- MCRecurrences
    Novenas <- MCNovenas
    Registers <- MCRegisters
    NewPayments <- MCNewPayments
    Edits <- MCEdits
    MaxRows = 3
    Null = Null
SYMMETRY Symmetry
INVARIANTS UnheldCostsNothing NoEventFallsBetween
PROPERTIES GoodDeedsNeverHurt OnlyItsTimeCounts SeriesFallOnTheirDays
CHECK_DEADLOCK FALSE
