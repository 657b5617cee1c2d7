SPECIFICATION Spec
CONSTANTS
    u1 = u1
    u2 = u2
    m1 = m1
    Users <- MCUsers
    Models <- MCModels
    Amounts = {0, 2}
    Quotas = {1, 3}
    DayTicks = 2
    MaxClock = 3
    PageSize = 1
    MaxRecords = 3
INVARIANTS
    TypeOK
    TotalsMatchRecords
    PagingMissesNothing
PROPERTIES
    ClosedDaysFrozen
    QuotaLatched
