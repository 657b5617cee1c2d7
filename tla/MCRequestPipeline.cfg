SPECIFICATION FairSpec
CONSTANTS
    r1 = r1
    r2 = r2
    u1 = u1
    u2 = u2
    nobody = nobody
    known = known
    unknown = unknown
    Requests <- TwoRequests
    Users <- BothUsers
    Nobody = nobody
    ModelIds <- BothModels
    DefaultModels <- KnownModel
    Registrations <- Changes
    Inputs <- EveryInput
    ReplyTokens = 2
    ReplyLength = 3
    DefaultRpm = 1
    Minute = 1
    Second = 1
    MaxTime = 1
    DayTicks = 1
    MaxClock = 1
INVARIANTS
    TypeOK
    LedgerExact
    UsageMatchesResponses
    HandledWithinBudget
    CallsMatchRequests
PROPERTIES
    EveryRequestEnds
    ImplementsMeter
