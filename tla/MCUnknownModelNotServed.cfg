SPECIFICATION Spec
CONSTANTS
    r1 = r1
    r2 = r2
    u1 = u1
    u2 = u2
    nobody = nobody
    known = known
    unknown = unknown
    Requests <- TwoRequests
    Users <- BothUsers
    Nobody = nobody
    ModelIds <- BothModels
    DefaultModels <- KnownModel
    Registrations <- Changes
    Inputs <- EveryInput
    ReplyTokens = 2
    ReplyLength = 3
    DefaultRpm = 2
    Minute = 2
    Second = 1
    MaxTime = 0
    DayTicks = 1
    MaxClock = 0
INVARIANTS
    UnknownModelNotServed
