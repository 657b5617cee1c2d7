SPECIFICATION FairSpec
CONSTANTS
    c1 = c1
    c2 = c2
    u1 = u1
    k1 = k1
    nobody = nobody
    Nobody = nobody
    Connections <- TwoConnections
    Users <- OneUser
    ApiKeys <- OneKey
    SecretConfigured = FALSE
    DefaultRpm = 1
    Minute = 2
    Second = 1
    MaxTime = 2
    JwtExpiry = 1
    MaxBoots = 1
INVARIANTS
    TypeOK
    BudgetAcrossRestarts
PROPERTIES
    RefusalIsFinal
    RevocationSettles
