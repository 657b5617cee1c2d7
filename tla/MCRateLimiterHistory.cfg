SPECIFICATION Spec
CONSTANTS
    k1 = k1
    Keys <- MCKeys
    DefaultRpm = 2
    Rpms = {0, 1, 3}
    Counts = {1, 2}
    Minute = 7
    Second = 2
    MaxTime = 13
INVARIANTS
    TypeOK
    AdmissionBound
    PromiseHonoured
    RetryAfterHonoured
PROPERTIES
    ImplementsThrottle
