\* Two transactions and a caller of the low-level methods, on one Client.
SPECIFICATION FairSpec
CONSTANTS
    Transactions = {t1, t2}
    Callers = {c1}
    SessionIds = {s1, s2, s3}
    Shared = Shared
    None = None
    Configs <- MCConfigs
    MaxFaults = 1
INVARIANTS
    TypeOK
    Isolation
    NeverRefused
PROPERTIES
    OwnEffects
    CallsReturn
