SPECIFICATION FairSpec
CONSTANTS
    acme = acme
    Null = Null
    Companies = {acme}
    Tenant = acme
    Calls = {c1, c2}
    Seeds = {s1, s2}
    MaxFailures = 1
CHECK_DEADLOCK FALSE
INVARIANTS
    TypeOK
    OnePool
    RejectionIsFresh
    ReuseRefused
    UseForcesRotation
    CleanSeedSuffices
PROPERTIES
    PolicyClosesSeed
    EveryUseAnswered
