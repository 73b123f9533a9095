SPECIFICATION Spec
CONSTANTS
    acme = acme
    globex = globex
    Null = Null
    Companies = {acme, globex}
    Requests = {q1, q2, q3}
    Ips = {ip1}
    Actors <- OnlyAdmin
    ID_ENUMERATION_THRESHOLD = 3
    ID_ENUMERATION_WINDOW_SECONDS = 1
    ID_ENUMERATION_BLOCK_SECONDS = 0
    DefaultPolicy <- MCDefaultPolicy
    TRUST_PROXY_X_FORWARDED_FOR = FALSE
    MaxTime = 1
    RlsEnforced = FALSE
    Failing = FALSE
CHECK_DEADLOCK FALSE
INVARIANT
    ProtectionMeetsThreshold
