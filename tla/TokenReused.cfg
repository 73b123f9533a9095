SPECIFICATION Spec
CONSTANTS
    acme = acme
    Null = Null
    Companies = {acme}
    Tenant = acme
    Calls = {c1, c2}
    Seeds = {}
    MaxFailures = 0
CHECK_DEADLOCK FALSE
INVARIANT
    OneTimeUse
