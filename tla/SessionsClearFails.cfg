SPECIFICATION Spec
CONSTANTS
    acme = acme
    globex = globex
    login = login
    provision = provision
    tenant = tenant
    bootstrap = bootstrap
    probe = probe
    Null = Null
    Companies = {acme, globex}
    Requests = {login, provision, probe}
    Connections = {c1, c2}
    Work <- MCWork
    Actor <- MCActor
    Failures = {"statement", "clear"}
INVARIANT
    IdleConnectionsCleared
