SPECIFICATION FairSpec
CONSTANTS
    Tabs = {t1}
    Calls = {1, 2, 3}
    k1 = k1
    k2 = k2
    KeyPairs = {k1, k2}
    Environments <- MCEnvironments
    Drafts = {d1, d2}
    Null = Null
    MaxRestarts = 1
    MaxVisits = 2
CHECK_DEADLOCK FALSE
INVARIANTS
    TypeOK
    ReadyProcessHonoursItsSessions
    ShellIsBacked
    PendingIsOneCall
    SuccessIsTrue
PROPERTY
    FormsRecover
