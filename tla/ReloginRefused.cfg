SPECIFICATION FairSpec
CONSTANTS
    Tabs = {t1}
    Calls = {1, 2}
    k1 = k1
    k2 = k2
    KeyPairs = {k1, k2}
    Environments <- MCEnvironments
    Drafts = {d1}
    Null = Null
    MaxRestarts = 1
    MaxVisits = 1
CHECK_DEADLOCK FALSE
PROPERTY
    CredentialsSuffice
