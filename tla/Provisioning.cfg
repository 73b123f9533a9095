SPECIFICATION FairSpec
CONSTANTS
    Calls = {p, q}
    Names = {n1, n2}
    Emails = {e1, e2, root_email}
    Root = root
    RootEmail = root_email
    Null = Null
INVARIANTS
    TypeOK
    NoHalfCreatedTenant
    SomebodyMoves
PROPERTIES
    ImplementsRegistry
    EveryCallAnswered
