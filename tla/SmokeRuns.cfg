SPECIFICATION FairSpec
CONSTANTS
    stamp = stamp
    given = given
    master = master
    bad = bad
    Runs = {r1, r2}
    Nobody = Nobody
    Stamped = {stamp}
    Given = {given}
    System = {master}
    Malformed = {bad}
    SQL_SMOKE_RETRIES = 0
    DefaultRetries = 2
CHECK_DEADLOCK FALSE
INVARIANTS
    TypeOK
    ExitZeroIsTrue
    NothingLeft
    StaleReplaced
PROPERTIES
    OnlyOwnDropped
    EveryRunEnds
