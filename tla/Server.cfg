CONSTANTS
    p1 = p1
    p2 = p2
    Proc = {p1, p2}
    Setups <- MCSetups
    NoRow = NoRow
    Nobody = Nobody
    MaxKills = 1
    Poster = {t1, t2}
    MaxWrites = 2
    MaxDisconnects = 1
    None = None
SPECIFICATION ServerSpec
INVARIANTS
    EveryMigrationOnce
    ServedDatabase
    
PROPERTIES
    FailureHasReason
    Upgraded
CHECK_DEADLOCK FALSE
