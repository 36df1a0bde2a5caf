SPECIFICATION Spec
CONSTANTS
    c1 = c1
    c2 = c2
    p1 = p1
    t0 = t0
    t1 = t1
    t2 = t2
    Clients = {c1, c2}
    Owners = {c1}
    Posts = {p1}
    Texts = {t0, t1, t2}
    Empty = t0
    Dangling = 1
    EditLimit = 2
    MaxCrashes = 1
    Cleaner = Cleaner
    None = None
INVARIANTS
    TextsHold
PROPERTIES
    OpenPostsClose
    BodiesAreSwept
CHECK_DEADLOCK FALSE
