SPECIFICATION Spec
CONSTANTS
    admin = admin
    user = user
    b1 = b1
    p1 = p1
    p2 = p2
    c1 = c1
    r1 = r1
    r2 = r2
    s1 = s1
    s2 = s2
    Account = {admin, user}
    AdminAccount = admin
    Board = {b1}
    All = All
    Post = {p1, p2}
    BoardOf <- OnOneBoard
    Request = {r1, r2}
    Client = {c1}
    Attempt = {s1, s2}
    Increment = 6
    FailLimit = 2
    AbuseBounds <- MCBounds
    MaxReads = 2
    None = None
INVARIANTS
    RightsHold
    
    
    ScoresHold

    
CHECK_DEADLOCK FALSE
