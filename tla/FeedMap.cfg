SPECIFICATION Spec
CONSTANTS
    c1 = c1
    c2 = c2
    t1 = t1
    t2 = t2
    Clients = {c1, c2}
    Threads = {t1, t2}
    TV = TV
    Board = Board
    Senders = {s1}
    s1 = s1
    Loops = {i1, i2, i3, i4}
    i1 = i1
    i2 = i2
    i3 = i3
    i4 = i4
    StartFails = FALSE
    None = None
INVARIANTS
    MapsHold
    PointerServed
PROPERTIES
    CallsReturn
    ImplementsSubscriptions
