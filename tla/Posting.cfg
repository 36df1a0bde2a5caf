SPECIFICATION Spec
CONSTANTS
    i1 = i1
    w1 = w1
    w2 = w2
    p1 = p1
    p2 = p2
    p3 = p3
    here = here
    elsewhere = elsewhere
    Image = {i1}
    Upload = {1, 2}
    Worker = {w1, w2}
    Post = {p1, p2, p3}
    None = None
    IP = {here, elsewhere}
    IPOf <- OneElsewhere
    PyuLimit = 2
    Chambers = 2
    PostBounds <- MCBounds

    
    
PROPERTIES
    PostingEnds
CHECK_DEADLOCK FALSE
