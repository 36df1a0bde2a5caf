SPECIFICATION ReplicaSpec
CONSTANTS
    c1 = c1
    c2 = c2
    op = op
    p1 = p1
    ip1 = ip1
    ip2 = ip2
    a = a
    b = b
    Clients = {c1, c2}
    Posts = {op, p1}
    OP = op
    Chars = {a}
    IPs = {ip1, ip2}
    IP <- MCIP
    TextOnly = FALSE
    Readers = {c1}
    MaxPage = 0
    SendCap = 1
    Retention = 1
    EditLimit = 2
    MaxTime = 2
    MaxLenBody = 0
    MaxBuffer = 0
    MaxMods = 2
    Moderations = {"deleteImage"}
    Absent = Absent
INVARIANTS
    BufferedImpliesTicking
    
PROPERTIES
    
    BufferFlushed
CHECK_DEADLOCK FALSE
