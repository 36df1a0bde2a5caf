SPECIFICATION ReplicaSpec
CONSTANTS
    c1 = c1
    c2 = c2
    op = op
    p1 = p1
    ip1 = ip1
    ip2 = ip2
    a = a
    b = b
    Clients = {c1, c2}
    Posts = {op, p1}
    OP = op
    Chars = {a}
    IPs = {ip1, ip2}
    IP <- MCIP
    TextOnly = TRUE
    Readers = {c1}
    MaxPage = 2
    SendCap = 1
    Retention = 2
    EditLimit = 3
    MaxTime = 5
    MaxLenBody = 2
    MaxBuffer = 0
    MaxMods = 0
    Moderations = {"deletePost", "deleteImage", "spoilerImage", "purgePost"}
    Absent = Absent
INVARIANTS
    TypeOK
    RunsIffSubscribed
    MemoizedIsCurrent
    
    CountIsCurrent
    ReplicaTypeOK

    
CHECK_DEADLOCK FALSE
