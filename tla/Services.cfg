SPECIFICATION MCSpec
CONSTANTS
    k1 = k1
    v1 = v1
    d1 = d1
    i1 = i1
    e1 = e1
    p1 = p1
    Key = {k1, k2, k3}
    Value = {v1, v2}
    None = None
    Length <- MCLength
    MaxSize = 6
    TTL = 2
    Device = {d1, d2}
    Server = {s1}
    Event = {e1, e2}
    MaxStops = 1
    MaxQueue = 2
    Inode = {i1, i2}
    Name = {p1, p2}
    MaxOps = 3
    UserName = {user}
    Password = {pw1, pw2}
    MaxFaults = 1
    Replica = {r1, r2}
INVARIANTS
    TypesOK
    Consistent
    
    PathsRight
    NameIsTheirs
    
PROPERTIES
    IsVolatileMap
    SetReturns
    ReachesOpen
    AnswerIsHandled
    KeepsPolling
    RootKept
    RequestEnds
    RedirectionEnds
CHECK_DEADLOCK FALSE
