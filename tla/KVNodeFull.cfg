SPECIFICATION CrashSpec
CONSTANTS
    n1 = n1
    p1 = p1
    Node = {n1, n2}
    Payload = {p1, p2}
    None = None
    MaxTerm = 2
    MaxRestarts = 1
SYMMETRY Symmetry
INVARIANTS
    TypeOK
    OneWriter
    
PROPERTIES
    
    LeadersWereElected
CHECK_DEADLOCK FALSE
