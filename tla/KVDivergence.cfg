SPECIFICATION Spec
CONSTANTS
    n1 = n1
    p1 = p1
    Node = {n1, n2, n3}
    Payload = {p1, p2}
    None = None
    MaxTerm = 1
    MaxRestarts = 0
SYMMETRY Symmetry
INVARIANTS
    CommittedLogsAgree
CHECK_DEADLOCK FALSE
