SPECIFICATION Spec
CONSTANTS
    n1 = n1
    p1 = p1
    Node = {n1, n2, n3}
    Payload = {}
    None = None
    MaxTerm = 2
    MaxRestarts = 0
SYMMETRY Symmetry
INVARIANTS
    VoteOnce
    OneMajorityPerTerm
    CandidateHasTimer
PROPERTIES
    TermNeverDecreases
CHECK_DEADLOCK FALSE
