SPECIFICATION Spec
CONSTANTS
    Request = {r1, r2, r3}
    Key = {k1}
    MaxVersion = 2
INVARIANTS
    TypeOK
    UndisturbedCheckHolds
    SuccessIsStored
 
CHECK_DEADLOCK FALSE
