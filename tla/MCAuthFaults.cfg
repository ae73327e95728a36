SPECIFICATION Spec
CONSTANTS
    User = {u1, u2}
    Req = {q1}
    Miss = Miss
    Route = {"Validate", "Patch"}
    MaxPairs = 2
    MaxFaults = 1
SYMMETRY Symmetry
INVARIANTS
    TypeOK
    
    FailedIssueUndone
CHECK_DEADLOCK FALSE
