SPECIFICATION Spec
CONSTANTS
    User = {u1}
    Req = {q1, q2}
    Miss = Miss
    Route = {"Validate"}
    MaxPairs = 2
    MaxFaults = 0
SYMMETRY Symmetry
INVARIANTS
    LogoutRevokes
