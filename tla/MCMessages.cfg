SPECIFICATION Spec
CONSTANTS
    User = {u1, u2}
    Room = {r1, r2}
    Req = {q1, q2}
    None = None
    MaxMsgs = 1
    MaxText = 2
    MaxFaults = 1
SYMMETRY Symmetry
INVARIANTS
    TypeOK
    InSyncInTurn
    ErrorMeansUnchanged
    DeletionsAreTrue
    StatusHasReceipt
PROPERTIES
    OnlySenderChanges
    DeletedStaysGone
CHECK_DEADLOCK FALSE
