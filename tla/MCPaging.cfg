SPECIFICATION Spec
CONSTANTS
    m1 = m1  m2 = m2  m3 = m3  m4 = m4  m5 = m5  r1 = r1  r2 = r2
    Message = {m1, m2, m3, m4, m5}
    Room = {r1, r2}
    RoomOf <- RoomOfMessage
    Limits = {0, 2}
    defaultListLimit = 5
    MaxStamp = 3
    MaxDeletes = 1
SYMMETRY Symmetry
INVARIANTS
    ScanComplete
    WindowInv
CHECK_DEADLOCK FALSE
