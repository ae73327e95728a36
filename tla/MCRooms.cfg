SPECIFICATION Spec
CONSTANTS
    User = {u1, u2}
    Req = {q1, q2}
    None = None
    MaxRooms = 2
    MaxFaults = 1
SYMMETRY Symmetry
INVARIANTS
    RoomInv
    SecondRoomByOverlap
    DeletedOnce
PROPERTIES
    OnlyCreatorDeletes
    ImplementsMembership
