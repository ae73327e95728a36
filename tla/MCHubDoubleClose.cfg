SPECIFICATION Spec
CONSTANTS
    c1 = c1  c2 = c2  r1 = r1  r2 = r2  u1 = u1  u2 = u2
    NoClient = NoClient
    Client = {c1}
    Room = {r1}
    User = {u1}
    UserOf <- SoloUserOf
    RoomsOf <- SoloRoomsOf
    SendCap = 1
    MaxEvents = 2
    Env = {"room"}
INVARIANTS
    NoDoubleClose
CHECK_DEADLOCK FALSE
