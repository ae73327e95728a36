SPECIFICATION Spec
CONSTANTS
    c1 = c1  c2 = c2  r1 = r1  r2 = r2  u1 = u1  u2 = u2
    NoClient = NoClient
    Client = {c1, c2}
    Room = {r1, r2}
    User = {u1, u2}
    UserOf <- TwoUserOf
    RoomsOf <- TwoRoomsOf
    SendCap = 1
    MaxEvents = 2
    Env = {"send", "typing"}
INVARIANTS
    StreamsAgree
PROPERTIES
    ImplementsDelivery
CHECK_DEADLOCK FALSE
