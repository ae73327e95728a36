SPECIFICATION Spec
CONSTANTS
    c1 = c1  c2 = c2  r1 = r1  r2 = r2  u1 = u1  u2 = u2
    NoClient = NoClient
    Client = {c1, c2}
    Room = {r1}
    User = {u1}
    UserOf <- OneUserOf
    RoomsOf <- OneRoomsOf
    SendCap = 1
    MaxEvents = 2
    Env = {"room", "user", "cancel", "lose"}
SYMMETRY Symmetry
INVARIANTS
    RegistryConsistent
    CrashCause
    EvictionUnderway
    FlushWithinBuffer
PROPERTIES
    ImplementsDelivery
CHECK_DEADLOCK FALSE
