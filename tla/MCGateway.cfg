SPECIFICATION Spec
CONSTANTS
    d1 = d1  d2 = d2
    Room = {d1, d2}
    User = {u1}
    Conn = {n1}
    Nobody = Nobody
    Requested <- SomeRequests
    MaxFaults = 1
INVARIANTS
    HandshakeInv
    AddedWhileConnected
