\* Expected to be violated: the clients of A and B have the same thread id.
SPECIFICATION SafeSpec
CONSTANTS
    Proc = {"A", "B", "C"}
    Conn = {"ac", "ca", "bc", "cb"}
    Owner <- ForkOwner
    Peer <- ForkPeer
    Order <- ForkOrder
    Service = {"S", "CB"}
    Provides <- ForkProvides
    a = a
    b = b
    Client = {a, b}
    Home <- ForkHome
    Tid <- SameTid
    MaxWorkers = 2
    Budget <- One
    Results = {"Success"}
    Fragile = {}
    None = None
CHECK_DEADLOCK FALSE
INVARIANTS
    NoAssertionFails
