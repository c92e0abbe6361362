\* Handlers and streams fail.  A call may then wait for ever, so the system may stop.
SPECIFICATION SafeSpec
CONSTANTS
    Proc = {"P", "Q"}
    Conn = {"pq", "qp"}
    Owner <- PairOwner
    Peer <- PairPeer
    Order <- PairOrder
    Service = {"S", "CB"}
    Provides <- PairProvides
    a = a
    b = b
    Client = {a, b}
    Home <- AtP
    Tid <- OwnTid
    MaxWorkers = 4
    Budget <- FourOne
    Results = {"Success", "InternalError", "Thrown"}
    Fragile = {"pq", "qp"}
    None = None
CHECK_DEADLOCK FALSE
CONSTRAINT Scope
INVARIANTS
    
    StraysOnlyIfDisturbed
PROPERTIES
    KeptUntilDisturbed
    NothingTwice
    EndsAreConnections
