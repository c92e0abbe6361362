\* Expected to be violated: the stream fails while a call is waited for.
SPECIFICATION Spec
CONSTANTS
    Proc = {"P", "Q"}
    Conn = {"pq", "qp"}
    Owner <- PairOwner
    Peer <- PairPeer
    Order <- PairOrder
    Service = {"S", "CB"}
    Provides <- PairProvides
    a = a
    b = b
    Client = {a}
    Home <- AtP
    Tid <- OwnTid
    MaxWorkers = 1
    Budget <- One
    Results = {"Success"}
    Fragile = {"pq", "qp"}
    None = None
CHECK_DEADLOCK FALSE
PROPERTIES
    DisconnectWakes
