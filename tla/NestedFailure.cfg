\* Expected to be violated: a handler called back fails.
SPECIFICATION SafeSpec
CONSTANTS
    Proc = {"P", "Q"}
    Conn = {"pq", "qp"}
    Owner <- PairOwner
    Peer <- PairPeer
    Order <- PairOrder
    Service = {"S", "CB"}
    Provides <- PairProvides
    a = a
    b = b
    Client = {a}
    Home <- AtP
    Tid <- OwnTid
    MaxWorkers = 2
    Budget <- Three
    Results = {"Success", "InternalError"}
    Fragile = {}
    None = None
CHECK_DEADLOCK FALSE
INVARIANTS
    ReplyFindsItsCall
