\* One client, three nested calls: through its own process, to Q, and back.
SPECIFICATION Spec
CONSTANTS
    Proc = {"P", "Q"}
    Conn = {"l", "r", "pq", "qp"}
    Owner <- DeepOwner
    Peer <- DeepPeer
    Order <- DeepOrder
    Service = {"L", "S", "CB"}
    Provides <- DeepProvides
    a = a
    b = b
    Client = {a}
    Home <- AtP
    Tid <- OwnTid
    MaxWorkers = 1
    Budget <- Three
    Results = {"Success"}
    Fragile = {}
    None = None
INVARIANTS
    CallbackOnCaller
    OneThreadPerChain
    OriginKept
PROPERTIES
    CallsReturn
    ImplementsRemoteCalls
    ImplementsChains
    EndsAreConnections
