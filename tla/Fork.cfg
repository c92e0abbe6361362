\* Clients at A and at B call C, whose handlers may call them back.
SPECIFICATION SafeSpec
CONSTANTS
    Proc = {"A", "B", "C"}
    Conn = {"ac", "ca", "bc", "cb"}
    Owner <- ForkOwner
    Peer <- ForkPeer
    Order <- ForkOrder
    Service = {"S", "CB"}
    Provides <- ForkProvides
    a = a
    b = b
    Client = {a, b}
    Home <- ForkHome
    Tid <- OwnTid
    MaxWorkers = 3
    Budget <- TwoOne
    Results = {"Success"}
    Fragile = {}
    None = None
INVARIANTS
    TypeOK
    NothingOverwritten
    RecursionCounted
    FreeWorkersAreFree
    NoWorkerLost
    WorkersBounded
    CallbackGoesBack
    RunsOnItsThread
    NoAssertionFails
    ReplyFindsItsCall
PROPERTIES
    ImplementsChains
