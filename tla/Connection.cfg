\* Three calls served while the stream fails and local threads call out.
SPECIFICATION Spec
CONSTANTS
    Call = {k1, k2, k3}
    Request = {o1}
    MaxHandles = 1
INVARIANTS
    TypeOK
    CallsCounted
    RefsCounted
    CleanupOnce
    NoMissedCleanup
    ReaderGoneMeansClosed
PROPERTIES
    CleanupEventually
