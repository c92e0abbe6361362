\* Expected to be violated.
SPECIFICATION SafeSpec
CONSTANTS
    Call = {k1, k2}
    Request = {o1}
    MaxHandles = 1
SYMMETRY Symmetry
INVARIANTS
    DisconnectBeforeCleanup
