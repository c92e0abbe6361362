\* Two servers that publish what they like, when they like, requests meanwhile.
SPECIFICATION Spec
CONSTANTS
    Server = {s1, s2}
    Caller = {t1, t2}
    ServerSide = {"X", "Y", "Z"}
    ClientSide = {"x", "z"}
    Function = {"f", "g", "h"}
    Functions <- MCFunctions
    Required <- Whole
    Resolver = Resolver
    None = None
    MaxPublished = 3
    MaxRequested = 2
SYMMETRY Symmetry
CHECK_DEADLOCK FALSE
INVARIANTS
    TypeOK
    IdNamesService
    UserIsKnown
    NoneBroughtDown
    RunsWhatWasCalled
