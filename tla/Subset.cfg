\* Expected to be violated: a stub with some of the functions of a service.
SPECIFICATION Spec
CONSTANTS
    Server = {s1}
    Caller = {t1}
    ServerSide = {"X", "Y", "Z"}
    ClientSide = {"x"}
    Function = {"f", "g", "h"}
    Functions <- MCFunctions
    Required <- Part
    Resolver = Resolver
    None = None
    MaxPublished = 3
    MaxRequested = 2
CHECK_DEADLOCK FALSE
INVARIANTS
    RunsWhatWasCalled
