\* Two callers, four functions.  The streams may fail, and a call may then wait
\* for ever, so the system may stop.
SPECIFICATION Spec
CONSTANTS
    Base = 4
    a = a
    b = b
    Caller = {a, b}
    Thread <- MCThread
    Fragile = {"client", "server"}
    Cuts = {2, 7}
    None = None
    Tid <- MCTid
    Functions <- MCFunctions
    Values <- MCValues
    Uses <- MCUses
    Budget <- MCBudget
CHECK_DEADLOCK FALSE
INVARIANTS
    TypeOK
    SpoiltOnlyIf
    ArgumentsArrive
    WaitsForSomething
PROPERTIES
    ChannelsOfMessages
