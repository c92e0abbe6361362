----------------------------- MODULE RemoteCalls -----------------------------
(***************************************************************************)
(* What client_call promises its caller: the handler of a call runs at     *)
(* most once, on behalf of a caller that waits for it, and Success is      *)
(* reported only after the handler has come to its end.  A call that does  *)
(* not succeed may have run, be running, or never run.                     *)
(***************************************************************************)
CONSTANTS
    CallId      \* the calls

\* What client_call may report instead of Success.
Failure == {"Exception", "Disconnected", "CannotResolve", "InternalError",
            "SerializationError"}

VARIABLES
    handler,    \* of each call: none, running or over
    outcome     \* of each call: none, pending, Success or a failure

vars == <<handler, outcome>>

TypeOK ==
    /\ handler \in [CallId -> {"none", "running", "over"}]
    /\ outcome \in [CallId -> {"none", "pending", "Success"} \cup Failure]

Init ==
    /\ handler = [id \in CallId |-> "none"]
    /\ outcome = [id \in CallId |-> "none"]

Invoke(id) ==
    /\ outcome[id] = "none"
    /\ outcome' = [outcome EXCEPT ![id] = "pending"]
    /\ UNCHANGED handler

Start(id) ==
    /\ handler[id] = "none"
    /\ outcome[id] = "pending"
    /\ handler' = [handler EXCEPT ![id] = "running"]
    /\ UNCHANGED outcome

End(id) ==
    /\ handler[id] = "running"
    /\ handler' = [handler EXCEPT ![id] = "over"]
    /\ UNCHANGED outcome

Succeed(id) ==
    /\ outcome[id] = "pending"
    /\ handler[id] = "over"
    /\ outcome' = [outcome EXCEPT ![id] = "Success"]
    /\ UNCHANGED handler

Fail(id) ==
    /\ outcome[id] = "pending"
    /\ \E r \in Failure : outcome' = [outcome EXCEPT ![id] = r]
    /\ UNCHANGED handler

Next == \E id \in CallId :
    Invoke(id) \/ Start(id) \/ End(id) \/ Succeed(id) \/ Fail(id)

Spec == Init /\ [][Next]_vars

-----------------------------------------------------------------------------
\* What of this does not depend on how calls end.
\* No handler runs for a call nobody made.
NotRunUncalled == \A id \in CallId : handler[id] # "none" => outcome[id] # "none"

\* A handler that has begun does not begin again, and what client_call has
\* reported once is not reported again as something else.
NeverAgain == \A id \in CallId :
    /\ handler[id] # "none" => handler'[id] # "none"
    /\ handler[id] = "over" => handler'[id] = "over"
    /\ outcome[id] \notin {"none", "pending"} => outcome'[id] = outcome[id]

=============================================================================
