------------------------------ MODULE Discovery ------------------------------
(***************************************************************************)
(* How the stub of a client finds the service it calls.                    *)
(*                                                                         *)
(* A server publishes services in a list (ruros.cpp); the client requests  *)
(* a service over a connection by a call of validate, a function of the    *)
(* resolver, which is published first and known as service 0               *)
(* (service0.cpp).  The answer is a position in the list; the client keeps *)
(* it with the connection (connection.cpp) and puts it, and the position   *)
(* of the function, into every call (client_call.cpp and the code gen.cpp  *)
(* generates).  Names never travel after the handshake.                    *)
(*                                                                         *)
(* The client process is connected once to each server.  A process may be  *)
(* both, over the same connection; the two directions share nothing here.  *)
(***************************************************************************)
EXTENDS Integers, Sequences

CONSTANTS
    Server,        \* servers, and the client's connections to them
    Caller,        \* threads of the client
    ServerSide,    \* services that may be published
    ClientSide,    \* services as stubs of the client know them
    Function,      \* functions, each with its arguments, as the IDL gives them
    Functions,     \* of each service: its functions, in the order of its IDL
    Required,      \* of each stub: the functions it was generated with
    Resolver,      \* Service0, on both sides
    None,          \* NULL
    MaxPublished,  \* bound on the list of a server, the resolver included
    MaxRequested   \* no service is requested over a connection that has so many

Validate == "validate"

ASSUME SidesAssumption == Resolver \notin ServerSide \cup ClientSide
ASSUME NoneAssumption == None \notin ServerSide \cup ClientSide \cup {Resolver} \cup Server
ASSUME FunctionsAssumption ==
    /\ Functions \in [ServerSide -> Seq(Function)]
    /\ Required \in [ClientSide -> Seq(Function)]
    /\ None \notin Function \cup {Validate}
ASSUME BoundsAssumption == MaxPublished \in Nat /\ MaxRequested \in Nat

VARIABLES
    published_services,  \* of each server
    client_services,     \* of the client's end of each connection
    server_services,     \* of the server's end of each connection
    pc,                  \* of each caller
    call,                \* its call, None if idle
    answer,              \* to its call of validate: a position, or None
    ran,                 \* the function its call has run
    aborted              \* servers that failed an assertion

vars == <<published_services, client_services, server_services,
          pc, call, answer, ran, aborted>>

-----------------------------------------------------------------------------
Published == ServerSide \cup {Resolver}
Stub == ClientSide \cup {Resolver}
FunctionsOf(x) == IF x = Resolver THEN <<Validate>> ELSE Functions[x]
RequiredOf(c) == IF c = Resolver THEN <<Validate>> ELSE Required[c]

\* What a call carries, and what the caller remembers of it.
CallRec == [server : Server, stub : Stub, func : Nat, service_id : 0..255,
            func_id : 0..255, wanted : ClientSide \cup {None}]

\* A thread of the client is in no call, or its call is on its way, has been
\* answered with the position of a service, or has run a function.
TypeOK ==
    /\ published_services \in [Server -> Seq(Published)]
    /\ client_services \in [Server -> Seq([id : 0..255, service : Stub])]
    /\ server_services \in [Server -> Seq(Published)]
    /\ pc \in [Caller -> {"idle", "called", "answered", "over"}]
    /\ call \in [Caller -> CallRec \cup {None}]
    /\ answer \in [Caller -> Nat \cup {None}]
    /\ ran \in [Caller -> Function \cup {Validate, None}]
    /\ aborted \subseteq Server
    /\ \A t \in Caller : pc[t] # "idle" => call[t] \in CallRec
    /\ \A t \in Caller : pc[t] = "answered" => call[t].wanted # None

-----------------------------------------------------------------------------
\* newConnection has put the resolver in both lists of each connection.
Init ==
    /\ published_services = [s \in Server |-> <<>>]
    /\ client_services = [s \in Server |-> <<[id |-> 0, service |-> Resolver]>>]
    /\ server_services = [s \in Server |-> <<Resolver>>]
    /\ pc = [t \in Caller |-> "idle"]
    /\ call = [t \in Caller |-> None]
    /\ answer = [t \in Caller |-> None]
    /\ ran = [t \in Caller |-> None]
    /\ aborted = {}

\* A position as uint16_t, serialized in two bytes that deserialize adds up as
\* signed chars, and then stored in a uint8_t.
SignedChar(b) == IF b < 128 THEN b ELSE b - 256
SentId(n) == (SignedChar((n % 65536) \div 256) * 256 + SignedChar(n % 256)) % 65536
StoredId(n) == n % 256

\* The generated X_check_functions: every function the stub requires is one of
\* the service's.
check_functions(x, c) ==
    \A i \in DOMAIN RequiredOf(c) :
        \E j \in DOMAIN FunctionsOf(x) : FunctionsOf(x)[j] = RequiredOf(c)[i]

EntriesOf(c, s) ==
    {i \in DOMAIN client_services[s] : client_services[s][i].service = c}

checkConnection(c, s) == EntriesOf(c, s) # {}

\* The id in the first entry for stub c.
getServiceID_Position(s, c) ==
    {i - 1 : i \in {j \in EntriesOf(c, s) : \A k \in EntriesOf(c, s) : j <= k}}
getServiceID(s, c) ==
    {client_services[s][i].id :
        i \in {j \in EntriesOf(c, s) : \A k \in EntriesOf(c, s) : j <= k}}

getService_OffByOne(s, id) ==
    IF id + 1 < Len(published_services[s]) THEN published_services[s][id + 1] ELSE None
getService(s, id) ==
    IF id < Len(published_services[s]) THEN published_services[s][id + 1] ELSE None

-----------------------------------------------------------------------------
(* The application of a server.                                            *)

\* The first service published brings the resolver along.
publishService(s, x) ==
    /\ s \notin aborted
    /\ published_services' = [published_services EXCEPT ![s] =
         Append(IF @ = <<>> THEN <<Resolver>> ELSE @, x)]
    /\ Len(published_services'[s]) <= MaxPublished
    /\ UNCHANGED <<client_services, server_services, pc, call, answer, ran, aborted>>

-----------------------------------------------------------------------------
(* A thread of the client.                                                 *)

\* A stub's function is called: the ids of the service and of the function are
\* looked up and the message is sent.  w is what validate is asked for.
client_call(t, s, c, f, w) ==
    /\ pc[t] = "idle"
    /\ checkConnection(c, s)
    /\ \E id \in getServiceID(s, c) :
         call' = [call EXCEPT ![t] =
            [server |-> s, stub |-> c, func |-> f, service_id |-> id,
             func_id |-> (f - 1) % 256, wanted |-> w]]
    /\ pc' = [pc EXCEPT ![t] = "called"]
    /\ UNCHANGED <<published_services, client_services, server_services, answer, ran,
                   aborted>>

\* requestService: the resolver's function, over this very connection.
requestService(t, s, c) ==
    /\ Len(client_services[s]) < MaxRequested
    /\ client_call(t, s, Resolver, 1, c)

\* A stub is called, over any of the connections that have its service (which
\* one is resolved in module Calls).
Call(t, s, c) ==
    /\ c # Resolver
    /\ \E f \in DOMAIN RequiredOf(c) : client_call(t, s, c, f, None)

\* The thread has its answer and goes on.
Forget(t) ==
    /\ pc' = [pc EXCEPT ![t] = "idle"]
    /\ call' = [call EXCEPT ![t] = None]
    /\ answer' = [answer EXCEPT ![t] = None]
    /\ ran' = [ran EXCEPT ![t] = None]

\* requestService goes on with the answer of validate.
Requested(t) ==
    /\ pc[t] = "answered"
    /\ client_services' = IF answer[t] = None THEN client_services
         ELSE [client_services EXCEPT ![call[t].server] =
                 Append(@, [id |-> StoredId(answer[t]), service |-> call[t].wanted])]
    /\ Forget(t)
    /\ UNCHANGED <<published_services, server_services, aborted>>

Returned(t) ==
    /\ pc[t] = "over"
    /\ Forget(t)
    /\ UNCHANGED <<published_services, client_services, server_services, aborted>>

-----------------------------------------------------------------------------
(* A worker of the server.                                                 *)

\* The call of thread t has arrived and its service x is known.
Serving(t, x) ==
    /\ pc[t] = "called"
    /\ call[t].server \notin aborted
    /\ getService(call[t].server, call[t].service_id) = x
    /\ x # None

\* The services published that have all the functions thread t asks for.
Fits(t) ==
    LET pub == published_services[call[t].server] IN
    {i \in DOMAIN pub : check_functions(pub[i], call[t].wanted)}

Answered_Forgets(t, n) ==
    /\ pc' = [pc EXCEPT ![t] = "answered"]
    /\ answer' = [answer EXCEPT ![t] = n]
    /\ call' = [call EXCEPT ![t] = None]
    /\ UNCHANGED <<published_services, client_services, ran, aborted>>
Answered(t, n) ==
    /\ pc' = [pc EXCEPT ![t] = "answered"]
    /\ answer' = [answer EXCEPT ![t] = n]
    /\ UNCHANGED <<published_services, client_services, call, ran, aborted>>

validate_NotListed(t) ==
    /\ Serving(t, Resolver)
    /\ call[t].wanted # None
    /\ \/ \E i \in Fits(t) :
            /\ \A j \in Fits(t) : i <= j
            /\ Answered(t, SentId(i - 1))
       \/ Fits(t) = {} /\ Answered(t, None)
    /\ UNCHANGED server_services

validate_OtherList(t) ==
    LET s == call[t].server IN
    /\ Serving(t, Resolver)
    /\ call[t].wanted # None
    /\ \/ \E i \in Fits(t) :
            /\ \A j \in Fits(t) : i <= j
            /\ server_services' = [server_services EXCEPT ![s] =
                                     Append(@, published_services[s][i])]
            /\ Answered(t, SentId(Len(server_services[s])))
       \/ Fits(t) = {} /\ Answered(t, None) /\ UNCHANGED server_services

\* The resolver: the first service published that has all the functions.  If
\* there is none, the id sent back is whatever it was; it is not used.
validate(t) ==
    LET s == call[t].server IN
    /\ Serving(t, Resolver)
    /\ call[t].wanted # None
    /\ \/ \E i \in Fits(t) :
            /\ \A j \in Fits(t) : i <= j
            /\ server_services' = [server_services EXCEPT ![s] =
                                     Append(@, published_services[s][i])]
            /\ Answered(t, SentId(i - 1))
       \/ Fits(t) = {} /\ Answered(t, None) /\ UNCHANGED server_services

\* The generated X_dispatch: the function at the position called, or none, and
\* Success all the same.
dispatch(t) ==
    /\ \E x \in Published :
         /\ Serving(t, x)
         /\ call[t].wanted = None
         /\ ran' = [ran EXCEPT ![t] =
              IF call[t].func_id < Len(FunctionsOf(x))
              THEN FunctionsOf(x)[call[t].func_id + 1] ELSE None]
    /\ pc' = [pc EXCEPT ![t] = "over"]
    /\ UNCHANGED <<published_services, client_services, server_services, call, answer,
                   aborted>>

\* No service has the id: handleCall's assertion fails.
NoService(t) ==
    /\ pc[t] = "called"
    /\ call[t].server \notin aborted
    /\ getService(call[t].server, call[t].service_id) = None
    /\ aborted' = aborted \cup {call[t].server}
    /\ UNCHANGED <<published_services, client_services, server_services, pc, call,
                   answer, ran>>

-----------------------------------------------------------------------------
Next ==
    \/ \E s \in Server, x \in ServerSide : publishService(s, x)
    \/ \E t \in Caller :
         \/ \E s \in Server, c \in ClientSide : requestService(t, s, c) \/ Call(t, s, c)
         \/ Requested(t)
         \/ Returned(t)
         \/ validate(t)
         \/ dispatch(t)
         \/ NoService(t)

Spec == Init /\ [][Next]_vars

-----------------------------------------------------------------------------
(* Properties.                                                             *)

\* The id a client keeps for a stub is, whatever the server publishes later and
\* whatever else was requested over the connection, the position of a service
\* that has all functions the stub requires.
IdNamesService ==
    \A s \in Server : \A i \in DOMAIN client_services[s] :
        LET e == client_services[s][i] IN
        e.service # Resolver =>
            /\ e.id < Len(published_services[s])
            /\ check_functions(published_services[s][e.id + 1], e.service)

\* The services a client uses over a connection are told of its disconnection:
\* they are in server_services before the client can call them.
UserIsKnown ==
    \A s \in Server : \A i \in DOMAIN client_services[s] :
        LET e == client_services[s][i] IN
        e.service # Resolver =>
            \E j \in DOMAIN server_services[s] :
                server_services[s][j] = getService(s, e.id)

\* A request brings down no server that has published anything, and a call none
\* at all: where there are services, every id names one.
NoneBroughtDown == \A s \in aborted : published_services[s] = <<>>

\* The function that runs is the one that was called.  The connection was made
\* on the ground that the service contains the stub's functions
\* (ruros_service.h:20); what is called is a position.
RunsWhatWasCalled ==
    \A t \in Caller :
        pc[t] = "over" => ran[t] = RequiredOf(call[t].stub)[call[t].func]

=============================================================================
