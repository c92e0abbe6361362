----------------------------- MODULE Connection -----------------------------
(***************************************************************************)
(* One ruros::Connection object (src/src/connection.cpp): the thread that  *)
(* reads it (input_processor), the threads that serve the calls it brought *)
(* in (Thread::handleCall), the threads that make calls over it            *)
(* (client_call), and the ConnectionRef handles of the application.  They  *)
(* share its state, its reference counter and its counter of calls being   *)
(* served, and between them they owe the application two notifications:    *)
(* on_client_disconnect and, once no call is being served, one             *)
(* on_client_cleanup.                                                      *)
(*                                                                         *)
(* One read or write of a shared variable, one atomic add, one short       *)
(* section under Connection::lock is one step; between two steps every     *)
(* other thread may run.  The lock is held over several steps only while   *)
(* on_client_cleanup is being called ("emit").                             *)
(***************************************************************************)
EXTENDS Naturals, FiniteSets

CONSTANTS
    Call,        \* calls the peer may make over this connection
    Request,     \* calls local threads may make over it
    MaxHandles   \* bound on the ConnectionRef objects alive at one time

ASSUME CallAssumption == IsFiniteSet(Call)
ASSUME RequestAssumption == IsFiniteSet(Request)
ASSUME MaxHandlesAssumption == MaxHandles \in Nat \ {0}

VARIABLES
    state,               \* Active, Closed or ClosedCleanedup
    ref_cnt,             \* reference counter
    incoming_calls_cnt,  \* calls between call_in and call_out
    reader,              \* where input_processor stands
    msg,                 \* what it has read and not handed over yet
    call,                \* how far the service of each incoming call got
    request,             \* how far each outgoing call got
    handles,             \* ConnectionRef objects alive
    readable,            \* RawIO::read may still return data
    writable,            \* RawIO::write still accepts data
    disconnects,         \* on_client_disconnect notifications so far
    cleanups             \* on_client_cleanup notifications so far

vars == <<state, ref_cnt, incoming_calls_cnt, reader, msg, call, request,
          handles, readable, writable, disconnects, cleanups>>

State == {"Active", "Closed", "ClosedCleanedup"}
NoMsg == [cmd |-> "none"]
Msg == [cmd : {"CmdCall"}, id : Call] \cup {[cmd |-> "CmdReturn"], NoMsg}
ReaderPC == {"start", "check", "read", "post", "notify", "cleanup", "emit",
             "unref", "done"}
CallPC == {"none", "posted", "running", "sending", "callout", "cleanup",
           "emit", "leave", "done"}
RequestPC == {"none", "held", "sending", "sent", "done", "leaked"}

\* Every variable has its type; the counters that the code asserts never to
\* go below zero (connection.cpp:152 and 175) are natural numbers.
TypeOK ==
    /\ state \in State
    /\ ref_cnt \in Nat
    /\ incoming_calls_cnt \in Nat
    /\ reader \in ReaderPC
    /\ msg \in Msg
    /\ call \in [Call -> CallPC]
    /\ request \in [Request -> RequestPC]
    /\ handles \in 0..MaxHandles
    /\ readable \in BOOLEAN
    /\ writable \in BOOLEAN
    /\ disconnects \in Nat
    /\ cleanups \in Nat

-----------------------------------------------------------------------------
\* newConnection has put the object in the list of connections (one
\* reference) and returned it in a ConnectionRef (another); its reader is
\* about to start.
Init ==
    /\ state = "Active"
    /\ ref_cnt = 2
    /\ incoming_calls_cnt = 0
    /\ reader = "start"
    /\ msg = NoMsg
    /\ call = [k \in Call |-> "none"]
    /\ request = [o \in Request |-> "none"]
    /\ handles = 1
    /\ readable = TRUE
    /\ writable = TRUE
    /\ disconnects = 0
    /\ cleanups = 0

\* Nobody holds Connection::lock from one step to the next.
LockFree_Mutant == TRUE
LockFree == reader # "emit" /\ \A k \in Call : call[k] # "emit"

\* The transition sendMessage and recvMessage make, under the lock, when the
\* stream fails.
Close_Mutant == state' = "Closed"
Close ==
    /\ LockFree
    /\ state' = IF state = "Active" THEN "Closed" ELSE state

\* try_on_client_cleanup has two halves.  It takes the lock and looks whether
\* the services are to be notified; if so it notifies them and marks the
\* connection, the lock still held.
MayCleanup == state = "Closed" /\ incoming_calls_cnt = 0

EmitCleanup ==
    /\ cleanups' = cleanups + 1
    /\ state' = "ClosedCleanedup"

\* The second half of sendMessage, after it found the state not Closed: the
\* write succeeds, or fails and closes an active connection; ok tells which.
write(ok) ==
    \/ /\ writable /\ ok
       /\ UNCHANGED state
    \/ /\ ~writable /\ ~ok
       /\ Close

-----------------------------------------------------------------------------
(* The reader thread.                                                      *)

ReaderStart ==
    /\ reader = "start"
    /\ reader' = "check"
    /\ ref_cnt' = ref_cnt + 1
    /\ UNCHANGED <<state, incoming_calls_cnt, msg, call, request, handles,
                   readable, writable, disconnects, cleanups>>

\* recvMessage looks at the state before it blocks in read_all, never after.
ReaderCheck ==
    /\ reader = "check"
    /\ reader' = IF state = "Closed" THEN "notify" ELSE "read"
    /\ UNCHANGED <<state, ref_cnt, incoming_calls_cnt, msg, call, request,
                   handles, readable, writable, disconnects, cleanups>>

\* A whole message was read: a call, or the return of a call made here, which
\* may no longer be waited for.
RecvMessage ==
    /\ reader = "read"
    /\ readable
    /\ \/ \E k \in Call :
            /\ call[k] = "none"
            /\ msg' = [cmd |-> "CmdCall", id |-> k]
       \/ /\ \E o \in Request : request[o] \in {"sent", "done"}
          /\ msg' = [cmd |-> "CmdReturn"]
    /\ reader' = "post"
    /\ UNCHANGED <<state, ref_cnt, incoming_calls_cnt, call, request, handles,
                   readable, writable, disconnects, cleanups>>

RecvDisconnected_NoClose ==
    /\ reader = "read"
    /\ ~readable
    /\ reader' = "notify"
    /\ UNCHANGED <<state, ref_cnt, incoming_calls_cnt, msg, call, request,
                   handles, readable, writable, disconnects, cleanups>>

RecvDisconnected ==
    /\ reader = "read"
    /\ ~readable
    /\ Close
    /\ reader' = "notify"
    /\ UNCHANGED <<ref_cnt, incoming_calls_cnt, msg, call, request, handles,
                   readable, writable, disconnects, cleanups>>

\* The message is handed to the thread that is to handle it.  A call keeps
\* the connection referenced until that thread is done with it; it is not
\* counted in incoming_calls_cnt yet.
Post ==
    /\ reader = "post"
    /\ \/ /\ msg.cmd = "CmdCall"
          /\ call' = [call EXCEPT ![msg.id] = "posted"]
          /\ ref_cnt' = ref_cnt + 1
       \/ /\ msg.cmd = "CmdReturn"
          /\ UNCHANGED <<call, ref_cnt>>
    /\ msg' = NoMsg
    /\ reader' = "check"
    /\ UNCHANGED <<state, incoming_calls_cnt, request, handles, readable,
                   writable, disconnects, cleanups>>

\* on_server_disconnected and on_client_disconnect of the services.
NotifyDisconnect ==
    /\ reader = "notify"
    /\ reader' = "cleanup"
    /\ disconnects' = disconnects + 1
    /\ UNCHANGED <<state, ref_cnt, incoming_calls_cnt, msg, call, request,
                   handles, readable, writable, cleanups>>

ReaderCleanup ==
    /\ reader = "cleanup"
    /\ LockFree
    /\ reader' = IF MayCleanup THEN "emit" ELSE "unref"
    /\ UNCHANGED <<state, ref_cnt, incoming_calls_cnt, msg, call, request,
                   handles, readable, writable, disconnects, cleanups>>

ReaderEmit ==
    /\ reader = "emit"
    /\ reader' = "unref"
    /\ EmitCleanup
    /\ UNCHANGED <<ref_cnt, incoming_calls_cnt, msg, call, request, handles,
                   readable, writable, disconnects>>

ReaderExit ==
    /\ reader = "unref"
    /\ reader' = "done"
    /\ ref_cnt' = ref_cnt - 1
    /\ UNCHANGED <<state, incoming_calls_cnt, msg, call, request, handles,
                   readable, writable, disconnects, cleanups>>

-----------------------------------------------------------------------------
(* The thread that serves call k.                                          *)

HandleCall_Mutant(k) ==
    /\ call[k] = "posted"
    /\ call' = [call EXCEPT ![k] = "running"]
    /\ ref_cnt' = ref_cnt + 1
    /\ UNCHANGED <<state, incoming_calls_cnt, reader, msg, request, handles,
                   readable, writable, disconnects, cleanups>>

\* The thread wakes up: handleCall takes its own reference, then call_in.
HandleCall(k) ==
    /\ call[k] = "posted"
    /\ call' = [call EXCEPT ![k] = "running"]
    /\ ref_cnt' = ref_cnt + 1
    /\ incoming_calls_cnt' = incoming_calls_cnt + 1
    /\ UNCHANGED <<state, reader, msg, request, handles, readable, writable,
                   disconnects, cleanups>>

\* dispatch_call returned Success: sendMessage looks at the state before it
\* writes the Return message, never after.
Reply(k) ==
    /\ call[k] = "running"
    /\ call' = [call EXCEPT ![k] = IF state = "Closed" THEN "callout" ELSE "sending"]
    /\ UNCHANGED <<state, ref_cnt, incoming_calls_cnt, reader, msg, request,
                   handles, readable, writable, disconnects, cleanups>>

WriteReply(k) ==
    /\ call[k] = "sending"
    /\ call' = [call EXCEPT ![k] = "callout"]
    /\ \E ok \in BOOLEAN : write(ok)
    /\ UNCHANGED <<ref_cnt, incoming_calls_cnt, reader, msg, request, handles,
                   readable, writable, disconnects, cleanups>>

\* dispatch_call returned anything else: nothing is sent.
NoReply(k) ==
    /\ call[k] = "running"
    /\ call' = [call EXCEPT ![k] = "callout"]
    /\ UNCHANGED <<state, ref_cnt, incoming_calls_cnt, reader, msg, request,
                   handles, readable, writable, disconnects, cleanups>>

\* call_out: the thread that takes the counter to zero tries the cleanup.
AfterCallOut_Mutant == "leave"
AfterCallOut == IF incoming_calls_cnt = 1 THEN "cleanup" ELSE "leave"

CallOut(k) ==
    /\ call[k] = "callout"
    /\ call' = [call EXCEPT ![k] = AfterCallOut]
    /\ incoming_calls_cnt' = incoming_calls_cnt - 1
    /\ UNCHANGED <<state, ref_cnt, reader, msg, request, handles, readable,
                   writable, disconnects, cleanups>>

CallOutCleanup(k) ==
    /\ call[k] = "cleanup"
    /\ LockFree
    /\ call' = [call EXCEPT ![k] = IF MayCleanup THEN "emit" ELSE "leave"]
    /\ UNCHANGED <<state, ref_cnt, incoming_calls_cnt, reader, msg, request,
                   handles, readable, writable, disconnects, cleanups>>

CallOutEmit(k) ==
    /\ call[k] = "emit"
    /\ call' = [call EXCEPT ![k] = "leave"]
    /\ EmitCleanup
    /\ UNCHANGED <<ref_cnt, incoming_calls_cnt, reader, msg, request, handles,
                   readable, writable, disconnects>>

Leave_Mutant(k) ==
    /\ call[k] = "leave"
    /\ call' = [call EXCEPT ![k] = "done"]
    /\ ref_cnt' = ref_cnt - 1
    /\ UNCHANGED <<state, incoming_calls_cnt, reader, msg, request, handles,
                   readable, writable, disconnects, cleanups>>

\* handleCall drops its reference, its caller the one the reader took.
Leave(k) ==
    /\ call[k] = "leave"
    /\ call' = [call EXCEPT ![k] = "done"]
    /\ ref_cnt' = ref_cnt - 2
    /\ UNCHANGED <<state, incoming_calls_cnt, reader, msg, request, handles,
                   readable, writable, disconnects, cleanups>>

-----------------------------------------------------------------------------
(* client_call over this connection, and the handles of the application.   *)

SelectConnection(o) ==
    /\ request[o] = "none"
    /\ request' = [request EXCEPT ![o] = "held"]
    /\ ref_cnt' = ref_cnt + 1
    /\ UNCHANGED <<state, incoming_calls_cnt, reader, msg, call, handles,
                   readable, writable, disconnects, cleanups>>

\* When the call cannot be sent, client_call returns without unref.
SendCall(o) ==
    /\ request[o] = "held"
    /\ request' = [request EXCEPT ![o] = IF state = "Closed" THEN "leaked" ELSE "sending"]
    /\ UNCHANGED <<state, ref_cnt, incoming_calls_cnt, reader, msg, call,
                   handles, readable, writable, disconnects, cleanups>>

WriteCall(o) ==
    /\ request[o] = "sending"
    /\ \E ok \in BOOLEAN :
         /\ write(ok)
         /\ request' = [request EXCEPT ![o] = IF ok THEN "sent" ELSE "leaked"]
    /\ UNCHANGED <<ref_cnt, incoming_calls_cnt, reader, msg, call, handles,
                   readable, writable, disconnects, cleanups>>

\* The wait is over: a reply came, or a call served during it failed.
FinishCall(o) ==
    /\ request[o] = "sent"
    /\ request' = [request EXCEPT ![o] = "done"]
    /\ ref_cnt' = ref_cnt - 1
    /\ UNCHANGED <<state, incoming_calls_cnt, reader, msg, call, handles,
                   readable, writable, disconnects, cleanups>>

\* A ConnectionRef is constructed from a raw pointer or copied; destroyed.
NewHandle ==
    /\ handles < MaxHandles
    /\ handles' = handles + 1
    /\ ref_cnt' = ref_cnt + 1
    /\ UNCHANGED <<state, incoming_calls_cnt, reader, msg, call, request,
                   readable, writable, disconnects, cleanups>>

DropHandle ==
    /\ handles > 0
    /\ handles' = handles - 1
    /\ ref_cnt' = ref_cnt - 1
    /\ UNCHANGED <<state, incoming_calls_cnt, reader, msg, call, request,
                   readable, writable, disconnects, cleanups>>

\* The stream fails, in one direction at a time.
Break ==
    /\ \/ readable /\ readable' = FALSE /\ UNCHANGED writable
       \/ writable /\ writable' = FALSE /\ UNCHANGED readable
    /\ UNCHANGED <<state, ref_cnt, incoming_calls_cnt, reader, msg, call,
                   request, handles, disconnects, cleanups>>

-----------------------------------------------------------------------------
\* The reader runs, except that nothing obliges a message to arrive.
ReaderRuns ==
    \/ ReaderStart
    \/ ReaderCheck
    \/ RecvDisconnected
    \/ Post
    \/ NotifyDisconnect
    \/ ReaderCleanup
    \/ ReaderEmit
    \/ ReaderExit

ServerRuns(k) ==
    \/ HandleCall(k)
    \/ Reply(k)
    \/ WriteReply(k)
    \/ NoReply(k)
    \/ CallOut(k)
    \/ CallOutCleanup(k)
    \/ CallOutEmit(k)
    \/ Leave(k)

Next ==
    \/ ReaderRuns
    \/ RecvMessage
    \/ \E k \in Call : ServerRuns(k)
    \/ \E o \in Request :
         \/ SelectConnection(o)
         \/ SendCall(o)
         \/ WriteCall(o)
         \/ FinishCall(o)
    \/ NewHandle
    \/ DropHandle
    \/ Break

SafeSpec == Init /\ [][Next]_vars

\* The reader and the threads that serve calls are scheduled for as long as
\* they can run, and handlers end; peers and the application owe nothing.
Fairness ==
    /\ WF_vars(ReaderRuns)
    /\ \A k \in Call : WF_vars(ServerRuns(k))

Spec == SafeSpec /\ Fairness

-----------------------------------------------------------------------------
(* Properties.                                                             *)

Inside == {k \in Call : call[k] \in {"running", "sending", "callout"}}
Arrived == {k \in Call : call[k] \notin {"none", "done"}}
Handled == {k \in Call : call[k] \notin {"none", "posted", "done"}}
Holding == {o \in Request : request[o] \notin {"none", "done"}}
ReaderHolds == IF reader \in {"start", "done"} THEN 0 ELSE 1

\* incoming_calls_cnt is what ruros-priv.h:215 says: the number of calls that
\* are being handled, from call_in to call_out.  With it the assertion
\* cnt>=0 of call_out never fails.
CallsCounted == incoming_calls_cnt = Cardinality(Inside)

\* ref_cnt is the list's reference, one per ConnectionRef, the reader's, one
\* for every call handed to a thread and one more while handleCall works on
\* it, one per call being made - and, for ever, one per call that could not
\* be sent.  With it the assertion cnt>=0 of unref never fails.
RefsCounted ==
    ref_cnt = 1 + handles + ReaderHolds + Cardinality(Arrived)
                + Cardinality(Handled) + Cardinality(Holding)

\* However the reader, the serving threads and the failing writers interleave,
\* the services are told at most once, and exactly when the state says so.
CleanupOnce == cleanups = IF state = "ClosedCleanedup" THEN 1 ELSE 0

\* The cleanup is never lost between the two sides that may owe it: once the
\* reader has given up on a connection that is not cleaned up, a thread that
\* is still serving a call will come to try.
NoMissedCleanup ==
    reader \in {"unref", "done"} /\ state = "Closed"
        => \E k \in Call : call[k] \in {"running", "sending", "callout", "cleanup", "emit"}

\* The reader gives up only on a connection that is no longer active: a call
\* made after that is refused, or fails as it is written.
ReaderGoneMeansClosed ==
    reader \in {"notify", "cleanup", "emit", "unref", "done"} => state # "Active"

\* on_client_cleanup runs under Connection::lock: while one thread notifies
\* the services nobody else does, and the connection stays Closed.
EmitExclusive ==
    /\ reader = "emit" => state = "Closed" /\ \A k \in Call : call[k] # "emit"
    /\ \A k \in Call : call[k] = "emit" =>
          state = "Closed" /\ \A j \in Call \ {k} : call[j] # "emit"

\* Once the stream can no longer be read and the handlers end, the services
\* are notified of the cleanup.
CleanupEventually == ~readable ~> state = "ClosedCleanedup"

\* What tests/test11/server.cpp:42 demands: client_disconnected must be before
\* all_calls_finished.
DisconnectBeforeCleanup == cleanups > 0 => disconnects > 0

\* What ruros.h:85 says of on_client_cleanup: it notifies when all calls
\* originating from the disconnected client were exited.
CleanupAfterCalls ==
    cleanups > 0 => \A k \in Call : call[k] \notin {"posted", "running"}

=============================================================================
