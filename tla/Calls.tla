-------------------------------- MODULE Calls --------------------------------
(***************************************************************************)
(* Processes that call each other over ruros connections.                  *)
(*                                                                         *)
(* A thread that calls (client_call.cpp) registers itself in its process's *)
(* list waiting_threads under a thread id, sends the call and waits.  The  *)
(* reader thread of the connection at the other end (connection.cpp) hands *)
(* the call to the thread of that process that waits under the same id, or *)
(* to a free worker, which is then registered under it (ruros.cpp).  That  *)
(* thread runs the handler and sends the return (threads.cpp).  A handler  *)
(* may call in turn, under the id of the call it serves: so a callback     *)
(* finds the very thread that waits for the outer call, and runs on it.    *)
(*                                                                         *)
(* Each short section under a lock, each atomic add, each access to what   *)
(* another thread can see is one step.  Each process has one lock, which   *)
(* it never holds from one step to the next.                               *)
(***************************************************************************)
EXTENDS Naturals, Sequences, FiniteSets, SequencesExt, FiniteSetsExt

CONSTANTS
    Proc,        \* processes
    Conn,        \* Connection objects: one for each end of each connection
    Owner,       \* the process each of them is in
    Peer,        \* the other end
    Order,       \* the list connections of each process
    Service,     \* services, as the stubs of the callers know them
    Provides,    \* client_services of each end: what the other end accepted to provide
    Client,      \* threads of the applications that make calls
    Home,        \* the process each of them is in
    Tid,         \* gettid() of each, as the 16 bits sent in messages
    MaxWorkers,  \* bound on the workers a process may create
    Budget,      \* bound on the calls each client makes, its handlers' included
    Results,     \* how handlers may end: Success, another Result, an exception
    Fragile,     \* ends whose stream may fail
    None         \* NULL

Worker == Proc \X (1..MaxWorkers)
Thread == Client \cup Worker
CallId == UNION {{c} \X (1..Budget[c]) : c \in Client}

ASSUME TopologyAssumption ==
    /\ Owner \in [Conn -> Proc]
    /\ Peer \in [Conn -> Conn]
    /\ \A c \in Conn : Peer[c] # c /\ Peer[Peer[c]] = c
    /\ Order \in [Proc -> Seq(Conn)]
    /\ \A p \in Proc : \A i \in DOMAIN Order[p] : Owner[Order[p][i]] = p
    /\ Provides \in [Conn -> SUBSET Service]
    /\ Fragile \subseteq Conn
ASSUME ThreadAssumption ==
    /\ Home \in [Client -> Proc]
    /\ DOMAIN Tid = Client
    /\ Client \cap Worker = {}
    /\ MaxWorkers \in Nat \ {0}
    /\ Budget \in [Client -> Nat]
ASSUME NoneAssumption == None \notin Thread \cup Conn \cup CallId \cup Service
ASSUME ResultsAssumption == Results \subseteq {"Success", "InternalError", "Thrown"}

VARIABLES
    waiting_threads,  \* per process: the threads messages are for
    free_workers,     \* per process: workers that serve nobody
    nworkers,         \* per process: workers created so far
    thread,           \* the fields of each Thread, and the calls it is in
    conn,             \* the fields of each Connection, and where its reader is
    wire,             \* what is under way to each end, and whether streams work
    rpc,              \* each call: where its two ends stand, and their locals
    aborted           \* processes that failed an assertion

vars == <<waiting_threads, free_workers, nworkers, thread, conn, wire, rpc, aborted>>

-----------------------------------------------------------------------------
(* Types.                                                                  *)

TidValue == {Tid[c] : c \in Client}
Msg == [cmd : {"CmdCall", "CmdReturn", "CmdException"}, tid : TidValue, id : CallId]
NoMsg == [cmd |-> "none"]

\* What a thread has on its stack: client_call or handleCall, for a call.
Frame == {"client_call", "handleCall"} \X CallId

ThreadRec == [recursion_count : Nat, original_tid : TidValue \cup {None},
              used_connection : Conn \cup {None}, wakeup : Nat,
              wakeup_data : Msg \cup {NoMsg}, wakeup_conn : Conn \cup {None},
              stack : Seq(Frame)]

ReaderPC == {"check", "read", "acquire", "worker", "add", "count",
             "find", "data", "post", "notify", "cleanup", "emit", "unref", "done"}
ConnRec == [state : {"Active", "Closed", "ClosedCleanedup"}, ref_cnt : Nat,
            incoming_calls_cnt : Nat, reader : ReaderPC, msg : Msg \cup {NoMsg},
            thr : Thread \cup {None}, disconnects : Nat, cleanups : Nat]

WireRec == [queue : Seq(Msg), readable : BOOLEAN, writable : BOOLEAN]

ClientPC == {"none", "acquire", "add", "count", "send", "sending", "wait",
             "unsent", "return", "done", "leaked"}
ServerPC == {"none", "posted", "running", "release", "reply", "sending",
             "thrown", "callout", "cleanup", "emit", "leave", "done"}
Result == {"Success", "Thrown", "Disconnected", "InternalError"}
\* NULL is no Result.
ASSUME ResultAssumption == None \notin Result
RpcRec == [client : ClientPC, server : ServerPC, conn : Conn \cup {None},
           used : Conn \cup {None}, tid : TidValue \cup {None},
           rtid : TidValue \cup {None}, res : Result \cup {None},
           served : Result \cup {None}, reply : CallId \cup {None},
           via : Conn \cup {None}]

\* Every variable has its type; counters asserted not to go below zero don't.
TypeOK ==
    /\ waiting_threads \in [Proc -> Seq(Thread)]
    /\ free_workers \in [Proc -> Seq(Worker)]
    /\ nworkers \in [Proc -> 0..MaxWorkers]
    /\ thread \in [Thread -> ThreadRec]
    /\ conn \in [Conn -> ConnRec]
    /\ wire \in [Conn -> WireRec]
    /\ rpc \in [CallId -> RpcRec]
    /\ aborted \subseteq Proc

-----------------------------------------------------------------------------
(* The registry of a process (ruros.cpp).                                  *)

Process(t) == IF t \in Client THEN Home[t] ELSE t[1]

\* The threads there are.
Created == Client \cup {t \in Worker : t[2] <= nworkers[t[1]]}

\* Places of waiting_threads[p] that a message for thread id tid may go to;
\* every function that looks a thread up takes the first.
Places_AnyTid(p, tid) == DOMAIN waiting_threads[p]
Places(p, tid) ==
    {i \in DOMAIN waiting_threads[p] :
        thread[waiting_threads[p][i]].original_tid = tid}

findWaitingThread(p, tid) ==
    IF Places(p, tid) = {} THEN None ELSE waiting_threads[p][Min(Places(p, tid))]

\* The threads after t's recursion_count went up, or down.
CountUp_Lost(t) == thread
CountUp(t) == [thread EXCEPT ![t].recursion_count = @ + 1]
CountDown(t) == [thread EXCEPT ![t].recursion_count = @ - 1]

\* releaseWaitingThread: the thread found counts one registration less, and
\* with the last one leaves the list; a worker is free then.  Gives the threads
\* as they are afterwards.
releaseWaitingThread(p, tid) ==
    LET t == findWaitingThread(p, tid) IN
    IF t = None THEN thread ELSE CountDown(t)

Unregister_AtOnce(p, tid) ==
    LET t == findWaitingThread(p, tid) IN
    IF t # None
    THEN /\ waiting_threads' = [waiting_threads EXCEPT
                                  ![p] = RemoveAt(@, Min(Places(p, tid)))]
         /\ free_workers' = IF t \in Worker
                            THEN [free_workers EXCEPT ![p] = Append(@, t)]
                            ELSE free_workers
    ELSE UNCHANGED <<waiting_threads, free_workers>>

Unregister_NotFreed(p, tid) ==
    LET t == findWaitingThread(p, tid) IN
    /\ waiting_threads' = IF t # None /\ thread[t].recursion_count = 1
                          THEN [waiting_threads EXCEPT ![p] = RemoveAt(@, Min(Places(p, tid)))]
                          ELSE waiting_threads
    /\ UNCHANGED free_workers

Unregister(p, tid) ==
    LET t == findWaitingThread(p, tid) IN
    IF t # None /\ thread[t].recursion_count = 1
    THEN /\ waiting_threads' = [waiting_threads EXCEPT
                                  ![p] = RemoveAt(@, Min(Places(p, tid)))]
         /\ free_workers' = IF t \in Worker
                            THEN [free_workers EXCEPT ![p] = Append(@, t)]
                            ELSE free_workers
    ELSE UNCHANGED <<waiting_threads, free_workers>>

-----------------------------------------------------------------------------
\* Processes whose services others have requested.
Servers == {p \in Proc : \E e \in Conn :
              Owner[e] = p /\ Owner[Peer[e]] # p /\ Provides[Peer[e]] # {}}

\* The connections are made and the services requested: every reader waits for
\* the next message, and where a request was answered (validateService) there
\* is the worker that did it.
Init ==
    /\ waiting_threads = [p \in Proc |-> <<>>]
    /\ free_workers = [p \in Proc |-> IF p \in Servers THEN << <<p, 1>> >> ELSE <<>>]
    /\ nworkers = [p \in Proc |-> IF p \in Servers THEN 1 ELSE 0]
    /\ thread = [t \in Thread |->
         [recursion_count |-> 0,
          original_tid |-> IF t \in Client THEN Tid[t] ELSE None,
          used_connection |-> None, wakeup |-> 0, wakeup_data |-> NoMsg,
          wakeup_conn |-> None, stack |-> <<>>]]
    /\ conn = [e \in Conn |->
         [state |-> "Active", ref_cnt |-> 3, incoming_calls_cnt |-> 0,
          reader |-> "read", msg |-> NoMsg, thr |-> None,
          disconnects |-> 0, cleanups |-> 0]]
    /\ wire = [e \in Conn |-> [queue |-> <<>>, readable |-> TRUE, writable |-> TRUE]]
    /\ rpc = [id \in CallId |->
         [client |-> "none", server |-> "none", conn |-> None, used |-> None,
          tid |-> None, rtid |-> None, res |-> None, served |-> None, reply |-> None,
          via |-> None]]
    /\ aborted = {}

\* The end of the connection at which call id arrives.
ServedAt(id) == Peer[rpc[id].conn]

\* Thread t is in client_call or in handleCall for call id, at pc.
Calling(t, id, pc) ==
    /\ rpc[id].client = pc
    /\ thread[t].stack # <<>>
    /\ Last(thread[t].stack) = <<"client_call", id>>
    /\ Process(t) \notin aborted
Serving(t, id, pc) ==
    /\ rpc[id].server = pc
    /\ thread[t].stack # <<>>
    /\ Last(thread[t].stack) = <<"handleCall", id>>
    /\ Process(t) \notin aborted

Goto(id, end, pc) == rpc' = [rpc EXCEPT ![id][end] = pc]

\* Connection::lock of e is not held from one step to the next, unless its
\* services are being notified of the cleanup.
LockFree(e) ==
    /\ conn[e].reader # "emit"
    /\ \A id \in CallId : rpc[id].server = "emit" => rpc[id].via # e

Close(e) ==
    /\ LockFree(e)
    /\ conn' = [conn EXCEPT ![e].state = IF @ = "Active" THEN "Closed" ELSE @]

-----------------------------------------------------------------------------
(* client_call.                                                            *)

checkConnection(s, e) == s \in Provides[e]

\* The first connection of the list that has the service; None if none has.
acquireConnection(p, s) ==
    LET has == {i \in DOMAIN Order[p] : checkConnection(s, Order[p][i])}
    IN  IF has = {} THEN None ELSE Order[p][Min(has)]

Resolve_First(t, s) == acquireConnection(Process(t), s)

\* The connection a call to service s goes over: the one the call being served
\* came over if the service is there, else any.  (No code selects another one
\* with setSelectedConnection.)
Resolve(t, s) ==
    LET used == thread[t].used_connection
    IN  IF used # None /\ checkConnection(s, used) THEN used
        ELSE acquireConnection(Process(t), s)

\* The client whose call, or whose call's handler, t runs; None if t cannot
\* call: it is no client's thread and serves nothing, or it waits.
CallsFor(t) ==
    IF thread[t].stack = <<>> THEN IF t \in Client THEN t ELSE None
    ELSE LET top == Last(thread[t].stack) IN
         IF top[1] = "handleCall" /\ rpc[top[2]].server = "running"
         THEN top[2][1] ELSE None

\* A stub calls.  The connection is chosen and referenced, and what is needed
\* to undo the call noted.  (A service nobody provides is CannotResolve, and
\* nothing happens.)
ClientCall(t, s) ==
    LET c == CallsFor(t)
        e == Resolve(t, s)
        fresh == {n \in 1..Budget[c] : rpc[<<c, n>>].client = "none"}
    IN  /\ Process(t) \notin aborted
        /\ c # None
        /\ e # None
        /\ fresh # {}
        /\ LET id == <<c, Min(fresh)>> IN
           /\ rpc' = [rpc EXCEPT ![id] = [@ EXCEPT
                        !.client = "acquire", !.conn = e,
                        !.used = thread[t].used_connection,
                        !.tid = thread[t].original_tid]]
           /\ thread' = [thread EXCEPT ![t].stack = Append(@, <<"client_call", id>>)]
        /\ conn' = [conn EXCEPT ![e].ref_cnt = @ + 1]
        /\ UNCHANGED <<waiting_threads, free_workers, nworkers, wire, aborted>>

Acquire_AlwaysAdds(t, id) ==
    /\ Calling(t, id, "acquire")
    /\ Goto(id, "client", "add")
    /\ UNCHANGED <<waiting_threads, free_workers, nworkers, thread, conn, wire, aborted>>

\* acquireWaitingThread: whoever waits under the thread id is registered once
\* more; it should be this thread, in an outer call.
Acquire(t, id) ==
    /\ Calling(t, id, "acquire")
    /\ LET w == findWaitingThread(Process(t), rpc[id].tid) IN
       IF w = None
       THEN Goto(id, "client", "add") /\ UNCHANGED thread
       ELSE Goto(id, "client", "send") /\ thread' = CountUp(w)
    /\ UNCHANGED <<waiting_threads, free_workers, nworkers, conn, wire, aborted>>

\* addWaitingThread, then, the lock released, recursion_count=1.
Register(t, id) ==
    /\ Calling(t, id, "add")
    /\ waiting_threads' = [waiting_threads EXCEPT ![Process(t)] = Append(@, t)]
    /\ Goto(id, "client", "count")
    /\ UNCHANGED <<free_workers, nworkers, thread, conn, wire, aborted>>

CountFirst_Lost(t, id) ==
    /\ Calling(t, id, "count")
    /\ Goto(id, "client", "send")
    /\ UNCHANGED <<waiting_threads, free_workers, nworkers, thread, conn, wire, aborted>>

CountFirst(t, id) ==
    /\ Calling(t, id, "count")
    /\ thread' = [thread EXCEPT ![t].recursion_count = 1]
    /\ Goto(id, "client", "send")
    /\ UNCHANGED <<waiting_threads, free_workers, nworkers, conn, wire, aborted>>

\* sendMessage: refused on a Closed connection, else written.
Send(t, id) ==
    /\ Calling(t, id, "send")
    /\ Goto(id, "client", IF conn[rpc[id].conn].state = "Closed" THEN "unsent" ELSE "sending")
    /\ UNCHANGED <<waiting_threads, free_workers, nworkers, thread, conn, wire, aborted>>

\* A written call is waited for, and its connection is the used one meanwhile.
Write(t, id) ==
    LET e == rpc[id].conn IN
    /\ Calling(t, id, "sending")
    /\ IF wire[e].writable
       THEN /\ wire' = [wire EXCEPT ![Peer[e]].queue =
                 Append(@, [cmd |-> "CmdCall", tid |-> rpc[id].tid, id |-> id])]
            /\ thread' = [thread EXCEPT ![t].used_connection = e]
            /\ Goto(id, "client", "wait")
            /\ UNCHANGED conn
       ELSE /\ Close(e)
            /\ Goto(id, "client", "unsent")
            /\ UNCHANGED <<wire, thread>>
    /\ UNCHANGED <<waiting_threads, free_workers, nworkers, aborted>>

Unsent_Success(t, id) ==
    /\ Calling(t, id, "unsent")
    /\ Unregister(Process(t), rpc[id].tid)
    /\ LET released == releaseWaitingThread(Process(t), rpc[id].tid) IN
       thread' = [released EXCEPT ![t].stack = Front(@)]
    /\ rpc' = [rpc EXCEPT ![id].client = "leaked", ![id].res = "Success"]
    /\ UNCHANGED <<nworkers, conn, wire, aborted>>

\* The call was not sent: it is unregistered; the connection stays referenced.
Unsent(t, id) ==
    /\ Calling(t, id, "unsent")
    /\ Unregister(Process(t), rpc[id].tid)
    /\ LET released == releaseWaitingThread(Process(t), rpc[id].tid) IN
       thread' = [released EXCEPT ![t].stack = Front(@)]
    /\ rpc' = [rpc EXCEPT ![id].client = "leaked", ![id].res = "Disconnected"]
    /\ UNCHANGED <<nworkers, conn, wire, aborted>>

Return_KeepsUsed(t, id) ==
    /\ Calling(t, id, "return")
    /\ Unregister(Process(t), rpc[id].tid)
    /\ LET released == releaseWaitingThread(Process(t), rpc[id].tid) IN
       thread' = [released EXCEPT ![t].stack = Front(@)]
    /\ Goto(id, "client", "done")
    /\ conn' = [conn EXCEPT ![rpc[id].conn].ref_cnt = @ - 1]
    /\ UNCHANGED <<nworkers, wire, aborted>>

Return_NoUnref(t, id) ==
    /\ Calling(t, id, "return")
    /\ Unregister(Process(t), rpc[id].tid)
    /\ LET released == releaseWaitingThread(Process(t), rpc[id].tid) IN
       thread' = [released EXCEPT ![t].stack = Front(@),
                                  ![t].used_connection = rpc[id].used]
    /\ Goto(id, "client", "done")
    /\ UNCHANGED <<nworkers, conn, wire, aborted>>

\* The wait is over, with a result: the call is unregistered, the connection
\* used before is used again.
Return(t, id) ==
    /\ Calling(t, id, "return")
    /\ Unregister(Process(t), rpc[id].tid)
    /\ LET released == releaseWaitingThread(Process(t), rpc[id].tid) IN
       thread' = [released EXCEPT ![t].stack = Front(@),
                                  ![t].used_connection = rpc[id].used]
    /\ Goto(id, "client", "done")
    /\ conn' = [conn EXCEPT ![rpc[id].conn].ref_cnt = @ - 1]
    /\ UNCHANGED <<nworkers, wire, aborted>>

-----------------------------------------------------------------------------
(* A thread wakes up: clientCallwaitReturn in the midst of a call, or the  *)
(* loop of a worker (worker_loop).                                         *)

\* A thread that may be woken: a worker that serves nothing, or whoever waits
\* for a call to return, or waits in the same way after its handler has thrown.
Idle(t) == t \in Worker /\ thread[t].stack = <<>>
Waits(t) ==
    /\ thread[t].stack # <<>>
    /\ LET id == Last(thread[t].stack)[2] IN Calling(t, id, "wait") \/ Serving(t, id, "thrown")

\* sem_wait is over and the data is copied.  A call begins handleCall, in the
\* name of the connection found with it, which is its conn to the end; a worker
\* that gets anything else fails handleCall's assertion that it is a call.
HandleCall(t) ==
    LET m == thread[t].wakeup_data
        e == thread[t].wakeup_conn
    IN  /\ Process(t) \notin aborted
        /\ thread[t].wakeup > 0
        /\ Idle(t) \/ (Waits(t) /\ m.cmd = "CmdCall")
        /\ IF m.cmd = "CmdCall"
           THEN /\ thread' = [thread EXCEPT ![t].wakeup = @ - 1, ![t].used_connection = e,
                                            ![t].stack = Append(@, <<"handleCall", m.id>>)]
                /\ conn' = [conn EXCEPT ![e].ref_cnt = @ + 1, ![e].incoming_calls_cnt = @ + 1]
                /\ rpc' = [rpc EXCEPT ![m.id].server = "running", ![m.id].via = e]
                /\ UNCHANGED aborted
           ELSE /\ aborted' = aborted \cup {Process(t)}
                /\ UNCHANGED <<thread, conn, rpc>>
        /\ UNCHANGED <<waiting_threads, free_workers, nworkers, wire>>

\* A return, to a thread that waits for one: taken for the return of the
\* innermost call, whatever it is the return of.
TakeReturn(t, id) ==
    /\ Calling(t, id, "wait")
    /\ thread[t].wakeup > 0
    /\ thread[t].wakeup_data.cmd = "CmdReturn"
    /\ thread' = [thread EXCEPT ![t].wakeup = @ - 1]
    /\ rpc' = [rpc EXCEPT ![id].client = "return", ![id].res = "Success",
                          ![id].reply = thread[t].wakeup_data.id]
    /\ UNCHANGED <<waiting_threads, free_workers, nworkers, conn, wire, aborted>>

\* A return, to a thread that waits only because its handler has thrown: that
\* wait is over, and nobody looks at what it brought.
TakeReturnThrown(t, id) ==
    /\ Serving(t, id, "thrown")
    /\ thread[t].wakeup > 0
    /\ thread[t].wakeup_data.cmd = "CmdReturn"
    /\ thread' = [thread EXCEPT ![t].wakeup = @ - 1]
    /\ Goto(id, "server", "callout")
    /\ UNCHANGED <<waiting_threads, free_workers, nworkers, conn, wire, aborted>>

-----------------------------------------------------------------------------
(* handleCall.                                                             *)

\* dispatch_call comes back, or throws.  Success is answered, and an exception
\* too; another result is not.
EndHandler(t, id) ==
    /\ Serving(t, id, "running")
    /\ \E r \in Results :
         rpc' = [rpc EXCEPT ![id].served = r,
                            ![id].server = IF r \in {"Success", "Thrown"}
                                           THEN "release" ELSE "callout"]
    /\ UNCHANGED <<waiting_threads, free_workers, nworkers, thread, conn, wire, aborted>>

\* The thread is unregistered before the return is sent, so that its next
\* call cannot find it still busy; a worker may be given work from here on.
Release(t, id) ==
    LET tid == thread[t].original_tid IN
    /\ Serving(t, id, "release")
    /\ Unregister(Process(t), tid)
    /\ thread' = releaseWaitingThread(Process(t), tid)
    /\ rpc' = [rpc EXCEPT ![id].server = "reply", ![id].rtid = tid]
    /\ UNCHANGED <<nworkers, conn, wire, aborted>>

\* The calls once the answer of id could not be sent, or was.  After an
\* exception nobody asks: the thread waits as client_call does, to serve the
\* calls that come, not yet through with this one.
Unanswered(id) ==
    IF rpc[id].served = "Thrown"
    THEN [rpc EXCEPT ![id].server = "thrown"]
    ELSE [rpc EXCEPT ![id].server = "callout", ![id].served = "Disconnected"]
Answered(id) ==
    [rpc EXCEPT ![id].server = IF rpc[id].served = "Thrown" THEN "thrown" ELSE "callout"]

\* sendMessage of the return, or of the exception.
Reply(t, id) ==
    /\ Serving(t, id, "reply")
    /\ rpc' = IF conn[rpc[id].via].state = "Closed"
              THEN Unanswered(id)
              ELSE [rpc EXCEPT ![id].server = "sending"]
    /\ UNCHANGED <<waiting_threads, free_workers, nworkers, thread, conn, wire, aborted>>

Answer(id) == IF rpc[id].served = "Thrown" THEN "CmdException" ELSE "CmdReturn"
WriteReply(t, id) ==
    LET e == rpc[id].via IN
    /\ Serving(t, id, "sending")
    /\ IF wire[e].writable
       THEN /\ wire' = [wire EXCEPT ![Peer[e]].queue =
                 Append(@, [cmd |-> Answer(id), tid |-> rpc[id].rtid, id |-> id])]
            /\ rpc' = Answered(id)
            /\ UNCHANGED conn
       ELSE /\ Close(e)
            /\ rpc' = Unanswered(id)
            /\ UNCHANGED wire
    /\ UNCHANGED <<waiting_threads, free_workers, nworkers, thread, aborted>>

CallOut_NoCleanup(t, id) ==
    /\ Serving(t, id, "callout")
    /\ conn' = [conn EXCEPT ![rpc[id].via].incoming_calls_cnt = @ - 1]
    /\ Goto(id, "server", "leave")
    /\ UNCHANGED <<waiting_threads, free_workers, nworkers, thread, wire, aborted>>

CallOut(t, id) ==
    LET e == rpc[id].via IN
    /\ Serving(t, id, "callout")
    /\ conn' = [conn EXCEPT ![e].incoming_calls_cnt = @ - 1]
    /\ Goto(id, "server", IF conn[e].incoming_calls_cnt = 1 THEN "cleanup" ELSE "leave")
    /\ UNCHANGED <<waiting_threads, free_workers, nworkers, thread, wire, aborted>>

\* try_on_client_cleanup, see module Connection.
MayCleanup(e) == conn[e].state = "Closed" /\ conn[e].incoming_calls_cnt = 0
EmitCleanup(e) ==
    conn' = [conn EXCEPT ![e].cleanups = @ + 1, ![e].state = "ClosedCleanedup"]

CallOutCleanup(t, id) ==
    LET e == rpc[id].via IN
    /\ Serving(t, id, "cleanup")
    /\ LockFree(e)
    /\ Goto(id, "server", IF MayCleanup(e) THEN "emit" ELSE "leave")
    /\ UNCHANGED <<waiting_threads, free_workers, nworkers, thread, conn, wire, aborted>>

CallOutEmit(t, id) ==
    /\ Serving(t, id, "emit")
    /\ EmitCleanup(rpc[id].via)
    /\ Goto(id, "server", "leave")
    /\ UNCHANGED <<waiting_threads, free_workers, nworkers, thread, wire, aborted>>

Leave_EndsCall(t, id) ==
    LET below == Front(thread[t].stack) IN
    /\ Serving(t, id, "leave")
    /\ thread' = [thread EXCEPT ![t].stack = below]
    /\ conn' = [conn EXCEPT ![rpc[id].via].ref_cnt = @ - 2]
    /\ rpc' = IF below = <<>>
              THEN [rpc EXCEPT ![id].server = "done"]
              ELSE [rpc EXCEPT ![id].server = "done",
                               ![Last(below)[2]].client = "return",
                               ![Last(below)[2]].res = rpc[id].served]
    /\ UNCHANGED <<waiting_threads, free_workers, nworkers, wire, aborted>>

\* handleCall returns.  A worker waits for the next call; in the midst of a
\* call, or after an exception, a success goes on waiting.  A failure ends the
\* wait: it becomes the result of that call, or lets the exception go on.
Leave(t, id) ==
    LET below == Front(thread[t].stack)
        over == [rpc EXCEPT ![id].server = "done"]
    IN  /\ Serving(t, id, "leave")
        /\ rpc[id].served # "Thrown"
        /\ thread' = [thread EXCEPT ![t].stack = below]
        /\ conn' = [conn EXCEPT ![rpc[id].via].ref_cnt = @ - 2]
        /\ rpc' = IF below = <<>> \/ rpc[id].served = "Success" THEN over
                  ELSE IF Last(below)[1] = "client_call"
                  THEN [over EXCEPT ![Last(below)[2]].client = "return",
                                    ![Last(below)[2]].res = rpc[id].served]
                  ELSE [over EXCEPT ![Last(below)[2]].server = "callout"]
        /\ UNCHANGED <<waiting_threads, free_workers, nworkers, wire, aborted>>

\* The exception goes on, out of the worker, and nobody catches it: the process
\* ends.  (AbortsExplained says that no call is in its way, to catch it.)
Terminate(t, id) ==
    /\ Serving(t, id, "leave")
    /\ rpc[id].served = "Thrown"
    /\ aborted' = aborted \cup {Process(t)}
    /\ UNCHANGED <<waiting_threads, free_workers, nworkers, thread, conn, wire, rpc>>

-----------------------------------------------------------------------------
(* The reader of connection end e (input_processor).                       *)

Reading(e, pc) == conn[e].reader = pc /\ Owner[e] \notin aborted
Only == <<waiting_threads, free_workers, nworkers, thread, wire, rpc, aborted>>

\* recvMessage looks at the state, then blocks in read_all.
ReaderCheck(e) ==
    /\ Reading(e, "check")
    /\ conn' = [conn EXCEPT ![e].reader =
                  IF conn[e].state = "Closed" THEN "notify" ELSE "read"]
    /\ UNCHANGED Only

RecvMessage(e) ==
    /\ Reading(e, "read")
    /\ wire[e].readable
    /\ wire[e].queue # <<>>
    /\ LET m == Head(wire[e].queue) IN
       conn' = [conn EXCEPT ![e].msg = m,
                  ![e].reader = IF m.cmd = "CmdCall" THEN "acquire" ELSE "find"]
    /\ wire' = [wire EXCEPT ![e].queue = Tail(@)]
    /\ UNCHANGED <<waiting_threads, free_workers, nworkers, thread, rpc, aborted>>

RecvDisconnected(e) ==
    /\ Reading(e, "read")
    /\ ~wire[e].readable
    /\ LockFree(e)
    /\ conn' = [conn EXCEPT ![e].reader = "notify",
                  ![e].state = IF @ = "Active" THEN "Closed" ELSE @]
    /\ UNCHANGED Only

AcquireWaiting_Never(e) ==
    /\ Reading(e, "acquire")
    /\ conn' = [conn EXCEPT ![e].reader = "worker"]
    /\ UNCHANGED Only

\* A call: it is for the thread that waits under its thread id ...
AcquireWaiting(e) ==
    /\ Reading(e, "acquire")
    /\ LET w == findWaitingThread(Owner[e], conn[e].msg.tid) IN
       IF w = None
       THEN /\ conn' = [conn EXCEPT ![e].reader = "worker"]
            /\ UNCHANGED thread
       ELSE /\ conn' = [conn EXCEPT ![e].reader = "data", ![e].thr = w]
            /\ thread' = CountUp(w)
    /\ UNCHANGED <<waiting_threads, free_workers, nworkers, wire, rpc, aborted>>

GetFreeWorker_StaysFree(e) ==
    /\ Reading(e, "worker")
    /\ free_workers[Owner[e]] # <<>>
    /\ conn' = [conn EXCEPT ![e].reader = "add", ![e].thr = Last(free_workers[Owner[e]])]
    /\ UNCHANGED <<waiting_threads, free_workers, nworkers, thread, wire, rpc, aborted>>

\* ... or else for the worker freed last, or for a new one.
GetFreeWorker(e) ==
    LET p == Owner[e] IN
    /\ Reading(e, "worker")
    /\ IF free_workers[p] # <<>>
       THEN /\ conn' = [conn EXCEPT ![e].reader = "add", ![e].thr = Last(free_workers[p])]
            /\ free_workers' = [free_workers EXCEPT ![p] = Front(@)]
            /\ UNCHANGED nworkers
       ELSE /\ nworkers[p] < MaxWorkers
            /\ nworkers' = [nworkers EXCEPT ![p] = @ + 1]
            /\ conn' = [conn EXCEPT ![e].reader = "add", ![e].thr = <<p, nworkers[p] + 1>>]
            /\ UNCHANGED free_workers
    /\ UNCHANGED <<waiting_threads, thread, wire, rpc, aborted>>

\* setOriginalTid and addWaitingThread, then recursion_count=1.
RegisterWorker(e) ==
    /\ Reading(e, "add")
    /\ thread' = [thread EXCEPT ![conn[e].thr].original_tid = conn[e].msg.tid]
    /\ waiting_threads' = [waiting_threads EXCEPT ![Owner[e]] = Append(@, conn[e].thr)]
    /\ conn' = [conn EXCEPT ![e].reader = "count"]
    /\ UNCHANGED <<free_workers, nworkers, wire, rpc, aborted>>

CountWorker(e) ==
    /\ Reading(e, "count")
    /\ thread' = [thread EXCEPT ![conn[e].thr].recursion_count = 1]
    /\ conn' = [conn EXCEPT ![e].reader = "data"]
    /\ UNCHANGED <<waiting_threads, free_workers, nworkers, wire, rpc, aborted>>

\* A return: some thread must be waiting for it.
FindWaiting(e) ==
    LET w == findWaitingThread(Owner[e], conn[e].msg.tid) IN
    /\ Reading(e, "find")
    /\ conn[e].msg.cmd = "CmdReturn"
    /\ IF w = None
       THEN aborted' = aborted \cup {Owner[e]} /\ UNCHANGED conn
       ELSE conn' = [conn EXCEPT ![e].reader = "data", ![e].thr = w] /\ UNCHANGED aborted
    /\ UNCHANGED <<waiting_threads, free_workers, nworkers, thread, wire, rpc>>

\* Anything else, an exception too, is taken for a garbled command.
Garbled(e) ==
    /\ Reading(e, "find")
    /\ conn[e].msg.cmd = "CmdException"
    /\ aborted' = aborted \cup {Owner[e]}
    /\ UNCHANGED <<waiting_threads, free_workers, nworkers, thread, conn, wire, rpc>>

\* The message is written where the thread will read it, without the lock, a
\* call with the connection it came over ...
Deliver(e) ==
    LET m == conn[e].msg IN
    /\ Reading(e, "data")
    /\ thread' = [thread EXCEPT ![conn[e].thr].wakeup_data = m,
                                ![conn[e].thr].wakeup_conn = IF m.cmd = "CmdCall" THEN e ELSE @]
    /\ conn' = [conn EXCEPT ![e].reader = "post"]
    /\ UNCHANGED <<waiting_threads, free_workers, nworkers, wire, rpc, aborted>>

Post_ReturnLost(e) ==
    LET done == [conn EXCEPT ![e].reader = "check", ![e].msg = NoMsg, ![e].thr = None]
    IN  /\ Reading(e, "post")
        /\ IF conn[e].msg.cmd = "CmdCall"
           THEN /\ thread' = [thread EXCEPT ![conn[e].thr].wakeup = @ + 1]
                /\ conn' = [done EXCEPT ![e].ref_cnt = @ + 1]
                /\ Goto(conn[e].msg.id, "server", "posted")
           ELSE conn' = done /\ UNCHANGED <<thread, rpc>>
        /\ UNCHANGED <<waiting_threads, free_workers, nworkers, wire, aborted>>

\* ... and the thread woken up.  The connection of a call is referenced.
Post(e) ==
    LET m == conn[e].msg
        done == [conn EXCEPT ![e].reader = "check", ![e].msg = NoMsg, ![e].thr = None]
    IN  /\ Reading(e, "post")
        /\ thread' = [thread EXCEPT ![conn[e].thr].wakeup = @ + 1]
        /\ IF m.cmd = "CmdCall"
           THEN /\ conn' = [done EXCEPT ![e].ref_cnt = @ + 1]
                /\ Goto(m.id, "server", "posted")
           ELSE conn' = done /\ UNCHANGED rpc
        /\ UNCHANGED <<waiting_threads, free_workers, nworkers, wire, aborted>>

NotifyDisconnect(e) ==
    /\ Reading(e, "notify")
    /\ conn' = [conn EXCEPT ![e].reader = "cleanup", ![e].disconnects = @ + 1]
    /\ UNCHANGED Only

ReaderCleanup(e) ==
    /\ Reading(e, "cleanup")
    /\ LockFree(e)
    /\ conn' = [conn EXCEPT ![e].reader = IF MayCleanup(e) THEN "emit" ELSE "unref"]
    /\ UNCHANGED Only

ReaderEmit(e) ==
    /\ Reading(e, "emit")
    /\ conn' = [conn EXCEPT ![e].reader = "unref", ![e].cleanups = @ + 1,
                            ![e].state = "ClosedCleanedup"]
    /\ UNCHANGED Only

ReaderExit(e) ==
    /\ Reading(e, "unref")
    /\ conn' = [conn EXCEPT ![e].reader = "done", ![e].ref_cnt = @ - 1]
    /\ UNCHANGED Only

-----------------------------------------------------------------------------
\* A stream fails, in one direction at a time; what is under way is lost with
\* the direction it goes in.
Break(e) ==
    /\ e \in Fragile
    /\ \/ wire[e].readable /\ wire' = [wire EXCEPT ![e].readable = FALSE]
       \/ wire[e].writable /\ wire' = [wire EXCEPT ![e].writable = FALSE]
    /\ UNCHANGED <<waiting_threads, free_workers, nworkers, thread, conn, rpc, aborted>>

\* The innermost frame of a thread's stack runs.
ThreadRuns(t, id) ==
    \/ Acquire(t, id)
    \/ Register(t, id)
    \/ CountFirst(t, id)
    \/ Send(t, id)
    \/ Write(t, id)
    \/ Unsent(t, id)
    \/ TakeReturn(t, id)
    \/ TakeReturnThrown(t, id)
    \/ Return(t, id)
    \/ EndHandler(t, id)
    \/ Release(t, id)
    \/ Reply(t, id)
    \/ WriteReply(t, id)
    \/ CallOut(t, id)
    \/ CallOutCleanup(t, id)
    \/ CallOutEmit(t, id)
    \/ Leave(t, id)
    \/ Terminate(t, id)

Serves(t) ==
    \/ HandleCall(t)
    \/ thread[t].stack # <<>> /\ ThreadRuns(t, Last(thread[t].stack)[2])

ReaderRuns(e) ==
    \/ ReaderCheck(e)
    \/ RecvMessage(e)
    \/ RecvDisconnected(e)
    \/ AcquireWaiting(e)
    \/ GetFreeWorker(e)
    \/ RegisterWorker(e)
    \/ CountWorker(e)
    \/ FindWaiting(e)
    \/ Garbled(e)
    \/ Deliver(e)
    \/ Post(e)
    \/ NotifyDisconnect(e)
    \/ ReaderCleanup(e)
    \/ ReaderEmit(e)
    \/ ReaderExit(e)

\* Nobody is in a call: the applications may leave it at that.
Quiescent ==
    /\ \A t \in Thread : thread[t].stack = <<>>
    /\ UNCHANGED vars

Next ==
    \/ \E t \in Created :
         \/ \E s \in Service : ClientCall(t, s)
         \/ Serves(t)
    \/ \E e \in Conn : ReaderRuns(e) \/ Break(e)
    \/ Quiescent

SafeSpec == Init /\ [][Next]_vars

\* Threads and readers that can run do, handlers come to their end; nobody
\* has to call, and streams need not fail.
Fairness ==
    /\ \A t \in Thread : WF_vars(t \in Created /\ Serves(t))
    /\ \A e \in Conn : WF_vars(ReaderRuns(e))

Spec == SafeSpec /\ Fairness

=============================================================================
