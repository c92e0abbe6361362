--------------------------- MODULE CallsProperties ---------------------------
(***************************************************************************)
(* What processes that call each other as module Calls describes can rely  *)
(* on, and what the source says they can but they cannot.                  *)
(***************************************************************************)
EXTENDS Calls

Waiting(p) == {waiting_threads[p][i] : i \in DOMAIN waiting_threads[p]}
Frees(p) == {free_workers[p][i] : i \in DOMAIN free_workers[p]}
Frames(t) == {thread[t].stack[i] : i \in DOMAIN thread[t].stack}

\* A return ends the call it is the return of, though all that it carries is
\* the thread id, which all calls of a chain of nested calls share.
ReplyFindsItsCall == \A id \in CallId : rpc[id].reply \in {None, id}

\* A thread id names at most one thread of a process: the first match of a
\* look-up is the only one.
UniqueTid ==
    \A p \in Proc : \A i, j \in DOMAIN waiting_threads[p] :
        i # j => thread[waiting_threads[p][i]].original_tid
                   # thread[waiting_threads[p][j]].original_tid

\* wakeup_data and wakeup_conn are one cell per thread, written without a lock:
\* nobody writes while a message is there that the thread has not taken.
NothingOverwritten ==
    \A e \in Conn : conn[e].reader \in {"data", "post"} =>
        /\ thread[conn[e].thr].wakeup = 0
        /\ \A f \in Conn \ {e} : conn[f].thr # conn[e].thr

\* What keeps thread t registered: the calls it makes, those it serves up to
\* releaseWaitingThread, and one handed to it that it has not taken yet.
Registrations(t) ==
    {f \in Frames(t) : f[1] = "client_call" /\ rpc[f[2]].client # "acquire"}
    \cup {f \in Frames(t) : f[1] = "handleCall" /\ rpc[f[2]].server \in {"running", "release"}}
    \cup {<<"posted", id>> : id \in {i \in CallId : /\ rpc[i].server = "posted"
                                                   /\ thread[t].wakeup > 0
                                                   /\ thread[t].wakeup_data.id = i}}
    \cup {<<"reader", e>> : e \in {f \in Conn : /\ conn[f].thr = t
                                               /\ conn[f].reader \in {"data", "post"}
                                               /\ conn[f].msg.cmd = "CmdCall"}}

\* Between addWaitingThread and recursion_count=1 the count is not right yet.
JustAdded(t) ==
    \/ \E e \in Conn : conn[e].reader \in {"add", "count"} /\ conn[e].thr = t
    \/ \E f \in Frames(t) : f[1] = "client_call" /\ rpc[f[2]].client \in {"add", "count"}

\* recursion_count is exactly the number of nested registrations, and a thread
\* is in the list as long as there is one: no call unregisters another's.
RecursionCounted ==
    \A t \in Created : ~JustAdded(t) =>
        /\ thread[t].recursion_count = Cardinality(Registrations(t))
        /\ t \in Waiting(Process(t)) <=> thread[t].recursion_count > 0

\* A worker that may be given work is in no handler, is given to nobody else,
\* and no message can be for it.
FreeWorkersAreFree ==
    \A p \in Proc :
        /\ IsInjective(free_workers[p])
        /\ \A t \in Frees(p) :
             /\ t \notin Waiting(p)
             /\ \A e \in Conn : conn[e].thr # t
             /\ \A f \in Frames(t) :
                  f[1] = "handleCall" /\ rpc[f[2]].server \notin {"running", "release"}

\* No worker is lost: one that serves nothing and that no message is on its way
\* to is free (connection.cpp:371: wait call, dispatch, - thr, SEND).
NoWorkerLost ==
    \A p \in Proc : \A n \in 1..nworkers[p] : LET t == <<p, n>> IN
        /\ thread[t].stack = <<>>
        /\ thread[t].wakeup = 0
        /\ \A e \in Conn : conn[e].thr # t
        => t \in Frees(p)

\* What a handler calls back comes to the thread that made the call it serves:
\* in the client's process all its chain's calls run on the client itself.
CallbackOnCaller ==
    \A t \in Thread : \A f \in Frames(t) :
        Process(t) = Home[f[2][1]] => t = f[2][1]

\* However often a chain of calls passes through a process, it does so on one
\* thread, until that has unregistered.
OneThreadPerChain ==
    \A t, u \in Thread : t # u /\ Process(t) = Process(u) =>
        \A f \in Frames(t), g \in Frames(u) :
            f[2][1] = g[2][1] =>
              \E h \in {f, g} : h[1] = "handleCall" /\ rpc[h[2]].server \notin {"running", "release"}

\* While a handler runs, getUsedConnection() is the connection its call came
\* over, whatever was called and served on the same thread in between.
OriginKept ==
    \A t \in Thread, id \in CallId :
        Serving(t, id, "running") => thread[t].used_connection = ServedAt(id)

\* A handler calls its own caller, not another process that provides the service
\* too (tests/test08): a call that goes elsewhere is to something that has a
\* service its caller does not provide.
CallbackGoesBack ==
    \A t \in Thread : \A i \in 2..Len(thread[t].stack) :
        LET callee == thread[t].stack[i - 1][2]
            made   == thread[t].stack[i][2]
        IN  /\ thread[t].stack[i][1] = "client_call"
            /\ rpc[made].conn # ServedAt(callee)
            => ~ Provides[rpc[made].conn] \subseteq Provides[ServedAt(callee)]

\* A process needs no more workers than there are clients elsewhere (and the
\* first): each is free again before its caller can know the call is over
\* (threads.cpp:223).  known-bugs.txt:2 says otherwise: "When client invokes server
\* very frequently, then additional worker threads may be created".  That is what
\* the code would do with the release after the sending; as it stands, frequency
\* is no cause.  Handlers that fail are: they keep their workers (NoWorkerLost).
WorkersBounded ==
    \A p \in Proc : nworkers[p] <= Max({1, Cardinality({c \in Client : Home[c] # p})})

\* No assertion fails: when a return arrives some thread waits for it
\* (connection.cpp:103), and a worker is never woken by one (threads.cpp:172).
NoAssertionFails == aborted = {}

\* The wait of call id has ended, not with a return but with a call that was
\* served meanwhile and did not succeed (threads.cpp:137): the handler of id may
\* be running yet, and its return is still to come.
CutShort(id) == rpc[id].client \in {"return", "done"} /\ rpc[id].reply = None

\* That has happened to a call of client c, or of the handlers of its calls.
Disturbed(c) == \E n \in 1..Budget[c] : CutShort(<<c, n>>)

\* A return goes astray only once a wait of the same client's calls has been cut
\* short: what fails in the calls of one client does not reach those of another.
StraysOnlyIfDisturbed ==
    \A id \in CallId : ~Disturbed(id[1]) => rpc[id].reply \in {None, id}

\* What brings process p down.  Its reader takes an exception for a garbled
\* command (connection.cpp:111) ...
GetsException(p, id) ==
    rpc[id].client = "wait" /\ Owner[rpc[id].conn] = p /\ rpc[id].served = "Thrown"
\* ... a return comes to nobody, or to a worker that does not wait for it
\* (connection.cpp:103, threads.cpp:172), as its call's wait was cut short ...
GetsLateReturn(p, id) == CutShort(id) /\ Owner[rpc[id].conn] = p
\* ... or a worker whose handler has thrown serves another call meanwhile, which
\* fails, and lets the exception go on (threads.cpp:204).
LetsExceptionOut(p, id) ==
    /\ rpc[id].server = "leave" /\ rpc[id].served = "Thrown"
    /\ \E t \in Worker : Process(t) = p /\ thread[t].stack = << <<"handleCall", id>> >>
    /\ \E other \in CallId \ {id} : rpc[other].served \in Result \ {"Success"}


\* Every call comes to its end.
CallsReturn ==
    \A id \in CallId : rpc[id].client = "acquire" ~> rpc[id].client = "done"

\* ruros.cpp:212: threads waiting on a connection are woken up on its
\* disconnection (threads.cpp:155: exited without data, it must mean
\* disconnection).
DisconnectWakes ==
    \A id \in CallId :
        rpc[id].client = "wait" /\ conn[rpc[id].conn].reader = "done"
            ~> rpc[id].client # "wait"

\* What client_call promises, see RemoteCalls, and where nothing fails, keeps.
HandlerOf(id) ==
    IF rpc[id].server \in {"none", "posted"} THEN "none"
    ELSE IF rpc[id].server = "running" THEN "running" ELSE "over"
OutcomeOf(id) ==
    IF rpc[id].client = "none" THEN "none"
    ELSE IF rpc[id].res = None THEN "pending" ELSE rpc[id].res
Promise == INSTANCE RemoteCalls WITH
    handler <- [id \in CallId |-> HandlerOf(id)],
    outcome <- [id \in CallId |-> OutcomeOf(id)]
ImplementsRemoteCalls == Promise!Spec

\* The same promise, to client c alone.
CallsOf(c) == {c} \X (1..Budget[c])
PromiseTo(c) == INSTANCE RemoteCalls WITH
    CallId <- CallsOf(c),
    handler <- [id \in CallsOf(c) |-> HandlerOf(id)],
    outcome <- [id \in CallsOf(c) |-> OutcomeOf(id)]

\* Whatever fails, it is kept until a wait of the client's own calls has been cut
\* short, and that wait does not end in Success.
KeptUntilDisturbed ==
    [][UNCHANGED rpc \/ \A c \in Client :
          Disturbed(c) \/ UNCHANGED PromiseTo(c)!vars \/ PromiseTo(c)!Next]_vars

\* And ever after no handler runs twice, or for a call that was not made, and what
\* client_call has reported once stands.
NothingTwice ==
    [][UNCHANGED rpc \/ (Promise!NotRunUncalled' /\ Promise!NeverAgain)]_vars

\* Numbers in ascending order: n is at the place that tells how many there are
\* up to it.
Ascending(numbers) ==
    [i \in 1..Cardinality(numbers) |->
        CHOOSE n \in {m \in numbers : Cardinality({k \in numbers : k <= m}) = i} : TRUE]

\* What nested calls are to their clients, see Chains: the calls a client waits
\* for, in the order in which they were made, lie one within the other.
OpenNumbers(c) == {n \in 1..Budget[c] : rpc[<<c, n>>].client \notin {"none", "done", "leaked"}}
Open(c) == Ascending(OpenNumbers(c))
ChainOf(c) == [i \in DOMAIN Open(c) |-> Owner[ServedAt(<<c, Open(c)[i]>>)]]
Stage(id) ==
    LET pc == rpc[id].server IN
    IF pc \in {"none", "posted"} THEN "called"
    ELSE IF pc = "running" THEN "running"
    ELSE IF pc = "release" THEN "over" ELSE "returned"
AtOf(c) == IF Open(c) = <<>> THEN "running" ELSE Stage(<<c, Last(Open(c))>>)
ThreadIn(p, c) == IF p = Home[c] THEN c ELSE findWaitingThread(p, Tid[c])
Nested == INSTANCE Chains WITH
    Pool <- [p \in Proc |-> {p} \X (1..MaxWorkers)],
    chain <- [c \in Client |-> ChainOf(c)],
    at <- [c \in Client |-> AtOf(c)],
    bound <- [c \in Client |-> [p \in Proc |-> ThreadIn(p, c)]]
ASSUME ChainsAssumption == Nested!ConstantsOK
ImplementsChains ==
    Nested!Init /\ [][UNCHANGED Nested!vars \/ Nested!Next]_(Nested!vars)

\* Whoever runs on behalf of a client is its one thread in the process that its
\* innermost call has come to.
RunsOnItsThread ==
    \A c \in Client : {t \in Created : CallsFor(t) = c} = Nested!Runs(c)

\* How one end of a connection, with the calls it carries, is a Connection:
\* its reader, the message it holds, the calls it serves and those made over it.
EndReader(e) ==
    IF conn[e].reader \in {"acquire", "worker", "add", "count", "find", "data"}
    THEN "post" ELSE conn[e].reader
EndMsg(e) ==
    IF conn[e].msg.cmd = "CmdCall" THEN [cmd |-> "CmdCall", id |-> conn[e].msg.id]
    ELSE IF conn[e].msg.cmd = "none" THEN [cmd |-> "none"]
    ELSE [cmd |-> "CmdReturn"]
EndCall(e) == [id \in CallId |->
    IF rpc[id].conn # Peer[e] THEN "none"
    ELSE IF rpc[id].server \in {"release", "reply"} THEN "running"
    ELSE IF rpc[id].server = "thrown" THEN "callout"
    ELSE rpc[id].server]
EndRequest(e) == [id \in CallId |->
    IF rpc[id].conn # e THEN "none"
    ELSE IF rpc[id].client \in {"acquire", "add", "count", "send"} THEN "held"
    ELSE IF rpc[id].client \in {"wait", "return"} THEN "sent"
    ELSE IF rpc[id].client = "unsent" THEN "leaked"
    ELSE rpc[id].client]

\* Whatever the threads and the registry do, each end of a connection takes only
\* the steps module Connection describes, with one ConnectionRef for it around.
\* (What the first disjuncts allow is a stutter, found out quickly.)
End(e) == INSTANCE Connection WITH
    Call <- CallId, Request <- CallId, MaxHandles <- 1, handles <- 1,
    state <- conn[e].state, ref_cnt <- conn[e].ref_cnt,
    incoming_calls_cnt <- conn[e].incoming_calls_cnt,
    reader <- EndReader(e), msg <- EndMsg(e),
    call <- EndCall(e), request <- EndRequest(e),
    readable <- wire[e].readable, writable <- wire[e].writable,
    disconnects <- conn[e].disconnects, cleanups <- conn[e].cleanups
EndsAreConnections ==
    [][\A e \in Conn :
          \/ UNCHANGED <<conn[e], wire[e], rpc>>
          \/ UNCHANGED End(e)!vars
          \/ End(e)!Next]_vars

=============================================================================
