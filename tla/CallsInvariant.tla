---------------------------- MODULE CallsInvariant ---------------------------
(***************************************************************************)
(* Why processes that call each other keep their registers right, as long  *)
(* as no stream fails, all handlers succeed, and no two clients have the   *)
(* same thread id: what is always true of the calls of a client, of the    *)
(* stacks they are made and served on, of the messages under way and of    *)
(* the registry.  IInv is inductive; module CallsProofs shows it.          *)
(***************************************************************************)
EXTENDS CallsProperties

NothingFails == Results = {"Success"} /\ Fragile = {}
TidsDiffer == \A c, d \in Client : Tid[c] = Tid[d] => c = d

-----------------------------------------------------------------------------
(* What does not happen then.                                              *)

\* The call is in handleCall.
Inside == {"running", "release", "reply", "sending", "callout", "cleanup", "leave"}
\* No call is served in the name of another connection than its own.
ViasRight == \A id \in CallId : rpc[id].server \in Inside =>
    rpc[id].client # "none" /\ rpc[id].via = ServedAt(id)

CalmReader == {"check", "read", "acquire", "worker", "add", "count", "find", "data", "post"}
Calm ==
    /\ aborted = {}
    /\ \A e \in Conn : /\ conn[e].state = "Active"
                       /\ conn[e].reader \in CalmReader
                       /\ wire[e].readable /\ wire[e].writable
    /\ \A id \in CallId : /\ rpc[id].client \notin {"unsent", "leaked"}
                          /\ rpc[id].server \notin {"thrown", "emit"}
    /\ ViasRight

-----------------------------------------------------------------------------
(* The calls of a client.                                                  *)

\* id has been made and has not returned; its return has been sent.
IsOpen(id) == rpc[id].client \notin {"none", "done"}
Through == {"callout", "cleanup", "leave", "done"}

\* Calls of one client, in the order in which they are made.
Before(id, later) == id[1] = later[1] /\ id[2] < later[2]

\* How far the two ends of a call are goes together.
EndsAgree == \A id \in CallId :
    /\ rpc[id].client \notin {"wait", "return", "done"} => rpc[id].server = "none"
    /\ rpc[id].client \in {"return", "done"} => rpc[id].server \in Through
    /\ rpc[id].client # "none" => rpc[id].conn \in Conn /\ rpc[id].tid = Tid[id[1]]
    /\ rpc[id].server \in {"reply", "sending"} => rpc[id].rtid = Tid[id[1]]
    /\ rpc[id].server \in {"release", "reply", "sending"} \cup Through
         => rpc[id].served = "Success"
    /\ rpc[id].reply \in {None, id}

\* Of a client's open calls all but the last wait, and their handlers run.
CallsNest == \A id, later \in CallId : Before(id, later) =>
    /\ rpc[id].client = "none" => rpc[later].client = "none"
    /\ IsOpen(id) /\ IsOpen(later) => rpc[id].client = "wait" /\ rpc[id].server = "running"

-----------------------------------------------------------------------------
(* The stacks.                                                             *)

Live(f) == f[1] = "client_call" \/ rpc[f[2]].server \in {"running", "release"}

FramesApart == \A t, u \in Thread :
    \A i \in 1..Len(thread[t].stack), j \in 1..Len(thread[u].stack) :
        thread[t].stack[i] = thread[u].stack[j] => t = u /\ i = j

\* A frame is of a call at that stage, and in the process of that end.
FramesPlaced == \A t \in Thread : \A i \in 1..Len(thread[t].stack) :
    LET f == thread[t].stack[i] IN
    /\ f[1] = "client_call" => IsOpen(f[2]) /\ Owner[rpc[f[2]].conn] = Process(t)
    /\ f[1] = "handleCall" => rpc[f[2]].server \in Inside /\ Owner[ServedAt(f[2])] = Process(t)

CallsFramed == \A id \in CallId : IsOpen(id) =>
    \E t \in Thread : <<"client_call", id>> \in Frames(t)

\* Only the last frame of a stack does anything.
InnerFramesWait == \A t \in Thread : \A i \in 1..Len(thread[t].stack) :
    LET f == thread[t].stack[i] IN i < Len(thread[t].stack) =>
    /\ f[1] = "client_call" => rpc[f[2]].client = "wait"
    /\ f[1] = "handleCall" => rpc[f[2]].server = "running"

\* A call is made by its client itself, as the first of its open calls, or by
\* the handler of the one before it.
FirstFrame(t) ==
    LET id == thread[t].stack[1][2] IN
    thread[t].stack[1][1] = "client_call" =>
        /\ t = id[1]
        /\ \A k \in CallId : Before(k, id) => ~IsOpen(k)
NextFrame(t, i) ==
    LET f == thread[t].stack[i]
        g == thread[t].stack[i + 1]
    IN  /\ f[1] # g[1]
        /\ g[1] = "client_call" =>
             /\ Before(f[2], g[2])
             /\ rpc[g[2]].used = ServedAt(f[2])
             /\ \A k \in CallId : Before(k, g[2]) /\ Before(f[2], k) => ~IsOpen(k)
FramesNest == \A t \in Thread :
    /\ thread[t].stack # <<>> => FirstFrame(t)
    /\ \A i \in 1..Len(thread[t].stack) - 1 : NextFrame(t, i)

LaterAbove == \A t \in Thread : \A i, j \in 1..Len(thread[t].stack) :
    LET s == thread[t].stack IN
    i < j /\ s[i][1] = "client_call" /\ s[j][1] = "client_call" => Before(s[i][2], s[j][2])

\* The handler of a call that is not the client's last open one is not on top.
Covered ==
    /\ \A id, later \in CallId : Before(id, later) /\ IsOpen(id) /\ IsOpen(later) =>
         \A t \in Thread : thread[t].stack # <<>> =>
            Last(thread[t].stack) # <<"handleCall", id>>
    /\ \A id \in CallId : thread[id[1]].stack = <<>> => ~IsOpen(id)

\* Whose calls a thread makes and serves.
FramesOwned == \A t \in Thread : \A i \in 1..Len(thread[t].stack) :
    LET f == thread[t].stack[i] IN
    /\ Live(f) => thread[t].original_tid = Tid[f[2][1]]
    /\ Process(t) = Home[f[2][1]] => t = f[2][1]
    /\ t \in Client => f[2][1] = t
    /\ t \in Client /\ i = 1 => f[1] = "client_call"

\* The connection by which a handler calls back is the one its call came over.
UsedRight ==
    /\ \A t \in Thread : /\ thread[t].used_connection # None =>
                              Owner[thread[t].used_connection] = Process(t)
                         /\ \A i \in 1..Len(thread[t].stack) : 
                              LET f == thread[t].stack[i] IN
                              f[1] = "client_call" /\ rpc[f[2]].used # None =>
                                 Owner[rpc[f[2]].used] = Process(t)
    /\ \A t \in Thread, id \in CallId :
         thread[t].stack # <<>> /\ Last(thread[t].stack) = <<"handleCall", id>> /\ rpc[id].server = "running"
           => thread[t].used_connection = ServedAt(id)

StacksRight ==
    /\ EndsAgree /\ CallsNest /\ FramesApart /\ FramesPlaced /\ CallsFramed
    /\ InnerFramesWait /\ FramesNest /\ LaterAbove /\ Covered /\ FramesOwned
    /\ UsedRight

-----------------------------------------------------------------------------
(* The messages.                                                           *)

\* m is a message to end e, and its call is where it can be received.
Fits(m, e) ==
    /\ m \in Msg
    /\ m.tid = Tid[m.id[1]]
    /\ rpc[m.id].client = "wait"
    /\ \/ m.cmd = "CmdCall" /\ rpc[m.id].server = "none" /\ e = ServedAt(m.id)
       \/ m.cmd = "CmdReturn" /\ rpc[m.id].server \in Through /\ e = rpc[m.id].conn

OnWire == \A e \in Conn : \A i \in 1..Len(wire[e].queue) : Fits(wire[e].queue[i], e)

Holding == {"acquire", "worker", "add", "count", "find", "data", "post"}
Holds(e) == conn[e].reader \in Holding
InReader == \A e \in Conn : Holds(e) =>
    /\ Fits(conn[e].msg, e)
    /\ conn[e].reader \in {"acquire", "worker", "add", "count"} => conn[e].msg.cmd = "CmdCall"
    /\ conn[e].reader = "find" => conn[e].msg.cmd = "CmdReturn"

Boxed(t) == thread[t].wakeup # 0
InBox == \A t \in Thread : Boxed(t) =>
    LET m == thread[t].wakeup_data IN
    /\ thread[t].wakeup = 1
    /\ m \in Msg
    /\ m.tid = Tid[m.id[1]] /\ thread[t].original_tid = m.tid
    /\ rpc[m.id].client = "wait"
    /\ \/ /\ m.cmd = "CmdCall" /\ rpc[m.id].server = "posted"
          /\ thread[t].wakeup_conn = ServedAt(m.id) /\ Owner[ServedAt(m.id)] = Process(t)
       \/ /\ m.cmd = "CmdReturn" /\ rpc[m.id].server \in Through
          /\ <<"client_call", m.id>> \in Frames(t)

\* No two messages of a call are under way.
OneMessage ==
    /\ \A e, f \in Conn : \A i \in 1..Len(wire[e].queue), j \in 1..Len(wire[f].queue) :
         wire[e].queue[i].id = wire[f].queue[j].id => e = f /\ i = j
    /\ \A e, f \in Conn : Holds(f) => \A i \in 1..Len(wire[e].queue) :
         wire[e].queue[i].id # conn[f].msg.id
    /\ \A e, f \in Conn : Holds(e) /\ Holds(f) /\ conn[e].msg.id = conn[f].msg.id => e = f
    /\ \A t \in Thread : Boxed(t) =>
         /\ \A e \in Conn : \A i \in 1..Len(wire[e].queue) :
              wire[e].queue[i].id # thread[t].wakeup_data.id
         /\ \A e \in Conn : Holds(e) => conn[e].msg.id # thread[t].wakeup_data.id
         /\ \A u \in Thread : Boxed(u) /\ thread[u].wakeup_data.id = thread[t].wakeup_data.id => u = t

-----------------------------------------------------------------------------
(* The threads that readers have chosen for their messages.                *)

Aiming == {"add", "count", "data", "post"}
Aims(e) == conn[e].reader \in Aiming
NobodyWaits(p, tid) == \A t \in Waiting(p) : thread[t].original_tid # tid

Targets == \A e \in Conn :
    LET t == conn[e].thr IN
    /\ ~Aims(e) => t = None
    /\ Aims(e) =>
         /\ t \in Created /\ Process(t) = Owner[e]
         /\ thread[t].wakeup = 0
         /\ \A f \in Conn : conn[f].thr = t => e = f
    /\ conn[e].reader \in {"worker", "add"} => NobodyWaits(Owner[e], conn[e].msg.tid)
    /\ conn[e].reader \in {"add", "count"} => t \in Worker /\ Registrations(t) = {}
    /\ conn[e].reader = "add" => t \notin Waiting(Owner[e])
    /\ conn[e].reader = "count" => t \in Waiting(Owner[e])
    /\ conn[e].reader \in {"count", "data", "post"} => thread[t].original_tid = conn[e].msg.tid
    /\ conn[e].reader \in {"data", "post"} /\ conn[e].msg.cmd = "CmdReturn" =>
         <<"client_call", conn[e].msg.id>> \in Frames(t)
    /\ conn[e].reader = "post" =>
         /\ thread[t].wakeup_data = conn[e].msg
         /\ conn[e].msg.cmd = "CmdCall" => thread[t].wakeup_conn = e

-----------------------------------------------------------------------------
(* The registry.                                                           *)

\* Who is in waiting_threads: one thread for each thread id, in a client's own
\* process the client.
WaitingRight ==
    /\ UniqueTid
    /\ \A p \in Proc : \A t \in Waiting(p) :
         /\ t \in Created /\ Process(t) = p
         /\ \A c \in Client : thread[t].original_tid = Tid[c] /\ Home[c] = p => t = c
    /\ \A c \in Client : thread[c].original_tid = Tid[c]

FreeRight == \A p \in Proc :
    /\ \A i, j \in 1..Len(free_workers[p]) : free_workers[p][i] = free_workers[p][j] => i = j
    /\ \A t \in Frees(p) :
         /\ t \in Worker /\ t \in Created /\ Process(t) = p
         /\ t \notin Waiting(p)
         /\ \A e \in Conn : conn[e].thr # t

\* Every worker is free, waits, or is about to.
WorkersKept == \A t \in Worker :
    /\ t \in Created => \/ t \in Frees(t[1]) \/ t \in Waiting(t[1])
                        \/ \E e \in Conn : conn[e].reader = "add" /\ conn[e].thr = t
    /\ t \notin Created => thread[t].stack = <<>> /\ thread[t].wakeup = 0

Counted == \A t \in Thread :
    /\ IsFiniteSet(Registrations(t))
    /\ ~JustAdded(t) =>
         /\ thread[t].recursion_count = Cardinality(Registrations(t))
         /\ t \in Waiting(Process(t)) <=> Registrations(t) # {}

\* A client's first call, until it is counted, is all it is registered for.
JustCalled == \A t \in Thread : \A f \in Frames(t) :
    f[1] = "client_call" /\ rpc[f[2]].client \in {"add", "count"} =>
       /\ Registrations(t) = {f}
       /\ rpc[f[2]].client = "add" => NobodyWaits(Process(t), Tid[f[2][1]])
       /\ rpc[f[2]].client = "count" => t \in Waiting(Process(t))

\* The counters of connections.
Requests(e) == {id \in CallId : IsOpen(id) /\ rpc[id].conn = e}
Posted(e) == {id \in CallId : rpc[id].server = "posted" /\ ServedAt(id) = e}
Served(e) == {id \in CallId : rpc[id].server \in Inside /\ ServedAt(id) = e}
Incoming(e) == {id \in CallId : rpc[id].server \in Inside \ {"cleanup", "leave"} /\ ServedAt(id) = e}
ConnsCounted == \A e \in Conn :
    /\ IsFiniteSet(Requests(e)) /\ IsFiniteSet(Posted(e)) /\ IsFiniteSet(Served(e)) /\ IsFiniteSet(Incoming(e))
    /\ conn[e].ref_cnt = 3 + Cardinality(Requests(e)) + Cardinality(Posted(e)) + 2 * Cardinality(Served(e))
    /\ conn[e].incoming_calls_cnt = Cardinality(Incoming(e))

\* All of it.
IInv ==
    /\ TypeOK /\ Calm /\ StacksRight
    /\ OnWire /\ InReader /\ InBox /\ OneMessage
    /\ Targets /\ WaitingRight /\ FreeRight /\ WorkersKept /\ Counted /\ JustCalled
    /\ ConnsCounted

-----------------------------------------------------------------------------
(* Which connections calls take.  (Not part of IInv, but it holds besides.) *)

\* A call goes over the connection used before, unless that lacks the service.
UsedFirst == \A id \in CallId :
    /\ rpc[id].client # "none" /\ rpc[id].used # None
    /\ rpc[id].conn # rpc[id].used
    => ~ Provides[rpc[id].conn] \subseteq Provides[rpc[id].used]

-----------------------------------------------------------------------------
(* What else there is to know, to see that Calls implements RemoteCalls    *)
(* and Chains.                                                             *)

\* A call has a result once its return was taken.
ResultRight == \A id \in CallId :
    rpc[id].res = IF rpc[id].client \in {"return", "done"} THEN "Success" ELSE None

\* What is served is so by some thread.
ServedFramed == \A id \in CallId : rpc[id].server \in Inside =>
    \E t \in Thread : <<"handleCall", id>> \in Frames(t)

\* The open calls of a client in their order.
OpenOrdered == \A c \in Client :
    /\ Open(c) \in Seq(1..Budget[c])
    /\ \A i \in 1..Len(Open(c)) : IsOpen(<<c, Open(c)[i]>>)
    /\ \A n \in 1..Budget[c] : IsOpen(<<c, n>>) => \E i \in 1..Len(Open(c)) : Open(c)[i] = n
    /\ \A i, j \in 1..Len(Open(c)) : i < j => Open(c)[i] < Open(c)[j]

RefinementInv == ResultRight /\ ServedFramed /\ OpenOrdered

=============================================================================
