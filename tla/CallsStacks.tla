---------------------------- MODULE CallsStacks -----------------------------
(***************************************************************************)
(* What each step of Calls changes, field by field, and why the calls of a *)
(* client and the stacks they are made and served on stay in order         *)
(* (StacksRight), whatever it does to them: it moves the frame on top of a *)
(* stack on, posts a call, pushes or pops a frame, or leaves calls and stacks *)
(* alone.                                                                  *)
(***************************************************************************)
EXTENDS CallsInvariant, FiniteSetTheorems, SequenceTheorems, WellFoundedInduction, TLAPS

(* Data.                                                                   *)

\* A call is told by its client and its number.
LEMMA CallIds ==
    /\ \A c \in Client : \A n \in 1..Budget[c] : <<c, n>> \in CallId
    /\ \A k \in CallId : k[1] \in Client /\ k[2] \in Nat /\ k[2] \in 1..Budget[k[1]]
    /\ \A k \in CallId : k = <<k[1], k[2]>>
    /\ \A k, l \in CallId : k[1] = l[1] /\ k[2] = l[2] => k = l
<1>1. \A c \in Client : Budget[c] \in Nat
  BY ThreadAssumption
<1>2. \A k \in CallId : \E c \in Client : \E n \in 1..Budget[c] : k = <<c, n>>
  BY DEF CallId
<1>3. \A c \in Client : \A n \in 1..Budget[c] : <<c, n>> \in CallId
  BY DEF CallId
<1> HIDE DEF CallId
<1>4. \A k \in CallId : k[1] \in Client /\ k[2] \in 1..Budget[k[1]] /\ k = <<k[1], k[2]>>
  BY <1>2
<1> QED
  BY <1>1, <1>3, <1>4

\* The calls of a client are ordered.
LEMMA CallOrder == \A k, l \in CallId : k[1] = l[1] => k = l \/ Before(k, l) \/ Before(l, k)
<1> SUFFICES ASSUME NEW k \in CallId, NEW l \in CallId, k[1] = l[1]
             PROVE  k = l \/ k[2] < l[2] \/ l[2] < k[2]
  BY DEF Before
<1>1. k[2] \in Nat /\ l[2] \in Nat /\ (k[2] = l[2] => k = l)
  BY CallIds
<1> QED
  BY <1>1

\* All but the last element, and the last.
LEMMA FrontFacts ==
    ASSUME NEW S, NEW s \in Seq(S), s # <<>>
    PROVE  /\ Front(s) \in Seq(S)
           /\ Len(s) \in Nat \ {0}
           /\ Len(Front(s)) = Len(s) - 1
           /\ \A i \in 1..Len(s) - 1 : Front(s)[i] = s[i]
           /\ Last(s) \in S /\ Last(s) = s[Len(s)]
<1>1. Len(s) \in Nat \ {0}
  OBVIOUS
<1>2. Front(s) = [i \in 1..Len(s) - 1 |-> s[i]]
  BY <1>1 DEF Front
<1> QED
  BY <1>1, <1>2 DEF Last

\* Without its k-th element.
LEMMA RemoveFacts ==
    ASSUME NEW S, NEW s \in Seq(S), NEW k \in 1..Len(s)
    PROVE  /\ RemoveAt(s, k) \in Seq(S)
           /\ Len(RemoveAt(s, k)) = Len(s) - 1
           /\ \A i \in 1..k - 1 : RemoveAt(s, k)[i] = s[i]
           /\ \A i \in k..Len(s) - 1 : RemoveAt(s, k)[i] = s[i + 1]
<1> DEFINE a == SubSeq(s, 1, k - 1)
           b == SubSeq(s, k + 1, Len(s))
<1>1. PICK n \in Nat : n = Len(s)
  OBVIOUS
<1>2. /\ a \in Seq(S) /\ Len(a) = k - 1
      /\ \A i \in 1..k - 1 : a[i] = s[i]
  BY <1>1
<1>3. /\ b \in Seq(S) /\ Len(b) = n - k
      /\ \A i \in 1..n - k : b[i] = s[k + i]
  BY <1>1
<1> HIDE DEF a, b
<1>4. /\ a \o b \in Seq(S) /\ Len(a \o b) = n - 1
      /\ \A i \in 1..k - 1 : (a \o b)[i] = a[i]
      /\ \A i \in k..n - 1 : (a \o b)[i] = b[i - (k - 1)]
  <2>1. /\ a \o b \in Seq(S) /\ Len(a \o b) = Len(a) + Len(b)
        /\ \A i \in 1..Len(a) + Len(b) : (a \o b)[i] =
             IF i <= Len(a) THEN a[i] ELSE b[i - Len(a)]
    BY <1>2, <1>3, ConcatProperties
  <2> QED
    BY <1>1, <1>2, <1>3, <2>1, SMTT(30)
<1>5. \A i \in k..n - 1 : (a \o b)[i] = s[i + 1]
  <2> SUFFICES ASSUME NEW i \in k..n - 1 PROVE (a \o b)[i] = s[i + 1]
    OBVIOUS
  <2>1. i - (k - 1) \in 1..n - k /\ k + (i - (k - 1)) = i + 1
    BY <1>1
  <2>2. b[i - (k - 1)] = s[k + (i - (k - 1))]
    BY <1>3, <2>1
  <2> QED
    BY <1>4, <2>1, <2>2
<1>6. RemoveAt(s, k) = a \o b
  BY DEF RemoveAt, a, b
<1> QED
  BY <1>1, <1>2, <1>4, <1>5, <1>6

\* The elements of a list that is appended to, or that loses one.
LEMMA AppendFacts ==
    ASSUME NEW S, NEW s \in Seq(S), NEW x \in S
    PROVE  /\ Append(s, x) \in Seq(S)
           /\ Len(s) \in Nat /\ Len(Append(s, x)) = Len(s) + 1
           /\ \A i \in 1..Len(s) : Append(s, x)[i] = s[i]
           /\ Append(s, x)[Len(s) + 1] = x
OBVIOUS

\* The least of a set of numbers.
LEMMA LeastFacts ==
    ASSUME NEW S \in SUBSET Nat, S # {}
    PROVE  Min(S) \in S /\ \A n \in S : Min(S) <= n
<1> DEFINE R == OpToRel(<, Nat)
<1>1. \E m \in S : \A n \in S : ~ (<<n, m>> \in R)
  <2>1. IsWellFoundedOn(R, Nat)
    BY NatLessThanWellFounded
  <2> HIDE DEF R
  <2> QED
    BY <2>1, WFMin
<1>2. \A m, n \in Nat : n < m => <<n, m>> \in R
  BY DEF OpToRel
<1> HIDE DEF R
<1>3. PICK m \in S : \A n \in S : ~ (<<n, m>> \in R)
  BY <1>1
<1>4. \A n \in S : m <= n
  <2> SUFFICES ASSUME NEW n \in S, n < m PROVE FALSE
    OBVIOUS
  <2> QED
    BY <1>2, <1>3
<1> QED
  BY <1>4 DEF Min

-----------------------------------------------------------------------------
(* What the steps do, field by field.                                      *)

OnTop(t, f) ==
    /\ Len(thread[t].stack) > 0
    /\ thread[t].stack[Len(thread[t].stack)] = f

CallsBut(id) == \A k \in CallId \ {id} : rpc'[k] = rpc[k]
SameMade(id) == rpc'[id].conn = rpc[id].conn /\ rpc'[id].used = rpc[id].used /\ rpc'[id].tid = rpc[id].tid
SameVia(id) == rpc'[id].via = rpc[id].via
SameAnswer(id) == rpc'[id].rtid = rpc[id].rtid /\ rpc'[id].served = rpc[id].served /\ rpc'[id].reply = rpc[id].reply

\* Call id is at c in client_call, at s in handleCall, and otherwise the same.
CallAt(id, c, s) ==
    /\ CallsBut(id) /\ SameMade(id) /\ SameAnswer(id)
    /\ rpc'[id].client = c /\ rpc'[id].server = s

ThreadsBut(t) == \A u \in Thread \ {t} : thread'[u] = thread[u]
SameId(t) ==
    /\ thread'[t].recursion_count = thread[t].recursion_count
    /\ thread'[t].original_tid = thread[t].original_tid
SameBox(t) ==
    /\ thread'[t].wakeup = thread[t].wakeup
    /\ thread'[t].wakeup_data = thread[t].wakeup_data
    /\ thread'[t].wakeup_conn = thread[t].wakeup_conn
SameRun(t) ==
    /\ thread'[t].used_connection = thread[t].used_connection
    /\ thread'[t].stack = thread[t].stack

ConnsBut(e) == \A f \in Conn \ {e} : conn'[f] = conn[f]
SameReader(e) ==
    /\ conn'[e].reader = conn[e].reader /\ conn'[e].msg = conn[e].msg
    /\ conn'[e].thr = conn[e].thr
SameCounts(e) ==
    /\ conn'[e].ref_cnt = conn[e].ref_cnt
    /\ conn'[e].incoming_calls_cnt = conn[e].incoming_calls_cnt

\* A thread's stack, and the calls, have their types; the frame on top.
LEMMA TopFrame ==
    ASSUME TypeOK, NEW t \in Thread, NEW id \in CallId
    PROVE  /\ \A pc : Calling(t, id, pc) => OnTop(t, <<"client_call", id>>) /\ rpc[id].client = pc
           /\ \A pc : Serving(t, id, pc) => OnTop(t, <<"handleCall", id>>) /\ rpc[id].server = pc
<1>1. thread[t].stack \in Seq(Frame)
  BY DEF TypeOK, ThreadRec
<1>2. thread[t].stack # <<>> => /\ Len(thread[t].stack) \in Nat \ {0}
                                /\ Last(thread[t].stack) = thread[t].stack[Len(thread[t].stack)]
  BY <1>1, FrontFacts
<1> QED
  BY <1>2 DEF Calling, Serving, OnTop

\* Calls stay in the name of their connections, whatever one of them does but
\* to be made or to begin handleCall.
LEMMA ViaStays ==
    ASSUME ViasRight, NEW id \in CallId, CallsBut(id), SameMade(id), SameVia(id),
           rpc[id].client # "none" => rpc'[id].client # "none",
           rpc'[id].server \in Inside => rpc[id].server \in Inside
    PROVE  ViasRight'
<1> SUFFICES ASSUME NEW k \in CallId, rpc'[k].server \in Inside
             PROVE  rpc'[k].client # "none" /\ rpc'[k].via = Peer[rpc'[k].conn]
  BY DEF ViasRight, ServedAt
<1>1. rpc[k].server \in Inside
  BY DEF CallsBut
<1>2. rpc[k].client # "none" /\ rpc[k].via = Peer[rpc[k].conn]
  BY <1>1 DEF ViasRight, ServedAt
<1> QED
  BY <1>2 DEF CallsBut, SameMade, SameVia

\* A call moves on in client_call.
LEMMA GotoClient ==
    ASSUME rpc \in [CallId -> RpcRec], NEW id \in CallId, NEW pc \in ClientPC, Goto(id, "client", pc)
    PROVE  /\ rpc' \in [CallId -> RpcRec] /\ CallAt(id, pc, rpc[id].server) /\ rpc'[id].res = rpc[id].res
           /\ ViasRight /\ pc # "none" => ViasRight'
<1>1. rpc' \in [CallId -> RpcRec] /\ CallAt(id, pc, rpc[id].server) /\ rpc'[id].res = rpc[id].res
  BY DEF Goto, RpcRec, CallAt, CallsBut, SameMade, SameAnswer
<1>2. SameVia(id)
  BY DEF Goto, RpcRec, SameVia
<1> QED
  BY <1>1, <1>2, ViaStays DEF CallAt

\* A call moves on in handleCall.
LEMMA GotoServer ==
    ASSUME rpc \in [CallId -> RpcRec], NEW id \in CallId, NEW pc \in ServerPC, Goto(id, "server", pc)
    PROVE  /\ rpc' \in [CallId -> RpcRec] /\ CallAt(id, rpc[id].client, pc) /\ rpc'[id].res = rpc[id].res
           /\ ViasRight /\ (pc \in Inside => rpc[id].server \in Inside) => ViasRight'
<1>1. rpc' \in [CallId -> RpcRec] /\ CallAt(id, rpc[id].client, pc) /\ rpc'[id].res = rpc[id].res
  BY DEF Goto, RpcRec, CallAt, CallsBut, SameMade, SameAnswer
<1>2. SameVia(id)
  BY DEF Goto, RpcRec, SameVia
<1> QED
  BY <1>1, <1>2, ViaStays DEF CallAt

\* A thread counts one registration more.
LEMMA CountUpDoes ==
    ASSUME thread \in [Thread -> ThreadRec], NEW t \in Thread, thread' = CountUp(t)
    PROVE  /\ thread' \in [Thread -> ThreadRec]
           /\ ThreadsBut(t) /\ SameBox(t) /\ SameRun(t)
           /\ thread'[t].recursion_count = thread[t].recursion_count + 1
           /\ thread'[t].original_tid = thread[t].original_tid
<1>1. PICK n \in Nat : n = thread[t].recursion_count + 1
  BY DEF ThreadRec
<1>2. thread' = [thread EXCEPT ![t].recursion_count = n]
  BY <1>1 DEF CountUp
<1>3. thread' \in [Thread -> ThreadRec]
  BY <1>2 DEF ThreadRec
<1>4. /\ ThreadsBut(t) /\ SameBox(t) /\ SameRun(t)
      /\ thread'[t].recursion_count = n
      /\ thread'[t].original_tid = thread[t].original_tid
  BY <1>2 DEF ThreadRec, ThreadsBut, SameBox, SameRun
<1> QED
  BY <1>1, <1>3, <1>4

\* A call that moves on, with nothing else, is typed and calm still.
LEMMA CallMovesOn ==
    ASSUME TypeOK, Calm, NEW id \in CallId, rpc' \in [CallId -> RpcRec], CallsBut(id),
           rpc'[id].client \notin {"unsent", "leaked"}, rpc'[id].server \notin {"thrown", "emit"},
           ViasRight', UNCHANGED <<waiting_threads, free_workers, nworkers, thread, conn, wire, aborted>>
    PROVE  TypeOK' /\ Calm'
<1>1. TypeOK'
  BY DEF TypeOK
<1>2. Calm'
  BY DEF Calm, CallsBut
<1> QED
  BY <1>1, <1>2

-----------------------------------------------------------------------------
(* client_call.                                                            *)

\* acquireWaitingThread: the call is to be added, or counts for who is found.
LEMMA AcquireDoes ==
    ASSUME TypeOK, Calm, NEW t \in Thread, NEW id \in CallId, Acquire(t, id)
    PROVE  LET w == findWaitingThread(Process(t), rpc[id].tid) IN
           /\ OnTop(t, <<"client_call", id>>) /\ rpc[id].client = "acquire"
           /\ UNCHANGED <<waiting_threads, free_workers, nworkers, conn, wire, aborted>>
           /\ w = None => CallAt(id, "add", rpc[id].server) /\ UNCHANGED thread /\ TypeOK' /\ Calm'
           /\ w # None => CallAt(id, "send", rpc[id].server) /\ thread' = CountUp(w)
                          /\ rpc' \in [CallId -> RpcRec] /\ ViasRight'
<1> DEFINE w == findWaitingThread(Process(t), rpc[id].tid)
<1>1. /\ OnTop(t, <<"client_call", id>>) /\ rpc[id].client = "acquire"
      /\ UNCHANGED <<waiting_threads, free_workers, nworkers, conn, wire, aborted>>
  BY TopFrame DEF Acquire
<1>2. rpc \in [CallId -> RpcRec]
  BY DEF TypeOK
<1>3. CASE w = None
  <2>1. Goto(id, "client", "add") /\ UNCHANGED thread
    BY <1>3 DEF Acquire
  <2>2. CallAt(id, "add", rpc[id].server) /\ rpc' \in [CallId -> RpcRec] /\ ViasRight'
    BY <1>2, <2>1, GotoClient DEF ClientPC, Calm
  <2>3. rpc[id].server \notin {"thrown", "emit"}
    BY DEF Calm
  <2>4. TypeOK' /\ Calm'
    BY <1>1, <2>1, <2>2, <2>3, CallMovesOn DEF CallAt
  <2> QED
    BY <1>1, <1>3, <2>1, <2>2, <2>4
<1>4. CASE w # None
  <2>1. Goto(id, "client", "send") /\ thread' = CountUp(w)
    BY <1>4 DEF Acquire
  <2>2. CallAt(id, "send", rpc[id].server) /\ rpc' \in [CallId -> RpcRec] /\ ViasRight'
    BY <1>2, <2>1, GotoClient DEF ClientPC, Calm
  <2> QED
    BY <1>1, <1>4, <2>1, <2>2
<1> QED
  BY <1>3, <1>4

\* addWaitingThread: the caller is the last of the list.
LEMMA RegisterDoes ==
    ASSUME TypeOK, Calm, NEW t \in Thread, NEW id \in CallId, Process(t) \in Proc, Register(t, id)
    PROVE  /\ OnTop(t, <<"client_call", id>>) /\ rpc[id].client = "add"
           /\ UNCHANGED <<free_workers, nworkers, thread, conn, wire, aborted>>
           /\ CallAt(id, "count", rpc[id].server)
           /\ waiting_threads'[Process(t)] = Append(waiting_threads[Process(t)], t)
           /\ \A p \in Proc \ {Process(t)} : waiting_threads'[p] = waiting_threads[p]
           /\ TypeOK' /\ Calm'
<1>1. /\ OnTop(t, <<"client_call", id>>) /\ rpc[id].client = "add"
      /\ UNCHANGED <<free_workers, nworkers, thread, conn, wire, aborted>>
  BY TopFrame DEF Register
<1>2. CallAt(id, "count", rpc[id].server) /\ rpc' \in [CallId -> RpcRec] /\ ViasRight'
  <2>1. rpc \in [CallId -> RpcRec]
    BY DEF TypeOK
  <2> QED
    BY <2>1, GotoClient DEF Register, ClientPC, Calm
<1>3. /\ waiting_threads' \in [Proc -> Seq(Thread)]
      /\ waiting_threads'[Process(t)] = Append(waiting_threads[Process(t)], t)
      /\ \A p \in Proc \ {Process(t)} : waiting_threads'[p] = waiting_threads[p]
  <2>1. waiting_threads \in [Proc -> Seq(Thread)]
    BY DEF TypeOK
  <2>2. Append(waiting_threads[Process(t)], t) \in Seq(Thread)
    BY <2>1
  <2> QED
    BY <2>1, <2>2 DEF Register
<1>4. TypeOK'
  BY <1>1, <1>2, <1>3 DEF TypeOK
<1>5. Calm'
  BY <1>1, <1>2 DEF Calm, CallAt, CallsBut
<1> QED
  BY <1>1, <1>2, <1>3, <1>4, <1>5

\* recursion_count=1.
LEMMA CountFirstDoes ==
    ASSUME TypeOK, Calm, NEW t \in Thread, NEW id \in CallId, CountFirst(t, id)
    PROVE  /\ OnTop(t, <<"client_call", id>>) /\ rpc[id].client = "count"
           /\ UNCHANGED <<waiting_threads, free_workers, nworkers, conn, wire, aborted>>
           /\ CallAt(id, "send", rpc[id].server)
           /\ ThreadsBut(t) /\ SameBox(t) /\ SameRun(t)
           /\ thread'[t].recursion_count = 1
           /\ thread'[t].original_tid = thread[t].original_tid
           /\ TypeOK' /\ Calm'
<1>1. /\ OnTop(t, <<"client_call", id>>) /\ rpc[id].client = "count"
      /\ UNCHANGED <<waiting_threads, free_workers, nworkers, conn, wire, aborted>>
  BY TopFrame DEF CountFirst
<1>2. CallAt(id, "send", rpc[id].server) /\ rpc' \in [CallId -> RpcRec] /\ ViasRight'
  <2>1. rpc \in [CallId -> RpcRec]
    BY DEF TypeOK
  <2> QED
    BY <2>1, GotoClient DEF CountFirst, ClientPC, Calm
<1>3. /\ thread' \in [Thread -> ThreadRec]
      /\ ThreadsBut(t) /\ SameBox(t) /\ SameRun(t)
      /\ thread'[t].recursion_count = 1
      /\ thread'[t].original_tid = thread[t].original_tid
  <2>1. thread \in [Thread -> ThreadRec]
    BY DEF TypeOK
  <2> QED
    BY <2>1 DEF CountFirst, ThreadRec, ThreadsBut, SameBox, SameRun
<1>4. TypeOK'
  BY <1>1, <1>2, <1>3 DEF TypeOK
<1>5. Calm'
  BY <1>1, <1>2 DEF Calm, CallAt, CallsBut
<1> QED
  BY <1>1, <1>2, <1>3, <1>4, <1>5

\* A call is about to be sent, as no connection is closed.
LEMMA SendDoes ==
    ASSUME TypeOK, Calm, NEW t \in Thread, NEW id \in CallId, rpc[id].conn \in Conn, Send(t, id)
    PROVE  /\ OnTop(t, <<"client_call", id>>) /\ rpc[id].client = "send"
           /\ UNCHANGED <<waiting_threads, free_workers, nworkers, thread, conn, wire, aborted>>
           /\ CallAt(id, "sending", rpc[id].server)
           /\ TypeOK' /\ Calm'
<1>1. /\ OnTop(t, <<"client_call", id>>) /\ rpc[id].client = "send"
      /\ UNCHANGED <<waiting_threads, free_workers, nworkers, thread, conn, wire, aborted>>
  BY TopFrame DEF Send
<1>2. CallAt(id, "sending", rpc[id].server) /\ rpc' \in [CallId -> RpcRec] /\ ViasRight'
  <2>1. rpc \in [CallId -> RpcRec]
    BY DEF TypeOK
  <2>2. Goto(id, "client", "sending")
    BY DEF Send, Calm
  <2> QED
    BY <2>1, <2>2, GotoClient DEF ClientPC, Calm
<1>3. rpc[id].server \notin {"thrown", "emit"}
  BY DEF Calm
<1>4. TypeOK' /\ Calm'
  BY <1>1, <1>2, <1>3, CallMovesOn DEF CallAt
<1> QED
  BY <1>1, <1>2, <1>4

\* A call is sent, and waited for.
LEMMA WriteDoes ==
    ASSUME TypeOK, Calm, NEW t \in Thread, NEW id \in CallId,
           rpc[id].conn \in Conn, rpc[id].tid \in TidValue, Write(t, id)
    PROVE  LET e == rpc[id].conn
               m == [cmd |-> "CmdCall", tid |-> rpc[id].tid, id |-> id]
           IN
           /\ OnTop(t, <<"client_call", id>>) /\ rpc[id].client = "sending"
           /\ UNCHANGED <<waiting_threads, free_workers, nworkers, conn, aborted>>
           /\ CallAt(id, "wait", rpc[id].server)
           /\ ThreadsBut(t) /\ SameId(t) /\ SameBox(t)
           /\ thread'[t].used_connection = e /\ thread'[t].stack = thread[t].stack
           /\ m \in Msg
           /\ wire'[Peer[e]].queue = Append(wire[Peer[e]].queue, m)
           /\ \A f \in Conn \ {Peer[e]} : wire'[f].queue = wire[f].queue
           /\ TypeOK' /\ Calm'
<1> DEFINE e == rpc[id].conn
           m == [cmd |-> "CmdCall", tid |-> rpc[id].tid, id |-> id]
           q == Append(wire[Peer[e]].queue, m)
<1>1. /\ OnTop(t, <<"client_call", id>>) /\ rpc[id].client = "sending"
      /\ UNCHANGED <<waiting_threads, free_workers, nworkers, aborted>>
  BY TopFrame DEF Write
<1>2. wire[e].writable
  BY DEF Calm
<1>3. /\ wire' = [wire EXCEPT ![Peer[e]].queue = q]
      /\ thread' = [thread EXCEPT ![t].used_connection = e]
      /\ Goto(id, "client", "wait")
      /\ UNCHANGED conn
  BY <1>2 DEF Write
<1>4. CallAt(id, "wait", rpc[id].server) /\ rpc' \in [CallId -> RpcRec] /\ ViasRight'
  <2>1. rpc \in [CallId -> RpcRec]
    BY DEF TypeOK
  <2> QED
    BY <1>3, <2>1, GotoClient DEF ClientPC, Calm
<1>5. /\ thread' \in [Thread -> ThreadRec]
      /\ ThreadsBut(t) /\ SameId(t) /\ SameBox(t)
      /\ thread'[t].used_connection = e /\ thread'[t].stack = thread[t].stack
  <2>1. thread \in [Thread -> ThreadRec]
    BY DEF TypeOK
  <2> QED
    BY <1>3, <2>1 DEF ThreadRec, ThreadsBut, SameBox, SameId
<1>6. m \in Msg
  BY DEF Msg
<1>7. /\ wire' \in [Conn -> WireRec]
      /\ wire'[Peer[e]].queue = q
      /\ \A f \in Conn \ {Peer[e]} : wire'[f].queue = wire[f].queue
      /\ \A f \in Conn : wire'[f].readable = wire[f].readable /\ wire'[f].writable = wire[f].writable
  <2>1. wire \in [Conn -> WireRec] /\ Peer[e] \in Conn
    BY TopologyAssumption DEF TypeOK
  <2>2. wire[Peer[e]].queue \in Seq(Msg)
    BY <2>1 DEF WireRec
  <2>3. q \in Seq(Msg)
    BY <1>6, <2>2
  <2> HIDE DEF q, m, e
  <2> QED
    BY <1>3, <2>1, <2>3 DEF WireRec
<1>8. TypeOK'
  BY <1>1, <1>3, <1>4, <1>5, <1>7 DEF TypeOK
<1>9. Calm'
  <2>1. \A f \in Conn : wire'[f].readable /\ wire'[f].writable
    BY <1>7 DEF Calm
  <2>2. \A k \in CallId : /\ rpc'[k].client \notin {"unsent", "leaked"}
                          /\ rpc'[k].server \notin {"thrown", "emit"}
    BY <1>4 DEF Calm, CallAt, CallsBut
  <2> QED
    BY <1>1, <1>3, <1>4, <2>1, <2>2 DEF Calm
<1> QED
  BY <1>1, <1>3, <1>4, <1>5, <1>6, <1>7, <1>8, <1>9

\* A waiting thread takes a return.
LEMMA TakeReturnDoes ==
    ASSUME TypeOK, Calm, NEW t \in Thread, NEW id \in CallId, thread[t].wakeup_data \in Msg, TakeReturn(t, id)
    PROVE  /\ OnTop(t, <<"client_call", id>>) /\ rpc[id].client = "wait"
           /\ thread[t].wakeup > 0 /\ thread[t].wakeup_data.cmd = "CmdReturn"
           /\ UNCHANGED <<waiting_threads, free_workers, nworkers, conn, wire, aborted>>
           /\ ThreadsBut(t) /\ SameId(t) /\ SameRun(t)
           /\ thread'[t].wakeup = thread[t].wakeup - 1
           /\ CallsBut(id) /\ SameMade(id)
           /\ rpc'[id].client = "return" /\ rpc'[id].server = rpc[id].server
           /\ rpc'[id].rtid = rpc[id].rtid /\ rpc'[id].served = rpc[id].served
           /\ rpc'[id].reply = thread[t].wakeup_data.id
           /\ TypeOK' /\ Calm'
<1>1. /\ OnTop(t, <<"client_call", id>>) /\ rpc[id].client = "wait"
      /\ thread[t].wakeup > 0 /\ thread[t].wakeup_data.cmd = "CmdReturn"
      /\ UNCHANGED <<waiting_threads, free_workers, nworkers, conn, wire, aborted>>
  BY TopFrame DEF TakeReturn
<1>2. thread[t].wakeup_data.id \in CallId
  BY DEF Msg
<1>3. /\ rpc' \in [CallId -> RpcRec]
      /\ CallsBut(id) /\ SameMade(id)
      /\ rpc'[id].client = "return" /\ rpc'[id].server = rpc[id].server
      /\ rpc'[id].rtid = rpc[id].rtid /\ rpc'[id].served = rpc[id].served
      /\ rpc'[id].reply = thread[t].wakeup_data.id
      /\ SameVia(id)
  <2>1. rpc \in [CallId -> RpcRec]
    BY DEF TypeOK
  <2>2. PICK r \in CallId : r = thread[t].wakeup_data.id
    BY <1>2
  <2>3. rpc' = [rpc EXCEPT ![id].client = "return", ![id].res = "Success", ![id].reply = r]
    BY <2>2 DEF TakeReturn
  <2>4. rpc[id] \in RpcRec
    BY <2>1
  <2>5. /\ rpc' = [rpc EXCEPT ![id] = [rpc[id] EXCEPT !.client = "return", !.res = "Success", !.reply = r]]
    BY <2>3
  <2>6. [rpc[id] EXCEPT !.client = "return", !.res = "Success", !.reply = r] \in RpcRec
    BY <2>2, <2>4 DEF RpcRec, ClientPC, Result
  <2> QED
    BY <2>1, <2>2, <2>4, <2>5, <2>6 DEF RpcRec, CallsBut, SameMade, SameVia
<1>4. /\ thread' \in [Thread -> ThreadRec]
      /\ ThreadsBut(t) /\ SameId(t) /\ SameRun(t)
      /\ thread'[t].wakeup = thread[t].wakeup - 1
  <2>1. thread \in [Thread -> ThreadRec] /\ thread[t].wakeup \in Nat \ {0}
    BY <1>1 DEF TypeOK, ThreadRec
  <2>2. PICK n \in Nat : n = thread[t].wakeup - 1
    BY <2>1
  <2>3. thread' = [thread EXCEPT ![t].wakeup = n]
    BY <2>2 DEF TakeReturn
  <2> QED
    BY <2>1, <2>2, <2>3 DEF ThreadRec, ThreadsBut, SameRun, SameId
<1>5. TypeOK'
  BY <1>1, <1>3, <1>4 DEF TypeOK
<1>6. Calm'
  <2>1. ViasRight'
    BY <1>3, ViaStays DEF Calm
  <2> QED
    BY <1>1, <1>3, <2>1 DEF Calm, CallsBut
<1> QED
  BY <1>1, <1>3, <1>4, <1>5, <1>6

-----------------------------------------------------------------------------
(* The registry.                                                           *)

\* Every thread is in a process.
LEMMA Processes == \A t \in Thread : Process(t) \in Proc /\ t # None
<1>1. \A c \in Client : Home[c] \in Proc
  BY ThreadAssumption
<1>2. \A w \in Worker : w[1] \in Proc
  BY DEF Worker
<1> QED
  BY <1>1, <1>2, NoneAssumption DEF Process, Thread

\* A thread is found where one is registered under the thread id, and only there.
LEMMA FindFacts ==
    ASSUME TypeOK, NEW p \in Proc, NEW tid
    PROVE  LET w == findWaitingThread(p, tid)
               k == Min(Places(p, tid))
           IN  IF \A t \in Waiting(p) : thread[t].original_tid # tid
               THEN w = None
               ELSE /\ k \in 1..Len(waiting_threads[p]) /\ waiting_threads[p][k] = w
                    /\ w \in Thread /\ w # None /\ w \in Waiting(p)
                    /\ thread[w].original_tid = tid
<1> DEFINE w == findWaitingThread(p, tid)
           k == Min(Places(p, tid))
<1>1. waiting_threads[p] \in Seq(Thread)
  BY DEF TypeOK
<1>2. PICK n \in Nat : n = Len(waiting_threads[p]) /\ DOMAIN waiting_threads[p] = 1..n
  BY <1>1
<1>3. \A i \in 1..n : waiting_threads[p][i] \in Thread
  BY <1>1, <1>2
<1>4. Places(p, tid) = {i \in 1..n : thread[waiting_threads[p][i]].original_tid = tid}
  BY <1>2 DEF Places
<1>5. Waiting(p) = {waiting_threads[p][i] : i \in 1..n}
  BY <1>2 DEF Waiting
<1>6. CASE \A t \in Waiting(p) : thread[t].original_tid # tid
  <2>1. Places(p, tid) = {}
    BY <1>4, <1>5, <1>6
  <2> QED
    BY <1>6, <2>1 DEF findWaitingThread
<1>7. CASE ~(\A t \in Waiting(p) : thread[t].original_tid # tid)
  <2>1. Places(p, tid) # {}
    BY <1>4, <1>5, <1>7
  <2>2. Places(p, tid) \in SUBSET Nat
    BY <1>4
  <2>3. k \in Places(p, tid)
    BY <2>1, <2>2, LeastFacts
  <2>4. w = waiting_threads[p][k]
    BY <2>1 DEF findWaitingThread
  <2> HIDE DEF k, w
  <2>5. k \in 1..n /\ thread[w].original_tid = tid
    BY <1>4, <2>3, <2>4
  <2>6. w \in Thread /\ w # None /\ w \in Waiting(p)
    BY <1>3, <1>5, <2>4, <2>5, Processes
  <2> QED
    BY <1>2, <1>7, <2>4, <2>5, <2>6 DEF k, w
<1> QED
  BY <1>6, <1>7

\* Thread t is unregistered once: with its last registration it leaves the
\* list, and a worker is free.
Unregistered(t) ==
    LET p == Process(t) IN
    IF thread[t].recursion_count = 1
    THEN /\ \E k \in 1..Len(waiting_threads[p]) :
              /\ waiting_threads[p][k] = t
              /\ waiting_threads'[p] = RemoveAt(waiting_threads[p], k)
         /\ \A q \in Proc \ {p} : waiting_threads'[q] = waiting_threads[q]
         /\ IF t \in Worker
            THEN /\ free_workers'[p] = Append(free_workers[p], t)
                 /\ \A q \in Proc \ {p} : free_workers'[q] = free_workers[q]
            ELSE free_workers' = free_workers
    ELSE waiting_threads' = waiting_threads /\ free_workers' = free_workers

\* What releaseWaitingThread does to the lists, when it finds t.
LEMMA UnregisterDoes ==
    ASSUME TypeOK, NEW t \in Thread, NEW tid, findWaitingThread(Process(t), tid) = t,
           Unregister(Process(t), tid)
    PROVE  /\ Unregistered(t)
           /\ waiting_threads' \in [Proc -> Seq(Thread)] /\ free_workers' \in [Proc -> Seq(Worker)]
<1>1. PICK p \in Proc : p = Process(t)
  BY Processes
<1>2. PICK k : k = Min(Places(p, tid))
  OBVIOUS
<1>3. t # None
  BY Processes
<1>4. k \in 1..Len(waiting_threads[p]) /\ waiting_threads[p][k] = t
  BY <1>1, <1>2, <1>3, FindFacts
<1>5. waiting_threads \in [Proc -> Seq(Thread)] /\ free_workers \in [Proc -> Seq(Worker)]
  BY DEF TypeOK
<1>6. CASE thread[t].recursion_count = 1
  <2>1. waiting_threads' = [waiting_threads EXCEPT ![p] = RemoveAt(waiting_threads[p], k)]
    BY <1>1, <1>2, <1>3, <1>6 DEF Unregister
  <2>2. RemoveAt(waiting_threads[p], k) \in Seq(Thread)
    BY <1>4, <1>5, RemoveFacts
  <2>3. /\ waiting_threads' \in [Proc -> Seq(Thread)]
        /\ waiting_threads'[p] = RemoveAt(waiting_threads[p], k)
        /\ \A q \in Proc \ {p} : waiting_threads'[q] = waiting_threads[q]
    BY <1>5, <2>1, <2>2
  <2>4. CASE t \in Worker
    <3>1. free_workers' = [free_workers EXCEPT ![p] = Append(free_workers[p], t)]
      BY <1>1, <1>3, <1>6, <2>4 DEF Unregister
    <3>2. Append(free_workers[p], t) \in Seq(Worker)
      BY <1>5, <2>4, AppendFacts
    <3>3. /\ free_workers' \in [Proc -> Seq(Worker)]
          /\ free_workers'[p] = Append(free_workers[p], t)
          /\ \A q \in Proc \ {p} : free_workers'[q] = free_workers[q]
      BY <1>5, <3>1, <3>2
    <3> QED
      BY <1>1, <1>4, <1>6, <2>3, <2>4, <3>3 DEF Unregistered
  <2>5. CASE t \notin Worker
    <3>1. free_workers' = free_workers
      BY <1>1, <1>3, <1>6, <2>5 DEF Unregister
    <3> QED
      BY <1>1, <1>4, <1>5, <1>6, <2>3, <2>5, <3>1 DEF Unregistered
  <2> QED
    BY <2>4, <2>5
<1>7. CASE thread[t].recursion_count # 1
  <2>1. waiting_threads' = waiting_threads /\ free_workers' = free_workers
    BY <1>7 DEF Unregister
  <2> QED
    BY <1>5, <1>7, <2>1 DEF Unregistered
<1> QED
  BY <1>6, <1>7

\* A thread counts one registration less.
LEMMA CountDownDoes ==
    ASSUME thread \in [Thread -> ThreadRec], NEW t \in Thread, thread[t].recursion_count >= 1
    PROVE  /\ CountDown(t) \in [Thread -> ThreadRec]
           /\ \A u \in Thread \ {t} : CountDown(t)[u] = thread[u]
           /\ CountDown(t)[t] = [thread[t] EXCEPT !.recursion_count = thread[t].recursion_count - 1]
           /\ thread[t].recursion_count - 1 \in Nat
<1>1. PICK n \in Nat : n = thread[t].recursion_count - 1
  BY DEF ThreadRec
<1>2. CountDown(t) = [thread EXCEPT ![t].recursion_count = n]
  BY <1>1 DEF CountDown
<1>3. CountDown(t) \in [Thread -> ThreadRec]
  BY <1>2 DEF ThreadRec
<1>4. /\ \A u \in Thread \ {t} : CountDown(t)[u] = thread[u]
      /\ CountDown(t)[t] = [thread[t] EXCEPT !.recursion_count = n]
  BY <1>2 DEF ThreadRec
<1> QED
  BY <1>1, <1>3, <1>4

\* client_call returns: the call is unregistered and its connection released.
LEMMA ReturnDoes ==
    ASSUME TypeOK, Calm, NEW t \in Thread, NEW id \in CallId,
           findWaitingThread(Process(t), rpc[id].tid) = t, thread[t].recursion_count >= 1,
           rpc[id].conn \in Conn, conn[rpc[id].conn].ref_cnt >= 1,
           Return(t, id)
    PROVE  LET e == rpc[id].conn IN
           /\ OnTop(t, <<"client_call", id>>) /\ rpc[id].client = "return"
           /\ Unregistered(t)
           /\ UNCHANGED <<nworkers, wire, aborted>>
           /\ ThreadsBut(t) /\ SameBox(t)
           /\ thread'[t].recursion_count = thread[t].recursion_count - 1
           /\ thread'[t].original_tid = thread[t].original_tid
           /\ thread'[t].used_connection = rpc[id].used
           /\ thread'[t].stack = Front(thread[t].stack)
           /\ CallAt(id, "done", rpc[id].server)
           /\ ConnsBut(e) /\ SameReader(e)
           /\ conn'[e].ref_cnt = conn[e].ref_cnt - 1
           /\ conn'[e].incoming_calls_cnt = conn[e].incoming_calls_cnt
           /\ TypeOK' /\ Calm'
<1> DEFINE e == rpc[id].conn
<1>1. /\ OnTop(t, <<"client_call", id>>) /\ rpc[id].client = "return"
      /\ UNCHANGED <<nworkers, wire, aborted>>
      /\ Goto(id, "client", "done")
      /\ thread[t].stack # <<>>
  BY TopFrame DEF Return, Calling
<1>2. /\ Unregistered(t)
      /\ waiting_threads' \in [Proc -> Seq(Thread)] /\ free_workers' \in [Proc -> Seq(Worker)]
  <2>1. Unregister(Process(t), rpc[id].tid)
    BY DEF Return
  <2> QED
    BY <2>1, UnregisterDoes
<1>3. rpc' \in [CallId -> RpcRec] /\ CallAt(id, "done", rpc[id].server) /\ ViasRight'
  <2>1. rpc \in [CallId -> RpcRec]
    BY DEF TypeOK
  <2> QED
    BY <1>1, <2>1, GotoClient DEF ClientPC, Calm
<1>4. /\ thread' \in [Thread -> ThreadRec]
      /\ ThreadsBut(t) /\ SameBox(t)
      /\ thread'[t].recursion_count = thread[t].recursion_count - 1
      /\ thread'[t].original_tid = thread[t].original_tid
      /\ thread'[t].used_connection = rpc[id].used
      /\ thread'[t].stack = Front(thread[t].stack)
  <2>1. thread \in [Thread -> ThreadRec] /\ rpc[id].used \in Conn \cup {None}
    BY DEF TypeOK, RpcRec
  <2>2. t # None
    BY Processes
  <2>3. releaseWaitingThread(Process(t), rpc[id].tid) = CountDown(t)
    BY <2>2 DEF releaseWaitingThread
  <2>4. PICK n \in Nat : n = thread[t].recursion_count - 1
    BY <2>1, CountDownDoes
  <2>5. PICK released \in [Thread -> ThreadRec] :
          /\ released = CountDown(t)
          /\ \A u \in Thread \ {t} : released[u] = thread[u]
          /\ released[t] = [thread[t] EXCEPT !.recursion_count = n]
    BY <2>1, <2>4, CountDownDoes
  <2>6. PICK s \in Seq(Frame) : s = Front(thread[t].stack) /\ s = Front(released[t].stack)
    <3>1. thread[t].stack \in Seq(Frame)
      BY <2>1 DEF ThreadRec
    <3>2. released[t].stack = thread[t].stack
      BY <2>1, <2>5 DEF ThreadRec
    <3> QED
      BY <1>1, <3>1, <3>2, FrontFacts
  <2>7. thread' = [released EXCEPT ![t].stack = s, ![t].used_connection = rpc[id].used]
    BY <2>3, <2>5, <2>6 DEF Return
  <2>8. thread' = [released EXCEPT ![t] = [released[t] EXCEPT !.stack = s, !.used_connection = rpc[id].used]]
    BY <2>7
  <2>9. [released[t] EXCEPT !.stack = s, !.used_connection = rpc[id].used] \in ThreadRec
    <3>1. PICK r \in ThreadRec : r = released[t]
      BY <2>5
    <3> QED
      BY <2>1, <2>6, <3>1 DEF ThreadRec
  <2>10. thread' \in [Thread -> ThreadRec]
    BY <2>5, <2>8, <2>9
  <2>11. /\ \A u \in Thread \ {t} : thread'[u] = thread[u]
         /\ thread'[t] = [[thread[t] EXCEPT !.recursion_count = n]
                              EXCEPT !.stack = s, !.used_connection = rpc[id].used]
    BY <2>5, <2>8
  <2>12. thread[t] \in ThreadRec
    BY <2>1
  <2> QED
    BY <2>4, <2>6, <2>10, <2>11, <2>12 DEF ThreadRec, ThreadsBut, SameBox
<1>5. /\ conn' \in [Conn -> ConnRec]
      /\ ConnsBut(e) /\ SameReader(e)
      /\ conn'[e].ref_cnt = conn[e].ref_cnt - 1
      /\ conn'[e].incoming_calls_cnt = conn[e].incoming_calls_cnt
      /\ conn'[e].state = conn[e].state
  <2>1. conn \in [Conn -> ConnRec] /\ conn[e].ref_cnt \in Nat
    BY DEF TypeOK, ConnRec
  <2>2. PICK n \in Nat : n = conn[e].ref_cnt - 1
    BY <2>1
  <2>3. conn' = [conn EXCEPT ![e].ref_cnt = n]
    BY <2>2 DEF Return
  <2>4. conn' \in [Conn -> ConnRec]
    BY <2>1, <2>3 DEF ConnRec
  <2> QED
    BY <2>1, <2>2, <2>3, <2>4, SMTT(30) DEF ConnRec, ConnsBut, SameReader
<1>6. TypeOK'
  BY <1>1, <1>2, <1>3, <1>4, <1>5 DEF TypeOK
<1>7. Calm'
  BY <1>1, <1>3, <1>5 DEF Calm, CallAt, CallsBut, ConnsBut, SameReader
<1> QED
  BY <1>1, <1>2, <1>3, <1>4, <1>5, <1>6, <1>7

-----------------------------------------------------------------------------
(* handleCall.                                                             *)

\* A handler comes to its end, and nothing but Success is returned.
LEMMA EndHandlerDoes ==
    ASSUME TypeOK, Calm, NothingFails, NEW t \in Thread, NEW id \in CallId, EndHandler(t, id)
    PROVE  /\ OnTop(t, <<"handleCall", id>>) /\ rpc[id].server = "running"
           /\ UNCHANGED <<waiting_threads, free_workers, nworkers, thread, conn, wire, aborted>>
           /\ CallsBut(id) /\ SameMade(id)
           /\ rpc'[id].client = rpc[id].client /\ rpc'[id].server = "release"
           /\ rpc'[id].reply = rpc[id].reply /\ rpc'[id].served = "Success"
           /\ TypeOK' /\ Calm'
<1>1. /\ OnTop(t, <<"handleCall", id>>) /\ rpc[id].server = "running"
      /\ UNCHANGED <<waiting_threads, free_workers, nworkers, thread, conn, wire, aborted>>
  BY TopFrame DEF EndHandler
<1>2. /\ rpc' \in [CallId -> RpcRec]
      /\ CallsBut(id) /\ SameMade(id)
      /\ rpc'[id].client = rpc[id].client /\ rpc'[id].server = "release"
      /\ rpc'[id].reply = rpc[id].reply /\ rpc'[id].served = "Success"
      /\ SameVia(id)
  <2>1. rpc \in [CallId -> RpcRec]
    BY DEF TypeOK
  <2>2. rpc' = [rpc EXCEPT ![id].served = "Success", ![id].server = "release"]
    BY DEF EndHandler, NothingFails
  <2>3. PICK r \in RpcRec : r = rpc[id]
    BY <2>1
  <2>4. rpc' = [rpc EXCEPT ![id] = [r EXCEPT !.served = "Success", !.server = "release"]]
    BY <2>2, <2>3
  <2>5. [r EXCEPT !.served = "Success", !.server = "release"] \in RpcRec
    BY DEF RpcRec, ServerPC, Result
  <2> QED
    BY <2>1, <2>3, <2>4, <2>5 DEF RpcRec, CallsBut, SameMade, SameVia
<1>3. rpc[id].client \notin {"unsent", "leaked"}
  BY DEF Calm
<1>4. ViasRight'
  BY <1>1, <1>2, ViaStays DEF Calm, Inside
<1>5. TypeOK' /\ Calm'
  BY <1>1, <1>2, <1>3, <1>4, CallMovesOn
<1> QED
  BY <1>1, <1>2, <1>5

\* The thread that served a call is unregistered before the return.
LEMMA ReleaseDoes ==
    ASSUME TypeOK, Calm, NEW t \in Thread, NEW id \in CallId,
           findWaitingThread(Process(t), thread[t].original_tid) = t,
           thread[t].recursion_count >= 1, Release(t, id)
    PROVE  /\ OnTop(t, <<"handleCall", id>>) /\ rpc[id].server = "release"
           /\ Unregistered(t)
           /\ UNCHANGED <<nworkers, conn, wire, aborted>>
           /\ ThreadsBut(t) /\ SameBox(t) /\ SameRun(t)
           /\ thread'[t].recursion_count = thread[t].recursion_count - 1
           /\ thread'[t].original_tid = thread[t].original_tid
           /\ CallsBut(id) /\ SameMade(id)
           /\ rpc'[id].client = rpc[id].client /\ rpc'[id].server = "reply"
           /\ rpc'[id].reply = rpc[id].reply /\ rpc'[id].served = rpc[id].served
           /\ rpc'[id].rtid = thread[t].original_tid
           /\ TypeOK' /\ Calm'
<1>1. /\ OnTop(t, <<"handleCall", id>>) /\ rpc[id].server = "release"
      /\ UNCHANGED <<nworkers, conn, wire, aborted>>
  BY TopFrame DEF Release
<1>2. /\ Unregistered(t)
      /\ waiting_threads' \in [Proc -> Seq(Thread)] /\ free_workers' \in [Proc -> Seq(Worker)]
  <2>1. Unregister(Process(t), thread[t].original_tid)
    BY DEF Release
  <2> QED
    BY <2>1, UnregisterDoes
<1>3. /\ rpc' \in [CallId -> RpcRec]
      /\ CallsBut(id) /\ SameMade(id)
      /\ rpc'[id].client = rpc[id].client /\ rpc'[id].server = "reply"
      /\ rpc'[id].reply = rpc[id].reply /\ rpc'[id].served = rpc[id].served
      /\ rpc'[id].rtid = thread[t].original_tid
      /\ SameVia(id)
  <2>1. rpc \in [CallId -> RpcRec]
    BY DEF TypeOK
  <2>2. PICK tid \in TidValue \cup {None} : tid = thread[t].original_tid
    BY DEF TypeOK, ThreadRec
  <2>3. PICK r \in RpcRec : r = rpc[id]
    BY <2>1
  <2>4. rpc' = [rpc EXCEPT ![id] = [r EXCEPT !.server = "reply", !.rtid = tid]]
    BY <2>2, <2>3 DEF Release
  <2>5. [r EXCEPT !.server = "reply", !.rtid = tid] \in RpcRec
    BY DEF RpcRec, ServerPC
  <2> QED
    BY <2>1, <2>2, <2>3, <2>4, <2>5 DEF RpcRec, CallsBut, SameMade, SameVia
<1>4. /\ thread' \in [Thread -> ThreadRec]
      /\ ThreadsBut(t) /\ SameBox(t) /\ SameRun(t)
      /\ thread'[t].recursion_count = thread[t].recursion_count - 1
      /\ thread'[t].original_tid = thread[t].original_tid
  <2>1. thread \in [Thread -> ThreadRec]
    BY DEF TypeOK
  <2>2. t # None
    BY Processes
  <2>3. thread' = CountDown(t)
    BY <2>2 DEF Release, releaseWaitingThread
  <2>4. PICK n \in Nat : n = thread[t].recursion_count - 1
    BY <2>1, CountDownDoes
  <2>5. /\ thread' \in [Thread -> ThreadRec]
        /\ \A u \in Thread \ {t} : thread'[u] = thread[u]
        /\ thread'[t] = [thread[t] EXCEPT !.recursion_count = n]
    BY <2>1, <2>3, <2>4, CountDownDoes
  <2>6. thread[t] \in ThreadRec
    BY <2>1
  <2> QED
    BY <2>4, <2>5, <2>6 DEF ThreadRec, ThreadsBut, SameBox, SameRun
<1>5. TypeOK'
  BY <1>1, <1>2, <1>3, <1>4 DEF TypeOK
<1>6. Calm'
  <2>1. ViasRight'
    BY <1>1, <1>3, ViaStays DEF Calm, Inside
  <2> QED
    BY <1>1, <1>3, <2>1 DEF Calm, CallsBut
<1> QED
  BY <1>1, <1>2, <1>3, <1>4, <1>5, <1>6

\* A call that is served is so in the name of its connection.
LEMMA ServedVia ==
    ASSUME Calm, NEW id \in CallId, rpc[id].server \in Inside
    PROVE  rpc[id].via = ServedAt(id)
BY DEF Calm, ViasRight

\* A return is about to be sent, as no connection is closed.
LEMMA ReplyDoes ==
    ASSUME TypeOK, Calm, NEW t \in Thread, NEW id \in CallId, ServedAt(id) \in Conn, Reply(t, id)
    PROVE  /\ OnTop(t, <<"handleCall", id>>) /\ rpc[id].server = "reply"
           /\ UNCHANGED <<waiting_threads, free_workers, nworkers, thread, conn, wire, aborted>>
           /\ CallAt(id, rpc[id].client, "sending")
           /\ TypeOK' /\ Calm'
<1>1. /\ OnTop(t, <<"handleCall", id>>) /\ rpc[id].server = "reply"
      /\ UNCHANGED <<waiting_threads, free_workers, nworkers, thread, conn, wire, aborted>>
  BY TopFrame DEF Reply
<1>2. CallAt(id, rpc[id].client, "sending") /\ rpc' \in [CallId -> RpcRec] /\ ViasRight'
  <2>1. rpc \in [CallId -> RpcRec]
    BY DEF TypeOK
  <2>2. conn[rpc[id].via].state = "Active"
    BY <1>1, ServedVia DEF Calm, Inside
  <2>3. Goto(id, "server", "sending")
    BY <2>2 DEF Reply, Goto
  <2> QED
    BY <1>1, <2>1, <2>3, GotoServer DEF ServerPC, Calm, Inside
<1>3. rpc[id].client \notin {"unsent", "leaked"}
  BY DEF Calm
<1>4. TypeOK' /\ Calm'
  BY <1>1, <1>2, <1>3, CallMovesOn DEF CallAt
<1> QED
  BY <1>1, <1>2, <1>4

\* A return is sent.
LEMMA WriteReplyDoes ==
    ASSUME TypeOK, Calm, NEW t \in Thread, NEW id \in CallId,
           rpc[id].conn \in Conn, rpc[id].rtid \in TidValue, rpc[id].served = "Success", WriteReply(t, id)
    PROVE  LET m == [cmd |-> "CmdReturn", tid |-> rpc[id].rtid, id |-> id]
               e == rpc[id].conn
           IN
           /\ OnTop(t, <<"handleCall", id>>) /\ rpc[id].server = "sending"
           /\ UNCHANGED <<waiting_threads, free_workers, nworkers, thread, conn, aborted>>
           /\ CallAt(id, rpc[id].client, "callout")
           /\ m \in Msg
           /\ wire'[e].queue = Append(wire[e].queue, m)
           /\ \A f \in Conn \ {e} : wire'[f].queue = wire[f].queue
           /\ TypeOK' /\ Calm'
<1> DEFINE e == rpc[id].conn
           m == [cmd |-> "CmdReturn", tid |-> rpc[id].rtid, id |-> id]
           q == Append(wire[e].queue, m)
<1>1. /\ OnTop(t, <<"handleCall", id>>) /\ rpc[id].server = "sending"
      /\ UNCHANGED <<waiting_threads, free_workers, nworkers, thread, aborted>>
  BY TopFrame DEF WriteReply
<1>2. rpc[id].via \in Conn /\ Peer[rpc[id].via] = e /\ e \in Conn
  <2>1. rpc[id].via = Peer[e]
    BY <1>1, ServedVia DEF ServedAt, Inside
  <2> QED
    BY <2>1, TopologyAssumption
<1>3. /\ wire' = [wire EXCEPT ![e].queue = q]
      /\ Goto(id, "server", "callout")
      /\ UNCHANGED conn
  BY <1>2 DEF WriteReply, Calm, Answer, Answered, Goto
<1>4. CallAt(id, rpc[id].client, "callout") /\ rpc' \in [CallId -> RpcRec] /\ ViasRight'
  <2>1. rpc \in [CallId -> RpcRec]
    BY DEF TypeOK
  <2> QED
    BY <1>1, <1>3, <2>1, GotoServer DEF ServerPC, Calm, Inside
<1>5. m \in Msg
  BY DEF Msg
<1>6. /\ wire' \in [Conn -> WireRec]
      /\ wire'[e].queue = q
      /\ \A f \in Conn \ {e} : wire'[f].queue = wire[f].queue
      /\ \A f \in Conn : wire'[f].readable = wire[f].readable /\ wire'[f].writable = wire[f].writable
  <2>1. wire \in [Conn -> WireRec]
    BY DEF TypeOK
  <2>2. wire[e].queue \in Seq(Msg)
    BY <2>1 DEF WireRec
  <2>3. q \in Seq(Msg)
    BY <1>5, <2>2
  <2> HIDE DEF q, m, e
  <2> QED
    BY <1>2, <1>3, <2>1, <2>3 DEF WireRec
<1>7. TypeOK'
  BY <1>1, <1>3, <1>4, <1>6 DEF TypeOK
<1>8. Calm'
  <2>1. \A f \in Conn : wire'[f].readable /\ wire'[f].writable
    BY <1>6 DEF Calm
  <2>2. \A k \in CallId : /\ rpc'[k].client \notin {"unsent", "leaked"}
                          /\ rpc'[k].server \notin {"thrown", "emit"}
    BY <1>4 DEF Calm, CallAt, CallsBut
  <2> QED
    BY <1>1, <1>3, <1>4, <2>1, <2>2 DEF Calm
<1> QED
  BY <1>1, <1>3, <1>4, <1>5, <1>6, <1>7, <1>8

\* One call less comes in over the connection.
LEMMA CallOutDoes ==
    ASSUME TypeOK, Calm, NEW t \in Thread, NEW id \in CallId, ServedAt(id) \in Conn,
           conn[ServedAt(id)].incoming_calls_cnt >= 1, CallOut(t, id)
    PROVE  LET e == ServedAt(id) IN
           /\ OnTop(t, <<"handleCall", id>>) /\ rpc[id].server = "callout"
           /\ UNCHANGED <<waiting_threads, free_workers, nworkers, thread, wire, aborted>>
           /\ \E pc \in {"cleanup", "leave"} : CallAt(id, rpc[id].client, pc)
           /\ ConnsBut(e) /\ SameReader(e)
           /\ conn'[e].ref_cnt = conn[e].ref_cnt
           /\ conn'[e].incoming_calls_cnt = conn[e].incoming_calls_cnt - 1
           /\ TypeOK' /\ Calm'
<1>1. PICK e \in Conn : e = ServedAt(id)
  OBVIOUS
<1>2. /\ OnTop(t, <<"handleCall", id>>) /\ rpc[id].server = "callout"
      /\ UNCHANGED <<waiting_threads, free_workers, nworkers, thread, wire, aborted>>
  BY TopFrame DEF CallOut
<1>3. PICK pc \in {"cleanup", "leave"} : Goto(id, "server", pc)
  BY DEF CallOut
<1>4. CallAt(id, rpc[id].client, pc) /\ rpc' \in [CallId -> RpcRec] /\ ViasRight'
  <2>1. rpc \in [CallId -> RpcRec]
    BY DEF TypeOK
  <2> QED
    BY <1>2, <1>3, <2>1, GotoServer DEF ServerPC, Calm, Inside
<1>5. /\ conn' \in [Conn -> ConnRec]
      /\ ConnsBut(e) /\ SameReader(e)
      /\ conn'[e].ref_cnt = conn[e].ref_cnt
      /\ conn'[e].incoming_calls_cnt = conn[e].incoming_calls_cnt - 1
      /\ conn'[e].state = conn[e].state
  <2>1. conn \in [Conn -> ConnRec] /\ conn[e].incoming_calls_cnt \in Nat
    BY DEF TypeOK, ConnRec
  <2>2. PICK n \in Nat : n = conn[e].incoming_calls_cnt - 1
    BY <1>1, <2>1
  <2>3. conn' = [conn EXCEPT ![e].incoming_calls_cnt = n]
    BY <1>1, <1>2, <2>2, ServedVia DEF CallOut, Inside
  <2>4. conn' \in [Conn -> ConnRec]
    BY <2>1, <2>3 DEF ConnRec
  <2> QED
    BY <2>1, <2>2, <2>3, <2>4 DEF ConnRec, ConnsBut, SameReader
<1>6. TypeOK'
  BY <1>2, <1>4, <1>5 DEF TypeOK
<1>7. Calm'
  BY <1>2, <1>4, <1>5 DEF Calm, CallAt, CallsBut, ConnsBut, SameReader
<1> QED
  BY <1>1, <1>2, <1>4, <1>5, <1>6, <1>7

\* Nothing is cleaned up, as no connection is closed.
LEMMA CallOutCleanupDoes ==
    ASSUME TypeOK, Calm, NEW t \in Thread, NEW id \in CallId, ServedAt(id) \in Conn, CallOutCleanup(t, id)
    PROVE  /\ OnTop(t, <<"handleCall", id>>) /\ rpc[id].server = "cleanup"
           /\ UNCHANGED <<waiting_threads, free_workers, nworkers, thread, conn, wire, aborted>>
           /\ CallAt(id, rpc[id].client, "leave")
           /\ TypeOK' /\ Calm'
<1>1. /\ OnTop(t, <<"handleCall", id>>) /\ rpc[id].server = "cleanup"
      /\ UNCHANGED <<waiting_threads, free_workers, nworkers, thread, conn, wire, aborted>>
  BY TopFrame DEF CallOutCleanup
<1>2. CallAt(id, rpc[id].client, "leave") /\ rpc' \in [CallId -> RpcRec] /\ ViasRight'
  <2>1. rpc \in [CallId -> RpcRec]
    BY DEF TypeOK
  <2>2. rpc[id].via = ServedAt(id)
    BY <1>1, ServedVia DEF Inside
  <2>3. Goto(id, "server", "leave")
    BY <2>2 DEF CallOutCleanup, MayCleanup, Calm
  <2> QED
    BY <1>1, <2>1, <2>3, GotoServer DEF ServerPC, Calm, Inside
<1>3. rpc[id].client \notin {"unsent", "leaked"}
  BY DEF Calm
<1>4. TypeOK' /\ Calm'
  BY <1>1, <1>2, <1>3, CallMovesOn DEF CallAt
<1> QED
  BY <1>1, <1>2, <1>4

\* handleCall returns: its frame goes, and two references of its connection.
LEMMA LeaveDoes ==
    ASSUME TypeOK, Calm, NEW t \in Thread, NEW id \in CallId, ServedAt(id) \in Conn,
           conn[ServedAt(id)].ref_cnt >= 2, rpc[id].served = "Success", Leave(t, id)
    PROVE  LET e == ServedAt(id) IN
           /\ OnTop(t, <<"handleCall", id>>) /\ rpc[id].server = "leave"
           /\ UNCHANGED <<waiting_threads, free_workers, nworkers, wire, aborted>>
           /\ ThreadsBut(t) /\ SameId(t) /\ SameBox(t)
           /\ thread'[t].used_connection = thread[t].used_connection
           /\ thread'[t].stack = Front(thread[t].stack)
           /\ CallAt(id, rpc[id].client, "done")
           /\ ConnsBut(e) /\ SameReader(e)
           /\ conn'[e].ref_cnt = conn[e].ref_cnt - 2
           /\ conn'[e].incoming_calls_cnt = conn[e].incoming_calls_cnt
           /\ TypeOK' /\ Calm'
<1>1. PICK e \in Conn : e = ServedAt(id)
  OBVIOUS
<1>2. /\ OnTop(t, <<"handleCall", id>>) /\ rpc[id].server = "leave"
      /\ UNCHANGED <<waiting_threads, free_workers, nworkers, wire, aborted>>
      /\ Goto(id, "server", "done")
      /\ thread[t].stack # <<>>
  BY TopFrame DEF Leave, Goto, Serving
<1>3. CallAt(id, rpc[id].client, "done") /\ rpc' \in [CallId -> RpcRec] /\ ViasRight'
  <2>1. rpc \in [CallId -> RpcRec]
    BY DEF TypeOK
  <2> QED
    BY <1>2, <2>1, GotoServer DEF ServerPC, Calm, Inside
<1>4. /\ thread' \in [Thread -> ThreadRec]
      /\ ThreadsBut(t) /\ SameId(t) /\ SameBox(t)
      /\ thread'[t].used_connection = thread[t].used_connection
      /\ thread'[t].stack = Front(thread[t].stack)
  <2>1. thread \in [Thread -> ThreadRec] /\ thread[t].stack \in Seq(Frame)
    BY DEF TypeOK, ThreadRec
  <2>2. PICK s \in Seq(Frame) : s = Front(thread[t].stack)
    BY <1>2, <2>1, FrontFacts
  <2>3. thread' = [thread EXCEPT ![t].stack = s]
    BY <2>2 DEF Leave
  <2> QED
    BY <2>1, <2>2, <2>3 DEF ThreadRec, ThreadsBut, SameId, SameBox
<1>5. /\ conn' \in [Conn -> ConnRec]
      /\ ConnsBut(e) /\ SameReader(e)
      /\ conn'[e].ref_cnt = conn[e].ref_cnt - 2
      /\ conn'[e].incoming_calls_cnt = conn[e].incoming_calls_cnt
      /\ conn'[e].state = conn[e].state
  <2>1. conn \in [Conn -> ConnRec] /\ conn[e].ref_cnt \in Nat
    BY DEF TypeOK, ConnRec
  <2>2. PICK n \in Nat : n = conn[e].ref_cnt - 2
    BY <1>1, <2>1
  <2>3. conn' = [conn EXCEPT ![e].ref_cnt = n]
    BY <1>1, <1>2, <2>2, ServedVia DEF Leave, Inside
  <2>4. conn' \in [Conn -> ConnRec]
    BY <2>1, <2>3 DEF ConnRec
  <2> QED
    BY <2>1, <2>2, <2>3, <2>4 DEF ConnRec, ConnsBut, SameReader
<1>6. TypeOK'
  BY <1>2, <1>3, <1>4, <1>5 DEF TypeOK
<1>7. Calm'
  BY <1>2, <1>3, <1>5 DEF Calm, CallAt, CallsBut, ConnsBut, SameReader
<1> QED
  BY <1>1, <1>2, <1>3, <1>4, <1>5, <1>6, <1>7

-----------------------------------------------------------------------------
(* A call begins, and begins to be served.                                 *)

\* The connection that is chosen for a call is one of the caller's process.
LEMMA ResolveFacts ==
    ASSUME TypeOK, NEW t \in Thread, NEW s,
           thread[t].used_connection # None => Owner[thread[t].used_connection] = Process(t),
           Resolve(t, s) # None
    PROVE  Resolve(t, s) \in Conn /\ Owner[Resolve(t, s)] = Process(t)
<1> DEFINE used == thread[t].used_connection
<1>1. used \in Conn \cup {None}
  BY DEF TypeOK, ThreadRec
<1>2. PICK p \in Proc : p = Process(t)
  BY Processes
<1>3. CASE used # None /\ checkConnection(s, used)
  BY <1>1, <1>3 DEF Resolve
<1>4. CASE ~(used # None /\ checkConnection(s, used))
  <2>1. Resolve(t, s) = acquireConnection(p, s)
    BY <1>2, <1>4 DEF Resolve
  <2>2. Order[p] \in Seq(Conn) /\ \A i \in DOMAIN Order[p] : Owner[Order[p][i]] = p
    BY TopologyAssumption
  <2>3. PICK n \in Nat : DOMAIN Order[p] = 1..n
    BY <2>2
  <2>4. \A i \in 1..n : Order[p][i] \in Conn /\ Owner[Order[p][i]] = p
    BY <2>2, <2>3
  <2>5. PICK has : has = {i \in 1..n : checkConnection(s, Order[p][i])}
    OBVIOUS
  <2>6. acquireConnection(p, s) = IF has = {} THEN None ELSE Order[p][Min(has)]
    BY <2>3, <2>5 DEF acquireConnection
  <2>7. has # {} => Min(has) \in has
    <3>1. has \in SUBSET Nat
      BY <2>5
    <3> QED
      BY <3>1, LeastFacts
  <2> QED
    BY <1>2, <2>1, <2>4, <2>5, <2>6, <2>7
<1> QED
  BY <1>3, <1>4

\* Who calls: the client itself, or the handler on top of t's stack.
LEMMA CallsForFacts ==
    ASSUME TypeOK, NEW t \in Thread, CallsFor(t) # None
    PROVE  /\ CallsFor(t) \in Client
           /\ \/ Len(thread[t].stack) = 0 /\ t \in Client /\ CallsFor(t) = t
              \/ \E k \in CallId : /\ OnTop(t, <<"handleCall", k>>)
                                   /\ rpc[k].server = "running" /\ k[1] = CallsFor(t)
<1>1. thread[t].stack \in Seq(Frame)
  BY DEF TypeOK, ThreadRec
<1>2. CASE thread[t].stack = <<>>
  BY <1>2 DEF CallsFor
<1>3. CASE thread[t].stack # <<>>
  <2>1. PICK top \in Frame : top = Last(thread[t].stack)
    BY <1>1, <1>3, FrontFacts
  <2>2. PICK k \in CallId : top[2] = k
    BY DEF Frame
  <2>3. top[1] = "handleCall" /\ rpc[k].server = "running" /\ CallsFor(t) = k[1]
    BY <1>3, <2>1, <2>2 DEF CallsFor
  <2>4. top = <<"handleCall", k>>
    BY <2>2, <2>3 DEF Frame
  <2>5. OnTop(t, <<"handleCall", k>>)
    <3>1. /\ Len(thread[t].stack) \in Nat \ {0}
          /\ Last(thread[t].stack) = thread[t].stack[Len(thread[t].stack)]
      BY <1>1, <1>3, FrontFacts
    <3> QED
      <4>1. Len(thread[t].stack) > 0
        BY <3>1
      <4>2. thread[t].stack[Len(thread[t].stack)] = <<"handleCall", k>>
        BY <2>1, <2>4, <3>1
      <4> QED
        BY <4>1, <4>2 DEF OnTop
  <2>6. k[1] \in Client
    BY CallIds
  <2> QED
    BY <2>3, <2>5, <2>6
<1> QED
  BY <1>2, <1>3

\* A stub calls: the first call of the client not made yet, on top of the stack.
LEMMA ClientCallDoes ==
    ASSUME TypeOK, Calm, NEW t \in Thread, NEW s,
           thread[t].used_connection # None => Owner[thread[t].used_connection] = Process(t),
           ClientCall(t, s)
    PROVE  \E id \in CallId, e \in Conn :
           /\ Owner[e] = Process(t)
           /\ rpc[id].client = "none"
           /\ \A k \in CallId : Before(k, id) => rpc[k].client # "none"
           /\ \/ Len(thread[t].stack) = 0 /\ t = id[1]
              \/ \E k \in CallId : /\ OnTop(t, <<"handleCall", k>>)
                                   /\ rpc[k].server = "running" /\ k[1] = id[1]
           /\ UNCHANGED <<waiting_threads, free_workers, nworkers, wire, aborted>>
           /\ ThreadsBut(t) /\ SameId(t) /\ SameBox(t)
           /\ thread'[t].used_connection = thread[t].used_connection
           /\ thread'[t].stack = Append(thread[t].stack, <<"client_call", id>>)
           /\ CallsBut(id) /\ SameAnswer(id)
           /\ rpc'[id].server = rpc[id].server /\ rpc'[id].client = "acquire"
           /\ rpc'[id].conn = e /\ rpc'[id].used = thread[t].used_connection
           /\ rpc'[id].tid = thread[t].original_tid
           /\ ConnsBut(e) /\ SameReader(e)
           /\ conn'[e].ref_cnt = conn[e].ref_cnt + 1
           /\ conn'[e].incoming_calls_cnt = conn[e].incoming_calls_cnt
           /\ TypeOK' /\ Calm'
<1>1. CallsFor(t) # None /\ Resolve(t, s) # None
  BY DEF ClientCall
<1>2. PICK c \in Client : c = CallsFor(t)
  BY <1>1, CallsForFacts
<1>3. PICK e \in Conn : e = Resolve(t, s) /\ Owner[e] = Process(t)
  BY <1>1, ResolveFacts
<1>4. PICK fresh : fresh = {n \in 1..Budget[c] : rpc[<<c, n>>].client = "none"}
  OBVIOUS
<1>5. PICK n \in 1..Budget[c] : /\ n = Min(fresh) /\ rpc[<<c, n>>].client = "none"
                                /\ \A m \in 1..Budget[c] : rpc[<<c, m>>].client = "none" => n <= m
  <2>1. fresh # {}
    BY <1>2, <1>4 DEF ClientCall
  <2>2. fresh \in SUBSET Nat
    BY <1>4
  <2>3. Min(fresh) \in fresh /\ \A m \in fresh : Min(fresh) <= m
    BY <2>1, <2>2, LeastFacts
  <2> QED
    BY <1>4, <2>3
<1>6. PICK id \in CallId : id = <<c, n>>
  BY CallIds
<1>7. \A k \in CallId : Before(k, id) => rpc[k].client # "none"
  <2> SUFFICES ASSUME NEW k \in CallId, Before(k, id), rpc[k].client = "none" PROVE FALSE
    OBVIOUS
  <2>1. k[1] = c /\ k[2] < n
    BY <1>6 DEF Before
  <2>2. k[2] \in 1..Budget[c] /\ k = <<c, k[2]>> /\ k[2] \in Nat
    BY <2>1, CallIds
  <2> QED
    BY <1>5, <2>1, <2>2
<1>8. /\ rpc' = [rpc EXCEPT ![id] = [@ EXCEPT
                   !.client = "acquire", !.conn = e, !.used = thread[t].used_connection,
                   !.tid = thread[t].original_tid]]
      /\ thread' = [thread EXCEPT ![t].stack = Append(@, <<"client_call", id>>)]
      /\ conn' = [conn EXCEPT ![e].ref_cnt = @ + 1]
      /\ UNCHANGED <<waiting_threads, free_workers, nworkers, wire, aborted>>
  BY <1>2, <1>3, <1>4, <1>5, <1>6 DEF ClientCall
<1>9. \/ Len(thread[t].stack) = 0 /\ t = id[1]
      \/ \E k \in CallId : /\ OnTop(t, <<"handleCall", k>>)
                           /\ rpc[k].server = "running" /\ k[1] = id[1]
  <2>1. id[1] = c
    BY <1>6
  <2> QED
    BY <1>1, <1>2, <2>1, CallsForFacts
<1>10. /\ rpc' \in [CallId -> RpcRec]
       /\ CallsBut(id) /\ SameAnswer(id)
       /\ rpc'[id].server = rpc[id].server /\ rpc'[id].client = "acquire"
       /\ rpc'[id].conn = e /\ rpc'[id].used = thread[t].used_connection
       /\ rpc'[id].tid = thread[t].original_tid
  <2>1. rpc \in [CallId -> RpcRec] /\ thread \in [Thread -> ThreadRec]
    BY DEF TypeOK
  <2>2. PICK u \in Conn \cup {None} : u = thread[t].used_connection
    BY <2>1 DEF ThreadRec
  <2>3. PICK tid \in TidValue \cup {None} : tid = thread[t].original_tid
    BY <2>1 DEF ThreadRec
  <2>4. PICK r \in RpcRec : r = rpc[id]
    BY <2>1
  <2>5. rpc' = [rpc EXCEPT ![id] = [r EXCEPT !.client = "acquire", !.conn = e, !.used = u, !.tid = tid]]
    BY <1>8, <2>2, <2>3, <2>4
  <2>6. [r EXCEPT !.client = "acquire", !.conn = e, !.used = u, !.tid = tid] \in RpcRec
    BY DEF RpcRec, ClientPC
  <2> QED
    BY <2>1, <2>2, <2>3, <2>4, <2>5, <2>6 DEF RpcRec, CallsBut, SameAnswer
<1>11. /\ thread' \in [Thread -> ThreadRec]
       /\ ThreadsBut(t) /\ SameId(t) /\ SameBox(t)
       /\ thread'[t].used_connection = thread[t].used_connection
       /\ thread'[t].stack = Append(thread[t].stack, <<"client_call", id>>)
  <2>1. thread \in [Thread -> ThreadRec] /\ thread[t].stack \in Seq(Frame)
    BY DEF TypeOK, ThreadRec
  <2>2. PICK q \in Seq(Frame) : q = Append(thread[t].stack, <<"client_call", id>>)
    BY <2>1, AppendFacts DEF Frame
  <2>3. thread' = [thread EXCEPT ![t].stack = q]
    BY <1>8, <2>2
  <2> QED
    BY <2>1, <2>2, <2>3 DEF ThreadRec, ThreadsBut, SameId, SameBox
<1>12. /\ conn' \in [Conn -> ConnRec]
       /\ ConnsBut(e) /\ SameReader(e)
       /\ conn'[e].ref_cnt = conn[e].ref_cnt + 1
       /\ conn'[e].incoming_calls_cnt = conn[e].incoming_calls_cnt
       /\ conn'[e].state = conn[e].state
  <2>1. conn \in [Conn -> ConnRec] /\ conn[e].ref_cnt \in Nat
    BY DEF TypeOK, ConnRec
  <2>2. PICK m \in Nat : m = conn[e].ref_cnt + 1
    BY <2>1
  <2>3. conn' = [conn EXCEPT ![e].ref_cnt = m]
    BY <1>8, <2>2
  <2>4. conn' \in [Conn -> ConnRec]
    BY <2>1, <2>3, SMTT(30) DEF ConnRec
  <2> QED
    BY <2>1, <2>2, <2>3, <2>4 DEF ConnRec, ConnsBut, SameReader
<1>13. TypeOK'
  BY <1>8, <1>10, <1>11, <1>12 DEF TypeOK
<1>14. Calm'
  <2>1. rpc'[id].server \notin Inside
    BY <1>5, <1>6, <1>10 DEF Calm, ViasRight
  <2>2. ViasRight'
    BY <1>10, <2>1 DEF Calm, ViasRight, ServedAt, CallsBut
  <2> QED
    BY <1>8, <1>10, <1>12, <2>2 DEF Calm, CallsBut, ConnsBut, SameReader
<1> QED
  BY <1>3, <1>5, <1>6, <1>7, <1>8, <1>9, <1>10, <1>11, <1>12, <1>13, <1>14, ZenonT(60)

\* A thread takes a call, and its handler runs on top of the stack.
LEMMA HandleCallDoes ==
    ASSUME TypeOK, Calm, NEW t \in Thread, thread[t].wakeup_data \in Msg,
           thread[t].wakeup_data.cmd = "CmdCall", rpc[thread[t].wakeup_data.id].client = "wait",
           thread[t].wakeup_conn \in Conn, thread[t].wakeup_conn = ServedAt(thread[t].wakeup_data.id),
           HandleCall(t)
    PROVE  LET id == thread[t].wakeup_data.id
               e == thread[t].wakeup_conn
           IN
           /\ thread[t].wakeup > 0
           /\ \/ t \in Worker /\ Len(thread[t].stack) = 0
              \/ \E k \in CallId : OnTop(t, <<"client_call", k>>) /\ rpc[k].client = "wait"
           /\ UNCHANGED <<waiting_threads, free_workers, nworkers, wire, aborted>>
           /\ ThreadsBut(t) /\ SameId(t)
           /\ thread'[t].wakeup = thread[t].wakeup - 1
           /\ thread'[t].used_connection = e
           /\ thread'[t].stack = Append(thread[t].stack, <<"handleCall", id>>)
           /\ CallAt(id, rpc[id].client, "running")
           /\ ConnsBut(e) /\ SameReader(e)
           /\ conn'[e].ref_cnt = conn[e].ref_cnt + 1
           /\ conn'[e].incoming_calls_cnt = conn[e].incoming_calls_cnt + 1
           /\ TypeOK' /\ Calm'
<1>1. PICK id \in CallId : id = thread[t].wakeup_data.id
  BY DEF Msg
<1>2. PICK e \in Conn : e = thread[t].wakeup_conn
  OBVIOUS
<1>3. thread[t].stack \in Seq(Frame)
  BY DEF TypeOK, ThreadRec
<1>4. thread[t].wakeup > 0
  BY DEF HandleCall
<1>5. \/ t \in Worker /\ Len(thread[t].stack) = 0
      \/ \E k \in CallId : OnTop(t, <<"client_call", k>>) /\ rpc[k].client = "wait"
  <2>1. CASE Idle(t)
    BY <2>1 DEF Idle
  <2>2. CASE Waits(t)
    <3>1. thread[t].stack # <<>>
      BY <2>2 DEF Waits
    <3>2. PICK k \in CallId : k = Last(thread[t].stack)[2]
      <4>1. PICK top \in Frame : top = Last(thread[t].stack)
        BY <1>3, <3>1, FrontFacts
      <4> QED
        BY <4>1 DEF Frame
    <3>3. Calling(t, k, "wait") \/ Serving(t, k, "thrown")
      BY <2>2, <3>2 DEF Waits
    <3>4. rpc[k].server # "thrown"
      BY DEF Calm
    <3> QED
      BY <3>3, <3>4, TopFrame DEF Serving
  <2> QED
    BY <2>1, <2>2 DEF HandleCall
<1>6. /\ thread' = [thread EXCEPT ![t].wakeup = @ - 1, ![t].used_connection = e,
                                  ![t].stack = Append(@, <<"handleCall", id>>)]
      /\ conn' = [conn EXCEPT ![e].ref_cnt = @ + 1, ![e].incoming_calls_cnt = @ + 1]
      /\ rpc' = [rpc EXCEPT ![id].server = "running", ![id].via = e]
      /\ UNCHANGED <<waiting_threads, free_workers, nworkers, wire, aborted>>
  BY <1>1, <1>2 DEF HandleCall
<1>7. rpc' \in [CallId -> RpcRec] /\ CallAt(id, rpc[id].client, "running") /\ ViasRight'
  <2>1. rpc \in [CallId -> RpcRec]
    BY DEF TypeOK
  <2>2. PICK r \in RpcRec : r = rpc[id]
    BY <2>1
  <2>3. rpc' = [rpc EXCEPT ![id] = [r EXCEPT !.server = "running", !.via = e]]
    BY <1>6, <2>2
  <2>4. [r EXCEPT !.server = "running", !.via = e] \in RpcRec
    BY DEF RpcRec, ServerPC
  <2>5. /\ CallAt(id, rpc[id].client, "running") /\ rpc' \in [CallId -> RpcRec]
        /\ rpc'[id].via = e /\ rpc'[id].conn = rpc[id].conn
    BY <2>1, <2>2, <2>3, <2>4 DEF RpcRec, CallAt, CallsBut, SameMade, SameAnswer
  <2>6. rpc'[id].client # "none" /\ rpc'[id].via = Peer[rpc'[id].conn]
    BY <1>1, <1>2, <2>5 DEF CallAt, ServedAt
  <2>7. ViasRight'
    BY <2>5, <2>6 DEF Calm, ViasRight, ServedAt, CallAt, CallsBut
  <2> QED
    BY <2>5, <2>7
<1>8. /\ thread' \in [Thread -> ThreadRec]
      /\ ThreadsBut(t) /\ SameId(t)
      /\ thread'[t].wakeup = thread[t].wakeup - 1
      /\ thread'[t].used_connection = e
      /\ thread'[t].stack = Append(thread[t].stack, <<"handleCall", id>>)
  <2>1. thread \in [Thread -> ThreadRec] /\ thread[t].wakeup \in Nat
    BY DEF TypeOK, ThreadRec
  <2>2. PICK q \in Seq(Frame) : q = Append(thread[t].stack, <<"handleCall", id>>)
    BY <1>3, AppendFacts DEF Frame
  <2>3. PICK n \in Nat : n = thread[t].wakeup - 1
    BY <1>4, <2>1
  <2>4. PICK r \in ThreadRec : r = thread[t]
    BY <2>1
  <2>5. thread' = [thread EXCEPT ![t] = [r EXCEPT !.wakeup = n, !.used_connection = e, !.stack = q]]
    <3>1. thread' = [thread EXCEPT ![t].wakeup = n, ![t].used_connection = e, ![t].stack = q]
      BY <1>6, <2>1, <2>2, <2>3 DEF ThreadRec
    <3> QED
      BY <2>1, <2>4, <3>1
  <2>6. [r EXCEPT !.wakeup = n, !.used_connection = e, !.stack = q] \in ThreadRec
    BY DEF ThreadRec
  <2> QED
    BY <2>1, <2>2, <2>3, <2>4, <2>5, <2>6 DEF ThreadRec, ThreadsBut, SameId
<1>9. /\ conn' \in [Conn -> ConnRec]
      /\ ConnsBut(e) /\ SameReader(e)
      /\ conn'[e].ref_cnt = conn[e].ref_cnt + 1
      /\ conn'[e].incoming_calls_cnt = conn[e].incoming_calls_cnt + 1
      /\ conn'[e].state = conn[e].state
  <2>1. conn \in [Conn -> ConnRec] /\ conn[e].ref_cnt \in Nat /\ conn[e].incoming_calls_cnt \in Nat
    BY DEF TypeOK, ConnRec
  <2>2. PICK m \in Nat : m = conn[e].ref_cnt + 1
    BY <2>1
  <2>3. PICK n \in Nat : n = conn[e].incoming_calls_cnt + 1
    BY <2>1
  <2>4. PICK r \in ConnRec : r = conn[e]
    BY <2>1
  <2>5. conn' = [conn EXCEPT ![e] = [r EXCEPT !.ref_cnt = m, !.incoming_calls_cnt = n]]
    <3>1. conn' = [conn EXCEPT ![e].ref_cnt = m, ![e].incoming_calls_cnt = n]
      BY <1>6, <2>1, <2>2, <2>3 DEF ConnRec
    <3> QED
      BY <2>1, <2>4, <3>1
  <2>6. [r EXCEPT !.ref_cnt = m, !.incoming_calls_cnt = n] \in ConnRec
    BY DEF ConnRec
  <2> QED
    BY <2>1, <2>2, <2>3, <2>4, <2>5, <2>6 DEF ConnRec, ConnsBut, SameReader
<1>10. TypeOK'
  BY <1>6, <1>7, <1>8, <1>9 DEF TypeOK
<1>11. Calm'
  BY <1>6, <1>7, <1>9 DEF Calm, CallAt, CallsBut, ConnsBut, SameReader
<1> QED
  BY <1>1, <1>2, <1>4, <1>5, <1>6, <1>7, <1>8, <1>9, <1>10, <1>11

-----------------------------------------------------------------------------
(* The reader.                                                             *)

\* The reader of e is at pc, and has message m and thread t.
ReaderAt(e, pc, m, t) ==
    /\ ConnsBut(e) /\ SameCounts(e)
    /\ conn'[e].reader = pc /\ conn'[e].msg = m /\ conn'[e].thr = t

\* What a reader does to its connection leaves it typed: it moves on ...
LEMMA ReaderMoves ==
    ASSUME TypeOK, NEW e \in Conn, NEW pc \in ReaderPC, conn' = [conn EXCEPT ![e].reader = pc]
    PROVE  /\ conn' \in [Conn -> ConnRec]
           /\ ReaderAt(e, pc, conn[e].msg, conn[e].thr)
           /\ conn'[e].state = conn[e].state
<1>1. conn \in [Conn -> ConnRec]
  BY DEF TypeOK
<1>2. conn' \in [Conn -> ConnRec]
  BY <1>1 DEF ConnRec
<1> QED
  BY <1>1, <1>2 DEF ConnRec, ReaderAt, ConnsBut, SameCounts

\* ... with a message ...
LEMMA ReaderReads ==
    ASSUME TypeOK, NEW e \in Conn, NEW pc \in ReaderPC, NEW m \in Msg,
           conn' = [conn EXCEPT ![e].msg = m, ![e].reader = pc]
    PROVE  /\ conn' \in [Conn -> ConnRec]
           /\ ReaderAt(e, pc, m, conn[e].thr)
           /\ conn'[e].state = conn[e].state
<1>1. conn \in [Conn -> ConnRec]
  BY DEF TypeOK
<1>2. PICK r \in ConnRec : r = conn[e]
  BY <1>1
<1>3. conn' = [conn EXCEPT ![e] = [r EXCEPT !.msg = m, !.reader = pc]]
  BY <1>1, <1>2
<1>4. [r EXCEPT !.msg = m, !.reader = pc] \in ConnRec
  BY DEF ConnRec
<1> QED
  BY <1>1, <1>2, <1>3, <1>4 DEF ConnRec, ReaderAt, ConnsBut, SameCounts

\* ... or with the thread it is for.
LEMMA ReaderChooses ==
    ASSUME TypeOK, NEW e \in Conn, NEW pc \in ReaderPC, NEW t \in Thread,
           conn' = [conn EXCEPT ![e].reader = pc, ![e].thr = t]
    PROVE  /\ conn' \in [Conn -> ConnRec]
           /\ ReaderAt(e, pc, conn[e].msg, t)
           /\ conn'[e].state = conn[e].state
<1>1. conn \in [Conn -> ConnRec]
  BY DEF TypeOK
<1>2. PICK r \in ConnRec : r = conn[e]
  BY <1>1
<1>3. conn' = [conn EXCEPT ![e] = [r EXCEPT !.reader = pc, !.thr = t]]
  BY <1>1, <1>2
<1>4. [r EXCEPT !.reader = pc, !.thr = t] \in ConnRec
  BY DEF ConnRec
<1> QED
  BY <1>1, <1>2, <1>3, <1>4 DEF ConnRec, ReaderAt, ConnsBut, SameCounts

\* When it is only the reader that moves, all is typed and calm.
LEMMA OnlyReader ==
    ASSUME TypeOK, Calm, NEW e \in Conn, NEW pc \in CalmReader, NEW m, NEW t,
           conn' \in [Conn -> ConnRec], ReaderAt(e, pc, m, t), conn'[e].state = conn[e].state,
           UNCHANGED <<waiting_threads, free_workers, nworkers, thread, wire, rpc, aborted>>
    PROVE  TypeOK' /\ Calm'
<1>1. TypeOK'
  BY DEF TypeOK
<1>2. Calm'
  BY DEF Calm, ViasRight, ServedAt, ReaderAt, ConnsBut
<1> QED
  BY <1>1, <1>2

\* The reader goes on to read, as no connection is closed.
LEMMA ReaderCheckDoes ==
    ASSUME TypeOK, Calm, NEW e \in Conn, ReaderCheck(e)
    PROVE  /\ conn[e].reader = "check"
           /\ UNCHANGED <<waiting_threads, free_workers, nworkers, thread, wire, rpc, aborted>>
           /\ ReaderAt(e, "read", conn[e].msg, conn[e].thr)
           /\ TypeOK' /\ Calm'
<1>1. /\ conn[e].reader = "check"
      /\ UNCHANGED <<waiting_threads, free_workers, nworkers, thread, wire, rpc, aborted>>
  BY DEF ReaderCheck, Reading, Only
<1>2. conn' = [conn EXCEPT ![e].reader = "read"]
  BY DEF ReaderCheck, Calm
<1>3. /\ conn' \in [Conn -> ConnRec]
      /\ ReaderAt(e, "read", conn[e].msg, conn[e].thr)
      /\ conn'[e].state = conn[e].state
  BY <1>2, ReaderMoves DEF ReaderPC
<1> QED
  BY <1>1, <1>3, OnlyReader DEF CalmReader

\* The reader takes the first message of the wire.
LEMMA RecvMessageDoes ==
    ASSUME TypeOK, Calm, NEW e \in Conn, RecvMessage(e)
    PROVE  LET m == wire[e].queue[1] IN
           /\ conn[e].reader = "read"
           /\ UNCHANGED <<waiting_threads, free_workers, nworkers, thread, rpc, aborted>>
           /\ m \in Msg
           /\ ReaderAt(e, IF m.cmd = "CmdCall" THEN "acquire" ELSE "find", m, conn[e].thr)
           /\ Len(wire[e].queue) \in Nat \ {0}
           /\ Len(wire'[e].queue) = Len(wire[e].queue) - 1
           /\ \A i \in 1..Len(wire[e].queue) - 1 : wire'[e].queue[i] = wire[e].queue[i + 1]
           /\ \A f \in Conn \ {e} : wire'[f].queue = wire[f].queue
           /\ TypeOK' /\ Calm'
<1>1. /\ conn[e].reader = "read" /\ wire[e].queue # <<>>
      /\ UNCHANGED <<waiting_threads, free_workers, nworkers, thread, rpc, aborted>>
  BY DEF RecvMessage, Reading
<1>2. wire \in [Conn -> WireRec] /\ wire[e].queue \in Seq(Msg)
  BY DEF TypeOK, WireRec
<1>3. PICK m \in Msg : m = Head(wire[e].queue) /\ m = wire[e].queue[1]
  BY <1>1, <1>2
<1>4. PICK q \in Seq(Msg) : /\ q = Tail(wire[e].queue)
                            /\ Len(wire[e].queue) \in Nat \ {0}
                            /\ Len(q) = Len(wire[e].queue) - 1
                            /\ \A i \in 1..Len(wire[e].queue) - 1 : q[i] = wire[e].queue[i + 1]
  <2>1. /\ Tail(wire[e].queue) \in Seq(Msg)
        /\ Len(Tail(wire[e].queue)) = Len(wire[e].queue) - 1
        /\ \A i \in 1..Len(Tail(wire[e].queue)) : Tail(wire[e].queue)[i] = wire[e].queue[i + 1]
    BY <1>1, <1>2, HeadTailProperties
  <2>2. Len(wire[e].queue) \in Nat \ {0}
    BY <1>1, <1>2
  <2> QED
    BY <2>1, <2>2
<1>5. PICK pc \in {"acquire", "find"} : pc = IF m.cmd = "CmdCall" THEN "acquire" ELSE "find"
  OBVIOUS
<1>6. /\ conn' = [conn EXCEPT ![e].msg = m, ![e].reader = pc]
      /\ wire' = [wire EXCEPT ![e].queue = q]
  <2>1. wire' = [wire EXCEPT ![e].queue = Tail(@)]
    BY DEF RecvMessage
  <2>2. wire' = [wire EXCEPT ![e].queue = q]
    BY <1>2, <1>4, <2>1
  <2> QED
    BY <1>3, <1>5, <2>2 DEF RecvMessage
<1>7. /\ conn' \in [Conn -> ConnRec]
      /\ ReaderAt(e, pc, m, conn[e].thr)
      /\ conn'[e].state = conn[e].state
  <2>1. pc \in ReaderPC
    BY DEF ReaderPC
  <2> QED
    BY <1>6, <2>1, ReaderReads
<1>8. /\ wire' \in [Conn -> WireRec]
      /\ wire'[e].queue = q
      /\ \A f \in Conn \ {e} : wire'[f].queue = wire[f].queue
      /\ \A f \in Conn : wire'[f].readable = wire[f].readable /\ wire'[f].writable = wire[f].writable
  BY <1>2, <1>6 DEF WireRec
<1>9. TypeOK'
  BY <1>1, <1>7, <1>8 DEF TypeOK
<1>10. Calm'
  <2>1. \A f \in Conn : wire'[f].readable /\ wire'[f].writable
    BY <1>8 DEF Calm
  <2>2. \A f \in Conn : conn'[f].state = "Active" /\ conn'[f].reader \in CalmReader
    BY <1>7 DEF Calm, ReaderAt, ConnsBut, CalmReader
  <2> QED
    BY <1>1, <2>1, <2>2 DEF Calm, ViasRight, ServedAt
<1> QED
  BY <1>1, <1>3, <1>4, <1>5, <1>7, <1>8, <1>9, <1>10

\* The reader finds the thread that its call is for, or will look for a worker.
LEMMA AcquireWaitingDoes ==
    ASSUME TypeOK, Calm, NEW e \in Conn, Owner[e] \in Proc, AcquireWaiting(e)
    PROVE  LET w == findWaitingThread(Owner[e], conn[e].msg.tid) IN
           /\ conn[e].reader = "acquire"
           /\ UNCHANGED <<waiting_threads, free_workers, nworkers, wire, rpc, aborted>>
           /\ w = None => ReaderAt(e, "worker", conn[e].msg, conn[e].thr) /\ UNCHANGED thread
           /\ w # None => ReaderAt(e, "data", conn[e].msg, w) /\ thread' = CountUp(w)
           /\ TypeOK' /\ Calm'
<1> DEFINE w == findWaitingThread(Owner[e], conn[e].msg.tid)
<1>1. /\ conn[e].reader = "acquire"
      /\ UNCHANGED <<waiting_threads, free_workers, nworkers, wire, rpc, aborted>>
  BY DEF AcquireWaiting, Reading
<1>2. CASE w = None
  <2>1. conn' = [conn EXCEPT ![e].reader = "worker"] /\ UNCHANGED thread
    BY <1>2 DEF AcquireWaiting
  <2>2. ReaderAt(e, "worker", conn[e].msg, conn[e].thr) /\ TypeOK' /\ Calm'
    <3>1. /\ conn' \in [Conn -> ConnRec]
          /\ ReaderAt(e, "worker", conn[e].msg, conn[e].thr)
          /\ conn'[e].state = conn[e].state
      BY <2>1, ReaderMoves DEF ReaderPC
    <3> QED
      BY <1>1, <2>1, <3>1, OnlyReader DEF CalmReader
  <2> QED
    BY <1>1, <1>2, <2>1, <2>2
<1>3. CASE w # None
  <2>1. conn' = [conn EXCEPT ![e].reader = "data", ![e].thr = w] /\ thread' = CountUp(w)
    BY <1>3 DEF AcquireWaiting
  <2>2. w \in Thread
    BY <1>3, FindFacts
  <2>3. /\ conn' \in [Conn -> ConnRec]
        /\ ReaderAt(e, "data", conn[e].msg, w)
        /\ conn'[e].state = conn[e].state
    BY <2>1, <2>2, ReaderChooses DEF ReaderPC
  <2>4. thread' \in [Thread -> ThreadRec]
    BY <2>1, <2>2, CountUpDoes DEF TypeOK
  <2>5. TypeOK'
    BY <1>1, <2>3, <2>4 DEF TypeOK
  <2>6. Calm'
    BY <1>1, <2>3 DEF Calm, ViasRight, ServedAt, ReaderAt, ConnsBut, CalmReader
  <2> QED
    BY <1>1, <1>3, <2>1, <2>3, <2>5, <2>6
<1> QED
  BY <1>2, <1>3

\* The reader takes the worker freed last, or creates one.
LEMMA GetFreeWorkerDoes ==
    ASSUME TypeOK, Calm, NEW e \in Conn, Owner[e] \in Proc, GetFreeWorker(e)
    PROVE  LET p == Owner[e] IN
           /\ conn[e].reader = "worker"
           /\ UNCHANGED <<waiting_threads, thread, wire, rpc, aborted>>
           /\ \A q \in Proc \ {p} : free_workers'[q] = free_workers[q] /\ nworkers'[q] = nworkers[q]
           /\ \E w \in Worker :
                /\ ReaderAt(e, "add", conn[e].msg, w)
                /\ \/ /\ Len(free_workers[p]) \in Nat \ {0}
                      /\ w = free_workers[p][Len(free_workers[p])]
                      /\ free_workers'[p] = Front(free_workers[p])
                      /\ nworkers'[p] = nworkers[p]
                   \/ /\ w = <<p, nworkers[p] + 1>>
                      /\ free_workers'[p] = free_workers[p]
                      /\ nworkers'[p] = nworkers[p] + 1
           /\ TypeOK' /\ Calm'
<1>1. PICK p \in Proc : p = Owner[e]
  OBVIOUS
<1>2. /\ conn[e].reader = "worker"
      /\ UNCHANGED <<waiting_threads, thread, wire, rpc, aborted>>
  BY DEF GetFreeWorker, Reading
<1>3. /\ free_workers \in [Proc -> Seq(Worker)] /\ nworkers \in [Proc -> 0..MaxWorkers]
      /\ MaxWorkers \in Nat
  BY ThreadAssumption DEF TypeOK
<1>4. ASSUME NEW w \in Worker, conn' = [conn EXCEPT ![e].reader = "add", ![e].thr = w],
             free_workers' \in [Proc -> Seq(Worker)], nworkers' \in [Proc -> 0..MaxWorkers]
      PROVE  ReaderAt(e, "add", conn[e].msg, w) /\ TypeOK' /\ Calm'
  <2>1. w \in Thread
    BY DEF Thread
  <2>2. /\ conn' \in [Conn -> ConnRec]
        /\ ReaderAt(e, "add", conn[e].msg, w)
        /\ conn'[e].state = conn[e].state
    BY <1>4, <2>1, ReaderChooses DEF ReaderPC
  <2>3. TypeOK'
    BY <1>2, <1>4, <2>2 DEF TypeOK
  <2>4. Calm'
    BY <1>2, <2>2 DEF Calm, ViasRight, ServedAt, ReaderAt, ConnsBut, CalmReader
  <2> QED
    BY <2>2, <2>3, <2>4
<1>5. CASE free_workers[p] # <<>>
  <2>1. /\ conn' = [conn EXCEPT ![e].reader = "add", ![e].thr = Last(free_workers[p])]
        /\ free_workers' = [free_workers EXCEPT ![p] = Front(free_workers[p])]
        /\ nworkers' = nworkers
    BY <1>1, <1>5 DEF GetFreeWorker
  <2>2. /\ Front(free_workers[p]) \in Seq(Worker)
        /\ Len(free_workers[p]) \in Nat \ {0}
        /\ Last(free_workers[p]) \in Worker
        /\ Last(free_workers[p]) = free_workers[p][Len(free_workers[p])]
    BY <1>3, <1>5, FrontFacts
  <2>3. /\ free_workers' \in [Proc -> Seq(Worker)]
        /\ free_workers'[p] = Front(free_workers[p])
        /\ \A q \in Proc \ {p} : free_workers'[q] = free_workers[q]
    BY <1>3, <2>1, <2>2
  <2>4. ReaderAt(e, "add", conn[e].msg, Last(free_workers[p])) /\ TypeOK' /\ Calm'
    BY <1>3, <1>4, <2>1, <2>2, <2>3
  <2> QED
    BY <1>1, <1>2, <2>1, <2>2, <2>3, <2>4
<1>6. CASE free_workers[p] = <<>>
  <2>1. /\ nworkers[p] < MaxWorkers
        /\ nworkers' = [nworkers EXCEPT ![p] = nworkers[p] + 1]
        /\ conn' = [conn EXCEPT ![e].reader = "add", ![e].thr = <<p, nworkers[p] + 1>>]
        /\ free_workers' = free_workers
    BY <1>1, <1>3, <1>6 DEF GetFreeWorker
  <2>2. nworkers[p] + 1 \in 1..MaxWorkers /\ nworkers[p] + 1 \in 0..MaxWorkers
    BY <1>3, <2>1
  <2>3. <<p, nworkers[p] + 1>> \in Worker
    BY <2>2 DEF Worker
  <2>4. /\ nworkers' \in [Proc -> 0..MaxWorkers]
        /\ nworkers'[p] = nworkers[p] + 1
        /\ \A q \in Proc \ {p} : nworkers'[q] = nworkers[q]
    BY <1>3, <2>1, <2>2
  <2>5. ReaderAt(e, "add", conn[e].msg, <<p, nworkers[p] + 1>>) /\ TypeOK' /\ Calm'
    BY <1>3, <1>4, <2>1, <2>3, <2>4
  <2> QED
    BY <1>1, <1>2, <2>1, <2>3, <2>4, <2>5
<1> QED
  BY <1>5, <1>6

\* The reader registers the worker under the thread id of its call.
LEMMA RegisterWorkerDoes ==
    ASSUME TypeOK, Calm, NEW e \in Conn, Owner[e] \in Proc, conn[e].thr \in Thread,
           conn[e].msg.tid \in TidValue, RegisterWorker(e)
    PROVE  LET p == Owner[e]
               w == conn[e].thr
           IN
           /\ conn[e].reader = "add"
           /\ UNCHANGED <<free_workers, nworkers, wire, rpc, aborted>>
           /\ ThreadsBut(w) /\ SameBox(w) /\ SameRun(w)
           /\ thread'[w].recursion_count = thread[w].recursion_count
           /\ thread'[w].original_tid = conn[e].msg.tid
           /\ waiting_threads'[p] = Append(waiting_threads[p], w)
           /\ \A q \in Proc \ {p} : waiting_threads'[q] = waiting_threads[q]
           /\ ReaderAt(e, "count", conn[e].msg, w)
           /\ TypeOK' /\ Calm'
<1>1. PICK p \in Proc : p = Owner[e]
  OBVIOUS
<1>2. PICK w \in Thread : w = conn[e].thr
  OBVIOUS
<1>3. PICK tid \in TidValue : tid = conn[e].msg.tid
  OBVIOUS
<1>4. /\ conn[e].reader = "add"
      /\ UNCHANGED <<free_workers, nworkers, wire, rpc, aborted>>
      /\ thread' = [thread EXCEPT ![w].original_tid = tid]
      /\ waiting_threads' = [waiting_threads EXCEPT ![p] = Append(waiting_threads[p], w)]
      /\ conn' = [conn EXCEPT ![e].reader = "count"]
  BY <1>1, <1>2, <1>3 DEF RegisterWorker, Reading
<1>5. /\ thread' \in [Thread -> ThreadRec]
      /\ ThreadsBut(w) /\ SameBox(w) /\ SameRun(w)
      /\ thread'[w].recursion_count = thread[w].recursion_count
      /\ thread'[w].original_tid = tid
  <2>1. thread \in [Thread -> ThreadRec]
    BY DEF TypeOK
  <2> QED
    BY <1>4, <2>1 DEF ThreadRec, ThreadsBut, SameBox, SameRun
<1>6. /\ waiting_threads' \in [Proc -> Seq(Thread)]
      /\ waiting_threads'[p] = Append(waiting_threads[p], w)
      /\ \A q \in Proc \ {p} : waiting_threads'[q] = waiting_threads[q]
  <2>1. waiting_threads \in [Proc -> Seq(Thread)]
    BY DEF TypeOK
  <2>2. Append(waiting_threads[p], w) \in Seq(Thread)
    BY <2>1
  <2> QED
    BY <1>4, <2>1, <2>2
<1>7. /\ conn' \in [Conn -> ConnRec]
      /\ ReaderAt(e, "count", conn[e].msg, w)
      /\ conn'[e].state = conn[e].state
  BY <1>2, <1>4, ReaderMoves DEF ReaderPC
<1>8. TypeOK'
  BY <1>4, <1>5, <1>6, <1>7 DEF TypeOK
<1>9. Calm'
  BY <1>4, <1>7 DEF Calm, ViasRight, ServedAt, ReaderAt, ConnsBut, CalmReader
<1> QED
  BY <1>1, <1>2, <1>3, <1>4, <1>5, <1>6, <1>7, <1>8, <1>9

\* The reader sets recursion_count=1.
LEMMA CountWorkerDoes ==
    ASSUME TypeOK, Calm, NEW e \in Conn, conn[e].thr \in Thread, CountWorker(e)
    PROVE  LET w == conn[e].thr IN
           /\ conn[e].reader = "count"
           /\ UNCHANGED <<waiting_threads, free_workers, nworkers, wire, rpc, aborted>>
           /\ ThreadsBut(w) /\ SameBox(w) /\ SameRun(w)
           /\ thread'[w].recursion_count = 1
           /\ thread'[w].original_tid = thread[w].original_tid
           /\ ReaderAt(e, "data", conn[e].msg, w)
           /\ TypeOK' /\ Calm'
<1>1. PICK w \in Thread : w = conn[e].thr
  OBVIOUS
<1>2. /\ conn[e].reader = "count"
      /\ UNCHANGED <<waiting_threads, free_workers, nworkers, wire, rpc, aborted>>
      /\ thread' = [thread EXCEPT ![w].recursion_count = 1]
      /\ conn' = [conn EXCEPT ![e].reader = "data"]
  BY <1>1 DEF CountWorker, Reading
<1>3. /\ thread' \in [Thread -> ThreadRec]
      /\ ThreadsBut(w) /\ SameBox(w) /\ SameRun(w)
      /\ thread'[w].recursion_count = 1
      /\ thread'[w].original_tid = thread[w].original_tid
  <2>1. thread \in [Thread -> ThreadRec]
    BY DEF TypeOK
  <2> QED
    BY <1>2, <2>1 DEF ThreadRec, ThreadsBut, SameBox, SameRun
<1>4. /\ conn' \in [Conn -> ConnRec]
      /\ ReaderAt(e, "data", conn[e].msg, w)
      /\ conn'[e].state = conn[e].state
  BY <1>1, <1>2, ReaderMoves DEF ReaderPC
<1>5. TypeOK'
  BY <1>2, <1>3, <1>4 DEF TypeOK
<1>6. Calm'
  BY <1>2, <1>4 DEF Calm, ViasRight, ServedAt, ReaderAt, ConnsBut, CalmReader
<1> QED
  BY <1>1, <1>2, <1>3, <1>4, <1>5, <1>6

\* The reader finds the thread that waits for its return, or its process fails.
LEMMA FindWaitingDoes ==
    ASSUME TypeOK, Calm, NEW e \in Conn, NEW w \in Thread,
           findWaitingThread(Owner[e], conn[e].msg.tid) = w, FindWaiting(e)
    PROVE  /\ conn[e].reader = "find"
           /\ UNCHANGED <<waiting_threads, free_workers, nworkers, thread, wire, rpc, aborted>>
           /\ ReaderAt(e, "data", conn[e].msg, w)
           /\ TypeOK' /\ Calm'
<1>1. w # None
  BY Processes
<1>2. /\ conn[e].reader = "find"
      /\ UNCHANGED <<waiting_threads, free_workers, nworkers, thread, wire, rpc, aborted>>
      /\ conn' = [conn EXCEPT ![e].reader = "data", ![e].thr = w]
  BY <1>1 DEF FindWaiting, Reading
<1> QED
  <2>1. /\ conn' \in [Conn -> ConnRec]
        /\ ReaderAt(e, "data", conn[e].msg, w)
        /\ conn'[e].state = conn[e].state
    BY <1>2, ReaderChooses DEF ReaderPC
  <2> QED
    BY <1>2, <2>1, OnlyReader DEF CalmReader

\* The reader writes the message where its thread will read it.
LEMMA DeliverDoes ==
    ASSUME TypeOK, Calm, NEW e \in Conn, conn[e].thr \in Thread, Deliver(e)
    PROVE  LET w == conn[e].thr IN
           /\ conn[e].reader = "data"
           /\ UNCHANGED <<waiting_threads, free_workers, nworkers, wire, rpc, aborted>>
           /\ ThreadsBut(w) /\ SameId(w) /\ SameRun(w)
           /\ thread'[w].wakeup = thread[w].wakeup
           /\ thread'[w].wakeup_data = conn[e].msg
           /\ conn[e].msg.cmd = "CmdCall" => thread'[w].wakeup_conn = e
           /\ ReaderAt(e, "post", conn[e].msg, w)
           /\ TypeOK' /\ Calm'
<1>1. PICK w \in Thread : w = conn[e].thr
  OBVIOUS
<1>2. PICK m \in Msg \cup {NoMsg} : m = conn[e].msg
  BY DEF TypeOK, ConnRec
<1>3. /\ conn[e].reader = "data"
      /\ UNCHANGED <<waiting_threads, free_workers, nworkers, wire, rpc, aborted>>
      /\ thread' = [thread EXCEPT ![w].wakeup_data = m,
                                  ![w].wakeup_conn = IF m.cmd = "CmdCall" THEN e ELSE @]
      /\ conn' = [conn EXCEPT ![e].reader = "post"]
  BY <1>1, <1>2 DEF Deliver, Reading
<1>4. /\ thread' \in [Thread -> ThreadRec]
      /\ ThreadsBut(w) /\ SameId(w) /\ SameRun(w)
      /\ thread'[w].wakeup = thread[w].wakeup
      /\ thread'[w].wakeup_data = m
      /\ m.cmd = "CmdCall" => thread'[w].wakeup_conn = e
  <2>1. thread \in [Thread -> ThreadRec]
    BY DEF TypeOK
  <2>2. PICK r \in ThreadRec : r = thread[w]
    BY <2>1
  <2>3. PICK c \in Conn \cup {None} : c = IF m.cmd = "CmdCall" THEN e ELSE r.wakeup_conn
    BY DEF ThreadRec
  <2>4. thread' = [thread EXCEPT ![w] = [r EXCEPT !.wakeup_data = m, !.wakeup_conn = c]]
    BY <1>3, <2>1, <2>2, <2>3
  <2>5. [r EXCEPT !.wakeup_data = m, !.wakeup_conn = c] \in ThreadRec
    BY DEF ThreadRec
  <2> QED
    BY <2>1, <2>2, <2>3, <2>4, <2>5 DEF ThreadRec, ThreadsBut, SameId, SameRun
<1>5. /\ conn' \in [Conn -> ConnRec]
      /\ ReaderAt(e, "post", conn[e].msg, w)
      /\ conn'[e].state = conn[e].state
  BY <1>1, <1>3, ReaderMoves DEF ReaderPC
<1>6. TypeOK'
  BY <1>3, <1>4, <1>5 DEF TypeOK
<1>7. Calm'
  BY <1>3, <1>5 DEF Calm, ViasRight, ServedAt, ReaderAt, ConnsBut, CalmReader
<1> QED
  BY <1>1, <1>2, <1>3, <1>4, <1>5, <1>6, <1>7

\* The reader wakes its thread up, and is done with the message.
LEMMA PostDoes ==
    ASSUME TypeOK, Calm, NEW e \in Conn, conn[e].thr \in Thread, conn[e].msg \in Msg, Post(e)
    PROVE  LET w == conn[e].thr
               m == conn[e].msg
           IN
           /\ conn[e].reader = "post"
           /\ UNCHANGED <<waiting_threads, free_workers, nworkers, wire, aborted>>
           /\ ThreadsBut(w) /\ SameId(w) /\ SameRun(w)
           /\ thread'[w].wakeup = thread[w].wakeup + 1
           /\ thread'[w].wakeup_data = thread[w].wakeup_data
           /\ thread'[w].wakeup_conn = thread[w].wakeup_conn
           /\ ConnsBut(e)
           /\ conn'[e].reader = "check" /\ conn'[e].msg = NoMsg /\ conn'[e].thr = None
           /\ conn'[e].incoming_calls_cnt = conn[e].incoming_calls_cnt
           /\ m.cmd = "CmdCall" =>
                /\ conn'[e].ref_cnt = conn[e].ref_cnt + 1
                /\ CallAt(m.id, rpc[m.id].client, "posted")
           /\ m.cmd # "CmdCall" =>
                /\ conn'[e].ref_cnt = conn[e].ref_cnt
                /\ UNCHANGED rpc
           /\ TypeOK' /\ Calm'
<1>1. PICK w \in Thread : w = conn[e].thr
  OBVIOUS
<1>2. PICK m \in Msg : m = conn[e].msg
  OBVIOUS
<1>3. m.id \in CallId
  BY DEF Msg
<1>4. /\ conn[e].reader = "post"
      /\ UNCHANGED <<waiting_threads, free_workers, nworkers, wire, aborted>>
  BY DEF Post, Reading
<1>5. thread \in [Thread -> ThreadRec] /\ thread[w] \in ThreadRec
  BY DEF TypeOK
<1>6. PICK n \in Nat : n = thread[w].wakeup + 1
  BY <1>5 DEF ThreadRec
<1>7. conn \in [Conn -> ConnRec] /\ conn[e] \in ConnRec
  BY DEF TypeOK
<1>8. PICK k \in Nat : k = conn[e].ref_cnt + 1
  BY <1>7 DEF ConnRec
<1>9. PICK done \in [Conn -> ConnRec] :
         /\ done = [conn EXCEPT ![e].reader = "check", ![e].msg = NoMsg, ![e].thr = None]
         /\ done[e] = [conn[e] EXCEPT !.reader = "check", !.msg = NoMsg, !.thr = None]
         /\ \A f \in Conn \ {e} : done[f] = conn[f]
  <2>1. PICK r \in ConnRec : r = conn[e]
    BY <1>7
  <2>2. [r EXCEPT !.reader = "check", !.msg = NoMsg, !.thr = None] \in ConnRec
    BY DEF ConnRec, ReaderPC
  <2>3. PICK x \in ConnRec : x = [r EXCEPT !.reader = "check", !.msg = NoMsg, !.thr = None]
    BY <2>2
  <2>4. PICK d \in [Conn -> ConnRec] : d = [conn EXCEPT ![e] = x]
    BY <1>7
  <2>5. d = [conn EXCEPT ![e].reader = "check", ![e].msg = NoMsg, ![e].thr = None]
    BY <1>7, <2>1, <2>3, <2>4
  <2>6. d[e] = x /\ \A f \in Conn \ {e} : d[f] = conn[f]
    BY <1>7, <2>4
  <2> QED
    BY <2>1, <2>3, <2>5, <2>6
<1>10. /\ thread' \in [Thread -> ThreadRec]
      /\ ThreadsBut(w) /\ SameId(w) /\ SameRun(w)
      /\ thread'[w].wakeup = n
      /\ thread'[w].wakeup_data = thread[w].wakeup_data
      /\ thread'[w].wakeup_conn = thread[w].wakeup_conn
  <2>1. thread' = [thread EXCEPT ![w].wakeup = n]
    BY <1>1, <1>5, <1>6 DEF Post
  <2> QED
    BY <1>5, <2>1 DEF ThreadRec, ThreadsBut, SameId, SameRun
<1>11. ASSUME conn' \in [Conn -> ConnRec], conn'[e].state = "Active", conn'[e].reader = "check",
              ConnsBut(e), rpc' \in [CallId -> RpcRec], ViasRight',
              \A i \in CallId : rpc'[i].client = rpc[i].client,
              \A i \in CallId : rpc'[i].server \in {rpc[i].server, "posted"}
       PROVE  TypeOK' /\ Calm'
  <2>1. TypeOK'
    BY <1>4, <1>10, <1>11 DEF TypeOK
  <2>2. Calm'
    BY <1>4, <1>11 DEF Calm, ConnsBut, CalmReader
  <2> QED
    BY <2>1, <2>2
<1>12. conn[e].state = "Active"
  BY DEF Calm
<1>13. CASE m.cmd = "CmdCall"
  <2>1. /\ conn' = [done EXCEPT ![e].ref_cnt = @ + 1]
        /\ Goto(m.id, "server", "posted")
    BY <1>1, <1>2, <1>9, <1>13 DEF Post
  <2>3. /\ conn' \in [Conn -> ConnRec] /\ ConnsBut(e)
        /\ conn'[e].reader = "check" /\ conn'[e].msg = NoMsg /\ conn'[e].thr = None
        /\ conn'[e].incoming_calls_cnt = conn[e].incoming_calls_cnt
        /\ conn'[e].ref_cnt = k /\ conn'[e].state = conn[e].state
    <3>1. PICK r \in ConnRec : r = conn[e]
      BY <1>7
    <3>2. done[e].ref_cnt = r.ref_cnt
      BY <1>9, <3>1 DEF ConnRec
    <3>3. conn' = [done EXCEPT ![e].ref_cnt = k]
      BY <1>8, <1>9, <2>1, <3>1, <3>2 DEF ConnRec
    <3>4. conn' = [conn EXCEPT ![e] = [r EXCEPT !.reader = "check", !.msg = NoMsg, !.thr = None, !.ref_cnt = k]]
      BY <1>7, <1>9, <3>1, <3>3
    <3>5. [r EXCEPT !.reader = "check", !.msg = NoMsg, !.thr = None, !.ref_cnt = k] \in ConnRec
      BY DEF ConnRec, ReaderPC
    <3> QED
      BY <1>7, <3>1, <3>4, <3>5 DEF ConnRec, ConnsBut
  <2>4. rpc' \in [CallId -> RpcRec] /\ CallAt(m.id, rpc[m.id].client, "posted") /\ ViasRight'
    <3>1. rpc \in [CallId -> RpcRec]
      BY DEF TypeOK
    <3> QED
      BY <1>3, <2>1, <3>1, GotoServer DEF ServerPC, Calm, Inside
  <2>5. /\ \A i \in CallId : rpc'[i].client = rpc[i].client
        /\ \A i \in CallId : rpc'[i].server \in {rpc[i].server, "posted"}
    BY <2>4 DEF CallAt, CallsBut
  <2>6. TypeOK' /\ Calm'
    BY <1>11, <1>12, <2>3, <2>4, <2>5
  <2> QED
    BY <1>1, <1>2, <1>4, <1>6, <1>8, <1>10, <1>13, <2>3, <2>4, <2>6
<1>14. CASE m.cmd # "CmdCall"
  <2>1. /\ conn' = done
        /\ rpc' = rpc
    BY <1>1, <1>2, <1>9, <1>14 DEF Post
  <2>3. /\ conn' \in [Conn -> ConnRec] /\ ConnsBut(e)
        /\ conn'[e].reader = "check" /\ conn'[e].msg = NoMsg /\ conn'[e].thr = None
        /\ conn'[e].incoming_calls_cnt = conn[e].incoming_calls_cnt
        /\ conn'[e].ref_cnt = conn[e].ref_cnt /\ conn'[e].state = conn[e].state
    <3>1. PICK r \in ConnRec : r = conn[e]
      BY <1>7
    <3> QED
      BY <1>9, <2>1, <3>1 DEF ConnRec, ConnsBut
  <2>4. TypeOK' /\ Calm'
    <3>1. rpc' \in [CallId -> RpcRec] /\ ViasRight'
      BY <2>1 DEF TypeOK, Calm, ViasRight, ServedAt
    <3> QED
      BY <1>11, <1>12, <2>1, <2>3, <3>1
  <2> QED
    BY <1>1, <1>2, <1>4, <1>6, <1>10, <1>14, <2>1, <2>3, <2>4
<1> QED
  BY <1>13, <1>14

-----------------------------------------------------------------------------
(* Calls and stacks, step by step.                                         *)

\* What stacks consist of.
StacksTyped == \A t \in Thread :
    /\ Len(thread[t].stack) \in Nat
    /\ thread[t].stack = <<>> <=> Len(thread[t].stack) = 0
    /\ \A i \in 1..Len(thread[t].stack) :
         /\ thread[t].stack[i] \in Frame
         /\ thread[t].stack[i][1] \in {"client_call", "handleCall"}
         /\ thread[t].stack[i][2] \in CallId
         /\ thread[t].stack[i] = <<thread[t].stack[i][1], thread[t].stack[i][2]>>

\* Stacks are lists of frames, if every variable has its type.
LEMMA StackTypes == TypeOK => StacksTyped
<1> SUFFICES ASSUME TypeOK, NEW t \in Thread
             PROVE  /\ Len(thread[t].stack) \in Nat
                    /\ thread[t].stack = <<>> <=> Len(thread[t].stack) = 0
                    /\ \A i \in 1..Len(thread[t].stack) :
                         /\ thread[t].stack[i] \in Frame
                         /\ thread[t].stack[i][1] \in {"client_call", "handleCall"}
                         /\ thread[t].stack[i][2] \in CallId
                         /\ thread[t].stack[i] = <<thread[t].stack[i][1], thread[t].stack[i][2]>>
  BY DEF StacksTyped
<1>1. thread[t].stack \in Seq(Frame)
  BY DEF TypeOK, ThreadRec
<1>2. \A f \in Frame : /\ f[1] \in {"client_call", "handleCall"}
                       /\ f[2] \in CallId
                       /\ f = <<f[1], f[2]>>
  BY DEF Frame
<1>3. /\ Len(thread[t].stack) \in Nat
      /\ \A i \in 1..Len(thread[t].stack) : thread[t].stack[i] \in Frame
  BY <1>1
<1>4. thread[t].stack = <<>> <=> Len(thread[t].stack) = 0
  BY <1>1, EmptySeq
<1> QED
  BY <1>2, <1>3, <1>4

\* The frames of a stack, by their places.
FramesTyped == \A t \in Thread, f \in Frame :
    f \in Frames(t) <=> \E i \in 1..Len(thread[t].stack) : thread[t].stack[i] = f

\* Frames(t) are those of the list.
LEMMA FrameTypes == TypeOK => FramesTyped
<1> SUFFICES ASSUME TypeOK, NEW t \in Thread
             PROVE  DOMAIN thread[t].stack = 1..Len(thread[t].stack)
  BY DEF FramesTyped, Frames
<1>1. thread[t].stack \in Seq(Frame)
  BY DEF TypeOK, ThreadRec
<1> QED
  BY <1>1

\* Frames of calls are frames.
LEMMA IsFrame == \A id \in CallId : <<"client_call", id>> \in Frame /\ <<"handleCall", id>> \in Frame
BY DEF Frame

-----------------------------------------------------------------------------
(* The kinds of steps.                                                     *)

StacksStay == \A t \in Thread :
    thread'[t].stack = thread[t].stack /\ thread'[t].original_tid = thread[t].original_tid
UsedStay == \A t \in Thread : thread'[t].used_connection = thread[t].used_connection

Pushed(t, f) ==
    /\ Len(thread'[t].stack) = Len(thread[t].stack) + 1
    /\ thread'[t].stack[Len(thread[t].stack) + 1] = f
    /\ \A i \in 1..Len(thread[t].stack) : thread'[t].stack[i] = thread[t].stack[i]
    /\ \A u \in Thread \ {t} : thread'[u].stack = thread[u].stack
    /\ \A u \in Thread : thread'[u].original_tid = thread[u].original_tid
    /\ \A u \in Thread \ {t} : thread'[u].used_connection = thread[u].used_connection
Popped(t) ==
    /\ Len(thread'[t].stack) = Len(thread[t].stack) - 1
    /\ \A i \in 1..Len(thread[t].stack) - 1 : thread'[t].stack[i] = thread[t].stack[i]
    /\ \A u \in Thread \ {t} : thread'[u].stack = thread[u].stack
    /\ \A u \in Thread : thread'[u].original_tid = thread[u].original_tid
    /\ \A u \in Thread \ {t} : thread'[u].used_connection = thread[u].used_connection

\* client_call goes on.
ClientMoves(t, id) ==
    /\ OnTop(t, <<"client_call", id>>)
    /\ StacksStay
    /\ \A u \in Thread \ {t} : thread'[u].used_connection = thread[u].used_connection
    /\ \/ thread'[t].used_connection = thread[t].used_connection
       \/ thread'[t].used_connection \in Conn /\ Owner[thread'[t].used_connection] = Process(t)
    /\ CallsBut(id) /\ SameMade(id)
    /\ rpc'[id].server = rpc[id].server
    /\ rpc'[id].rtid = rpc[id].rtid /\ rpc'[id].served = rpc[id].served
    /\ rpc'[id].reply \in {None, id}
    /\ IsOpen(id) /\ rpc[id].client # "return"
    /\ rpc'[id].client \notin {"none", "done"}
    /\ IF rpc[id].client = "wait"
       THEN rpc[id].server \in Through /\ rpc'[id].client = "return"
       ELSE rpc'[id].client # "return"

\* handleCall goes on.
ServerMoves(t, id) ==
    /\ OnTop(t, <<"handleCall", id>>)
    /\ StacksStay /\ UsedStay
    /\ CallsBut(id) /\ SameMade(id)
    /\ rpc'[id].client = rpc[id].client /\ rpc'[id].reply = rpc[id].reply
    /\ rpc[id].server \in Inside /\ rpc'[id].server \in Inside \ {"running"}
    /\ rpc[id].server \in Through => rpc'[id].server \in Through
    /\ rpc'[id].served = "Success"
    /\ rpc'[id].server = "release" => rpc[id].server = "running"
    /\ rpc'[id].server \in {"reply", "sending"} => rpc'[id].rtid = Tid[id[1]]

\* A call is handed to the thread that is to serve it.
CallPosted(id) ==
    /\ StacksStay /\ UsedStay
    /\ CallsBut(id) /\ SameMade(id) /\ SameAnswer(id)
    /\ rpc'[id].client = rpc[id].client
    /\ rpc[id].client = "wait"
    /\ rpc[id].server = "none" /\ rpc'[id].server = "posted"

\* Thread t calls over e: on its own, or for the handler of a call it serves.
OpensCall(t, id, e) ==
    /\ Pushed(t, <<"client_call", id>>)
    /\ thread'[t].used_connection = thread[t].used_connection
    /\ CallsBut(id) /\ SameAnswer(id)
    /\ rpc'[id].server = rpc[id].server
    /\ rpc[id].client = "none" /\ rpc'[id].client = "acquire"
    /\ \A k \in CallId : Before(k, id) => rpc[k].client # "none"
    /\ e \in Conn /\ Owner[e] = Process(t) /\ rpc'[id].conn = e
    /\ rpc'[id].used = thread[t].used_connection
    /\ rpc'[id].tid = Tid[id[1]] /\ thread[t].original_tid = Tid[id[1]]
    /\ \/ Len(thread[t].stack) = 0 /\ t = id[1]
       \/ \E k \in CallId : /\ OnTop(t, <<"handleCall", k>>)
                            /\ rpc[k].server = "running" /\ k[1] = id[1]

\* Thread t, which serves nothing or waits for a call, begins to serve one.
TakesCall(t, id) ==
    /\ Pushed(t, <<"handleCall", id>>)
    /\ thread'[t].used_connection = ServedAt(id) /\ Owner[ServedAt(id)] = Process(t)
    /\ CallsBut(id) /\ SameMade(id) /\ SameAnswer(id)
    /\ rpc'[id].client = rpc[id].client /\ rpc[id].client = "wait"
    /\ rpc[id].server = "posted" /\ rpc'[id].server = "running"
    /\ thread[t].original_tid = Tid[id[1]]
    /\ Process(t) = Home[id[1]] => t = id[1]
    /\ t \in Client => id[1] = t
    /\ \/ Len(thread[t].stack) = 0 /\ t \notin Client
       \/ \E k \in CallId : OnTop(t, <<"client_call", k>>) /\ rpc[k].client = "wait"

\* client_call returns.
CallReturns(t, id) ==
    /\ OnTop(t, <<"client_call", id>>)
    /\ Popped(t)
    /\ thread'[t].used_connection = rpc[id].used
    /\ CallsBut(id) /\ SameMade(id) /\ SameAnswer(id)
    /\ rpc'[id].server = rpc[id].server
    /\ rpc[id].client = "return" /\ rpc'[id].client = "done"

\* handleCall returns.
HandlerLeaves(t, id) ==
    /\ OnTop(t, <<"handleCall", id>>)
    /\ Popped(t)
    /\ thread'[t].used_connection = thread[t].used_connection
    /\ CallsBut(id) /\ SameMade(id) /\ SameAnswer(id)
    /\ rpc'[id].client = rpc[id].client
    /\ rpc[id].server = "leave" /\ rpc'[id].server = "done"

\* Calls stay as they are, and only a thread that runs nothing changes its id.
CallsStay ==
    /\ rpc' = rpc
    /\ UsedStay
    /\ \A t \in Thread :
         /\ thread'[t].stack = thread[t].stack
         /\ \/ thread'[t].original_tid = thread[t].original_tid
            \/ \A i \in 1..Len(thread[t].stack) : ~Live(thread[t].stack[i])

-----------------------------------------------------------------------------
\* The parts of StacksRight, each to be cited on its own.
LEMMA StacksParts ==
    StacksRight =>
    /\ EndsAgree /\ CallsNest /\ FramesApart /\ FramesPlaced /\ CallsFramed
    /\ InnerFramesWait /\ FramesNest /\ LaterAbove /\ Covered /\ FramesOwned
    /\ UsedRight
BY DEF StacksRight

\* A frame on top of a stack is nowhere else.
LEMMA TopIsOnly ==
    ASSUME StacksRight, StacksTyped, NEW t \in Thread, NEW f, OnTop(t, f)
    PROVE  \A u \in Thread : \A i \in 1..Len(thread[u].stack) :
             thread[u].stack[i] = f => u = t /\ i = Len(thread[t].stack)
<1> SUFFICES ASSUME NEW u \in Thread, NEW i \in 1..Len(thread[u].stack), thread[u].stack[i] = f
             PROVE  u = t /\ i = Len(thread[t].stack)
  OBVIOUS
<1>1. Len(thread[t].stack) \in 1..Len(thread[t].stack) /\ thread[t].stack[Len(thread[t].stack)] = f
  BY DEF OnTop, StacksTyped
<1> QED
  BY <1>1, StacksParts DEF FramesApart

\* Every call is of a client.
LEMMA Clients == \A k \in CallId : k[1] \in Client /\ k[1] \in Thread
BY CallIds DEF Thread

\* What only depends on the frames there are and the calls that are open.
FramesStay ==
    /\ \A t \in Thread : thread'[t].stack = thread[t].stack
    /\ \A k \in CallId : /\ IsOpen(k)' <=> IsOpen(k)
                         /\ rpc'[k].conn = rpc[k].conn /\ rpc'[k].used = rpc[k].used
                         /\ ServedAt(k)' = ServedAt(k)

\* What is said of frames alone stays, if stacks do and calls stay where they are.
LEMMA FramesStayStacks ==
    ASSUME StacksRight, StacksTyped, FramesStay
    PROVE  FramesApart' /\ CallsFramed' /\ FramesNest' /\ LaterAbove' /\ Covered'
<1>a. \A k \in CallId : /\ IsOpen(k)' <=> IsOpen(k)
                        /\ rpc'[k].used = rpc[k].used
                        /\ ServedAt(k)' = ServedAt(k)
  BY DEF FramesStay
<1>b. \A t \in Thread : thread'[t].stack = thread[t].stack
  BY DEF FramesStay
<1>1. FramesApart'
  <2> SUFFICES ASSUME NEW t \in Thread, NEW u \in Thread,
                      NEW i \in 1..Len(thread'[t].stack), NEW j \in 1..Len(thread'[u].stack),
                      thread'[t].stack[i] = thread'[u].stack[j]
               PROVE  t = u /\ i = j
    BY DEF FramesApart
  <2> QED
    BY <1>b, StacksParts, SMTT(30) DEF FramesApart
<1>2. CallsFramed'
  BY <1>a, <1>b, StacksParts DEF CallsFramed, Frames
<1>3. FramesNest'
  <2> SUFFICES ASSUME NEW t \in Thread
               PROVE  /\ thread'[t].stack # <<>> => FirstFrame(t)'
                      /\ \A i \in 1..Len(thread'[t].stack) - 1 : NextFrame(t, i)'
    BY DEF FramesNest
  <2>1. thread'[t].stack # <<>> => FirstFrame(t)'
    BY <1>a, <1>b, StacksParts DEF FramesNest, FirstFrame, StacksTyped
  <2>2. ASSUME NEW i \in 1..Len(thread'[t].stack) - 1 PROVE NextFrame(t, i)'
    <3>1. NextFrame(t, i) /\ i \in 1..Len(thread[t].stack) /\ i + 1 \in 1..Len(thread[t].stack)
      BY <1>b, StacksParts DEF FramesNest, StacksTyped
    <3> QED
      BY <1>a, <1>b, <3>1 DEF NextFrame, StacksTyped
  <2> QED
    BY <2>1, <2>2
<1>4. LaterAbove'
  BY <1>b, StacksParts DEF LaterAbove
<1>5. Covered'
  BY <1>a, <1>b, Clients, StacksParts DEF Covered, Last
<1> QED
  BY <1>1, <1>2, <1>3, <1>4, <1>5

\* StacksRight stays, if calls and stacks do.
LEMMA CallsStayStacks ==
    ASSUME StacksRight, StacksTyped, CallsStay PROVE StacksRight'
<1>a. rpc' = rpc
  BY DEF CallsStay
<1>b. \A t \in Thread : thread'[t].stack = thread[t].stack
  BY DEF CallsStay
<1>c. \A t \in Thread : thread'[t].used_connection = thread[t].used_connection
  BY DEF CallsStay, UsedStay
<1>1. EndsAgree'
  BY <1>a, StacksParts DEF EndsAgree
<1>2. CallsNest'
  BY <1>a, StacksParts DEF CallsNest, IsOpen
<1>3. FramesPlaced'
  BY <1>a, <1>b, StacksParts DEF FramesPlaced, IsOpen, ServedAt
<1>4. InnerFramesWait'
  BY <1>a, <1>b, StacksParts DEF InnerFramesWait
<1>5. FramesOwned'
  BY <1>a, <1>b, StacksParts DEF FramesOwned, Live, CallsStay
<1>6. UsedRight'
  BY <1>a, <1>b, <1>c, StacksParts DEF UsedRight, ServedAt, Last
<1>7. FramesStay
  BY <1>a, <1>b DEF FramesStay, IsOpen, ServedAt
<1> QED
  BY <1>1, <1>2, <1>3, <1>4, <1>5, <1>6, <1>7, FramesStayStacks DEF StacksRight

\* StacksRight stays when a reader posts a call.
LEMMA CallPostedStacks ==
    ASSUME StacksRight, StacksTyped, NEW id \in CallId, CallPosted(id) PROVE StacksRight'
<1>a. /\ \A k \in CallId : /\ rpc'[k].client = rpc[k].client
                           /\ rpc'[k].conn = rpc[k].conn /\ rpc'[k].used = rpc[k].used
                           /\ IsOpen(k)' <=> IsOpen(k)
                           /\ ServedAt(k)' = ServedAt(k)
                           /\ k # id => rpc'[k].server = rpc[k].server
      /\ rpc[id].client = "wait" /\ rpc[id].server = "none" /\ rpc'[id].server = "posted"
  BY DEF CallPosted, CallsBut, SameMade, IsOpen, ServedAt
<1>b. \A t \in Thread : thread'[t].stack = thread[t].stack
  BY DEF CallPosted, StacksStay
<1>c. \A t \in Thread : thread'[t].used_connection = thread[t].used_connection
  BY DEF CallPosted, UsedStay
<1>d. \A t \in Thread : \A i \in 1..Len(thread[t].stack) :
        thread[t].stack[i] # <<"handleCall", id>>
  BY <1>a, StacksParts DEF FramesPlaced, Inside
<1>1. EndsAgree'
  BY <1>a, StacksParts DEF EndsAgree, Through, CallPosted, CallsBut, SameMade, SameAnswer
<1>2. CallsNest'
  BY <1>a, StacksParts DEF CallsNest
<1>3. FramesPlaced'
  BY <1>a, <1>b, <1>d, StacksParts DEF FramesPlaced, StacksTyped
<1>4. InnerFramesWait'
  BY <1>a, <1>b, <1>d, StacksParts DEF InnerFramesWait, StacksTyped
<1>5. FramesOwned'
  BY <1>a, <1>b, <1>d, StacksParts, SMTT(30) DEF FramesOwned, Live, StacksTyped, CallPosted, StacksStay
<1>6. UsedRight'
  <2>1. \A t \in Thread :
          /\ thread'[t].used_connection # None => Owner[thread'[t].used_connection] = Process(t)
          /\ \A i \in 1..Len(thread'[t].stack) :
               LET f == thread'[t].stack[i] IN
               f[1] = "client_call" /\ rpc'[f[2]].used # None =>
                 Owner[rpc'[f[2]].used] = Process(t)
    BY <1>a, <1>b, <1>c, StacksParts, SMTT(30) DEF UsedRight, StacksTyped
  <2>2. ASSUME NEW t \in Thread, NEW k \in CallId,
               thread'[t].stack # <<>> /\ Last(thread'[t].stack) = <<"handleCall", k>>,
               rpc'[k].server = "running"
        PROVE  thread'[t].used_connection = ServedAt(k)'
    BY <1>a, <1>b, <1>c, <2>2, StacksParts DEF UsedRight
  <2> QED
    BY <2>1, <2>2 DEF UsedRight
<1>7. FramesStay
  BY <1>a, <1>b DEF FramesStay
<1> QED
  BY <1>1, <1>2, <1>3, <1>4, <1>5, <1>6, <1>7, FramesStayStacks DEF StacksRight

\* StacksRight stays when client_call moves on, on top of a stack.
LEMMA ClientMovesStacks ==
    ASSUME StacksRight, StacksTyped, NEW t \in Thread, NEW id \in CallId, ClientMoves(t, id)
    PROVE  StacksRight'
<1>a. /\ \A k \in CallId : /\ rpc'[k].server = rpc[k].server
                           /\ rpc'[k].conn = rpc[k].conn /\ rpc'[k].used = rpc[k].used
                           /\ rpc'[k].tid = rpc[k].tid
                           /\ IsOpen(k)' <=> IsOpen(k)
                           /\ ServedAt(k)' = ServedAt(k)
                           /\ k # id => rpc'[k].client = rpc[k].client
  BY DEF ClientMoves, CallsBut, SameMade, IsOpen, ServedAt
<1>b. \A u \in Thread : thread'[u].stack = thread[u].stack
  BY DEF ClientMoves, StacksStay
<1>c. /\ IsOpen(id) /\ rpc'[id].client \notin {"none", "done"} /\ rpc[id].client # "return"
      /\ IF rpc[id].client = "wait"
         THEN rpc[id].server \in Through /\ rpc'[id].client = "return"
         ELSE rpc'[id].client # "return"
  BY DEF ClientMoves
<1>d. \A u \in Thread : \A i \in 1..Len(thread[u].stack) :
        thread[u].stack[i] = <<"client_call", id>> => u = t /\ i = Len(thread[u].stack)
  BY TopIsOnly DEF ClientMoves
<1>1. EndsAgree'
  BY <1>a, <1>c, StacksParts DEF EndsAgree, Through, ClientMoves, CallsBut, IsOpen
<1>2. CallsNest'
  <2> SUFFICES ASSUME NEW k \in CallId, NEW l \in CallId, Before(k, l)
               PROVE  /\ rpc'[k].client = "none" => rpc'[l].client = "none"
                      /\ IsOpen(k)' /\ IsOpen(l)' => rpc'[k].client = "wait" /\ rpc'[k].server = "running"
    BY DEF CallsNest, Before
  <2>1. /\ rpc[k].client = "none" => rpc[l].client = "none"
        /\ IsOpen(k) /\ IsOpen(l) => rpc[k].client = "wait" /\ rpc[k].server = "running"
    BY StacksParts DEF CallsNest
  <2> QED
    BY <1>a, <1>c, <2>1 DEF IsOpen, Through
<1>3. FramesPlaced'
  BY <1>a, <1>b, StacksParts, SMTT(30) DEF FramesPlaced, StacksTyped
<1>4. InnerFramesWait'
  <2> SUFFICES ASSUME NEW u \in Thread, NEW i \in 1..Len(thread[u].stack), i < Len(thread[u].stack)
               PROVE  /\ thread[u].stack[i][1] = "client_call" => rpc'[thread[u].stack[i][2]].client = "wait"
                      /\ thread[u].stack[i][1] = "handleCall" => rpc'[thread[u].stack[i][2]].server = "running"
    BY <1>b DEF InnerFramesWait
  <2>1. /\ thread[u].stack[i][1] = "client_call" => rpc[thread[u].stack[i][2]].client = "wait"
        /\ thread[u].stack[i][1] = "handleCall" => rpc[thread[u].stack[i][2]].server = "running"
    BY StacksParts DEF InnerFramesWait
  <2> QED
    BY <1>a, <1>d, <2>1 DEF StacksTyped
<1>5. FramesOwned'
  BY <1>a, <1>b, StacksParts, SMTT(30) DEF FramesOwned, Live, StacksTyped, ClientMoves, StacksStay
<1>6. UsedRight'
  <2>1. \A u \in Thread : thread'[u].used_connection # None => Owner[thread'[u].used_connection] = Process(u)
    BY StacksParts DEF UsedRight, ClientMoves
  <2>2. \A u \in Thread : \A i \in 1..Len(thread'[u].stack) :
               LET f == thread'[u].stack[i] IN
               f[1] = "client_call" /\ rpc'[f[2]].used # None =>
                 Owner[rpc'[f[2]].used] = Process(u)
    BY <1>a, <1>b, StacksParts DEF UsedRight, StacksTyped
  <2>3. ASSUME NEW u \in Thread, NEW k \in CallId,
               thread'[u].stack # <<>> /\ Last(thread'[u].stack) = <<"handleCall", k>>,
               rpc'[k].server = "running"
        PROVE  thread'[u].used_connection = ServedAt(k)'
    <3>1. u # t
      BY <1>b, <2>3 DEF ClientMoves, OnTop, Last
    <3> QED
      BY <1>a, <1>b, <2>3, <3>1, StacksParts DEF UsedRight, ClientMoves
  <2> QED
    BY <2>1, <2>2, <2>3 DEF UsedRight
<1>7. FramesStay
  BY <1>a, <1>b DEF FramesStay
<1> QED
  BY <1>1, <1>2, <1>3, <1>4, <1>5, <1>6, <1>7, FramesStayStacks DEF StacksRight

\* StacksRight stays when handleCall moves on, on top of a stack.
LEMMA ServerMovesStacks ==
    ASSUME StacksRight, StacksTyped, NEW t \in Thread, NEW id \in CallId, ServerMoves(t, id)
    PROVE  StacksRight'
<1>a. /\ \A k \in CallId : /\ rpc'[k].client = rpc[k].client
                           /\ rpc'[k].conn = rpc[k].conn /\ rpc'[k].used = rpc[k].used
                           /\ rpc'[k].tid = rpc[k].tid /\ rpc'[k].reply = rpc[k].reply
                           /\ IsOpen(k)' <=> IsOpen(k)
                           /\ ServedAt(k)' = ServedAt(k)
                           /\ k # id => rpc'[k].server = rpc[k].server
  BY DEF ServerMoves, CallsBut, SameMade, IsOpen, ServedAt
<1>b. \A u \in Thread : thread'[u].stack = thread[u].stack
  BY DEF ServerMoves, StacksStay
<1>c. /\ rpc[id].server \in Inside /\ rpc'[id].server \in Inside \ {"running"}
      /\ rpc[id].server \in Through => rpc'[id].server \in Through
      /\ rpc'[id].server = "release" => rpc[id].server = "running"
  BY DEF ServerMoves
<1>d. \A u \in Thread : \A i \in 1..Len(thread[u].stack) :
        thread[u].stack[i] = <<"handleCall", id>> => u = t /\ i = Len(thread[u].stack)
  BY TopIsOnly DEF ServerMoves
<1>e. \A u \in Thread : thread'[u].used_connection = thread[u].used_connection
  BY DEF ServerMoves, UsedStay
<1>1. EndsAgree'
  BY <1>a, <1>c, StacksParts DEF EndsAgree, Through, Inside, ServerMoves, CallsBut
<1>2. CallsNest'
  <2> SUFFICES ASSUME NEW k \in CallId, NEW l \in CallId, Before(k, l)
               PROVE  /\ rpc'[k].client = "none" => rpc'[l].client = "none"
                      /\ IsOpen(k)' /\ IsOpen(l)' => rpc'[k].client = "wait" /\ rpc'[k].server = "running"
    BY DEF CallsNest, Before
  <2>1. /\ rpc[k].client = "none" => rpc[l].client = "none"
        /\ IsOpen(k) /\ IsOpen(l) => rpc[k].client = "wait" /\ rpc[k].server = "running"
    BY StacksParts DEF CallsNest
  <2>2. IsOpen(k) /\ IsOpen(l) => k # id
    BY StacksParts DEF Covered, ServerMoves, OnTop, StacksTyped, Last
  <2> QED
    BY <1>a, <2>1, <2>2
<1>3. FramesPlaced'
  BY <1>a, <1>b, <1>c, StacksParts, SMTT(30) DEF FramesPlaced, StacksTyped
<1>4. InnerFramesWait'
  BY <1>a, <1>b, <1>d, StacksParts, SMTT(30) DEF InnerFramesWait, StacksTyped
<1>5. FramesOwned'
  BY <1>a, <1>b, <1>c, StacksParts, SMTT(30) DEF FramesOwned, Live, StacksTyped, ServerMoves, StacksStay
<1>6. UsedRight'
  <2>1. \A u \in Thread :
          /\ thread'[u].used_connection # None => Owner[thread'[u].used_connection] = Process(u)
          /\ \A i \in 1..Len(thread'[u].stack) :
               LET f == thread'[u].stack[i] IN
               f[1] = "client_call" /\ rpc'[f[2]].used # None =>
                 Owner[rpc'[f[2]].used] = Process(u)
    BY <1>a, <1>b, <1>e, StacksParts, SMTT(30) DEF UsedRight, StacksTyped
  <2>2. ASSUME NEW u \in Thread, NEW k \in CallId,
               thread'[u].stack # <<>> /\ Last(thread'[u].stack) = <<"handleCall", k>>,
               rpc'[k].server = "running"
        PROVE  thread'[u].used_connection = ServedAt(k)'
    BY <1>a, <1>b, <1>c, <1>e, <2>2, StacksParts DEF UsedRight
  <2> QED
    BY <2>1, <2>2 DEF UsedRight
<1>7. FramesStay
  BY <1>a, <1>b DEF FramesStay
<1> QED
  BY <1>1, <1>2, <1>3, <1>4, <1>5, <1>6, <1>7, FramesStayStacks DEF StacksRight

\* StacksRight stays when a call is made.
LEMMA OpensCallStacks ==
    ASSUME TidsDiffer, StacksRight, StacksTyped, StacksTyped', FramesTyped, FramesTyped',
           NEW t \in Thread, NEW id \in CallId, NEW e,
           OpensCall(t, id, e)
    PROVE  StacksRight'
<1>n. PICK n \in Nat : n = Len(thread[t].stack)
  BY DEF StacksTyped
<1>a. /\ \A k \in CallId \ {id} : rpc'[k] = rpc[k]
      /\ rpc[id].client = "none" /\ rpc'[id].client = "acquire"
      /\ rpc[id].server = "none" /\ rpc'[id].server = "none"
      /\ rpc'[id].conn = e /\ e \in Conn /\ Owner[e] = Process(t)
      /\ rpc'[id].used = thread[t].used_connection
  BY StacksParts DEF OpensCall, CallsBut, EndsAgree
<1>b. /\ n \in Nat /\ Len(thread'[t].stack) = n + 1
      /\ thread'[t].stack[n + 1] = <<"client_call", id>>
      /\ \A i \in 1..n : thread'[t].stack[i] = thread[t].stack[i]
      /\ \A u \in Thread \ {t} : thread'[u].stack = thread[u].stack
  BY <1>n DEF OpensCall, Pushed
<1>c. /\ ~IsOpen(id) /\ IsOpen(id)'
      /\ \A k \in CallId \ {id} : (IsOpen(k)' <=> IsOpen(k)) /\ ServedAt(k)' = ServedAt(k)
  BY <1>a DEF IsOpen, ServedAt
<1>d. \A k \in CallId : Before(id, k) => rpc[k].client = "none"
  BY <1>a, StacksParts DEF CallsNest
<1>e. \A u \in Thread : \A i \in 1..Len(thread[u].stack) : thread[u].stack[i][2] # id
  BY <1>a, <1>c, StacksParts DEF FramesPlaced, StacksTyped, Inside
<1>f. \A k \in CallId : IsOpen(k) /\ k[1] = id[1] => Before(k, id)
  BY <1>c, <1>d, CallIds DEF Before, IsOpen
<1>g. ASSUME n # 0
      PROVE  \E k \in CallId :
               /\ thread[t].stack[n] = <<"handleCall", k>> /\ OnTop(t, <<"handleCall", k>>)
               /\ k[1] = id[1] /\ IsOpen(k)
               /\ rpc[k].client = "wait" /\ rpc[k].server = "running"
               /\ \A l \in CallId : Before(k, l) => ~IsOpen(l)
  <2>1. PICK k \in CallId : OnTop(t, <<"handleCall", k>>) /\ rpc[k].server = "running" /\ k[1] = id[1]
    BY <1>g, <1>n DEF OpensCall
  <2>2. rpc[k].client = "wait"
    BY <2>1, StacksParts DEF EndsAgree, Through
  <2>3. IsOpen(k)
    BY <2>2 DEF IsOpen
  <2>4. \A l \in CallId : Before(k, l) => ~IsOpen(l)
    BY <2>1, <2>3, StacksParts DEF Covered, OnTop, StacksTyped, Last
  <2> QED
    BY <1>n, <2>1, <2>2, <2>3, <2>4 DEF OnTop
<1>h. ASSUME n = 0 PROVE t = id[1] /\ \A k \in CallId : k[1] = id[1] => ~IsOpen(k)
  <2>1. t = id[1]
    BY <1>h, <1>n DEF OpensCall, OnTop
  <2> QED
    BY <1>h, <1>n, <2>1, StacksParts DEF Covered, StacksTyped
<1>i. \A k \in CallId : IsOpen(k) /\ k[1] = id[1] => rpc[k].client = "wait" /\ rpc[k].server = "running"
  <2> SUFFICES ASSUME NEW k \in CallId, IsOpen(k), k[1] = id[1], n # 0
               PROVE  rpc[k].client = "wait" /\ rpc[k].server = "running"
    BY <1>h
  <2>1. PICK l \in CallId : /\ l[1] = id[1] /\ IsOpen(l)
                            /\ rpc[l].client = "wait" /\ rpc[l].server = "running"
                            /\ \A m \in CallId : Before(l, m) => ~IsOpen(m)
    BY <1>g
  <2>2. CASE k = l
    BY <2>1, <2>2
  <2>3. CASE k # l
    <3>1. Before(k, l)
      BY <2>1, <2>3, CallIds DEF Before
    <3> QED
      BY <2>1, <3>1, StacksParts DEF CallsNest
  <2> QED
    BY <2>2, <2>3
<1>1. EndsAgree'
  <2> SUFFICES ASSUME NEW k \in CallId
               PROVE  (/\ rpc[k].client \notin {"wait", "return", "done"} => rpc[k].server = "none"
                       /\ rpc[k].client \in {"return", "done"} => rpc[k].server \in Through
                       /\ rpc[k].client # "none" => rpc[k].conn \in Conn /\ rpc[k].tid = Tid[k[1]]
                       /\ rpc[k].server \in {"reply", "sending"} => rpc[k].rtid = Tid[k[1]]
                       /\ rpc[k].server \in {"release", "reply", "sending"} \cup Through
                            => rpc[k].served = "Success"
                       /\ rpc[k].reply \in {None, k})'
    BY DEF EndsAgree
  <2>1. CASE k # id
    BY <1>a, <2>1, StacksParts DEF EndsAgree
  <2>2. CASE k = id
    BY <1>a, <2>2, StacksParts DEF EndsAgree, OpensCall, SameAnswer, Through
  <2> QED
    BY <2>1, <2>2
<1>2. CallsNest'
  <2> SUFFICES ASSUME NEW k \in CallId, NEW l \in CallId, Before(k, l)
               PROVE  /\ rpc'[k].client = "none" => rpc'[l].client = "none"
                      /\ IsOpen(k)' /\ IsOpen(l)' => rpc'[k].client = "wait" /\ rpc'[k].server = "running"
    BY DEF CallsNest, Before
  <2>1. /\ rpc[k].client = "none" => rpc[l].client = "none"
        /\ IsOpen(k) /\ IsOpen(l) => rpc[k].client = "wait" /\ rpc[k].server = "running"
    BY StacksParts DEF CallsNest
  <2>2. k # l
    BY CallIds DEF Before
  <2>3. CASE l = id
    <3>1. k # id /\ k[1] = id[1]
      BY <2>2, <2>3 DEF Before
    <3> QED
      BY <1>a, <1>c, <1>i, <2>3, <3>1 DEF OpensCall
  <2>4. CASE k = id
    BY <1>a, <1>c, <1>d, <2>2, <2>4 DEF IsOpen
  <2>5. CASE k # id /\ l # id
    BY <1>a, <1>c, <2>1, <2>5
  <2> QED
    BY <2>3, <2>4, <2>5
<1>3. FramesApart'
  <2> SUFFICES ASSUME NEW u \in Thread, NEW v \in Thread,
                      NEW i \in 1..Len(thread'[u].stack), NEW j \in 1..Len(thread'[v].stack),
                      thread'[u].stack[i] = thread'[v].stack[j]
               PROVE  u = v /\ i = j
    BY DEF FramesApart
  <2>1. ASSUME NEW w \in Thread, NEW k \in 1..Len(thread'[w].stack)
        PROVE  \/ w = t /\ k = n + 1
               \/ k \in 1..Len(thread[w].stack) /\ thread'[w].stack[k] = thread[w].stack[k]
    <3>1. CASE w = t
      BY <1>b, <1>n, <3>1
    <3>2. CASE w # t
      BY <1>b, <3>2
    <3> QED
      BY <3>1, <3>2
  <2>2. ASSUME NEW w \in Thread, NEW k \in 1..Len(thread[w].stack)
        PROVE  thread[w].stack[k] # <<"client_call", id>>
    BY <1>e
  <2>3. CASE u = t /\ i = n + 1
    BY <1>b, <2>1, <2>2, <2>3
  <2>4. CASE v = t /\ j = n + 1
    BY <1>b, <2>1, <2>2, <2>4
  <2>5. CASE ~(u = t /\ i = n + 1) /\ ~(v = t /\ j = n + 1)
    BY <2>1, <2>5, StacksParts, SMTT(30) DEF FramesApart
  <2> QED
    BY <2>3, <2>4, <2>5
<1>j. ASSUME NEW u \in Thread, NEW i \in 1..Len(thread'[u].stack)
      PROVE  \/ u = t /\ i = n + 1 /\ thread'[u].stack[i] = <<"client_call", id>>
             \/ /\ i \in 1..Len(thread[u].stack) /\ thread'[u].stack[i] = thread[u].stack[i]
                /\ thread[u].stack[i] \in Frame
                /\ thread[u].stack[i][2] \in CallId \ {id}
                /\ thread[u].stack[i][1] \in {"client_call", "handleCall"}
  <2>1. CASE u = t /\ i = n + 1
    BY <1>b, <2>1
  <2>2. CASE ~(u = t /\ i = n + 1)
    <3>1. i \in 1..Len(thread[u].stack) /\ thread'[u].stack[i] = thread[u].stack[i]
      <4>1. CASE u = t
        BY <1>b, <1>n, <2>2, <4>1
      <4>2. CASE u # t
        BY <1>b, <4>2
      <4> QED
        BY <4>1, <4>2
    <3> QED
      BY <1>e, <3>1 DEF StacksTyped
  <2> QED
    BY <2>1, <2>2
<1>4. FramesPlaced'
  <2> SUFFICES ASSUME NEW u \in Thread, NEW i \in 1..Len(thread'[u].stack)
               PROVE  (LET f == thread[u].stack[i] IN
                       /\ f[1] = "client_call" => IsOpen(f[2]) /\ Owner[rpc[f[2]].conn] = Process(u)
                       /\ f[1] = "handleCall" => rpc[f[2]].server \in Inside /\ Owner[ServedAt(f[2])] = Process(u))'
    BY DEF FramesPlaced, Process
  <2>1. CASE u = t /\ i = n + 1
    BY <1>a, <1>b, <1>c, <2>1 DEF Process
  <2>2. CASE ~(u = t /\ i = n + 1)
    <3>1. /\ i \in 1..Len(thread[u].stack) /\ thread'[u].stack[i] = thread[u].stack[i]
          /\ thread[u].stack[i][2] \in CallId \ {id}
      BY <1>j, <2>2
    <3> QED
      BY <1>a, <1>c, <3>1, StacksParts, SMTT(30) DEF FramesPlaced, Process
  <2> QED
    BY <2>1, <2>2
<1>5. CallsFramed'
  <2> SUFFICES ASSUME NEW k \in CallId, IsOpen(k)'
               PROVE  \E u \in Thread : \E i \in 1..Len(thread'[u].stack) :
                        thread'[u].stack[i] = <<"client_call", k>>
    BY IsFrame DEF CallsFramed, FramesTyped
  <2>1. CASE k = id
    BY <1>b, <2>1
  <2>2. CASE k # id
    <3>0. PICK u \in Thread : <<"client_call", k>> \in Frames(u)
      BY <1>c, <2>2, StacksParts DEF CallsFramed
    <3>1. PICK i \in 1..Len(thread[u].stack) : thread[u].stack[i] = <<"client_call", k>>
      BY <3>0, IsFrame DEF FramesTyped
    <3>2. i \in 1..Len(thread'[u].stack) /\ thread'[u].stack[i] = <<"client_call", k>>
      <4>1. CASE u = t
        BY <1>b, <1>n, <3>1, <4>1
      <4>2. CASE u # t
        BY <1>b, <3>1, <4>2
      <4> QED
        BY <4>1, <4>2
    <3> QED
      BY <3>2
  <2> QED
    BY <2>1, <2>2
<1>6. InnerFramesWait'
  <2> SUFFICES ASSUME NEW u \in Thread, NEW i \in 1..Len(thread'[u].stack), i < Len(thread'[u].stack)
               PROVE  (LET f == thread[u].stack[i] IN
                       /\ f[1] = "client_call" => rpc[f[2]].client = "wait"
                       /\ f[1] = "handleCall" => rpc[f[2]].server = "running")'
    BY DEF InnerFramesWait
  <2>1. CASE u = t /\ i = n
    <3>0. n # 0
      BY <1>n, <2>1
    <3>1. PICK k \in CallId : thread[t].stack[n] = <<"handleCall", k>> /\ rpc[k].server = "running"
      BY <1>g, <3>0
    <3>2. thread'[u].stack[i] = <<"handleCall", k>> /\ k # id
      BY <1>a, <1>b, <2>1, <3>1
    <3> QED
      BY <1>a, <3>1, <3>2
  <2>2. CASE ~(u = t /\ i = n)
    <3>1. /\ i \in 1..Len(thread[u].stack) /\ i < Len(thread[u].stack)
          /\ thread'[u].stack[i] = thread[u].stack[i]
      <4>1. CASE u = t
        BY <1>b, <1>n, <2>2, <4>1
      <4>2. CASE u # t
        BY <1>b, <4>2
      <4> QED
        BY <4>1, <4>2
    <3>2. thread[u].stack[i][2] \in CallId \ {id}
      BY <1>e, <3>1 DEF StacksTyped
    <3> QED
      BY <1>a, <3>1, <3>2, StacksParts DEF InnerFramesWait
  <2> QED
    BY <2>1, <2>2
<1>7. FramesNest'
  <2> SUFFICES ASSUME NEW u \in Thread
               PROVE  /\ thread'[u].stack # <<>> => FirstFrame(u)'
                      /\ \A i \in 1..Len(thread'[u].stack) - 1 : NextFrame(u, i)'
    BY DEF FramesNest
  <2>1. thread'[u].stack # <<>> => FirstFrame(u)'
    <3> SUFFICES ASSUME thread'[u].stack # <<>>, thread'[u].stack[1][1] = "client_call"
                 PROVE  /\ u = thread'[u].stack[1][2][1]
                        /\ \A k \in CallId : Before(k, thread'[u].stack[1][2]) => ~IsOpen(k)'
      BY DEF FirstFrame
    <3>1. 1 \in 1..Len(thread'[u].stack)
      BY DEF StacksTyped
    <3>2. CASE u = t /\ 1 = n + 1
      <4>1. n = 0 /\ thread'[u].stack[1] = <<"client_call", id>>
        BY <1>b, <3>2
      <4>2. \A k \in CallId : Before(k, id) => k # id /\ k[1] = id[1]
        BY CallIds DEF Before
      <4> QED
        BY <1>c, <1>h, <3>2, <4>1, <4>2
    <3>3. CASE ~(u = t /\ 1 = n + 1)
      <4> DEFINE j == thread[u].stack[1][2]
      <4>1. /\ 1 \in 1..Len(thread[u].stack) /\ thread'[u].stack[1] = thread[u].stack[1]
            /\ j \in CallId \ {id} /\ thread[u].stack[1][1] = "client_call"
        BY <1>j, <3>1, <3>3
      <4>2. IsOpen(j) /\ u = j[1] /\ \A k \in CallId : Before(k, j) => ~IsOpen(k)
        BY <4>1, StacksParts, SMTT(30) DEF FramesPlaced, FramesNest, FirstFrame, StacksTyped
      <4>3. ~Before(id, j)
        BY <1>d, <4>1, <4>2 DEF IsOpen
      <4> QED
        BY <1>c, <4>1, <4>2, <4>3
    <3> QED
      BY <3>2, <3>3
  <2>2. ASSUME NEW i \in 1..Len(thread'[u].stack) - 1 PROVE NextFrame(u, i)'
    <3>1. i \in 1..Len(thread'[u].stack) /\ i + 1 \in 1..Len(thread'[u].stack)
      BY DEF StacksTyped
    <3>2. CASE u = t /\ i = n
      <4>0. n # 0
        BY <1>n, <3>1, <3>2
      <4>1. PICK k \in CallId : /\ thread[t].stack[n] = <<"handleCall", k>>
                                /\ OnTop(t, <<"handleCall", k>>) /\ rpc[k].server = "running"
                                /\ k[1] = id[1] /\ IsOpen(k)
                                /\ \A l \in CallId : Before(k, l) => ~IsOpen(l)
        BY <1>g, <4>0
      <4>2. thread'[u].stack[i] = <<"handleCall", k>> /\ thread'[u].stack[i + 1] = <<"client_call", id>>
        BY <1>b, <3>2, <4>1
      <4>3. Before(k, id) /\ k # id
        BY <1>c, <1>f, <4>1
      <4>4. thread[t].used_connection = ServedAt(k)
        BY <4>1, StacksParts, SMTT(30) DEF UsedRight, OnTop, StacksTyped, Last
      <4>5. \A l \in CallId : Before(l, id) /\ Before(k, l) => ~IsOpen(l)'
        BY <1>c, <4>1, CallIds DEF Before
      <4> QED
        BY <1>a, <1>c, <4>2, <4>3, <4>4, <4>5 DEF NextFrame
    <3>3. CASE ~(u = t /\ i = n)
      <4> DEFINE f == thread[u].stack[i]
                 g == thread[u].stack[i + 1]
      <4>1. /\ i \in 1..Len(thread[u].stack) - 1
            /\ thread'[u].stack[i] = f /\ thread'[u].stack[i + 1] = g
            /\ f[2] \in CallId \ {id} /\ g[2] \in CallId \ {id}
            /\ i + 1 \in 1..Len(thread[u].stack)
        <5>1. CASE u = t
          <6>1. i \in 1..n - 1
            BY <1>b, <3>3, <5>1
          <6> QED
            BY <1>b, <1>e, <1>n, <5>1, <6>1 DEF StacksTyped
        <5>2. CASE u # t
          <6>1. thread'[u].stack = thread[u].stack
            BY <1>b, <5>2
          <6> QED
            BY <1>e, <3>1, <6>1 DEF StacksTyped
        <5> QED
          BY <5>1, <5>2
      <4>2. NextFrame(u, i)
        BY <4>1, StacksParts DEF FramesNest
      <4>3. g[1] = "client_call" => ~Before(id, g[2])
        BY <1>d, <4>1, StacksParts DEF FramesPlaced, IsOpen
      <4> QED
        BY <1>a, <1>c, <4>1, <4>2, <4>3 DEF NextFrame
    <3> QED
      BY <3>2, <3>3
  <2> QED
    BY <2>1, <2>2
<1>8. LaterAbove'
  <2> SUFFICES ASSUME NEW u \in Thread, NEW i \in 1..Len(thread'[u].stack),
                      NEW j \in 1..Len(thread'[u].stack), i < j,
                      thread'[u].stack[i][1] = "client_call", thread'[u].stack[j][1] = "client_call"
               PROVE  Before(thread'[u].stack[i][2], thread'[u].stack[j][2])
    BY DEF LaterAbove, Before
  <2>1. CASE u = t /\ j = n + 1
    <3> DEFINE k == thread[t].stack[i][2]
    <3>1. /\ i \in 1..Len(thread[t].stack) /\ thread'[t].stack[i] = thread[t].stack[i]
          /\ k \in CallId /\ thread[t].stack[i][1] = "client_call"
      BY <1>j, <2>1
    <3>2. IsOpen(k) /\ thread[t].original_tid = Tid[k[1]]
      BY <3>1, StacksParts DEF FramesPlaced, FramesOwned, Live
    <3>3. k[1] = id[1]
      <4>1. Tid[k[1]] = Tid[id[1]] /\ k[1] \in Client /\ id[1] \in Client
        BY <3>1, <3>2, CallIds DEF OpensCall
      <4> QED
        BY <4>1 DEF TidsDiffer
    <3> QED
      BY <1>b, <1>f, <2>1, <3>1, <3>2, <3>3
  <2>2. CASE ~(u = t /\ j = n + 1)
    <3>1. /\ i \in 1..Len(thread[u].stack) /\ j \in 1..Len(thread[u].stack)
          /\ thread'[u].stack[i] = thread[u].stack[i] /\ thread'[u].stack[j] = thread[u].stack[j]
      <4>1. CASE u = t
        <5>1. i \in 1..n /\ j \in 1..n
          BY <1>b, <2>2, <4>1
        <5> QED
          BY <1>b, <1>n, <4>1, <5>1
      <4>2. CASE u # t
        BY <1>b, <4>2
      <4> QED
        BY <4>1, <4>2
    <3> QED
      BY <3>1, StacksParts DEF LaterAbove
  <2> QED
    BY <2>1, <2>2
<1>9. Covered'
  <2>1. ASSUME NEW k \in CallId, NEW l \in CallId, Before(k, l), IsOpen(k)', IsOpen(l)', NEW u \in Thread,
               thread'[u].stack # <<>>, Last(thread'[u].stack) = <<"handleCall", k>>
        PROVE  FALSE
    <3>1. u # t
      BY <1>b, <2>1 DEF Last
    <3>2. thread[u].stack # <<>> /\ Last(thread[u].stack) = <<"handleCall", k>>
      BY <1>b, <2>1, <3>1
    <3>3. k # id
      BY <1>e, <3>2 DEF Last, StacksTyped
    <3>4. IsOpen(k)
      BY <1>c, <2>1, <3>3
    <3>5. l = id
      BY <1>c, <2>1, <3>2, <3>4, StacksParts DEF Covered
    <3>6. k[1] = id[1]
      BY <2>1, <3>5 DEF Before
    <3>7. n # 0
      BY <1>h, <3>4, <3>6
    <3>8. PICK m \in CallId : /\ OnTop(t, <<"handleCall", m>>) /\ IsOpen(m)
                              /\ m[1] = id[1]
                              /\ \A o \in CallId : Before(m, o) => ~IsOpen(o)
      BY <1>g, <3>7
    <3>9. k # m
      BY <3>1, <3>2, <3>8, TopIsOnly, SMTT(30) DEF Last, StacksTyped
    <3>10. Before(k, m)
      BY <3>4, <3>6, <3>8, <3>9, CallIds DEF Before
    <3> QED
      BY <3>2, <3>4, <3>8, <3>10, StacksParts DEF Covered
  <2>2. ASSUME NEW k \in CallId, thread'[k[1]].stack = <<>> PROVE ~IsOpen(k)'
    <3>1. k[1] \in Thread /\ k[1] # t /\ thread[k[1]].stack = <<>>
      BY <1>b, <2>2, Clients DEF StacksTyped
    <3>2. ~IsOpen(k)
      BY <3>1, StacksParts DEF Covered
    <3>3. k # id
      BY <1>g, <1>h, <3>1, StacksParts DEF Covered
    <3> QED
      BY <1>c, <3>2, <3>3
  <2> QED
    BY <2>1, <2>2 DEF Covered, Before
<1>10. FramesOwned'
  <2> SUFFICES ASSUME NEW u \in Thread, NEW i \in 1..Len(thread'[u].stack)
               PROVE  (LET f == thread[u].stack[i] IN
                       /\ Live(f) => thread[u].original_tid = Tid[f[2][1]]
                       /\ Process(u) = Home[f[2][1]] => u = f[2][1]
                       /\ u \in Client => f[2][1] = u
                       /\ u \in Client /\ i = 1 => f[1] = "client_call")'
    BY DEF FramesOwned, Process
  <2>1. thread'[u].original_tid = thread[u].original_tid
    BY DEF OpensCall, Pushed
  <2>2. CASE u = t /\ i = n + 1
    <3>1. CASE n = 0
      BY <1>b, <1>h, <2>1, <2>2, <3>1 DEF OpensCall, Process
    <3>2. CASE n # 0
      <4>1. PICK k \in CallId : thread[t].stack[n] = <<"handleCall", k>> /\ k[1] = id[1]
        BY <1>g, <3>2
      <4>2. n \in 1..Len(thread[t].stack)
        BY <1>b, <3>2, <1>n
      <4>3. /\ Process(t) = Home[k[1]] => t = k[1]
            /\ t \in Client => k[1] = t
        BY <4>1, <4>2, StacksParts DEF FramesOwned
      <4> QED
        BY <1>b, <2>1, <2>2, <3>2, <4>1, <4>3 DEF OpensCall, Process
    <3> QED
      BY <3>1, <3>2
  <2>3. CASE ~(u = t /\ i = n + 1)
    <3>1. /\ i \in 1..Len(thread[u].stack) /\ thread'[u].stack[i] = thread[u].stack[i]
          /\ thread[u].stack[i][2] \in CallId \ {id}
      BY <1>j, <2>3
    <3>2. Live(thread[u].stack[i])' <=> Live(thread[u].stack[i])
      BY <1>a, <3>1 DEF Live
    <3> QED
      BY <2>1, <3>1, <3>2, StacksParts DEF FramesOwned, Process
  <2> QED
    BY <2>2, <2>3
<1>11. UsedRight'
  <2>1. \A u \in Thread : thread'[u].used_connection = thread[u].used_connection
    BY DEF OpensCall, Pushed
  <2>2. ASSUME NEW u \in Thread, NEW i \in 1..Len(thread'[u].stack),
               thread'[u].stack[i][1] = "client_call", rpc'[thread'[u].stack[i][2]].used # None
        PROVE  Owner[rpc'[thread'[u].stack[i][2]].used] = Process(u)
    <3>1. CASE u = t /\ i = n + 1
      BY <1>a, <1>b, <2>2, <3>1, StacksParts, SMTT(30) DEF UsedRight
    <3>2. CASE ~(u = t /\ i = n + 1)
      <4>1. /\ i \in 1..Len(thread[u].stack) /\ thread'[u].stack[i] = thread[u].stack[i]
            /\ thread[u].stack[i][2] \in CallId \ {id}
        BY <1>j, <3>2
      <4>2. rpc'[thread[u].stack[i][2]] = rpc[thread[u].stack[i][2]]
        BY <1>a, <4>1
      <4> QED
        BY <2>2, <4>1, <4>2, StacksParts DEF UsedRight
    <3> QED
      BY <3>1, <3>2
  <2>3. ASSUME NEW u \in Thread, NEW k \in CallId,
               thread'[u].stack # <<>> /\ Last(thread'[u].stack) = <<"handleCall", k>>,
               rpc'[k].server = "running"
        PROVE  thread'[u].used_connection = ServedAt(k)'
    <3>1. u # t /\ k # id
      BY <1>a, <1>b, <2>3 DEF Last
    <3> QED
      BY <1>a, <1>b, <1>c, <2>1, <2>3, <3>1, StacksParts DEF UsedRight
  <2> QED
    BY <2>1, <2>2, <2>3, StacksParts DEF UsedRight
<1> QED
  BY <1>1, <1>2, <1>3, <1>4, <1>5, <1>6, <1>7, <1>8, <1>9, <1>10, <1>11 DEF StacksRight

-----------------------------------------------------------------------------
\* Where the frames of a stack are after one was pushed, or popped.
LEMMA PushedFrames ==
    ASSUME StacksTyped, NEW t \in Thread, NEW f, Pushed(t, f),
           NEW u \in Thread, NEW i \in 1..Len(thread'[u].stack)
    PROVE  \/ /\ u = t /\ i = Len(thread[t].stack) + 1 /\ i = Len(thread'[t].stack)
              /\ thread'[u].stack[i] = f
           \/ /\ i \in 1..Len(thread[u].stack) /\ thread'[u].stack[i] = thread[u].stack[i]
              /\ u # t => (i < Len(thread'[u].stack) <=> i < Len(thread[u].stack))
<1>1. PICK n \in Nat : n = Len(thread[t].stack)
  BY DEF StacksTyped
<1>2. /\ Len(thread'[t].stack) = n + 1 /\ thread'[t].stack[n + 1] = f
      /\ \A j \in 1..n : thread'[t].stack[j] = thread[t].stack[j]
      /\ \A v \in Thread \ {t} : thread'[v].stack = thread[v].stack
  BY <1>1 DEF Pushed
<1>3. CASE u = t
  BY <1>1, <1>2, <1>3
<1>4. CASE u # t
  BY <1>2, <1>4
<1> QED
  BY <1>3, <1>4

\* Who had a frame keeps it, and where it was.
LEMMA PushedKeeps ==
    ASSUME StacksTyped, NEW t \in Thread, NEW f, Pushed(t, f),
           NEW u \in Thread, NEW i \in 1..Len(thread[u].stack)
    PROVE  i \in 1..Len(thread'[u].stack) /\ thread'[u].stack[i] = thread[u].stack[i]
<1>1. PICK n \in Nat : n = Len(thread[t].stack)
  BY DEF StacksTyped
<1>2. /\ Len(thread'[t].stack) = n + 1
      /\ \A j \in 1..n : thread'[t].stack[j] = thread[t].stack[j]
      /\ \A v \in Thread \ {t} : thread'[v].stack = thread[v].stack
  BY <1>1 DEF Pushed
<1>3. CASE u = t
  BY <1>1, <1>2, <1>3
<1>4. CASE u # t
  BY <1>2, <1>4
<1> QED
  BY <1>3, <1>4

\* The frames of a stack are those left and the one that went.
LEMMA PoppedFrames ==
    ASSUME StacksTyped, NEW t \in Thread, Popped(t),
           NEW u \in Thread, NEW i \in 1..Len(thread'[u].stack)
    PROVE  /\ i \in 1..Len(thread[u].stack) /\ thread'[u].stack[i] = thread[u].stack[i]
           /\ i < Len(thread'[u].stack) => i < Len(thread[u].stack)
           /\ u = t => i < Len(thread[t].stack)
<1>1. PICK n \in Nat : n = Len(thread[t].stack)
  BY DEF StacksTyped
<1>2. /\ Len(thread'[t].stack) = n - 1
      /\ \A j \in 1..n - 1 : thread'[t].stack[j] = thread[t].stack[j]
      /\ \A v \in Thread \ {t} : thread'[v].stack = thread[v].stack
  BY <1>1 DEF Popped
<1>3. CASE u = t
  BY <1>1, <1>2, <1>3
<1>4. CASE u # t
  BY <1>2, <1>4
<1> QED
  BY <1>3, <1>4

\* Who has a frame had it, and where it is.
LEMMA PoppedKeeps ==
    ASSUME StacksTyped, NEW t \in Thread, Popped(t),
           NEW u \in Thread, NEW i \in 1..Len(thread[u].stack), u = t => i # Len(thread[t].stack)
    PROVE  i \in 1..Len(thread'[u].stack) /\ thread'[u].stack[i] = thread[u].stack[i]
<1>1. PICK n \in Nat : n = Len(thread[t].stack)
  BY DEF StacksTyped
<1>2. /\ Len(thread'[t].stack) = n - 1
      /\ \A j \in 1..n - 1 : thread'[t].stack[j] = thread[t].stack[j]
      /\ \A v \in Thread \ {t} : thread'[v].stack = thread[v].stack
  BY <1>1 DEF Popped
<1>3. CASE u = t
  <2>1. i \in 1..n - 1
    BY <1>1, <1>3
  <2> QED
    BY <1>2, <1>3, <2>1
<1>4. CASE u # t
  BY <1>2, <1>4
<1> QED
  BY <1>3, <1>4

\* StacksRight stays when a thread takes a call that was posted.
LEMMA TakesCallStacks ==
    ASSUME StacksRight, StacksTyped, StacksTyped', FramesTyped, FramesTyped',
           NEW t \in Thread, NEW id \in CallId, TakesCall(t, id)
    PROVE  StacksRight'
<1> DEFINE new == <<"handleCall", id>>
<1>a. /\ \A k \in CallId : /\ rpc'[k].client = rpc[k].client
                           /\ rpc'[k].conn = rpc[k].conn /\ rpc'[k].used = rpc[k].used
                           /\ IsOpen(k)' <=> IsOpen(k)
                           /\ ServedAt(k)' = ServedAt(k)
                           /\ k # id => rpc'[k].server = rpc[k].server
      /\ rpc[id].client = "wait" /\ rpc[id].server = "posted" /\ rpc'[id].server = "running"
  BY DEF TakesCall, CallsBut, SameMade, IsOpen, ServedAt
<1>b. Pushed(t, new)
  BY DEF TakesCall
<1>c. \A u \in Thread : \A i \in 1..Len(thread[u].stack) : thread[u].stack[i] # new
  BY <1>a, StacksParts DEF FramesPlaced, Inside
<1>d. ASSUME NEW u \in Thread, NEW i \in 1..Len(thread'[u].stack)
      PROVE  \/ u = t /\ i = Len(thread[t].stack) + 1 /\ thread'[u].stack[i] = new
             \/ /\ i \in 1..Len(thread[u].stack) /\ thread'[u].stack[i] = thread[u].stack[i]
                /\ thread[u].stack[i] # new
                /\ thread[u].stack[i][2] \in CallId
                /\ thread[u].stack[i] = <<thread[u].stack[i][1], thread[u].stack[i][2]>>
  BY <1>b, <1>c, PushedFrames, ZenonT(60) DEF StacksTyped
<1>e. \A l \in CallId : Before(id, l) => ~IsOpen(l)
  BY <1>a, StacksParts DEF CallsNest, IsOpen
<1> HIDE DEF new
<1>1. EndsAgree'
  <2> SUFFICES ASSUME NEW k \in CallId
               PROVE  (/\ rpc[k].client \notin {"wait", "return", "done"} => rpc[k].server = "none"
                       /\ rpc[k].client \in {"return", "done"} => rpc[k].server \in Through
                       /\ rpc[k].client # "none" => rpc[k].conn \in Conn /\ rpc[k].tid = Tid[k[1]]
                       /\ rpc[k].server \in {"reply", "sending"} => rpc[k].rtid = Tid[k[1]]
                       /\ rpc[k].server \in {"release", "reply", "sending"} \cup Through
                            => rpc[k].served = "Success"
                       /\ rpc[k].reply \in {None, k})'
    BY DEF EndsAgree
  <2>1. CASE k # id
    BY <2>1, StacksParts DEF EndsAgree, TakesCall, CallsBut
  <2>2. CASE k = id
    BY <1>a, <2>2, StacksParts DEF EndsAgree, TakesCall, SameAnswer, SameMade, Through
  <2> QED
    BY <2>1, <2>2
<1>2. CallsNest'
  <2> SUFFICES ASSUME NEW k \in CallId, NEW l \in CallId, Before(k, l)
               PROVE  /\ rpc'[k].client = "none" => rpc'[l].client = "none"
                      /\ IsOpen(k)' /\ IsOpen(l)' => rpc'[k].client = "wait" /\ rpc'[k].server = "running"
    BY DEF CallsNest, Before
  <2>1. /\ rpc[k].client = "none" => rpc[l].client = "none"
        /\ IsOpen(k) /\ IsOpen(l) => rpc[k].client = "wait" /\ rpc[k].server = "running"
    BY StacksParts DEF CallsNest
  <2> QED
    BY <1>a, <2>1
<1>3. FramesApart'
  <2> SUFFICES ASSUME NEW u \in Thread, NEW v \in Thread,
                      NEW i \in 1..Len(thread'[u].stack), NEW j \in 1..Len(thread'[v].stack),
                      thread'[u].stack[i] = thread'[v].stack[j]
               PROVE  u = v /\ i = j
    BY DEF FramesApart
  <2>1. CASE u = t /\ i = Len(thread[t].stack) + 1
    <3>1. thread'[u].stack[i] = new
      BY <1>b, <2>1 DEF Pushed
    <3> QED
      BY <1>d, <2>1, <3>1
  <2>2. CASE v = t /\ j = Len(thread[t].stack) + 1
    <3>1. thread'[v].stack[j] = new
      BY <1>b, <2>2 DEF Pushed
    <3> QED
      BY <1>d, <2>2, <3>1
  <2>3. CASE ~(u = t /\ i = Len(thread[t].stack) + 1) /\ ~(v = t /\ j = Len(thread[t].stack) + 1)
    BY <1>d, <2>3, StacksParts DEF FramesApart
  <2> QED
    BY <2>1, <2>2, <2>3
<1>4. FramesPlaced'
  <2> SUFFICES ASSUME NEW u \in Thread, NEW i \in 1..Len(thread'[u].stack)
               PROVE  (LET f == thread[u].stack[i] IN
                       /\ f[1] = "client_call" => IsOpen(f[2]) /\ Owner[rpc[f[2]].conn] = Process(u)
                       /\ f[1] = "handleCall" => rpc[f[2]].server \in Inside /\ Owner[ServedAt(f[2])] = Process(u))'
    BY DEF FramesPlaced, Process
  <2>1. CASE u = t /\ i = Len(thread[t].stack) + 1
    <3>1. thread'[u].stack[i] = new
      BY <1>d, <2>1
    <3> QED
      BY <1>a, <2>1, <3>1 DEF TakesCall, Process, new, Inside
  <2>2. CASE ~(u = t /\ i = Len(thread[t].stack) + 1)
    <3> DEFINE f == thread[u].stack[i]
    <3>1. /\ i \in 1..Len(thread[u].stack) /\ thread'[u].stack[i] = f
          /\ f[2] \in CallId /\ (f[1] = "handleCall" => f[2] # id)
      BY <1>d, <2>2 DEF new
    <3> QED
      BY <1>a, <3>1, StacksParts, SMTT(30) DEF FramesPlaced, Process
  <2> QED
    BY <2>1, <2>2
<1>5. CallsFramed'
  <2> SUFFICES ASSUME NEW k \in CallId, IsOpen(k)'
               PROVE  \E u \in Thread : \E i \in 1..Len(thread'[u].stack) :
                        thread'[u].stack[i] = <<"client_call", k>>
    BY IsFrame DEF CallsFramed, FramesTyped
  <2>1. PICK u \in Thread : <<"client_call", k>> \in Frames(u)
    BY <1>a, StacksParts DEF CallsFramed
  <2>2. PICK i \in 1..Len(thread[u].stack) : thread[u].stack[i] = <<"client_call", k>>
    BY <2>1, IsFrame DEF FramesTyped
  <2>3. i \in 1..Len(thread'[u].stack) /\ thread'[u].stack[i] = <<"client_call", k>>
    BY <1>b, <2>2, PushedKeeps
  <2> QED
    BY <2>3
<1>6. InnerFramesWait'
  <2> SUFFICES ASSUME NEW u \in Thread, NEW i \in 1..Len(thread'[u].stack), i < Len(thread'[u].stack)
               PROVE  (LET f == thread[u].stack[i] IN
                       /\ f[1] = "client_call" => rpc[f[2]].client = "wait"
                       /\ f[1] = "handleCall" => rpc[f[2]].server = "running")'
    BY DEF InnerFramesWait
  <2> DEFINE f == thread[u].stack[i]
  <2>1. Len(thread[t].stack) \in Nat /\ Len(thread'[t].stack) = Len(thread[t].stack) + 1
    BY <1>b DEF Pushed, StacksTyped
  <2>2. /\ i \in 1..Len(thread[u].stack) /\ thread'[u].stack[i] = f
        /\ f[2] \in CallId /\ (f[1] = "handleCall" => f[2] # id)
    BY <1>d, <2>1 DEF new
  <2>3. CASE u = t /\ i = Len(thread[t].stack)
    <3>1. PICK k \in CallId : OnTop(t, <<"client_call", k>>) /\ rpc[k].client = "wait"
      BY <2>2, <2>3 DEF TakesCall
    <3>2. f = <<"client_call", k>>
      BY <2>3, <3>1 DEF OnTop
    <3> QED
      BY <1>a, <2>2, <3>1, <3>2
  <2>4. CASE ~(u = t /\ i = Len(thread[t].stack))
    <3>1. i < Len(thread[u].stack)
      <4>1. CASE u = t
        BY <2>1, <2>2, <2>4, <4>1
      <4>2. CASE u # t
        BY <1>b, <4>2 DEF Pushed
      <4> QED
        BY <4>1, <4>2
    <3> QED
      BY <1>a, <2>2, <3>1, StacksParts DEF InnerFramesWait
  <2> QED
    BY <2>3, <2>4
<1>7. FramesNest'
  <2> SUFFICES ASSUME NEW u \in Thread
               PROVE  /\ thread'[u].stack # <<>> => FirstFrame(u)'
                      /\ \A i \in 1..Len(thread'[u].stack) - 1 : NextFrame(u, i)'
    BY DEF FramesNest
  <2>1. thread'[u].stack # <<>> => FirstFrame(u)'
    <3> SUFFICES ASSUME thread'[u].stack # <<>>, thread'[u].stack[1][1] = "client_call"
                 PROVE  /\ u = thread'[u].stack[1][2][1]
                        /\ \A k \in CallId : Before(k, thread'[u].stack[1][2]) => ~IsOpen(k)'
      BY DEF FirstFrame
    <3>1. 1 \in 1..Len(thread'[u].stack)
      BY DEF StacksTyped
    <3>2. 1 \in 1..Len(thread[u].stack) /\ thread'[u].stack[1] = thread[u].stack[1]
      BY <1>d, <3>1 DEF new
    <3>3. thread[u].stack # <<>>
      BY <3>2 DEF StacksTyped
    <3> QED
      BY <1>a, <3>2, <3>3, StacksParts DEF FramesNest, FirstFrame
  <2>2. ASSUME NEW i \in 1..Len(thread'[u].stack) - 1 PROVE NextFrame(u, i)'
    <3>1. i \in 1..Len(thread'[u].stack) /\ i + 1 \in 1..Len(thread'[u].stack)
      BY DEF StacksTyped
    <3>2. Len(thread[t].stack) \in Nat /\ Len(thread'[t].stack) = Len(thread[t].stack) + 1
      BY <1>b DEF Pushed, StacksTyped
    <3>3. i \in 1..Len(thread[u].stack) /\ thread'[u].stack[i] = thread[u].stack[i]
      BY <1>d, <3>1, <3>2, SMTT(30)
    <3>4. CASE u = t /\ i = Len(thread[t].stack)
      <4>1. PICK k \in CallId : OnTop(t, <<"client_call", k>>)
        BY <3>3, <3>4 DEF TakesCall
      <4>2. thread'[u].stack[i] = <<"client_call", k>>
        BY <3>3, <3>4, <4>1 DEF OnTop
      <4>3. thread'[u].stack[i + 1] = <<"handleCall", id>>
        BY <1>b, <3>4 DEF Pushed, new
      <4> QED
        BY <4>2, <4>3 DEF NextFrame
    <3>5. CASE ~(u = t /\ i = Len(thread[t].stack))
      <4> DEFINE f == thread[u].stack[i]
                 g == thread[u].stack[i + 1]
      <4>1. i + 1 \in 1..Len(thread[u].stack) /\ thread'[u].stack[i + 1] = g
        BY <1>d, <3>1, <3>2, <3>5
      <4>2. f[2] \in CallId /\ g[2] \in CallId /\ i \in 1..Len(thread[u].stack) - 1
        BY <3>3, <4>1 DEF StacksTyped
      <4>3. NextFrame(u, i)
        BY <4>2, StacksParts DEF FramesNest
      <4> QED
        BY <1>a, <3>3, <4>1, <4>2, <4>3 DEF NextFrame
    <3> QED
      BY <3>4, <3>5
  <2> QED
    BY <2>1, <2>2
<1>8. LaterAbove'
  <2> SUFFICES ASSUME NEW u \in Thread, NEW i \in 1..Len(thread'[u].stack),
                      NEW j \in 1..Len(thread'[u].stack), i < j,
                      thread'[u].stack[i][1] = "client_call", thread'[u].stack[j][1] = "client_call"
               PROVE  Before(thread'[u].stack[i][2], thread'[u].stack[j][2])
    BY DEF LaterAbove, Before
  <2>1. /\ i \in 1..Len(thread[u].stack) /\ j \in 1..Len(thread[u].stack)
        /\ thread'[u].stack[i] = thread[u].stack[i] /\ thread'[u].stack[j] = thread[u].stack[j]
    BY <1>d DEF new
  <2> QED
    BY <2>1, StacksParts DEF LaterAbove
<1>9. Covered'
  <2>1. ASSUME NEW k \in CallId, NEW l \in CallId, Before(k, l), IsOpen(k)', IsOpen(l)', NEW u \in Thread,
               thread'[u].stack # <<>>, Last(thread'[u].stack) = <<"handleCall", k>>
        PROVE  FALSE
    <3>1. CASE u = t
      <4>1. k = id
        BY <1>b, <2>1, <3>1 DEF Last, Pushed, new
      <4> QED
        BY <1>a, <1>e, <2>1, <4>1
    <3>2. CASE u # t
      <4>1. thread[u].stack = thread'[u].stack
        BY <1>b, <3>2 DEF Pushed
      <4> QED
        BY <1>a, <2>1, <4>1, StacksParts DEF Covered
    <3> QED
      BY <3>1, <3>2
  <2>2. ASSUME NEW k \in CallId, thread'[k[1]].stack = <<>> PROVE ~IsOpen(k)'
    <3>1. k[1] \in Thread /\ thread[k[1]].stack = <<>>
      BY <1>b, <2>2, Clients DEF StacksTyped, Pushed
    <3> QED
      BY <1>a, <3>1, StacksParts DEF Covered
  <2> QED
    BY <2>1, <2>2 DEF Covered, Before
<1>10. FramesOwned'
  <2> SUFFICES ASSUME NEW u \in Thread, NEW i \in 1..Len(thread'[u].stack)
               PROVE  (LET f == thread[u].stack[i] IN
                       /\ Live(f) => thread[u].original_tid = Tid[f[2][1]]
                       /\ Process(u) = Home[f[2][1]] => u = f[2][1]
                       /\ u \in Client => f[2][1] = u
                       /\ u \in Client /\ i = 1 => f[1] = "client_call")'
    BY DEF FramesOwned, Process
  <2>1. thread'[u].original_tid = thread[u].original_tid
    BY <1>b DEF Pushed
  <2>2. CASE u = t /\ i = Len(thread[t].stack) + 1
    <3>1. thread'[u].stack[i] = <<"handleCall", id>>
      BY <1>d, <2>2 DEF new
    <3>2. i = 1 => u \notin Client
      BY <2>2 DEF TakesCall, OnTop, StacksTyped
    <3> QED
      BY <2>1, <2>2, <3>1, <3>2 DEF TakesCall, Process
  <2>3. CASE ~(u = t /\ i = Len(thread[t].stack) + 1)
    <3>1. /\ i \in 1..Len(thread[u].stack) /\ thread'[u].stack[i] = thread[u].stack[i]
          /\ thread[u].stack[i][2] \in CallId
          /\ thread[u].stack[i][1] = "client_call" \/ thread[u].stack[i][2] # id
      BY <1>d, <2>3 DEF new, StacksTyped
    <3>2. Live(thread[u].stack[i])' <=> Live(thread[u].stack[i])
      BY <1>a, <3>1 DEF Live
    <3> QED
      BY <2>1, <3>1, <3>2, StacksParts DEF FramesOwned, Process
  <2> QED
    BY <2>2, <2>3
<1>11. UsedRight'
  <2>1. \A u \in Thread : thread'[u].used_connection # None =>
            Owner[thread'[u].used_connection] = Process(u)
    BY <1>b, StacksParts DEF UsedRight, TakesCall, Pushed
  <2>2. ASSUME NEW u \in Thread, NEW i \in 1..Len(thread'[u].stack),
               thread'[u].stack[i][1] = "client_call", rpc'[thread'[u].stack[i][2]].used # None
        PROVE  Owner[rpc'[thread'[u].stack[i][2]].used] = Process(u)
    <3>1. /\ i \in 1..Len(thread[u].stack) /\ thread'[u].stack[i] = thread[u].stack[i]
          /\ thread[u].stack[i][2] \in CallId
      BY <1>d, <2>2 DEF new
    <3> QED
      BY <1>a, <2>2, <3>1, StacksParts, SMTT(30) DEF UsedRight
  <2>3. ASSUME NEW u \in Thread, NEW k \in CallId,
               thread'[u].stack # <<>> /\ Last(thread'[u].stack) = <<"handleCall", k>>,
               rpc'[k].server = "running"
        PROVE  thread'[u].used_connection = ServedAt(k)'
    <3>1. CASE u = t
      <4>1. k = id
        BY <1>b, <2>3, <3>1 DEF Last, Pushed, new
      <4> QED
        BY <1>a, <3>1, <4>1 DEF TakesCall
    <3>2. CASE u # t
      <4>1. thread[u].stack = thread'[u].stack /\ thread[u].used_connection = thread'[u].used_connection
        BY <1>b, <3>2 DEF Pushed
      <4>2. k # id
        BY <1>c, <2>3, <4>1 DEF new, Last, StacksTyped
      <4> QED
        BY <1>a, <2>3, <4>1, <4>2, StacksParts DEF UsedRight
    <3> QED
      BY <3>1, <3>2
  <2> QED
    BY <2>1, <2>2, <2>3 DEF UsedRight
<1> QED
  BY <1>1, <1>2, <1>3, <1>4, <1>5, <1>6, <1>7, <1>8, <1>9, <1>10, <1>11 DEF StacksRight

-----------------------------------------------------------------------------
Pops(t, id) == CallReturns(t, id) \/ HandlerLeaves(t, id)

\* What stays as it is when a frame is popped.
LEMMA PopChanges ==
    ASSUME NEW t \in Thread, NEW id \in CallId, Pops(t, id)
    PROVE  /\ \A k \in CallId : /\ rpc'[k].conn = rpc[k].conn /\ rpc'[k].used = rpc[k].used
                                /\ ServedAt(k)' = ServedAt(k)
                                /\ IsOpen(k)' => IsOpen(k)
                                /\ k # id => rpc'[k] = rpc[k] /\ (IsOpen(k)' <=> IsOpen(k))
           /\ Popped(t)
           /\ \/ /\ OnTop(t, <<"client_call", id>>)
                 /\ rpc'[id].server = rpc[id].server
              \/ /\ OnTop(t, <<"handleCall", id>>)
                 /\ rpc'[id].client = rpc[id].client
<1>1. Popped(t) /\ CallsBut(id) /\ SameMade(id) /\ (IsOpen(id)' => IsOpen(id))
  BY DEF Pops, CallReturns, HandlerLeaves, IsOpen
<1>2. \A k \in CallId : /\ k # id => rpc'[k] = rpc[k]
                        /\ rpc'[k].conn = rpc[k].conn /\ rpc'[k].used = rpc[k].used
  BY <1>1 DEF CallsBut, SameMade
<1>3. \A k \in CallId : ServedAt(k)' = ServedAt(k)
  BY <1>2 DEF ServedAt
<1>4. \A k \in CallId : /\ IsOpen(k)' => IsOpen(k)
                        /\ k # id => (IsOpen(k)' <=> IsOpen(k))
  BY <1>1, <1>2 DEF IsOpen
<1>5. \/ /\ OnTop(t, <<"client_call", id>>)
         /\ rpc'[id].server = rpc[id].server
      \/ /\ OnTop(t, <<"handleCall", id>>)
         /\ rpc'[id].client = rpc[id].client
  BY DEF Pops, CallReturns, HandlerLeaves
<1> QED
  BY <1>1, <1>2, <1>3, <1>4, <1>5

\* The frames that are left are of other calls, or of the other end.
LEMMA PopFrames ==
    ASSUME StacksRight, StacksTyped, NEW t \in Thread, NEW id \in CallId, Pops(t, id),
           NEW u \in Thread, NEW i \in 1..Len(thread'[u].stack)
    PROVE  LET f == thread[u].stack[i] IN
           /\ i \in 1..Len(thread[u].stack) /\ thread'[u].stack[i] = f
           /\ f[2] \in CallId /\ f = <<f[1], f[2]>> /\ f[1] \in {"client_call", "handleCall"}
           /\ f[1] = "client_call" => rpc'[f[2]].client = rpc[f[2]].client
           /\ f[1] = "handleCall" => rpc'[f[2]].server = rpc[f[2]].server
           /\ i < Len(thread'[u].stack) => i < Len(thread[u].stack)
           /\ u = t => i < Len(thread[t].stack)
<1> DEFINE f == thread[u].stack[i]
<1>1. /\ i \in 1..Len(thread[u].stack) /\ thread'[u].stack[i] = f
      /\ i < Len(thread'[u].stack) => i < Len(thread[u].stack)
      /\ u = t => i < Len(thread[t].stack)
  BY PopChanges, PoppedFrames
<1>2. f[2] \in CallId /\ f = <<f[1], f[2]>> /\ f[1] \in {"client_call", "handleCall"}
  BY <1>1 DEF StacksTyped
<1>3. f # thread[t].stack[Len(thread[t].stack)]
  <2>1. OnTop(t, thread[t].stack[Len(thread[t].stack)])
    BY PopChanges DEF OnTop
  <2> QED
    BY <1>1, <2>1, TopIsOnly
<1>4. /\ f[1] = "client_call" => rpc'[f[2]].client = rpc[f[2]].client
      /\ f[1] = "handleCall" => rpc'[f[2]].server = rpc[f[2]].server
  <2>1. CASE f[2] # id
    <3>1. rpc'[f[2]] = rpc[f[2]]
      BY <1>2, <2>1, PopChanges
    <3> QED
      BY <3>1
  <2>2. CASE f[2] = id
    <3>1. \/ /\ f # <<"client_call", id>>
             /\ rpc'[id].server = rpc[id].server
          \/ /\ f # <<"handleCall", id>>
             /\ rpc'[id].client = rpc[id].client
      BY <1>3, PopChanges DEF OnTop
    <3> QED
      BY <1>2, <2>2, <3>1
  <2> QED
    BY <2>1, <2>2
<1> QED
  BY <1>1, <1>2, <1>4

\* What is said of frames alone stays when a stack loses its top.
LEMMA PopStacks ==
    ASSUME StacksRight, StacksTyped, StacksTyped', NEW t \in Thread, NEW id \in CallId, Pops(t, id)
    PROVE  FramesApart' /\ FramesPlaced' /\ InnerFramesWait' /\ LaterAbove' /\ FramesOwned'
<1>1. FramesApart'
  <2> SUFFICES ASSUME NEW u \in Thread, NEW v \in Thread,
                      NEW i \in 1..Len(thread'[u].stack), NEW j \in 1..Len(thread'[v].stack),
                      thread'[u].stack[i] = thread'[v].stack[j]
               PROVE  u = v /\ i = j
    BY DEF FramesApart
  <2>1. i \in 1..Len(thread[u].stack) /\ thread'[u].stack[i] = thread[u].stack[i]
    BY PopFrames
  <2>2. j \in 1..Len(thread[v].stack) /\ thread'[v].stack[j] = thread[v].stack[j]
    BY PopFrames
  <2>3. thread[u].stack[i] = thread[v].stack[j]
    BY <2>1, <2>2
  <2> QED
    BY <2>1, <2>2, <2>3, StacksParts DEF FramesApart
<1>2. FramesPlaced'
  <2> SUFFICES ASSUME NEW u \in Thread, NEW i \in 1..Len(thread'[u].stack)
               PROVE  (LET f == thread[u].stack[i] IN
                       /\ f[1] = "client_call" => IsOpen(f[2]) /\ Owner[rpc[f[2]].conn] = Process(u)
                       /\ f[1] = "handleCall" => rpc[f[2]].server \in Inside /\ Owner[ServedAt(f[2])] = Process(u))'
    BY DEF FramesPlaced, Process
  <2> DEFINE f == thread[u].stack[i]
  <2>1. /\ i \in 1..Len(thread[u].stack) /\ thread'[u].stack[i] = f /\ f[2] \in CallId
        /\ f[1] = "client_call" => rpc'[f[2]].client = rpc[f[2]].client
        /\ f[1] = "handleCall" => rpc'[f[2]].server = rpc[f[2]].server
    BY PopFrames
  <2>2. /\ rpc'[f[2]].conn = rpc[f[2]].conn
        /\ ServedAt(f[2])' = ServedAt(f[2])
    <3>1. \A k \in CallId : rpc'[k].conn = rpc[k].conn /\ ServedAt(k)' = ServedAt(k)
      BY PopChanges
    <3>2. f[2] \in CallId
      BY <2>1
    <3>3. ServedAt(f[2])' = ServedAt(thread[u].stack[i][2])
      BY <2>1, <3>1, <3>2 DEF ServedAt
    <3> QED
      BY <3>1, <3>2, <3>3
  <2>3. f[1] = "client_call" => (IsOpen(f[2])' <=> IsOpen(f[2]))
    BY <2>1 DEF IsOpen
  <2> QED
    BY <2>1, <2>2, <2>3, StacksParts, ZenonT(60) DEF FramesPlaced, Process, ServedAt, IsOpen
<1>3. InnerFramesWait'
  <2> SUFFICES ASSUME NEW u \in Thread, NEW i \in 1..Len(thread'[u].stack), i < Len(thread'[u].stack)
               PROVE  (LET f == thread[u].stack[i] IN
                       /\ f[1] = "client_call" => rpc[f[2]].client = "wait"
                       /\ f[1] = "handleCall" => rpc[f[2]].server = "running")'
    BY DEF InnerFramesWait
  <2> DEFINE f == thread[u].stack[i]
  <2>1. /\ i \in 1..Len(thread[u].stack) /\ thread'[u].stack[i] = f
        /\ i < Len(thread[u].stack)
        /\ f[1] = "client_call" => rpc'[f[2]].client = rpc[f[2]].client
        /\ f[1] = "handleCall" => rpc'[f[2]].server = rpc[f[2]].server
    BY PopFrames
  <2> QED
    BY <2>1, StacksParts DEF InnerFramesWait
<1>4. LaterAbove'
  <2> SUFFICES ASSUME NEW u \in Thread, NEW i \in 1..Len(thread'[u].stack),
                      NEW j \in 1..Len(thread'[u].stack), i < j,
                      thread'[u].stack[i][1] = "client_call", thread'[u].stack[j][1] = "client_call"
               PROVE  Before(thread'[u].stack[i][2], thread'[u].stack[j][2])
    BY DEF LaterAbove, Before
  <2>1. i \in 1..Len(thread[u].stack) /\ thread'[u].stack[i] = thread[u].stack[i]
    BY PopFrames
  <2>2. j \in 1..Len(thread[u].stack) /\ thread'[u].stack[j] = thread[u].stack[j]
    BY PopFrames
  <2> QED
    BY <2>1, <2>2, StacksParts DEF LaterAbove
<1>5. FramesOwned'
  <2> SUFFICES ASSUME NEW u \in Thread, NEW i \in 1..Len(thread'[u].stack)
               PROVE  (LET f == thread[u].stack[i] IN
                       /\ Live(f) => thread[u].original_tid = Tid[f[2][1]]
                       /\ Process(u) = Home[f[2][1]] => u = f[2][1]
                       /\ u \in Client => f[2][1] = u
                       /\ u \in Client /\ i = 1 => f[1] = "client_call")'
    BY DEF FramesOwned, Process
  <2> DEFINE f == thread[u].stack[i]
  <2>1. /\ i \in 1..Len(thread[u].stack) /\ thread'[u].stack[i] = f
        /\ f[1] \in {"client_call", "handleCall"}
        /\ f[1] = "handleCall" => rpc'[f[2]].server = rpc[f[2]].server
    BY PopFrames
  <2>2. thread'[u].original_tid = thread[u].original_tid
    BY PopChanges DEF Popped
  <2>3. Live(f)' <=> Live(f)
    BY <2>1 DEF Live
  <2> QED
    BY <2>1, <2>2, <2>3, StacksParts, SMTT(30) DEF FramesOwned, Process, Live
<1> QED
  BY <1>1, <1>2, <1>3, <1>4, <1>5

\* The frames left lie one within the other still.
LEMMA PopNest ==
    ASSUME StacksRight, StacksTyped, StacksTyped', NEW t \in Thread, NEW id \in CallId, Pops(t, id)
    PROVE  FramesNest'
<1> SUFFICES ASSUME NEW u \in Thread
             PROVE  /\ thread'[u].stack # <<>> => FirstFrame(u)'
                    /\ \A i \in 1..Len(thread'[u].stack) - 1 : NextFrame(u, i)'
  BY DEF FramesNest
<1>1. \A k \in CallId : /\ IsOpen(k)' => IsOpen(k)
                        /\ rpc'[k].used = rpc[k].used /\ ServedAt(k)' = ServedAt(k)
  BY PopChanges
<1>2. thread'[u].stack # <<>> => FirstFrame(u)'
  <2> SUFFICES ASSUME thread'[u].stack # <<>>, thread'[u].stack[1][1] = "client_call"
               PROVE  /\ u = thread'[u].stack[1][2][1]
                      /\ \A k \in CallId : Before(k, thread'[u].stack[1][2]) => ~IsOpen(k)'
    BY DEF FirstFrame
  <2>1. 1 \in 1..Len(thread'[u].stack)
    BY DEF StacksTyped
  <2>2. 1 \in 1..Len(thread[u].stack) /\ thread'[u].stack[1] = thread[u].stack[1]
    BY <2>1, PopFrames
  <2>3. thread[u].stack # <<>>
    BY <2>2 DEF StacksTyped
  <2> QED
    BY <1>1, <2>2, <2>3, StacksParts DEF FramesNest, FirstFrame
<1>3. ASSUME NEW i \in 1..Len(thread'[u].stack) - 1 PROVE NextFrame(u, i)'
  <2> DEFINE f == thread[u].stack[i]
             g == thread[u].stack[i + 1]
  <2>1. i \in 1..Len(thread'[u].stack) /\ i + 1 \in 1..Len(thread'[u].stack)
    BY DEF StacksTyped
  <2>2. i \in 1..Len(thread[u].stack) /\ thread'[u].stack[i] = f /\ f[2] \in CallId
    BY <2>1, PopFrames
  <2>3. i + 1 \in 1..Len(thread[u].stack) /\ thread'[u].stack[i + 1] = g /\ g[2] \in CallId
    BY <2>1, PopFrames
  <2>4. NextFrame(u, i)
    <3>1. i \in 1..Len(thread[u].stack) - 1
      BY <2>3 DEF StacksTyped
    <3> QED
      BY <3>1, StacksParts DEF FramesNest
  <2> QED
    BY <1>1, <2>2, <2>3, <2>4 DEF NextFrame
<1> QED
  BY <1>2, <1>3

\* The connection in use is that of the handler now on top.
LEMMA PopUsed ==
    ASSUME StacksRight, StacksTyped, NEW t \in Thread, NEW id \in CallId, Pops(t, id)
    PROVE  \A u \in Thread : \A i \in 1..Len(thread'[u].stack) :
             (LET f == thread[u].stack[i] IN
              f[1] = "client_call" /\ rpc[f[2]].used # None => Owner[rpc[f[2]].used] = Process(u))'
<1> SUFFICES ASSUME NEW u \in Thread, NEW i \in 1..Len(thread'[u].stack)
             PROVE  (LET f == thread[u].stack[i] IN
                     f[1] = "client_call" /\ rpc[f[2]].used # None => Owner[rpc[f[2]].used] = Process(u))'
  OBVIOUS
<1> DEFINE f == thread[u].stack[i]
<1>1. i \in 1..Len(thread[u].stack) /\ thread'[u].stack[i] = f /\ f[2] \in CallId
  BY PopFrames
<1>2. rpc'[f[2]].used = rpc[f[2]].used
  BY <1>1, PopChanges
<1> QED
  BY <1>1, <1>2, StacksParts, ZenonT(60) DEF UsedRight, Process

\* StacksRight stays when client_call returns.
LEMMA CallReturnsStacks ==
    ASSUME StacksRight, StacksTyped, StacksTyped', FramesTyped, FramesTyped',
           NEW t \in Thread, NEW id \in CallId, CallReturns(t, id)
    PROVE  StacksRight'
<1>a. /\ \A k \in CallId : /\ rpc'[k].server = rpc[k].server
                           /\ ServedAt(k)' = ServedAt(k)
                           /\ k # id => rpc'[k] = rpc[k] /\ (IsOpen(k)' <=> IsOpen(k))
      /\ rpc[id].client = "return" /\ rpc'[id].client = "done"
      /\ IsOpen(id) /\ ~IsOpen(id)' /\ rpc[id].client # "wait"
  BY DEF CallReturns, CallsBut, SameMade, IsOpen, ServedAt
<1>b. Pops(t, id) /\ Popped(t) /\ OnTop(t, <<"client_call", id>>)
  BY DEF CallReturns, Pops
<1>c. \A k \in CallId : Before(id, k) => ~IsOpen(k)
  BY <1>a, StacksParts DEF CallsNest
<1>d. PICK n \in Nat : /\ n = Len(thread[t].stack) /\ n > 0
                       /\ thread[t].stack[n] = <<"client_call", id>>
                       /\ Len(thread'[t].stack) = n - 1
  BY <1>b DEF StacksTyped, OnTop, Popped
<1>e. ASSUME n > 1
      PROVE  LET k == thread[t].stack[n - 1][2] IN
             /\ thread[t].stack[n - 1] = <<"handleCall", k>> /\ k \in CallId
             /\ thread'[t].stack[n - 1] = <<"handleCall", k>>
             /\ Before(k, id) /\ rpc[id].used = ServedAt(k)
             /\ \A l \in CallId : Before(k, l) => ~IsOpen(l)'
  <2> DEFINE f == thread[t].stack[n - 1]
             k == f[2]
  <2>1. n - 1 \in 1..n - 1 /\ n - 1 \in 1..n /\ (n - 1) + 1 = n
    BY <1>e
  <2>2. NextFrame(t, n - 1)
    BY <1>d, <2>1, StacksParts DEF FramesNest
  <2>3. k \in CallId /\ f[1] \in {"client_call", "handleCall"} /\ f = <<f[1], k>>
    BY <1>d, <2>1 DEF StacksTyped
  <2>4. /\ f[1] # "client_call" /\ Before(k, id) /\ rpc[id].used = ServedAt(k)
        /\ \A l \in CallId : Before(l, id) /\ Before(k, l) => ~IsOpen(l)
    BY <1>d, <2>1, <2>2 DEF NextFrame
  <2>5. ASSUME NEW l \in CallId, Before(k, l) PROVE ~IsOpen(l)'
    <3>1. l = id \/ Before(l, id) \/ Before(id, l)
      <4>1. k[1] = id[1] /\ k[1] = l[1]
        BY <2>4, <2>5 DEF Before
      <4> QED
        BY <4>1, CallOrder
    <3> QED
      BY <1>a, <1>c, <2>4, <2>5, <3>1
  <2>6. thread'[t].stack[n - 1] = f
    BY <1>b, <1>d, <2>1 DEF Popped
  <2> QED
    BY <2>3, <2>4, <2>5, <2>6
<1>1. EndsAgree'
  <2> SUFFICES ASSUME NEW k \in CallId
               PROVE  (/\ rpc[k].client \notin {"wait", "return", "done"} => rpc[k].server = "none"
                       /\ rpc[k].client \in {"return", "done"} => rpc[k].server \in Through
                       /\ rpc[k].client # "none" => rpc[k].conn \in Conn /\ rpc[k].tid = Tid[k[1]]
                       /\ rpc[k].server \in {"reply", "sending"} => rpc[k].rtid = Tid[k[1]]
                       /\ rpc[k].server \in {"release", "reply", "sending"} \cup Through
                            => rpc[k].served = "Success"
                       /\ rpc[k].reply \in {None, k})'
    BY DEF EndsAgree
  <2>1. CASE k # id
    BY <1>a, <2>1, StacksParts DEF EndsAgree
  <2>2. CASE k = id
    BY <1>a, <2>2, StacksParts DEF EndsAgree, CallReturns, SameAnswer, SameMade
  <2> QED
    BY <2>1, <2>2
<1>2. CallsNest'
  <2> SUFFICES ASSUME NEW k \in CallId, NEW l \in CallId, Before(k, l)
               PROVE  /\ rpc'[k].client = "none" => rpc'[l].client = "none"
                      /\ IsOpen(k)' /\ IsOpen(l)' => rpc'[k].client = "wait" /\ rpc'[k].server = "running"
    BY DEF CallsNest, Before
  <2>1. /\ rpc[k].client = "none" => rpc[l].client = "none"
        /\ IsOpen(k) /\ IsOpen(l) => rpc[k].client = "wait" /\ rpc[k].server = "running"
    BY StacksParts DEF CallsNest
  <2>2. rpc'[k].client = "none" => rpc[k].client = "none" /\ rpc'[k] = rpc[k]
    BY <1>a
  <2>3. rpc[l].client = "none" => rpc'[l].client = "none"
    BY <1>a
  <2>4. IsOpen(k)' /\ IsOpen(l)' => k # id /\ l # id /\ IsOpen(k) /\ IsOpen(l)
    BY <1>a
  <2> QED
    BY <1>a, <2>1, <2>2, <2>3, <2>4
<1>3. CallsFramed'
  <2> SUFFICES ASSUME NEW k \in CallId, IsOpen(k)'
               PROVE  \E u \in Thread : \E i \in 1..Len(thread'[u].stack) :
                        thread'[u].stack[i] = <<"client_call", k>>
    BY IsFrame DEF CallsFramed, FramesTyped
  <2>1. k # id /\ IsOpen(k)
    BY <1>a
  <2>2. PICK u \in Thread : <<"client_call", k>> \in Frames(u)
    BY <2>1, StacksParts DEF CallsFramed
  <2>3. PICK i \in 1..Len(thread[u].stack) : thread[u].stack[i] = <<"client_call", k>>
    BY <2>2, IsFrame DEF FramesTyped
  <2>4. u = t => i # Len(thread[t].stack)
    BY <1>d, <2>1, <2>3
  <2>5. i \in 1..Len(thread'[u].stack) /\ thread'[u].stack[i] = <<"client_call", k>>
    BY <1>b, <2>3, <2>4, PoppedKeeps
  <2> QED
    BY <2>5
<1>4. Covered'
  <2>1. ASSUME NEW k \in CallId, NEW l \in CallId, Before(k, l), IsOpen(k)', IsOpen(l)', NEW u \in Thread,
               thread'[u].stack # <<>>, Last(thread'[u].stack) = <<"handleCall", k>>
        PROVE  FALSE
    <3>1. CASE u = t
      <4>1. n > 1
        BY <1>d, <2>1, <3>1 DEF StacksTyped
      <4>2. thread'[t].stack[n - 1] = <<"handleCall", k>>
        BY <1>d, <2>1, <3>1 DEF Last
      <4>3. k = thread[t].stack[n - 1][2]
        BY <1>e, <4>1, <4>2
      <4> QED
        BY <1>e, <2>1, <4>1, <4>3
    <3>2. CASE u # t
      <4>1. thread[u].stack = thread'[u].stack
        BY <1>b, <3>2 DEF Popped
      <4>2. IsOpen(k) /\ IsOpen(l)
        BY <1>a, <2>1
      <4> QED
        BY <2>1, <4>1, <4>2, StacksParts DEF Covered
    <3> QED
      BY <3>1, <3>2
  <2>2. ASSUME NEW k \in CallId, thread'[k[1]].stack = <<>> PROVE ~IsOpen(k)'
    <3>1. CASE k[1] = t
      <4>1. n = 1
        <5>1. Len(thread'[t].stack) = 0
          BY <2>2, <3>1 DEF StacksTyped
        <5>2. n - 1 = 0
          BY <1>d, <5>1
        <5> QED
          BY <5>2
      <4>2. t = id[1] /\ \A l \in CallId : Before(l, id) => ~IsOpen(l)
        <5>1. thread[t].stack # <<>>
          BY <1>d DEF StacksTyped
        <5> QED
          BY <1>d, <4>1, <5>1, StacksParts DEF FramesNest, FirstFrame
      <4>3. k = id \/ Before(k, id) \/ Before(id, k)
        BY <3>1, <4>2, CallOrder
      <4> QED
        BY <1>a, <1>c, <4>2, <4>3
    <3>2. CASE k[1] # t
      <4>1. k[1] \in Thread /\ thread[k[1]].stack = <<>>
        BY <1>b, <2>2, <3>2, Clients DEF Popped
      <4> QED
        BY <1>a, <4>1, StacksParts DEF Covered
    <3> QED
      BY <3>1, <3>2
  <2> QED
    BY <2>1, <2>2 DEF Covered, Before
<1>5. UsedRight'
  <2>1. ASSUME NEW u \in Thread, thread'[u].used_connection # None
        PROVE  Owner[thread'[u].used_connection] = Process(u)
    <3>1. CASE u = t
      <4>1. n \in 1..Len(thread[t].stack) /\ thread'[t].used_connection = rpc[id].used
        BY <1>d DEF CallReturns
      <4> QED
        BY <1>d, <2>1, <3>1, <4>1, StacksParts DEF UsedRight
    <3>2. CASE u # t
      BY <1>b, <2>1, <3>2, StacksParts DEF UsedRight, Popped
    <3> QED
      BY <3>1, <3>2
  <2>2. ASSUME NEW u \in Thread, NEW k \in CallId,
               thread'[u].stack # <<>> /\ Last(thread'[u].stack) = <<"handleCall", k>>,
               rpc'[k].server = "running"
        PROVE  thread'[u].used_connection = ServedAt(k)'
    <3>1. CASE u = t
      <4>1. n > 1
        BY <1>d, <2>2, <3>1 DEF StacksTyped
      <4>2. thread'[t].stack[n - 1] = <<"handleCall", k>>
        BY <1>d, <2>2, <3>1 DEF Last
      <4>3. rpc[id].used = ServedAt(k)
        BY <1>e, <4>1, <4>2
      <4> QED
        BY <1>a, <3>1, <4>3 DEF CallReturns
    <3>2. CASE u # t
      <4>1. thread[u].stack = thread'[u].stack /\ thread[u].used_connection = thread'[u].used_connection
        BY <1>b, <3>2 DEF Popped
      <4> QED
        BY <1>a, <2>2, <4>1, StacksParts DEF UsedRight
    <3> QED
      BY <3>1, <3>2
  <2> QED
    BY <1>b, <2>1, <2>2, PopUsed DEF UsedRight, Process
<1> QED
  BY <1>1, <1>2, <1>3, <1>4, <1>5, <1>b, PopStacks, PopNest DEF StacksRight

\* StacksRight stays when handleCall returns.
LEMMA HandlerLeavesStacks ==
    ASSUME StacksRight, StacksTyped, StacksTyped', FramesTyped, FramesTyped',
           NEW t \in Thread, NEW id \in CallId, HandlerLeaves(t, id)
    PROVE  StacksRight'
<1>a. /\ \A k \in CallId : /\ rpc'[k].client = rpc[k].client
                           /\ ServedAt(k)' = ServedAt(k)
                           /\ IsOpen(k)' <=> IsOpen(k)
                           /\ k # id => rpc'[k] = rpc[k]
      /\ rpc[id].server = "leave" /\ rpc'[id].server = "done"
  BY DEF HandlerLeaves, CallsBut, SameMade, IsOpen, ServedAt
<1>b. Pops(t, id) /\ Popped(t) /\ OnTop(t, <<"handleCall", id>>)
  BY DEF HandlerLeaves, Pops
<1>d. PICK n \in Nat : /\ n = Len(thread[t].stack) /\ n > 0
                       /\ thread[t].stack[n] = <<"handleCall", id>>
                       /\ Len(thread'[t].stack) = n - 1
  BY <1>b DEF StacksTyped, OnTop, Popped
<1>e. ASSUME n > 1 PROVE thread'[t].stack[n - 1][1] # "handleCall"
  <2>1. n - 1 \in 1..n - 1 /\ n - 1 \in 1..n /\ (n - 1) + 1 = n
    BY <1>e
  <2>2. NextFrame(t, n - 1)
    BY <1>d, <2>1, StacksParts DEF FramesNest
  <2>3. thread'[t].stack[n - 1] = thread[t].stack[n - 1]
    BY <1>b, <1>d, <2>1 DEF Popped
  <2> QED
    BY <1>d, <2>1, <2>2, <2>3 DEF NextFrame
<1>f. \A u \in Thread, k \in CallId :
        thread'[u].stack # <<>> /\ Last(thread'[u].stack) = <<"handleCall", k>>
          => u # t /\ thread[u].stack = thread'[u].stack
  <2> SUFFICES ASSUME NEW u \in Thread, NEW k \in CallId,
                      thread'[u].stack # <<>>, Last(thread'[u].stack) = <<"handleCall", k>>
               PROVE  u # t /\ thread[u].stack = thread'[u].stack
    OBVIOUS
  <2>1. ASSUME u = t PROVE FALSE
    <3>1. n > 1
      BY <1>d, <2>1 DEF StacksTyped
    <3>2. thread'[t].stack[n - 1] = <<"handleCall", k>>
      BY <1>d, <2>1 DEF Last
    <3> QED
      BY <1>e, <3>1, <3>2
  <2> QED
    BY <1>b, <2>1 DEF Popped
<1>1. EndsAgree'
  <2> SUFFICES ASSUME NEW k \in CallId
               PROVE  (/\ rpc[k].client \notin {"wait", "return", "done"} => rpc[k].server = "none"
                       /\ rpc[k].client \in {"return", "done"} => rpc[k].server \in Through
                       /\ rpc[k].client # "none" => rpc[k].conn \in Conn /\ rpc[k].tid = Tid[k[1]]
                       /\ rpc[k].server \in {"reply", "sending"} => rpc[k].rtid = Tid[k[1]]
                       /\ rpc[k].server \in {"release", "reply", "sending"} \cup Through
                            => rpc[k].served = "Success"
                       /\ rpc[k].reply \in {None, k})'
    BY DEF EndsAgree
  <2>1. CASE k # id
    BY <1>a, <2>1, StacksParts DEF EndsAgree
  <2>2. CASE k = id
    BY <1>a, <2>2, StacksParts DEF EndsAgree, HandlerLeaves, SameAnswer, SameMade, Through
  <2> QED
    BY <2>1, <2>2
<1>2. CallsNest'
  <2> SUFFICES ASSUME NEW k \in CallId, NEW l \in CallId, Before(k, l)
               PROVE  /\ rpc'[k].client = "none" => rpc'[l].client = "none"
                      /\ IsOpen(k)' /\ IsOpen(l)' => rpc'[k].client = "wait" /\ rpc'[k].server = "running"
    BY DEF CallsNest, Before
  <2>1. /\ rpc[k].client = "none" => rpc[l].client = "none"
        /\ IsOpen(k) /\ IsOpen(l) => rpc[k].client = "wait" /\ rpc[k].server = "running"
    BY StacksParts DEF CallsNest
  <2> QED
    BY <1>a, <2>1
<1>3. CallsFramed'
  <2> SUFFICES ASSUME NEW k \in CallId, IsOpen(k)'
               PROVE  \E u \in Thread : \E i \in 1..Len(thread'[u].stack) :
                        thread'[u].stack[i] = <<"client_call", k>>
    BY IsFrame DEF CallsFramed, FramesTyped
  <2>1. PICK u \in Thread : <<"client_call", k>> \in Frames(u)
    BY <1>a, StacksParts DEF CallsFramed
  <2>2. PICK i \in 1..Len(thread[u].stack) : thread[u].stack[i] = <<"client_call", k>>
    BY <2>1, IsFrame DEF FramesTyped
  <2>3. u = t => i # Len(thread[t].stack)
    BY <1>d, <2>2
  <2>4. i \in 1..Len(thread'[u].stack) /\ thread'[u].stack[i] = <<"client_call", k>>
    BY <1>b, <2>2, <2>3, PoppedKeeps
  <2> QED
    BY <2>4
<1>4. Covered'
  <2>1. ASSUME NEW k \in CallId, NEW l \in CallId, Before(k, l), IsOpen(k)', IsOpen(l)', NEW u \in Thread,
               thread'[u].stack # <<>>, Last(thread'[u].stack) = <<"handleCall", k>>
        PROVE  FALSE
    <3>1. thread[u].stack = thread'[u].stack
      BY <1>f, <2>1
    <3> QED
      BY <1>a, <2>1, <3>1, StacksParts DEF Covered
  <2>2. ASSUME NEW k \in CallId, thread'[k[1]].stack = <<>> PROVE ~IsOpen(k)'
    <3>1. k[1] \in Thread /\ k[1] \in Client
      BY Clients
    <3>2. k[1] # t
      <4> SUFFICES ASSUME k[1] = t PROVE FALSE
        OBVIOUS
      <4>1. n = 1
        <5>1. Len(thread'[t].stack) = 0
          BY <2>2 DEF StacksTyped
        <5>2. n - 1 = 0
          BY <1>d, <5>1
        <5> QED
          BY <5>2
      <4>2. 1 \in 1..Len(thread[t].stack) /\ thread[t].stack[1] = <<"handleCall", id>>
        BY <1>d, <4>1
      <4>3. t \in Client
        BY <3>1
      <4>4. thread[t].stack[1][1] = "client_call"
        BY <4>2, <4>3, StacksParts DEF FramesOwned
      <4> QED
        BY <4>2, <4>4
    <3>3. thread[k[1]].stack = <<>>
      BY <1>b, <2>2, <3>1, <3>2 DEF Popped
    <3> QED
      BY <1>a, <3>3, StacksParts DEF Covered
  <2> QED
    BY <2>1, <2>2 DEF Covered, Before
<1>5. UsedRight'
  <2>1. \A u \in Thread : thread'[u].used_connection = thread[u].used_connection
    BY <1>b DEF HandlerLeaves, Popped
  <2>2. ASSUME NEW u \in Thread, NEW k \in CallId,
               thread'[u].stack # <<>> /\ Last(thread'[u].stack) = <<"handleCall", k>>,
               rpc'[k].server = "running"
        PROVE  thread'[u].used_connection = ServedAt(k)'
    <3>1. thread[u].stack = thread'[u].stack
      BY <1>f, <2>2
    <3>2. k # id
      BY <1>a, <2>2
    <3> QED
      BY <1>a, <2>1, <2>2, <3>1, <3>2, StacksParts DEF UsedRight
  <2>3. \A u \in Thread : thread'[u].used_connection # None =>
            Owner[thread'[u].used_connection] = Process(u)
    BY <2>1, StacksParts DEF UsedRight
  <2> QED
    BY <1>b, <2>2, <2>3, PopUsed DEF UsedRight, Process
<1> QED
  BY <1>1, <1>2, <1>3, <1>4, <1>5, <1>b, PopStacks, PopNest DEF StacksRight

=============================================================================
